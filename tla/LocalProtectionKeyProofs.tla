---------------------- MODULE LocalProtectionKeyProofs ----------------------
(***************************************************************************)
(* Proofs about LocalProtectionKey, for every set of processes, threads,   *)
(* files and keys.  IndInv is inductive: one lemma per action shows that   *)
(* the action preserves it, with one step per conjunct; the theorems at    *)
(* the end read the safety properties off it.                              *)
(***************************************************************************)
EXTENDS LocalProtectionKey, TLAPS

USE ProcOfAssumption, KeyAssumption, NobodyAssumption, HostAssumption

\* wrap_at_rest, local_protection_source and remint_local_protection_key only
\* register the call.
LEMMA CallPreserves ==
  ASSUME IndInv, NEW t \in Thread, NEW f \in File, NEW op \in {"wrap", "source", "remint"}, Call(t, op, f), UNCHANGED host
  PROVE  IndInv'
<1> USE DEF IndInv, disk, history, host
<1>1. TypeOK'
  BY DEF TypeOK, MutexInv, Calls, AnyKey, Critical, Call, Goto
<1>2. MutexInv'
  BY DEF TypeOK, MutexInv, Critical, Calls, AnyKey, Call, Goto
<1>3. EmptyWhileMinting'
  BY DEF TypeOK, EmptyWhileMinting, Call, Goto
<1>4. InFlightInv'
  BY DEF TypeOK, EmptyWhileMinting, InFlightInv, Recoverable, MutexInv,
         Calls, AnyKey, Call, Goto
<1>5. LossRecorded'
  BY DEF TypeOK, EmptyWhileMinting, LossRecorded, LpkMode, MutexInv, Calls,
         Call, Goto
<1>6. SourceInv'
  BY DEF TypeOK, SourceInv, OneSource, MixedSources, MutexInv, Calls, Call,
         Goto
<1>7. NoSilentRemint'
  BY DEF TypeOK, EmptyWhileMinting, LossRecorded, NoSilentRemint, LpkMode,
         MutexInv, Calls, Call, Goto
<1>8. WrongKeyOnlyAfterLoss'
  BY DEF TypeOK, WrongKeyOnlyAfterLoss, InFlightInv, SourceInv, OneSource,
         Recoverable, MutexInv, Calls, MixedSources, Call, Goto
<1> QED BY <1>1, <1>2, <1>3, <1>4, <1>5, <1>6, <1>7, <1>8

\* unwrap_at_rest takes a copy of the file, which is recoverable like the file.
LEMMA CallUnwrapPreserves ==
  ASSUME IndInv, NEW t \in Thread, NEW f \in File, CallUnwrap(t, f), UNCHANGED host
  PROVE  IndInv'
<1> USE DEF IndInv, disk, history, host
<1>1. TypeOK'
  BY DEF TypeOK, MutexInv, Calls, AnyKey, Critical, CallUnwrap, Goto
<1>2. MutexInv'
  BY DEF TypeOK, MutexInv, Critical, Calls, AnyKey, CallUnwrap, Goto
<1>3. EmptyWhileMinting'
  BY DEF TypeOK, EmptyWhileMinting, CallUnwrap, Goto
<1>4. InFlightInv'
  BY DEF TypeOK, EmptyWhileMinting, InFlightInv, Recoverable, MutexInv,
         Calls, AnyKey, CallUnwrap, Goto
<1>5. LossRecorded'
  BY DEF TypeOK, EmptyWhileMinting, LossRecorded, LpkMode, MutexInv, Calls,
         CallUnwrap, Goto
<1>6. SourceInv'
  BY DEF TypeOK, SourceInv, OneSource, MixedSources, MutexInv, Calls,
         CallUnwrap, Goto
<1>7. NoSilentRemint'
  BY DEF TypeOK, EmptyWhileMinting, LossRecorded, NoSilentRemint, LpkMode,
         MutexInv, Calls, CallUnwrap, Goto
<1>8. WrongKeyOnlyAfterLoss'
  BY DEF TypeOK, WrongKeyOnlyAfterLoss, InFlightInv, SourceInv, OneSource,
         Recoverable, MutexInv, Calls, MixedSources, CallUnwrap, Goto
<1> QED BY <1>1, <1>2, <1>3, <1>4, <1>5, <1>6, <1>7, <1>8

\* cached_lpk and remint_local_protection_key take the mutex or hand out the
\* cached key.
LEMMA AcquirePreserves ==
  ASSUME IndInv, NEW t \in Thread, Acquire(t), UNCHANGED host
  PROVE  IndInv'
<1> USE DEF IndInv, disk, history, host
<1>1. TypeOK'
  BY DEF TypeOK, MutexInv, Calls, AnyKey, Critical, Acquire, Goto, Hold
<1>2. MutexInv'
  BY DEF TypeOK, MutexInv, Critical, Calls, AnyKey, Acquire, Goto, Hold
<1>3. EmptyWhileMinting'
  BY DEF TypeOK, EmptyWhileMinting, Acquire, Goto, Hold
<1>4. InFlightInv'
  BY DEF TypeOK, EmptyWhileMinting, InFlightInv, Recoverable, MutexInv,
         Calls, AnyKey, Acquire, Goto, Hold
<1>5. LossRecorded'
  BY DEF TypeOK, EmptyWhileMinting, LossRecorded, LpkMode, MutexInv, Calls,
         Acquire, Goto, Hold
<1>6. SourceInv'
  BY DEF TypeOK, SourceInv, OneSource, MixedSources, MutexInv, Calls,
         Acquire, Goto, Hold
<1>7. NoSilentRemint'
  BY DEF TypeOK, EmptyWhileMinting, LossRecorded, NoSilentRemint, LpkMode,
         MutexInv, Calls, Acquire, Goto, Hold
<1>8. WrongKeyOnlyAfterLoss'
  BY DEF TypeOK, WrongKeyOnlyAfterLoss, InFlightInv, SourceInv, OneSource,
         Recoverable, MutexInv, Calls, MixedSources, Acquire, Goto, Hold
<1> QED BY <1>1, <1>2, <1>3, <1>4, <1>5, <1>6, <1>7, <1>8

\* The first read of the slot: the key found is the keyring's, and a thread that
\* finds none does so while the slot is empty.
LEMMA GetPreserves ==
  ASSUME IndInv, NEW t \in Thread, Get(t), UNCHANGED host
  PROVE  IndInv'
<1> USE DEF IndInv, disk, history, host
<1>1. TypeOK'
  BY DEF TypeOK, MutexInv, Calls, AnyKey, Critical, Get, Goto, Hold
<1>2. MutexInv'
  BY DEF TypeOK, MutexInv, Critical, Calls, AnyKey, Get, Goto, Hold
<1>3. EmptyWhileMinting'
  BY DEF TypeOK, EmptyWhileMinting, Get, Goto, Hold
<1>4. InFlightInv'
  BY DEF TypeOK, EmptyWhileMinting, InFlightInv, Recoverable, MutexInv,
         Calls, AnyKey, Get, Goto, Hold
<1>5. LossRecorded'
  BY DEF TypeOK, EmptyWhileMinting, LossRecorded, LpkMode, MutexInv, Calls,
         Get, Goto, Hold
<1>6. SourceInv'
  BY DEF TypeOK, SourceInv, OneSource, MixedSources, MutexInv, Calls, Get,
         Goto, Hold
<1>7. NoSilentRemint'
  BY DEF TypeOK, EmptyWhileMinting, LossRecorded, NoSilentRemint, LpkMode,
         MutexInv, Calls, Get, Goto, Hold
<1>8. WrongKeyOnlyAfterLoss'
  BY DEF TypeOK, WrongKeyOnlyAfterLoss, InFlightInv, SourceInv, OneSource,
         Recoverable, MutexInv, Calls, MixedSources, Get, Goto, Hold
<1> QED BY <1>1, <1>2, <1>3, <1>4, <1>5, <1>6, <1>7, <1>8

\* The mint decision: without a marker nothing was lost, or it is on record that
\* a wipe came too early.
LEMMA CheckPreserves ==
  ASSUME IndInv, NEW t \in Thread, Check(t), UNCHANGED host
  PROVE  IndInv'
<1> USE DEF IndInv, disk, history, host
<1>0. \/ /\ Return(t, "missing")
         /\ UNCHANGED minted
      \/ \E k \in Key : /\ held' = [held EXCEPT ![t] = k]
                        /\ minted' = minted \cup {k}
                        /\ pc' = [pc EXCEPT ![t] = "set"]
                        /\ UNCHANGED <<lock, call, res>>
  BY DEF Check, Hold, Goto
<1>1. TypeOK'
  <2>1. CASE Return(t, "missing") /\ UNCHANGED minted
    BY <2>1 DEF TypeOK, AnyKey, Check, Return, Goto, Hold
  <2>2. ASSUME NEW k \in Key,
               held' = [held EXCEPT ![t] = k],
               minted' = minted \cup {k},
               pc' = [pc EXCEPT ![t] = "set"],
               UNCHANGED <<lock, call, res>>
        PROVE  TypeOK'
    BY <2>2 DEF TypeOK, AnyKey, Check
  <2> QED BY <1>0, <2>1, <2>2
<1>2. MutexInv'
  BY DEF TypeOK, MutexInv, Critical, Calls, AnyKey, Check, MayMint, Return,
         Goto, Hold
<1>3. EmptyWhileMinting'
  BY DEF TypeOK, EmptyWhileMinting, Check, MayMint, Return, Goto, Hold
<1>4. InFlightInv'
  <2>1. CASE Return(t, "missing") /\ UNCHANGED minted
    BY <2>1 DEF TypeOK, InFlightInv, Recoverable, Check, Return, Goto, Hold
  <2>2. ASSUME NEW k \in Key,
               held' = [held EXCEPT ![t] = k],
               pc' = [pc EXCEPT ![t] = "set"],
               UNCHANGED <<lock, call, res>>
        PROVE  InFlightInv'
    BY <2>2 DEF TypeOK, InFlightInv, Recoverable, Check
  <2> QED BY <1>0, <2>1, <2>2
<1>5. LossRecorded'
  BY DEF TypeOK, EmptyWhileMinting, LossRecorded, LpkMode, MutexInv, Calls,
         Check, MayMint, Return, Goto, Hold
<1>6. SourceInv'
  BY DEF TypeOK, SourceInv, OneSource, MixedSources, MutexInv, Calls, Check,
         MayMint, Return, Goto, Hold
<1>7. NoSilentRemint'
  BY DEF TypeOK, EmptyWhileMinting, LossRecorded, NoSilentRemint, LpkMode,
         MutexInv, Calls, Check, MayMint, Return, Goto, Hold
<1>8. WrongKeyOnlyAfterLoss'
  BY DEF TypeOK, WrongKeyOnlyAfterLoss, InFlightInv, SourceInv, OneSource,
         Recoverable, MutexInv, Calls, MixedSources, Check, MayMint, Return, Goto,
         Hold
<1> QED BY <1>1, <1>2, <1>3, <1>4, <1>5, <1>6, <1>7, <1>8

\* Storing the fresh key: the slot was empty unless mints overlapped, and a
\* thread still minting is now recorded as overlapping.
LEMMA SetPreserves ==
  ASSUME IndInv, NEW t \in Thread, Set(t), UNCHANGED host
  PROVE  IndInv'
<1> USE DEF IndInv, disk, history, host
<1>1. TypeOK'
  BY DEF TypeOK, MutexInv, Calls, AnyKey, Critical, Set, OtherMinting, Goto,
         Hold
<1>2. MutexInv'
  BY DEF TypeOK, MutexInv, Critical, Calls, AnyKey, Set, OtherMinting, Goto,
         Hold
<1>3. EmptyWhileMinting'
  BY DEF TypeOK, EmptyWhileMinting, Set, OtherMinting, Goto, Hold
<1>4. InFlightInv'
  BY DEF TypeOK, EmptyWhileMinting, InFlightInv, Recoverable, MutexInv,
         Calls, AnyKey, Set, OtherMinting, Goto, Hold
<1>5. LossRecorded'
  BY DEF TypeOK, EmptyWhileMinting, LossRecorded, LpkMode, MutexInv, Calls,
         Set, OtherMinting, Goto, Hold
<1>6. SourceInv'
  BY DEF TypeOK, SourceInv, OneSource, MixedSources, MutexInv, Calls, Set,
         OtherMinting, Goto, Hold
<1>7. NoSilentRemint'
  BY DEF TypeOK, EmptyWhileMinting, LossRecorded, NoSilentRemint, LpkMode,
         MutexInv, Calls, Set, OtherMinting, Goto, Hold
<1>8. WrongKeyOnlyAfterLoss'
  BY DEF TypeOK, WrongKeyOnlyAfterLoss, InFlightInv, SourceInv, OneSource,
         Recoverable, MutexInv, Calls, MixedSources, Set, OtherMinting, Goto, Hold
<1> QED BY <1>1, <1>2, <1>3, <1>4, <1>5, <1>6, <1>7, <1>8

\* Adopting what persisted.
LEMMA RereadPreserves ==
  ASSUME IndInv, NEW t \in Thread, Reread(t), UNCHANGED host
  PROVE  IndInv'
<1> USE DEF IndInv, disk, history, host
<1>1. TypeOK'
  BY DEF TypeOK, MutexInv, Calls, AnyKey, Critical, Reread, Goto, Hold
<1>2. MutexInv'
  BY DEF TypeOK, MutexInv, Critical, Calls, AnyKey, Reread, Goto, Hold
<1>3. EmptyWhileMinting'
  BY DEF TypeOK, EmptyWhileMinting, Reread, Goto, Hold
<1>4. InFlightInv'
  BY DEF TypeOK, EmptyWhileMinting, InFlightInv, Recoverable, MutexInv,
         Calls, AnyKey, Reread, Goto, Hold
<1>5. LossRecorded'
  BY DEF TypeOK, EmptyWhileMinting, LossRecorded, LpkMode, MutexInv, Calls,
         Reread, Goto, Hold
<1>6. SourceInv'
  BY DEF TypeOK, SourceInv, OneSource, MixedSources, MutexInv, Calls,
         Reread, Goto, Hold
<1>7. NoSilentRemint'
  BY DEF TypeOK, EmptyWhileMinting, LossRecorded, NoSilentRemint, LpkMode,
         MutexInv, Calls, Reread, Goto, Hold
<1>8. WrongKeyOnlyAfterLoss'
  BY DEF TypeOK, WrongKeyOnlyAfterLoss, InFlightInv, SourceInv, OneSource,
         Recoverable, MutexInv, Calls, MixedSources, Reread, Goto, Hold
<1> QED BY <1>1, <1>2, <1>3, <1>4, <1>5, <1>6, <1>7, <1>8

\* Recording the marker, or failing to.
LEMMA MarkPreserves ==
  ASSUME IndInv, NEW t \in Thread, Mark(t), UNCHANGED host
  PROVE  IndInv'
<1> USE DEF IndInv, disk, history, host
<1>1. TypeOK'
  BY DEF TypeOK, MutexInv, Calls, AnyKey, Critical, Mark, Goto
<1>2. MutexInv'
  BY DEF TypeOK, MutexInv, Critical, Calls, AnyKey, Mark, Goto
<1>3. EmptyWhileMinting'
  BY DEF TypeOK, EmptyWhileMinting, Mark, Goto
<1>4. InFlightInv'
  BY DEF TypeOK, EmptyWhileMinting, InFlightInv, Recoverable, MutexInv,
         Calls, AnyKey, Mark, Goto
<1>5. LossRecorded'
  <2>1. CASE marker' = TRUE
    BY <2>1 DEF TypeOK, EmptyWhileMinting, LossRecorded, LpkMode, MutexInv, Calls, Mark, Goto
  <2>2. CASE marker' = marker
    BY <2>2 DEF TypeOK, EmptyWhileMinting, LossRecorded, LpkMode, MutexInv, Calls, Mark, Goto
  <2> QED BY <2>1, <2>2 DEF Mark
<1>6. SourceInv'
  BY DEF TypeOK, SourceInv, OneSource, MixedSources, MutexInv, Calls, Mark,
         Goto
<1>7. NoSilentRemint'
  BY DEF TypeOK, EmptyWhileMinting, LossRecorded, NoSilentRemint, LpkMode,
         MutexInv, Calls, Mark, Goto
<1>8. WrongKeyOnlyAfterLoss'
  BY DEF TypeOK, WrongKeyOnlyAfterLoss, InFlightInv, SourceInv, OneSource,
         Recoverable, MutexInv, Calls, MixedSources, Mark, Goto
<1> QED BY <1>1, <1>2, <1>3, <1>4, <1>5, <1>6, <1>7, <1>8

\* The headless source, which never mints.
LEMMA HeadlessPreserves ==
  ASSUME IndInv, NEW t \in Thread, Headless(t), UNCHANGED host
  PROVE  IndInv'
<1> USE DEF IndInv, disk, history, host
<1>1. TypeOK'
  BY DEF TypeOK, MutexInv, Calls, AnyKey, Critical, Headless, Return, Goto,
         Hold
<1>2. MutexInv'
  BY DEF TypeOK, MutexInv, Critical, Calls, AnyKey, Headless, Return, Goto,
         Hold
<1>3. EmptyWhileMinting'
  BY DEF TypeOK, EmptyWhileMinting, Headless, Return, Goto, Hold
<1>4. InFlightInv'
  BY DEF TypeOK, EmptyWhileMinting, InFlightInv, Recoverable, MutexInv,
         Calls, AnyKey, Headless, Return, Goto, Hold
<1>5. LossRecorded'
  BY DEF TypeOK, EmptyWhileMinting, LossRecorded, LpkMode, MutexInv, Calls,
         Headless, Return, Goto, Hold
<1>6. SourceInv'
  BY DEF TypeOK, SourceInv, OneSource, MixedSources, MutexInv, Calls,
         Headless, Return, Goto, Hold
<1>7. NoSilentRemint'
  BY DEF TypeOK, EmptyWhileMinting, LossRecorded, NoSilentRemint, LpkMode,
         MutexInv, Calls, Headless, Return, Goto, Hold
<1>8. WrongKeyOnlyAfterLoss'
  BY DEF TypeOK, WrongKeyOnlyAfterLoss, InFlightInv, SourceInv, OneSource,
         Recoverable, MutexInv, Calls, MixedSources, Headless, Return, Goto, Hold
<1> QED BY <1>1, <1>2, <1>3, <1>4, <1>5, <1>6, <1>7, <1>8

\* Filling the cache, under the mutex.
LEMMA StorePreserves ==
  ASSUME IndInv, NEW t \in Thread, Store(t), UNCHANGED host
  PROVE  IndInv'
<1> USE DEF IndInv, disk, history, host
<1>1. TypeOK'
  BY DEF TypeOK, MutexInv, Calls, AnyKey, Critical, Store, Return, Goto,
         Hold
<1>2. MutexInv'
  BY DEF TypeOK, MutexInv, Critical, Calls, AnyKey, Store, Return, Goto,
         Hold
<1>3. EmptyWhileMinting'
  BY DEF TypeOK, EmptyWhileMinting, Store, Return, Goto, Hold
<1>4. InFlightInv'
  BY DEF TypeOK, EmptyWhileMinting, InFlightInv, Recoverable, MutexInv,
         Calls, AnyKey, Store, Return, Goto, Hold
<1>5. LossRecorded'
  BY DEF TypeOK, EmptyWhileMinting, LossRecorded, LpkMode, MutexInv, Calls,
         Store, Return, Goto, Hold
<1>6. SourceInv'
  BY DEF TypeOK, SourceInv, OneSource, MixedSources, MutexInv, Calls, Store,
         Return, Goto, Hold
<1>7. NoSilentRemint'
  BY DEF TypeOK, EmptyWhileMinting, LossRecorded, NoSilentRemint, LpkMode,
         MutexInv, Calls, Store, Return, Goto, Hold
<1>8. WrongKeyOnlyAfterLoss'
  BY DEF TypeOK, WrongKeyOnlyAfterLoss, InFlightInv, SourceInv, OneSource,
         Recoverable, MutexInv, Calls, MixedSources, Store, Return, Goto, Hold
<1> QED BY <1>1, <1>2, <1>3, <1>4, <1>5, <1>6, <1>7, <1>8

\* Sealing or opening outside the mutex: two recoverable keys of one source on a
\* machine without losses are the same key.
LEMMA UsePreserves ==
  ASSUME IndInv, NEW t \in Thread, Use(t), UNCHANGED host
  PROVE  IndInv'
<1> USE DEF IndInv, disk, history, host
<1>1. TypeOK'
  BY DEF TypeOK, MutexInv, Calls, AnyKey, Critical, Use, Return, Goto, Hold
<1>2. MutexInv'
  BY DEF TypeOK, MutexInv, Critical, Calls, AnyKey, Use, Return, Goto, Hold
<1>3. EmptyWhileMinting'
  BY DEF TypeOK, EmptyWhileMinting, Use, Return, Goto, Hold
<1>4. InFlightInv'
  <2>1. CASE call[t].op = "wrap"
    BY <2>1 DEF TypeOK, InFlightInv, Recoverable, Use, Return, Goto, Hold
  <2>2. CASE call[t].op # "wrap"
    BY <2>2 DEF TypeOK, InFlightInv, Recoverable, Use, Return, Goto, Hold
  <2> QED BY <2>1, <2>2
<1>5. LossRecorded'
  BY DEF TypeOK, EmptyWhileMinting, LossRecorded, LpkMode, MutexInv, Calls,
         Use, Return, Goto, Hold
<1>6. SourceInv'
  <2>1. CASE call[t].op = "wrap"
    BY <2>1 DEF TypeOK, SourceInv, OneSource, MixedSources, Use, Return, Goto,
                Hold
  <2>2. CASE call[t].op # "wrap"
    BY <2>2 DEF TypeOK, SourceInv, OneSource, MixedSources, Use, Return, Goto,
                Hold
  <2> QED BY <2>1, <2>2
<1>7. NoSilentRemint'
  BY DEF TypeOK, EmptyWhileMinting, LossRecorded, NoSilentRemint, LpkMode,
         MutexInv, Calls, Use, Return, Goto, Hold
<1>8. WrongKeyOnlyAfterLoss'
  BY DEF TypeOK, WrongKeyOnlyAfterLoss, InFlightInv, SourceInv, OneSource,
         Recoverable, MutexInv, Calls, MixedSources, Use, Return, Goto, Hold
<1> QED BY <1>1, <1>2, <1>3, <1>4, <1>5, <1>6, <1>7, <1>8

\* A restart forgets a process's keys and calls.
LEMMA CrashPreserves ==
  ASSUME IndInv, NEW p \in Process, Crash(p), UNCHANGED host
  PROVE  IndInv'
<1> USE DEF IndInv, disk, history, host
<1>1. TypeOK'
  BY DEF TypeOK, MutexInv, Calls, AnyKey, Critical, Crash
<1>2. MutexInv'
  BY DEF TypeOK, MutexInv, Critical, Calls, AnyKey, Crash
<1>3. EmptyWhileMinting'
  BY DEF TypeOK, EmptyWhileMinting, Crash
<1>4. InFlightInv'
  BY DEF TypeOK, EmptyWhileMinting, InFlightInv, Recoverable, MutexInv,
         Calls, AnyKey, Crash
<1>5. LossRecorded'
  BY DEF TypeOK, EmptyWhileMinting, LossRecorded, LpkMode, MutexInv, Calls,
         Crash
<1>6. SourceInv'
  BY DEF TypeOK, SourceInv, OneSource, MixedSources, MutexInv, Calls, Crash
<1>7. NoSilentRemint'
  BY DEF TypeOK, EmptyWhileMinting, LossRecorded, NoSilentRemint, LpkMode,
         MutexInv, Calls, Crash
<1>8. WrongKeyOnlyAfterLoss'
  BY DEF TypeOK, WrongKeyOnlyAfterLoss, InFlightInv, SourceInv, OneSource,
         Recoverable, MutexInv, Calls, MixedSources, Crash
<1> QED BY <1>1, <1>2, <1>3, <1>4, <1>5, <1>6, <1>7, <1>8

\* A wipe empties the slot, so the keys that were in it become lost ones; no
\* thread is minting at that moment unless mints overlapped.
LEMMA WipePreserves ==
  ASSUME IndInv, Wipe, UNCHANGED host
  PROVE  IndInv'
<1> USE DEF IndInv, disk, history, host
<1>1. TypeOK'
  BY DEF TypeOK, MutexInv, Calls, AnyKey, Critical, Wipe
<1>2. MutexInv'
  BY DEF TypeOK, MutexInv, Critical, Calls, AnyKey, Wipe
<1>3. EmptyWhileMinting'
  BY DEF TypeOK, EmptyWhileMinting, Wipe
<1>4. InFlightInv'
  BY DEF TypeOK, EmptyWhileMinting, InFlightInv, Recoverable, MutexInv,
         Calls, AnyKey, Wipe
<1>5. LossRecorded'
  BY DEF TypeOK, EmptyWhileMinting, LossRecorded, LpkMode, MutexInv, Calls,
         Wipe
<1>6. SourceInv'
  BY DEF TypeOK, SourceInv, OneSource, MixedSources, MutexInv, Calls, Wipe
<1>7. NoSilentRemint'
  BY DEF TypeOK, EmptyWhileMinting, LossRecorded, NoSilentRemint, LpkMode,
         MutexInv, Calls, Wipe
<1>8. WrongKeyOnlyAfterLoss'
  BY DEF TypeOK, WrongKeyOnlyAfterLoss, InFlightInv, SourceInv, OneSource,
         Recoverable, MutexInv, Calls, MixedSources, Wipe
<1> QED BY <1>1, <1>2, <1>3, <1>4, <1>5, <1>6, <1>7, <1>8

\* Stuttering.
LEMMA StutterPreserves ==
  ASSUME IndInv, UNCHANGED vars
  PROVE  IndInv'
<1> USE DEF IndInv, disk, history, host
<1>1. TypeOK'
  BY DEF TypeOK, MutexInv, Calls, AnyKey, Critical, vars
<1>2. MutexInv'
  BY DEF TypeOK, MutexInv, Critical, Calls, AnyKey, vars
<1>3. EmptyWhileMinting'
  BY DEF TypeOK, EmptyWhileMinting, vars
<1>4. InFlightInv'
  BY DEF TypeOK, EmptyWhileMinting, InFlightInv, Recoverable, MutexInv,
         Calls, AnyKey, vars
<1>5. LossRecorded'
  BY DEF TypeOK, EmptyWhileMinting, LossRecorded, LpkMode, MutexInv, Calls,
         vars
<1>6. SourceInv'
  BY DEF TypeOK, SourceInv, OneSource, MixedSources, MutexInv, Calls, vars
<1>7. NoSilentRemint'
  BY DEF TypeOK, EmptyWhileMinting, LossRecorded, NoSilentRemint, LpkMode,
         MutexInv, Calls, vars
<1>8. WrongKeyOnlyAfterLoss'
  BY DEF TypeOK, WrongKeyOnlyAfterLoss, InFlightInv, SourceInv, OneSource,
         Recoverable, MutexInv, Calls, MixedSources, vars
<1> QED BY <1>1, <1>2, <1>3, <1>4, <1>5, <1>6, <1>7, <1>8

\* Every initial state satisfies the inductive invariant.
LEMMA InitEstablishes == Init => IndInv
<1> SUFFICES ASSUME Init PROVE IndInv
  OBVIOUS
<1> USE DEF Init
<1>1. TypeOK
  <2>0. host \in Hosts
    <3>1. PICK h \in Hosts : osPersistent = h[1] /\ headlessConf = h[2]
      OBVIOUS
    <3>2. h = <<h[1], h[2]>>
      OBVIOUS
    <3> QED BY <3>1, <3>2 DEF host
  <2>1. keyring \in Key \cup {NoKey}
    OBVIOUS
  <2>2. file \in [File -> AnyKey \cup {Absent, Plain}]
    BY <2>1 DEF AnyKey
  <2>3. minted \in SUBSET Key
    BY <2>1
  <2> QED BY <2>0, <2>1, <2>2, <2>3 DEF TypeOK
<1>2. MutexInv /\ EmptyWhileMinting
  BY DEF MutexInv, EmptyWhileMinting, Critical
<1>3. InFlightInv
  BY DEF InFlightInv, Recoverable
<1>4. LossRecorded /\ NoSilentRemint
  BY DEF LossRecorded, NoSilentRemint
<1>5. SourceInv
  BY DEF SourceInv, OneSource
<1>6. WrongKeyOnlyAfterLoss
  BY DEF WrongKeyOnlyAfterLoss
<1> QED BY <1>1, <1>2, <1>3, <1>4, <1>5, <1>6 DEF IndInv

\* Every step preserves it.
LEMMA NextPreserves == IndInv /\ [Next]_vars => IndInv'
<1> SUFFICES ASSUME IndInv, [Next]_vars PROVE IndInv'
  OBVIOUS
<1>1. ASSUME NEW t \in Thread, NEW f \in File,
             NEW op \in {"wrap", "source", "remint"}, Call(t, op, f), UNCHANGED host
      PROVE  IndInv'
  BY <1>1, CallPreserves
<1>2. ASSUME NEW t \in Thread, NEW f \in File, CallUnwrap(t, f), UNCHANGED host
      PROVE  IndInv'
  BY <1>2, CallUnwrapPreserves
<1>3. ASSUME NEW t \in Thread, Acquire(t), UNCHANGED host
      PROVE  IndInv'
  BY <1>3, AcquirePreserves
<1>4. ASSUME NEW t \in Thread, Step(t)
      PROVE  IndInv'
  BY <1>4, GetPreserves, CheckPreserves, SetPreserves, RereadPreserves,
     MarkPreserves, HeadlessPreserves, StorePreserves, UsePreserves DEF Step
<1>5. ASSUME NEW p \in Process, Crash(p), UNCHANGED host
      PROVE  IndInv'
  BY <1>5, CrashPreserves
<1>6. CASE Wipe /\ UNCHANGED host
  BY <1>6, WipePreserves
<1>7. CASE UNCHANGED vars
  BY <1>7, StutterPreserves
<1> QED BY <1>1, <1>2, <1>3, <1>4, <1>5, <1>6, <1>7 DEF Next

\* The inductive invariant holds in every reachable state.
THEOREM Invariance == Spec => []IndInv
  BY InitEstablishes, NextPreserves, PTL DEF Spec

\* Every variable keeps its type, for every machine.
THEOREM TypeCorrect == Spec => []TypeOK
<1>1. IndInv => TypeOK
  BY DEF IndInv
<1> QED BY <1>1, Invariance, PTL

\* Whatever was sealed or cached stays under a key that is or was the
\* machine's, unless two mints overlapped (resolve_lpk, cached_lpk).
THEOREM Recoverability == Spec => []SealsRecoverable
<1>1. IndInv => SealsRecoverable
  <2> SUFFICES ASSUME IndInv, ~raced, NEW k \in KeysInUse
               PROVE  k \in {keyring, HeadlessKey} \cup lost
    BY DEF SealsRecoverable
  <2>1. k \in Recoverable /\ k # NoKey
    BY DEF KeysInUse, IndInv, InFlightInv, TypeOK, AnyKey, Recoverable
  <2> QED BY <2>1 DEF Recoverable
<1> QED BY <1>1, Invariance, PTL

\* A lost key is replaced only deliberately, by overlapping mints, or when it
\* was lost before the marker was recorded (resolve_lpk).
THEOREM NoSilentRemintHolds == Spec => []NoSilentRemint
<1>1. IndInv => NoSilentRemint
  BY DEF IndInv
<1> QED BY <1>1, Invariance, PTL

\* unwrap_at_rest meets a wrong key only on a machine that lost a key, let
\* mints overlap or mixes two sources.
THEOREM WrongKeyExplained == Spec => []WrongKeyOnlyAfterLoss
<1>1. IndInv => WrongKeyOnlyAfterLoss
  BY DEF IndInv
<1> QED BY <1>1, Invariance, PTL

\* A process keeps the key it cached until a re-mint or a restart
\* (cached_lpk's mutex).
THEOREM StableInProcessHolds == Spec => StableInProcess
<1>1. IndInv /\ [Next]_vars => KeepsCache
  <2> SUFFICES ASSUME IndInv, [Next]_vars PROVE KeepsCache
    OBVIOUS
  <2>1. ASSUME NEW t \in Thread, Store(t)
        PROVE  KeepsCache
    BY <2>1 DEF IndInv, TypeOK, MutexInv, Critical, Store, KeepsCache
  <2>2. ASSUME NEW q \in Process, Crash(q)
        PROVE  KeepsCache
    BY <2>2 DEF IndInv, TypeOK, Crash, KeepsCache
  <2>3. CASE cache' = cache
    BY <2>3 DEF KeepsCache
  <2>4. \/ cache' = cache
        \/ \E t \in Thread : Store(t)
        \/ \E q \in Process : Crash(q)
    BY DEF Next, Step, Call, CallUnwrap, Acquire, Get, Check, Set, Reread, Mark,
           Headless, Use, Wipe, vars
  <2> QED BY <2>1, <2>2, <2>3, <2>4
<1> QED BY <1>1, Invariance, PTL DEF StableInProcess, Spec

\* The mutex is taken by the thread that goes on to resolve, and dropped with
\* the last step of the resolution.
LEMMA GuardPreserved ==
  ASSUME IndInv, GuardHeld, [Next]_vars
  PROVE  GuardHeld'
<1> USE DEF GuardHeld
<1>0. /\ pc \in [Thread -> {"idle", "lock", "get", "check", "set", "reread",
                            "mark", "headless", "store", "use"}]
      /\ lock \in [Process -> Thread \cup {Nobody}]
      /\ \A t \in Thread : pc[t] \in Critical => lock[ProcOf[t]] = t
  BY DEF IndInv, TypeOK, MutexInv
\* A thread that returns holds no guard afterwards, and takes none from others.
<1>1. ASSUME NEW t \in Thread, NEW r, Return(t, r)
      PROVE  GuardHeld'
  BY <1>0, <1>1 DEF Return, Goto
\* A thread that moves inside the resolution keeps its guard.
<1>2. ASSUME NEW t \in Thread, NEW l \in Critical, pc' = [pc EXCEPT ![t] = l], lock' = lock
      PROVE  GuardHeld'
  BY <1>0, <1>2
<1>3. ASSUME NEW t \in Thread, NEW l, pc[t] \notin Critical,
             pc' = [pc EXCEPT ![t] = l], lock' = lock
      PROVE  GuardHeld'
  BY <1>0, <1>3
<1>4. CASE pc' = pc /\ lock' = lock
  BY <1>4
<1>5. ASSUME NEW t \in Thread, NEW f \in File, NEW op, Call(t, op, f)
      PROVE  GuardHeld'
  BY <1>3, <1>5 DEF Call, Goto, Critical
<1>6. ASSUME NEW t \in Thread, NEW f \in File, CallUnwrap(t, f)
      PROVE  GuardHeld'
  BY <1>3, <1>4, <1>6 DEF CallUnwrap, Goto, Critical
<1>7. ASSUME NEW t \in Thread, Acquire(t)
      PROVE  GuardHeld'
  <2>1. CASE lock' = lock
    BY <1>3, <1>7, <2>1 DEF Acquire, Goto, Critical
  <2>2. CASE lock' = [lock EXCEPT ![ProcOf[t]] = t]
    BY <1>0, <1>7, <2>2 DEF Acquire, Goto, Critical
  <2> QED BY <1>7, <2>1, <2>2 DEF Acquire
<1>8. ASSUME NEW t \in Thread, Get(t) \/ Check(t) \/ Set(t) \/ Reread(t) \/ Mark(t) \/ Headless(t)
      PROVE  GuardHeld'
  <2>1. \/ \E l \in Critical : pc' = [pc EXCEPT ![t] = l] /\ lock' = lock
        \/ \E r : Return(t, r)
    BY <1>8 DEF Get, Check, Set, Reread, Mark, Headless, Goto, Critical
  <2> QED BY <1>1, <1>2, <2>1
<1>9. ASSUME NEW t \in Thread, Store(t)
      PROVE  GuardHeld'
  <2>1. CASE \E r : Return(t, r)
    BY <1>1, <2>1
  <2>2. CASE pc' = [pc EXCEPT ![t] = "use"] /\ lock' = [lock EXCEPT ![ProcOf[t]] = Nobody]
    BY <1>0, <1>9, <2>2 DEF Store, Critical
  <2> QED BY <1>9, <2>1, <2>2 DEF Store, Goto
<1>10. ASSUME NEW t \in Thread, Use(t)
       PROVE  GuardHeld'
  <2>1. \E r : Return(t, r)
    BY <1>10 DEF Use
  <2> QED BY <1>1, <2>1
<1>11. ASSUME NEW p \in Process, Crash(p)
       PROVE  GuardHeld'
  BY <1>0, <1>11 DEF Crash
<1>12. CASE Wipe
  BY <1>4, <1>12 DEF Wipe
<1>13. CASE UNCHANGED vars
  BY <1>4, <1>13 DEF vars
<1> QED
  BY <1>5, <1>6, <1>7, <1>8, <1>9, <1>10, <1>11, <1>12, <1>13 DEF Next, Step

\* Every step of the resolution leads to a location with less ahead of it.
LEMMA StepsAdvance ==
  ASSUME IndInv, [Next]_vars
  PROVE  ResolutionAdvances
<1> USE DEF Critical
<1>0. pc \in [Thread -> {"idle", "lock", "get", "check", "set", "reread",
                         "mark", "headless", "store", "use"}]
  BY DEF IndInv, TypeOK
<1>a. /\ Ahead("get") = 6 /\ Ahead("check") = 5 /\ Ahead("set") = 4
      /\ Ahead("reread") = 3 /\ Ahead("mark") = 2 /\ Ahead("headless") = 2
      /\ Ahead("store") = 1 /\ Ahead("use") = 0 /\ Ahead("idle") = 0
  BY DEF Ahead
<1>1. ASSUME NEW t \in Thread, Step(t)
      PROVE  /\ \A u \in Thread : u # t => pc'[u] = pc[u]
             /\ pc[t] \in Critical => Ahead(pc'[t]) < Ahead(pc[t]) /\ pc'[t] # pc[t]
  <2>1. CASE Get(t)
    BY <1>0, <1>a, <2>1 DEF Get, Goto
  <2>2. CASE Check(t)
    BY <1>0, <1>a, <2>2 DEF Check, Return, Goto
  <2>3. CASE Set(t)
    BY <1>0, <1>a, <2>3 DEF Set, Goto
  <2>4. CASE Reread(t)
    BY <1>0, <1>a, <2>4 DEF Reread, Goto
  <2>5. CASE Mark(t)
    <3>1. pc[t] = "mark" /\ pc' = [pc EXCEPT ![t] = "store"]
      BY <2>5 DEF Mark, Goto
    <3> QED BY <1>0, <1>a, <3>1
  <2>6. CASE Headless(t)
    BY <1>0, <1>a, <2>6 DEF Headless, Return, Goto
  <2>7. CASE Store(t)
    BY <1>0, <1>a, <2>7 DEF Store, Return, Goto
  <2>8. CASE Use(t)
    BY <1>0, <1>a, <2>8 DEF Use, Return, Goto
  <2> QED BY <1>1, <2>1, <2>2, <2>3, <2>4, <2>5, <2>6, <2>7, <2>8 DEF Step
<1> SUFFICES ASSUME NEW t \in Thread, pc[t] \in Critical
             PROVE  /\ pc'[t] # pc[t] => Ahead(pc'[t]) < Ahead(pc[t])
                    /\ Step(t) => pc'[t] # pc[t]
  BY DEF ResolutionAdvances
<1>2. Step(t) => pc'[t] # pc[t]
  BY <1>1
<1>3. ASSUME NEW u \in Thread, Step(u)
      PROVE  pc'[t] # pc[t] => Ahead(pc'[t]) < Ahead(pc[t])
  <2>1. CASE u = t
    BY <1>1, <1>3, <2>1
  <2>2. CASE u # t
    BY <1>0, <1>1, <1>3, <2>2
  <2> QED BY <2>1, <2>2
<1>4. ASSUME NEW u \in Thread, NEW f \in File, NEW op, Call(u, op, f)
      PROVE  pc'[t] = pc[t]
  BY <1>0, <1>4 DEF Call, Goto
<1>5. ASSUME NEW u \in Thread, NEW f \in File, CallUnwrap(u, f)
      PROVE  pc'[t] = pc[t]
  BY <1>0, <1>5 DEF CallUnwrap, Goto
<1>6. ASSUME NEW u \in Thread, Acquire(u)
      PROVE  pc'[t] = pc[t]
  BY <1>0, <1>6 DEF Acquire, Goto
<1>7. ASSUME NEW q \in Process, Crash(q)
      PROVE  pc'[t] # pc[t] => Ahead(pc'[t]) < Ahead(pc[t])
  BY <1>0, <1>a, <1>7 DEF Crash
<1>8. ASSUME Wipe \/ UNCHANGED vars
      PROVE  pc'[t] = pc[t]
  BY <1>8 DEF Wipe, vars
<1> HIDE DEF Critical
<1>9. pc'[t] # pc[t] => Ahead(pc'[t]) < Ahead(pc[t])
  BY <1>3, <1>4, <1>5, <1>6, <1>7, <1>8 DEF Next
<1> QED
  BY <1>2, <1>9

\* The part of MutexReleased that holds without fairness: the cache mutex is
\* held only by a thread that is resolving the key, and every step of that
\* thread brings it nearer to dropping the guard (cached_lpk, choose_lpk,
\* resolve_lpk).
THEOREM MutexHolderAdvances == Spec => []GuardHeld /\ [][ResolutionAdvances]_vars
<1>1. Init => GuardHeld
  BY DEF Init, GuardHeld
<1> QED
  BY <1>1, GuardPreserved, StepsAdvance, Invariance, PTL DEF Spec
=============================================================================
