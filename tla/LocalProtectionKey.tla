------------------------- MODULE LocalProtectionKey -------------------------
(***************************************************************************)
(* The at-rest Local Protection Key (LPK) of passkey-core/src/keywrap.rs.  *)
(*                                                                         *)
(* Several processes of one OS user (Desktop, Service), each with several  *)
(* threads, share one OS-keyring slot, one "an LPK was minted" marker file *)
(* and the files sealed under the key.  A process caches the key it        *)
(* resolved behind a mutex.  Every call on the keyring or on the marker is *)
(* a step of its own; the keyring may fail, the user may wipe it and a     *)
(* process may die between any two steps.                                  *)
(*                                                                         *)
(* Data abstraction: a key is a model value, a sealed file is the key it   *)
(* is sealed under (AES-GCM opens with that key and no other).             *)
(***************************************************************************)
EXTENDS Functions

CONSTANTS
    Process,        \* processes of this OS user
    Thread,         \* threads, all processes together
    ProcOf,         \* the process a thread runs in
    File,           \* files that hold an at-rest secret
    Key,            \* the 32-byte values OsRng may produce
    HeadlessKey,    \* the key HKDF-derived from the headless secret: one for all
                    \* processes, which are given the same secret if any
    NoKey,          \* an empty keyring slot, an empty cache
    Absent,         \* a file that does not exist
    Plain,          \* a legacy file without the wrap magic
    Nobody,         \* a free mutex
    Hosts           \* the kinds of host: is the keyring persistent, and what
                    \* headless-secret configuration has each process

ASSUME ProcOfAssumption == ProcOf \in [Thread -> Process]
ASSUME KeyAssumption ==
    /\ HeadlessKey \notin Key \cup {NoKey, Absent, Plain}
    /\ NoKey \notin Key \cup {Absent, Plain}
    /\ Absent \notin Key \cup {Plain}
    /\ Plain \notin Key
ASSUME NobodyAssumption == Nobody \notin Thread
ASSUME HostAssumption ==
    Hosts \subseteq BOOLEAN \X [Process -> {"unset", "secret", "file", "unusable"}]

VARIABLES
    osPersistent, \* OS_KEYRING_PERSISTENT: Windows, macOS
    headlessConf, \* each process's headless-secret configuration
    keyring,  \* the OS-keyring slot
    marker,   \* whether lpk-v1.minted exists
    file,     \* the files at rest
    cache,    \* per process: lpk_cache
    lock,     \* per process: the holder of the cache mutex
    pc,       \* per thread: where it is in a keywrap call
    call,     \* per thread: the call under way
    held,     \* per thread: the key in its hands
    res,      \* per thread: how its last call ended
    minted,   \* history: every key ever generated
    lost,     \* history: keys that were in the keyring and are gone
    raced,    \* history: a key was stored while another thread was minting
    reminted, \* history: a deliberate re-mint has stored a key
    unmarked  \* history: a key was wiped before its marker was recorded

host == <<osPersistent, headlessConf>>
disk == <<keyring, marker, file>>
history == <<minted, lost, raced, reminted, unmarked>>
vars == <<host, keyring, marker, file, cache, lock, pc, call, held, res,
          minted, lost, raced, reminted, unmarked>>

AnyKey == Key \cup {HeadlessKey}
Calls == [op : {"wrap", "unwrap", "remint", "source"}, f : File,
          data : AnyKey \cup {NoKey}]

\* Mode under which a call resolves the key (enum LpkMode).
LpkMode(op) == CASE op = "unwrap" -> "Open"
                 [] op = "remint" -> "Remint"
                 [] OTHER         -> "Seal"

\* What headless_lpk_from may answer under a configuration: NoKey is
\* Ok(None); "Err" covers both variables set, a short secret, an unreadable
\* file.
HeadlessLpkFrom(conf) == CASE conf = "unset"    -> {NoKey}
                           [] conf = "secret"   -> {HeadlessKey}
                           [] conf = "file"     -> {HeadlessKey, "Err"}
                           [] conf = "unusable" -> {"Err"}

TypeOK ==
    /\ host \in Hosts
    /\ keyring \in Key \cup {NoKey}
    /\ marker \in BOOLEAN
    /\ file \in [File -> AnyKey \cup {Absent, Plain}]
    /\ cache \in [Process -> AnyKey \cup {NoKey}]
    /\ lock \in [Process -> Thread \cup {Nobody}]
    /\ pc \in [Thread -> {"idle", "lock", "get", "check", "set", "reread",
                          "mark", "headless", "store", "use"}]
    /\ call \in [Thread -> Calls \cup {NoKey}]
    /\ held \in [Thread -> AnyKey \cup {NoKey}]
    /\ res \in [Thread -> {"none", "ok", "missing", "failed", "wrong_key"}]
    /\ minted \in SUBSET Key
    /\ lost \in SUBSET Key
    /\ raced \in BOOLEAN
    /\ reminted \in BOOLEAN
    /\ unmarked \in BOOLEAN

\* A first run, or an install whose LPK predates the marker; the files are
\* missing, legacy plaintext, or sealed under that LPK.  A build whose keyring
\* is not persistent never put a key there.
Init ==
    /\ \E h \in Hosts : osPersistent = h[1] /\ headlessConf = h[2]
    /\ keyring \in IF osPersistent THEN Key \cup {NoKey} ELSE {NoKey}
    /\ marker = FALSE
    /\ file \in [File -> {Absent, Plain} \cup ({keyring} \ {NoKey})]
    /\ cache = [p \in Process |-> NoKey]
    /\ lock = [p \in Process |-> Nobody]
    /\ pc = [t \in Thread |-> "idle"]
    /\ call = [t \in Thread |-> NoKey]
    /\ held = [t \in Thread |-> NoKey]
    /\ res = [t \in Thread |-> "none"]
    /\ minted = {keyring} \ {NoKey}
    /\ lost = {}
    /\ raced = FALSE
    /\ reminted = FALSE
    /\ unmarked = FALSE

-----------------------------------------------------------------------------
Goto(t, l) == pc' = [pc EXCEPT ![t] = l]
Hold(t, k) == held' = [held EXCEPT ![t] = k]

\* Mutant of Return: the mutex guard is leaked.
ReturnLeakingGuard(t, r) ==
    /\ Goto(t, "idle")
    /\ Hold(t, NoKey)
    /\ call' = [call EXCEPT ![t] = NoKey]
    /\ res' = [res EXCEPT ![t] = r]
    /\ UNCHANGED lock

\* The call returns, dropping the mutex guard if it held it.
Return(t, r) ==
    /\ Goto(t, "idle")
    /\ Hold(t, NoKey)
    /\ call' = [call EXCEPT ![t] = NoKey]
    /\ res' = [res EXCEPT ![t] = r]
    /\ lock' = [p \in Process |-> IF lock[p] = t THEN Nobody ELSE lock[p]]

\* Bound: a call starts only while Key holds a fresh key for every thread, so
\* that a finite Key never stops a call half way.
FreshKeysLeft == ExistsInjection(Thread, Key \ minted)

\* wrap_at_rest, local_protection_source, remint_local_protection_key.
Call(t, op, f) ==
    /\ pc[t] = "idle"
    /\ FreshKeysLeft
    /\ op \in {"wrap", "source", "remint"}
    /\ Goto(t, "lock")
    /\ call' = [call EXCEPT ![t] = [op |-> op, f |-> f, data |-> NoKey]]
    /\ res' = [res EXCEPT ![t] = "none"]
    /\ UNCHANGED <<disk, cache, lock, held, history>>

\* unwrap_at_rest on what a reader found in the file.  Legacy plaintext is
\* handed back at once, without a key.
CallUnwrap(t, f) ==
    /\ pc[t] = "idle"
    /\ file[f] # Absent
    /\ IF file[f] = Plain
         THEN /\ res' = [res EXCEPT ![t] = "ok"]
              /\ UNCHANGED <<pc, call>>
         ELSE /\ Goto(t, "lock")
              /\ call' = [call EXCEPT ![t] =
                            [op |-> "unwrap", f |-> f, data |-> file[f]]]
              /\ res' = [res EXCEPT ![t] = "none"]
    /\ UNCHANGED <<disk, cache, lock, held, history>>

\* Mutants of Acquire: the cache is not consulted; the OS keyring is asked on
\* a build where it is not persistent.
AcquireUncached(t) ==
    LET p == ProcOf[t] IN
    /\ pc[t] = "lock"
    /\ lock[p] = Nobody
    /\ lock' = [lock EXCEPT ![p] = t]
    /\ Goto(t, IF osPersistent THEN "get" ELSE "headless")
    /\ UNCHANGED <<disk, cache, call, held, res, history>>
AcquireAnyHost(t) ==
    LET p == ProcOf[t] IN
    /\ pc[t] = "lock"
    /\ lock[p] = Nobody
    /\ IF cache[p] # NoKey /\ call[t].op # "remint"
         THEN Hold(t, cache[p]) /\ Goto(t, "use") /\ UNCHANGED lock
         ELSE /\ lock' = [lock EXCEPT ![p] = t]
              /\ Goto(t, "get")
              /\ UNCHANGED held
    /\ UNCHANGED <<disk, cache, call, res, history>>

\* cached_lpk takes the mutex; a cached key is returned whatever the mode.
\* remint_local_protection_key resolves again without looking at the cache.
\* choose_lpk asks the OS keyring only where it is persistent.
Acquire(t) ==
    LET p == ProcOf[t] IN
    /\ pc[t] = "lock"
    /\ lock[p] = Nobody
    /\ IF cache[p] # NoKey /\ call[t].op # "remint"
         THEN /\ Hold(t, cache[p])
              /\ Goto(t, "use")
              /\ UNCHANGED lock
         ELSE /\ lock' = [lock EXCEPT ![p] = t]
              /\ Goto(t, IF osPersistent THEN "get" ELSE "headless")
              /\ UNCHANGED held
    /\ UNCHANGED <<disk, cache, call, res, history>>

\* resolve_lpk, first store.get(): a failure (or an entry that does not
\* decode) is not LPK_MISSING, so choose_lpk turns to the headless secret.
Get(t) ==
    /\ pc[t] = "get"
    /\ \/ Goto(t, "headless") /\ UNCHANGED held
       \/ /\ keyring # NoKey
          /\ Hold(t, keyring)
          /\ Goto(t, IF marker THEN "store" ELSE "mark")
       \/ /\ keyring = NoKey
          /\ Goto(t, "check")
          /\ UNCHANGED held
    /\ UNCHANGED <<disk, cache, lock, call, res, history>>

\* Mutant of MayMint: the marker is not consulted.
MayMintUnmarked(t) == LpkMode(call[t].op) # "Open"

\* Whether this call may mint into the empty slot.
MayMint(t) == \/ LpkMode(call[t].op) = "Remint"
              \/ LpkMode(call[t].op) = "Seal" /\ ~marker

\* resolve_lpk on an empty slot: refuse with LPK_MISSING, or generate a key.
Check(t) ==
    /\ pc[t] = "check"
    /\ IF MayMint(t)
         THEN \E k \in Key \ minted :
                /\ Hold(t, k)
                /\ minted' = minted \cup {k}
                /\ Goto(t, "set")
                /\ UNCHANGED <<lock, call, res>>
         ELSE Return(t, "missing") /\ UNCHANGED minted
    /\ UNCHANGED <<disk, cache, lost, raced, reminted, unmarked>>

\* Another thread has seen the slot empty and has not stored its key yet.
OtherMinting(t) == \E u \in Thread \ {t} : pc[u] \in {"check", "set"}

\* Mutant of Set: a failed write goes unnoticed.
SetIgnoringErrors(t) ==
    /\ pc[t] = "set"
    /\ \/ /\ keyring' = held[t]
          /\ lost' = lost \cup ({keyring} \ {NoKey})
          /\ raced' = (raced \/ OtherMinting(t))
          /\ reminted' = (reminted \/ LpkMode(call[t].op) = "Remint")
       \/ UNCHANGED <<keyring, lost, raced, reminted>>
    /\ Goto(t, "reread")
    /\ UNCHANGED <<marker, file, cache, lock, call, held, res, minted, unmarked>>

\* store.set(): last write wins.  If it fails, choose_lpk turns to headless.
Set(t) ==
    /\ pc[t] = "set"
    /\ \/ /\ keyring' = held[t]
          /\ lost' = lost \cup ({keyring} \ {NoKey})
          /\ raced' = (raced \/ OtherMinting(t))
          /\ reminted' = (reminted \/ LpkMode(call[t].op) = "Remint")
          /\ Goto(t, "reread")
          /\ UNCHANGED held
       \/ /\ Goto(t, "headless")
          /\ Hold(t, NoKey)
          /\ UNCHANGED <<keyring, lost, raced, reminted>>
    /\ UNCHANGED <<marker, file, cache, lock, call, res, minted, unmarked>>

\* Adopt what actually persisted; keep the own key if the read gives nothing;
\* an answer that does not decode is an error, so choose_lpk turns to headless.
Reread(t) ==
    /\ pc[t] = "reread"
    /\ \/ keyring # NoKey /\ Hold(t, keyring) /\ Goto(t, "mark")
       \/ UNCHANGED held /\ Goto(t, "mark")
       \/ Hold(t, NoKey) /\ Goto(t, "headless")
    /\ UNCHANGED <<disk, cache, lock, call, res, history>>

\* write_minted_marker, after a mint or as a backfill: best effort.
Mark(t) ==
    /\ pc[t] = "mark"
    /\ marker' \in {TRUE, marker}
    /\ Goto(t, "store")
    /\ UNCHANGED <<keyring, file, cache, lock, call, held, res, history>>

\* The headless half of choose_lpk.  Every process that has a usable secret
\* derives the same key from it.
Headless(t) ==
    /\ pc[t] = "headless"
    /\ \E a \in HeadlessLpkFrom(headlessConf[ProcOf[t]]) :
         IF a = HeadlessKey
           THEN Hold(t, a) /\ Goto(t, "store") /\ UNCHANGED <<lock, call, res>>
           ELSE Return(t, "failed")
    /\ UNCHANGED <<disk, cache, history>>

\* The resolved key enters the cache and the guard is dropped.
Store(t) ==
    /\ pc[t] = "store"
    /\ cache' = [cache EXCEPT ![ProcOf[t]] = held[t]]
    /\ IF call[t].op \in {"remint", "source"}
         THEN Return(t, "ok")
         ELSE /\ Goto(t, "use")
              /\ lock' = [lock EXCEPT ![ProcOf[t]] = Nobody]
              /\ UNCHANGED <<call, held, res>>
    /\ UNCHANGED <<disk, history>>

\* wrap_with_key and the caller's write, or unwrap_with_key, outside the lock.
Use(t) ==
    /\ pc[t] = "use"
    /\ IF call[t].op = "wrap"
         THEN /\ file' = [file EXCEPT ![call[t].f] = held[t]]
              /\ Return(t, "ok")
         ELSE /\ Return(t, IF call[t].op = "unwrap" /\ call[t].data # held[t]
                             THEN "wrong_key" ELSE "ok")
              /\ UNCHANGED file
    /\ UNCHANGED <<keyring, marker, cache, history>>

\* The process is killed and started again: its cache and its calls are gone.
Crash(p) ==
    LET Mine(t) == ProcOf[t] = p IN
    /\ cache' = [cache EXCEPT ![p] = NoKey]
    /\ lock' = [lock EXCEPT ![p] = Nobody]
    /\ pc' = [t \in Thread |-> IF Mine(t) THEN "idle" ELSE pc[t]]
    /\ call' = [t \in Thread |-> IF Mine(t) THEN NoKey ELSE call[t]]
    /\ held' = [t \in Thread |-> IF Mine(t) THEN NoKey ELSE held[t]]
    /\ res' = [t \in Thread |-> IF Mine(t) THEN "none" ELSE res[t]]
    /\ UNCHANGED <<disk, history>>

\* The credential store is wiped or the profile reset (not by this program).
Wipe ==
    /\ keyring # NoKey
    /\ keyring' = NoKey
    /\ lost' = lost \cup {keyring}
    /\ unmarked' = (unmarked \/ ~marker)
    /\ UNCHANGED <<marker, file, cache, lock, pc, call, held, res,
                   minted, raced, reminted>>

\* One step of the keywrap call a thread is in.
Step(t) == /\ \/ Get(t) \/ Check(t) \/ Set(t) \/ Reread(t)
              \/ Mark(t) \/ Headless(t) \/ Store(t) \/ Use(t)
           /\ UNCHANGED host

Next == /\ \/ \E t \in Thread :
                \/ \E f \in File, op \in {"wrap", "source", "remint"} :
                     Call(t, op, f)
                \/ \E f \in File : CallUnwrap(t, f)
                \/ Acquire(t)
                \/ Step(t)
           \/ \E p \in Process : Crash(p)
           \/ Wipe
        /\ UNCHANGED host

Spec == Init /\ [][Next]_vars

\* A running thread keeps executing its call; nothing obliges callers, the
\* user or a crash to act.
FairSpec == Spec /\ \A t \in Thread : WF_vars(Step(t))

-----------------------------------------------------------------------------
\* Every key some process works with or some file is sealed under.
KeysInUse == ({file[f] : f \in File} \ {Absent, Plain})
                \cup ({cache[p] : p \in Process} \ {NoKey})

\* As long as no two first-launch mints overlap, whatever was sealed or cached
\* is under the key the keyring holds, under the headless secret's key, or
\* under a key the keyring has lost: minting, adopting and caching leave no
\* file under a key that was never the machine's (keywrap.rs resolve_lpk,
\* cached_lpk, local_protection_key "## Concurrency").
SealsRecoverable ==
    ~raced => KeysInUse \subseteq {keyring, HeadlessKey} \cup lost

\* "A missing LPK is an error, never a silent re-mint": while the keyring
\* holds a key, an earlier key can only have been lost to a deliberate
\* re-mint, to overlapping mints, or to a wipe that came before the marker
\* was recorded (keywrap.rs resolve_lpk, write_minted_marker).
NoSilentRemint ==
    keyring # NoKey /\ lost # {} => reminted \/ raced \/ unmarked

\* Two key sources are in play when the OS keyring is used and some process
\* may fall back to a headless secret.
MixedSources ==
    osPersistent /\ \E p \in Process :
                      HeadlessKey \in HeadlessLpkFrom(headlessConf[p])

\* unwrap_at_rest answers "wrong key" only on a machine that lost a key, let
\* two mints overlap, or mixes the OS keyring with a headless secret.
WrongKeyOnlyAfterLoss ==
    (\E t \in Thread : res[t] = "wrong_key")
        => lost # {} \/ raced \/ MixedSources

\* A step replaces no cached key, except as a re-mint or a restart.
KeepsCache ==
    \A p \in Process :
        cache[p] # NoKey /\ cache'[p] # cache[p] =>
            \/ cache'[p] = NoKey
            \/ \E t \in Thread : /\ ProcOf[t] = p
                                 /\ pc[t] = "store"
                                 /\ call[t].op = "remint"

\* "every later call in this process returns the identical key": a cached key
\* is replaced only by remint_local_protection_key or by a restart, whatever
\* the threads of the process do at the same time (cached_lpk's mutex).
StableInProcess == [][KeepsCache]_vars

\* No path through resolve_lpk and choose_lpk leaves the cache mutex locked.
MutexReleased ==
    \A p \in Process : lock[p] # Nobody ~> lock[p] = Nobody

\* What the comment of local_protection_key promises for a fresh machine:
\* "independent processes converge on one key".  Processes that resolved the
\* key from a keyring that never lost one through a wipe hold the same key.
ProcessesConverge ==
    \A p, q \in Process :
        cache[p] # NoKey /\ cache[q] # NoKey => cache[p] = cache[q]

-----------------------------------------------------------------------------
\* The parts of the inductive invariant behind the safety properties.

\* Locations between taking the cache mutex and dropping it.
Critical == {"get", "check", "set", "reread", "mark", "headless", "store"}

\* The mutex is held exactly by the thread that resolves the key, and a
\* resolution other than a re-mint runs on an empty cache.
MutexInv ==
    \A t \in Thread :
        /\ pc[t] \in Critical =>
             /\ lock[ProcOf[t]] = t
             /\ call[t].op # "remint" => cache[ProcOf[t]] = NoKey
        /\ pc[t] # "idle" => call[t] \in Calls
        /\ pc[t] # "idle" /\ call[t].op = "unwrap" => call[t].data # NoKey
        /\ pc[t] \in {"set", "reread", "mark", "store", "use"} =>
             held[t] # NoKey
        /\ pc[t] = "set" => held[t] \in Key
        /\ pc[t] \in {"get", "check", "set", "reread"} => osPersistent

\* While a thread that saw the slot empty has not stored its key the slot is
\* still empty, unless mints overlapped.
EmptyWhileMinting ==
    ~raced => \A t \in Thread : pc[t] \in {"check", "set"} => keyring = NoKey

\* Keys a process may work with.
Recoverable == {keyring, HeadlessKey, NoKey} \cup lost

\* Every key in a thread's hands, in its argument, in a cache or on disk is
\* recoverable; only a key not stored yet is not.
InFlightInv ==
    ~raced =>
        /\ \A t \in Thread : pc[t] # "set" => held[t] \in Recoverable
        /\ \A t \in Thread : pc[t] # "idle" => call[t].data \in Recoverable
        /\ \A p \in Process : cache[p] \in Recoverable
        /\ \A f \in File : file[f] \in Recoverable \cup {Absent, Plain}

\* A loss is on record in the marker before anyone decides to mint again.
LossRecorded ==
    /\ lost # {} => marker \/ unmarked \/ raced
    /\ \A t \in Thread :
         pc[t] = "set" /\ lost # {} =>
            LpkMode(call[t].op) = "Remint" \/ unmarked \/ raced

\* Where only one source is in play no key of the other one appears.
OneSource(k) ==
    k \notin {NoKey, Absent, Plain} /\ ~MixedSources =>
        (k = HeadlessKey <=> ~osPersistent)

SourceInv ==
    /\ ~osPersistent => keyring = NoKey
    /\ \A t \in Thread : OneSource(held[t])
    /\ \A t \in Thread : pc[t] # "idle" => OneSource(call[t].data)
    /\ \A p \in Process : OneSource(cache[p])
    /\ \A f \in File : OneSource(file[f])

IndInv == /\ TypeOK /\ MutexInv /\ EmptyWhileMinting /\ InFlightInv
          /\ LossRecorded /\ SourceInv
          /\ NoSilentRemint /\ WrongKeyOnlyAfterLoss

-----------------------------------------------------------------------------
\* What MutexReleased rests on besides fairness.

\* How much of resolve_lpk and choose_lpk lies ahead of a location.
Ahead(l) == CASE l = "get"      -> 6
              [] l = "check"    -> 5
              [] l = "set"      -> 4
              [] l = "reread"   -> 3
              [] l = "mark"     -> 2
              [] l = "headless" -> 2
              [] l = "store"    -> 1
              [] OTHER          -> 0

\* No guard is leaked: the mutex of a process is locked only by one of its
\* threads, and that thread is resolving the key (cached_lpk).
GuardHeld ==
    \A p \in Process :
        lock[p] # Nobody => /\ lock[p] \in Thread /\ ProcOf[lock[p]] = p
                            /\ pc[lock[p]] \in Critical

\* A thread that resolves the key only moves forward, by every step it takes
\* itself; no other thread or process moves it, but for a restart.
ResolutionAdvances ==
    \A t \in Thread :
        pc[t] \in Critical =>
            /\ pc'[t] # pc[t] => Ahead(pc'[t]) < Ahead(pc[t])
            /\ Step(t) => pc'[t] # pc[t]
=============================================================================
