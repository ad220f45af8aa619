--------------------------- MODULE CredentialStore ---------------------------
(***************************************************************************)
(* credential_store: the tokens of a signed-in user as six entries of the  *)
(* OS credential store.  Each call of the store on an entry is one step;   *)
(* it may fail, and the process may die between two of them.  A session's  *)
(* values are its number.  The credential store may hold several items     *)
(* that match one entry (Secret Service allows another program to add      *)
(* one): an entry is the sequence of its items.                            *)
(***************************************************************************)
EXTENDS Naturals, Sequences

CONSTANTS Procs, MaxSessions, MaxFaults, MaxDuplicates

ASSUME CredentialAssumption == {MaxSessions, MaxFaults, MaxDuplicates} \subseteq Nat

VARIABLES entry, credCall, credAnswer, sessions, faults, duplicates

credVars == <<entry, credCall, credAnswer, sessions, faults, duplicates>>

SessionKeys == <<"ACCESS_TOKEN", "REFRESH_TOKEN", "USER_ID", "USER_EMAIL", "TOKEN_EXPIRES_AT">>

Keys == {SessionKeys[i] : i \in DOMAIN SessionKeys} \union {"RECOVERY_HASH"}

(* What a process is doing: which operation, at which entry, for which      *)
(* session; `alone` while no other process has changed an entry since.      *)
CredIdle == [op |-> "idle", at |-> 1, session |-> 0, alone |-> TRUE]

CredInit == /\ entry = [k \in Keys |-> <<>>]
            /\ credCall = [p \in Procs |-> CredIdle]
            /\ credAnswer = [p \in Procs |-> [op |-> "none", session |-> 0, alone |-> TRUE]]
            /\ sessions = 0
            /\ faults = 0
            /\ duplicates = 0

(* The calls of the processes other than p have seen an entry change.                    *)
Disturbed(p) == [q \in Procs |-> IF q = p \/ credCall[q].op = "idle" THEN credCall[q]
                                 ELSE [credCall[q] EXCEPT !.alone = FALSE]]

Answer(p, op) == credAnswer' = [credAnswer EXCEPT ![p] = [op |-> op, session |-> credCall[p].session,
                                                         alone |-> credCall[p].alone]]

(* keyring: the OS credential store, as Entry::set_password, get_password   *)
(* and delete_credential show it.  More than one item is Ambiguous.         *)
SetPassword(items, v) == IF Len(items) > 1 THEN items ELSE <<v>>
Ambiguous(items) == Len(items) > 1

Fails(items) == Ambiguous(items) \/ faults < MaxFaults
CountFault(items) == faults' = IF Ambiguous(items) THEN faults ELSE faults + 1

(* A login obtains a session and calls store_all.                           *)
BeginStoreAll(p) ==
  /\ credCall[p].op = "idle"
  /\ sessions < MaxSessions
  /\ sessions' = sessions + 1
  /\ credCall' = [credCall EXCEPT ![p] = [op |-> "store_all", at |-> 1, session |-> sessions + 1,
                                           alone |-> TRUE]]
  /\ UNCHANGED <<entry, credAnswer, faults, duplicates>>

(* Mutant of KeyAt: the tokens are stored after the user they belong to.    *)
KeyAtTokensLast(p) == SessionKeys[Len(SessionKeys) + 1 - credCall[p].at]

(* The key the next step of store_all or clear_all is about.                *)
KeyAt(p) == SessionKeys[credCall[p].at]

AtLast(p) == credCall[p].at = Len(SessionKeys)

(* One `self.store_...(..)?` of store_all.                                  *)
Store(p) ==
  /\ credCall[p].op = "store_all"
  /\ ~Ambiguous(entry[KeyAt(p)])
  /\ entry' = [entry EXCEPT ![KeyAt(p)] = SetPassword(@, credCall[p].session)]
  /\ IF AtLast(p) THEN /\ credCall' = [Disturbed(p) EXCEPT ![p] = CredIdle]
                       /\ Answer(p, "stored")
                  ELSE /\ credCall' = [Disturbed(p) EXCEPT ![p].at = @ + 1]
                       /\ UNCHANGED credAnswer
  /\ UNCHANGED <<sessions, faults, duplicates>>

(* The first failing store ends store_all; what it has written stays.       *)
StoreFails(p) ==
  /\ credCall[p].op = "store_all"
  /\ Fails(entry[KeyAt(p)])
  /\ CountFault(entry[KeyAt(p)])
  /\ credCall' = [credCall EXCEPT ![p] = CredIdle]
  /\ Answer(p, "err")
  /\ UNCHANGED <<entry, sessions, duplicates>>

BeginClearAll(p) ==
  /\ credCall[p].op = "idle"
  /\ credCall' = [credCall EXCEPT ![p] = [CredIdle EXCEPT !.op = "clear_all"]]
  /\ UNCHANGED <<entry, credAnswer, sessions, faults, duplicates>>

(* The loop of clear_all goes on to the next key, or returns Ok.            *)
AdvanceClear(p, procs) ==
  IF AtLast(p) THEN credCall' = [procs EXCEPT ![p] = CredIdle] /\ Answer(p, "cleared")
               ELSE credCall' = [procs EXCEPT ![p].at = @ + 1] /\ UNCHANGED credAnswer

(* One delete of clear_all; a missing entry is no error.                    *)
Delete(p) ==
  /\ credCall[p].op = "clear_all"
  /\ ~Ambiguous(entry[KeyAt(p)])
  /\ entry' = [entry EXCEPT ![KeyAt(p)] = <<>>]
  /\ AdvanceClear(p, Disturbed(p))
  /\ UNCHANGED <<sessions, faults, duplicates>>

(* clear_all logs a failed delete and goes on.                              *)
DeleteFails(p) ==
  /\ credCall[p].op = "clear_all"
  /\ Fails(entry[KeyAt(p)])
  /\ CountFault(entry[KeyAt(p)])
  /\ AdvanceClear(p, credCall)
  /\ UNCHANGED <<entry, sessions, duplicates>>

(* The enrolment stores the hash of the account's recovery key.             *)
StoreRecoveryHash(p) ==
  /\ credCall[p].op = "idle"
  /\ ~Ambiguous(entry["RECOVERY_HASH"])
  /\ entry' = [entry EXCEPT !["RECOVERY_HASH"] = SetPassword(@, 1)]
  /\ credCall' = Disturbed(p)
  /\ UNCHANGED <<credAnswer, sessions, faults, duplicates>>

(* CredentialStore::get: no item and several items both read as None.       *)
Get(k) == IF Len(entry[k]) = 1 THEN entry[k] ELSE <<>>

(* is_logged_in: an access token is there; an error counts as none.         *)
IsLoggedIn(fault) == ~fault /\ Get("ACCESS_TOKEN") # <<>>

(* A front end asks is_logged_in.                                           *)
AskLoggedIn(p) ==
  /\ credCall[p].op = "idle"
  /\ \E fault \in {FALSE, faults < MaxFaults} :
       /\ faults' = IF fault THEN faults + 1 ELSE faults
       /\ Answer(p, IF IsLoggedIn(fault) THEN "in" ELSE "out")
  /\ UNCHANGED <<entry, credCall, sessions, duplicates>>

Crash(p) ==
  /\ credCall[p].op # "idle"
  /\ credCall' = [credCall EXCEPT ![p] = CredIdle]
  /\ UNCHANGED <<entry, credAnswer, sessions, faults, duplicates>>

(* Another program adds an item that matches an entry.                      *)
AddDuplicate(k) ==
  /\ duplicates < MaxDuplicates
  /\ Len(entry[k]) = 1
  /\ duplicates' = duplicates + 1
  /\ entry' = [entry EXCEPT ![k] = Append(@, 0)]
  /\ credCall' = [p \in Procs |-> IF credCall[p].op = "idle" THEN credCall[p]
                                  ELSE [credCall[p] EXCEPT !.alone = FALSE]]
  /\ UNCHANGED <<credAnswer, sessions, faults>>

CredNext == \/ \E p \in Procs : \/ BeginStoreAll(p) \/ Store(p) \/ StoreFails(p)
                                \/ BeginClearAll(p) \/ Delete(p) \/ DeleteFails(p)
                                \/ StoreRecoveryHash(p) \/ AskLoggedIn(p) \/ Crash(p)
            \/ \E k \in Keys : AddDuplicate(k)

CredSpec == CredInit /\ [][CredNext]_credVars
-----------------------------------------------------------------------------
(* The state has its type.                                                  *)
CredTypeOK ==
  /\ entry \in [Keys -> Seq(0..MaxSessions)]
  /\ credCall \in [Procs -> [op : {"idle", "store_all", "clear_all"}, at : 1..Len(SessionKeys),
                         session : 0..MaxSessions, alone : BOOLEAN]]
  /\ credAnswer \in [Procs -> [op : {"none", "stored", "err", "cleared", "in", "out"},
                           session : 0..MaxSessions, alone : BOOLEAN]]
  /\ sessions \in 0..MaxSessions
  /\ faults \in 0..MaxFaults
  /\ duplicates \in 0..MaxDuplicates

(* A store_all that reports success, and that no other process disturbed,   *)
(* has left the five entries of its own session: a failure half-way is      *)
(* never reported as a login (of every step).                               *)
LoginWhole ==
  \A p \in Procs : (credAnswer'[p] # credAnswer[p] /\ credAnswer'[p].op = "stored" /\ credAnswer'[p].alone)
    => \A i \in DOMAIN SessionKeys : entry'[SessionKeys[i]] = <<credAnswer'[p].session>>

(* In one process, whatever fails or crashes half-way: the user a front end *)
(* takes for signed in (Get of the access token) is never older than the    *)
(* refresh token, the user id or the expiry read with it, because the       *)
(* access token is written first.  Entries may still be of two sessions.    *)
AccessTokenNewest ==
  Get("ACCESS_TOKEN") # <<>> =>
    \A i \in DOMAIN SessionKeys : \A s \in {Get(SessionKeys[i])} :
       s = <<>> \/ s[1] <= Get("ACCESS_TOKEN")[1]

(* No login and no logout loses the recovery hash ("that persists across    *)
(* logouts to support account recovery"; of every step).                    *)
RecoveryHashKept == Len(entry'["RECOVERY_HASH"]) >= Len(entry["RECOVERY_HASH"])

(* Whatever fails or crashes half-way: a login that reports success has     *)
(* left the five entries of its session, the access token a front end reads *)
(* is never older than the other entries, and no login or logout loses the  *)
(* recovery hash (credential_store/mod.rs store_all, clear_all).            *)
SessionsConsistent == [][LoginWhole /\ RecoveryHashKept /\ AccessTokenNewest']_credVars

(* "Clear all stored credentials (for logout)": when clear_all reports      *)
(* success and nobody else has written, nothing of the session is left.     *)
LogoutClears ==
  [][\A p \in Procs :
       (credAnswer'[p] # credAnswer[p] /\ credAnswer'[p].op = "cleared" /\ credAnswer'[p].alone)
       => \A i \in DOMAIN SessionKeys : entry'[SessionKeys[i]] = <<>>]_credVars

(* get warns "Multiple entries found ..., using first": an ambiguous entry  *)
(* reads as its first item.                                                 *)
AmbiguousReadsFirst == \A k \in Keys : Ambiguous(entry[k]) => Get(k) = <<Head(entry[k])>>
=============================================================================
