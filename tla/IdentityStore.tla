--------------------------- MODULE IdentityStore ---------------------------
(***************************************************************************)
(* The per-user identity directories of passkey-core: multi_user/mod.rs,   *)
(* multi_user/state_machine.rs, identity/storage.rs and the file writes of *)
(* identity/mod.rs.  Several clients (Desktop, Service) work on one        *)
(* configuration directory without a lock: every file-system call is a     *)
(* step, and a client may fail or die between any two.                     *)
(*                                                                         *)
(* A user name is a model value; a secret file is missing, torn (being     *)
(* written, or left so by a crash: load_from fails on it) or whole.        *)
(***************************************************************************)
EXTENDS FiniteSets

CONSTANTS User, Client, NoUser

ASSUME UserAssumption == NoUser \notin User

VARIABLES
    dir,     \* users that have a directory
    secret,  \* users/<u>/identity/secret.pgp
    public,  \* users whose public.pgp exists
    writer,  \* per user: clients with the current secret.pgp open for writing
    active,  \* the active_user file; NoUser when missing or empty
    at,      \* per client: where it is in a call
    op,      \* per client: the call
    arg,     \* per client: the user it is about
    todo,    \* per client: directories evaluate_state has yet to look into
    found,   \* per client: users it found to have an identity
    res,     \* per client: the answer of its last call
    stale    \* history, per client: another client changed a file during its call

fileVars == <<dir, secret, public, writer, active>>
callVars == <<at, op, arg, todo, found, res>>
storeVars == <<fileVars, callVars, stale>>

State(s, u, us) == [state |-> s, user |-> u, users |-> us]
States == [state : {"None", "NoIdentity", "Ready", "ReadyMultiUser",
                    "NeedsUserSelection", "ActiveUserMissing", "Corrupted"},
           user : User \cup {NoUser}, users : SUBSET User]
None == State("None", NoUser, {})

StoreTypeOK ==
    /\ dir \subseteq User
    /\ secret \in [User -> {"none", "torn", "whole"}]
    /\ public \subseteq User
    /\ writer \in [User -> SUBSET Client]
    /\ active \in User \cup {NoUser}
    /\ at \in [Client -> {"idle", "truncate", "fill", "public", "rmfiles",
                          "rmdir", "rmactive", "clear", "rmsecret", "rmpublic",
                          "open", "write", "list", "scan", "active", "answer"}]
    /\ op \in [Client -> {"none", "save", "delete", "delete_identity",
                          "set_active", "evaluate", "repair"}]
    /\ arg \in [Client -> User \cup {NoUser}]
    /\ todo \in [Client -> SUBSET User]
    /\ found \in [Client -> SUBSET User]
    /\ res \in [Client -> States]
    /\ stale \in [Client -> BOOLEAN]

\* An empty configuration directory.
StoreInit ==
    /\ dir = {} /\ public = {} /\ active = NoUser
    /\ secret = [u \in User |-> "none"]
    /\ writer = [u \in User |-> {}]
    /\ at = [c \in Client |-> "idle"]
    /\ op = [c \in Client |-> "none"]
    /\ arg = [c \in Client |-> NoUser]
    /\ todo = [c \in Client |-> {}]
    /\ found = [c \in Client |-> {}]
    /\ res = [c \in Client |-> None]
    /\ stale = [c \in Client |-> FALSE]

-----------------------------------------------------------------------------
StoreGoto(c, l) == at' = [at EXCEPT ![c] = l]

\* A call begins at l.
Begin(c, o, u, l) ==
    /\ at[c] = "idle"
    /\ StoreGoto(c, l)
    /\ op' = [op EXCEPT ![c] = o]
    /\ arg' = [arg EXCEPT ![c] = u]
    /\ UNCHANGED <<todo, found, res>>

\* The call goes on at l, with nothing but files changed.
Continue(c, l) == StoreGoto(c, l) /\ UNCHANGED <<op, arg, todo, found, res>>

\* The call returns s.
Answer(c, s) ==
    /\ StoreGoto(c, "answer")
    /\ res' = [res EXCEPT ![c] = s]
    /\ UNCHANGED <<op, arg, todo, found>>

\* A call is over; an error, a failed seal or a crash ends it anywhere.
Idle(c) ==
    /\ at[c] # "idle"
    /\ StoreGoto(c, "idle")
    /\ op' = [op EXCEPT ![c] = "none"]
    /\ arg' = [arg EXCEPT ![c] = NoUser]
    /\ todo' = [todo EXCEPT ![c] = {}]
    /\ found' = [found EXCEPT ![c] = {}]
    /\ res' = [res EXCEPT ![c] = None]
    /\ writer' = [u \in User |-> writer[u] \ {c}]
    /\ UNCHANGED <<dir, secret, public, active>>

\* create_user, ensure_identity_dir, and the directory save_user_info makes.
CreateUser(c, u) ==
    /\ at[c] = "idle"
    /\ dir' = dir \cup {u}
    /\ UNCHANGED <<secret, public, writer, active, callVars>>

\* Identity::save_to: the seal was made; the directory is created first.
Save(c, u) ==
    /\ Begin(c, "save", u, "truncate")
    /\ dir' = dir \cup {u}
    /\ UNCHANGED <<secret, public, writer, active>>

\* std::fs::write opens secret.pgp with truncation, in place ...
SaveTruncate(c) ==
    /\ at[c] = "truncate"
    /\ arg[c] \in dir
    /\ secret' = [secret EXCEPT ![arg[c]] = "torn"]
    /\ writer' = [writer EXCEPT ![arg[c]] = @ \cup {c}]
    /\ Continue(c, "fill")
    /\ UNCHANGED <<dir, public, active>>

\* ... and then fills it, unless the file was unlinked meanwhile.
SaveFill(c) ==
    /\ at[c] = "fill"
    /\ secret' = IF c \in writer[arg[c]]
                   THEN [secret EXCEPT ![arg[c]] = "whole"] ELSE secret
    /\ writer' = [writer EXCEPT ![arg[c]] = @ \ {c}]
    /\ Continue(c, "public")
    /\ UNCHANGED <<dir, public, active>>

SavePublic(c) ==
    /\ at[c] = "public"
    /\ arg[c] \in dir
    /\ public' = public \cup {arg[c]}
    /\ Answer(c, None)
    /\ UNCHANGED <<dir, secret, writer, active>>

Unlink(u) == /\ secret' = [secret EXCEPT ![u] = "none"]
             /\ writer' = [writer EXCEPT ![u] = {}]

DeleteUser(c, u) == Begin(c, "delete", u, "rmfiles") /\ UNCHANGED fileVars

\* remove_dir_all empties the directory and then removes it.
RemoveFiles(c) ==
    /\ at[c] = "rmfiles"
    /\ Unlink(arg[c])
    /\ public' = public \ {arg[c]}
    /\ Continue(c, "rmdir")
    /\ UNCHANGED <<dir, active>>

RemoveDir(c) ==
    /\ at[c] = "rmdir"
    /\ secret[arg[c]] = "none" /\ arg[c] \notin public
    /\ dir' = dir \ {arg[c]}
    /\ Continue(c, "rmactive")
    /\ UNCHANGED <<secret, public, writer, active>>

\* Mutant of CheckActive: the active user is not looked at.
CheckActiveSkipped(c) ==
    /\ at[c] = "rmactive"
    /\ Answer(c, None)
    /\ UNCHANGED fileVars

\* delete_user then compares the active user, and clears the file if it is
\* the deleted one.
CheckActive(c) ==
    /\ at[c] = "rmactive"
    /\ IF active = arg[c] THEN Continue(c, "clear") ELSE Answer(c, None)
    /\ UNCHANGED fileVars

RemoveActive(c) ==
    /\ at[c] = "clear"
    /\ active' = NoUser
    /\ Answer(c, None)
    /\ UNCHANGED <<dir, secret, public, writer>>

\* clear_active_user on its own.
ClearActive(c) ==
    /\ at[c] = "idle"
    /\ active' = NoUser
    /\ UNCHANGED <<dir, secret, public, writer, callVars>>

\* delete_user_identity: the secret file, then the public one.
DeleteIdentity(c, u) ==
    Begin(c, "delete_identity", u, "rmsecret") /\ UNCHANGED fileVars

RemoveSecret(c) ==
    /\ at[c] = "rmsecret"
    /\ Unlink(arg[c])
    /\ Continue(c, "rmpublic")
    /\ UNCHANGED <<dir, public, active>>

RemovePublic(c) ==
    /\ at[c] = "rmpublic"
    /\ public' = public \ {arg[c]}
    /\ Answer(c, None)
    /\ UNCHANGED <<dir, secret, writer, active>>

\* set_active_user: std::fs::write truncates and then writes the name; the
\* user need not exist.
SetActive(c, u) == Begin(c, "set_active", u, "open") /\ UNCHANGED fileVars

OpenActive(c) ==
    /\ at[c] = "open"
    /\ active' = NoUser
    /\ Continue(c, "write")
    /\ UNCHANGED <<dir, secret, public, writer>>

\* repair_state answers Ready for the user it has just activated.
WriteActive(c) ==
    /\ at[c] = "write"
    /\ active' = arg[c]
    /\ Answer(c, IF op[c] = "repair" THEN State("Ready", arg[c], {arg[c]})
                 ELSE None)
    /\ UNCHANGED <<dir, secret, public, writer>>

Evaluate(c, o) ==
    /\ o \in {"evaluate", "repair"}
    /\ Begin(c, o, NoUser, "list")
    /\ UNCHANGED fileVars

\* list_users.
ListUsers(c) ==
    /\ at[c] = "list"
    /\ StoreGoto(c, "scan")
    /\ todo' = [todo EXCEPT ![c] = dir]
    /\ UNCHANGED <<op, arg, found, res, fileVars>>

\* Mutant of ScanUser: a directory counts as an identity.
ScanUserAnyDirectory(c, u) ==
    /\ at[c] = "scan"
    /\ u \in todo[c]
    /\ todo' = [todo EXCEPT ![c] = @ \ {u}]
    /\ found' = [found EXCEPT ![c] = @ \cup {u}]
    /\ UNCHANGED <<at, op, arg, res, fileVars>>

\* user_has_identity, one listed user after the other: the file exists.
ScanUser(c, u) ==
    /\ at[c] = "scan"
    /\ u \in todo[c]
    /\ todo' = [todo EXCEPT ![c] = @ \ {u}]
    /\ found' = [found EXCEPT ![c] = IF secret[u] # "none" THEN @ \cup {u} ELSE @]
    /\ UNCHANGED <<at, op, arg, res, fileVars>>

\* No identity: the answer does not depend on the active user.
ScanDone(c) ==
    /\ at[c] = "scan"
    /\ todo[c] = {}
    /\ IF found[c] = {} THEN Answer(c, State("NoIdentity", NoUser, {}))
                        ELSE Continue(c, "active")
    /\ UNCHANGED fileVars

\* The IdentityState for users us and active user a.
Classify(us, a) ==
    CASE us = {}   -> State("NoIdentity", NoUser, {})
      [] us # {} /\ a = NoUser -> State("NeedsUserSelection", NoUser, us)
      [] a \in us  -> State(IF Cardinality(us) = 1 THEN "Ready"
                            ELSE "ReadyMultiUser", a, us)
      [] OTHER     -> State("ActiveUserMissing", a, us)

\* Mutant of Repairable: a healthy state is repaired too.
RepairableAlways(s) == Cardinality(s.users) = 1

\* What repair_state can repair by activating the only user there is.
Repairable(s) == /\ s.state \in {"NeedsUserSelection", "ActiveUserMissing"}
                 /\ Cardinality(s.users) = 1

\* get_active_user ends evaluate_state; repair_state activates a single user,
\* and answers NeedsUserSelection when a missing active user leaves a choice.
ReadActive(c) ==
    LET s == Classify(found[c], active) IN
    /\ at[c] = "active"
    /\ IF op[c] = "repair" /\ Repairable(s)
         THEN /\ arg' = [arg EXCEPT ![c] = CHOOSE u \in s.users : TRUE]
              /\ StoreGoto(c, "open")
              /\ UNCHANGED <<op, todo, found, res>>
         ELSE Answer(c, IF op[c] = "repair" /\ s.state = "ActiveUserMissing"
                          THEN State("NeedsUserSelection", NoUser, s.users)
                          ELSE s)
    /\ UNCHANGED fileVars

Step(c) ==
    \/ \E u \in User : \/ CreateUser(c, u) \/ Save(c, u) \/ DeleteUser(c, u)
                       \/ DeleteIdentity(c, u) \/ SetActive(c, u)
                       \/ ScanUser(c, u)
    \/ \E o \in {"evaluate", "repair"} : Evaluate(c, o)
    \/ SaveTruncate(c) \/ SaveFill(c) \/ SavePublic(c)
    \/ RemoveFiles(c) \/ RemoveDir(c) \/ CheckActive(c) \/ RemoveActive(c)
    \/ RemoveSecret(c) \/ RemovePublic(c)
    \/ ClearActive(c) \/ OpenActive(c) \/ WriteActive(c)
    \/ ListUsers(c) \/ ScanDone(c) \/ ReadActive(c)
    \/ Idle(c)

\* The step changes what is in the directory.
Touches == <<dir, secret, public, active>>' # <<dir, secret, public, active>>

\* A step of one client makes the calls of the others stale if it changes a
\* file.
StoreNext ==
    \E c \in Client :
        /\ Step(c)
        /\ stale' = [d \in Client |->
                       IF d = c THEN at[c] # "idle" /\ stale[c]
                       ELSE at[d] # "idle" /\ (stale[d] \/ Touches)]

StoreSpec == StoreInit /\ [][StoreNext]_storeVars

-----------------------------------------------------------------------------
\* The users that have an identity file now.
WithIdentity == {u \in dir : secret[u] # "none"}

\* The state an undisturbed evaluate_state, or a repair_state that activated a
\* user, answers is the state of the files, although it is put together from
\* many reads and after any history of crashes (state_machine.rs
\* evaluate_state, repair_state).
AnswerAccurate ==
    \A c \in Client :
        /\ at[c] = "answer" /\ ~stale[c]
        /\ \/ op[c] = "evaluate"
           \/ op[c] = "repair" /\ res[c].state # "NeedsUserSelection"
        => res[c] = Classify(WithIdentity, active)

\* repair_state takes the active user's place only if that user has no
\* identity, unless another client worked on the directory meanwhile.
RepairSparesValidUser ==
    [][\A c \in Client :
         at[c] = "open" /\ at'[c] = "write" /\ op[c] = "repair" /\ ~stale[c]
            => active \notin WithIdentity]_storeVars

\* A delete_user that returns leaves neither the user's directory nor an
\* active_user file naming the user, even when earlier deletes died half way,
\* unless another client worked on the directory meanwhile.
DeleteComplete ==
    \A c \in Client :
        at[c] = "answer" /\ op[c] = "delete" /\ ~stale[c] =>
            /\ active # arg[c]
            /\ arg[c] \notin dir \cup public
            /\ secret[arg[c]] = "none"

\* What the comment of repair_state says: "Returns the new state after
\* repair."
RepairReturnsNewState ==
    \A c \in Client :
        at[c] = "answer" /\ op[c] = "repair" /\ ~stale[c] =>
            res[c] = Classify(WithIdentity, active)

\* What the comments of IdentityState say: Ready is "ready to go", Corrupted
\* is "Identity files are corrupted or in an invalid state".  With nobody
\* writing, an identity file load_from cannot read is not reported as ready.
ReadyIsLoadable ==
    \A c \in Client :
        /\ at[c] = "answer" /\ op[c] = "evaluate" /\ ~stale[c]
        /\ res[c].state \in {"Ready", "ReadyMultiUser"}
        /\ \A d \in Client : at[d] \notin {"truncate", "fill"}
        => secret[res[c].user] = "whole"

-----------------------------------------------------------------------------
\* Where a client is in a call says which call it is and what is set for it.
CallInv(c) ==
    /\ at[c] \in {"idle", "list"} => found[c] = {}
    /\ at[c] \in {"truncate", "fill", "public"} => op[c] = "save"
    /\ at[c] \in {"rmfiles", "rmdir", "rmactive", "clear"} => op[c] = "delete"
    /\ at[c] \in {"rmsecret", "rmpublic"} => op[c] = "delete_identity"
    /\ at[c] \in {"open", "write"} => /\ op[c] \in {"set_active", "repair"}
                                      /\ arg[c] \in User
    /\ at[c] \in {"list", "scan", "active"} => op[c] \in {"evaluate", "repair"}
    /\ op[c] = "delete" => arg[c] \in User

\* What a call has done so far still holds of the files: the directories
\* looked into, the user a repair is about to activate, the files removed.
ViewInv(c) ==
    /\ at[c] = "scan" => /\ todo[c] \subseteq dir
                         /\ found[c] = WithIdentity \ todo[c]
    /\ at[c] = "active" => found[c] = WithIdentity
    /\ at[c] \in {"open", "write"} /\ op[c] = "repair"
         => WithIdentity = {arg[c]}
    /\ at[c] = "open" /\ op[c] = "repair" => active \notin WithIdentity
    /\ at[c] \in {"rmdir", "rmactive", "clear"}
         => secret[arg[c]] = "none" /\ arg[c] \notin public
    /\ at[c] \in {"rmactive", "clear"} => arg[c] \notin dir
    /\ at[c] = "answer" /\ op[c] = "delete"
         => /\ active # arg[c]
            /\ arg[c] \notin dir \cup public
            /\ secret[arg[c]] = "none"
    /\ at[c] = "answer" /\ \/ op[c] = "evaluate"
                           \/ op[c] = "repair" /\ res[c].state # "NeedsUserSelection"
         => res[c] = Classify(WithIdentity, active)

\* A call that no other client disturbed has a true view of the files.
StoreInv ==
    /\ StoreTypeOK
    /\ IsFiniteSet(dir)
    /\ \A c \in Client : CallInv(c) /\ (stale[c] = FALSE => ViewInv(c))
=============================================================================
