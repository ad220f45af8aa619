---------------------------- MODULE MCStoredData ----------------------------
(***************************************************************************)
(* What is kept outside the machine: account backups and key files, what   *)
(* is sealed to a repository's certificate, and the objects of the two     *)
(* storage backends.  They share no state, so a behaviour exercises one    *)
(* and leaves the others at rest.  Identities, certificate holders, the    *)
(* data of objects and the processes on a directory are drawn from Ones,   *)
(* phrases, encryption subkeys and the data of files from Others, clients  *)
(* of one prefix and signing subkeys from Pair.                            *)
(***************************************************************************)
EXTENDS AccountRecovery, RepoEncryption, StorageBackends

CONSTANTS Ones, Others, Pair, c3, e1

VARIABLES part, signer

-----------------------------------------------------------------------------
\* Two clients on one prefix and one without a prefix; of files a path and one
\* below it.
MCClients == Pair \cup {c3}
MCPrefixOf == [c \in MCClients |-> IF c = c3 THEN <<>> ELSE <<"team">>]
MCObjectPath == {<<"chunks", "a">>}
MCFilePath == {<<"a">>, <<"a", "b">>}

\* The engine again: one holder, two signing subkeys and a locked encryption
\* subkey.
Signing == INSTANCE RepoEncryption
             WITH Holder <- {c3}, EncKey <- {e1}, SignKey <- Pair, Locked <- {e1},
                  MaxMsgs <- 0, MaxSigs <- 2, copy <- signer

-----------------------------------------------------------------------------
NoCopies == copy = [h \in Holder |-> [order |-> <<>>, revoked |-> {}]]
EngineAtRest == cert = NoKey /\ expired = {} /\ msgs = {} /\ chunks = {} /\ sigs = {} /\ NoCopies

MCInit ==
    /\ part \in {"backup", "transfer", "repo", "signing", "s3", "files"}
    /\ AccountInit /\ S3Init /\ FileInit
    /\ CASE part = "repo" -> EngineInit /\ signer = <<>>
         [] part = "signing" -> Signing!EngineInit /\ NoCopies
         [] OTHER -> EngineAtRest /\ signer = <<>>

BackupStep == part = "backup" /\ Backup /\ UNCHANGED <<part, signer, engineVars, s3Vars, fileVars>>
TransferStep == part = "transfer" /\ Transfer /\ UNCHANGED <<part, signer, engineVars, s3Vars, fileVars>>
RepoStep == part = "repo" /\ EngineNext /\ UNCHANGED <<part, signer, accountVars, s3Vars, fileVars>>
SigningStep == part = "signing" /\ Signing!EngineNext /\ UNCHANGED <<part, copy, accountVars, s3Vars, fileVars>>
S3Step == part = "s3" /\ S3Next /\ UNCHANGED <<part, signer, accountVars, engineVars, fileVars>>
FileStep == part = "files" /\ FileNext /\ UNCHANGED <<part, signer, accountVars, engineVars, s3Vars>>

MCNext == BackupStep \/ TransferStep \/ RepoStep \/ SigningStep \/ S3Step \/ FileStep

MCSpec == MCInit /\ [][MCNext]_<<part, signer, accountVars, engineVars, s3Vars, fileVars>>

Symmetry == Permutations(Ones) \cup Permutations(Others) \cup Permutations(Pair)
=============================================================================
