--------------------------- MODULE MCDeviceFiles ---------------------------
(***************************************************************************)
(* Two processes on the files of one machine: the device keystore and the  *)
(* identity directories.  The two share no file, so a behaviour works on   *)
(* one of them and leaves the other at rest.                               *)
(***************************************************************************)
EXTENDS Keystore, IdentityStore, TLC

VARIABLE part

FilesInit ==
    /\ part \in {"keystore", "store"}
    /\ Init /\ StoreInit
    /\ part = "store" => used = {}

KeystoreStep == part = "keystore" /\ Next /\ UNCHANGED <<part, storeVars>>
StoreStep == part = "store" /\ StoreNext /\ UNCHANGED <<part, vars>>

FilesSpec == FilesInit /\ [][KeystoreStep \/ StoreStep]_<<part, vars, storeVars>>

Symmetry == Permutations(Key) \cup Permutations(Instance) \cup Permutations(User)
              \cup Permutations(Client)
=============================================================================
