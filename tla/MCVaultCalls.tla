---------------------------- MODULE MCVaultCalls ----------------------------
(***************************************************************************)
(* The calls of vault-core on chunks: batches of sealing and opening       *)
(* tasks, and packing.  A behaviour exercises one of them and leaves the   *)
(* other at rest.                                                          *)
(***************************************************************************)
EXTENDS ChunkBatch, TLC

CONSTANTS PackChunk, PackName, PackId, NoPack, NoChunk, Filler

VARIABLES part, batch, name, size, target, left, seen, chunk, cur, curId, step,
          packs, index, pc

packVars == <<batch, name, size, target, left, seen, chunk, cur, curId, step,
              packs, index, pc>>

MCUid == {<<1>>, <<1, 0, 1>>}
MCChunk == {[hash |-> <<1>>, size |-> 1, data |-> "p"],
            [hash |-> <<1, 0, 1>>, size |-> 2, data |-> "q"],
            [hash |-> <<2>>, size |-> 1, data |-> "r"]}
\* What a manifest names.
MCManifest == {Content(<<1>>, <<1>>, 1, 1), Named(<<1>>, <<2>>, 2)}
Packs == INSTANCE PackBuilder
           WITH Chunk <- PackChunk, Name <- PackName, MaxBlob <- 4, MaxTarget <- 8,
                Floor <- 2, GrowthNum <- 7, GrowthDen <- 5, UsizeMax <- 8,
                U32Modulus <- 5

VaultInit ==
    /\ part \in {"batch", "packs"}
    /\ Init /\ Packs!Init
    /\ part # "packs" => /\ batch = {} /\ target = 0
                         /\ size = [c \in PackChunk |-> 1]
                         /\ name = [c \in PackChunk |-> CHOOSE n \in PackName : TRUE]

BatchStep == part = "batch" /\ Next /\ UNCHANGED <<part, packVars>>
PackStep == part = "packs" /\ Packs!Next /\ UNCHANGED <<part, vars>>

\* The pool runs every task, an awaiting call goes on, and so does the one
\* thread that packs.
VaultSpec ==
    /\ VaultInit /\ [][BatchStep \/ PackStep]_<<part, vars, packVars>>
    /\ \A c \in Client : /\ \A i \in 1 .. MaxBatch : WF_vars(RunTask(c, i))
                         /\ WF_vars(Await(c)) /\ WF_vars(Finish(c))
    /\ WF_packVars(PackStep)

\* Both loops of pack_chunks end, also where the ladder grows by less than
\* one byte a step (pack.rs step_for: "so the loop always ends").
PackReturns == part = "packs" ~> pc = "done"
=============================================================================
