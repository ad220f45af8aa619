--------------------------- MODULE StorageBackends ---------------------------
(***************************************************************************)
(* The two implementations of StorageBackend (vault-core/src/storage/      *)
(* mod.rs) side by side: each on its own store, sharing nothing, and both  *)
(* held to the same promise.                                               *)
(***************************************************************************)
EXTENDS S3Store, FileStore

StorageSpec == S3Spec /\ FileSpec

-----------------------------------------------------------------------------
\* What an upload or a delete acknowledged is there until the next change of
\* it is called, whatever crashed or timed out; in the bucket a change that
\* was still on the way when the acknowledged one was called may yet land,
\* and nothing else (storage/s3.rs, storage/file.rs upload and delete).
AcknowledgedHolds == S3AcknowledgedHolds /\ FileAcknowledgedHolds
=============================================================================
