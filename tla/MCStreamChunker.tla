-------------------------- MODULE MCStreamChunker --------------------------
(***************************************************************************)
(* Small instances of StreamChunker with the Gear fingerprint.             *)
(***************************************************************************)
EXTENDS StreamChunker, GearHash

\* A table for two byte values.
SmallGear == 0 :> 3 @@ 1 :> 12

MCCut(s, strict) == GearCut(AvgSize, s, strict)
=============================================================================
