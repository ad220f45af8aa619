------------------------------ MODULE GearHash ------------------------------
(***************************************************************************)
(* The fingerprint of fastcdc_boundary (vault-core/src/chunking.rs) at a   *)
(* small register width.  The Gear table is any table: the code derives it *)
(* from a key with BLAKE3.                                                 *)
(***************************************************************************)
EXTENDS Integers, Sequences, SequencesExt

CONSTANTS
    Width,   \* bits of the fingerprint (64 in the code)
    Gear     \* one register value per byte value

\* fp = (fp << 1).wrapping_add(gear[b]) over all the bytes.
Fingerprint(s) ==
    FoldLeft(LAMBDA fp, b : (2 * fp + Gear[b]) % 2^Width, 0, s)

\* floor(log2(avg.max(2)))
Log2(avg) == CHOOSE n \in 1..Width :
               /\ 2^n <= (IF avg < 2 THEN 2 ELSE avg)
               /\ 2^(n + 1) > (IF avg < 2 THEN 2 ELSE avg)

\* (fp & top_bits_mask(n)) == 0: the top n bits are clear.
TopBitsClear(fp, n) == IF n >= Width THEN fp = 0 ELSE fp < 2^(Width - n)

\* One bit more than the target asks for before it, one bit less after it.
GearCut(avg, s, strict) ==
    TopBitsClear(Fingerprint(s), IF strict THEN Log2(avg) + 1 ELSE Log2(avg) - 1)
=============================================================================
