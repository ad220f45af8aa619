---------------------------- MODULE PackBuilder ----------------------------
(***************************************************************************)
(* pack_chunks, pad_pack, PadLadder::step_for and slice_chunk of           *)
(* vault-core/src/pack.rs: a batch of encrypted chunks is shuffled,        *)
(* deduplicated by name, filled into packs, and every pack is padded to a  *)
(* step of a geometric ladder.  A reader later slices a chunk out of a     *)
(* whole pack with the index entry of its name.                            *)
(*                                                                         *)
(* One call of pack_chunks is one behaviour; the iterations of its loop    *)
(* and of the padding loop are steps.  A byte is the pair of the chunk it  *)
(* came from and its position there, so a slice that is off by one byte,   *)
(* or from the wrong pack, is a different sequence.                        *)
(***************************************************************************)
EXTENDS Integers, Sequences

CONSTANTS
    Chunk,       \* the encrypted chunks a batch may hold
    Name,        \* keyed-HMAC chunk names
    PackId,      \* random 256-bit ids; a drawn id is never drawn again
    NoPack,      \* cur_id = None
    NoChunk,     \* no chunk in hand
    Filler,      \* a padding byte
    MaxBlob,     \* bound: the largest encrypted chunk
    MaxTarget,   \* bound: the largest target_pack_size
    Floor,       \* PadLadder::floor
    GrowthNum,   \* PadLadder::growth_num
    GrowthDen,   \* PadLadder::growth_den
    UsizeMax,    \* usize::MAX
    U32Modulus   \* 2^32: lengths are stored as u32

ASSUME NameAssumption ==
    /\ NoPack \notin PackId
    /\ NoChunk \notin Chunk
    /\ Filler \notin Chunk \X Nat
ASSUME BlobAssumption ==
    /\ MaxBlob \in Nat /\ MaxTarget \in Nat
    /\ U32Modulus \in Nat /\ MaxBlob < U32Modulus
ASSUME LadderAssumption ==
    /\ Floor \in Nat
    /\ GrowthNum \in Nat /\ GrowthDen \in Nat
    /\ GrowthNum > GrowthDen /\ GrowthDen > 0
    /\ UsizeMax \in Nat /\ Floor < UsizeMax
    /\ MaxBlob <= UsizeMax /\ MaxTarget <= UsizeMax

VARIABLES
    batch,   \* input: the entries of the batch
    name,    \* input: the name of each entry
    size,    \* input: the length of its encrypted blob
    target,  \* input: target_pack_size
    left,    \* entries the loop has not visited
    seen,    \* names already packed
    chunk,   \* the entry in hand
    cur,     \* cur_bytes: the open pack
    curId,   \* cur_id
    step,    \* step of PadLadder::step_for
    packs,   \* finished packs; content is the length before padding
    index,   \* chunk name -> PackLocation
    pc

input == <<batch, name, size, target>>
vars == <<input, left, seen, chunk, cur, curId, step, packs, index, pc>>

Byte == (Chunk \X Nat) \cup {Filler}
Packs == [id : PackId, bytes : Seq(Byte), content : Nat]
Locations == [name : Name, pack : PackId, offset : Nat, length : Nat]

TypeOK ==
    /\ batch \in SUBSET Chunk
    /\ name \in [Chunk -> Name]
    /\ size \in [Chunk -> 1..MaxBlob]
    /\ target \in 0..MaxTarget
    /\ left \in SUBSET batch
    /\ seen \in SUBSET Name
    /\ chunk \in batch \cup {NoChunk}
    /\ cur \in Seq(Byte)
    /\ curId \in PackId \cup {NoPack}
    /\ step \in 0..UsizeMax
    /\ packs \in SUBSET Packs
    /\ index \in SUBSET Locations
    /\ pc \in {"next", "append", "pad", "done"}

\* The encrypted blob of a batch entry.
Blob(c) == [i \in 1..size[c] |-> <<c, i>>]

\* A sealed blob has a version, a nonce and a tag: it is never empty.
Init ==
    /\ batch \in SUBSET Chunk
    /\ name \in [Chunk -> Name]
    /\ size \in [Chunk -> 1..MaxBlob]
    /\ target \in 0..MaxTarget
    /\ left = batch
    /\ seen = {}
    /\ chunk = NoChunk
    /\ cur = <<>>
    /\ curId = NoPack
    /\ step = 0
    /\ packs = {}
    /\ index = {}
    /\ pc = "next"

-----------------------------------------------------------------------------
\* target_pack_size.max(1)
Target == IF target = 0 THEN 1 ELSE target

\* self.floor.max(1)
FirstStep == IF Floor = 0 THEN 1 ELSE Floor

\* Mutants of NextStep: a ratio that is too large, a loop that may stand still.
NextStepDoubling(s) == IF 2 * s > UsizeMax THEN UsizeMax ELSE 2 * s
NextStepStuck(s) ==
    LET next == (s * GrowthNum) \div GrowthDen
    IN  IF next > UsizeMax THEN UsizeMax ELSE next

\* One round of the loop of step_for: saturating growth, by at least one byte.
NextStep(s) ==
    LET grown == (s * GrowthNum) \div GrowthDen
        next == IF grown > UsizeMax THEN UsizeMax ELSE grown
    IN  IF next > s THEN next ELSE s + 1

\* The open pack must be sealed before c is added.
Overflows(c) == Len(cur) # 0 /\ Len(cur) + size[c] > Target

\* pad_pack is called on the open pack.
StartPadding ==
    /\ step' = FirstStep
    /\ pc' = "pad"

\* The loop takes an entry; the shuffle makes it any entry left.  A name seen
\* before is skipped.
Visit(c) ==
    /\ pc = "next"
    /\ c \in left
    /\ left' = left \ {c}
    /\ seen' = seen \cup {name[c]}
    /\ \/ /\ name[c] \in seen
          /\ UNCHANGED <<chunk, step, pc>>
       \/ /\ name[c] \notin seen
          /\ chunk' = c
          /\ \/ Overflows(c) /\ StartPadding
             \/ ~Overflows(c) /\ pc' = "append" /\ UNCHANGED step
    /\ UNCHANGED <<input, cur, curId, packs, index>>

\* The entry in hand goes to the end of the open pack; a pack is opened
\* under a fresh id if there is none.
AppendChunk ==
    /\ pc = "append"
    /\ \/ curId # NoPack /\ UNCHANGED curId
       \/ curId = NoPack /\ curId' \in PackId \ {p.id : p \in packs}
    /\ cur' = cur \o Blob(chunk)
    /\ index' = index \cup
         {[name |-> name[chunk], pack |-> curId', offset |-> Len(cur),
           length |-> size[chunk] % U32Modulus]}
    /\ chunk' = NoChunk
    /\ pc' = "next"
    /\ UNCHANGED <<input, left, seen, step, packs>>

\* step_for looks for the first step that is not below the content.
Grow ==
    /\ pc = "pad"
    /\ step < Len(cur)
    /\ step' = NextStep(step)
    /\ UNCHANGED <<input, left, seen, chunk, cur, curId, packs, index, pc>>

\* The pack with its filler is pushed; the entry in hand comes next, or the
\* call returns.
Seal ==
    /\ pc = "pad"
    /\ step >= Len(cur)
    /\ packs' = packs \cup
         {[id |-> curId,
           bytes |-> cur \o [i \in 1..(step - Len(cur)) |-> Filler],
           content |-> Len(cur)]}
    /\ cur' = <<>>
    /\ curId' = NoPack
    /\ pc' = IF chunk = NoChunk THEN "done" ELSE "append"
    /\ UNCHANGED <<input, left, seen, chunk, step, index>>

\* Mutant of Flush: the last open pack is forgotten.
FlushForgotten ==
    /\ pc = "next"
    /\ left = {}
    /\ pc' = "done"
    /\ UNCHANGED <<input, left, seen, chunk, cur, curId, step, packs, index>>

\* After the loop the open pack, if any, is flushed.
Flush ==
    /\ pc = "next"
    /\ left = {}
    /\ \/ curId # NoPack /\ Len(cur) # 0 /\ StartPadding
       \/ (curId = NoPack \/ Len(cur) = 0) /\ pc' = "done" /\ UNCHANGED step
    /\ UNCHANGED <<input, left, seen, chunk, cur, curId, packs, index>>

Next == \/ \E c \in batch : Visit(c)
        \/ AppendChunk \/ Grow \/ Seal \/ Flush

Spec == Init /\ [][Next]_vars

\* The call runs on one thread and waits for nobody.
FairSpec == Spec /\ WF_vars(Next)

-----------------------------------------------------------------------------
\* slice_chunk: the bytes of a location, or an error outside the pack.
SliceChunk(bytes, loc) ==
    LET end == loc.offset + loc.length IN
    IF end > UsizeMax \/ end > Len(bytes) THEN "Err"
    ELSE SubSeq(bytes, loc.offset + 1, end)

\* The location names exactly one finished pack, and slicing that pack gives
\* an encrypted blob that came in under the location's name.
Resolves(loc) ==
    \E p \in packs :
        /\ p.id = loc.pack
        /\ \A q \in packs : q.id = loc.pack => q = p
        /\ \E c \in batch : /\ name[c] = loc.name
                            /\ SliceChunk(p.bytes, loc) = Blob(c)

\* What pack_chunks returns can be read back: every name of the batch is in
\* the index exactly once, and "every name in `index` resolves into exactly
\* one pack", to its whole blob and to nothing else, whatever the order of
\* the shuffle, the duplicates and the padding (pack_chunks, slice_chunk).
ReadsBack ==
    pc = "done" =>
        /\ \A e \in index : Resolves(e)
        /\ \A e, f \in index : e.name = f.name => e = f
        /\ \A c \in batch : \E e \in index : e.name = name[c]

\* "A chunk is never split across packs; a chunk larger than target_pack_size
\* occupies its own pack": a pack whose content passes the target holds one
\* chunk only (the seal test of pack_chunks).
SoftCeiling ==
    \A p \in packs : p.content > Target =>
        \A e, f \in index : e.pack = p.id /\ f.pack = p.id => e = f

\* A pack is never empty, is padded at least to the floor, and its padding
\* stays within the growth ratio: "for `len` above the floor the result is
\* less than `len * growth_num / growth_den`" (PadLadder::step_for, pad_pack).
PaddingBounded ==
    \A p \in packs :
        /\ p.content > 0
        /\ Len(p.bytes) >= p.content
        /\ Len(p.bytes) >= Floor
        /\ p.content > FirstStep =>
             Len(p.bytes) * GrowthDen < p.content * GrowthNum

\* Both loops end, also where the ladder grows by less than one byte a step
\* (step_for: "so the loop always ends").
Returns == <>(pc = "done")

-----------------------------------------------------------------------------
\* The parts of the inductive invariant.

\* The location holds, in these bytes, a blob that came in under its name.
Holds(bytes, loc) ==
    \E c \in batch :
        /\ name[c] = loc.name
        /\ loc.length = size[c]
        /\ loc.offset + size[c] <= Len(bytes)
        /\ \A i \in 1..size[c] : bytes[loc.offset + i] = <<c, i>>

\* Every location lies in the open pack or in a finished one.
LocatedInv ==
    \A e \in index :
        \/ e.pack = curId /\ Holds(cur, e)
        \/ \E p \in packs : p.id = e.pack /\ Holds(p.bytes, e)

\* Pack ids are used once.
IdInv ==
    /\ \A p, q \in packs : p.id = q.id => p = q
    /\ \A p \in packs : p.id # curId

\* The index has one location for every name seen, but for the one in hand.
IndexInv ==
    /\ \A e, f \in index : e.name = f.name => e = f
    /\ chunk # NoChunk => \A e \in index : e.name # name[chunk]
    /\ \A e \in index : e.name \in seen
    /\ \A n \in seen : \/ \E e \in index : e.name = n
                       \/ chunk # NoChunk /\ n = name[chunk]
    /\ \A c \in batch \ left : name[c] \in seen

\* Where the call stands.
PhaseInv ==
    /\ chunk # NoChunk => pc \in {"append", "pad"} /\ name[chunk] \in seen
    /\ pc = "append" => chunk # NoChunk /\ ~Overflows(chunk)
    /\ pc = "pad" /\ chunk = NoChunk => left = {}
    /\ pc = "pad" => Len(cur) # 0
    /\ pc = "done" => left = {} /\ curId = NoPack /\ chunk = NoChunk
    /\ curId = NoPack <=> Len(cur) = 0

\* The open pack passes the target only with a single chunk in it.
CeilingInv ==
    Len(cur) > Target =>
        \A e, f \in index : e.pack = curId /\ f.pack = curId => e = f

\* An open pack is no longer than the target or a single blob, so the
\* padding loop stays below usize::MAX.
MemoryInv ==
    /\ Len(cur) <= Target \/ Len(cur) <= MaxBlob
    /\ \A p \in packs : Len(p.bytes) <= UsizeMax

\* How far the padding loop may have gone.
LadderInv ==
    pc = "pad" =>
        /\ step >= FirstStep
        /\ Len(cur) > FirstStep => step * GrowthDen < Len(cur) * GrowthNum

IndInv == /\ TypeOK /\ LocatedInv /\ IdInv /\ IndexInv /\ PhaseInv
          /\ CeilingInv /\ MemoryInv /\ LadderInv /\ SoftCeiling /\ PaddingBounded

-----------------------------------------------------------------------------
\* What the return of pack_chunks rests on besides fairness.

\* How far one entry of the batch, and then the call, is from its end.
Stage == CASE pc = "pad" /\ chunk # NoChunk -> 4
           [] pc = "append" -> 3
           [] pc = "next" -> 2
           [] pc = "pad" /\ chunk = NoChunk -> 1
           [] OTHER -> 0

\* Every step takes an entry off the batch, brings the entry in hand further,
\* or climbs the ladder while it is below the pack's length (pack_chunks,
\* step_for: "so the loop always ends"); a call that has returned stays so.
LoopsAdvance ==
    /\ pc # "done"
    /\ \/ left' \subseteq left /\ left' # left
       \/ left' = left /\ Stage' < Stage
       \/ /\ left' = left /\ Stage' = Stage /\ cur' = cur
          /\ step < Len(cur) /\ step' > step
=============================================================================
