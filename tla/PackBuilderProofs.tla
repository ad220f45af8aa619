------------------------- MODULE PackBuilderProofs -------------------------
(***************************************************************************)
(* For every batch, target and ladder the packs pack_chunks returns can be *)
(* read back, keep the soft ceiling and stay within the padding bound.     *)
(*                                                                         *)
(* IndInv of PackBuilder is inductive.  Its heart is LocatedInv: a         *)
(* location stays good while its pack is open because bytes are only ever  *)
(* added at the end, and once sealed because filler is added at the end.   *)
(***************************************************************************)
EXTENDS PackBuilder, TLAPS

-----------------------------------------------------------------------------
\* One round of step_for makes progress, does not overflow usize, and stays
\* below the growth ratio while the previous step is below the length
\* (PadLadder::step_for).
LEMMA StepBounds ==
    ASSUME NEW s \in Nat, NEW n \in Nat, s < n, n <= UsizeMax
    PROVE  /\ NextStep(s) \in 0..UsizeMax
           /\ NextStep(s) > s
           /\ NextStep(s) * GrowthDen < n * GrowthNum
<1> DEFINE grown == (s * GrowthNum) \div GrowthDen
<1>1. s * GrowthNum \in Nat /\ n * GrowthNum \in Nat
  BY LadderAssumption
<1>2. grown \in Int /\ grown * GrowthDen <= s * GrowthNum
  BY <1>1, LadderAssumption
<1>3. s * GrowthNum < n * GrowthNum
  BY LadderAssumption
<1>4. (s + 1) * GrowthDen < n * GrowthNum
  <2>1. (s + 1) * GrowthDen <= n * GrowthDen
    BY LadderAssumption
  <2>2. n * GrowthDen < n * GrowthNum
    BY LadderAssumption
  <2> QED
    BY <2>1, <2>2, LadderAssumption
<1>5. \A x \in Int : x <= grown => x * GrowthDen <= grown * GrowthDen
  BY <1>2, LadderAssumption
<1> HIDE DEF grown
<1>6. NextStep(s) \in {grown, UsizeMax, s + 1}
  BY DEF NextStep, grown
<1>7. /\ NextStep(s) > s
      /\ NextStep(s) \in 0..UsizeMax
      /\ NextStep(s) # s + 1 => NextStep(s) <= grown
  BY <1>2, LadderAssumption DEF NextStep, grown
<1>8. CASE NextStep(s) = s + 1
  BY <1>4, <1>7, <1>8
<1>9. CASE NextStep(s) # s + 1
  <2>1. NextStep(s) * GrowthDen <= grown * GrowthDen
    BY <1>5, <1>7, <1>9
  <2> QED
    BY <2>1, <1>1, <1>2, <1>3, <1>7, LadderAssumption
<1> QED
  BY <1>8, <1>9

\* The first step is within the growth ratio of every length above it.
LEMMA FirstStepBound ==
    ASSUME NEW n \in Nat, n > FirstStep
    PROVE  FirstStep * GrowthDen < n * GrowthNum
<1>1. FirstStep \in Nat
  BY LadderAssumption DEF FirstStep
<1>2. FirstStep * GrowthDen <= n * GrowthDen
  BY <1>1, LadderAssumption
<1>3. n * GrowthDen < n * GrowthNum
  BY <1>1, LadderAssumption
<1> QED
  BY <1>1, <1>2, <1>3, LadderAssumption

\* A blob is a sequence of bytes of its length.
LEMMA BlobSeq ==
    ASSUME TypeOK, NEW c \in Chunk
    PROVE  Blob(c) \in Seq(Byte) /\ Len(Blob(c)) = size[c]
<1>1. size[c] \in Nat
  BY BlobAssumption DEF TypeOK
<1>2. \A i \in 1..size[c] : <<c, i>> \in Byte
  BY <1>1 DEF Byte
<1> QED
  BY <1>1, <1>2 DEF Blob

\* Filler is a sequence of bytes of its length.
LEMMA FillerSeq ==
    ASSUME NEW n \in Nat
    PROVE  /\ [i \in 1..n |-> Filler] \in Seq(Byte)
           /\ Len([i \in 1..n |-> Filler]) = n
  BY DEF Byte

\* Bytes added at the end of a pack disturb no location in it (pack_chunks,
\* pad_pack).
LEMMA HoldsExtend ==
    ASSUME TypeOK, NEW s \in Seq(Byte), NEW t \in Seq(Byte),
           NEW e \in Locations, Holds(s, e)
    PROVE  Holds(s \o t, e)
<1>1. PICK c \in batch :
        /\ name[c] = e.name
        /\ e.length = size[c]
        /\ e.offset + size[c] <= Len(s)
        /\ \A i \in 1..size[c] : s[e.offset + i] = <<c, i>>
  BY DEF Holds
<1>2. size[c] \in Nat /\ e.offset \in Nat
  BY BlobAssumption DEF TypeOK, Locations
<1>3. \A i \in 1..size[c] : (s \o t)[e.offset + i] = s[e.offset + i]
  BY <1>1, <1>2
<1>4. Len(s \o t) = Len(s) + Len(t)
  OBVIOUS
<1> QED
  BY <1>1, <1>2, <1>3, <1>4 DEF Holds

\* The location of a chunk just added at the end of a pack is good.
LEMMA HoldsNew ==
    ASSUME TypeOK, NEW s \in Seq(Byte), NEW c \in batch, NEW e \in Locations,
           e.name = name[c], e.offset = Len(s), e.length = size[c]
    PROVE  Holds(s \o Blob(c), e)
<1>1. size[c] \in Nat /\ c \in Chunk
  BY BlobAssumption DEF TypeOK
<1>2. Blob(c) \in Seq(Byte) /\ Len(Blob(c)) = size[c]
  BY <1>1, BlobSeq
<1>3. Len(s \o Blob(c)) = Len(s) + size[c]
  BY <1>2
<1>4. \A i \in 1..size[c] : (s \o Blob(c))[Len(s) + i] = Blob(c)[i]
  BY <1>1, <1>2
<1>5. \A i \in 1..size[c] : Blob(c)[i] = <<c, i>>
  BY DEF Blob
<1> QED
  BY <1>1, <1>3, <1>4, <1>5 DEF Holds

\* slice_chunk on a good location gives the whole blob.
LEMMA SliceHolds ==
    ASSUME TypeOK, NEW s \in Seq(Byte), Len(s) <= UsizeMax,
           NEW e \in Locations, Holds(s, e)
    PROVE  \E c \in batch : name[c] = e.name /\ SliceChunk(s, e) = Blob(c)
<1>1. PICK c \in batch :
        /\ name[c] = e.name
        /\ e.length = size[c]
        /\ e.offset + size[c] <= Len(s)
        /\ \A i \in 1..size[c] : s[e.offset + i] = <<c, i>>
  BY DEF Holds
<1>2. size[c] \in Nat /\ e.offset \in Nat /\ UsizeMax \in Nat
  BY BlobAssumption, LadderAssumption DEF TypeOK, Locations
<1> DEFINE sub == SubSeq(s, e.offset + 1, e.offset + e.length)
<1>3. SliceChunk(s, e) = sub
  <2>1. ~(e.offset + e.length > UsizeMax \/ e.offset + e.length > Len(s))
    BY <1>1, <1>2
  <2> QED
    BY <2>1, Zenon DEF SliceChunk
<1>4. sub = [i \in 1..size[c] |-> s[e.offset + i]]
  BY <1>1, <1>2
<1>5. sub = Blob(c)
  BY <1>1, <1>4 DEF Blob
<1> QED
  BY <1>1, <1>3, <1>5

\* Locations stay good in a step that changes neither packs nor the index.
LEMMA LocatedSame ==
    ASSUME LocatedInv, UNCHANGED <<batch, name, size, cur, curId, packs, index>>
    PROVE  LocatedInv'
<1>1. /\ batch' = batch /\ name' = name /\ size' = size /\ cur' = cur
      /\ curId' = curId /\ packs' = packs /\ index' = index
  OBVIOUS
<1> QED
  BY <1>1, Zenon DEF LocatedInv, Holds

-----------------------------------------------------------------------------
\* The empty state in which pack_chunks starts its loop satisfies IndInv.
LEMMA InitInv == Init => IndInv
<1> SUFFICES ASSUME Init PROVE IndInv
  OBVIOUS
<1>1. TypeOK
  BY LadderAssumption DEF Init, TypeOK
<1>2. PhaseInv
  BY DEF Init, PhaseInv
<1>3. MemoryInv
  BY LadderAssumption, BlobAssumption DEF Init, MemoryInv, Target
<1>4. LocatedInv /\ IdInv /\ IndexInv /\ CeilingInv /\ SoftCeiling
  BY DEF Init, LocatedInv, IdInv, IndexInv, CeilingInv, SoftCeiling
<1>5. LadderInv /\ PaddingBounded
  BY DEF Init, LadderInv, PaddingBounded
<1> QED
  BY <1>1, <1>2, <1>3, <1>4, <1>5 DEF IndInv

\* A visit changes only what is in hand and where the loop stands.
LEMMA VisitInv ==
    ASSUME IndInv, NEW c \in batch, Visit(c)
    PROVE  IndInv'
<1> USE DEF IndInv
<1> USE LadderAssumption, NameAssumption
<1>0. /\ c \in Chunk /\ c # NoChunk /\ name[c] \in Name /\ chunk = NoChunk
      /\ FirstStep \in 0..UsizeMax /\ Len(cur) \in Nat
  BY DEF TypeOK, Visit, PhaseInv, FirstStep
<1>1. TypeOK'
  BY <1>0 DEF TypeOK, Visit, input, StartPadding
<1>2. LocatedInv'
  BY LocatedSame DEF Visit, input
<1>3. IdInv'
  BY DEF IdInv, Visit
<1>4. IndexInv'
  <2>1. CASE name[c] \in seen
    BY <2>1, <1>0 DEF IndexInv, Visit, input
  <2>2. CASE name[c] \notin seen
    BY <2>2, <1>0 DEF IndexInv, Visit, input
  <2> QED
    BY <2>1, <2>2
<1>5. PhaseInv'
  <2>1. CASE name[c] \in seen
    BY <2>1, <1>0 DEF PhaseInv, Visit, input
  <2>2. CASE name[c] \notin seen /\ Overflows(c)
    BY <2>2, <1>0 DEF PhaseInv, Visit, input, StartPadding, Overflows
  <2>3. CASE name[c] \notin seen /\ ~Overflows(c)
    BY <2>3, <1>0 DEF PhaseInv, Visit, input, Overflows, Target
  <2> QED
    BY <2>1, <2>2, <2>3
<1>6. CeilingInv' /\ SoftCeiling'
  BY DEF CeilingInv, SoftCeiling, Visit, input, Target
<1>7. MemoryInv'
  BY DEF MemoryInv, Visit, input, Target
<1>8. LadderInv'
  <2>1. CASE pc' = "pad"
    <3>1. step' = FirstStep /\ FirstStep \in Nat /\ cur' = cur
      BY <2>1, <1>0 DEF Visit, StartPadding
    <3>2. Len(cur) > FirstStep => FirstStep * GrowthDen < Len(cur) * GrowthNum
      BY <1>0, FirstStepBound
    <3> QED
      BY <3>1, <3>2 DEF LadderInv
  <2> QED
    BY <2>1 DEF LadderInv
<1>9. PaddingBounded'
  BY DEF PaddingBounded, Visit
<1> QED
  BY <1>1, <1>2, <1>3, <1>4, <1>5, <1>6, <1>7, <1>8, <1>9

\* The start of the last padding, or the end of an empty batch.
LEMMA FlushInv ==
    ASSUME IndInv, Flush
    PROVE  IndInv'
<1> USE DEF IndInv
<1> USE LadderAssumption, NameAssumption
<1>0. FirstStep \in 0..UsizeMax /\ Len(cur) \in Nat
  BY DEF TypeOK, FirstStep
<1>1. TypeOK'
  BY <1>0 DEF TypeOK, Flush, input, StartPadding
<1>2. LocatedInv'
  BY LocatedSame DEF Flush, input
<1>3. IdInv' /\ IndexInv'
  BY DEF IdInv, IndexInv, Flush, input
<1>5. PhaseInv'
  BY <1>0 DEF PhaseInv, Flush, input, StartPadding
<1>6. CeilingInv' /\ SoftCeiling'
  BY DEF CeilingInv, SoftCeiling, Flush, input, Target
<1>7. MemoryInv'
  BY DEF MemoryInv, Flush, input, Target
<1>8. LadderInv'
  <2>1. CASE pc' = "pad"
    <3>1. step' = FirstStep /\ FirstStep \in Nat /\ cur' = cur
      BY <2>1, <1>0 DEF Flush, StartPadding
    <3>2. Len(cur) > FirstStep => FirstStep * GrowthDen < Len(cur) * GrowthNum
      BY <1>0, FirstStepBound
    <3> QED
      BY <3>1, <3>2 DEF LadderInv
  <2> QED
    BY <2>1 DEF LadderInv
<1>9. PaddingBounded'
  BY DEF PaddingBounded, Flush
<1> QED
  BY <1>1, <1>2, <1>3, <1>5, <1>6, <1>7, <1>8, <1>9

\* A round of the padding loop changes the step only.
LEMMA GrowInv ==
    ASSUME IndInv, Grow
    PROVE  IndInv'
<1> USE DEF IndInv
<1> USE LadderAssumption, NameAssumption
<1>0. /\ step \in Nat /\ Len(cur) \in Nat /\ step < Len(cur)
      /\ Len(cur) <= UsizeMax
  BY BlobAssumption DEF TypeOK, Grow, MemoryInv, Target
<1>1. /\ NextStep(step) \in 0..UsizeMax
      /\ NextStep(step) > step
      /\ NextStep(step) * GrowthDen < Len(cur) * GrowthNum
  BY <1>0, StepBounds
<1>2. TypeOK'
  BY <1>1 DEF TypeOK, Grow, input
<1>3. LocatedInv'
  BY LocatedSame DEF Grow, input
<1>4. IdInv' /\ IndexInv'
  BY DEF IdInv, IndexInv, Grow, input
<1>5. PhaseInv'
  BY DEF PhaseInv, Grow, input
<1>6. CeilingInv' /\ SoftCeiling'
  BY DEF CeilingInv, SoftCeiling, Grow, input, Target
<1>7. MemoryInv'
  BY DEF MemoryInv, Grow, input, Target
<1>8. LadderInv'
  <2>1. step >= FirstStep /\ FirstStep \in Nat
    BY DEF LadderInv, Grow, FirstStep
  <2> QED
    BY <1>0, <1>1, <2>1 DEF LadderInv, Grow
<1>9. PaddingBounded'
  BY DEF PaddingBounded, Grow
<1> QED
  BY <1>2, <1>3, <1>4, <1>5, <1>6, <1>7, <1>8, <1>9

\* A chunk is added: its location is new and good, the others are not
\* disturbed.
LEMMA AppendInv ==
    ASSUME IndInv, AppendChunk
    PROVE  IndInv'
<1> USE DEF IndInv
<1> DEFINE new == [name |-> name[chunk], pack |-> curId', offset |-> Len(cur),
                   length |-> size[chunk] % U32Modulus]
<1>1. /\ chunk \in batch /\ chunk \in Chunk /\ ~Overflows(chunk)
      /\ size[chunk] \in 1..MaxBlob /\ name[chunk] \in Name
  BY DEF TypeOK, PhaseInv, AppendChunk
<1>2. size[chunk] % U32Modulus = size[chunk]
  BY <1>1, BlobAssumption
<1>3. /\ batch' = batch /\ name' = name /\ size' = size /\ target' = target
      /\ packs' = packs /\ seen' = seen /\ left' = left
      /\ step' = step /\ chunk' = NoChunk /\ pc' = "next"
      /\ cur' = cur \o Blob(chunk) /\ index' = index \cup {new}
  BY DEF AppendChunk, input
<1>4. /\ Blob(chunk) \in Seq(Byte) /\ Len(Blob(chunk)) = size[chunk]
      /\ cur \in Seq(Byte) /\ Len(cur) \in Nat
  BY <1>1, BlobSeq DEF TypeOK
<1>5. cur' \in Seq(Byte) /\ Len(cur') = Len(cur) + size[chunk]
  BY <1>3, <1>4
<1>6. /\ curId' \in PackId
      /\ curId # NoPack => curId' = curId
      /\ \A p \in packs : p.id # curId'
  BY DEF AppendChunk, TypeOK, IdInv
<1>7. /\ new \in Locations /\ new.name = name[chunk] /\ new.pack = curId'
      /\ new.offset = Len(cur) /\ new.length = size[chunk]
  BY <1>1, <1>2, <1>4, <1>6, BlobAssumption DEF Locations
<1> HIDE DEF new
<1>8. Len(cur) = 0 => \A e \in index : e.pack # curId'
  <2> SUFFICES ASSUME Len(cur) = 0, NEW e \in index
               PROVE  e.pack # curId'
    OBVIOUS
  <2>1. e.pack \in PackId /\ curId = NoPack
    BY DEF TypeOK, Locations, PhaseInv
  <2> QED
    BY <2>1, <1>6, NameAssumption DEF LocatedInv
<1>t. TypeOK'
  <2>1. index' \in SUBSET Locations
    BY <1>3, <1>7 DEF TypeOK
  <2> QED
    BY <1>3, <1>5, <1>6, <2>1 DEF TypeOK
<1>a. LocatedInv'
  <2> SUFFICES ASSUME NEW e \in index'
               PROVE  \/ e.pack = curId' /\ Holds(cur', e)
                      \/ \E p \in packs : p.id = e.pack /\ Holds(p.bytes, e)
    BY <1>3, Zenon DEF LocatedInv, Holds
  <2>1. CASE e = new
    BY <2>1, <1>1, <1>3, <1>4, <1>7, HoldsNew
  <2>2. CASE e \in index /\ e.pack = curId /\ Holds(cur, e)
    <3>1. e \in Locations /\ e.pack # NoPack
      BY <2>2, NameAssumption DEF TypeOK, Locations
    <3>2. Holds(cur \o Blob(chunk), e)
      BY <2>2, <3>1, <1>4, HoldsExtend
    <3> QED
      BY <2>2, <3>1, <3>2, <1>3, <1>6
  <2>3. CASE e \in index /\ \E p \in packs : p.id = e.pack /\ Holds(p.bytes, e)
    BY <2>3
  <2> QED
    BY <2>1, <2>2, <2>3, <1>3 DEF LocatedInv
<1>b. IdInv'
  BY <1>3, <1>6 DEF IdInv
<1>c. IndexInv'
  BY <1>1, <1>3, <1>7, NameAssumption DEF IndexInv, PhaseInv, AppendChunk
<1>d. PhaseInv'
  BY <1>1, <1>3, <1>4, <1>5, <1>6, NameAssumption DEF PhaseInv
<1>e. CeilingInv'
  <2>1. CASE Len(cur) = 0
    BY <2>1, <1>3, <1>7, <1>8 DEF CeilingInv
  <2>2. CASE Len(cur) # 0
    BY <2>2, <1>1, <1>3, <1>5 DEF CeilingInv, Overflows, Target, TypeOK
  <2> QED
    BY <2>1, <2>2
<1>f. SoftCeiling'
  BY <1>3, <1>6, <1>7 DEF SoftCeiling, Target
<1>g. MemoryInv'
  BY <1>1, <1>3, <1>4, <1>5 DEF MemoryInv, Overflows, Target, TypeOK
<1>h. LadderInv' /\ PaddingBounded'
  BY <1>3 DEF LadderInv, PaddingBounded
<1> QED
  BY <1>t, <1>a, <1>b, <1>c, <1>d, <1>e, <1>f, <1>g, <1>h

\* The open pack becomes a finished one; its locations move with it.
LEMMA SealInv ==
    ASSUME IndInv, Seal
    PROVE  IndInv'
<1> USE DEF IndInv
<1> DEFINE fill == [i \in 1..(step - Len(cur)) |-> Filler]
           new == [id |-> curId, bytes |-> cur \o fill, content |-> Len(cur)]
<1>1. /\ cur \in Seq(Byte) /\ Len(cur) \in Nat /\ step \in 0..UsizeMax
      /\ step >= Len(cur) /\ Len(cur) # 0 /\ curId # NoPack /\ curId \in PackId
      /\ step - Len(cur) \in Nat
  BY LadderAssumption DEF TypeOK, PhaseInv, Seal
<1>2. fill \in Seq(Byte) /\ Len(fill) = step - Len(cur)
  BY <1>1, FillerSeq
<1>3. /\ batch' = batch /\ name' = name /\ size' = size /\ target' = target
      /\ seen' = seen /\ left' = left /\ step' = step /\ chunk' = chunk
      /\ index' = index /\ cur' = <<>> /\ curId' = NoPack
      /\ pc' = IF chunk = NoChunk THEN "done" ELSE "append"
      /\ packs' = packs \cup {new}
  BY DEF Seal, input
<1> HIDE DEF fill
<1>4. cur \o fill \in Seq(Byte) /\ Len(cur \o fill) = step
  BY <1>1, <1>2
<1>5. /\ new \in Packs /\ new.id = curId /\ new.content = Len(cur)
      /\ new.bytes = cur \o fill /\ Len(new.bytes) = step
  BY <1>1, <1>4 DEF Packs
<1> HIDE DEF new
<1>t. TypeOK'
  <2>1. packs' \in SUBSET Packs
    BY <1>3, <1>5 DEF TypeOK
  <2>2. cur' \in Seq(Byte)
    BY <1>3
  <2>3. pc' \in {"next", "append", "pad", "done"}
    BY <1>3
  <2> QED
    BY <1>3, <2>1, <2>2, <2>3 DEF TypeOK
<1>a. LocatedInv'
  <2> SUFFICES ASSUME NEW e \in index
               PROVE  \E p \in packs' : p.id = e.pack /\ Holds(p.bytes, e)
    <3>1. batch' = batch /\ name' = name /\ size' = size /\ index' = index
      BY <1>3
    <3> QED
      BY <3>1, Zenon DEF LocatedInv, Holds
  <2>1. CASE e.pack = curId /\ Holds(cur, e)
    <3>1. Holds(new.bytes, e)
      BY <2>1, <1>1, <1>2, <1>5, HoldsExtend DEF TypeOK
    <3> QED
      BY <2>1, <3>1, <1>3, <1>5
  <2>2. CASE \E p \in packs : p.id = e.pack /\ Holds(p.bytes, e)
    BY <2>2, <1>3
  <2> QED
    BY <2>1, <2>2 DEF LocatedInv
<1>b. IdInv'
  <2>1. \A p \in packs : p.id \in PackId
    BY DEF TypeOK, Packs
  <2> QED
    BY <2>1, <1>1, <1>3, <1>5, NameAssumption DEF IdInv
<1>c. IndexInv'
  BY <1>3 DEF IndexInv
<1>d. PhaseInv'
  <2>1. Len(cur') = 0
    BY <1>3
  <2> QED
    BY <2>1, <1>3 DEF PhaseInv, Seal, Overflows
<1>e. CeilingInv'
  <2>1. Len(cur') = 0 /\ Target' \in Nat
    BY <1>3 DEF Target, TypeOK
  <2> QED
    BY <2>1 DEF CeilingInv
<1>f. SoftCeiling'
  <2>1. Target' = Target
    BY <1>3 DEF Target
  <2> QED
    BY <2>1, <1>3, <1>5 DEF SoftCeiling, CeilingInv
<1>g. MemoryInv'
  <2>1. Len(cur') = 0 /\ Target' \in Nat
    BY <1>3 DEF Target, TypeOK
  <2> QED
    BY <2>1, <1>1, <1>3, <1>5, LadderAssumption DEF MemoryInv
<1>h. LadderInv'
  BY <1>3 DEF LadderInv
<1>i. PaddingBounded'
  <2>1. /\ step >= FirstStep /\ FirstStep >= Floor /\ FirstStep \in Nat
        /\ Len(cur) > FirstStep => step * GrowthDen < Len(cur) * GrowthNum
    BY LadderAssumption DEF LadderInv, Seal, FirstStep
  <2> SUFFICES ASSUME NEW p \in packs'
               PROVE  /\ p.content > 0
                      /\ Len(p.bytes) >= p.content
                      /\ Len(p.bytes) >= Floor
                      /\ p.content > FirstStep =>
                           Len(p.bytes) * GrowthDen < p.content * GrowthNum
    BY DEF PaddingBounded, FirstStep
  <2>2. CASE p \in packs
    BY <2>2 DEF PaddingBounded
  <2>3. CASE p = new
    BY <2>1, <2>3, <1>1, <1>5, LadderAssumption
  <2> QED
    BY <2>2, <2>3, <1>3
<1> QED
  BY <1>t, <1>a, <1>b, <1>c, <1>d, <1>e, <1>f, <1>g, <1>h, <1>i

-----------------------------------------------------------------------------
\* pack_chunks keeps IndInv from its first to its last step.
THEOREM Invariance == Spec => []IndInv
<1>1. Init => IndInv
  BY InitInv
<1>2. IndInv /\ [Next]_vars => IndInv'
  <2> SUFFICES ASSUME IndInv, [Next]_vars PROVE IndInv'
    OBVIOUS
  <2>1. CASE \E c \in batch : Visit(c)
    BY <2>1, VisitInv
  <2>2. CASE AppendChunk
    BY <2>2, AppendInv
  <2>3. CASE Grow
    BY <2>3, GrowInv
  <2>4. CASE Seal
    BY <2>4, SealInv
  <2>5. CASE Flush
    BY <2>5, FlushInv
  <2>6. CASE UNCHANGED vars
    <3>1. LocatedInv'
      BY <2>6, LocatedSame DEF vars, input, IndInv
    <3>2. /\ TypeOK' /\ IdInv' /\ IndexInv' /\ PhaseInv' /\ CeilingInv'
          /\ MemoryInv' /\ LadderInv' /\ SoftCeiling' /\ PaddingBounded'
      BY <2>6 DEF vars, input, IndInv, TypeOK, IdInv, IndexInv, PhaseInv,
                  Overflows, Target, CeilingInv, MemoryInv, LadderInv,
                  SoftCeiling, PaddingBounded
    <3> QED
      BY <3>1, <3>2 DEF IndInv
  <2> QED
    BY <2>1, <2>2, <2>3, <2>4, <2>5, <2>6 DEF Next
<1> QED
  BY <1>1, <1>2, PTL DEF Spec

\* The variables of pack_chunks keep their types; the padding step never
\* leaves usize.
THEOREM TypeCorrect == Spec => []TypeOK
  BY Invariance, PTL DEF IndInv

\* Whatever pack_chunks returns can be read back with slice_chunk, for every
\* batch, every target and every order of the shuffle.
THEOREM ReadsBackHolds == Spec => []ReadsBack
<1>1. IndInv => ReadsBack
  <2> SUFFICES ASSUME IndInv, pc = "done"
               PROVE  /\ \A e \in index : Resolves(e)
                      /\ \A e, f \in index : e.name = f.name => e = f
                      /\ \A c \in batch : \E e \in index : e.name = name[c]
    BY DEF ReadsBack
  <2> USE DEF IndInv
  <2>1. left = {} /\ curId = NoPack /\ chunk = NoChunk
    BY DEF PhaseInv
  <2>2. ASSUME NEW e \in index PROVE Resolves(e)
    <3>1. e \in Locations /\ e.pack # NoPack
      BY NameAssumption DEF TypeOK, Locations
    <3>2. PICK p \in packs : p.id = e.pack /\ Holds(p.bytes, e)
      BY <2>1, <3>1 DEF LocatedInv
    <3>3. p.bytes \in Seq(Byte) /\ Len(p.bytes) <= UsizeMax
      BY DEF TypeOK, Packs, MemoryInv
    <3>4. \E c \in batch : name[c] = e.name /\ SliceChunk(p.bytes, e) = Blob(c)
      BY <3>1, <3>2, <3>3, SliceHolds
    <3>5. \A q \in packs : q.id = e.pack => q = p
      BY <3>2 DEF IdInv
    <3> QED
      BY <3>2, <3>4, <3>5 DEF Resolves
  <2> QED
    BY <2>1, <2>2 DEF IndexInv
<1> QED
  BY <1>1, Invariance, PTL

\* Only a single chunk takes a pack past the target.
THEOREM SoftCeilingHolds == Spec => []SoftCeiling
  BY Invariance, PTL DEF IndInv

\* The padding bound of the ladder, for every growth ratio above one.
THEOREM PaddingBoundedHolds == Spec => []PaddingBounded
  BY Invariance, PTL DEF IndInv

\* The part of PackReturns that holds without fairness, for every batch,
\* target and ladder: both loops of pack_chunks move towards their end with
\* every step, also where the ladder grows by less than one byte.
THEOREM PackingAdvances == Spec => [][LoopsAdvance]_vars
<1>1. IndInv /\ [Next]_vars => [LoopsAdvance]_vars
  <2> SUFFICES ASSUME IndInv, Next PROVE LoopsAdvance
    OBVIOUS
  <2>1. chunk \in batch \cup {NoChunk} /\ NoChunk \notin batch /\ step \in Nat
    BY NameAssumption DEF IndInv, TypeOK
  <2>2. pc = "append" => chunk # NoChunk
    BY DEF IndInv, PhaseInv
  <2>3. ASSUME NEW c \in batch, Visit(c) PROVE LoopsAdvance
    BY <2>3 DEF Visit, LoopsAdvance
  <2>4. CASE AppendChunk
    BY <2>4 DEF AppendChunk, LoopsAdvance, Stage
  <2>5. CASE Grow
    <3>1. NextStep(step) > step
      BY <2>1, LadderAssumption DEF NextStep
    <3>2. Stage' = Stage
      BY <2>5 DEF Grow, Stage
    <3> QED
      BY <2>5, <3>1, <3>2 DEF Grow, LoopsAdvance
  <2>6. CASE Seal
    <3>1. Stage' < Stage
      <4>1. CASE chunk = NoChunk
        BY <2>6, <4>1 DEF Seal, Stage
      <4>2. CASE chunk # NoChunk
        BY <2>6, <4>2 DEF Seal, Stage
      <4> QED BY <4>1, <4>2
    <3> QED
      BY <2>6, <3>1 DEF Seal, LoopsAdvance
  <2>7. CASE Flush
    <3>1. chunk = NoChunk
      BY <2>7 DEF Flush, IndInv, PhaseInv
    <3>2. Stage' < Stage
      BY <2>7, <3>1 DEF Flush, StartPadding, Stage
    <3> QED
      BY <2>7, <3>2 DEF Flush, LoopsAdvance
  <2> QED
    BY <2>3, <2>4, <2>5, <2>6, <2>7 DEF Next
<1> QED
  BY <1>1, Invariance, PTL DEF Spec
=============================================================================
