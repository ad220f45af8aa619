------------------------ MODULE StreamChunkerProofs ------------------------
(***************************************************************************)
(* For every rolling-hash test, every size profile and every way to cut a  *)
(* stream into pieces, StreamChunker returns what chunk_data makes of the  *)
(* whole stream.                                                           *)
(*                                                                         *)
(* The key is BoundaryStable: once the boundary is certain, bytes added    *)
(* at the end do not move it.  IndInv records that every emitted chunk was *)
(* cut at a certain boundary of the rest of the stream.                    *)
(***************************************************************************)
EXTENDS StreamChunker, WellFoundedInduction, TLAPS

-----------------------------------------------------------------------------
\* A non-empty set of positions has a first one.
LEMMA FirstExists ==
    ASSUME NEW S \in SUBSET Nat, S # {}
    PROVE  \E i \in S : \A j \in S : i <= j
<1> DEFINE R == OpToRel(<, Nat)
<1>1. IsWellFoundedOn(R, Nat)
  BY NatLessThanWellFounded
<1>2. \A i, j \in Nat : i < j => <<i, j>> \in R
  BY DEF OpToRel
<1> HIDE DEF R
<1>3. \E i \in S : \A j \in S : ~(<<j, i>> \in R)
  BY <1>1, WFMin, Zenon
<1>4. PICK i \in S : \A j \in S : ~(<<j, i>> \in R)
  BY <1>3
<1>5. \A j \in S : ~(j < i)
  BY <1>2, <1>4
<1> QED
  BY <1>4, <1>5

\* Where the cut positions of a buffer lie.
LEMMA CutsRange ==
    ASSUME NEW s \in Seq(Byte)
    PROVE  /\ Cuts(s) \in SUBSET Nat
           /\ \A i \in Cuts(s) : MinSize <= i /\ i < Cap(Len(s))
           /\ Cap(Len(s)) \in Nat /\ Cap(Len(s)) <= Len(s)
           /\ Cap(Len(s)) <= MaxSize
           /\ Len(s) > MinSize => Cap(Len(s)) >= MinSize
  BY SizeAssumption DEF Cuts, Cap

\* The boundary is the first cut position, or the cap if there is none.
LEMMA BoundaryCases ==
    ASSUME NEW s \in Seq(Byte), Len(s) > MinSize
    PROVE  /\ Cuts(s) = {} => Boundary(s) = Cap(Len(s))
           /\ Cuts(s) # {} =>
                /\ Boundary(s) \in Cuts(s)
                /\ \A j \in Cuts(s) : Boundary(s) <= j
<1>1. ~(Len(s) <= MinSize)
  BY SizeAssumption
<1>2. CASE Cuts(s) = {}
  BY <1>1, <1>2 DEF Boundary
<1>3. CASE Cuts(s) # {}
  <2>1. Boundary(s) = CHOOSE i \in Cuts(s) : \A j \in Cuts(s) : i <= j
    BY <1>1, <1>3 DEF Boundary
  <2>2. \E i \in Cuts(s) : \A j \in Cuts(s) : i <= j
    BY <1>3, CutsRange, FirstExists
  <2>3. /\ (CHOOSE i \in Cuts(s) : \A j \in Cuts(s) : i <= j) \in Cuts(s)
        /\ \A j \in Cuts(s) :
             (CHOOSE i \in Cuts(s) : \A k \in Cuts(s) : i <= k) <= j
    BY <2>2, Zenon
  <2> QED
    BY <1>3, <2>1, <2>3
<1> QED
  BY <1>2, <1>3

\* fastcdc_boundary is "guaranteed in [min, min(max, data.len())]".
LEMMA BoundaryRange ==
    ASSUME NEW s \in Seq(Byte)
    PROVE  /\ Boundary(s) \in Nat /\ Boundary(s) <= Len(s)
           /\ Boundary(s) <= MaxSize
           /\ Len(s) > MinSize => Boundary(s) >= MinSize
           /\ Len(s) <= MinSize => Boundary(s) = Len(s)
<1>1. CASE Len(s) <= MinSize
  BY <1>1, SizeAssumption DEF Boundary
<1>2. CASE Len(s) > MinSize
  <2>1. CASE Cuts(s) = {}
    BY <1>2, <2>1, BoundaryCases, CutsRange, SizeAssumption
  <2>2. CASE Cuts(s) # {}
    BY <1>2, <2>2, BoundaryCases, CutsRange, SizeAssumption
  <2> QED
    BY <2>1, <2>2
<1> QED
  BY <1>1, <1>2, SizeAssumption

\* Bytes added at the end do not change the cut positions below the old cap.
LEMMA CutsStable ==
    ASSUME NEW s \in Seq(Byte), NEW t \in Seq(Byte), Len(s) > MinSize,
           NEW i \in Nat, i < Cap(Len(s))
    PROVE  i \in Cuts(s \o t) <=> i \in Cuts(s)
<1>1. s \o t \in Seq(Byte) /\ Len(s \o t) = Len(s) + Len(t) /\ Len(t) \in Nat
  OBVIOUS
<1>2. Cap(Len(s)) <= Cap(Len(s \o t)) /\ i < Len(s)
  BY <1>1, SizeAssumption DEF Cap
<1>3. Strict(Len(s), i) = Strict(Len(s \o t), i)
  BY <1>1, <1>2, SizeAssumption DEF Strict, Cap
<1>4. SubSeq(s, MinSize + 1, i + 1) = SubSeq(s \o t, MinSize + 1, i + 1)
  <2>1. \A j \in 1..(i + 1) : (s \o t)[j] = s[j]
    BY <1>2
  <2>2. SubSeq(s, MinSize + 1, i + 1)
          = [j \in 1..(i + 1 - MinSize) |-> s[j + MinSize]]
    BY <1>2, SizeAssumption
  <2>3. SubSeq(s \o t, MinSize + 1, i + 1)
          = [j \in 1..(i + 1 - MinSize) |-> (s \o t)[j + MinSize]]
    BY <1>1, <1>2, SizeAssumption
  <2>4. \A j \in 1..(i + 1 - MinSize) : (s \o t)[j + MinSize] = s[j + MinSize]
    <3>1. \A j \in 1..(i + 1 - MinSize) : j + MinSize \in 1..(i + 1)
      BY SizeAssumption
    <3> QED
      BY <2>1, <3>1, Zenon
  <2> QED
    BY <2>2, <2>3, <2>4
<1>5. i \in MinSize..(Cap(Len(s)) - 1) <=> i \in MinSize..(Cap(Len(s \o t)) - 1)
  BY <1>1, <1>2, SizeAssumption DEF Cap
<1> QED
  BY <1>3, <1>4, <1>5, Zenon DEF Cuts

\* Once the boundary is certain no byte added at the end moves it: what lets
\* emit_chunks emit before the stream has ended.
LEMMA BoundaryStable ==
    ASSUME NEW s \in Seq(Byte), NEW t \in Seq(Byte), Certain(s)
    PROVE  Boundary(s \o t) = Boundary(s) /\ Certain(s \o t)
<1>1. /\ s \o t \in Seq(Byte) /\ Len(s \o t) = Len(s) + Len(t)
      /\ Len(t) \in Nat /\ Len(s) \in Nat /\ Len(s) > MinSize
      /\ Len(s \o t) > MinSize
  BY SizeAssumption DEF Certain
<1>2. Cap(Len(s)) <= Cap(Len(s \o t))
  BY <1>1, SizeAssumption DEF Cap
<1>3. CASE Cuts(s) # {}
  <2>1. Boundary(s) \in Cuts(s) /\ \A j \in Cuts(s) : Boundary(s) <= j
    BY <1>1, <1>3, BoundaryCases
  <2>2. Boundary(s) \in Nat /\ Boundary(s) < Cap(Len(s))
    BY <2>1, CutsRange
  <2>3. Boundary(s) \in Cuts(s \o t)
    BY <1>1, <2>1, <2>2, CutsStable
  <2>4. /\ Boundary(s \o t) \in Cuts(s \o t)
        /\ Boundary(s \o t) <= Boundary(s) /\ Boundary(s \o t) \in Nat
    BY <1>1, <2>3, BoundaryCases, CutsRange
  <2>5. Boundary(s \o t) < Cap(Len(s))
    BY <2>2, <2>4, CutsRange
  <2>6. Boundary(s \o t) \in Cuts(s)
    BY <1>1, <2>4, <2>5, CutsStable
  <2> QED
    BY <1>1, <2>1, <2>2, <2>4, <2>6, CutsRange DEF Certain
<1>4. CASE Cuts(s) = {}
  <2>1. Boundary(s) = Cap(Len(s))
    BY <1>1, <1>4, BoundaryCases
  <2>2. Cap(Len(s)) = MaxSize /\ Cap(Len(s \o t)) = MaxSize
    BY <1>1, <2>1, SizeAssumption DEF Certain, Cap
  <2>3. Cuts(s \o t) = {}
    <3> SUFFICES ASSUME NEW i \in Cuts(s \o t) PROVE FALSE
      OBVIOUS
    <3>1. i \in Nat /\ i < Cap(Len(s))
      BY <1>1, <2>2, CutsRange
    <3> QED
      BY <1>1, <1>4, <3>1, CutsStable
  <2>4. Boundary(s \o t) = MaxSize
    BY <1>1, <2>2, <2>3, BoundaryCases
  <2>5. Len(s \o t) >= MaxSize
    BY <1>1, <2>1, <2>2, SizeAssumption DEF Certain, Cap
  <2> QED
    BY <1>1, <2>1, <2>2, <2>4, <2>5 DEF Certain
<1> QED
  BY <1>3, <1>4

-----------------------------------------------------------------------------
\* Pieces of sequences, byte by byte.
LEMMA SubBytes ==
    ASSUME NEW s \in Seq(Byte), NEW a \in Nat, NEW b \in Nat,
           a <= b, b <= Len(s)
    PROVE  /\ SubSeq(s, a + 1, b) \in Seq(Byte)
           /\ Len(SubSeq(s, a + 1, b)) = b - a
           /\ SubSeq(s, a + 1, b) = [j \in 1..(b - a) |-> s[a + j]]
<1>1. SubSeq(s, a + 1, b) = [j \in 1..(b - a) |-> s[a + j]]
  BY SMTT(20)
<1>2. \A j \in 1..(b - a) : a + j \in 1..Len(s)
  OBVIOUS
<1>3. \A j \in 1..(b - a) : s[a + j] \in Byte
  BY <1>2
<1>4. b - a \in Nat
  OBVIOUS
<1> DEFINE f == [j \in 1..(b - a) |-> s[a + j]]
<1>5. f \in Seq(Byte) /\ Len(f) = b - a
  BY <1>3, <1>4
<1> QED
  BY <1>1, <1>5, Zenon

\* A piece of a stream stays the same while the stream grows.
LEMMA SubExtend ==
    ASSUME NEW s \in Seq(Byte), NEW t \in Seq(Byte), NEW a \in Nat, NEW b \in Nat,
           a <= b, b <= Len(s)
    PROVE  SubSeq(s \o t, a + 1, b) = SubSeq(s, a + 1, b)
<1>1. s \o t \in Seq(Byte) /\ b <= Len(s \o t)
  OBVIOUS
<1>2. \A j \in 1..Len(s) : (s \o t)[j] = s[j]
  OBVIOUS
<1>3. \A j \in 1..(b - a) : a + j \in 1..Len(s)
  OBVIOUS
<1>4. \A j \in 1..(b - a) : (s \o t)[a + j] = s[a + j]
  BY <1>2, <1>3, Zenon
<1>5. SubSeq(s \o t, a + 1, b) = [j \in 1..(b - a) |-> (s \o t)[a + j]]
  BY <1>1, SubBytes, Zenon
<1>6. SubSeq(s, a + 1, b) = [j \in 1..(b - a) |-> s[a + j]]
  BY SubBytes, Zenon
<1> QED
  BY <1>4, <1>5, <1>6, Zenon

\* The rest of a stream.
LEMMA FromBytes ==
    ASSUME NEW s \in Seq(Byte), NEW o \in Nat, o <= Len(s)
    PROVE  /\ From(s, o) \in Seq(Byte)
           /\ Len(From(s, o)) = Len(s) - o
           /\ From(s, o) = [j \in 1..(Len(s) - o) |-> s[o + j]]
<1>1. Len(s) \in Nat /\ Len(s) <= Len(s)
  OBVIOUS
<1> QED
  BY <1>1, SubBytes, Zenon DEF From

\* The rest of a stream grows with the stream.
LEMMA FromExtend ==
    ASSUME NEW s \in Seq(Byte), NEW t \in Seq(Byte), NEW o \in Nat, o <= Len(s)
    PROVE  From(s \o t, o) = From(s, o) \o t
<1> DEFINE r == From(s, o)
           u == From(s \o t, o)
           w == s \o t
<1>1. w \in Seq(Byte) /\ Len(w) = Len(s) + Len(t) /\ o <= Len(w)
  OBVIOUS
<1>2. /\ r \in Seq(Byte) /\ Len(r) = Len(s) - o
      /\ \A j \in 1..(Len(s) - o) : r[j] = s[o + j]
  BY FromBytes
<1>w. \A j \in 1..Len(w) : w[j] = IF j <= Len(s) THEN s[j] ELSE t[j - Len(s)]
  OBVIOUS
<1>3. /\ u \in Seq(Byte) /\ Len(u) = Len(w) - o
      /\ u = [j \in 1..(Len(w) - o) |-> w[o + j]]
  <2> HIDE DEF w
  <2>1. /\ From(w, o) \in Seq(Byte) /\ Len(From(w, o)) = Len(w) - o
        /\ From(w, o) = [j \in 1..(Len(w) - o) |-> w[o + j]]
    BY <1>1, FromBytes, Zenon
  <2> QED
    BY <2>1 DEF w
<1> HIDE DEF r, u, w
<1>4. /\ r \o t \in Seq(Byte) /\ Len(r \o t) = Len(u)
      /\ \A j \in 1..Len(u) :
           (r \o t)[j] = IF j <= Len(r) THEN r[j] ELSE t[j - Len(r)]
  BY <1>1, <1>2, <1>3
<1>5. ASSUME NEW j \in 1..Len(u) PROVE u[j] = (r \o t)[j]
  <2>1. u[j] = w[o + j] /\ o + j \in 1..Len(w)
    BY <1>1, <1>3
  <2>2. CASE j <= Len(r)
    BY <2>1, <2>2, <1>1, <1>2, <1>4, <1>w
  <2>3. CASE j > Len(r)
    <3>1. ~(o + j <= Len(s)) /\ o + j - Len(s) = j - Len(r) /\ ~(j <= Len(r))
      BY <2>3, <1>2
    <3>2. w[o + j] = t[o + j - Len(s)]
      BY <2>1, <3>1, <1>w
    <3>3. (r \o t)[j] = t[j - Len(r)]
      BY <3>1, <1>4
    <3> QED
      BY <2>1, <3>1, <3>2, <3>3
  <2>4. j <= Len(r) \/ j > Len(r)
    BY <1>2
  <2> QED
    BY <2>2, <2>3, <2>4, Zenon
<1>6. u = r \o t
  <2> DEFINE v == r \o t
  <2>1. v \in Seq(Byte) /\ Len(v) = Len(u) /\ \A j \in 1..Len(u) : u[j] = v[j]
    BY <1>4, <1>5
  <2> HIDE DEF v
  <2>2. u = v
    BY <1>3, <2>1
  <2> QED
    BY <2>2 DEF v
<1> QED
  BY <1>6 DEF r, u, w

\* Taking n bytes off the rest moves its start by n.
LEMMA FromSplit ==
    ASSUME NEW s \in Seq(Byte), NEW o \in Nat, NEW n \in Nat, o + n <= Len(s)
    PROVE  /\ SubSeq(From(s, o), n + 1, Len(From(s, o))) = From(s, o + n)
           /\ SubSeq(From(s, o), 1, n) = SubSeq(s, o + 1, o + n)
<1> DEFINE r == From(s, o)
<1>0. o <= Len(s)
  OBVIOUS
<1>1. /\ r \in Seq(Byte) /\ Len(r) = Len(s) - o
      /\ \A j \in 1..(Len(s) - o) : r[j] = s[o + j]
  BY <1>0, FromBytes
<1> HIDE DEF r
<1>2. n <= Len(r) /\ Len(r) \in Nat /\ o + n \in Nat /\ Len(s) \in Nat
  BY <1>1
<1>3. SubSeq(r, n + 1, Len(r)) = From(s, o + n)
  <2>1. /\ SubSeq(r, n + 1, Len(r)) \in Seq(Byte)
        /\ SubSeq(r, n + 1, Len(r)) = [j \in 1..(Len(r) - n) |-> r[n + j]]
    <3>1. Len(r) <= Len(r)
      BY <1>2
    <3> QED
      BY <1>1, <1>2, <3>1, SubBytes, Zenon
  <2>2. From(s, o + n) = [j \in 1..(Len(s) - (o + n)) |-> s[o + n + j]]
    BY <1>2, FromBytes
  <2>3. Len(r) - n = Len(s) - (o + n)
    BY <1>1, <1>2
  <2>4. \A j \in 1..(Len(r) - n) : r[n + j] = s[o + n + j]
    <3> SUFFICES ASSUME NEW j \in 1..(Len(r) - n) PROVE r[n + j] = s[o + n + j]
      OBVIOUS
    <3>1. n + j \in 1..(Len(s) - o)
      BY <1>1, <1>2
    <3>2. r[n + j] = s[o + (n + j)]
      BY <1>1, <3>1
    <3>3. o + (n + j) = o + n + j
      OBVIOUS
    <3> QED
      BY <3>2, <3>3
  <2> QED
    BY <2>1, <2>2, <2>3, <2>4
<1>4. SubSeq(r, 1, n) = SubSeq(s, o + 1, o + n)
  <2>1. SubSeq(r, 0 + 1, n) = [j \in 1..(n - 0) |-> r[0 + j]]
    BY <1>1, <1>2, SubBytes
  <2>2. SubSeq(s, o + 1, o + n) = [j \in 1..(o + n - o) |-> s[o + j]]
    BY <1>2, SubBytes
  <2>3. \A j \in 1..n : r[j] = s[o + j] /\ 0 + j = j
    BY <1>1, <1>2
  <2>4. n - 0 = n /\ o + n - o = n /\ 0 + 1 = 1
    OBVIOUS
  <2> QED
    BY <2>1, <2>2, <2>3, <2>4
<1> QED
  BY <1>3, <1>4 DEF r

-----------------------------------------------------------------------------
\* An empty chunker satisfies IndInv.
LEMMA InitInv == Init => IndInv
<1> SUFFICES ASSUME Init PROVE IndInv
  OBVIOUS
<1>1. TypeOK
  BY DEF Init, TypeOK
<1>2. /\ fed = <<>> /\ buffer = <<>> /\ offset = 0 /\ chunks = <<>>
      /\ pc = "idle" /\ Len(chunks) = 0 /\ Len(fed) = 0
  BY DEF Init
<1>3. From(fed, offset) = <<>>
  BY <1>2 DEF From
<1> QED
  BY <1>1, <1>2, <1>3, SizeAssumption
  DEF IndInv, BufferInv, TilingInv, BoundaryInv, SizesInRange, QuietInv, Undecided

\* Every chunk lies within the stream.
LEMMA ChunkFacts ==
    ASSUME TypeOK, TilingInv
    PROVE  \A k \in 1..Len(chunks) :
             /\ chunks[k].offset \in Nat /\ chunks[k].size \in Nat
             /\ chunks[k].offset + chunks[k].size <= Len(fed)
             /\ chunks[k].offset <= Len(fed)
<1> SUFFICES ASSUME NEW k \in 1..Len(chunks)
             PROVE  /\ chunks[k].offset \in Nat /\ chunks[k].size \in Nat
                    /\ chunks[k].offset + chunks[k].size <= Len(fed)
                    /\ chunks[k].offset <= Len(fed)
  OBVIOUS
<1>1. chunks[k] \in Chunks /\ Len(fed) \in Nat
  BY DEF TypeOK
<1>2. chunks[k].offset \in Nat /\ chunks[k].size \in Nat
  BY <1>1 DEF Chunks
<1>3. chunks[k].offset + chunks[k].size <= Len(fed)
  BY DEF TilingInv
<1> QED
  BY <1>1, <1>2, <1>3

\* feed() only extends the rest of the stream: every boundary that was
\* certain stays where it is.
LEMMA FeedInv ==
    ASSUME IndInv, NEW d \in Seq(Byte), Feed(d)
    PROVE  IndInv'
<1> USE DEF IndInv
<1>1. /\ pc = "idle" /\ pc' = "emit" /\ fed' = fed \o d
      /\ buffer' = buffer \o d /\ offset' = offset /\ chunks' = chunks
  BY DEF Feed
<1>2. /\ fed \in Seq(Byte) /\ fed' \in Seq(Byte) /\ buffer' \in Seq(Byte)
      /\ Len(fed') = Len(fed) + Len(d) /\ Len(d) \in Nat /\ Len(fed) \in Nat
  BY <1>1 DEF TypeOK
<1>3. TypeOK'
  BY <1>1, <1>2 DEF TypeOK
<1>4. BufferInv'
  <2>1. offset \in Nat /\ offset <= Len(fed) /\ buffer = From(fed, offset)
    BY <1>1 DEF BufferInv, TypeOK
  <2>2. From(fed \o d, offset) = From(fed, offset) \o d
    BY <1>2, <2>1, FromExtend
  <2> QED
    BY <1>1, <1>2, <2>1, <2>2 DEF BufferInv
<1>5. \A k \in 1..Len(chunks) :
        /\ chunks[k].offset \in Nat /\ chunks[k].size \in Nat
        /\ chunks[k].offset + chunks[k].size <= Len(fed)
        /\ chunks[k].offset <= Len(fed)
  BY <1>2, ChunkFacts
<1>6. TilingInv'
  <2>1. ASSUME NEW k \in 1..Len(chunks)
        PROVE  /\ chunks[k].offset + chunks[k].size <= Len(fed')
               /\ chunks[k].data = SubSeq(fed', chunks[k].offset + 1,
                                          chunks[k].offset + chunks[k].size)
    <3> DEFINE a == chunks[k].offset
               b == chunks[k].offset + chunks[k].size
    <3>1. a \in Nat /\ b \in Nat /\ a <= b /\ b <= Len(fed)
      BY <1>5
    <3>2. chunks[k].data = SubSeq(fed, a + 1, b)
      BY DEF TilingInv
    <3> HIDE DEF a, b
    <3>3. SubSeq(fed \o d, a + 1, b) = SubSeq(fed, a + 1, b)
      BY <1>2, <3>1, SubExtend
    <3>4. b <= Len(fed')
      BY <1>2, <3>1
    <3>5. chunks[k].data = SubSeq(fed', a + 1, b)
      BY <1>1, <3>2, <3>3
    <3> QED
      BY <3>4, <3>5 DEF a, b
  <2> QED
    BY <1>1, <2>1 DEF TilingInv
<1>7. BoundaryInv'
  <2> SUFFICES ASSUME NEW k \in 1..Len(chunks)
               PROVE  /\ chunks[k].size = Boundary(From(fed', chunks[k].offset))
                      /\ Certain(From(fed', chunks[k].offset))
    BY <1>1 DEF BoundaryInv
  <2> DEFINE r == From(fed, chunks[k].offset)
  <2>1. chunks[k].offset \in Nat /\ chunks[k].offset <= Len(fed)
    BY <1>5
  <2>2. r \in Seq(Byte)
    BY <1>2, <2>1, FromBytes
  <2>3. From(fed', chunks[k].offset) = r \o d
    BY <1>1, <1>2, <2>1, FromExtend
  <2>4. chunks[k].size = Boundary(r) /\ Certain(r)
    BY <1>1 DEF BoundaryInv
  <2> HIDE DEF r
  <2> QED
    BY <2>2, <2>3, <2>4, BoundaryStable
<1>8. SizesInRange' /\ QuietInv'
  BY <1>1 DEF SizesInRange, QuietInv
<1> QED
  BY <1>3, <1>4, <1>6, <1>7, <1>8

\* emit_chunks stops only where it has to wait.
LEMMA WaitInv ==
    ASSUME IndInv, Wait
    PROVE  IndInv'
<1> USE DEF IndInv
<1>1. /\ pc = "emit" /\ pc' = "idle" /\ fed' = fed /\ buffer' = buffer
      /\ offset' = offset /\ chunks' = chunks /\ Undecided
  BY DEF Wait
<1>2. TypeOK' /\ BufferInv' /\ TilingInv' /\ SizesInRange'
  BY <1>1 DEF TypeOK, BufferInv, TilingInv, SizesInRange
<1>3. BoundaryInv'
  BY <1>1 DEF BoundaryInv
<1>4. QuietInv'
  BY <1>1 DEF QuietInv, Undecided
<1> QED
  BY <1>2, <1>3, <1>4

\* A chunk of the first n bytes of the rest of the stream, cut at its
\* boundary, extends the tiling.
LEMMA EmittedInv ==
    ASSUME TypeOK, BufferInv, TilingInv, pc # "done",
           NEW n \in Nat, n <= Len(buffer)
    PROVE  LET cs == Emitted(n) IN
           /\ cs \in Seq(Chunks) /\ Len(cs) = Len(chunks) + 1
           /\ \A k \in 1..Len(chunks) : cs[k] = chunks[k]
           /\ cs[Len(cs)].offset = offset /\ cs[Len(cs)].size = n
           /\ cs[Len(cs)].data = SubSeq(fed, offset + 1, offset + n)
           /\ offset + n <= Len(fed)
           /\ SubSeq(buffer, n + 1, Len(buffer)) = From(fed, offset + n)
<1>1. /\ fed \in Seq(Byte) /\ offset \in Nat /\ offset <= Len(fed)
      /\ buffer = From(fed, offset)
  BY DEF TypeOK, BufferInv
<1>2. Len(buffer) = Len(fed) - offset
  BY <1>1, FromBytes
<1>3. offset + n <= Len(fed) /\ offset + n \in Nat /\ offset <= offset + n
  BY <1>1, <1>2
<1>4. /\ SubSeq(buffer, n + 1, Len(buffer)) = From(fed, offset + n)
      /\ SubSeq(buffer, 1, n) = SubSeq(fed, offset + 1, offset + n)
  BY <1>1, <1>3, FromSplit
<1>5. SubSeq(fed, offset + 1, offset + n) \in Seq(Byte)
  BY <1>1, <1>3, SubBytes
<1> DEFINE new == [data |-> SubSeq(buffer, 1, n), size |-> n, offset |-> offset]
<1>6. /\ new \in Chunks /\ new.size = n /\ new.offset = offset
      /\ new.data = SubSeq(fed, offset + 1, offset + n)
  BY <1>1, <1>4, <1>5 DEF Chunks
<1>7. Emitted(n) = Append(chunks, new)
  BY DEF Emitted
<1> HIDE DEF new
<1>8. chunks \in Seq(Chunks)
  BY DEF TypeOK
<1>9. /\ Append(chunks, new) \in Seq(Chunks)
      /\ Len(Append(chunks, new)) = Len(chunks) + 1
      /\ \A k \in 1..Len(chunks) : Append(chunks, new)[k] = chunks[k]
      /\ Append(chunks, new)[Len(chunks) + 1] = new
  BY <1>6, <1>8
<1> QED
  BY <1>3, <1>4, <1>6, <1>7, <1>9

\* The chunk of the first n bytes of the buffer continues the tiling.
LEMMA TilingExtends ==
    ASSUME TypeOK, BufferInv, TilingInv, pc # "done",
           NEW n \in Nat, n <= Len(buffer)
    PROVE  LET cs == Emitted(n) IN
           /\ \A k \in 1..Len(cs) :
                /\ cs[k].offset =
                     IF k = 1 THEN 0 ELSE cs[k-1].offset + cs[k-1].size
                /\ cs[k].offset + cs[k].size <= Len(fed)
                /\ cs[k].data = SubSeq(fed, cs[k].offset + 1,
                                       cs[k].offset + cs[k].size)
           /\ cs # <<>> /\ cs[Len(cs)].offset + cs[Len(cs)].size = offset + n
<1> DEFINE cs == Emitted(n)
           m == Len(chunks) + 1
<1>a. Len(chunks) \in Nat
  BY DEF TypeOK
<1>b. /\ cs \in Seq(Chunks) /\ Len(cs) = m
      /\ \A k \in 1..Len(chunks) : cs[k] = chunks[k]
      /\ cs[m].offset = offset /\ cs[m].size = n
      /\ cs[m].data = SubSeq(fed, offset + 1, offset + n)
      /\ offset + n <= Len(fed)
  BY EmittedInv
<1> HIDE DEF cs
<1>1. \A k \in 1..Len(chunks) :
        /\ chunks[k].offset =
             IF k = 1 THEN 0 ELSE chunks[k-1].offset + chunks[k-1].size
        /\ chunks[k].offset + chunks[k].size <= Len(fed)
        /\ chunks[k].data = SubSeq(fed, chunks[k].offset + 1,
                                   chunks[k].offset + chunks[k].size)
  BY DEF TilingInv
<1>2. IF chunks = <<>> THEN offset = 0
      ELSE chunks[Len(chunks)].offset + chunks[Len(chunks)].size = offset
  BY DEF TilingInv
<1>3. ASSUME NEW k \in 1..m
      PROVE  /\ cs[k].offset =
                  IF k = 1 THEN 0 ELSE cs[k-1].offset + cs[k-1].size
             /\ cs[k].offset + cs[k].size <= Len(fed)
             /\ cs[k].data = SubSeq(fed, cs[k].offset + 1,
                                    cs[k].offset + cs[k].size)
  <2>1. CASE k \in 1..Len(chunks)
    <3>1. k = 1 \/ k - 1 \in 1..Len(chunks)
      BY <2>1, <1>a
    <3>2. cs[k] = chunks[k] /\ (k = 1 \/ cs[k-1] = chunks[k-1])
      BY <2>1, <3>1, <1>b
    <3> QED
      BY <1>1, <2>1, <3>2
  <2>2. CASE k = m
    <3>1. CASE chunks = <<>>
      BY <3>1, <1>2, <2>2, <1>b
    <3>2. CASE chunks # <<>>
      <4>1. Len(chunks) \in 1..Len(chunks) /\ k - 1 = Len(chunks) /\ k # 1
        BY <3>2, <2>2, <1>a DEF TypeOK
      <4>2. cs[k-1] = chunks[Len(chunks)]
        BY <4>1, <1>b
      <4> QED
        BY <4>1, <4>2, <3>2, <1>2, <2>2, <1>b
    <3> QED
      BY <3>1, <3>2
  <2> QED
    BY <2>1, <2>2, <1>a
<1>4. cs # <<>> /\ cs[Len(cs)].offset + cs[Len(cs)].size = offset + n
  BY <1>a, <1>b
<1> QED
  BY <1>3, <1>4, <1>b DEF cs

\* Every chunk emitted before the end has at least the minimal size.
LEMMA EarlierSizes ==
    ASSUME TypeOK, TilingInv, BoundaryInv, SizesInRange, pc # "done",
           NEW k \in 1..Len(chunks)
    PROVE  chunks[k].size \in 1..MaxSize /\ chunks[k].size >= MinSize
<1> DEFINE r == From(fed, chunks[k].offset)
<1>1. chunks[k].offset \in Nat /\ chunks[k].offset <= Len(fed)
  BY ChunkFacts
<1>2. r \in Seq(Byte)
  BY <1>1, FromBytes DEF TypeOK
<1>3. chunks[k].size = Boundary(r) /\ Certain(r)
  BY DEF BoundaryInv
<1> HIDE DEF r
<1>4. chunks[k].size >= MinSize
  BY <1>2, <1>3, BoundaryRange DEF Certain
<1> QED
  BY <1>4 DEF SizesInRange

\* The chunk that emit_chunks takes off the front was cut at a certain
\* boundary.
LEMMA EmitInv ==
    ASSUME IndInv, Emit
    PROVE  IndInv'
<1> DEFINE n == Boundary(buffer)
           cs == Emitted(n)
           m == Len(chunks) + 1
<1>0. TypeOK /\ BufferInv /\ TilingInv /\ BoundaryInv /\ SizesInRange
  BY DEF IndInv
<1>1. buffer \in Seq(Byte) /\ Len(buffer) \in Nat /\ Len(chunks) \in Nat
  BY <1>0 DEF TypeOK
<1>2. /\ n \in Nat /\ n <= Len(buffer) /\ n <= MaxSize
      /\ Len(buffer) > MinSize => n >= MinSize
  BY <1>1, BoundaryRange
<1>3. pc = "emit" /\ ~Undecided
  BY DEF Emit
<1>4. Certain(buffer)
  BY <1>1, <1>2, <1>3, SizeAssumption DEF Undecided, Certain
<1>5. n >= MinSize /\ n > 0
  BY <1>2, <1>4, SizeAssumption DEF Certain
<1>6. (IF n < Len(buffer) THEN n ELSE Len(buffer)) = n
  BY <1>1, <1>2
<1>7. /\ chunks' = cs /\ buffer' = SubSeq(buffer, n + 1, Len(buffer))
      /\ offset' = offset + n /\ fed' = fed /\ pc' = pc
  BY <1>6 DEF Emit
<1>8. /\ cs \in Seq(Chunks) /\ Len(cs) = m
      /\ \A k \in 1..Len(chunks) : cs[k] = chunks[k]
      /\ cs[m].offset = offset /\ cs[m].size = n
      /\ cs[m].data = SubSeq(fed, offset + 1, offset + n)
      /\ offset + n <= Len(fed)
      /\ SubSeq(buffer, n + 1, Len(buffer)) = From(fed, offset + n)
  BY <1>0, <1>2, <1>3, EmittedInv
<1>9. /\ fed \in Seq(Byte) /\ offset \in Nat /\ offset <= Len(fed)
      /\ buffer = From(fed, offset)
  BY <1>0, <1>3 DEF TypeOK, BufferInv
<1> HIDE DEF cs, n
<1>10. TypeOK' /\ BufferInv'
  <2>1. buffer' = From(fed, offset + n)
    BY <1>7, <1>8
  <2>2. buffer' \in Seq(Byte)
    BY <2>1, <1>2, <1>8, <1>9, FromBytes
  <2> QED
    BY <2>1, <2>2, <1>0, <1>2, <1>3, <1>7, <1>8, <1>9 DEF TypeOK, BufferInv
<1>11. TilingInv'
  <2>1. /\ \A k \in 1..Len(cs) :
             /\ cs[k].offset =
                  IF k = 1 THEN 0 ELSE cs[k-1].offset + cs[k-1].size
             /\ cs[k].offset + cs[k].size <= Len(fed)
             /\ cs[k].data = SubSeq(fed, cs[k].offset + 1,
                                    cs[k].offset + cs[k].size)
        /\ cs # <<>> /\ cs[Len(cs)].offset + cs[Len(cs)].size = offset + n
    BY <1>0, <1>2, <1>3, TilingExtends DEF cs
  <2> QED
    BY <2>1, <1>3, <1>7 DEF TilingInv
<1>12. BoundaryInv'
  <2> SUFFICES ASSUME NEW k \in 1..m
               PROVE  /\ cs[k].size = Boundary(From(fed, cs[k].offset))
                      /\ Certain(From(fed, cs[k].offset))
    BY <1>7, <1>8 DEF BoundaryInv
  <2>1. CASE k \in 1..Len(chunks)
    BY <2>1, <1>0, <1>3, <1>8 DEF BoundaryInv
  <2>2. CASE k = m
    BY <2>2, <1>4, <1>8, <1>9 DEF n
  <2> QED
    BY <2>1, <2>2, <1>1
<1>13. SizesInRange'
  <2> SUFFICES ASSUME NEW k \in 1..m
               PROVE  cs[k].size \in 1..MaxSize /\ cs[k].size >= MinSize
    BY <1>7, <1>8 DEF SizesInRange
  <2>1. CASE k \in 1..Len(chunks)
    BY <2>1, <1>0, <1>3, <1>8, EarlierSizes
  <2>2. CASE k = m
    BY <2>2, <1>2, <1>5, <1>8, SizeAssumption
  <2> QED
    BY <2>1, <2>2, <1>1
<1>14. QuietInv'
  BY <1>3, <1>7 DEF QuietInv
<1> QED
  BY <1>10, <1>11, <1>12, <1>13, <1>14 DEF IndInv

\* finalize flushes what emit_chunks left: a rest that is its own boundary.
LEMMA FinalizeInv ==
    ASSUME IndInv, Finalize
    PROVE  IndInv'
<1> DEFINE n == Len(buffer)
           cs == Emitted(n)
           m == Len(chunks) + 1
<1>0. TypeOK /\ BufferInv /\ TilingInv /\ BoundaryInv /\ SizesInRange /\ QuietInv
  BY DEF IndInv
<1>1. /\ pc = "idle" /\ pc' = "done" /\ fed' = fed /\ offset' = offset
      /\ buffer' = <<>>
      /\ chunks' = IF buffer = <<>> THEN chunks ELSE cs
  BY DEF Finalize
<1>2. /\ fed \in Seq(Byte) /\ buffer \in Seq(Byte) /\ offset \in Nat
      /\ offset <= Len(fed) /\ buffer = From(fed, offset)
      /\ chunks \in Seq(Chunks) /\ Len(chunks) \in Nat
      /\ Len(fed) \in Nat
  BY <1>0, <1>1 DEF TypeOK, BufferInv
<1>3. n \in Nat /\ n <= Len(buffer) /\ Len(buffer) = Len(fed) - offset
  BY <1>2, FromBytes
<1>4. Boundary(buffer) = n /\ n <= MaxSize
  <2>1. Undecided
    BY <1>0, <1>1 DEF QuietInv
  <2> QED
    BY <2>1, <1>2, BoundaryRange, SizeAssumption DEF Undecided
<1>5. QuietInv' /\ BufferInv'
  BY <1>1 DEF QuietInv, BufferInv
<1>6. CASE buffer = <<>>
  <2>1. chunks' = chunks /\ offset = Len(fed)
    BY <1>1, <1>2, <1>3, <1>6
  <2>2. TypeOK'
    BY <2>1, <1>0, <1>1 DEF TypeOK
  <2>3. TilingInv'
    BY <2>1, <1>0, <1>1 DEF TilingInv
  <2>4. BoundaryInv' /\ SizesInRange'
    BY <2>1, <1>0, <1>1 DEF BoundaryInv, SizesInRange
  <2> QED
    BY <2>2, <2>3, <2>4, <1>5 DEF IndInv
<1>7. CASE buffer # <<>>
  <2>1. n > 0
    BY <1>2, <1>7
  <2>2. /\ cs \in Seq(Chunks) /\ Len(cs) = m
        /\ \A k \in 1..Len(chunks) : cs[k] = chunks[k]
        /\ cs[m].offset = offset /\ cs[m].size = n
    BY <1>0, <1>1, <1>3, EmittedInv
  <2>3. /\ \A k \in 1..Len(cs) :
             /\ cs[k].offset =
                  IF k = 1 THEN 0 ELSE cs[k-1].offset + cs[k-1].size
             /\ cs[k].offset + cs[k].size <= Len(fed)
             /\ cs[k].data = SubSeq(fed, cs[k].offset + 1,
                                    cs[k].offset + cs[k].size)
        /\ cs # <<>> /\ cs[Len(cs)].offset + cs[Len(cs)].size = offset + n
    BY <1>0, <1>1, <1>3, TilingExtends
  <2> HIDE DEF cs, n
  <2>4. chunks' = cs
    BY <1>1, <1>7
  <2>5. TypeOK'
    BY <2>2, <2>4, <1>0, <1>1 DEF TypeOK
  <2>6. TilingInv'
    <3>1. offset + n = Len(fed)
      BY <1>2, <1>3 DEF n
    <3> QED
      BY <2>3, <2>4, <3>1, <1>1 DEF TilingInv
  <2>7. BoundaryInv'
    <3> SUFFICES ASSUME NEW k \in 1..m
                 PROVE  cs[k].size = Boundary(From(fed, cs[k].offset))
      BY <2>2, <2>4, <1>1 DEF BoundaryInv
    <3>1. CASE k \in 1..Len(chunks)
      BY <3>1, <2>2, <1>0 DEF BoundaryInv
    <3>2. CASE k = m
      BY <3>2, <2>2, <1>2, <1>4
    <3> QED
      BY <3>1, <3>2, <1>2
  <2>8. SizesInRange'
    <3> SUFFICES ASSUME NEW k \in 1..m
                 PROVE  cs[k].size \in 1..MaxSize /\ (k < m => cs[k].size >= MinSize)
      BY <2>2, <2>4 DEF SizesInRange
    <3>1. CASE k \in 1..Len(chunks)
      BY <3>1, <2>2, <1>0, <1>1, EarlierSizes
    <3>2. CASE k = m
      BY <3>2, <2>1, <2>2, <1>2, <1>3, <1>4, SizeAssumption
    <3> QED
      BY <3>1, <3>2, <1>2
  <2> QED
    BY <2>5, <2>6, <2>7, <2>8, <1>5 DEF IndInv
<1> QED
  BY <1>6, <1>7

-----------------------------------------------------------------------------
\* A piece is a sequence of bytes.
LEMMA PieceIsSeq == Pieces \subseteq Seq(Byte)
<1> SUFFICES ASSUME NEW n \in 0..MaxFeed, NEW d \in [1..n -> Byte]
             PROVE  d \in Seq(Byte)
  BY DEF Pieces
<1>1. n \in Nat
  BY BoundAssumption
<1> QED
  BY <1>1

\* IndInv is an invariant of feed and finalize.
THEOREM Invariance == Spec => []IndInv
<1>1. IndInv /\ [Next]_vars => IndInv'
  <2> SUFFICES ASSUME IndInv, [Next]_vars PROVE IndInv'
    OBVIOUS
  <2>1. ASSUME NEW d \in Pieces, Feed(d) PROVE IndInv'
    BY <2>1, PieceIsSeq, FeedInv
  <2>2. CASE Wait
    BY <2>2, WaitInv
  <2>3. CASE Emit
    BY <2>3, EmitInv
  <2>4. CASE Finalize
    BY <2>4, FinalizeInv
  <2>5. CASE UNCHANGED vars
    BY <2>5 DEF vars, IndInv, TypeOK, BufferInv, TilingInv, BoundaryInv,
                SizesInRange, QuietInv, Undecided
  <2> QED
    BY <2>1, <2>2, <2>3, <2>4, <2>5 DEF Next
<1> QED
  BY InitInv, <1>1, PTL DEF Spec

\* The variables keep their types.
THEOREM TypeCorrect == Spec => []TypeOK
<1>1. IndInv => TypeOK
  BY DEF IndInv
<1> QED
  BY <1>1, Invariance, PTL

\* However a stream is cut into pieces, StreamChunker returns the chunks
\* that chunk_data makes of the whole: for every rolling-hash test, every
\* size profile and every length of the stream.
THEOREM StreamEqualsWholeHolds == Spec => []StreamEqualsWhole
<1>1. IndInv => StreamEqualsWhole
  <2> SUFFICES ASSUME IndInv, pc = "done" PROVE IsChunking(fed, chunks)
    BY DEF StreamEqualsWhole
  <2>1. TypeOK /\ TilingInv /\ BoundaryInv
    BY DEF IndInv
  <2>2. chunks = <<>> => fed = <<>>
    BY <2>1 DEF TilingInv, TypeOK
  <2> QED
    BY <2>1, <2>2 DEF TilingInv, BoundaryInv, IsChunking
<1> QED
  BY <1>1, Invariance, PTL

\* Every chunk but the last is at least min_size long, and none is longer
\* than max_size.
THEOREM SizesInRangeHolds == Spec => []SizesInRange
<1>1. IndInv => SizesInRange
  BY DEF IndInv
<1> QED
  BY <1>1, Invariance, PTL

\* Between two calls the buffer of StreamChunker holds at most max_size
\* bytes.
THEOREM BufferBoundedHolds == Spec => []BufferBounded
<1>1. IndInv => BufferBounded
  BY SizeAssumption DEF IndInv, QuietInv, Undecided, BufferBounded, TypeOK
<1> QED
  BY <1>1, Invariance, PTL

\* The part of FeedReturns that holds without fairness, for every rolling-hash
\* test: each round of emit_chunks shortens the buffer, so that feed() is over
\* after at most as many rounds as it found bytes.
THEOREM FeedAdvances == Spec => [][EmitAdvances]_vars
<1>1. IndInv /\ [Next]_vars => [EmitAdvances]_vars
  <2> SUFFICES ASSUME IndInv, Next, pc = "emit"
               PROVE  \/ pc' = "idle" /\ buffer' = buffer
                      \/ pc' = "emit" /\ Len(buffer') < Len(buffer)
    BY DEF EmitAdvances
  <2>1. CASE Wait
    BY <2>1 DEF Wait
  <2>2. CASE Emit
    <3> DEFINE n == IF Boundary(buffer) < Len(buffer) THEN Boundary(buffer) ELSE Len(buffer)
    <3>1. /\ buffer' = SubSeq(buffer, n + 1, Len(buffer)) /\ pc' = "emit"
          /\ ~Undecided
      BY <2>2 DEF Emit
    <3>2. buffer \in Seq(Byte) /\ Len(buffer) \in Nat /\ Len(buffer) > MinSize
      BY <3>1, SizeAssumption DEF IndInv, TypeOK, Undecided
    <3>3. Boundary(buffer) \in Nat /\ Boundary(buffer) >= 1
      BY <3>2, BoundaryRange, SizeAssumption
    <3>4. n \in 1..Len(buffer)
      BY <3>2, <3>3, SizeAssumption
    <3> HIDE DEF n
    <3>5. Len(SubSeq(buffer, n + 1, Len(buffer))) = Len(buffer) - n
      BY <3>2, <3>4
    <3> QED
      BY <3>1, <3>2, <3>4, <3>5
  <2>3. ~Finalize /\ ~(\E d \in Pieces : Feed(d))
    BY DEF Finalize, Feed
  <2> QED
    BY <2>1, <2>2, <2>3 DEF Next
<1> QED
  BY <1>1, Invariance, PTL DEF Spec
=============================================================================
