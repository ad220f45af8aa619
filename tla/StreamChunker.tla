--------------------------- MODULE StreamChunker ---------------------------
(***************************************************************************)
(* StreamChunker of vault-core/src/chunking.rs, and the chunking of a      *)
(* whole buffer by ChunkEngine::chunk_data that it has to agree with.      *)
(*                                                                         *)
(* A stream arrives in pieces of any size; feed() emits every chunk whose  *)
(* boundary is already certain and keeps the rest, finalize() flushes it.  *)
(* The rolling-hash test is a parameter: Cut(s, strict) says whether the   *)
(* fingerprint of the bytes s has its mask bits clear, with the mask used  *)
(* before (strict) or after the target size.  A chunk's name is a function *)
(* of its data and is left out.                                            *)
(***************************************************************************)
EXTENDS Integers, Sequences

CONSTANTS
    Byte,
    MinSize, AvgSize, MaxSize,   \* ChunkConfig
    Cut(_, _),                   \* (fp & mask) == 0
    MaxStream,                   \* bound: the length of the stream
    MaxFeed                      \* bound: the length of one piece

ASSUME SizeAssumption ==
    /\ MinSize \in Nat /\ AvgSize \in Nat /\ MaxSize \in Nat
    /\ 0 < MinSize /\ MinSize <= AvgSize /\ AvgSize <= MaxSize
ASSUME BoundAssumption == MaxStream \in Nat /\ MaxFeed \in Nat

VARIABLES
    fed,     \* history: the whole stream so far
    buffer,
    offset,
    chunks,
    pc       \* between calls, in emit_chunks, or finalized

vars == <<fed, buffer, offset, chunks, pc>>

Chunks == [data : Seq(Byte), size : Nat, offset : Nat]

TypeOK ==
    /\ fed \in Seq(Byte)
    /\ buffer \in Seq(Byte)
    /\ offset \in Nat
    /\ chunks \in Seq(Chunks)
    /\ pc \in {"idle", "emit", "done"}

Init ==
    /\ fed = <<>> /\ buffer = <<>>
    /\ offset = 0
    /\ chunks = <<>>
    /\ pc = "idle"

-----------------------------------------------------------------------------

\* max.min(len)
Cap(len) == IF MaxSize < len THEN MaxSize ELSE len

\* Whether position i is tested with the strict mask: i < avg.clamp(min, cap).
Strict(len, i) ==
    i < (IF AvgSize < MinSize THEN MinSize
         ELSE IF AvgSize > Cap(len) THEN Cap(len) ELSE AvgSize)

\* The positions where the two loops of fastcdc_boundary would return; the
\* fingerprint skips the first MinSize bytes.
Cuts(data) ==
    {i \in MinSize..(Cap(Len(data)) - 1) :
        Cut(SubSeq(data, MinSize + 1, i + 1), Strict(Len(data), i))}

\* fastcdc_boundary: the cut length for the chunk at the front of data.
Boundary(data) ==
    IF Len(data) <= MinSize THEN Len(data)
    ELSE IF Cuts(data) = {} THEN Cap(Len(data))
    ELSE CHOOSE i \in Cuts(data) : \A j \in Cuts(data) : i <= j

\* A new piece is appended to the buffer and emit_chunks starts.
Feed(d) ==
    /\ pc = "idle"
    /\ Len(fed) + Len(d) <= MaxStream
    /\ fed' = fed \o d
    /\ buffer' = buffer \o d
    /\ pc' = "emit"
    /\ UNCHANGED <<offset, chunks>>

\* Mutant of Undecided: a chunk is emitted although more data may move its
\* end.
UndecidedNever == Len(buffer) <= MinSize

\* Mutant of Undecided: the forced cut at MaxSize is forgotten.
UndecidedUntilCut == Len(buffer) <= MinSize \/ Cuts(buffer) = {}

\* emit_chunks must wait: not more than a minimal chunk is there, or no
\* boundary was found and the buffer may still grow.
Undecided ==
    \/ Len(buffer) <= MinSize
    \/ Boundary(buffer) >= Len(buffer) /\ Len(buffer) < MaxSize

\* Mutant of Wait: the loop goes on where it should wait for more data.
WaitSpinning ==
    /\ pc = "emit"
    /\ Undecided
    /\ pc' = IF Len(buffer) <= MinSize THEN "idle" ELSE "emit"
    /\ UNCHANGED <<fed, buffer, offset, chunks>>

Wait ==
    /\ pc = "emit"
    /\ Undecided
    /\ pc' = "idle"
    /\ UNCHANGED <<fed, buffer, offset, chunks>>

\* The first n bytes of the buffer become a chunk.
Emitted(n) ==
    Append(chunks, [data |-> SubSeq(buffer, 1, n), size |-> n,
                    offset |-> offset])

Emit ==
    LET b == Boundary(buffer)
        n == IF b < Len(buffer) THEN b ELSE Len(buffer)
    IN
    /\ pc = "emit"
    /\ ~Undecided
    /\ chunks' = Emitted(n)
    /\ buffer' = SubSeq(buffer, n + 1, Len(buffer))
    /\ offset' = offset + n
    /\ UNCHANGED <<fed, pc>>

\* finalize consumes the chunker.
Finalize ==
    /\ pc = "idle"
    /\ chunks' = IF buffer = <<>> THEN chunks ELSE Emitted(Len(buffer))
    /\ buffer' = <<>>
    /\ pc' = "done"
    /\ UNCHANGED <<fed, offset>>

Pieces == UNION {[1..n -> Byte] : n \in 0..MaxFeed}

Next == \/ \E d \in Pieces : Feed(d)
        \/ Wait \/ Emit \/ Finalize

Spec == Init /\ [][Next]_vars

\* feed() runs its loop on the caller's thread and waits for nobody.
FairSpec == Spec /\ WF_vars(Wait \/ Emit)

-----------------------------------------------------------------------------
\* The suffix of data that starts at an offset.
From(data, o) == SubSeq(data, o + 1, Len(data))

\* cs is what the loop of chunk_data produces on the whole of data: chunks
\* that follow each other from offset 0 to the end, each cut where
\* fastcdc_boundary cuts the rest of the data.
IsChunking(data, cs) ==
    /\ \A k \in 1..Len(cs) :
         LET c == cs[k] IN
         /\ c.offset = IF k = 1 THEN 0 ELSE cs[k-1].offset + cs[k-1].size
         /\ c.size = Boundary(From(data, c.offset))
         /\ c.data = SubSeq(data, c.offset + 1, c.offset + c.size)
    /\ IF cs = <<>> THEN data = <<>>
       ELSE cs[Len(cs)].offset + cs[Len(cs)].size = Len(data)

\* "producing identical chunk boundaries across the virtual stream": however
\* the stream was cut into pieces, finalize returns the chunks chunk_data
\* makes of the whole stream (StreamChunker, ChunkEngine::chunk_data).
StreamEqualsWhole == pc = "done" => IsChunking(fed, chunks)

\* "Chunks will never be smaller than this, except for the last chunk", and
\* "will never exceed" max_size (ChunkConfig).
SizesInRange ==
    \A k \in 1..Len(chunks) :
        /\ chunks[k].size \in 1..MaxSize
        /\ k < Len(chunks) => chunks[k].size >= MinSize

\* Between two calls at most max_size bytes wait in the buffer, whatever the
\* size of the pieces ("ensuring bounded memory usage", ChunkConfig,
\* emit_chunks).
BufferBounded == pc = "idle" => Len(buffer) <= MaxSize

\* feed() returns: every round of emit_chunks takes bytes from the buffer.
FeedReturns == pc = "emit" ~> pc = "idle"

-----------------------------------------------------------------------------
\* The parts of the inductive invariant.

\* The buffer is the part of the stream that is not in a chunk yet.
BufferInv ==
    pc # "done" => offset <= Len(fed) /\ buffer = From(fed, offset)

\* Chunks follow each other up to the end offset.
TilingInv ==
    /\ \A k \in 1..Len(chunks) :
         /\ chunks[k].offset =
              IF k = 1 THEN 0 ELSE chunks[k-1].offset + chunks[k-1].size
         /\ chunks[k].offset + chunks[k].size <= Len(fed)
         /\ chunks[k].data = SubSeq(fed, chunks[k].offset + 1,
                                    chunks[k].offset + chunks[k].size)
    /\ LET end == IF pc = "done" THEN Len(fed) ELSE offset IN
       IF chunks = <<>> THEN end = 0
       ELSE chunks[Len(chunks)].offset + chunks[Len(chunks)].size = end

\* The boundary of data is certain: no byte added at the end can move it.
Certain(data) ==
    /\ Len(data) > MinSize
    /\ Boundary(data) < Len(data) \/ Len(data) >= MaxSize

\* Every emitted chunk was cut at the boundary of the rest of the stream; it
\* was certain, except for what finalize flushed.
BoundaryInv ==
    \A k \in 1..Len(chunks) :
        LET rest == From(fed, chunks[k].offset) IN
        /\ chunks[k].size = Boundary(rest)
        /\ pc # "done" => Certain(rest)

\* emit_chunks only stops when it has to wait.
QuietInv == pc = "idle" => Undecided

IndInv == /\ TypeOK /\ BufferInv /\ TilingInv /\ BoundaryInv
          /\ SizesInRange /\ QuietInv

-----------------------------------------------------------------------------
\* What FeedReturns rests on besides fairness: a step of emit_chunks takes at
\* least one byte from the buffer, or is the last.
EmitAdvances ==
    pc = "emit" =>
        \/ pc' = "idle" /\ buffer' = buffer
        \/ pc' = "emit" /\ Len(buffer') < Len(buffer)
=============================================================================
