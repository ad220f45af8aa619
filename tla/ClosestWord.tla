----------------------------- MODULE ClosestWord -----------------------------
(***************************************************************************)
(* recovery/bip39_impl.rs: the word of the BIP39 list closest to a         *)
(* mistyped one.  The distance is computed in two rows that are swapped,   *)
(* never cleared, so every cell that is read must have been written for    *)
(* this row.                                                               *)
(***************************************************************************)
EXTENDS Naturals, Sequences, FiniteSets

CONSTANTS Letters, MaxLen,  \* the words a user may type
          WordList,         \* the word list, in its order
          MaxDistance       \* max_distance of the call

Words == UNION {[1..x -> Letters] : x \in 0..MaxLen}

ASSUME WordAssumption == /\ MaxLen \in Nat /\ MaxDistance \in Nat
                         /\ WordList \in Seq(Words)

NoWord == [at |-> 0, d |-> 0]

VARIABLES typed,      \* the mistyped word
          candidate,      \* the word of the list it is compared with
          prev, curr, \* the two rows
          row, col,   \* the cell to be written; row = 0 before the first
          closest     \* the closest word so far: where in the list, how far

wordVars == <<typed, candidate, prev, curr, row, col, closest>>

Width == Len(WordList[candidate])
Least(x, y) == IF x < y THEN x ELSE y

WordInit == /\ typed \in Words
            /\ candidate = 1 /\ row = 0 /\ col = 0
            /\ prev = <<>> /\ curr = <<>>
            /\ closest = NoWord

(* Mutant of Closer: the last of the closest words wins                     *)
CloserLast(d) == d <= MaxDistance /\ (closest = NoWord \/ d <= closest.d)

(* The filter, and min_by_key, which keeps the first of equal elements.     *)
Closer(d) == d <= MaxDistance /\ (closest = NoWord \/ d < closest.d)

Found(d) ==
  /\ closest' = IF Closer(d) THEN [at |-> candidate, d |-> d] ELSE closest
  /\ candidate' = candidate + 1
  /\ row' = 0 /\ col' = 0
  /\ prev' = <<>> /\ curr' = <<>>
  /\ UNCHANGED typed

(* levenshtein_distance: the early returns, or the first row.               *)
BeginWord ==
  /\ candidate <= Len(WordList) /\ row = 0
  /\ IF Len(typed) = 0 \/ Width = 0
     THEN Found(Len(typed) + Width)
     ELSE /\ prev' = [x \in 0..Width |-> x]
          /\ curr' = [x \in 0..Width |-> IF x = 0 THEN 1 ELSE 0]
          /\ row' = 1 /\ col' = 1
          /\ UNCHANGED <<typed, candidate, closest>>

Cost == IF typed[row] = WordList[candidate][col] THEN 0 ELSE 1

Cell ==
  /\ row > 0 /\ col <= Width
  /\ curr' = [curr EXCEPT ![col] =
                Least(Least(prev[col] + 1, curr[col - 1] + 1), prev[col - 1] + Cost)]
  /\ col' = col + 1
  /\ UNCHANGED <<typed, candidate, prev, row, closest>>

(* The rows are swapped, and the next one begins.                           *)
NextRow ==
  /\ row > 0 /\ col > Width /\ row < Len(typed)
  /\ prev' = curr /\ curr' = [prev EXCEPT ![0] = row + 1]
  /\ row' = row + 1 /\ col' = 1
  /\ UNCHANGED <<typed, candidate, closest>>

LastRow == row > 0 /\ col > Width /\ row = Len(typed) /\ Found(curr[Width])

Searched == candidate > Len(WordList) /\ UNCHANGED wordVars

WordNext == BeginWord \/ Cell \/ NextRow \/ LastRow \/ Searched

WordSpec == WordInit /\ [][WordNext]_wordVars
-----------------------------------------------------------------------------
(* The distance by its meaning.  An alignment pairs letters of one word     *)
(* with letters of the other without crossing; a letter without a partner   *)
(* is removed or inserted, a pair of different letters is a replacement,    *)
(* and the distance is what the cheapest alignment costs.                   *)
Alignments(u, v) ==
  {A \in SUBSET ((1..Len(u)) \X (1..Len(v))) :
     \A p, q \in A : (p[1] < q[1]) <=> (p[2] < q[2])}

Removed(u, A) == {x \in 1..Len(u) : \A p \in A : p[1] # x}
Inserted(v, A) == {y \in 1..Len(v) : \A p \in A : p[2] # y}
Replaced(u, v, A) == {p \in A : u[p[1]] # v[p[2]]}

AlignmentCost(u, v, A) ==
  Cardinality(Removed(u, A)) + Cardinality(Inserted(v, A)) + Cardinality(Replaced(u, v, A))

\* The beginnings of the words of the list.
ListPrefixes ==
  UNION {{SubSeq(WordList[e], 1, x) : x \in 0..Len(WordList[e])} : e \in 1..Len(WordList)}

Distance == [u \in Words |-> [v \in ListPrefixes |->
  LET costs == {AlignmentCost(u, v, A) : A \in Alignments(u, v)}
  IN  CHOOSE d \in costs : \A c \in costs : d <= c]]

(* Every finished cell holds the distance of two prefixes, although the     *)
(* rows still hold what an earlier row left in them.                        *)
RowsAreDistances ==
  row > 0 =>
    /\ \A x \in 0..Width :
         prev[x] = Distance[SubSeq(typed, 1, row - 1)][SubSeq(WordList[candidate], 1, x)]
    /\ \A x \in 0..col - 1 :
         curr[x] = Distance[SubSeq(typed, 1, row)][SubSeq(WordList[candidate], 1, x)]

(* The answer is the first of the words nothing in the list is closer than, *)
(* and none only when every word is too far.                                *)
AnswerIsFirstClosest ==
  candidate > Len(WordList) =>
    LET d(x) == Distance[typed][WordList[x]] IN
    IF closest = NoWord THEN \A x \in 1..Len(WordList) : d(x) > MaxDistance
    ELSE /\ closest.d = d(closest.at) /\ closest.d <= MaxDistance
         /\ \A x \in 1..Len(WordList) :
              d(x) >= closest.d /\ (x < closest.at => d(x) > closest.d)

(* The two rows hold edit distances whatever earlier rows left in them, and *)
(* find_closest_word answers the first of the words of least distance, and  *)
(* none only when every word is too far (recovery/bip39_impl.rs).           *)
ClosestIsFirstClosest == RowsAreDistances /\ AnswerIsFirstClosest
=============================================================================
