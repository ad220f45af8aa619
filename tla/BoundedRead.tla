----------------------------- MODULE BoundedRead -----------------------------
(***************************************************************************)
(* Reading the body of a response from a provider nobody trusts            *)
(* (bounded-http/src/lib.rs): the declared length is tested first, the     *)
(* bytes are counted as they come.  A provider declares what it likes and  *)
(* streams what it likes, in pieces of any size.                           *)
(***************************************************************************)
EXTENDS Integers

CONSTANTS
    Reader,     \* reads under way
    Ceiling,    \* the ceilings in use: an object's and a diagnostic's
    Undeclared, \* a response without Content-Length
    MaxDeclared,\* bound: declared lengths
    MaxPiece    \* bound: the size of one piece

ASSUME ReadAssumption ==
    /\ Ceiling \subseteq Nat /\ MaxDeclared \in Nat /\ MaxPiece \in Nat
    /\ Undeclared \notin 0 .. MaxDeclared

VARIABLES
    read  \* per reader: [max, declared, got, sent, state]

readVars == read

Length == 0 .. MaxDeclared

\* Where a read ends, and the variants of BoundedReadError.
Ended == {"ok", "DeclaredTooLarge", "StreamedTooLarge", "Io"}

Fresh == [max |-> 0, declared |-> Undeclared, got |-> 0, sent |-> 0, state |-> "idle"]

ReadInit == read = [r \in Reader |-> Fresh]

\* read_body_bounded, its first guard.
StartRead(r, max, declared) ==
    /\ read[r].state \in {"idle"} \cup Ended
    /\ read' = [read EXCEPT ![r] =
          [max |-> max, declared |-> declared, got |-> 0, sent |-> 0,
           state |-> IF declared # Undeclared /\ declared > max
                     THEN "DeclaredTooLarge" ELSE "reading"]]

\* Mutant of Piece: a body of exactly the ceiling is refused.
PieceStrict(r, n) ==
    LET s == read[r]
    IN  /\ s.state = "reading"
        /\ read' = [read EXCEPT ![r] =
              IF s.got + n >= s.max
              THEN [s EXCEPT !.sent = @ + n, !.state = "StreamedTooLarge"]
              ELSE [s EXCEPT !.sent = @ + n, !.got = @ + n]]

\* The second guard, for each piece: counted before it is buffered.
Piece(r, n) ==
    LET s == read[r]
    IN  /\ s.state = "reading"
        /\ read' = [read EXCEPT ![r] =
              IF s.got + n > s.max
              THEN [s EXCEPT !.sent = @ + n, !.state = "StreamedTooLarge"]
              ELSE [s EXCEPT !.sent = @ + n, !.got = @ + n]]

\* The body ends, or the connection breaks.
FinishRead(r, how) ==
    /\ read[r].state = "reading"
    /\ read' = [read EXCEPT ![r].state = how]

ReadNext ==
    \E r \in Reader :
       \/ \E max \in Ceiling, declared \in Length \cup {Undeclared} : StartRead(r, max, declared)
       \/ \E n \in 1 .. MaxPiece : Piece(r, n)
       \/ FinishRead(r, "ok") \/ FinishRead(r, "Io")

ReadSpec == ReadInit /\ [][ReadNext]_readVars

\* read_text_bounded: an error body becomes text, or a marker, never an error.
ReadTextBounded(s) == IF s.state = "ok" THEN "text" ELSE "marker"

-----------------------------------------------------------------------------
\* A body is returned whole or refused, within memory bounded by the ceiling
\* ("Memory is bounded by max, not by what the peer sends"), and refused only
\* when it was over the ceiling or declared to be: no truncated object reaches
\* the AEAD, and an object of exactly the ceiling is read
\* (bounded-http/src/lib.rs).
WholeOrOver ==
    \A r \in Reader :
        LET s == read[r]
        IN  /\ s.got <= s.max
            /\ s.state = "ok" => s.got = s.sent /\ ReadTextBounded(s) = "text"
            /\ s.state = "StreamedTooLarge" => s.sent > s.max
            /\ s.state = "DeclaredTooLarge" => s.declared > s.max
=============================================================================
