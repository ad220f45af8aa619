------------------------- MODULE CanonicalEncoding -------------------------
(***************************************************************************)
(* lp_push of gitcellar-crypto/src/canonical.rs, the encoding under every  *)
(* signed statement of the crate (grants, successions, manifests): each    *)
(* field is written as its length in decimal, a colon, its bytes and a     *)
(* newline.  The signed modules treat the result as the tuple of fields;   *)
(* here the bytes are compared with the tuple, for fields made of the very *)
(* bytes the framing uses.                                                 *)
(***************************************************************************)
EXTENDS Naturals, Sequences

CONSTANTS
    Buffer,      \* the buffers statements are written to
    Byte,        \* bytes a field may hold; digits, the colon and newline too
    Digits,      \* the decimal digits
    Decimal(_),  \* to_string of a length
    MaxField,    \* bound: bytes of a field
    MaxFields    \* bound: fields of a statement

\* to_string writes digits only, and different numbers differently.
ASSUME EncodingAssumption ==
    /\ MaxField \in Nat /\ MaxFields \in Nat
    /\ ":" \notin Digits
    /\ \A n \in 0 .. MaxField : Decimal(n) \in Seq(Digits)
    /\ \A m, n \in 0 .. MaxField : Decimal(m) = Decimal(n) => m = n

VARIABLES
    encoded,  \* per buffer: the bytes written to it
    pushed,   \* history, per buffer: the fields pushed
    ends      \* history, per buffer: where each field ends

encodingVars == <<encoded, pushed, ends>>

Field == UNION {[1 .. n -> Byte] : n \in 0 .. MaxField}

EncodingInit ==
    /\ encoded = [b \in Buffer |-> <<>>]
    /\ pushed = [b \in Buffer |-> <<>>]
    /\ ends = [b \in Buffer |-> <<>>]

\* What lp_push writes for a field.
Frame(field) == Decimal(Len(field)) \o <<":">> \o field \o <<"NL">>

\* Mutant of LpPush: no length, a separator only.
LpPushUnframed(out, field) == out \o field \o <<"NL">>

LpPush(out, field) == out \o Frame(field)

\* A statement grows field by field.
Push(b, field) ==
    /\ Len(pushed[b]) < MaxFields
    /\ encoded' = [encoded EXCEPT ![b] = LpPush(encoded[b], field)]
    /\ pushed' = [pushed EXCEPT ![b] = Append(pushed[b], field)]
    /\ ends' = [ends EXCEPT ![b] = Append(ends[b], Len(LpPush(encoded[b], field)))]

EncodingNext == \E b \in Buffer, field \in Field : Push(b, field)

EncodingSpec == EncodingInit /\ [][EncodingNext]_encodingVars

\* Two statements have the same canonical bytes only if they have the same
\* fields: no field's content can be moved across a boundary (lp_push).
Injective == \A a, b \in Buffer : encoded[a] = encoded[b] => pushed[a] = pushed[b]
=============================================================================
