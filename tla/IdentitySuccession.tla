-------------------------- MODULE IdentitySuccession --------------------------
(***************************************************************************)
(* identity_succession.rs: an account's master key says that one identity  *)
(* is succeeded by another.  Machines of the user sign statements, which   *)
(* reach the Cloud late, twice, in any order, with their fields rendered   *)
(* differently, or with a field changed on the way.  The Cloud (not part   *)
(* of the repository) holds each account's identity and key version; it    *)
(* verifies a statement and compares the old identity, as the docs of      *)
(* verify_identity_succession ask of it.                                   *)
(***************************************************************************)
EXTENDS Naturals, FiniteSets

CONSTANTS Accounts, Fingerprints,
          Masters, MasterOf(_),   \* the registered master key of an account
          MaxKeyVersion,             \* of the u32 key version
          Times,                  \* of issued_at_unix
          MaxSigned               \* statements signed in a behaviour

ASSUME VersionAssumption == MaxKeyVersion \in Nat
ASSUME MasterAssumption == \A a \in Accounts : MasterOf(a) \in Masters

(* A field as text: what it names and how it is written.  Blank names nothing. *)
Blank == "blank"
Renderings == {"plain", "other"}
Text(names) == [names : names \union {Blank}, written : Renderings]

Statements == [account : Text(Accounts), old : Text(Fingerprints), new : Text(Fingerprints),
               version : 1..MaxKeyVersion, issued : Times]

VARIABLES cloud,     \* of an account: its identity and key version
          signed,    \* signatures that exist: who signed which bytes
          consented, \* what the holder of an account's master meant to say
          applied    \* history, of an account: the statements that took effect

successionVars == <<cloud, signed, consented, applied>>

(* normalize_account, normalize_fingerprint: the rendering is dropped.      *)
Normalize(text) == text.names

(* Mutant of CanonicalSuccession: the account is not a signed field.        *)
CanonicalNoAccount(s) == <<Normalize(s.old), Normalize(s.new), s.version, s.issued>>

(* IdentitySuccession::canonical: the normalized fields, length-prefixed.   *)
CanonicalSuccession(s) == <<Normalize(s.account), Normalize(s.old), Normalize(s.new), s.version, s.issued>>

(* IdentitySuccession::validate_shape.                                      *)
ValidateShape(s) ==
  /\ Normalize(s.account) # Blank /\ Normalize(s.old) # Blank /\ Normalize(s.new) # Blank
  /\ Normalize(s.old) # Normalize(s.new)

(* IdentitySuccession::new: the normalized statement the user has in mind.  *)
Meaning(s) == [account |-> Normalize(s.account), old |-> Normalize(s.old), new |-> Normalize(s.new),
               version |-> s.version, issued |-> s.issued]

SuccessionInit == /\ cloud \in [Accounts -> {[fp |-> f, version |-> 1] : f \in Fingerprints}]
                  /\ signed = {}
                  /\ consented = {}
                  /\ applied = [a \in Accounts |-> {}]

(* sign_identity_succession, on a machine where the phrase of master m was  *)
(* entered.  The machine may believe the account to be at any state.        *)
Sign(m, s) ==
  /\ Cardinality(signed) < MaxSigned
  /\ ValidateShape(s)
  /\ signed' = signed \union {<<m, CanonicalSuccession(s)>>}
  /\ consented' = consented \union {<<m, Meaning(s)>>}
  /\ UNCHANGED <<cloud, applied>>

(* Mutant of VerifySuccession: the version may stay where it is             *)
VerifyNotOlder(master, s, sig, current) ==
  /\ ValidateShape(s)
  /\ s.version >= current
  /\ sig = <<master, CanonicalSuccession(s)>>

(* verify_identity_succession; decode_succession_signature lets only the    *)
(* 64 bytes of a signature through.                                         *)
VerifySuccession(master, s, sig, current) ==
  /\ ValidateShape(s)
  /\ s.version > current
  /\ sig = <<master, CanonicalSuccession(s)>>

(* The Cloud is given a statement with a signature, finds the account it    *)
(* names and applies it.                                                    *)
Receive(s, sig) ==
  LET a == Normalize(s.account) IN
  /\ a \in Accounts
  /\ VerifySuccession(MasterOf(a), s, sig, cloud[a].version)
  /\ Normalize(s.old) = cloud[a].fp
  /\ cloud' = [cloud EXCEPT ![a] = [fp |-> Normalize(s.new), version |-> s.version]]
  /\ applied' = [applied EXCEPT ![a] = @ \union {Meaning(s)}]
  /\ UNCHANGED <<signed, consented>>

SuccessionNext == \/ \E m \in Masters, s \in Statements : Sign(m, s)
                  \/ \E s \in Statements, sig \in signed : Receive(s, sig)

SuccessionSpec == SuccessionInit /\ [][SuccessionNext]_successionVars
-----------------------------------------------------------------------------
(* Every change of an account's identity is one its own master signed, of   *)
(* just this transition: no statement of another account (though both have  *)
(* one phrase), no changed field, no other rendering leads anywhere else.   *)
EveryChangeConsented ==
  [][\A a \in Accounts : cloud'[a] # cloud[a] =>
       \E t \in Times :
         <<MasterOf(a), [account |-> a, old |-> cloud[a].fp, new |-> cloud'[a].fp,
                         version |-> cloud'[a].version, issued |-> t]>> \in consented]_successionVars

(* "an old statement replayed after a later succession does nothing": once  *)
(* a statement took effect, it is never accepted again, and neither is any  *)
(* other signed for the same or an earlier version, however late, often or  *)
(* rewritten it arrives; so a version stands for one change and for one     *)
(* identity ever.                                                           *)
ReplayDoesNothing ==
  \A a \in Accounts : \A x \in applied[a] :
    /\ \A y \in applied[a] : x.version = y.version => x = y
    /\ \A s \in Statements, sig \in signed :
         (Normalize(s.account) = a /\ s.version <= x.version)
           => ~ VerifySuccession(MasterOf(a), s, sig, cloud[a].version)

(* "rendering differences never change the bytes": a statement that was     *)
(* signed for the state an account is in is accepted, however its fields    *)
(* are written when it arrives.                                             *)
SignedIsAccepted ==
  \A s \in Statements : \A c \in consented :
    (c[2] = Meaning(s) /\ c[1] = MasterOf(c[2].account) /\ s.version > cloud[c[2].account].version)
      => \E sig \in signed : VerifySuccession(c[1], s, sig, cloud[c[2].account].version)
=============================================================================
