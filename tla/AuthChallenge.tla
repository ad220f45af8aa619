---------------------------- MODULE AuthChallenge ----------------------------
(***************************************************************************)
(* auth/: challenge-response sign-in of a machine.  The Cloud (external)   *)
(* issues nonces, verifies answers and hands out tokens with this crate's  *)
(* functions.  What a client is asked to sign comes over an untrusted      *)
(* server, which may present anything as a challenge and may pass on every *)
(* signature it ever saw.  A client and the Cloud have clocks of their     *)
(* own; the Cloud's may be put forward and back.                           *)
(***************************************************************************)
EXTENDS Naturals, Sequences, FiniteSets

CONSTANTS Keys, Fingerprint(_),   \* of a key, as Fingerprint::to_hex writes it
          Prefix,                 \* machine_id_prefix: its dash-separated parts, its length, and
                                  \* whether all else in it is alphanumeric
          Nonces, Grants,
          TokenLife, Leeway,      \* access_token_expiry_secs; of jsonwebtoken's Validation
          MaxAge,                 \* max_age_secs of is_challenge_valid
          MaxTime, MaxAhead,      \* bounds of the clock and of how far the Cloud's is ahead
          MaxStamped              \* timestamped challenges made

ASSUME BoundAssumption == /\ TokenLife \in Nat /\ Leeway \in Nat /\ MaxAge \in Nat
                          /\ MaxTime \in Nat /\ MaxAhead \in Nat

(* A fingerprint names one key, and to_hex writes it in upper case.         *)
ASSUME FingerprintAssumption ==
  /\ \A k \in Keys : Fingerprint(k) \in [head : STRING, tail : STRING, width : {40, 64}, letters : {"upper"}]
  /\ \A k, l \in Keys : Fingerprint(k) = Fingerprint(l) => k = l

None == [kind |-> "none"]
Purposes == {"Login", "RegistrationProof"}

VARIABLES now,      \* the client's clock
          ahead,    \* the Cloud's clock is this much ahead
          open,     \* challenges of the Cloud that wait for an answer
          used,     \* nonces drawn so far
          stamped,  \* timestamped challenges: their stamp, when and by which clock they were made
          sigs,     \* signatures that exist: key and bytes
          meant,    \* what the holders of the keys set out to sign
          machines, \* registered: machine id and stored key
          sessions  \* tokens handed out, for which key and nonce

authVars == <<now, ahead, open, used, stamped, sigs, meant, machines, sessions>>

CloudClock == now + ahead
Minus(a, b) == IF a > b THEN a - b ELSE 0  \* u64::saturating_sub
-----------------------------------------------------------------------------
(* Mutant of Domain: one tag for every challenge                            *)
DomainShared(purpose) == "gc-auth-v1"

(* ChallengePurpose::domain.                                                *)
Domain(purpose) == IF purpose = "Login" THEN "gc-auth-login-v1" ELSE "gc-auth-registration-pop-v1"

(* is_well_formed_challenge: the 64 hex digits of a nonce, and nothing like *)
(* a timestamp with its colon or a canonical with its length prefixes.      *)
IsWellFormedChallenge(c) == c.kind = "nonce"

(* challenge_signing_payload.                                               *)
ChallengeSigningPayload(purpose, c) ==
  IF IsWellFormedChallenge(c) THEN [kind |-> "canonical", tag |-> Domain(purpose), body |-> c] ELSE None

GrantCanonical(g) == [kind |-> "canonical", tag |-> "gc-grant-v2", body |-> g]

(* verify_detached_signature: some signature of the key's is over the data. *)
VerifyDetachedSignature(k, data) == <<k, data>> \in sigs
-----------------------------------------------------------------------------
(* MACHINE_ID_HEX_WIDTHS                                                    *)
Widths == {40, 64}

(* is_valid_fingerprint_hex.                                                *)
IsValidFingerprintHex(hex) == hex.width \in Widths

(* derive_machine_id: the whole fingerprint, lowercased.                    *)
DeriveMachineId(k) == [prefix |-> Prefix, hex |-> [Fingerprint(k) EXCEPT !.letters = "lower"]]

(* verify_machine_id.                                                       *)
VerifyMachineId(k, id) == id = DeriveMachineId(k)

(* is_valid_machine_id and is_valid_machine_id_format split at every dash   *)
(* and want two parts.                                                      *)
TwoParts(id) == Len(id.prefix.parts) = 1
IsValidMachineId(id) == TwoParts(id) /\ id.prefix = Prefix /\ IsValidFingerprintHex(id.hex)
IsValidMachineIdFormat(id) ==
  TwoParts(id) /\ id.prefix.length \in 2..6 /\ id.prefix.alphanumeric /\ IsValidFingerprintHex(id.hex)
-----------------------------------------------------------------------------
(* generate_access_token.                                                   *)
GenerateAccessToken(sub) == [sub |-> sub, iat |-> CloudClock, exp |-> CloudClock + TokenLife]

(* validate_access_token: jsonwebtoken's default Validation.                *)
ValidateAccessToken(token) == token.exp >= Minus(CloudClock, Leeway)

(* is_token_expired, by the client's clock.                                 *)
IsTokenExpired(token) == token.exp < now

(* Mutant of IsChallengeValid: the operands of saturating_sub are swapped   *)
IsChallengeValidSwapped(c) == Minus(c.stamp, CloudClock) <= MaxAge

(* is_challenge_valid.                                                      *)
IsChallengeValid(c) == Minus(CloudClock, c.stamp) <= MaxAge
-----------------------------------------------------------------------------
AuthInit == /\ now = 0 /\ ahead = 0
            /\ open = {} /\ used = {} /\ stamped = {}
            /\ sigs = {} /\ meant = {} /\ machines = {} /\ sessions = {}

Tick == /\ now < MaxTime
        /\ now' = now + 1
        /\ UNCHANGED <<ahead, open, used, stamped, sigs, meant, machines, sessions>>

AdjustClock(a) ==
  /\ a # ahead
  /\ ahead' = a
  /\ UNCHANGED <<now, open, used, stamped, sigs, meant, machines, sessions>>

(* generate_challenge: a nonce never seen before.                           *)
GenerateChallenge(n, purpose) ==
  /\ n \notin used
  /\ used' = used \union {n}
  /\ open' = open \union {<<[kind |-> "nonce", n |-> n], purpose>>}
  /\ UNCHANGED <<now, ahead, stamped, sigs, meant, machines, sessions>>

GenerateTimestampedChallenge ==
  /\ Cardinality(stamped) < MaxStamped
  /\ stamped' = stamped \union {[kind |-> "stamped", stamp |-> CloudClock, at |-> now, ahead |-> ahead]}
  /\ UNCHANGED <<now, ahead, open, used, sigs, meant, machines, sessions>>

(* What the server may present: nonces, timestamped challenges and the      *)
(* canonicals of other objects.                                             *)
Presented == {[kind |-> "nonce", n |-> n] : n \in used} \union stamped \union {GrantCanonical(g) : g \in Grants}

(* EncryptionEngine::sign_auth_challenge.                                   *)
SignAuthChallenge(k, purpose, c) ==
  LET payload == ChallengeSigningPayload(purpose, c) IN
  /\ payload # None
  /\ sigs' = sigs \union {<<k, payload>>}
  /\ meant' = meant \union {<<k, purpose, c>>}
  /\ UNCHANGED <<now, ahead, open, used, stamped, machines, sessions>>

(* The same key signs its own grants.                                       *)
SignGrant(k, g) ==
  /\ sigs' = sigs \union {<<k, GrantCanonical(g)>>}
  /\ meant' = meant \union {<<k, "Grant", g>>}
  /\ UNCHANGED <<now, ahead, open, used, stamped, machines, sessions>>

Answered(k, purpose, c) ==
  /\ <<c, purpose>> \in open
  /\ ChallengeSigningPayload(purpose, c) # None
  /\ VerifyDetachedSignature(k, ChallengeSigningPayload(purpose, c))
  /\ open' = open \ {<<c, purpose>>}

(* The Cloud registers a key under the id it claims; ids are unique.        *)
Register(k, id, c) ==
  /\ Answered(k, "RegistrationProof", c)
  /\ VerifyMachineId(k, id)
  /\ machines' = machines \union {<<id, k>>}
  /\ UNCHANGED <<now, ahead, used, stamped, sigs, meant, sessions>>

(* generate_token_pair, for the answer of a registered machine.             *)
Login(m, c) ==
  /\ Answered(m[2], "Login", c)
  /\ sessions' = sessions \union {[key |-> m[2], challenge |-> c, token |-> GenerateAccessToken(m[1])]}
  /\ UNCHANGED <<now, ahead, used, stamped, sigs, meant, machines>>

AuthNext == \/ Tick
            \/ \E a \in 0..MaxAhead : AdjustClock(a)
            \/ \E n \in Nonces, p \in Purposes : GenerateChallenge(n, p)
            \/ GenerateTimestampedChallenge
            \/ \E k \in Keys, p \in Purposes, c \in Presented : SignAuthChallenge(k, p, c)
            \/ \E k \in Keys, g \in Grants : SignGrant(k, g)
            \/ \E k \in Keys, o \in open :
                 \E l \in {"upper", "lower"} : Register(k, [DeriveMachineId(k) EXCEPT !.hex.letters = l], o[1])
            \/ \E m \in machines, o \in open : Login(m, o[1])

AuthSpec == AuthInit /\ [][AuthNext]_authVars
-----------------------------------------------------------------------------
(* "a signature made for one purpose never verifies as another": behind     *)
(* every session is a holder of the stored key who set out to log in with   *)
(* that challenge, whoever passed the signature on; and behind every        *)
(* registration one who set out to register.                                *)
LoginWasMeant ==
  /\ \A s \in sessions : <<s.key, "Login", s.challenge>> \in meant
  /\ \A m \in machines : \E c \in Presented : <<m[2], "RegistrationProof", c>> \in meant

(* "a malicious server [may] present any byte string (for example the       *)
(* canonical of a key grant) as a challenge": no key has signed a grant its *)
(* holder did not make.                                                     *)
GrantsWereMeant ==
  \A k \in Keys, g \in Grants : <<k, GrantCanonical(g)>> \in sigs => <<k, "Grant", g>> \in meant

(* "the identifier names one key": no two keys register under one id.       *)
MachineIdNamesOneKey == \A m1, m2 \in machines : m1[1] = m2[1] => m1[2] = m2[2]

(* A machine that registered is not refused later: its derived id is of the *)
(* format "{prefix}-{40 or 64 hex chars}" both validators describe.         *)
RegisteredIdIsValid == \A m \in machines : IsValidMachineId(m[1]) /\ IsValidMachineIdFormat(m[1])

(* A client that asks is_token_expired before it sends is not refused, as   *)
(* long as the Cloud's clock is ahead of its own by no more than the leeway.*)
LiveTokenAccepted ==
  \A s \in sessions : (ahead <= Leeway /\ ~IsTokenExpired(s.token)) => ValidateAccessToken(s.token)

(* A timestamped challenge is accepted for no longer than its age allows,   *)
(* and longer only by as much as the clock was put back since.              *)
ChallengeAgeBounded ==
  \A c \in stamped : IsChallengeValid(c) => now - c.at <= MaxAge + Minus(c.ahead, ahead)
=============================================================================
