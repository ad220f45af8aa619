---------------------------- MODULE DeviceTrust ----------------------------
(***************************************************************************)
(* Device and revocation certificates of one account (device_cert.rs,      *)
(* revocation_cert.rs), the master key that roots them (master.rs) and the *)
(* migration of a legacy key (legacy_extract.rs).                          *)
(*                                                                         *)
(* The crate signs and verifies; who is enrolled and who is revoked is     *)
(* kept by its callers (the Cloud's desktop_instances rows), of which      *)
(* there are several here.  Certificates reach each of them late, twice,   *)
(* altered or in any order.  A key pair is a model value; a signature is   *)
(* the key and the payload it covers.                                      *)
(***************************************************************************)
EXTENDS Naturals, FiniteSets

CONSTANTS
    Device,     \* device key pairs
    Phrase,     \* what a user may type as a recovery phrase
    PhraseMaster,   \* per phrase: the key pair it derives, NoMaster if it is invalid
    Legacy,     \* the states a legacy secret.pgp file may be in
    LegacyKey,  \* the device key pair a legacy file holds
    Verifier,   \* callers of verify, each with its own enrolment records
    NoMaster,   \* no key
    MaxCerts    \* bound: certificates signed in one behaviour

ASSUME TrustAssumption ==
    /\ PhraseMaster \in [Phrase -> (UNION {{PhraseMaster[p]} : p \in Phrase})]
    /\ \A p \in Phrase : PhraseMaster[p] \notin Device
    /\ LegacyKey \in Device
    /\ NoMaster \notin Device
    /\ MaxCerts \in Nat

VARIABLES
    published,  \* the account's published master public key
    certs,      \* every certificate signed so far
    received,   \* per verifier: what it was given and accepted or refused
    enrolled,   \* per verifier: devices with an accepted certificate
    revoked     \* per verifier: devices with an accepted revocation

trustVars == <<published, certs, received, enrolled, revoked>>

VERSION == 1
MAX_LABEL_BYTES == 64

MasterKey == {PhraseMaster[p] : p \in Phrase} \ {NoMaster}
Key == Device \cup MasterKey
SignerRole == {"Master", "Device"}

\* The two payloads differ in shape, so neither decodes as the other.
DeviceCertificatePayload ==
    [cert_version : {VERSION}, device_pubkey : Device, master_pubkey : Key,
     label : 0 .. MAX_LABEL_BYTES, signer_role : SignerRole, signer_pubkey : Key]
RevocationCertificatePayload ==
    [cert_version : {VERSION}, target_device_pubkey : Device, master_pubkey : Key,
     signer_role : SignerRole, signer_pubkey : Key]

\* A payload and its signature: who signed and which payload that covers.
SignedBy(P) == [payload : P, key : Key, over : P]
DeviceCertificate == SignedBy(DeviceCertificatePayload)
RevocationCertificate == SignedBy(RevocationCertificatePayload)

TrustInit ==
    /\ published = NoMaster
    /\ certs = {}
    /\ received = [v \in Verifier |-> {}]
    /\ enrolled = [v \in Verifier |-> {}]
    /\ revoked = [v \in Verifier |-> {}]

-----------------------------------------------------------------------------
\* MaterializedMaster::from_phrase: deterministic, whatever the spelling; an
\* invalid phrase derives nothing.
FromPhrase(p) == PhraseMaster[p]

\* extract_ed25519_keypair: only an unencrypted Ed25519 secret whose derived
\* public key is the certificate's own.
ExtractKeypair(f) == IF f = "plain" THEN LegacyKey ELSE NoMaster

\* First onboarding: the master derived from the phrase is published.
Onboard(p) ==
    /\ published = NoMaster
    /\ FromPhrase(p) # NoMaster
    /\ published' = FromPhrase(p)
    /\ UNCHANGED <<certs, received, enrolled, revoked>>

\* First launch of a legacy account: from_secret_bytes makes the one legacy key
\* pair both the master and a device key.
Migrate(f) ==
    /\ published = NoMaster
    /\ ExtractKeypair(f) # NoMaster
    /\ published' = ExtractKeypair(f)
    /\ UNCHANGED <<certs, received, enrolled, revoked>>

ValidateLabel(label) == label <= MAX_LABEL_BYTES

\* encode_payload and a signature by key k: the signature covers every field.
Signed(k, p) == [payload |-> p, key |-> k, over |-> p]

DevicePayload(m, role, signer, d, label) ==
    [cert_version |-> VERSION, device_pubkey |-> d, master_pubkey |-> m,
     label |-> label, signer_role |-> role, signer_pubkey |-> signer]
RevocationPayload(m, role, signer, d) ==
    [cert_version |-> VERSION, target_device_pubkey |-> d, master_pubkey |-> m,
     signer_role |-> role, signer_pubkey |-> signer]

Issue(c) ==
    /\ Cardinality(certs) < MaxCerts
    /\ certs' = certs \cup {c}
    /\ UNCHANGED <<published, received, enrolled, revoked>>

\* The keys a user can materialize: every phrase, and after a migration the
\* legacy key pair.
RootKeys == MasterKey \cup ({published} \ {NoMaster})

\* DeviceCertificate::sign_with_master.
SignWithMaster(m, d, label) ==
    /\ m \in RootKeys
    /\ ValidateLabel(label)
    /\ Issue(Signed(m, DevicePayload(m, "Master", m, d, label)))

\* DeviceCertificate::sign_with_device: any device signs, revoked or not.
SignWithDevice(s, d, label) ==
    /\ published # NoMaster
    /\ ValidateLabel(label)
    /\ Issue(Signed(s, DevicePayload(published, "Device", s, d, label)))

\* RevocationCertificate::sign_with_master and sign_with_device.
RevokeWithMaster(m, d) ==
    /\ m \in RootKeys
    /\ Issue(Signed(m, RevocationPayload(m, "Master", m, d)))
RevokeWithDevice(s, d) ==
    /\ published # NoMaster
    /\ Issue(Signed(s, RevocationPayload(published, "Device", s, d)))

\* verify_with_verifying_key under ideal signatures.
CertSignatureOk(c) == c.key = c.payload.signer_pubkey /\ c.over = c.payload

\* The signer checks both kinds of certificate share.
SignerOk(p, master, eligible) ==
    \/ p.signer_role = "Master" /\ p.signer_pubkey = master
    \/ /\ p.signer_role = "Device"
       /\ p.signer_pubkey \in eligible
       /\ p.signer_pubkey # master

\* Mutant of VerifyDevice: any device may vouch for another.
VerifyDeviceAnySigner(c, master, eligible) ==
    /\ c.payload.cert_version = VERSION
    /\ c.payload.master_pubkey = master
    /\ ValidateLabel(c.payload.label)
    /\ CertSignatureOk(c)

\* DeviceCertificate::verify.
VerifyDevice(c, master, eligible) ==
    /\ c.payload.cert_version = VERSION
    /\ c.payload.master_pubkey = master
    /\ ValidateLabel(c.payload.label)
    /\ SignerOk(c.payload, master, eligible)
    /\ CertSignatureOk(c)

\* RevocationCertificate::verify: the target need not be known.
VerifyRevocation(c, master, eligible) ==
    /\ c.payload.cert_version = VERSION
    /\ c.payload.master_pubkey = master
    /\ SignerOk(c.payload, master, eligible)
    /\ CertSignatureOk(c)

IsDeviceCert(c) == "device_pubkey" \in DOMAIN c.payload
Verify(c, master, eligible) ==
    IF IsDeviceCert(c) THEN VerifyDevice(c, master, eligible)
                       ELSE VerifyRevocation(c, master, eligible)

\* Mutant of Eligible: revoked devices stay in the list.
EligibleEnrolled(v) == enrolled[v]

\* The non-revoked devices a caller passes as eligible_device_pubkeys.
Eligible(v) == enrolled[v] \ revoked[v]

\* A caller runs verify on a certificate and records an accepted one.
Deliver(v, c) ==
    /\ published # NoMaster
    /\ received' = [received EXCEPT ![v] = @ \cup ({c} \cap certs)]
    /\ \/ /\ IsDeviceCert(c) /\ VerifyDevice(c, published, Eligible(v))
          /\ enrolled' = [enrolled EXCEPT ![v] = @ \cup {c.payload.device_pubkey}]
          /\ UNCHANGED revoked
       \/ /\ ~IsDeviceCert(c) /\ VerifyRevocation(c, published, Eligible(v))
          /\ revoked' = [revoked EXCEPT ![v] = @ \cup {c.payload.target_device_pubkey}]
          /\ UNCHANGED enrolled
       \/ ~Verify(c, published, Eligible(v)) /\ UNCHANGED <<enrolled, revoked>>
    /\ UNCHANGED <<published, certs>>

\* What storage or the network may make of a certificate: one field differs
\* from what was signed.
AlteredCert(c) ==
    ({[c EXCEPT !.payload.signer_role = r] : r \in SignerRole}
       \cup {[c EXCEPT !.payload.master_pubkey = published]}
       \cup (IF IsDeviceCert(c)
              THEN {[c EXCEPT !.payload.device_pubkey = d] : d \in Device}
              ELSE {[c EXCEPT !.payload.target_device_pubkey = d] : d \in Device}))
    \ {c}

Label == {MAX_LABEL_BYTES, MAX_LABEL_BYTES + 1}

TrustNext ==
    \/ \E p \in Phrase : Onboard(p)
    \/ \E f \in Legacy : Migrate(f)
    \/ \E m \in RootKeys, d \in Device :
         RevokeWithMaster(m, d) \/ \E l \in Label : SignWithMaster(m, d, l)
    \/ \E s, d \in Device :
         RevokeWithDevice(s, d) \/ \E l \in Label : SignWithDevice(s, d, l)
    \/ \E v \in Verifier, c \in certs : Deliver(v, c)
    \/ \E v \in Verifier, c \in UNION {AlteredCert(x) : x \in certs} : Deliver(v, c)

TrustSpec == TrustInit /\ [][TrustNext]_trustVars

-----------------------------------------------------------------------------
TrustTypeOK ==
    /\ published \in Key \cup {NoMaster}
    /\ \A c \in certs : c \in IF IsDeviceCert(c) THEN DeviceCertificate
                                               ELSE RevocationCertificate
    /\ \A v \in Verifier : received[v] \subseteq certs
    /\ enrolled \in [Verifier -> SUBSET Device]
    /\ revoked \in [Verifier -> SUBSET Device]

\* S holds every device certified for this account by the master or by a
\* member of S.
Closed(S) ==
    \A c \in certs :
        IsDeviceCert(c) /\ c.payload.master_pubkey = published
            /\ c.key \in S \cup {published}
        => c.payload.device_pubkey \in S

\* A chain of certificates leads from the master to every enrolled device,
\* whatever was altered, repeated or reordered on the way: the enrolled devices
\* lie in every set that contains what the master certified and what its
\* members certified (DeviceCertificate::verify).
ChainOfTrust ==
    \A S \in SUBSET Device : Closed(S) => \A v \in Verifier : enrolled[v] \subseteq S

\* "A revoked device is not in this list, so its outstanding signatures stop
\* validating immediately upon revocation" (device_cert.rs, verify).
RevokedStopsValidating ==
    \A v \in Verifier, c \in certs :
        c.key \in revoked[v] => ~Verify(c, published, Eligible(v))

\* The same where the master key is derived from a phrase, so is no device key:
\* no certificate signed by a device is accepted once the verifier knows of
\* that device's revocation (device_cert.rs verify, revocation_cert.rs verify).
RevokedSignaturesStop == published \notin Device => RevokedStopsValidating

\* What the master signed has one meaning whatever the order of arrival: two
\* callers given the same certificates, none signed by a device, agree on who
\* is enrolled and who is revoked.
MasterOrderIrrelevant ==
    \A v, w \in Verifier :
        received[v] = received[w]
          /\ (\A c \in received[v] : c.payload.signer_role = "Master")
        => enrolled[v] = enrolled[w] /\ revoked[v] = revoked[w]

\* A chain of certificates leads from the published master to every enrolled
\* device, and callers given the same certificates, all signed by a master,
\* agree on who is enrolled and revoked, whatever the order of arrival
\* (device_cert.rs verify, revocation_cert.rs verify).
EnrolmentFollowsMaster == ChainOfTrust /\ MasterOrderIrrelevant
=============================================================================
