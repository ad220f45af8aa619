------------------------- MODULE IncidentBroadcast -------------------------
(***************************************************************************)
(* The signed incident manifest (gitcellar-crypto/src/broadcast.rs): a     *)
(* publisher signs active incidents and all-clears; Desktops poll the      *)
(* published object and run verify_and_parse on whatever they are served:  *)
(* the current manifest, an old one, or one a relay has altered.           *)
(*                                                                         *)
(* A Desktop stores the verdict's sequence number and the state it stands  *)
(* for together, and holds both on a verdict without a trusted signal.  A  *)
(* signature is the signing key and the bytes it covers; the bytes are the *)
(* tuple of the fields.                                                    *)
(***************************************************************************)
EXTENDS Integers, FiniteSets

CONSTANTS
    Desktop,    \* the clients
    Key,        \* signing keys
    TrustSet,   \* the pinned keys
    MaxTime,    \* bound: the clock, in seconds since the start
    MaxManifests \* bound: manifests published

ASSUME BroadcastAssumption ==
    TrustSet \subseteq Key /\ MaxTime \in Nat \ {0} /\ MaxManifests \in Nat

VARIABLES
    now,        \* the clock
    manifests,  \* every manifest signed and published so far
    last_seq,   \* per desktop: the persisted last_verified_seq
    held,       \* per desktop: the state it acts on
    expiry      \* per desktop: expires_at of the incident it shows, 0 if none

vars == <<now, manifests, last_seq, held, expiry>>

BROADCAST_PAYLOAD_VERSION == 1
INCIDENT_MANIFEST_VERSION == 2
INCIDENT_MANIFEST_DOMAIN == "gitcellar/incident-manifest/v2"
ManifestState == {"active", "clear"}
Time == 1 .. MaxTime

\* The fields verification looks at; expires_at 0 is an absent one.
BroadcastPayload ==
    [v : {BROADCAST_PAYLOAD_VERSION}, seq : Time, issued_at : Time,
     expires_at : 0 .. MaxTime, signer_fingerprint : Key]

\* Mutant of SignedBytes: manifest v1, whose signature left state and seq out.
SignedBytesV1(m) == <<INCIDENT_MANIFEST_DOMAIN, m.payload>>

\* incident_manifest_signed_bytes: a tagged, length-prefixed concatenation, so
\* as good as the tuple.
SignedBytes(m) == <<INCIDENT_MANIFEST_DOMAIN, m.manifest_v, m.state, m.seq,
                    m.signer_fingerprint, m.payload>>

\* IncidentManifest::sign: the envelope is copied from the payload.
Sign(key, state, p) ==
    LET m == [manifest_v |-> INCIDENT_MANIFEST_VERSION, state |-> state,
              seq |-> p.seq, payload |-> p,
              signer_fingerprint |-> p.signer_fingerprint, issued_at |-> p.issued_at]
    IN  [envelope |-> m, key |-> key, over |-> SignedBytes(m)]

Init ==
    /\ now = 1
    /\ manifests = {}
    /\ last_seq = [d \in Desktop |-> 0]
    /\ held = [d \in Desktop |-> "none"]
    /\ expiry = [d \in Desktop |-> 0]

Tick ==
    /\ now < MaxTime
    /\ now' = now + 1
    /\ UNCHANGED <<manifests, last_seq, held, expiry>>

\* The publisher signs with a pinned key; seq is the time of issue and rises
\* with every manifest.
Publish(key, state, exp) ==
    /\ Cardinality(manifests) < MaxManifests
    /\ \A m \in manifests : m.envelope.seq < now
    /\ manifests' = manifests \cup
         {Sign(key, state, [v |-> BROADCAST_PAYLOAD_VERSION, seq |-> now,
                            issued_at |-> now, expires_at |-> exp,
                            signer_fingerprint |-> key])}
    /\ UNCHANGED <<now, last_seq, held, expiry>>

\* verify_detached against any pinned key.
SignatureOk(m, trust) == m.key \in trust /\ m.over = SignedBytes(m.envelope)

\* The payload parses, has a known version and agrees with the envelope.
Consistent(e) ==
    /\ e.payload.v = BROADCAST_PAYLOAD_VERSION
    /\ e.payload.signer_fingerprint = e.signer_fingerprint
    /\ e.payload.seq = e.seq
    /\ e.payload.issued_at = e.issued_at

\* Mutant of VerifyAndParse: the replay check lets an equal or older manifest
\* through when it is an all-clear.
VerifyAndParseClearFirst(m, trust, last, t) ==
    IF m.envelope.manifest_v # INCIDENT_MANIFEST_VERSION
       \/ ~SignatureOk(m, trust) \/ ~Consistent(m.envelope)
    THEN "NoTrustedSignal"
    ELSE IF m.envelope.state = "clear" THEN "Clear"
    ELSE IF m.envelope.seq <= last THEN "Stale"
    ELSE IF m.envelope.payload.expires_at # 0 /\ t > m.envelope.payload.expires_at
         THEN "Expired"
    ELSE "Active"

\* IncidentManifest::verify_and_parse: the verdict.
VerifyAndParse(m, trust, last, t) ==
    IF m.envelope.manifest_v # INCIDENT_MANIFEST_VERSION
       \/ ~SignatureOk(m, trust) \/ ~Consistent(m.envelope)
    THEN "NoTrustedSignal"
    ELSE IF m.envelope.seq <= last THEN "Stale"
    ELSE IF m.envelope.state = "clear" THEN "Clear"
    ELSE IF m.envelope.payload.expires_at # 0 /\ t > m.envelope.payload.expires_at
         THEN "Expired"
    ELSE "Active"

\* What a Desktop does with the verdict: NoTrustedSignal and Stale hold the
\* prior state, every other verdict carries the new high-water mark.
Apply(d, m) ==
    LET verdict == VerifyAndParse(m, TrustSet, last_seq[d], now)
    IN  /\ verdict \in {"Active", "Clear", "Expired"}
        /\ last_seq' = [last_seq EXCEPT ![d] = m.envelope.seq]
        /\ held' = [held EXCEPT ![d] = CASE verdict = "Active" -> "active"
                                         [] verdict = "Clear" -> "clear"
                                         [] verdict = "Expired" -> "expired"]
        /\ expiry' = [expiry EXCEPT ![d] =
                        IF verdict = "Active" THEN m.envelope.payload.expires_at ELSE 0]

Poll(d, m) == Apply(d, m) /\ UNCHANGED <<now, manifests>>

\* What a relay may serve instead: a changed envelope field, another signer, or
\* the signature of the bare payload that the event stream carries.
Altered(m) ==
    {[m EXCEPT !.envelope.state = s] : s \in ManifestState}
    \cup {[m EXCEPT !.envelope.seq = s] : s \in Time}
    \cup {[m EXCEPT !.envelope.seq = s, !.envelope.payload.seq = s] : s \in Time}
    \cup {[m EXCEPT !.envelope.signer_fingerprint = k, !.key = k] : k \in Key}
    \cup {[m EXCEPT !.over = <<m.envelope.payload>>]}

\* The object at the published address: the newest manifest.
Latest == CHOOSE m \in manifests :
            \A x \in manifests : x.envelope.seq <= m.envelope.seq

PollLatest(d) == manifests # {} /\ Poll(d, Latest)

Next ==
    \/ Tick
    \/ \E k \in TrustSet, s \in ManifestState, exp \in 0 .. MaxTime : Publish(k, s, exp)
    \/ \E d \in Desktop, m \in manifests : Poll(d, m)
    \/ \E d \in Desktop, m \in UNION {Altered(x) : x \in manifests} : Poll(d, m)

Spec == Init /\ [][Next]_vars

\* Every Desktop goes on polling the published object.
FairSpec == Spec /\ \A d \in Desktop : WF_vars(PollLatest(d))

-----------------------------------------------------------------------------
Manifest == [envelope : [manifest_v : {INCIDENT_MANIFEST_VERSION},
                         state : ManifestState, seq : Time,
                         payload : BroadcastPayload,
                         signer_fingerprint : Key, issued_at : Time],
             key : Key,
             over : {SignedBytes(m.envelope) : m \in manifests}]

TypeOK ==
    /\ now \in Time
    /\ manifests \subseteq Manifest
    /\ last_seq \in [Desktop -> 0 .. MaxTime]
    /\ held \in [Desktop -> {"none", "active", "clear", "expired"}]
    /\ expiry \in [Desktop -> 0 .. MaxTime]

\* A Desktop acts on genuine announcements only, each as it was announced, and
\* never goes back: the refinement of IncidentFeed.
Feed == INSTANCE IncidentFeed WITH
          State <- ManifestState, Number <- Time,
          announced <- {[seq |-> m.envelope.seq, state |-> m.envelope.state] : m \in manifests},
          held <- [d \in Desktop |-> [seq |-> last_seq[d], state |-> held[d]]]

\* verify_and_parse implements the feed, whatever is replayed, reordered or
\* altered on the way.
ImplementsFeed == Feed!Spec

\* What a Desktop may hold once it has applied manifest m.
Shows(h, m) ==
    h \in {m.envelope.state} \cup (IF m.envelope.state = "active" THEN {"expired"} ELSE {})

\* The newest announcement reaches every Desktop that goes on polling: nothing
\* a relay served before can use up its sequence number or leave another state
\* in its place.
LatestReachesEveryone ==
    \A d \in Desktop :
        <>[](manifests # {} =>
               last_seq[d] = Latest.envelope.seq /\ Shows(held[d], Latest))

\* "active, but expires_at is past. Treat the incident as locally cleared
\* (publisher must republish with a bumped seq to extend a long incident)"
\* (ManifestVerdict::Expired): a Desktop that goes on polling does not show an
\* incident for good after its expiry.
ExpiredIsCleared ==
    \A d \in Desktop :
        [](expiry[d] # 0 /\ now > expiry[d] => <>(expiry[d] = 0 \/ now <= expiry[d]))

\* LatestReachesEveryone without its fairness: at any time, whatever a relay
\* has served, a Desktop holds the newest announcement or verify_and_parse
\* will accept it at the next poll.
LatestWithinReach ==
    manifests # {} =>
        \A d \in Desktop :
            \/ last_seq[d] = Latest.envelope.seq /\ Shows(held[d], Latest)
            \/ VerifyAndParse(Latest, TrustSet, last_seq[d], now)
                 \in {"Active", "Clear", "Expired"}
=============================================================================
