----------------------- MODULE IncidentBroadcastProofs -----------------------
(***************************************************************************)
(* verify_and_parse implements IncidentFeed for any desktops, keys, trust  *)
(* set and number of manifests: whatever a relay replays, reorders or      *)
(* alters, a Desktop moves forward along genuine announcements.            *)
(***************************************************************************)
EXTENDS IncidentBroadcast, TLAPS

Envelope == [manifest_v : {INCIDENT_MANIFEST_VERSION}, state : ManifestState, seq : Time,
             payload : BroadcastPayload, signer_fingerprint : Key, issued_at : Time]

(* The type invariant, and what the publisher's signatures cover: each its  *)
(* own envelope.  It is what makes an altered manifest recognizable.        *)
Inv ==
  /\ now \in Time
  /\ manifests \subseteq [envelope : Envelope, key : Key, over : {SignedBytes(e) : e \in Envelope}]
  /\ \A m \in manifests : m.over = SignedBytes(m.envelope)
  /\ last_seq \in [Desktop -> Nat]
  /\ held \in [Desktop -> {"none", "active", "clear", "expired"}]

LEMMA TimeType == 1 \in Time /\ Time \subseteq Nat
  BY BroadcastAssumption DEF Time

LEMMA InitInv == Init => Inv
  BY TimeType DEF Init, Inv

LEMMA SignType ==
  ASSUME NEW k \in TrustSet, NEW s \in ManifestState, NEW exp \in 0 .. MaxTime, NEW t \in Time
  PROVE  LET m == Sign(k, s, [v |-> BROADCAST_PAYLOAD_VERSION, seq |-> t, issued_at |-> t,
                              expires_at |-> exp, signer_fingerprint |-> k])
         IN  /\ m.envelope \in Envelope /\ m.key \in Key
             /\ m.over = SignedBytes(m.envelope)
             /\ m = [envelope |-> m.envelope, key |-> m.key, over |-> m.over]
             /\ m.envelope.seq = t /\ m.envelope.state = s
  BY BroadcastAssumption DEF Sign, Envelope, BroadcastPayload

LEMMA PublishInv ==
  ASSUME Inv, NEW k \in TrustSet, NEW s \in ManifestState, NEW exp \in 0 .. MaxTime, Publish(k, s, exp)
  PROVE  Inv'
<1> DEFINE new == Sign(k, s, [v |-> BROADCAST_PAYLOAD_VERSION, seq |-> now, issued_at |-> now,
                              expires_at |-> exp, signer_fingerprint |-> k])
<1>1. manifests' = manifests \cup {new} /\ UNCHANGED <<now, last_seq, held>>
  BY DEF Publish
<1>2. /\ new.envelope \in Envelope /\ new.key \in Key /\ new.over = SignedBytes(new.envelope)
      /\ new = [envelope |-> new.envelope, key |-> new.key, over |-> new.over]
  BY SignType DEF Inv
<1> HIDE DEF new
<1>3. new \in [envelope : Envelope, key : Key, over : {SignedBytes(e) : e \in Envelope}]
  BY <1>2
<1> QED BY <1>1, <1>2, <1>3 DEF Inv, SignedBytes

(* What a relay can make of a manifest and still have verified says what    *)
(* the manifest says: the signature covers state and seq, and the signature *)
(* of the bare payload covers nothing a manifest's would.                   *)
LEMMA Genuine ==
  ASSUME Inv, NEW x \in manifests, NEW m \in {x} \cup Altered(x), SignatureOk(m, TrustSet)
  PROVE  m.envelope.state = x.envelope.state /\ m.envelope.seq = x.envelope.seq
<1>1. /\ x \in [envelope : Envelope, key : Key, over : {SignedBytes(e) : e \in Envelope}]
      /\ x.over = SignedBytes(x.envelope)
  BY DEF Inv
<1>2. m.over = SignedBytes(m.envelope)
  BY DEF SignatureOk
<1>3. CASE m.over = x.over
  <2>1. SignedBytes(m.envelope) = SignedBytes(x.envelope)
    BY <1>1, <1>2, <1>3
  <2> QED BY <2>1 DEF SignedBytes
<1>4. CASE m.over = <<x.envelope.payload>>
  BY <1>2, <1>4 DEF SignedBytes
<1>5. m.over = x.over \/ m.over = <<x.envelope.payload>>
  BY <1>1 DEF Altered
<1> QED BY <1>3, <1>4, <1>5

LEMMA PollInv ==
  ASSUME Inv, NEW d \in Desktop, NEW x \in manifests, NEW m \in {x} \cup Altered(x), Poll(d, m)
  PROVE  Inv'
<1>1. /\ VerifyAndParse(m, TrustSet, last_seq[d], now) \in {"Active", "Clear", "Expired"}
      /\ UNCHANGED <<now, manifests>>
      /\ last_seq' = [last_seq EXCEPT ![d] = m.envelope.seq]
      /\ held' \in [Desktop -> {"none", "active", "clear", "expired"}]
  BY DEF Poll, Apply, Inv
<1>2. SignatureOk(m, TrustSet)
  BY <1>1 DEF VerifyAndParse
<1>3. m.envelope.seq = x.envelope.seq
  BY <1>2, Genuine
<1>4. x.envelope.seq \in Nat
  BY TimeType DEF Inv, Envelope
<1> QED BY <1>1, <1>3, <1>4 DEF Inv, SignedBytes

(* A relay may serve a published manifest, or one it altered.               *)
LEMMA PolledFrom ==
  ASSUME NEW m \in UNION {Altered(x) : x \in manifests}
  PROVE  \E x \in manifests : m \in {x} \cup Altered(x)
  OBVIOUS

LEMMA NextInv == Inv /\ [Next]_vars => Inv'
<1> SUFFICES ASSUME Inv, [Next]_vars PROVE Inv'
  OBVIOUS
<1>1. CASE Tick
  BY <1>1, BroadcastAssumption DEF Tick, Inv, SignedBytes, Time
<1>2. ASSUME NEW k \in TrustSet, NEW s \in ManifestState, NEW exp \in 0 .. MaxTime, Publish(k, s, exp)
      PROVE  Inv'
  BY <1>2, PublishInv
<1>3. ASSUME NEW d \in Desktop, NEW m \in manifests, Poll(d, m) PROVE Inv'
  <2>1. m \in {m} \cup Altered(m)
    OBVIOUS
  <2> QED BY <1>3, <2>1, PollInv
<1>4. ASSUME NEW d \in Desktop, NEW m \in UNION {Altered(x) : x \in manifests}, Poll(d, m) PROVE Inv'
  BY <1>4, PolledFrom, PollInv
<1>5. CASE UNCHANGED vars
  BY <1>5 DEF vars, Inv, SignedBytes
<1> QED BY <1>1, <1>2, <1>3, <1>4, <1>5 DEF Next

(* Manifests stay as they were signed, on every path.                       *)
THEOREM Inductive == Spec => []Inv
  BY InitInv, NextInv, PTL DEF Spec
-----------------------------------------------------------------------------
LEMMA InitRefines == Init => Feed!Init
  BY DEF Init, Feed!Init, Feed!Nothing

(* A publication is an announcement with a number above all others.         *)
LEMMA PublishRefines ==
  ASSUME Inv, NEW k \in TrustSet, NEW s \in ManifestState, NEW exp \in 0 .. MaxTime, Publish(k, s, exp)
  PROVE  Feed!Announce
<1> DEFINE new == Sign(k, s, [v |-> BROADCAST_PAYLOAD_VERSION, seq |-> now, issued_at |-> now,
                              expires_at |-> exp, signer_fingerprint |-> k])
           a == [seq |-> now, state |-> s]
<1>1. /\ manifests' = manifests \cup {new} /\ UNCHANGED <<last_seq, held>>
      /\ \A m \in manifests : m.envelope.seq < now
  BY DEF Publish
<1>2. new.envelope.seq = now /\ new.envelope.state = s
  BY DEF Sign
<1> HIDE DEF new
<1>3. {[seq |-> m.envelope.seq, state |-> m.envelope.state] : m \in manifests'}
        = {[seq |-> m.envelope.seq, state |-> m.envelope.state] : m \in manifests} \cup {a}
  BY <1>1, <1>2
<1>4. a \in [seq : Time, state : ManifestState]
  BY DEF Inv
<1>5. \A b \in {[seq |-> m.envelope.seq, state |-> m.envelope.state] : m \in manifests} : b.seq < a.seq
  BY <1>1
<1>6. UNCHANGED [d \in Desktop |-> [seq |-> last_seq[d], state |-> held[d]]]
  BY <1>1
<1> QED BY <1>3, <1>4, <1>5, <1>6 DEF Feed!Announce

(* A verdict that is applied is one step forward to a genuine announcement. *)
LEMMA PollRefines ==
  ASSUME Inv, NEW d \in Desktop, NEW x \in manifests, NEW m \in {x} \cup Altered(x), Poll(d, m)
  PROVE  Feed!Advance(d)
<1> DEFINE verdict == VerifyAndParse(m, TrustSet, last_seq[d], now)
           a == [seq |-> x.envelope.seq, state |-> x.envelope.state]
           bar == [e \in Desktop |-> [seq |-> last_seq[e], state |-> held[e]]]
<1>1. /\ verdict \in {"Active", "Clear", "Expired"}
      /\ UNCHANGED manifests
      /\ last_seq' = [last_seq EXCEPT ![d] = m.envelope.seq]
      /\ held' = [held EXCEPT ![d] = CASE verdict = "Active" -> "active"
                                         [] verdict = "Clear" -> "clear"
                                         [] verdict = "Expired" -> "expired"]
  BY DEF Poll, Apply
<1>2. /\ SignatureOk(m, TrustSet)
      /\ ~(m.envelope.seq <= last_seq[d])
      /\ verdict = "Clear" <=> m.envelope.state = "clear"
  BY <1>1 DEF VerifyAndParse
<1>3. m.envelope.state = x.envelope.state /\ m.envelope.seq = x.envelope.seq
  BY <1>2, Genuine
<1>4. x.envelope.seq \in Nat /\ x.envelope.state \in {"active", "clear"} /\ last_seq[d] \in Nat
  BY TimeType DEF Inv, Envelope, ManifestState
<1> HIDE DEF verdict
<1>5. a.seq > bar[d].seq
  BY <1>2, <1>3, <1>4
<1>6. \/ held'[d] = a.state
      \/ a.state = "active" /\ held'[d] = "expired"
  BY <1>1, <1>2, <1>3, <1>4 DEF Inv
<1>7. bar' = [bar EXCEPT ![d] = [seq |-> a.seq, state |-> held'[d]]]
  BY <1>1, <1>3 DEF Inv
<1>8. a \in {[seq |-> y.envelope.seq, state |-> y.envelope.state] : y \in manifests}
  OBVIOUS
<1>9. \/ bar' = [bar EXCEPT ![d] = a]
      \/ /\ a.state = "active"
         /\ bar' = [bar EXCEPT ![d] = [seq |-> a.seq, state |-> "expired"]]
  BY <1>6, <1>7
<1>10. UNCHANGED {[seq |-> y.envelope.seq, state |-> y.envelope.state] : y \in manifests}
  BY <1>1
<1> QED BY <1>5, <1>8, <1>9, <1>10 DEF Feed!Advance

LEMMA NextRefines ==
  Inv /\ [Next]_vars =>
    [Feed!Next]_<<{[seq |-> m.envelope.seq, state |-> m.envelope.state] : m \in manifests},
                  [d \in Desktop |-> [seq |-> last_seq[d], state |-> held[d]]]>>
<1> SUFFICES ASSUME Inv, [Next]_vars
             PROVE  Feed!Next \/ UNCHANGED <<{[seq |-> m.envelope.seq, state |-> m.envelope.state] : m \in manifests},
                                             [d \in Desktop |-> [seq |-> last_seq[d], state |-> held[d]]]>>
  OBVIOUS
<1>1. CASE Tick \/ UNCHANGED vars
  BY <1>1 DEF Tick, vars
<1>2. ASSUME NEW k \in TrustSet, NEW s \in ManifestState, NEW exp \in 0 .. MaxTime, Publish(k, s, exp)
      PROVE  Feed!Next
  BY <1>2, PublishRefines DEF Feed!Next
<1>3. ASSUME NEW d \in Desktop, NEW m \in manifests, Poll(d, m) PROVE Feed!Next
  <2>1. m \in {m} \cup Altered(m)
    OBVIOUS
  <2> QED BY <1>3, <2>1, PollRefines DEF Feed!Next
<1>4. ASSUME NEW d \in Desktop, NEW m \in UNION {Altered(x) : x \in manifests}, Poll(d, m) PROVE Feed!Next
  BY <1>4, PolledFrom, PollRefines DEF Feed!Next
<1> QED BY <1>1, <1>2, <1>3, <1>4 DEF Next

(* ImplementsFeed: verify_and_parse, with the persisted high-water mark,    *)
(* implements the feed of numbered announcements.                           *)
THEOREM Refinement == Spec => ImplementsFeed
  BY InitRefines, NextRefines, Inductive, PTL DEF Spec, ImplementsFeed, Feed!Spec
-----------------------------------------------------------------------------
(* Every manifest is one verify_and_parse accepts from whoever has not seen *)
(* its number, no two have the same number, and one of them is the newest.  *)
Accepted(M) ==
  /\ \A m \in M : m.key \in TrustSet /\ Consistent(m.envelope)
  /\ \A m, x \in M : m.envelope.seq = x.envelope.seq => m = x
  /\ M # {} => \E m \in M : \A x \in M : x.envelope.seq <= m.envelope.seq

(* A Desktop's number is one that was published, and what it holds is what  *)
(* was announced under that number.                                         *)
Seen(M, n, h) == n = 0 \/ \E m \in M : m.envelope.seq = n /\ Shows(h, m)

ReachInv == Accepted(manifests) /\ \A d \in Desktop : Seen(manifests, last_seq[d], held[d])

LEMMA PublishReach ==
  ASSUME Inv, ReachInv, NEW k \in TrustSet, NEW s \in ManifestState, NEW exp \in 0 .. MaxTime,
         Publish(k, s, exp)
  PROVE  ReachInv'
<1> DEFINE new == Sign(k, s, [v |-> BROADCAST_PAYLOAD_VERSION, seq |-> now, issued_at |-> now,
                              expires_at |-> exp, signer_fingerprint |-> k])
<1>1. /\ manifests' = manifests \cup {new} /\ UNCHANGED <<last_seq, held>>
      /\ \A m \in manifests : m.envelope.seq < now
  BY DEF Publish
<1>2. new.envelope.seq = now /\ new.key = k /\ Consistent(new.envelope)
  BY DEF Sign, Consistent
<1>3. now \in Nat /\ \A m \in manifests : m.envelope.seq \in Nat
  BY TimeType DEF Inv, Envelope
<1> HIDE DEF new
<1>4. Accepted(manifests')
  <2>1. \A m \in manifests' : m.key \in TrustSet /\ Consistent(m.envelope)
    BY <1>1, <1>2 DEF ReachInv, Accepted
  <2>2. \A m, x \in manifests' : m.envelope.seq = x.envelope.seq => m = x
    BY <1>1, <1>2, <1>3 DEF ReachInv, Accepted
  <2>3. new \in manifests' /\ \A x \in manifests' : x.envelope.seq <= new.envelope.seq
    BY <1>1, <1>2, <1>3
  <2> QED BY <2>1, <2>2, <2>3 DEF Accepted
<1>5. \A d \in Desktop : Seen(manifests', last_seq[d], held[d])
  BY <1>1 DEF ReachInv, Seen
<1> QED BY <1>1, <1>4, <1>5 DEF ReachInv

LEMMA PollReach ==
  ASSUME Inv, ReachInv, NEW d \in Desktop, NEW x \in manifests, NEW m \in {x} \cup Altered(x),
         Poll(d, m)
  PROVE  ReachInv'
<1> DEFINE verdict == VerifyAndParse(m, TrustSet, last_seq[d], now)
<1>1. /\ verdict \in {"Active", "Clear", "Expired"}
      /\ UNCHANGED manifests
      /\ last_seq' = [last_seq EXCEPT ![d] = m.envelope.seq]
      /\ held' = [held EXCEPT ![d] = CASE verdict = "Active" -> "active"
                                         [] verdict = "Clear" -> "clear"
                                         [] verdict = "Expired" -> "expired"]
  BY DEF Poll, Apply
<1>2. SignatureOk(m, TrustSet) /\ (verdict = "Clear" <=> m.envelope.state = "clear")
  BY <1>1 DEF VerifyAndParse
<1>3. m.envelope.state = x.envelope.state /\ m.envelope.seq = x.envelope.seq
  BY <1>2, Genuine
<1>4. x.envelope.state \in {"active", "clear"}
  BY DEF Inv, Envelope, ManifestState
<1> HIDE DEF verdict
<1>5. Shows(held'[d], x)
  BY <1>1, <1>2, <1>3, <1>4 DEF Inv, Shows
<1>6. Seen(manifests, last_seq'[d], held'[d])
  BY <1>1, <1>3, <1>5 DEF Seen, Inv
<1>7. \A e \in Desktop \ {d} : Seen(manifests, last_seq'[e], held'[e])
  BY <1>1 DEF ReachInv, Inv
<1> QED BY <1>1, <1>6, <1>7 DEF ReachInv

LEMMA NextReach == Inv /\ ReachInv /\ [Next]_vars => ReachInv'
<1> SUFFICES ASSUME Inv, ReachInv, [Next]_vars PROVE ReachInv'
  OBVIOUS
<1>1. CASE Tick \/ UNCHANGED vars
  BY <1>1 DEF Tick, vars, ReachInv
<1>2. ASSUME NEW k \in TrustSet, NEW s \in ManifestState, NEW exp \in 0 .. MaxTime, Publish(k, s, exp)
      PROVE  ReachInv'
  BY <1>2, PublishReach
<1>3. ASSUME NEW d \in Desktop, NEW m \in manifests, Poll(d, m) PROVE ReachInv'
  <2>1. m \in {m} \cup Altered(m)
    OBVIOUS
  <2> QED BY <1>3, <2>1, PollReach
<1>4. ASSUME NEW d \in Desktop, NEW m \in UNION {Altered(x) : x \in manifests}, Poll(d, m)
      PROVE  ReachInv'
  BY <1>4, PolledFrom, PollReach
<1> QED BY <1>1, <1>2, <1>3, <1>4 DEF Next

(* A Desktop with the newest number has the newest state, since numbers are *)
(* not used twice; one with an older number finds the newest above its own. *)
LEMMA Reach == Inv /\ ReachInv => LatestWithinReach
<1> SUFFICES ASSUME Inv, ReachInv, manifests # {}, NEW d \in Desktop
             PROVE  \/ last_seq[d] = Latest.envelope.seq /\ Shows(held[d], Latest)
                    \/ VerifyAndParse(Latest, TrustSet, last_seq[d], now)
                         \in {"Active", "Clear", "Expired"}
  BY DEF LatestWithinReach
<1>1. Latest \in manifests /\ \A x \in manifests : x.envelope.seq <= Latest.envelope.seq
  BY DEF ReachInv, Accepted, Latest
<1>2. /\ Latest.envelope \in Envelope /\ Latest.over = SignedBytes(Latest.envelope)
      /\ Latest.key \in TrustSet /\ Consistent(Latest.envelope)
  BY <1>1 DEF Inv, ReachInv, Accepted
<1>3. Latest.envelope.seq \in Nat \ {0} /\ Latest.envelope.manifest_v = INCIDENT_MANIFEST_VERSION
  BY <1>2 DEF Envelope, Time
<1>4. \A x \in manifests : x.envelope.seq \in Nat
  BY TimeType DEF Inv, Envelope
<1>5. last_seq[d] \in Nat
  BY DEF Inv
<1>6. CASE last_seq[d] < Latest.envelope.seq
  <2>1. SignatureOk(Latest, TrustSet) /\ ~(Latest.envelope.seq <= last_seq[d])
    BY <1>2, <1>3, <1>5, <1>6 DEF SignatureOk
  <2> QED BY <2>1, <1>2, <1>3 DEF VerifyAndParse
<1>7. CASE ~(last_seq[d] < Latest.envelope.seq)
  <2>1. last_seq[d] # 0
    BY <1>3, <1>7
  <2>2. PICK x \in manifests : x.envelope.seq = last_seq[d] /\ Shows(held[d], x)
    BY <2>1 DEF ReachInv, Seen
  <2>3. x.envelope.seq = Latest.envelope.seq
    BY <2>2, <1>1, <1>3, <1>4, <1>7
  <2>4. x = Latest
    BY <2>3, <1>1 DEF ReachInv, Accepted
  <2> QED BY <2>2, <2>3, <2>4
<1> QED BY <1>6, <1>7

(* Nobody is shut out: nothing a relay replays or alters uses up the number *)
(* of the newest manifest or leaves another state in its place, so the next *)
(* poll of the published object always brings a Desktop up to date.         *)
THEOREM NobodyIsShutOut == Spec => []LatestWithinReach
<1>1. Init => ReachInv
  BY DEF Init, ReachInv, Accepted, Seen
<1> QED BY <1>1, NextReach, Reach, Inductive, PTL DEF Spec
=============================================================================
