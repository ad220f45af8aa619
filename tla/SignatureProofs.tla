--------------------------- MODULE SignatureProofs ---------------------------
(***************************************************************************)
(* What clients sign and verify, for every value of the constants:         *)
(* repository key grants (RepoKeyGrant), identity successions              *)
(* (IdentitySuccession), login and registration challenges                 *)
(* (AuthChallenge), device and revocation certificates (DeviceTrust), and  *)
(* the encoding of what is signed (CanonicalEncoding).  Each part has its  *)
(* inductive invariant, one lemma for each action, and its theorems last.  *)
(***************************************************************************)
EXTENDS RepoKeyGrant, IdentitySuccession, AuthChallenge, DeviceTrust, CanonicalEncoding,
        SequenceTheorems, TLAPS

-----------------------------------------------------------------------------
(* RepoKeyGrant *)

(* The delegation of a grant, or none.                                      *)
MaybeDelegation == Delegation \cup {NoDelegation}

(* Every bundle the relay was given is that of a grant that was made.       *)
BundlesGranted == \A b \in bundles : \E x \in granted : b = Bundle(x.grant, x.delegation)

(* The inductive invariant of RepoKeyGrant.                                 *)
GrantInv == TypeOK /\ BundlesGranted /\ ImportedWasGranted

(* The canonical bytes determine grant and delegation: a delegated grant    *)
(* has a tag of its own, so stripping or swapping the delegation shows.     *)
LEMMA CanonicalInjective ==
  ASSUME NEW g, NEW h, NEW d, NEW e,
         CanonicalWithDelegation(g, d) = CanonicalWithDelegation(h, e)
  PROVE  g = h /\ d = e
<1>1. CASE d = NoDelegation /\ e = NoDelegation
  BY <1>1 DEF CanonicalWithDelegation, Canonical
<1>2. CASE d # NoDelegation /\ e # NoDelegation
  BY <1>2 DEF CanonicalWithDelegation
<1>3. CASE ~(d = NoDelegation <=> e = NoDelegation)
  BY <1>3 DEF CanonicalWithDelegation, Canonical, GRANT_CANONICAL_VERSION, DELEGATED_GRANT_CANONICAL_VERSION
<1> QED BY <1>1, <1>2, <1>3

(* The invariant holds initially.                                           *)
LEMMA GrantInitInv == GrantInit => GrantInv
  BY DEF GrantInit, GrantInv, TypeOK, BundlesGranted, ImportedWasGranted

(* A bundle made of a grant has its fields.                                 *)
LEMMA BundleType ==
  ASSUME NEW g \in Grant, NEW d \in MaybeDelegation
  PROVE  LET b == Bundle(g, d) IN
         /\ b.v = GRANT_CANONICAL_VERSION /\ b.repo_uid \in Repo
         /\ b.key_material \in RepoKey /\ b.granter \in Party
         /\ b.delegation \in MaybeDelegation
         /\ b.over = CanonicalWithDelegation(g, d)
  BY DEF Bundle, Grant

(* make_grant_bundle keeps the invariant.                                   *)
LEMMA MakeGrantInv ==
  ASSUME GrantInv, NEW g \in Grant, NEW d \in MaybeDelegation, MakeGrant(g, d)
  PROVE  GrantInv'
<1> DEFINE x == [grant |-> g, delegation |-> d]
<1>1. /\ granted' = granted \cup {x} /\ bundles' = bundles \cup {Bundle(g, d)}
      /\ UNCHANGED <<keyring, authority>>
  BY DEF MakeGrant
<1>2. x.grant = g /\ x.delegation = d
  OBVIOUS
<1> HIDE DEF x
<1>3. TypeOK'
  <2>1. \A b \in bundles' : /\ b.v = GRANT_CANONICAL_VERSION /\ b.repo_uid \in Repo
                            /\ b.key_material \in RepoKey /\ b.granter \in Party
    BY <1>1, BundleType DEF GrantInv, TypeOK
  <2>2. \A y \in granted' : y.grant \in Grant /\ y.delegation \in MaybeDelegation
    BY <1>1, <1>2 DEF GrantInv, TypeOK, MaybeDelegation
  <2> QED BY <1>1, <2>1, <2>2 DEF GrantInv, TypeOK, MaybeDelegation, Grant, GRANT_CANONICAL_VERSION
<1>4. BundlesGranted'
  <2> SUFFICES ASSUME NEW b \in bundles' PROVE \E y \in granted' : b = Bundle(y.grant, y.delegation)
    BY DEF BundlesGranted, Bundle, CanonicalWithDelegation, Canonical
  <2>1. CASE b \in bundles
    BY <1>1, <2>1 DEF GrantInv, BundlesGranted
  <2>2. CASE b = Bundle(g, d)
    BY <1>1, <1>2, <2>2
  <2> QED BY <1>1, <2>1, <2>2
<1>5. ImportedWasGranted'
  BY <1>1 DEF GrantInv, ImportedWasGranted, Slot
<1> QED BY <1>3, <1>4, <1>5 DEF GrantInv

(* The heart of it: a bundle, altered in any of the ways the relay has,     *)
(* that verifies for a recipient, repository and version carries the key    *)
(* and the delegation of a grant of just those.                             *)
LEMMA VerifiedWasGranted ==
  ASSUME GrantInv, NEW y \in bundles, NEW b \in Altered(y), NEW me \in Party, NEW served \in Party,
         NEW uid \in Repo, NEW version \in Version, FromJson(b), VerifyGrantBundle(b, served, uid, version, me)
  PROVE  /\ b.key_material \in RepoKey /\ b.delegation \in MaybeDelegation
         /\ \E x \in granted :
              /\ x.grant.recipient = me /\ x.grant.repo_uid = uid /\ x.grant.key_version = version
              /\ x.grant.key_material = b.key_material /\ x.delegation = b.delegation
<1>1. PICK x \in granted : y = Bundle(x.grant, x.delegation)
  BY DEF GrantInv, BundlesGranted
<1>2. x.grant \in Grant /\ x.delegation \in MaybeDelegation
  BY DEF GrantInv, TypeOK, MaybeDelegation
<1>3. b.over = y.over
  BY <1>1 DEF Altered, Bundle
<1>4. y.over = CanonicalWithDelegation(x.grant, x.delegation)
  BY <1>1 DEF Bundle
<1>5. b.over = CanonicalWithDelegation(ToGrant(b, version, me), b.delegation) /\ b.repo_uid = uid
  BY DEF VerifyGrantBundle, SignatureOk
<1>6. x.grant = ToGrant(b, version, me) /\ x.delegation = b.delegation
  BY <1>3, <1>4, <1>5, CanonicalInjective
<1>7. /\ x.grant.recipient = me /\ x.grant.repo_uid = uid /\ x.grant.key_version = version
      /\ x.grant.key_material = b.key_material
  BY <1>5, <1>6 DEF ToGrant
<1>8. x.grant.key_material \in RepoKey
  BY <1>2 DEF Grant
<1> QED BY <1>2, <1>6, <1>7, <1>8

(* Importing a bundle keeps the invariant, altered or not.                  *)
LEMMA ImportInv ==
  ASSUME GrantInv, NEW y \in bundles, NEW b \in Altered(y), NEW me \in Party, NEW served \in Party,
         NEW uid \in Repo, NEW version \in Version, Import(me, b, served, uid, version)
  PROVE  GrantInv'
<1> DEFINE slot == <<me, uid, version>>
<1>1. /\ FromJson(b) /\ VerifyGrantBundle(b, served, uid, version, me)
      /\ keyring' = [keyring EXCEPT ![slot] = b.key_material]
      /\ authority' = [authority EXCEPT ![slot] = b.delegation]
      /\ UNCHANGED <<granted, bundles>>
  BY DEF Import
<1>2. slot \in Slot
  BY DEF Slot
<1>3. /\ b.key_material \in RepoKey /\ b.delegation \in MaybeDelegation
      /\ \E x \in granted :
           /\ x.grant.recipient = me /\ x.grant.repo_uid = uid /\ x.grant.key_version = version
           /\ x.grant.key_material = b.key_material /\ x.delegation = b.delegation
  BY <1>1, VerifiedWasGranted
<1>4. TypeOK'
  BY <1>1, <1>2, <1>3 DEF GrantInv, TypeOK, MaybeDelegation, Grant, Slot, Version, GRANT_CANONICAL_VERSION
<1>5. BundlesGranted'
  BY <1>1 DEF GrantInv, BundlesGranted, Bundle, CanonicalWithDelegation, Canonical
<1>6. ImportedWasGranted'
  <2> SUFFICES ASSUME NEW s \in Slot, keyring'[s] # NoKey
               PROVE  \E x \in granted :
                        /\ x.grant.recipient = s[1] /\ x.grant.repo_uid = s[2]
                        /\ x.grant.key_version = s[3]
                        /\ x.grant.key_material = keyring'[s]
                        /\ x.delegation = authority'[s]
    BY <1>1 DEF ImportedWasGranted, Slot, Version
  <2>1. CASE s = slot
    <3>1. keyring'[s] = b.key_material /\ authority'[s] = b.delegation
      BY <1>1, <1>2, <2>1 DEF GrantInv, TypeOK
    <3>2. s[1] = me /\ s[2] = uid /\ s[3] = version
      BY <2>1
    <3> QED BY <3>1, <3>2, <1>3
  <2>2. CASE s # slot
    BY <1>1, <2>2 DEF GrantInv, TypeOK, ImportedWasGranted
  <2> QED BY <2>1, <2>2
<1> QED BY <1>4, <1>5, <1>6 DEF GrantInv

(* Every step keeps the invariant.                                          *)
LEMMA GrantNextInv == GrantInv /\ [GrantNext]_grantVars => GrantInv'
<1> SUFFICES ASSUME GrantInv, [GrantNext]_grantVars PROVE GrantInv'
  OBVIOUS
<1>1. ASSUME NEW g \in Grant, NEW d \in Delegation \cup {NoDelegation}, MakeGrant(g, d) PROVE GrantInv'
  BY <1>1, MakeGrantInv DEF MaybeDelegation
<1>2. ASSUME NEW b \in UNION {Altered(x) : x \in bundles}, NEW me \in Party, NEW served \in Party,
             NEW uid \in Repo, NEW version \in Version, Import(me, b, served, uid, version)
      PROVE  GrantInv'
  <2>1. PICK y \in bundles : b \in Altered(y)
    OBVIOUS
  <2> QED BY <1>2, <2>1, ImportInv
<1>3. CASE UNCHANGED grantVars
  BY <1>3 DEF grantVars, GrantInv, TypeOK, BundlesGranted, ImportedWasGranted, Bundle, CanonicalWithDelegation, Canonical,
              Grant, Slot, Version, GRANT_CANONICAL_VERSION
<1> QED BY <1>1, <1>2, <1>3 DEF GrantNext

(* The inductive invariant: bundles are those of grants.                    *)
THEOREM GrantInductive == GrantSpec => []GrantInv
  BY GrantInitInv, GrantNextInv, PTL DEF GrantSpec

(* TypeOK: what RepoKeyGrant stores is of the kinds it says.                *)
THEOREM GrantTypeCorrect == GrantSpec => []TypeOK
<1>1. GrantInv => TypeOK
  BY DEF GrantInv
<1> QED BY <1>1, GrantInductive, PTL

(* ImportedWasGranted: verify_grant_bundle imports what was granted to this *)
(* recipient for this repository and version, under this delegation.        *)
THEOREM ImportsWereGranted == GrantSpec => []ImportedWasGranted
<1>1. GrantInv => ImportedWasGranted
  BY DEF GrantInv
<1> QED BY <1>1, GrantInductive, PTL

-----------------------------------------------------------------------------
(* IdentitySuccession *)

(* What a statement can mean once its fields are normalised.                *)
Meanings == [account : Accounts \union {Blank}, old : Fingerprints \union {Blank},
             new : Fingerprints \union {Blank}, version : 1..MaxKeyVersion, issued : Times]

(* The shape of the state.                                                  *)
SuccessionTypeOK ==
  /\ cloud \in [Accounts -> [fp : Fingerprints, version : Nat]]
  /\ consented \subseteq Masters \X Meanings
  /\ applied \in [Accounts -> SUBSET Meanings]

(* A signature over a statement's bytes exists only if its meaning was      *)
(* consented to, and every consented meaning is signed and well shaped.     *)
SignedMeant == \A m \in Masters, s \in Statements :
                 <<m, CanonicalSuccession(s)>> \in signed <=> <<m, Meaning(s)>> \in consented
(* Whatever was consented to has a valid shape.                             *)
MeantShaped == \A m \in Masters, s \in Statements :
                 <<m, Meaning(s)>> \in consented => ValidateShape(s)

(* An account is at least at the version of every statement that took       *)
(* effect, and no two of these have one version.                            *)
AppliedPast == \A a \in Accounts : \A x \in applied[a] :
                 /\ x.version <= cloud[a].version
                 /\ \A y \in applied[a] : x.version = y.version => x = y

(* The inductive invariant of IdentitySuccession.                           *)
SuccessionInv == SuccessionTypeOK /\ SignedMeant /\ MeantShaped /\ AppliedPast

(* The signed bytes determine the meaning, and the other way round: the     *)
(* canonical form forgets the rendering and nothing else.                   *)
LEMMA CanonicalIsMeaning ==
  ASSUME NEW s \in Statements, NEW t \in Statements
  PROVE  /\ CanonicalSuccession(s) = CanonicalSuccession(t) <=> Meaning(s) = Meaning(t)
         /\ Meaning(s) = Meaning(t) => (ValidateShape(s) <=> ValidateShape(t))
  BY DEF Statements, Text, CanonicalSuccession, Meaning, ValidateShape, Normalize

(* The meaning of a statement is a meaning.                                 *)
LEMMA MeaningType ==
  ASSUME NEW s \in Statements
  PROVE  /\ Meaning(s) \in Meanings
         /\ Normalize(s.new) \in Fingerprints \union {Blank}
         /\ s.version \in Nat
  BY VersionAssumption DEF Statements, Text, Meaning, Meanings, Normalize

(* The invariant holds initially.                                           *)
LEMMA SuccessionInitInv == SuccessionInit => SuccessionInv
  BY DEF SuccessionInit, SuccessionInv, SuccessionTypeOK, SignedMeant, MeantShaped, AppliedPast

(* sign_succession keeps the invariant.                                     *)
LEMMA SuccessionSignInv ==
  ASSUME SuccessionInv, NEW m \in Masters, NEW s \in Statements, Sign(m, s)
  PROVE  SuccessionInv'
<1>1. SuccessionTypeOK'
  BY MeaningType DEF SuccessionInv, SuccessionTypeOK, Sign
<1>2. SignedMeant'
  <2> SUFFICES ASSUME NEW q \in Masters, NEW t \in Statements
               PROVE  <<q, CanonicalSuccession(t)>> \in signed' <=> <<q, Meaning(t)>> \in consented'
    BY DEF SignedMeant, CanonicalSuccession, Meaning, Normalize
  <2>1. <<q, CanonicalSuccession(t)>> = <<m, CanonicalSuccession(s)>> <=> <<q, Meaning(t)>> = <<m, Meaning(s)>>
    BY CanonicalIsMeaning
  <2>2. <<q, CanonicalSuccession(t)>> \in signed <=> <<q, Meaning(t)>> \in consented
    BY DEF SuccessionInv, SignedMeant
  <2> QED BY <2>1, <2>2 DEF Sign
<1>3. MeantShaped'
  <2> SUFFICES ASSUME NEW q \in Masters, NEW t \in Statements, <<q, Meaning(t)>> \in consented'
               PROVE  ValidateShape(t)
    BY DEF MeantShaped, Meaning, ValidateShape, Normalize
  <2>1. CASE <<q, Meaning(t)>> \in consented
    BY <2>1 DEF SuccessionInv, MeantShaped
  <2>2. CASE <<q, Meaning(t)>> = <<m, Meaning(s)>>
    BY <2>2, CanonicalIsMeaning DEF Sign
  <2> QED BY <2>1, <2>2 DEF Sign
<1>4. AppliedPast'
  BY DEF SuccessionInv, AppliedPast, Sign
<1> QED BY <1>1, <1>2, <1>3, <1>4 DEF SuccessionInv

(* The Cloud's verification keeps the invariant.                            *)
LEMMA ReceiveInv ==
  ASSUME SuccessionInv, NEW s \in Statements, NEW sig \in signed, Receive(s, sig)
  PROVE  SuccessionInv'
<1>1. SuccessionTypeOK'
  <2>1. cloud' \in [Accounts -> [fp : Fingerprints, version : Nat]] /\ consented' = consented
    BY MeaningType DEF SuccessionInv, SuccessionTypeOK, Receive, VerifySuccession, ValidateShape
  <2>2. Meaning(s) \in Meanings BY MeaningType
  <2>3. applied' \in [Accounts -> SUBSET Meanings]
    BY <2>2 DEF SuccessionInv, SuccessionTypeOK, Receive
  <2> QED BY <2>1, <2>3 DEF SuccessionInv, SuccessionTypeOK
<1>2. SignedMeant' /\ MeantShaped'
  BY DEF SuccessionInv, SignedMeant, MeantShaped, Receive, CanonicalSuccession, Meaning, ValidateShape, Normalize
<1>3. AppliedPast'
  <2> DEFINE a == Normalize(s.account)
             n == Meaning(s)
  <2>1. /\ a \in Accounts /\ s.version > cloud[a].version
        /\ applied' = [applied EXCEPT ![a] = applied[a] \union {n}]
        /\ cloud' = [cloud EXCEPT ![a] = [fp |-> Normalize(s.new), version |-> s.version]]
    BY DEF Receive, VerifySuccession
  <2>2. n.version = s.version /\ s.version \in Nat BY MeaningType DEF Meaning
  <2> HIDE DEF a, n
  <2> SUFFICES ASSUME NEW b \in Accounts, NEW x \in applied'[b]
               PROVE  /\ x.version <= cloud'[b].version
                      /\ \A y \in applied'[b] : x.version = y.version => x = y
    BY DEF AppliedPast
  <2>3. CASE b # a
    <3>1. applied'[b] = applied[b] /\ cloud'[b] = cloud[b]
      BY <2>1, <2>3 DEF SuccessionInv, SuccessionTypeOK
    <3> QED BY <3>1 DEF SuccessionInv, AppliedPast
  <2>4. CASE b = a
    <3>1. applied'[b] = applied[b] \union {n} /\ cloud'[b].version = s.version
      BY <2>1, <2>4 DEF SuccessionInv, SuccessionTypeOK
    <3>2. \A y \in applied[b] : /\ y.version <= cloud[b].version
                               /\ y.version \in Nat /\ cloud[b].version \in Nat
      BY VersionAssumption DEF SuccessionInv, SuccessionTypeOK, AppliedPast, Meanings
    <3>3. \A y \in applied[b] : y.version < s.version
      BY <3>2, <2>1, <2>2, <2>4
    <3>4. \A y, z \in applied[b] : y.version = z.version => y = z
      BY DEF SuccessionInv, AppliedPast
    <3>5. \A y \in applied[b] : y.version \in Nat BY <3>2
    <3> QED BY <3>1, <3>3, <3>4, <3>5, <2>2
  <2> QED BY <2>3, <2>4
<1> QED BY <1>1, <1>2, <1>3 DEF SuccessionInv

(* Every step keeps the invariant.                                          *)
LEMMA SuccessionNextInv == SuccessionInv /\ [SuccessionNext]_successionVars => SuccessionInv'
<1> SUFFICES ASSUME SuccessionInv, [SuccessionNext]_successionVars PROVE SuccessionInv'
  OBVIOUS
<1>1. ASSUME NEW m \in Masters, NEW s \in Statements, Sign(m, s) PROVE SuccessionInv'
  BY <1>1, SuccessionSignInv
<1>2. ASSUME NEW s \in Statements, NEW sig \in signed, Receive(s, sig) PROVE SuccessionInv'
  BY <1>2, ReceiveInv
<1>3. CASE UNCHANGED successionVars
  BY <1>3 DEF successionVars, SuccessionInv, SuccessionTypeOK, SignedMeant, MeantShaped, AppliedPast, CanonicalSuccession, Meaning, ValidateShape, Normalize
<1> QED BY <1>1, <1>2, <1>3 DEF SuccessionNext

(* The inductive invariant: signatures and consent never part, and versions *)
(* only move on.                                                            *)
THEOREM SuccessionInductive == SuccessionSpec => []SuccessionInv
  BY SuccessionInitInv, SuccessionNextInv, PTL DEF SuccessionSpec

(* A receipt moves one account, along a transition its master consented to. *)
LEMMA ReceiveConsented ==
  ASSUME SuccessionInv, NEW s \in Statements, NEW sig \in signed, Receive(s, sig), NEW a \in Accounts, cloud'[a] # cloud[a]
  PROVE  \E t \in Times : <<MasterOf(a), [account |-> a, old |-> cloud[a].fp, new |-> cloud'[a].fp,
                              version |-> cloud'[a].version, issued |-> t]>> \in consented
<1>1. /\ a = Normalize(s.account)
      /\ cloud'[a] = [fp |-> Normalize(s.new), version |-> s.version]
      /\ Normalize(s.old) = cloud[a].fp
  BY DEF Receive, SuccessionInv, SuccessionTypeOK
<1>2. /\ ValidateShape(s) /\ s.version > cloud[a].version
      /\ <<MasterOf(a), CanonicalSuccession(s)>> \in signed
  BY <1>1 DEF Receive, VerifySuccession
<1>3. <<MasterOf(a), Meaning(s)>> \in consented
  BY <1>2, MasterAssumption DEF SuccessionInv, SignedMeant
<1>4. Meaning(s) = [account |-> a, old |-> cloud[a].fp, new |-> cloud'[a].fp,
                    version |-> cloud'[a].version, issued |-> s.issued]
  BY <1>1 DEF Meaning
<1>5. s.issued \in Times
  BY DEF Statements
<1> QED BY <1>3, <1>4, <1>5

(* Every step changes an identity only as its master consented.             *)
LEMMA StepConsented ==
  ASSUME SuccessionInv, [SuccessionNext]_successionVars, NEW a \in Accounts, cloud'[a] # cloud[a]
  PROVE  \E t \in Times : <<MasterOf(a), [account |-> a, old |-> cloud[a].fp, new |-> cloud'[a].fp,
                              version |-> cloud'[a].version, issued |-> t]>> \in consented
<1>1. cloud' # cloud
  OBVIOUS
<1>2. ~ UNCHANGED successionVars /\ \A m \in Masters, s \in Statements : ~ Sign(m, s)
  BY <1>1 DEF Sign, successionVars
<1>3. PICK s \in Statements, sig \in signed : Receive(s, sig)
  BY <1>2 DEF SuccessionNext
<1> QED BY <1>3, ReceiveConsented

(* EveryChangeConsented, for any number of accounts, masters, statements:   *)
(* what verify_identity_succession lets through was signed as just that.    *)
THEOREM OnlyConsentedChanges == SuccessionSpec => EveryChangeConsented
<1>1. SuccessionInv /\ [SuccessionNext]_successionVars =>
        \A a \in Accounts : cloud'[a] # cloud[a] =>
          \E t \in Times : <<MasterOf(a), [account |-> a, old |-> cloud[a].fp, new |-> cloud'[a].fp,
                                version |-> cloud'[a].version, issued |-> t]>> \in consented
  BY StepConsented
<1> QED BY <1>1, SuccessionInductive, PTL DEF SuccessionSpec, EveryChangeConsented

(* ReplayDoesNothing, for any number of accounts, versions and statements:  *)
(* the strict comparison of versions in verify_identity_succession retires  *)
(* a statement, and every other up to its version, once it took effect.     *)
THEOREM NothingReplayed == SuccessionSpec => []ReplayDoesNothing
<1>1. SuccessionInv => ReplayDoesNothing
  <2> SUFFICES ASSUME SuccessionInv, NEW a \in Accounts, NEW x \in applied[a]
               PROVE  /\ \A y \in applied[a] : x.version = y.version => x = y
                      /\ \A s \in Statements, sig \in signed :
                           (Normalize(s.account) = a /\ s.version <= x.version)
                             => ~ VerifySuccession(MasterOf(a), s, sig, cloud[a].version)
    BY DEF ReplayDoesNothing
  <2>1. \A y \in applied[a] : x.version = y.version => x = y
    BY DEF SuccessionInv, AppliedPast
  <2>2. x.version <= cloud[a].version /\ x.version \in Nat /\ cloud[a].version \in Nat
    BY VersionAssumption DEF SuccessionInv, SuccessionTypeOK, AppliedPast, Meanings
  <2>3. ASSUME NEW s \in Statements, NEW sig \in signed, s.version <= x.version
        PROVE  ~ VerifySuccession(MasterOf(a), s, sig, cloud[a].version)
    <3>1. s.version \in Nat BY MeaningType
    <3>2. ~ (s.version > cloud[a].version) BY <3>1, <2>2, <2>3
    <3> QED BY <3>2 DEF VerifySuccession
  <2> QED BY <2>1, <2>3
<1> QED BY <1>1, SuccessionInductive, PTL

(* SignedIsAccepted: however a statement is written when it arrives, the    *)
(* signature made over another rendering of it verifies.                    *)
THEOREM RenderingNeverMatters == SuccessionSpec => []SignedIsAccepted
<1>1. SuccessionInv => SignedIsAccepted
  <2> SUFFICES ASSUME SuccessionInv, NEW s \in Statements, NEW c \in consented,
                      c[2] = Meaning(s), s.version > cloud[c[2].account].version
               PROVE  \E sig \in signed : VerifySuccession(c[1], s, sig, cloud[c[2].account].version)
    BY DEF SignedIsAccepted
  <2>1. c[1] \in Masters /\ c = <<c[1], Meaning(s)>>
    BY DEF SuccessionInv, SuccessionTypeOK
  <2>2. ValidateShape(s) /\ <<c[1], CanonicalSuccession(s)>> \in signed
    BY <2>1 DEF SuccessionInv, SignedMeant, MeantShaped
  <2> QED BY <2>2 DEF VerifySuccession
<1> QED BY <1>1, SuccessionInductive, PTL

-----------------------------------------------------------------------------
(* AuthChallenge *)

(* Well-formed challenges.                                                  *)
Challenges == {[kind |-> "nonce", n |-> n] : n \in Nonces}

(* The shape of the state.                                                  *)
AuthTypeOK ==
  /\ now \in Nat /\ ahead \in Nat
  /\ used \subseteq Nonces
  /\ open \subseteq {[kind |-> "nonce", n |-> n] : n \in used} \X Purposes
  /\ machines \subseteq {<<DeriveMachineId(k), k>> : k \in Keys}

(* A signature over the payload of a challenge exists only if its purpose   *)
(* and challenge were meant.                                                *)
AnswersMeant == \A k \in Keys, p \in Purposes, c \in Challenges :
                  <<k, ChallengeSigningPayload(p, c)>> \in sigs => <<k, p, c>> \in meant

(* A timestamped challenge carries a time its clock showed.                 *)
Stamps == \A c \in stamped : /\ c.at \in Nat /\ c.ahead \in Nat
                             /\ c.stamp = c.at + c.ahead /\ c.at <= now

(* A token has a time of expiry.                                            *)
Tokens == \A s \in sessions : s.token.exp \in Nat

(* The inductive invariant of AuthChallenge.                                *)
AuthInv == AuthTypeOK /\ AnswersMeant /\ GrantsWereMeant /\ LoginWasMeant /\ Stamps /\ Tokens

(* The payload of a challenge determines purpose and challenge, and is no   *)
(* grant: the domain tags differ.                                           *)
LEMMA PayloadsApart ==
  ASSUME NEW q \in Purposes, NEW r \in Purposes, NEW c, IsWellFormedChallenge(c), NEW g
  PROVE  /\ ChallengeSigningPayload(q, c) # None
         /\ ChallengeSigningPayload(q, c) # GrantCanonical(g)
         /\ \A d : IsWellFormedChallenge(d) /\ ChallengeSigningPayload(q, c) = ChallengeSigningPayload(r, d) => q = r /\ c = d
<1>1. Domain(q) # "gc-grant-v2" /\ (Domain(q) = Domain(r) => q = r)
  BY DEF Domain, Purposes
<1> QED BY <1>1 DEF ChallengeSigningPayload, GrantCanonical, None

(* A challenge the server issues passes the check on it.                    *)
LEMMA ChallengesWellFormed == \A c \in Challenges : IsWellFormedChallenge(c)
  BY DEF Challenges, IsWellFormedChallenge

(* The invariant holds initially.                                           *)
LEMMA AuthInitInv == AuthInit => AuthInv
  BY DEF AuthInit, AuthInv, AuthTypeOK, AnswersMeant, GrantsWereMeant, LoginWasMeant, Stamps, Tokens

(* Signing a challenge keeps the invariant.                                 *)
LEMMA AuthSignInv ==
  ASSUME AuthInv, NEW k \in Keys, NEW p \in Purposes, NEW c \in Presented, SignAuthChallenge(k, p, c)
  PROVE  AuthInv'
<1>1. /\ sigs' = sigs \union {<<k, ChallengeSigningPayload(p, c)>>}
      /\ meant' = meant \union {<<k, p, c>>}
      /\ UNCHANGED <<now, ahead, open, used, stamped, machines, sessions>>
      /\ IsWellFormedChallenge(c)
  BY DEF SignAuthChallenge, ChallengeSigningPayload
<1>2. AnswersMeant'
  <2> SUFFICES ASSUME NEW l \in Keys, NEW q \in Purposes, NEW d \in Challenges,
                      <<l, ChallengeSigningPayload(q, d)>> \in sigs'
               PROVE  <<l, q, d>> \in meant'
    BY DEF AnswersMeant, ChallengeSigningPayload, Challenges, IsWellFormedChallenge
  <2>1. CASE <<l, ChallengeSigningPayload(q, d)>> \in sigs
    BY <2>1, <1>1 DEF AuthInv, AnswersMeant
  <2>2. CASE l = k /\ ChallengeSigningPayload(q, d) = ChallengeSigningPayload(p, c)
    BY <2>2, <1>1, PayloadsApart, ChallengesWellFormed
  <2> QED BY <1>1, <2>1, <2>2
<1>3. GrantsWereMeant'
  <2> SUFFICES ASSUME NEW l \in Keys, NEW g \in Grants, <<l, GrantCanonical(g)>> \in sigs'
               PROVE  <<l, "Grant", g>> \in meant'
    BY DEF GrantsWereMeant, GrantCanonical
  <2>1. GrantCanonical(g) # ChallengeSigningPayload(p, c)
    BY <1>1, PayloadsApart
  <2> QED BY <1>1, <2>1 DEF AuthInv, GrantsWereMeant
<1>4. LoginWasMeant'
  BY <1>1 DEF AuthInv, LoginWasMeant, Presented, GrantCanonical
<1> QED BY <1>1, <1>2, <1>3, <1>4 DEF AuthInv, AuthTypeOK, Stamps, Tokens, DeriveMachineId

(* Signing a grant keeps the invariant: it is no challenge.                 *)
LEMMA SignGrantInv ==
  ASSUME AuthInv, NEW k \in Keys, NEW h \in Grants, SignGrant(k, h)
  PROVE  AuthInv'
<1>1. /\ sigs' = sigs \union {<<k, GrantCanonical(h)>>}
      /\ meant' = meant \union {<<k, "Grant", h>>}
      /\ UNCHANGED <<now, ahead, open, used, stamped, machines, sessions>>
  BY DEF SignGrant
<1>2. AnswersMeant'
  <2> SUFFICES ASSUME NEW l \in Keys, NEW q \in Purposes, NEW d \in Challenges,
                      <<l, ChallengeSigningPayload(q, d)>> \in sigs'
               PROVE  <<l, q, d>> \in meant'
    BY DEF AnswersMeant, ChallengeSigningPayload, Challenges, IsWellFormedChallenge
  <2>1. ChallengeSigningPayload(q, d) # GrantCanonical(h)
    BY PayloadsApart, ChallengesWellFormed
  <2> QED BY <1>1, <2>1 DEF AuthInv, AnswersMeant
<1>3. GrantsWereMeant'
  <2> SUFFICES ASSUME NEW l \in Keys, NEW g \in Grants, <<l, GrantCanonical(g)>> \in sigs'
               PROVE  <<l, "Grant", g>> \in meant'
    BY DEF GrantsWereMeant, GrantCanonical
  <2>1. GrantCanonical(g) = GrantCanonical(h) => g = h
    BY DEF GrantCanonical
  <2> QED BY <1>1, <2>1 DEF AuthInv, GrantsWereMeant
<1>4. LoginWasMeant'
  BY <1>1 DEF AuthInv, LoginWasMeant, Presented, GrantCanonical
<1> QED BY <1>1, <1>2, <1>3, <1>4 DEF AuthInv, AuthTypeOK, Stamps, Tokens, DeriveMachineId

(* An answer the Cloud takes was meant for that purpose and challenge.      *)
LEMMA AnsweredMeant ==
  ASSUME AuthInv, NEW k \in Keys, NEW p \in Purposes, NEW c, Answered(k, p, c)
  PROVE  <<k, p, c>> \in meant /\ c \in {[kind |-> "nonce", n |-> n] : n \in used}
<1>1. c \in {[kind |-> "nonce", n |-> n] : n \in used}
  BY DEF Answered, AuthInv, AuthTypeOK
<1>2. c \in Challenges
  BY <1>1 DEF AuthInv, AuthTypeOK, Challenges
<1> QED BY <1>1, <1>2 DEF Answered, VerifyDetachedSignature, AuthInv, AnswersMeant

(* A registration keeps the invariant.                                      *)
LEMMA RegisterInv ==
  ASSUME AuthInv, NEW k \in Keys, NEW id, NEW c, Register(k, id, c)
  PROVE  AuthInv'
<1>1. <<k, "RegistrationProof", c>> \in meant /\ c \in Presented
  BY AnsweredMeant DEF Register, Purposes, Presented
<1>2. /\ machines' = machines \union {<<DeriveMachineId(k), k>>}
      /\ open' \subseteq open
      /\ UNCHANGED <<now, ahead, used, stamped, sigs, meant, sessions>>
  BY DEF Register, VerifyMachineId, Answered
<1>3. LoginWasMeant'
  <2>1. Presented' = Presented
    BY <1>2 DEF Presented, GrantCanonical
  <2>2. ASSUME NEW m \in machines' PROVE \E d \in Presented : <<m[2], "RegistrationProof", d>> \in meant
    <3>1. CASE m \in machines
      BY <3>1 DEF AuthInv, LoginWasMeant
    <3>2. CASE m = <<DeriveMachineId(k), k>>
      BY <3>2, <1>1
    <3> QED BY <1>2, <2>2, <3>1, <3>2
  <2> QED BY <1>2, <2>1, <2>2 DEF AuthInv, LoginWasMeant
<1>4. AuthTypeOK'
  BY <1>2 DEF AuthInv, AuthTypeOK, DeriveMachineId
<1> QED BY <1>2, <1>3, <1>4 DEF AuthInv, AnswersMeant, GrantsWereMeant, Stamps, Tokens,
                               ChallengeSigningPayload, GrantCanonical, IsWellFormedChallenge

(* A login keeps the invariant.                                             *)
LEMMA LoginInv ==
  ASSUME AuthInv, NEW m \in machines, NEW c, Login(m, c)
  PROVE  AuthInv'
<1>1. m[2] \in Keys
  BY DEF AuthInv, AuthTypeOK
<1>2. <<m[2], "Login", c>> \in meant
  BY <1>1, AnsweredMeant DEF Login, Purposes
<1> DEFINE s == [key |-> m[2], challenge |-> c, token |-> GenerateAccessToken(m[1])]
<1>3. /\ sessions' = sessions \union {s}
      /\ open' \subseteq open
      /\ UNCHANGED <<now, ahead, used, stamped, sigs, meant, machines>>
  BY DEF Login, Answered
<1>4. s.key = m[2] /\ s.challenge = c /\ s.token.exp \in Nat
  BY BoundAssumption DEF GenerateAccessToken, CloudClock, AuthInv, AuthTypeOK
<1> HIDE DEF s
<1>5. LoginWasMeant'
  BY <1>2, <1>3, <1>4 DEF AuthInv, LoginWasMeant, Presented, GrantCanonical
<1>6. AuthTypeOK' /\ Tokens'
  BY <1>3, <1>4 DEF AuthInv, AuthTypeOK, Tokens, DeriveMachineId
<1> QED BY <1>3, <1>5, <1>6 DEF AuthInv, AnswersMeant, GrantsWereMeant, Stamps,
                               ChallengeSigningPayload, GrantCanonical, IsWellFormedChallenge

(* New challenges only add to what may be presented.                        *)
LEMMA GenerateInv ==
  ASSUME AuthInv, \/ GenerateTimestampedChallenge
              \/ \E n \in Nonces, p \in Purposes : GenerateChallenge(n, p)
  PROVE  AuthInv'
<1>1. /\ UNCHANGED <<now, ahead, sigs, meant, machines, sessions>>
      /\ used \subseteq used' /\ stamped \subseteq stamped'
  BY DEF GenerateTimestampedChallenge, GenerateChallenge
<1>2. LoginWasMeant'
  BY <1>1 DEF AuthInv, LoginWasMeant, Presented, GrantCanonical
<1>3. AuthTypeOK'
  BY <1>1 DEF GenerateTimestampedChallenge, GenerateChallenge, AuthInv, AuthTypeOK, DeriveMachineId
<1>4. Stamps'
  BY <1>1 DEF GenerateTimestampedChallenge, GenerateChallenge, AuthInv, AuthTypeOK, Stamps, CloudClock
<1> QED BY <1>1, <1>2, <1>3, <1>4 DEF AuthInv, AnswersMeant, GrantsWereMeant, Tokens,
                               ChallengeSigningPayload, GrantCanonical, IsWellFormedChallenge

(* Time and clock adjustments keep the invariant.                           *)
LEMMA ClockInv ==
  ASSUME AuthInv, Tick \/ \E a \in 0..MaxAhead : AdjustClock(a)
  PROVE  AuthInv'
<1>1. /\ UNCHANGED <<open, used, stamped, sigs, meant, machines, sessions>>
      /\ now' \in Nat /\ ahead' \in Nat /\ now <= now'
  BY BoundAssumption DEF Tick, AdjustClock, AuthInv, AuthTypeOK
<1>2. AuthTypeOK' /\ Stamps'
  BY <1>1 DEF AuthInv, AuthTypeOK, Stamps, DeriveMachineId
<1> QED BY <1>1, <1>2 DEF AuthInv, LoginWasMeant, Presented, AnswersMeant, GrantsWereMeant, Tokens,
                          ChallengeSigningPayload, GrantCanonical, IsWellFormedChallenge

(* Every step keeps the invariant.                                          *)
LEMMA AuthNextInv == AuthInv /\ [AuthNext]_authVars => AuthInv'
<1> SUFFICES ASSUME AuthInv, [AuthNext]_authVars PROVE AuthInv'
  OBVIOUS
<1>1. CASE Tick \/ \E a \in 0..MaxAhead : AdjustClock(a)
  BY <1>1, ClockInv
<1>2. CASE GenerateTimestampedChallenge \/ \E n \in Nonces, p \in Purposes : GenerateChallenge(n, p)
  BY <1>2, GenerateInv
<1>3. CASE \E k \in Keys, p \in Purposes, c \in Presented : SignAuthChallenge(k, p, c)
  BY <1>3, AuthSignInv
<1>4. CASE \E k \in Keys, g \in Grants : SignGrant(k, g)
  BY <1>4, SignGrantInv
<1>5. ASSUME NEW k \in Keys, NEW o \in open, NEW l \in {"upper", "lower"},
             Register(k, [DeriveMachineId(k) EXCEPT !.hex.letters = l], o[1])
      PROVE  AuthInv'
  BY <1>5, RegisterInv
<1>6. ASSUME NEW m \in machines, NEW o \in open, Login(m, o[1]) PROVE AuthInv'
  BY <1>6, LoginInv
<1>7. CASE UNCHANGED authVars
  BY <1>7 DEF authVars, AuthInv, AuthTypeOK, LoginWasMeant, Presented, AnswersMeant, GrantsWereMeant, Tokens, Stamps,
              ChallengeSigningPayload, GrantCanonical, IsWellFormedChallenge, DeriveMachineId
<1> QED BY <1>1, <1>2, <1>3, <1>4, <1>5, <1>6, <1>7 DEF AuthNext

(* The inductive invariant: every signature is one that was meant.          *)
THEOREM AuthInductive == AuthSpec => []AuthInv
  BY AuthInitInv, AuthNextInv, PTL DEF AuthSpec

(* LoginWasMeant: no session and no registration without its key's holder,  *)
(* whoever passed on which signature of sign_auth_challenge.                *)
THEOREM SessionsWereMeant == AuthSpec => []LoginWasMeant
<1>1. AuthInv => LoginWasMeant
  BY DEF AuthInv
<1> QED BY <1>1, AuthInductive, PTL

(* GrantsWereMeant: nothing presented as a challenge becomes a grant.       *)
THEOREM ChallengesAreNoGrants == AuthSpec => []GrantsWereMeant
<1>1. AuthInv => GrantsWereMeant
  BY DEF AuthInv
<1> QED BY <1>1, AuthInductive, PTL

(* MachineIdNamesOneKey, from fingerprints that name one key: lowercasing   *)
(* the whole fingerprint loses nothing.                                     *)
THEOREM IdsNameOneKey == AuthSpec => []MachineIdNamesOneKey
<1>1. ASSUME NEW k \in Keys, NEW l \in Keys, DeriveMachineId(k) = DeriveMachineId(l) PROVE k = l
  <2>1. [Fingerprint(k) EXCEPT !.letters = "lower"] = [Fingerprint(l) EXCEPT !.letters = "lower"]
    BY <1>1 DEF DeriveMachineId
  <2>2. \A f, g \in [head : STRING, tail : STRING, width : {40, 64}, letters : {"upper"}] :
          [f EXCEPT !.letters = "lower"] = [g EXCEPT !.letters = "lower"] => f = g
    <3> SUFFICES ASSUME NEW f \in [head : STRING, tail : STRING, width : {40, 64}, letters : {"upper"}],
                        NEW g \in [head : STRING, tail : STRING, width : {40, 64}, letters : {"upper"}],
                        [f EXCEPT !.letters = "lower"] = [g EXCEPT !.letters = "lower"]
                 PROVE  f = g
      OBVIOUS
    <3>1. f.head = g.head /\ f.tail = g.tail /\ f.width = g.width /\ f.letters = g.letters
      OBVIOUS
    <3> QED BY <3>1
  <2> QED BY <2>1, <2>2, FingerprintAssumption
<1>2. AuthInv => MachineIdNamesOneKey
  <2> SUFFICES ASSUME AuthInv, NEW m1 \in machines, NEW m2 \in machines, m1[1] = m2[1] PROVE m1[2] = m2[2]
    BY DEF MachineIdNamesOneKey
  <2>1. PICK k \in Keys : m1 = <<DeriveMachineId(k), k>>
    BY DEF AuthInv, AuthTypeOK
  <2>2. PICK l \in Keys : m2 = <<DeriveMachineId(l), l>>
    BY DEF AuthInv, AuthTypeOK
  <2> QED BY <2>1, <2>2, <1>1
<1> QED BY <1>2, AuthInductive, PTL

(* LiveTokenAccepted: is_token_expired errs on the safe side by any clock   *)
(* difference up to the leeway of validate_access_token.                    *)
THEOREM LiveTokensPass == AuthSpec => []LiveTokenAccepted
<1>1. AuthInv => LiveTokenAccepted
  BY BoundAssumption DEF AuthInv, AuthTypeOK, Tokens, LiveTokenAccepted, IsTokenExpired, ValidateAccessToken, Minus, CloudClock
<1> QED BY <1>1, AuthInductive, PTL

(* ChallengeAgeBounded: saturating_sub lengthens a challenge's life by no   *)
(* more than the clock was put back.                                        *)
THEOREM ChallengesExpire == AuthSpec => []ChallengeAgeBounded
<1>1. AuthInv => ChallengeAgeBounded
  BY BoundAssumption DEF AuthInv, AuthTypeOK, Stamps, ChallengeAgeBounded, IsChallengeValid, Minus, CloudClock
<1> QED BY <1>1, AuthInductive, PTL

-----------------------------------------------------------------------------
(* DeviceTrust *)

(* A certificate in order: its signature covers its payload, and it names a *)
(* device.                                                                  *)
CertOK(c) ==
  /\ c = [payload |-> c.payload, key |-> c.key, over |-> c.over]
  /\ c.over = c.payload
  /\ IF IsDeviceCert(c) THEN c.payload.device_pubkey \in Device
                        ELSE c.payload.target_device_pubkey \in Device

(* What a verifier that has seen only what masters signed makes of it.      *)
MasterAccepts(R, m, d) ==
  \E c \in R : IsDeviceCert(c) /\ VerifyDevice(c, m, {}) /\ c.payload.device_pubkey = d
(* And which devices it takes for revoked.                                  *)
MasterRevokes(R, m, d) ==
  \E c \in R : ~IsDeviceCert(c) /\ VerifyRevocation(c, m, {}) /\ c.payload.target_device_pubkey = d
(* Nothing of R is signed by a device.                                      *)
MasterOnly(R) == \A c \in R : c.payload.signer_role = "Master"

(* The enrolled and the revoked are what the certificates of R alone say,   *)
(* whatever their order.                                                    *)
FollowsMaster(R, m, E, K) ==
  MasterOnly(R) => /\ \A d : d \in E <=> MasterAccepts(R, m, d)
                   /\ \A d : d \in K <=> MasterRevokes(R, m, d)

(* The shape of the state: signatures cover their payloads, and nothing is  *)
(* delivered before a master is published.                                  *)
TrustTypes ==
  /\ received = [v \in Verifier |-> received[v]]
  /\ enrolled = [v \in Verifier |-> enrolled[v]]
  /\ revoked = [v \in Verifier |-> revoked[v]]
  /\ \A c \in certs : CertOK(c)
  /\ \A v \in Verifier : /\ received[v] \subseteq certs
                         /\ enrolled[v] \subseteq Device
                         /\ revoked[v] \subseteq Device
                         /\ published = NoMaster =>
                              received[v] = {} /\ enrolled[v] = {} /\ revoked[v] = {}

(* The inductive invariant of DeviceTrust.                                  *)
TrustInv ==
  /\ TrustTypes
  /\ ChainOfTrust
  /\ \A v \in Verifier : FollowsMaster(received[v], published, enrolled[v], revoked[v])

(* A verifier that was given nothing follows.                               *)
LEMMA EmptyFollows == \A m : FollowsMaster({}, m, {}, {})
BY DEF FollowsMaster, MasterAccepts, MasterRevokes

(* The invariant holds initially.                                           *)
LEMMA TrustInitInv == TrustInit => TrustInv
BY EmptyFollows DEF TrustInit, TrustInv, TrustTypes, ChainOfTrust

(* Publishing the master: nothing has been delivered yet.                   *)
LEMMA PublishInv ==
  ASSUME TrustInv, published = NoMaster, UNCHANGED <<certs, received, enrolled, revoked>>
  PROVE  TrustInv'
<1>1. \A v \in Verifier : received[v] = {} /\ enrolled[v] = {} /\ revoked[v] = {}
  BY DEF TrustInv, TrustTypes
<1>2. TrustTypes'
  BY <1>1 DEF TrustInv, TrustTypes
<1>3. ChainOfTrust'
  BY <1>1 DEF ChainOfTrust
<1>4. \A v \in Verifier : FollowsMaster(received'[v], published', enrolled'[v], revoked'[v])
  BY <1>1, EmptyFollows
<1> QED BY <1>2, <1>3, <1>4 DEF TrustInv

(* Signing another certificate.                                             *)
LEMMA IssueInv ==
  ASSUME TrustInv, NEW c, CertOK(c), Issue(c)
  PROVE  TrustInv'
<1>1. certs' = certs \cup {c} /\ UNCHANGED <<published, received, enrolled, revoked>>
  BY DEF Issue
<1>2. TrustTypes'
  BY <1>1 DEF TrustInv, TrustTypes
<1>3. ChainOfTrust'
  <2> SUFFICES ASSUME NEW S \in SUBSET Device, Closed(S)' PROVE \A v \in Verifier : enrolled'[v] \subseteq S
    BY DEF ChainOfTrust
  <2>1. Closed(S)
    BY <1>1 DEF Closed
  <2> QED BY <1>1, <2>1 DEF TrustInv, ChainOfTrust
<1>4. \A v \in Verifier : FollowsMaster(received'[v], published', enrolled'[v], revoked'[v])
  BY <1>1 DEF TrustInv
<1> QED BY <1>2, <1>3, <1>4 DEF TrustInv

(* sign_with_master and sign_with_device make device certificates in order. *)
LEMMA DeviceSigned ==
  ASSUME NEW k, NEW m, NEW role, NEW signer, NEW d \in Device, NEW label
  PROVE  CertOK(Signed(k, DevicePayload(m, role, signer, d, label)))
<1> DEFINE p == DevicePayload(m, role, signer, d, label)
<1>1. p.device_pubkey = d /\ "device_pubkey" \in DOMAIN p
  BY DEF DevicePayload
<1> HIDE DEF p
<1> DEFINE c == Signed(k, p)
<1>2. c = [payload |-> p, key |-> k, over |-> p]
  BY DEF Signed
<1> HIDE DEF c
<1>3. CertOK(c)
  BY <1>1, <1>2 DEF CertOK, IsDeviceCert
<1> QED BY <1>3 DEF c, p

(* And revocation certificates.                                             *)
LEMMA RevocationSigned ==
  ASSUME NEW k, NEW m, NEW role, NEW signer, NEW d \in Device
  PROVE  CertOK(Signed(k, RevocationPayload(m, role, signer, d)))
<1> DEFINE p == RevocationPayload(m, role, signer, d)
<1>1. p.target_device_pubkey = d /\ "device_pubkey" \notin DOMAIN p
  BY DEF RevocationPayload
<1> HIDE DEF p
<1> DEFINE c == Signed(k, p)
<1>2. c = [payload |-> p, key |-> k, over |-> p]
  BY DEF Signed
<1> HIDE DEF c
<1>3. CertOK(c)
  BY <1>1, <1>2 DEF CertOK, IsDeviceCert
<1> QED BY <1>3 DEF c, p

(* An altered certificate is none of those signed and does not verify.      *)
LEMMA AlteredRefused ==
  ASSUME TrustInv, NEW x \in certs, NEW c \in AlteredCert(x)
  PROVE  c \notin certs /\ ~CertSignatureOk(c)
<1>1. x = [payload |-> x.payload, key |-> x.key, over |-> x.over] /\ x.over = x.payload
  BY DEF TrustInv, TrustTypes, CertOK
<1>2. c # x
  BY DEF AlteredCert
<1>3. PICK p : c = [x EXCEPT !.payload = p]
  <2>1. \/ \E r \in SignerRole : c = [x EXCEPT !.payload.signer_role = r]
        \/ c = [x EXCEPT !.payload.master_pubkey = published]
        \/ \E d \in Device : c = [x EXCEPT !.payload.device_pubkey = d]
        \/ \E d \in Device : c = [x EXCEPT !.payload.target_device_pubkey = d]
    BY DEF AlteredCert
  <2> QED BY <2>1
<1>4. c = [payload |-> p, key |-> x.key, over |-> x.payload]
  BY <1>1, <1>3
<1>5. c.payload = p /\ c.over = x.payload
  BY <1>4
<1>6. p # x.payload
  BY <1>1, <1>2, <1>4
<1>7. c.over # c.payload
  BY <1>5, <1>6
<1> QED BY <1>7 DEF CertSignatureOk, TrustInv, TrustTypes, CertOK

(* What the master signed is judged alike whoever is eligible.              *)
LEMMA MasterJudged ==
  ASSUME NEW c, NEW m, NEW E, NEW F, c.payload.signer_role = "Master"
  PROVE  /\ VerifyDevice(c, m, E) <=> VerifyDevice(c, m, F)
         /\ VerifyRevocation(c, m, E) <=> VerifyRevocation(c, m, F)
BY DEF VerifyDevice, VerifyRevocation, SignerOk

(* verify keeps the invariant, whether it accepts or refuses.               *)
LEMMA DeliverInv ==
  ASSUME TrustInv, NEW v \in Verifier, NEW c, Deliver(v, c), c \in certs \/ (c \notin certs /\ ~CertSignatureOk(c))
  PROVE  TrustInv'
<1>1. published # NoMaster /\ received' = [received EXCEPT ![v] = received[v] \cup ({c} \cap certs)]
      /\ UNCHANGED <<published, certs>>
  BY DEF Deliver
<1>2. /\ received' = [w \in Verifier |-> received'[w]]
      /\ received'[v] = received[v] \cup ({c} \cap certs)
      /\ \A w \in Verifier : w # v => received'[w] = received[w]
  BY <1>1 DEF TrustInv, TrustTypes
<1>3. CASE ~Verify(c, published, Eligible(v)) /\ UNCHANGED <<enrolled, revoked>>
  <2>1. TrustTypes'
    BY <1>1, <1>2, <1>3 DEF TrustInv, TrustTypes
  <2>2. ChainOfTrust'
    BY <1>1, <1>3 DEF TrustInv, ChainOfTrust, Closed
  <2>3. ASSUME NEW w \in Verifier PROVE FollowsMaster(received'[w], published', enrolled'[w], revoked'[w])
    <3>1. CASE w # v \/ c \notin certs
      BY <1>1, <1>2, <1>3, <3>1 DEF TrustInv
    <3>2. CASE w = v /\ c \in certs
      <4> SUFFICES ASSUME MasterOnly(received[v] \cup {c})
                   PROVE  /\ \A d : d \in enrolled[v] <=> MasterAccepts(received[v] \cup {c}, published, d)
                          /\ \A d : d \in revoked[v] <=> MasterRevokes(received[v] \cup {c}, published, d)
        BY <1>1, <1>2, <1>3, <3>2 DEF FollowsMaster
      <4>1. MasterOnly(received[v]) /\ c.payload.signer_role = "Master"
        BY DEF MasterOnly
      <4>2. /\ IsDeviceCert(c) => ~VerifyDevice(c, published, {})
            /\ ~IsDeviceCert(c) => ~VerifyRevocation(c, published, {})
        BY <1>3, <4>1, MasterJudged DEF Verify
      <4>3. /\ \A d : d \in enrolled[v] <=> MasterAccepts(received[v], published, d)
            /\ \A d : d \in revoked[v] <=> MasterRevokes(received[v], published, d)
        BY <4>1 DEF TrustInv, FollowsMaster
      <4> QED BY <4>2, <4>3 DEF MasterAccepts, MasterRevokes
    <3> QED BY <3>1, <3>2
  <2> QED BY <2>1, <2>2, <2>3 DEF TrustInv
<1>4. CASE /\ IsDeviceCert(c) /\ VerifyDevice(c, published, Eligible(v))
           /\ enrolled' = [enrolled EXCEPT ![v] = enrolled[v] \cup {c.payload.device_pubkey}]
           /\ UNCHANGED revoked
  <2> DEFINE e == c.payload.device_pubkey
  <2>1. CertSignatureOk(c) /\ SignerOk(c.payload, published, Eligible(v)) /\ c.payload.master_pubkey = published
    BY <1>4 DEF VerifyDevice
  <2>2. c \in certs /\ CertOK(c) /\ e \in Device
    BY <1>4, <2>1 DEF TrustInv, TrustTypes, CertOK
  <2>3. /\ enrolled' = [w \in Verifier |-> enrolled'[w]]
        /\ enrolled'[v] = enrolled[v] \cup {e}
        /\ \A w \in Verifier : w # v => enrolled'[w] = enrolled[w]
    BY <1>4 DEF TrustInv, TrustTypes
  <2>4. TrustTypes'
    BY <1>1, <1>2, <1>4, <2>2, <2>3 DEF TrustInv, TrustTypes
  <2>5. ChainOfTrust'
    <3> SUFFICES ASSUME NEW S \in SUBSET Device, Closed(S)' PROVE \A w \in Verifier : enrolled'[w] \subseteq S
      BY DEF ChainOfTrust
    <3>1. Closed(S)
      BY <1>1 DEF Closed
    <3>2. \A w \in Verifier : enrolled[w] \subseteq S
      BY <3>1 DEF TrustInv, ChainOfTrust
    <3>3. c.key \in S \cup {published}
      BY <2>1, <3>2 DEF CertSignatureOk, SignerOk, Eligible
    <3>4. e \in S
      BY <1>4, <2>1, <2>2, <3>1, <3>3 DEF Closed
    <3> QED BY <2>3, <3>2, <3>4
  <2>6. ASSUME NEW w \in Verifier PROVE FollowsMaster(received'[w], published', enrolled'[w], revoked'[w])
    <3>1. CASE w # v
      <4>1. /\ received'[w] = received[w] /\ published' = published
            /\ enrolled'[w] = enrolled[w] /\ revoked'[w] = revoked[w]
        BY <1>1, <1>2, <1>4, <2>3, <3>1
      <4> QED BY <4>1 DEF TrustInv
    <3>2. CASE w = v
      <4> SUFFICES ASSUME MasterOnly(received[v] \cup {c})
                   PROVE  /\ \A d : d \in enrolled[v] \cup {e} <=> MasterAccepts(received[v] \cup {c}, published, d)
                          /\ \A d : d \in revoked[v] <=> MasterRevokes(received[v] \cup {c}, published, d)
        <5>1. /\ received'[w] = received[v] \cup {c} /\ published' = published
              /\ enrolled'[w] = enrolled[v] \cup {e} /\ revoked'[w] = revoked[v]
          BY <1>1, <1>2, <1>4, <2>2, <2>3, <3>2
        <5> QED BY <5>1 DEF FollowsMaster
      <4>1. MasterOnly(received[v]) /\ c.payload.signer_role = "Master"
        BY DEF MasterOnly
      <4>2. VerifyDevice(c, published, {})
        BY <1>4, <4>1, MasterJudged
      <4>3. /\ \A d : d \in enrolled[v] <=> MasterAccepts(received[v], published, d)
            /\ \A d : d \in revoked[v] <=> MasterRevokes(received[v], published, d)
        BY <4>1 DEF TrustInv, FollowsMaster
      <4> QED BY <1>4, <4>2, <4>3 DEF MasterAccepts, MasterRevokes
    <3> QED BY <3>1, <3>2
  <2> QED BY <2>4, <2>5, <2>6 DEF TrustInv
<1>5. CASE /\ ~IsDeviceCert(c) /\ VerifyRevocation(c, published, Eligible(v))
           /\ revoked' = [revoked EXCEPT ![v] = revoked[v] \cup {c.payload.target_device_pubkey}]
           /\ UNCHANGED enrolled
  <2> DEFINE e == c.payload.target_device_pubkey
  <2>1. CertSignatureOk(c)
    BY <1>5 DEF VerifyRevocation
  <2>2. c \in certs /\ e \in Device
    BY <1>5, <2>1 DEF TrustInv, TrustTypes, CertOK
  <2>3. /\ revoked' = [w \in Verifier |-> revoked'[w]]
        /\ revoked'[v] = revoked[v] \cup {e}
        /\ \A w \in Verifier : w # v => revoked'[w] = revoked[w]
    BY <1>5 DEF TrustInv, TrustTypes
  <2>4. TrustTypes'
    BY <1>1, <1>2, <1>5, <2>2, <2>3 DEF TrustInv, TrustTypes
  <2>5. ChainOfTrust'
    BY <1>1, <1>5 DEF TrustInv, ChainOfTrust, Closed
  <2>6. ASSUME NEW w \in Verifier PROVE FollowsMaster(received'[w], published', enrolled'[w], revoked'[w])
    <3>1. CASE w # v
      <4>1. /\ received'[w] = received[w] /\ published' = published
            /\ enrolled'[w] = enrolled[w] /\ revoked'[w] = revoked[w]
        BY <1>1, <1>2, <1>5, <2>3, <3>1
      <4> QED BY <4>1 DEF TrustInv
    <3>2. CASE w = v
      <4> SUFFICES ASSUME MasterOnly(received[v] \cup {c})
                   PROVE  /\ \A d : d \in enrolled[v] <=> MasterAccepts(received[v] \cup {c}, published, d)
                          /\ \A d : d \in revoked[v] \cup {e} <=> MasterRevokes(received[v] \cup {c}, published, d)
        <5>1. /\ received'[w] = received[v] \cup {c} /\ published' = published
              /\ enrolled'[w] = enrolled[v] /\ revoked'[w] = revoked[v] \cup {e}
          BY <1>1, <1>2, <1>5, <2>2, <2>3, <3>2
        <5> QED BY <5>1 DEF FollowsMaster
      <4>1. MasterOnly(received[v]) /\ c.payload.signer_role = "Master"
        BY DEF MasterOnly
      <4>2. VerifyRevocation(c, published, {})
        BY <1>5, <4>1, MasterJudged
      <4>3. /\ \A d : d \in enrolled[v] <=> MasterAccepts(received[v], published, d)
            /\ \A d : d \in revoked[v] <=> MasterRevokes(received[v], published, d)
        BY <4>1 DEF TrustInv, FollowsMaster
      <4> QED BY <1>5, <4>2, <4>3 DEF MasterAccepts, MasterRevokes
    <3> QED BY <3>1, <3>2
  <2> QED BY <2>4, <2>5, <2>6 DEF TrustInv
<1> QED BY <1>3, <1>4, <1>5 DEF Deliver

(* Every step keeps the invariant.                                          *)
LEMMA TrustNextInv == TrustInv /\ [TrustNext]_trustVars => TrustInv'
<1> SUFFICES ASSUME TrustInv, [TrustNext]_trustVars PROVE TrustInv'
  OBVIOUS
<1>1. ASSUME NEW p \in Phrase, Onboard(p) PROVE TrustInv'
  BY <1>1, PublishInv DEF Onboard
<1>2. ASSUME NEW f \in Legacy, Migrate(f) PROVE TrustInv'
  BY <1>2, PublishInv DEF Migrate
<1>3. ASSUME NEW m \in RootKeys, NEW d \in Device,
             RevokeWithMaster(m, d) \/ \E l \in Label : SignWithMaster(m, d, l)
      PROVE  TrustInv'
  BY <1>3, DeviceSigned, RevocationSigned, IssueInv DEF RevokeWithMaster, SignWithMaster
<1>4. ASSUME NEW s \in Device, NEW d \in Device,
             RevokeWithDevice(s, d) \/ \E l \in Label : SignWithDevice(s, d, l)
      PROVE  TrustInv'
  BY <1>4, DeviceSigned, RevocationSigned, IssueInv DEF RevokeWithDevice, SignWithDevice
<1>5. ASSUME NEW v \in Verifier, NEW c \in certs, Deliver(v, c) PROVE TrustInv'
  BY <1>5, DeliverInv
<1>6. ASSUME NEW v \in Verifier, NEW x \in certs, NEW c \in AlteredCert(x), Deliver(v, c) PROVE TrustInv'
  BY <1>6, AlteredRefused, DeliverInv
<1>7. CASE UNCHANGED trustVars
  <2>1. TrustTypes'
    BY <1>7 DEF trustVars, TrustInv, TrustTypes
  <2>2. ChainOfTrust'
    BY <1>7 DEF trustVars, TrustInv, ChainOfTrust, Closed
  <2> QED BY <1>7, <2>1, <2>2 DEF trustVars, TrustInv
<1> QED BY <1>1, <1>2, <1>3, <1>4, <1>5, <1>6, <1>7 DEF TrustNext

(* For any devices, phrases, legacy files and verifiers, whatever is        *)
(* altered, repeated or reordered: a chain of certificates leads from the   *)
(* published master to every enrolled device, and verifiers given the same  *)
(* certificates of a master agree (DeviceCertificate::verify,               *)
(* RevocationCertificate::verify).                                          *)
THEOREM EnrolmentTraced == TrustSpec => []EnrolmentFollowsMaster
<1>1. TrustInv => EnrolmentFollowsMaster
  <2> SUFFICES ASSUME TrustInv PROVE MasterOrderIrrelevant
    BY DEF TrustInv, EnrolmentFollowsMaster
  <2> SUFFICES ASSUME NEW v \in Verifier, NEW w \in Verifier, received[v] = received[w], MasterOnly(received[v])
               PROVE  enrolled[v] = enrolled[w] /\ revoked[v] = revoked[w]
    BY DEF MasterOrderIrrelevant, MasterOnly
  <2>1. /\ \A d : d \in enrolled[v] <=> d \in enrolled[w]
        /\ \A d : d \in revoked[v] <=> d \in revoked[w]
    BY DEF TrustInv, FollowsMaster
  <2> QED BY <2>1
<1> QED BY <1>1, TrustInitInv, TrustNextInv, PTL DEF TrustSpec

(* For the same: where the master is no device key, no certificate signed   *)
(* by a revoked device verifies any more.                                   *)
THEOREM RevocationStops == TrustSpec => []RevokedSignaturesStop
<1>1. TrustInv => RevokedSignaturesStop
  <2> SUFFICES ASSUME TrustInv, published \notin Device, NEW v \in Verifier, NEW c \in certs, c.key \in revoked[v],
                      Verify(c, published, Eligible(v))
               PROVE  FALSE
    BY DEF RevokedSignaturesStop, RevokedStopsValidating
  <2>1. CertSignatureOk(c) /\ SignerOk(c.payload, published, Eligible(v))
    BY DEF Verify, VerifyDevice, VerifyRevocation
  <2> QED BY <2>1 DEF CertSignatureOk, SignerOk, Eligible, TrustInv, TrustTypes
<1> QED BY <1>1, TrustInitInv, TrustNextInv, PTL DEF TrustSpec

-----------------------------------------------------------------------------
(* CanonicalEncoding *)

(* The bytes of a statement.                                                *)
Bytes == Byte \cup Digits \cup {":", "NL"}

(* p is how q begins.                                                       *)
Begins(p, q) == Len(p) <= Len(q) /\ \A i \in 1..Len(p) : p[i] = q[i]

(* w stands in q, after the first k places.                                 *)
StandsAt(q, k, w) == k + Len(w) <= Len(q) /\ \A j \in 1..Len(w) : q[k + j] = w[j]

(* Where the first i fields end.                                            *)
EndOf(es, i) == IF i = 0 THEN 0 ELSE es[i]

(* The bytes q are the frames of the fields fs, one after the other, and    *)
(* nothing else.                                                            *)
Framed(q, fs, es) ==
  /\ q \in Seq(Bytes) /\ fs \in Seq(Field) /\ es \in Seq(Nat)
  /\ Len(es) = Len(fs)
  /\ Len(q) = EndOf(es, Len(fs))
  /\ \A i \in 1..Len(fs) : /\ StandsAt(q, EndOf(es, i - 1), Frame(fs[i]))
                           /\ EndOf(es, i) = EndOf(es, i - 1) + Len(Frame(fs[i]))

(* Of two statements, where one's bytes begin the other's, its fields do.   *)
Nested(q, fs, es, r, gs, ds) == Begins(q, r) => Begins(fs, gs) /\ Begins(es, ds)

(* The inductive invariant of CanonicalEncoding.                            *)
EncodingInv ==
  /\ encoded = [b \in Buffer |-> encoded[b]]
  /\ pushed = [b \in Buffer |-> pushed[b]]
  /\ ends = [b \in Buffer |-> ends[b]]
  /\ \A b \in Buffer : Framed(encoded[b], pushed[b], ends[b])
  /\ \A a, b \in Buffer : Nested(encoded[a], pushed[a], ends[a], encoded[b], pushed[b], ends[b])

(* A field is a short sequence of bytes.                                    *)
LEMMA FieldSeq == \A f \in Field : f \in Seq(Byte) /\ Len(f) \in 0..MaxField
<1> SUFFICES ASSUME NEW f \in Field PROVE f \in Seq(Byte) /\ Len(f) \in 0..MaxField
  OBVIOUS
<1>1. PICK n \in 0..MaxField : f \in [1..n -> Byte]
  BY DEF Field
<1>2. n \in Nat
  BY EncodingAssumption
<1> QED BY <1>1, <1>2

(* What stands where in a frame: digits, the colon, the field, the newline. *)
LEMMA FrameShape ==
  ASSUME NEW f \in Field, NEW D, D = Decimal(Len(f)), NEW w, w = Frame(f)
  PROVE  /\ D \in Seq(Digits) /\ f \in Seq(Byte) /\ w \in Seq(Bytes)
         /\ Len(w) = Len(D) + Len(f) + 2
         /\ \A i \in 1..Len(D) : w[i] = D[i] /\ w[i] \in Digits
         /\ w[Len(D) + 1] = ":"
         /\ \A i \in 1..Len(f) : w[Len(D) + 1 + i] = f[i]
<1>1. f \in Seq(Byte) /\ Len(f) \in 0..MaxField
  BY FieldSeq
<1>2. D \in Seq(Digits)
  BY <1>1, EncodingAssumption
<1>3. D \in Seq(Bytes) /\ f \in Seq(Bytes) /\ <<":">> \in Seq(Bytes) /\ <<"NL">> \in Seq(Bytes)
  BY <1>1, <1>2 DEF Bytes
<1>4. w = ((D \o <<":">>) \o f) \o <<"NL">>
  BY DEF Frame
<1> HIDE DEF Bytes
<1> QED BY <1>1, <1>2, <1>3, <1>4

(* Two fields whose frames stand at one place are equal: the colon ends the *)
(* digits of both, the digits say how long the field is.                    *)
LEMMA FramesApart ==
  ASSUME NEW q \in Seq(Bytes), NEW k \in Nat, NEW f \in Field, NEW g \in Field,
         StandsAt(q, k, Frame(f)), StandsAt(q, k, Frame(g))
  PROVE  f = g
<1> DEFINE D == Decimal(Len(f))
           E == Decimal(Len(g))
           v == Frame(f)
           w == Frame(g)
<1>1. /\ D \in Seq(Digits) /\ f \in Seq(Byte) /\ v \in Seq(Bytes)
      /\ Len(v) = Len(D) + Len(f) + 2
      /\ \A i \in 1..Len(D) : v[i] = D[i] /\ v[i] \in Digits
      /\ v[Len(D) + 1] = ":"
      /\ \A i \in 1..Len(f) : v[Len(D) + 1 + i] = f[i]
  BY FrameShape
<1>2. /\ E \in Seq(Digits) /\ g \in Seq(Byte) /\ w \in Seq(Bytes)
      /\ Len(w) = Len(E) + Len(g) + 2
      /\ \A i \in 1..Len(E) : w[i] = E[i] /\ w[i] \in Digits
      /\ w[Len(E) + 1] = ":"
      /\ \A i \in 1..Len(g) : w[Len(E) + 1 + i] = g[i]
  BY FrameShape
<1>3. /\ \A j \in 1..Len(v) : q[k + j] = v[j]
      /\ \A j \in 1..Len(w) : q[k + j] = w[j]
  BY DEF StandsAt
<1>4. D = E => Len(f) = Len(g)
  BY FieldSeq, EncodingAssumption
<1> HIDE DEF D, E, v, w
<1>5. ":" \notin Digits
  BY EncodingAssumption
<1>6. ~(Len(D) < Len(E))
  <2> SUFFICES ASSUME Len(D) < Len(E) PROVE FALSE
    OBVIOUS
  <2>1. Len(D) + 1 \in 1..Len(E) /\ Len(D) + 1 \in 1..Len(v) /\ Len(D) + 1 \in 1..Len(w)
    BY <1>1, <1>2
  <2> QED BY <2>1, <1>1, <1>2, <1>3, <1>5
<1>7. ~(Len(E) < Len(D))
  <2> SUFFICES ASSUME Len(E) < Len(D) PROVE FALSE
    OBVIOUS
  <2>1. Len(E) + 1 \in 1..Len(D) /\ Len(E) + 1 \in 1..Len(v) /\ Len(E) + 1 \in 1..Len(w)
    BY <1>1, <1>2
  <2> QED BY <2>1, <1>1, <1>2, <1>3, <1>5
<1>8. Len(D) = Len(E)
  BY <1>1, <1>2, <1>6, <1>7
<1>9. \A i \in 1..Len(D) : D[i] = E[i]
  <2> TAKE i \in 1..Len(D)
  <2>1. i \in 1..Len(v) /\ i \in 1..Len(w) /\ i \in 1..Len(E)
    BY <1>1, <1>2, <1>8
  <2> QED BY <2>1, <1>1, <1>2, <1>3
<1>10. D = E
  BY <1>1, <1>2, <1>8, <1>9, SeqEqual
<1>11. Len(f) = Len(g)
  BY <1>4, <1>10
<1>12. \A i \in 1..Len(f) : f[i] = g[i]
  <2> TAKE i \in 1..Len(f)
  <2> DEFINE n == Len(D) + 1 + i
  <2>1. n \in 1..Len(v) /\ n \in 1..Len(w) /\ i \in 1..Len(g)
    BY <1>1, <1>2, <1>8, <1>11
  <2>2. v[n] = f[i]
    BY <1>1
  <2>3. w[n] = g[i]
    BY <2>1, <1>2, <1>8
  <2> HIDE DEF n
  <2> QED BY <2>1, <2>2, <2>3, <1>3
<1> QED BY <1>1, <1>2, <1>11, <1>12, SeqEqual

(* What begins with a longer sequence begins with a shorter one of it.      *)
LEMMA BeginsTransitive ==
  ASSUME NEW p \in Seq(Bytes), NEW q \in Seq(Bytes), NEW r \in Seq(Bytes), Begins(p, q), Begins(q, r)
  PROVE  Begins(p, r)
BY DEF Begins

(* Of two beginnings of one sequence the shorter begins the longer.         *)
LEMMA BeginsBetween ==
  ASSUME NEW p \in Seq(Bytes), NEW q \in Seq(Bytes), NEW r \in Seq(Bytes), Begins(p, r), Begins(q, r),
         Len(p) <= Len(q)
  PROVE  Begins(p, q)
<1>1. ASSUME NEW i \in 1..Len(p) PROVE p[i] = q[i]
  <2>1. i \in 1..Len(q)
    OBVIOUS
  <2> QED BY <2>1 DEF Begins
<1> QED BY <1>1 DEF Begins

(* A longer sequence still begins with what a shorter one began with.       *)
LEMMA BeginsAppend ==
  ASSUME NEW S, NEW a \in Seq(S), NEW b \in Seq(S), NEW x \in S, Begins(a, b)
  PROVE  Begins(a, Append(b, x))
<1>1. Len(Append(b, x)) = Len(b) + 1 /\ \A i \in 1..Len(b) : Append(b, x)[i] = b[i]
  OBVIOUS
<1> QED BY <1>1 DEF Begins

(* What stands in a sequence stands in every one that it begins.            *)
LEMMA StandsOn ==
  ASSUME NEW q \in Seq(Bytes), NEW r \in Seq(Bytes), NEW w \in Seq(Bytes), NEW k \in Nat,
         StandsAt(q, k, w), Begins(q, r)
  PROVE  StandsAt(r, k, w)
<1>1. ASSUME NEW j \in 1..Len(w) PROVE r[k + j] = w[j]
  <2>1. k + j \in 1..Len(q)
    BY DEF StandsAt
  <2> QED BY <2>1 DEF StandsAt, Begins
<1> QED BY <1>1 DEF StandsAt, Begins

(* Pushing a field frames it after what is there.                           *)
LEMMA PushFrames ==
  ASSUME NEW q, NEW fs, NEW es, Framed(q, fs, es), NEW f \in Field,
         NEW r, r = q \o Frame(f)
  PROVE  /\ Framed(r, Append(fs, f), Append(es, Len(r)))
         /\ Begins(q, r) /\ StandsAt(r, Len(q), Frame(f)) /\ Len(r) = Len(q) + Len(Frame(f))
         /\ Len(Frame(f)) > 0
<1> DEFINE w == Frame(f)
           gs == Append(fs, f)
           ds == Append(es, Len(r))
<1>1. w \in Seq(Bytes) /\ Len(w) > 0
  <2>1. Len(w) = Len(Decimal(Len(f))) + Len(f) + 2
    BY FrameShape
  <2>2. Decimal(Len(f)) \in Seq(Digits) /\ f \in Seq(Byte) /\ w \in Seq(Bytes)
    BY FrameShape
  <2> QED BY <2>1, <2>2
<1>2. q \in Seq(Bytes) /\ fs \in Seq(Field) /\ es \in Seq(Nat) /\ Len(es) = Len(fs)
  BY DEF Framed
<1> HIDE DEF w
<1>3. r = q \o w
  BY DEF w
<1>4. /\ r \in Seq(Bytes) /\ Len(r) = Len(q) + Len(w) /\ Len(r) \in Nat
      /\ \A i \in 1..Len(q) : r[i] = q[i]
      /\ \A i \in 1..Len(w) : r[Len(q) + i] = w[i]
  BY <1>1, <1>2, <1>3
<1>5. Begins(q, r) /\ StandsAt(r, Len(q), w)
  BY <1>1, <1>2, <1>4 DEF Begins, StandsAt
<1>6. /\ gs \in Seq(Field) /\ Len(gs) = Len(fs) + 1
      /\ \A i \in 1..Len(fs) : gs[i] = fs[i]
      /\ gs[Len(fs) + 1] = f
  BY <1>2
<1>7. /\ ds \in Seq(Nat) /\ Len(ds) = Len(es) + 1
      /\ \A i \in 1..Len(es) : ds[i] = es[i]
      /\ ds[Len(es) + 1] = Len(r)
  BY <1>2, <1>4
<1> HIDE DEF gs, ds
<1>8. \A i \in 0..Len(fs) : EndOf(ds, i) = EndOf(es, i)
  BY <1>2, <1>7 DEF EndOf
<1>9. EndOf(ds, Len(gs)) = Len(r)
  BY <1>2, <1>6, <1>7 DEF EndOf
<1>10. \A i \in 1..Len(gs) : /\ StandsAt(r, EndOf(ds, i - 1), Frame(gs[i]))
                             /\ EndOf(ds, i) = EndOf(ds, i - 1) + Len(Frame(gs[i]))
  <2> TAKE i \in 1..Len(gs)
  <2>1. CASE i \in 1..Len(fs)
    <3>1. i - 1 \in 0..Len(fs) /\ i \in 0..Len(fs)
      BY <1>2, <2>1
    <3>2. /\ StandsAt(q, EndOf(es, i - 1), Frame(fs[i]))
          /\ EndOf(es, i) = EndOf(es, i - 1) + Len(Frame(fs[i]))
      BY <2>1 DEF Framed
    <3>3. Frame(gs[i]) = Frame(fs[i])
      BY <1>6, <2>1
    <3>4. fs[i] \in Field
      BY <1>2, <2>1
    <3>5. Frame(fs[i]) \in Seq(Bytes)
      BY <3>4, FrameShape
    <3>6. EndOf(es, i - 1) \in Nat
      BY <1>2, <3>1 DEF EndOf
    <3>7. StandsAt(r, EndOf(es, i - 1), Frame(fs[i]))
      BY <1>2, <1>4, <1>5, <3>2, <3>5, <3>6, StandsOn
    <3> QED BY <1>8, <3>1, <3>2, <3>3, <3>7
  <2>2. CASE i = Len(fs) + 1
    <3>1. EndOf(ds, i - 1) = Len(q)
      <4>1. i - 1 = Len(fs) /\ Len(fs) \in 0..Len(fs)
        BY <1>2, <2>2
      <4> QED BY <1>8, <4>1 DEF Framed
    <3>2. Frame(gs[i]) = w
      BY <1>6, <2>2 DEF w
    <3>3. EndOf(ds, i) = Len(r)
      BY <1>6, <1>9, <2>2
    <3> QED BY <1>4, <1>5, <3>1, <3>2, <3>3
  <2> QED BY <1>2, <1>6, <2>1, <2>2
<1>11. Framed(r, gs, ds)
  BY <1>2, <1>4, <1>6, <1>7, <1>9, <1>10 DEF Framed
<1> QED BY <1>1, <1>4, <1>5, <1>11 DEF w, gs, ds

(* A statement whose bytes begin another's, and are fewer, has fewer        *)
(* fields; the other's next field is framed where the first ends.           *)
LEMMA NextField ==
  ASSUME NEW q, NEW fs, NEW es, Framed(q, fs, es), NEW r, NEW gs, NEW ds, Framed(r, gs, ds),
         Begins(fs, gs), Begins(es, ds), Len(q) < Len(r)
  PROVE  /\ Len(fs) + 1 \in 1..Len(gs) /\ gs[Len(fs) + 1] \in Field
         /\ StandsAt(r, Len(q), Frame(gs[Len(fs) + 1]))
         /\ EndOf(ds, Len(fs) + 1) = Len(q) + Len(Frame(gs[Len(fs) + 1]))
<1>1. /\ q \in Seq(Bytes) /\ fs \in Seq(Field) /\ es \in Seq(Nat) /\ Len(es) = Len(fs)
      /\ r \in Seq(Bytes) /\ gs \in Seq(Field) /\ ds \in Seq(Nat) /\ Len(ds) = Len(gs)
      /\ Len(q) = EndOf(es, Len(fs)) /\ Len(r) = EndOf(ds, Len(gs))
  BY DEF Framed
<1>2. EndOf(ds, Len(fs)) = Len(q)
  BY <1>1 DEF Begins, EndOf
<1>3. Len(fs) < Len(gs)
  BY <1>1, <1>2 DEF Begins
<1>4. Len(fs) + 1 \in 1..Len(gs) /\ (Len(fs) + 1) - 1 = Len(fs)
  BY <1>1, <1>3
<1>5. /\ StandsAt(r, EndOf(ds, (Len(fs) + 1) - 1), Frame(gs[Len(fs) + 1]))
      /\ EndOf(ds, Len(fs) + 1) = EndOf(ds, (Len(fs) + 1) - 1) + Len(Frame(gs[Len(fs) + 1]))
  BY <1>4 DEF Framed
<1> QED BY <1>1, <1>2, <1>4, <1>5

(* A field pushed to a statement keeps it nested in another.                *)
LEMMA PushInner ==
  ASSUME NEW q, NEW fs, NEW es, Framed(q, fs, es), NEW r, NEW gs, NEW ds, Framed(r, gs, ds),
         Nested(q, fs, es, r, gs, ds), NEW f \in Field, NEW p, p = q \o Frame(f)
  PROVE  Nested(p, Append(fs, f), Append(es, Len(p)), r, gs, ds)
<1> SUFFICES ASSUME Begins(p, r)
             PROVE  Begins(Append(fs, f), gs) /\ Begins(Append(es, Len(p)), ds)
  BY DEF Nested
<1>1. /\ q \in Seq(Bytes) /\ fs \in Seq(Field) /\ es \in Seq(Nat) /\ Len(es) = Len(fs)
      /\ r \in Seq(Bytes) /\ gs \in Seq(Field) /\ ds \in Seq(Nat) /\ Len(ds) = Len(gs)
  BY DEF Framed
<1>2. /\ Framed(p, Append(fs, f), Append(es, Len(p))) /\ Begins(q, p)
      /\ StandsAt(p, Len(q), Frame(f)) /\ Len(p) = Len(q) + Len(Frame(f)) /\ Len(Frame(f)) > 0
  BY PushFrames
<1>3. p \in Seq(Bytes) /\ Frame(f) \in Seq(Bytes)
  BY <1>2, FrameShape DEF Framed
<1>4. Begins(q, r)
  BY <1>1, <1>2, <1>3, BeginsTransitive
<1>5. Begins(fs, gs) /\ Begins(es, ds)
  BY <1>4 DEF Nested
<1>6. Len(q) < Len(r)
  BY <1>1, <1>2, <1>3 DEF Begins
<1> DEFINE n == Len(fs) + 1
<1>7. /\ n \in 1..Len(gs) /\ gs[n] \in Field
      /\ StandsAt(r, Len(q), Frame(gs[n]))
      /\ EndOf(ds, n) = Len(q) + Len(Frame(gs[n]))
  BY <1>5, <1>6, NextField
<1>a. Len(q) \in Nat
  BY <1>1
<1>8. StandsAt(r, Len(q), Frame(f))
  BY <1>a, <1>1, <1>2, <1>3, StandsOn
<1>9. f = gs[n]
  BY <1>a, <1>1, <1>7, <1>8, FramesApart
<1>10. ds[n] = Len(p)
  BY <1>1, <1>2, <1>7, <1>9 DEF EndOf
<1>11. Begins(Append(fs, f), gs)
  BY <1>1, <1>5, <1>7, <1>9 DEF Begins
<1>12. Begins(Append(es, Len(p)), ds)
  BY <1>1, <1>3, <1>5, <1>7, <1>10 DEF Begins
<1> QED BY <1>11, <1>12

(* A field pushed to a statement keeps another nested in it.                *)
LEMMA PushOuter ==
  ASSUME NEW q, NEW fs, NEW es, Framed(q, fs, es), NEW r, NEW gs, NEW ds, Framed(r, gs, ds),
         Nested(q, fs, es, r, gs, ds), Nested(r, gs, ds, q, fs, es),
         NEW f \in Field, NEW p, p = q \o Frame(f)
  PROVE  Nested(r, gs, ds, p, Append(fs, f), Append(es, Len(p)))
<1> SUFFICES ASSUME Begins(r, p)
             PROVE  Begins(gs, Append(fs, f)) /\ Begins(ds, Append(es, Len(p)))
  BY DEF Nested
<1>1. /\ q \in Seq(Bytes) /\ fs \in Seq(Field) /\ es \in Seq(Nat) /\ Len(es) = Len(fs)
      /\ r \in Seq(Bytes) /\ gs \in Seq(Field) /\ ds \in Seq(Nat) /\ Len(ds) = Len(gs)
  BY DEF Framed
<1>2. /\ Framed(p, Append(fs, f), Append(es, Len(p))) /\ Begins(q, p)
      /\ StandsAt(p, Len(q), Frame(f)) /\ Len(p) = Len(q) + Len(Frame(f)) /\ Len(Frame(f)) > 0
  BY PushFrames
<1>3. p \in Seq(Bytes) /\ Frame(f) \in Seq(Bytes)
  BY <1>2, FrameShape DEF Framed
<1>4. CASE Len(r) <= Len(q)
  <2>1. Begins(r, q)
    BY <1>1, <1>2, <1>3, <1>4 DEF Begins
  <2>2. Begins(gs, fs) /\ Begins(ds, es)
    BY <2>1 DEF Nested
  <2> QED BY <1>1, <1>3, <2>2, BeginsAppend
<1>5. CASE Len(q) < Len(r)
  <2>a. Len(q) \in Nat /\ Len(q) <= Len(r)
    BY <1>1, <1>5
  <2>1. Begins(q, r)
    BY <2>a, <1>1, <1>2, <1>3, BeginsBetween
  <2>2. Begins(fs, gs) /\ Begins(es, ds)
    BY <2>1 DEF Nested
  <2> DEFINE n == Len(fs) + 1
  <2>3. /\ n \in 1..Len(gs) /\ gs[n] \in Field
        /\ StandsAt(r, Len(q), Frame(gs[n]))
        /\ EndOf(ds, n) = Len(q) + Len(Frame(gs[n]))
    BY <1>5, <2>2, NextField
  <2>4. Frame(gs[n]) \in Seq(Bytes)
    BY <2>3, FrameShape
  <2>5. StandsAt(p, Len(q), Frame(gs[n]))
    BY <2>a, <1>1, <1>3, <2>3, <2>4, StandsOn
  <2>6. f = gs[n]
    BY <2>a, <1>2, <1>3, <2>3, <2>5, FramesApart
  <2>7. ds[n] = Len(p) /\ EndOf(ds, n) = Len(p)
    BY <1>1, <1>2, <2>3, <2>6 DEF EndOf
  <2>8. Len(gs) = n
    <3> SUFFICES ASSUME n < Len(gs) PROVE FALSE
      BY <1>1, <2>3
    <3>1. n + 1 \in 1..Len(gs) /\ (n + 1) - 1 = n
      BY <1>1
    <3>2. StandsAt(r, EndOf(ds, (n + 1) - 1), Frame(gs[n + 1]))
      BY <3>1 DEF Framed
    <3>3. gs[n + 1] \in Field
      BY <1>1, <3>1
    <3>4. Len(Frame(gs[n + 1])) > 0 /\ Len(Frame(gs[n + 1])) \in Nat
      BY <3>3, FrameShape, PushFrames
    <3>5. Len(r) <= Len(p)
      BY DEF Begins
    <3> QED BY <1>1, <1>3, <2>7, <3>1, <3>2, <3>4, <3>5 DEF StandsAt
  <2>9. Begins(gs, Append(fs, f))
    BY <1>1, <2>2, <2>6, <2>8 DEF Begins
  <2>10. Begins(ds, Append(es, Len(p)))
    BY <1>1, <1>3, <2>2, <2>7, <2>8 DEF Begins
  <2> QED BY <2>9, <2>10
<1> QED BY <1>1, <1>4, <1>5

(* Nothing is written yet.                                                  *)
LEMMA EncodingInitInv == EncodingInit => EncodingInv
<1> SUFFICES ASSUME EncodingInit PROVE EncodingInv
  OBVIOUS
<1>1. \A b \in Buffer : encoded[b] = <<>> /\ pushed[b] = <<>> /\ ends[b] = <<>>
  BY DEF EncodingInit
<1>2. Framed(<<>>, <<>>, <<>>)
  BY DEF Framed, EndOf
<1>3. Nested(<<>>, <<>>, <<>>, <<>>, <<>>, <<>>)
  BY DEF Nested, Begins
<1> QED BY <1>1, <1>2, <1>3 DEF EncodingInit, EncodingInv

(* lp_push keeps the invariant.                                             *)
LEMMA EncodingNextInv == EncodingInv /\ [EncodingNext]_encodingVars => EncodingInv'
<1> SUFFICES ASSUME EncodingInv, [EncodingNext]_encodingVars PROVE EncodingInv'
  OBVIOUS
<1>1. ASSUME NEW b \in Buffer, NEW f \in Field, Push(b, f) PROVE EncodingInv'
  <2> DEFINE p == encoded[b] \o Frame(f)
             fs == Append(pushed[b], f)
             es == Append(ends[b], Len(p))
  <2>1. /\ encoded' = [a \in Buffer |-> IF a = b THEN p ELSE encoded[a]]
        /\ pushed' = [a \in Buffer |-> IF a = b THEN fs ELSE pushed[a]]
        /\ ends' = [a \in Buffer |-> IF a = b THEN es ELSE ends[a]]
    BY <1>1 DEF Push, LpPush, EncodingInv
  <2>2. Framed(encoded[b], pushed[b], ends[b])
    BY DEF EncodingInv
  <2>3. Framed(p, fs, es)
    BY <2>2, PushFrames
  <2>4. Nested(p, fs, es, p, fs, es)
    <3>1. fs \in Seq(Field) /\ es \in Seq(Nat)
      BY <2>3 DEF Framed
    <3> QED BY <3>1 DEF Nested, Begins
  <2>5. ASSUME NEW a \in Buffer
        PROVE  /\ Framed(encoded[a], pushed[a], ends[a])
               /\ Nested(p, fs, es, encoded[a], pushed[a], ends[a])
               /\ Nested(encoded[a], pushed[a], ends[a], p, fs, es)
    <3>1. /\ Framed(encoded[a], pushed[a], ends[a])
          /\ Nested(encoded[b], pushed[b], ends[b], encoded[a], pushed[a], ends[a])
          /\ Nested(encoded[a], pushed[a], ends[a], encoded[b], pushed[b], ends[b])
      BY DEF EncodingInv
    <3> QED BY <2>2, <3>1, PushInner, PushOuter
  <2> HIDE DEF p, fs, es
  <2>6. \A a \in Buffer : Framed(encoded'[a], pushed'[a], ends'[a])
    BY <2>1, <2>3, <2>5
  <2>7. ASSUME NEW a \in Buffer, NEW c \in Buffer
        PROVE  Nested(encoded'[a], pushed'[a], ends'[a], encoded'[c], pushed'[c], ends'[c])
    <3>1. Nested(encoded[a], pushed[a], ends[a], encoded[c], pushed[c], ends[c])
      BY DEF EncodingInv
    <3> QED BY <2>1, <2>4, <2>5, <3>1
  <2> QED BY <2>1, <2>6, <2>7 DEF EncodingInv
<1>2. CASE UNCHANGED encodingVars
  BY <1>2 DEF EncodingInv, encodingVars
<1> QED BY <1>1, <1>2 DEF EncodingNext

(* For any number of statements, of fields and of bytes in a field: two     *)
(* statements with the same canonical bytes have the same fields, though    *)
(* their fields hold digits, colons and newlines (lp_push).                 *)
THEOREM CanonicalDetermines == EncodingSpec => []Injective
<1>1. EncodingInv => Injective
  <2> SUFFICES ASSUME EncodingInv, NEW a \in Buffer, NEW b \in Buffer, encoded[a] = encoded[b]
               PROVE  pushed[a] = pushed[b]
    BY DEF Injective
  <2>1. pushed[a] \in Seq(Field) /\ pushed[b] \in Seq(Field) /\ encoded[a] \in Seq(Bytes)
    BY DEF EncodingInv, Framed
  <2>2. Begins(encoded[a], encoded[b]) /\ Begins(encoded[b], encoded[a])
    BY <2>1 DEF Begins
  <2>3. Begins(pushed[a], pushed[b]) /\ Begins(pushed[b], pushed[a])
    BY <2>2 DEF EncodingInv, Nested
  <2>4. Len(pushed[a]) = Len(pushed[b]) /\ \A i \in 1..Len(pushed[a]) : pushed[a][i] = pushed[b][i]
    BY <2>1, <2>3 DEF Begins
  <2> QED BY <2>1, <2>4, SeqEqual
<1> QED BY <1>1, EncodingInitInv, EncodingNextInv, PTL DEF EncodingSpec
=============================================================================
