---------------------------- MODULE RepoKeyGrant ----------------------------
(***************************************************************************)
(* Signed repository-key grants (gitcellar-crypto/src/grant_signing.rs).   *)
(* A granter signs a bundle for one repository, key version and recipient, *)
(* with an owner's delegation attached or not.  Bundles travel through an  *)
(* untrusted relay: a recipient may be served any bundle, for a repository *)
(* and a key version of the relay's choosing, with a field changed, with   *)
(* the delegation stripped or swapped, or an unsigned payload of the time  *)
(* before signatures.  What verify_grant_bundle lets through is imported   *)
(* and pinned.                                                             *)
(*                                                                         *)
(* A party's identity key is the party; a signature is its key and the     *)
(* canonical tuple it covers (CanonicalEncoding shows that the encoding    *)
(* loses nothing of the tuple).                                            *)
(***************************************************************************)
EXTENDS Integers, FiniteSets

CONSTANTS
    Party,       \* identity keys (granters and recipients)
    Repo,        \* repo_uids
    RepoKey,     \* repository keys
    Delegation,  \* owner-signed delegations
    NoDelegation,
    NoKey,       \* no key, no signature
    MaxVersion,  \* bound: key versions are 1 .. MaxVersion
    MaxGrants    \* bound: grants signed

ASSUME GrantAssumption ==
    /\ NoDelegation \notin Delegation /\ NoKey \notin RepoKey
    /\ MaxVersion \in Nat /\ MaxGrants \in Nat

VARIABLES
    granted,  \* history: the grants that were made
    bundles,  \* the bundles made, as the relay holds them
    keyring,  \* per recipient, repository and version: the imported repo key
    authority \* and the delegation its import was authorized with

grantVars == <<granted, bundles, keyring, authority>>

Version == 1 .. MaxVersion
Slot == Party \X Repo \X Version

GRANT_CANONICAL_VERSION == "gc-grant-v2"
DELEGATED_GRANT_CANONICAL_VERSION == "gc-grant-delegated-v2"

\* The signed tuple, RepoKeyGrant.
Grant == [repo_uid : Repo, key_version : Version, recipient : Party,
          granter : Party, key_material : RepoKey]

\* RepoKeyGrant::canonical.
Canonical(g) == <<GRANT_CANONICAL_VERSION, g>>

\* Mutant of CanonicalWithDelegation: the delegation rides along unsigned.
CanonicalDetached(g, del) == Canonical(g)

\* canonical_with_delegation: its own tag, and the delegation inside.
CanonicalWithDelegation(g, del) ==
    IF del = NoDelegation THEN Canonical(g)
    ELSE <<DELEGATED_GRANT_CANONICAL_VERSION, g, del>>

GrantInit ==
    /\ granted = {}
    /\ bundles = {}
    /\ keyring = [s \in Slot |-> NoKey]
    /\ authority = [s \in Slot |-> NoDelegation]

\* build_signed_repo_grant_bundle, with or without a delegation.  The bundle
\* names neither the version nor the recipient: they are only in the signature.
Bundle(g, del) ==
    [v |-> GRANT_CANONICAL_VERSION, repo_uid |-> g.repo_uid,
     key_material |-> g.key_material, granter |-> g.granter,
     key |-> g.granter, over |-> CanonicalWithDelegation(g, del), delegation |-> del]

MakeGrant(g, del) ==
    /\ Cardinality(granted) < MaxGrants
    /\ granted' = granted \cup {[grant |-> g, delegation |-> del]}
    /\ bundles' = bundles \cup {Bundle(g, del)}
    /\ UNCHANGED <<keyring, authority>>

\* GrantBundle::to_grant: the bundle's own repository, the version the relay
\* names and the recipient's own identity.
ToGrant(b, version, me) ==
    [repo_uid |-> b.repo_uid, key_version |-> version, recipient |-> me,
     granter |-> b.granter, key_material |-> b.key_material]

\* GrantBundle::from_json refuses another version and a bare key.
FromJson(b) == b.v = GRANT_CANONICAL_VERSION

\* verify_signed_bytes: an absent signature never verifies.
SignatureOk(b, cert, canonical) == b.key = cert /\ b.over = canonical

\* verify_grant_bundle: the served certificate is the granter's, the repository
\* is the one meant, and the signature covers exactly this tuple.  "served" is
\* granter_cert_armored and granter_served_fingerprint in one: the code compares
\* the bundle with the one and verifies under the other, and leaves it to its
\* caller that the two are of one certificate.
VerifyGrantBundle(b, served, uid, version, me) ==
    /\ b.granter = served
    /\ b.repo_uid = uid
    /\ SignatureOk(b, served, CanonicalWithDelegation(ToGrant(b, version, me), b.delegation))

\* A recipient imports a bundle it decrypted, for a repository and a version;
\* the first key of a slot stays pinned.
Import(me, b, served, uid, version) ==
    LET slot == <<me, uid, version>>
    IN  /\ FromJson(b)
        /\ VerifyGrantBundle(b, served, uid, version, me)
        /\ keyring[slot] \in {NoKey, b.key_material}
        /\ keyring' = [keyring EXCEPT ![slot] = b.key_material]
        /\ authority' = [authority EXCEPT ![slot] = b.delegation]
        /\ UNCHANGED <<granted, bundles>>

\* What a relay or a fellow recipient may make of a bundle.
Altered(b) ==
    {[b EXCEPT !.repo_uid = u] : u \in Repo}
    \cup {[b EXCEPT !.key_material = k] : k \in RepoKey}
    \cup {[b EXCEPT !.granter = p] : p \in Party}
    \cup {[b EXCEPT !.delegation = d] : d \in Delegation \cup {NoDelegation}}
    \cup {[b EXCEPT !.v = "bare TSK", !.key = NoKey]}

GrantNext ==
    \/ \E g \in Grant, del \in Delegation \cup {NoDelegation} : MakeGrant(g, del)
    \/ \E b \in UNION {Altered(x) : x \in bundles} :
       \E me, served \in Party, uid \in Repo, version \in Version :
         Import(me, b, served, uid, version)

GrantSpec == GrantInit /\ [][GrantNext]_grantVars

-----------------------------------------------------------------------------
TypeOK ==
    /\ \A x \in granted : x.grant \in Grant /\ x.delegation \in Delegation \cup {NoDelegation}
    /\ \A b \in bundles : /\ b.v = GRANT_CANONICAL_VERSION /\ b.repo_uid \in Repo
                          /\ b.key_material \in RepoKey /\ b.granter \in Party
    /\ keyring \in [Slot -> RepoKey \cup {NoKey}]
    /\ authority \in [Slot -> Delegation \cup {NoDelegation}]

\* Every imported key was granted for exactly this repository, version and
\* recipient, under exactly the delegation it was imported with: nothing the
\* relay re-aims, swaps or strips is imported (verify_grant_bundle).
ImportedWasGranted ==
    \A s \in Slot :
        keyring[s] # NoKey =>
            \E x \in granted :
                /\ x.grant.recipient = s[1] /\ x.grant.repo_uid = s[2]
                /\ x.grant.key_version = s[3]
                /\ x.grant.key_material = keyring[s]
                /\ x.delegation = authority[s]
=============================================================================
