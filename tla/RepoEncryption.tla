--------------------------- MODULE RepoEncryption ---------------------------
(***************************************************************************)
(* Which key of a certificate gitcellar-crypto's EncryptionEngine uses     *)
(* (gitcellar-crypto/src/encryption.rs): the recipients of encrypt_data,   *)
(* the keys decrypt_data tries, the subkey K_repo is derived from and the  *)
(* one sign_data signs with.  The owner adds and revokes subkeys; subkeys  *)
(* expire; the holders build engines on the copies they have, which may be *)
(* old and whose subkeys may come in any order.                            *)
(*                                                                         *)
(* A key pair and its secret scalar are the subkey; HKDF and HMAC are free *)
(* constructors.                                                           *)
(***************************************************************************)
EXTENDS Naturals, Sequences, FiniteSets, SequencesExt

CONSTANTS
    Holder,    \* engines, each on its own copy of the certificate
    EncKey,    \* transport-encryption subkeys
    SignKey,   \* signing subkeys
    Locked,    \* subkeys whose secret part is password-encrypted
    Uid,       \* repository ids
    NoKey,     \* no key
    MaxMsgs,   \* bound: messages made, and chunks sealed
    MaxSigs    \* bound: signatures made

ASSUME EncryptionAssumption ==
    /\ Locked \subseteq EncKey \cup SignKey
    /\ NoKey \notin EncKey \cup SignKey
    /\ MaxMsgs \in Nat /\ MaxSigs \in Nat

VARIABLES
    cert,     \* the owner's certificate: [keys, revoked], both sets
    expired,  \* the subkeys whose time is up, for everybody
    copy,     \* per holder: the order of its subkeys and their revocations
    msgs,     \* what encrypt_data made: the sets of recipients
    chunks,   \* what was sealed: its root, object prefix, naming keys and repository
    sigs      \* what sign_data made: the key, and the certificate it was on

engineVars == <<cert, expired, copy, msgs, chunks, sigs>>

Subkey == EncKey \cup SignKey

\* Every certificate is generated with one subkey of each kind.
EngineInit ==
    /\ \E e \in EncKey, s \in SignKey : cert = [keys |-> {e, s}, revoked |-> {}]
    /\ expired = {}
    /\ copy = [h \in Holder |-> [order |-> <<>>, revoked |-> {}]]
    /\ msgs = {}
    /\ chunks = {}
    /\ sigs = {}

Held(h) == ToSet(copy[h].order)

\* with_policy, supported, alive, revoked(false).
Usable(h, k) == k \notin expired /\ k \notin copy[h].revoked

\* Where the subkeys of a kind stand in the order a holder's copy yields them.
Yield(h, Kind) == {i \in DOMAIN copy[h].order : copy[h].order[i] \in Kind}

-----------------------------------------------------------------------------
\* The owner's side, and time (external to this crate).
AddSubkey(k) ==
    /\ k \notin cert.keys
    /\ cert' = [cert EXCEPT !.keys = @ \cup {k}]
    /\ UNCHANGED <<expired, copy, msgs, chunks, sigs>>

RevokeSubkey(k) ==
    /\ k \in cert.keys \ cert.revoked
    /\ cert' = [cert EXCEPT !.revoked = @ \cup {k}]
    /\ UNCHANGED <<expired, copy, msgs, chunks, sigs>>

Expire(k) ==
    /\ k \in cert.keys \ expired
    /\ expired' = expired \cup {k}
    /\ UNCHANGED <<cert, copy, msgs, chunks, sigs>>

\* from_cert: an engine on the certificate as it is now.  No key is checked
\* for; what is missing shows when it is needed.
FromCert(h, order) ==
    /\ ToSet(order) = cert.keys /\ Len(order) = Cardinality(cert.keys)
    /\ copy' = [copy EXCEPT ![h] = [order |-> order, revoked |-> cert.revoked]]
    /\ UNCHANGED <<cert, expired, msgs, chunks, sigs>>

\* encrypt_data's recipients.
Recipients(h) == {k \in Held(h) \cap EncKey : Usable(h, k)}

EncryptData(h) ==
    /\ Cardinality(msgs) < MaxMsgs
    /\ Recipients(h) # {}
    /\ msgs' = msgs \cup {Recipients(h)}
    /\ UNCHANGED <<cert, expired, copy, chunks, sigs>>

\* Mutant of Tried: revoked and expired subkeys are passed over.
TriedUsable(h) == {i \in Yield(h, EncKey) : Usable(h, copy[h].order[i])}

\* The keys the decryption helper tries, revoked and expired ones too.
Tried(h) == Yield(h, EncKey)

\* decrypt_data: for each of the message's session key packets, one for every
\* recipient, the helper tries the subkeys in turn; the first that opens one
\* opens the message.  A locked subkey met before that ends the attempt, and
\* so does a signature layer.
DecryptData(h, pkesks, signed) ==
    /\ ~ signed
    /\ \E n \in DOMAIN pkesks, i \in Tried(h) :
         /\ copy[h].order[i] = pkesks[n]
         /\ \A j \in Tried(h) : (n > 1 \/ j <= i) => copy[h].order[j] \notin Locked

\* The live, unrevoked subkeys of a kind, as derive_k_repo and sign_data
\* collect them.
Candidates(h, Kind) == {i \in Yield(h, Kind) : Usable(h, copy[h].order[i])}

\* Mutant of TheKey: the first subkey the copy yields.
FirstKey(h, Kind) ==
    LET is == Candidates(h, Kind)
        first == CHOOSE i \in is : \A j \in is : i <= j
    IN  IF is # {} /\ copy[h].order[first] \notin Locked THEN copy[h].order[first] ELSE NoKey

\* The one of them: two are refused as ambiguous, none and a locked secret are
\* errors.
TheKey(h, Kind) ==
    IF \E i \in Candidates(h, Kind) :
          Candidates(h, Kind) = {i} /\ copy[h].order[i] \notin Locked
    THEN copy[h].order[CHOOSE i \in Candidates(h, Kind) : TRUE]
    ELSE NoKey

\* derive_k_repo, from the secret scalar of that subkey.
K_REPO_INFO == "gitcellar/krepo/v2"
DeriveKRepo(h) ==
    IF TheKey(h, EncKey) = NoKey THEN NoKey ELSE <<K_REPO_INFO, TheKey(h, EncKey)>>

\* derive_e1_key, and the sub-keys built with it.
DeriveE1Key(root, info) == <<info, root>>
ChunkKeying(h) ==
    [name |-> DeriveE1Key(DeriveKRepo(h), "gitcellar/chunk-name/v1"),
     boundary |-> DeriveE1Key(DeriveKRepo(h), "gitcellar/cdc-boundary/v1")]

\* derive_object_key_prefix and object_key_prefix_hex.
ObjectKeyPrefix(h, uid) ==
    <<DeriveE1Key(DeriveKRepo(h), "gitcellar/object-key-prefix/v1"), uid>>

\* A chunk named, sealed and put under its prefix: everything it depends on.
SealChunk(h, uid) ==
    /\ Cardinality(chunks) < MaxMsgs
    /\ DeriveKRepo(h) # NoKey
    /\ chunks' = chunks \cup {[root |-> DeriveKRepo(h), prefix |-> ObjectKeyPrefix(h, uid),
                               keying |-> ChunkKeying(h), uid |-> uid]}
    /\ UNCHANGED <<cert, expired, copy, msgs, sigs>>

\* sign_data.
SignData(h) ==
    /\ Cardinality(sigs) < MaxSigs
    /\ TheKey(h, SignKey) # NoKey
    /\ sigs' = sigs \cup {[key |-> TheKey(h, SignKey), keys |-> Held(h),
                           revoked |-> copy[h].revoked, expired |-> expired]}
    /\ UNCHANGED <<cert, expired, copy, msgs, chunks>>

EngineNext ==
    \/ \E k \in Subkey : AddSubkey(k) \/ RevokeSubkey(k) \/ Expire(k)
    \/ \E h \in Holder, order \in SetToSeqs(cert.keys) : FromCert(h, order)
    \/ \E h \in Holder : EncryptData(h) \/ SignData(h) \/ \E uid \in Uid : SealChunk(h, uid)

EngineSpec == EngineInit /\ [][EngineNext]_engineVars

-----------------------------------------------------------------------------
EngineTypeOK ==
    /\ cert.keys \subseteq Subkey /\ cert.revoked \subseteq cert.keys
    /\ expired \subseteq cert.keys
    /\ \A h \in Holder : /\ Held(h) \subseteq cert.keys
                         /\ copy[h].revoked \subseteq cert.revoked \cap Held(h)
    /\ \A m \in msgs : m # {} /\ m \subseteq EncKey

SameCopy(g, h) == Held(g) = Held(h) /\ copy[g].revoked = copy[h].revoked

\* Holders of the same certificate, in whatever order they have it, derive the
\* same root and so the same names and prefixes, or none of them does
\* (derive_k_repo refuses ambiguity).
HoldersAgree == \A g, h \in Holder : SameCopy(g, h) => DeriveKRepo(g) = DeriveKRepo(h)

\* The subkey K_repo comes from is one encrypt_data would encrypt to: the two
\* agree about which subkeys are in force.
RootIsRecipient ==
    \A h \in Holder : TheKey(h, EncKey) # NoKey => Recipients(h) = {TheKey(h, EncKey)}

\* A message made for the certificate can be read by every holder of a copy
\* that has one of its recipients, however many subkeys were revoked or
\* expired since and in whatever order packets and subkeys come, unless a
\* locked encryption subkey is in the way (decrypt_data).
MessagesStayReadable ==
    \A m \in msgs, h \in Holder : \A pkesks \in SetToSeqs(m) :
        (ToSet(pkesks) \cap Held(h) # {} /\ Held(h) \cap EncKey \cap Locked = {}) =>
            DecryptData(h, pkesks, FALSE)

\* sign_data never signs with a subkey its own copy calls revoked, nor with an
\* expired one, nor with one of several: every verifier with that copy
\* accepts, and all signers of that copy sign with one key.
SignaturesUnambiguous ==
    \A s, t \in sigs :
        /\ s.key \notin s.revoked \cup s.expired
        /\ (s.keys = t.keys /\ s.revoked = t.revoked /\ s.expired = t.expired) => s.key = t.key

\* Only one subkey is ever in force: holders of the same certificate, in
\* whatever order they have it, derive the same root or none, from the subkey
\* they encrypt to, and sign with the one key their copy has neither revoked
\* nor expired (encryption.rs derive_k_repo, encrypt_data, sign_data).
OneKeyInForce == HoldersAgree /\ RootIsRecipient /\ SignaturesUnambiguous

\* "Deterministic for a given cert -> encrypt and decrypt derive the same key;
\* the chunk round-trips" (the comment on derive_k_repo), also when the
\* encryption subkey has been rotated, which its ambiguity guard is written to
\* allow: whoever can derive a root opens what the certificate's holders sealed.
ChunksRoundTrip ==
    \A c \in chunks, h \in Holder : DeriveKRepo(h) # NoKey => DeriveKRepo(h) = c.root
=============================================================================
