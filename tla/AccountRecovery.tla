--------------------------- MODULE AccountRecovery ---------------------------
(***************************************************************************)
(* Getting an identity back: the recovery phrase (recovery/, master.rs),   *)
(* the bundle the cloud keeps (cloud_backup.rs) and the key file           *)
(* (transfer.rs).  Encryption is ideal: a payload opens under the key that *)
(* sealed it.  The server is not trusted: it may serve a bundle put        *)
(* together from the fields of bundles it was given.                       *)
(*                                                                         *)
(* The passkey copy is modelled as cloud_backup.rs has it, with a PRF that *)
(* gives the same output on every machine.  The source marks that path     *)
(* STRUCK and not to be called (cloud_backup.rs, lines 17 to 43 and 166)   *)
(* because no such PRF is to be had today; what is said of it here is of   *)
(* the format, not of a path users have.                                   *)
(***************************************************************************)
EXTENDS Naturals, FiniteSets

CONSTANTS Fingerprints, \* of the identities that exist
          Seeds,        \* one for each phrase the user ever had
          Prfs,         \* outputs of a passkey's PRF
          MaxUploads    \* bundles the user uploads

None == [kind |-> "none"]

(* A phrase as it is typed: the seed it stands for, its number of words,    *)
(* whether word list and checksum hold, and whether case and spacing are    *)
(* as printed.                                                              *)
Typed == [seed : Seeds, words : {12, 24}, valid : BOOLEAN, lower : BOOLEAN, spaced : BOOLEAN]

VARIABLES device,   \* the identity on the user's machine
          draft,    \* the bundle being prepared
          uploaded, \* bundles the server has
          written,  \* what the user sealed: mechanism, material, identity
          got,      \* the last recovery: what came back, from what, with what
          gckey,    \* the user's key file
          master    \* the master derived from the phrase last typed

accountVars == <<device, draft, uploaded, written, got, gckey, master>>

(* Identity: its fingerprint and whether it has secret key material.        *)
Identity(f, secret) == [kind |-> "identity", fp |-> f, secret |-> secret]

(* normalize_phrase of recovery/mod.rs: lower case, single spaces.          *)
NormalizeCodePhrase(p) == [p EXCEPT !.lower = TRUE, !.spaced = TRUE]

(* Mutant of NormalizeMasterPhrase: one of the two copies leaves the case.  *)
SpacesOnly(p) == [p EXCEPT !.spaced = TRUE]

(* normalize_phrase of master.rs, a function of its own that does the same. *)
NormalizeMasterPhrase(p) == [p EXCEPT !.lower = TRUE, !.spaced = TRUE]

(* Mnemonic::parse_in_normalized takes any BIP39 length.                    *)
Parses(p) == p.valid /\ p.lower /\ p.spaced

(* RecoveryCode::from_phrase.                                               *)
IsRecoveryCode(p) == Parses(NormalizeCodePhrase(p)) /\ p.words = 24

(* HKDF of the seed under the tag of one use.                               *)
DerivationInfo(use) == IF use = "recovery" THEN "gitcellar-passkey-recovery-v1" ELSE "gitcellar-master-v1"
Derive(use, seed) == [info |-> DerivationInfo(use), seed |-> seed]

(* RecoveryCode::derive_key_material, MaterializedMaster::from_phrase.      *)
DeriveKeyMaterial(p) == Derive("recovery", p.seed)

MasterFromPhrase(p) ==
  IF Parses(NormalizeMasterPhrase(p)) THEN [kind |-> "master", key |-> Derive("master", p.seed), words |-> p.words]
  ELSE None

(* Domain separation: no output of a passkey's PRF is an HKDF output of a   *)
(* phrase's seed.                                                           *)
ASSUME AccountAssumption ==
  \A prf \in Prfs, use \in {"recovery", "master"}, s \in Seeds : prf # Derive(use, s)

Context(mechanism) == IF mechanism = "code" THEN "gitcellar-cloud-backup-recovery-code-v1"
                                            ELSE "gitcellar-cloud-backup-passkey-v1"

(* encrypt_payload and decrypt_payload: the key is HKDF of the material     *)
(* under a context; the salt travels with the payload.                      *)
EncryptPayload(mechanism, material, identity) ==
  [kind |-> "payload", key |-> <<Context(mechanism), material>>, data |-> identity]
DecryptPayload(payload, mechanism, material) ==
  IF payload.kind = "payload" /\ payload.key = <<Context(mechanism), material>> THEN payload.data ELSE None

(* The machine has an identity of its own, or only somebody's public key    *)
(* (Identity::from_armored_public_key).                                     *)
Obtain(f, secret) ==
  /\ device = None
  /\ device' = Identity(f, secret)
  /\ UNCHANGED <<draft, uploaded, written, got, gckey, master>>

(* CloudBackupBundle::create_with_recovery_code.                            *)
CreateWithRecoveryCode(p) ==
  /\ device # None
  /\ IsRecoveryCode(p)
  /\ draft' = [kind |-> "bundle", fp |-> device.fp, passkey |-> None,
               code |-> EncryptPayload("code", DeriveKeyMaterial(p), device)]
  /\ written' = written \union {<<"code", DeriveKeyMaterial(p), device>>}
  /\ UNCHANGED <<device, uploaded, got, gckey, master>>

(* CloudBackupBundle::add_passkey_encryption.                               *)
AddPasskeyEncryption(prf) ==
  /\ device # None /\ draft # None
  /\ device.fp = draft.fp
  /\ draft' = [draft EXCEPT !.passkey = EncryptPayload("passkey", prf, device)]
  /\ written' = written \union {<<"passkey", prf, device>>}
  /\ UNCHANGED <<device, uploaded, got, gckey, master>>

(* to_json and the upload.                                                  *)
UploadBundle ==
  /\ draft # None
  /\ Cardinality(uploaded \union {draft}) <= MaxUploads
  /\ uploaded' = uploaded \union {draft}
  /\ UNCHANGED <<device, draft, written, got, gckey, master>>

(* A bundle is fetched to add a passkey to it (from_json).                  *)
DownloadBundle(b) ==
  /\ draft' = b
  /\ UNCHANGED <<device, uploaded, written, got, gckey, master>>

(* The machine is lost, and the draft with it.                              *)
LoseMachine ==
  /\ device # None
  /\ device' = None
  /\ draft' = None
  /\ UNCHANGED <<uploaded, written, got, gckey, master>>

(* What from_json may be given: fields of uploaded bundles in any mix.      *)
Served == {[kind |-> "bundle", fp |-> b.fp, code |-> c, passkey |-> k] :
             b \in uploaded,
             c \in {None} \union {x.code : x \in uploaded} \union {x.passkey : x \in uploaded},
             k \in {None} \union {x.code : x \in uploaded} \union {x.passkey : x \in uploaded}}

(* Mutant of Accept: the decrypted identity is not compared with the bundle *)
AcceptUnchecked(identity, b) == identity

(* deserialize_identity and the comparison of fingerprints.                 *)
Accept(identity, b) == IF identity # None /\ identity.fp = b.fp THEN identity ELSE None

(* decrypt_with_recovery_code and decrypt_with_passkey.                     *)
DecryptWithRecoveryCode(b, p) ==
  IF IsRecoveryCode(p) THEN Accept(DecryptPayload(b.code, "code", DeriveKeyMaterial(p)), b) ELSE None
DecryptWithPasskey(b, prf) == Accept(DecryptPayload(b.passkey, "passkey", prf), b)

Recover(b, mechanism, material, result) ==
  /\ device = None
  /\ device' = result
  /\ got' = [kind |-> "recovery", named |-> b.fp, by |-> mechanism, material |-> material, identity |-> result]
  /\ UNCHANGED <<draft, uploaded, written, gckey, master>>

RecoverWithCode(b, p) == Recover(b, "code", DeriveKeyMaterial(p), DecryptWithRecoveryCode(b, p))
RecoverWithPasskey(b, prf) == Recover(b, "passkey", prf, DecryptWithPasskey(b, prf))

(* The master of the account, at onboarding or in a recovery ceremony.      *)
MaterializeMaster(p) ==
  /\ master' = [kind |-> "typed", phrase |-> p, key |-> MasterFromPhrase(p)]
  /\ UNCHANGED <<device, draft, uploaded, written, got, gckey>>

(* IdentityBundle::export; export_secret_key writes what the identity has.  *)
Export ==
  /\ device # None
  /\ gckey' = [kind |-> "gckey", version |-> 3, encrypted |-> FALSE, framed |-> TRUE, key |-> device]
  /\ UNCHANGED <<device, draft, uploaded, written, got, master>>

(* Files of the earlier format, some of them under a password, and files    *)
(* that lost their header or end marker on the way.                         *)
Alter(version, encrypted, framed) ==
  /\ gckey # None
  /\ gckey' = [gckey EXCEPT !.version = version, !.encrypted = encrypted, !.framed = framed]
  /\ UNCHANGED <<device, draft, uploaded, written, got, master>>

(* unwrap_gckey_format, parse_gckey_content: the version shows in the shape *)
(* of the data, a string in the second format and an object in the third.   *)
Importable(file) == file.framed /\ ~file.encrypted /\ file.version \in {2, 3}

Import ==
  /\ device = None /\ gckey # None
  /\ Importable(gckey)
  /\ device' = gckey.key
  /\ UNCHANGED <<draft, uploaded, written, got, gckey, master>>

AccountInit == /\ device = None /\ draft = None /\ uploaded = {} /\ written = {}
               /\ got = None /\ gckey = None /\ master = None

Backup == \/ \E f \in Fingerprints : Obtain(f, TRUE)
          \/ \E p \in Typed : CreateWithRecoveryCode(p)
          \/ \E prf \in Prfs : AddPasskeyEncryption(prf)
          \/ UploadBundle \/ LoseMachine
          \/ \E b \in uploaded : DownloadBundle(b)
          \/ \E b \in Served : \/ \E p \in Typed : RecoverWithCode(b, p)
                               \/ \E prf \in Prfs : RecoverWithPasskey(b, prf)

Transfer == \/ \E f \in Fingerprints, secret \in BOOLEAN : Obtain(f, secret)
            \/ Export \/ Import \/ LoseMachine
            \/ \E v \in {1, 2, 3}, e, fr \in BOOLEAN : Alter(v, e, fr)
            \/ \E p \in Typed : MaterializeMaster(p)

BackupSpec == AccountInit /\ [][Backup]_accountVars
AccountSpec == AccountInit /\ [][Backup \/ Transfer]_accountVars

-----------------------------------------------------------------------------
(* Whatever the server serves: an identity that comes back was sealed by    *)
(* the user for that mechanism and that phrase or passkey, and is the one   *)
(* the bundle names - a payload moved to another bundle, or from one slot   *)
(* to the other, does not open.                                             *)
RecoveredWasSealed ==
  got # None /\ got.identity # None =>
    /\ <<got.by, got.material, got.identity>> \in written
    /\ got.identity.fp = got.named

(* "Each mechanism has its own encrypted copy of the identity, so either    *)
(* can decrypt independently": a bundle as the user uploaded it gives the   *)
(* same identity by code and by passkey.                                    *)
MechanismsAgree ==
  \A b \in uploaded : \A p \in Typed, prf \in Prfs :
    (DecryptWithRecoveryCode(b, p) # None /\ b.passkey # None /\ b.passkey.key[2] = prf)
      => DecryptWithPasskey(b, prf) = DecryptWithRecoveryCode(b, p)

(* A user who backed up and kept the phrase is never locked out by how they *)
(* type it: the 24 words open the bundle in any case and spacing.           *)
PhraseIsEnough ==
  \A b \in uploaded : \E s \in Seeds : \A l, t \in BOOLEAN :
     DecryptWithRecoveryCode(b, [seed |-> s, words |-> 24, valid |-> TRUE, lower |-> l, spaced |-> t]) # None

(* Whatever bundle the server puts together: an identity that comes back    *)
(* was sealed by the user for that mechanism and that phrase or passkey,    *)
(* and is the one the bundle names; and a bundle as the user uploaded it    *)
(* opens to the same identity by passkey and by the phrase, however it is   *)
(* typed (cloud_backup.rs decrypt_with_recovery_code, decrypt_with_passkey).*)
RecoveredIsTheBackup == RecoveredWasSealed /\ MechanismsAgree /\ PhraseIsEnough

(* The escrow key of the cloud bundle and the master key come from one      *)
(* phrase and never meet: no material ever used to seal is a master key.    *)
DomainsApart ==
  \A w \in written : \A s \in Seeds : w[2] # Derive("master", s)

(* A phrase the recovery code accepts gives a master as well, the same one  *)
(* however it is typed: both paths to the account open with one phrase,     *)
(* though each normalizes it with a function of its own.                    *)
MasterFromAnyTyping ==
  master # None /\ IsRecoveryCode(master.phrase) =>
    master.key # None /\ master.key.key = Derive("master", master.phrase.seed)

(* A phrase the recovery code accepts gives one master however it is typed, *)
(* and no material that seals a backup is a master key (recovery/mod.rs     *)
(* from_phrase, derive_key_material, master.rs from_phrase).                *)
OneMasterPerPhrase == MasterFromAnyTyping /\ DomainsApart

(* from_phrase: InvalidPhrase "if the phrase is not a valid BIP39 mnemonic  *)
(* (wrong word count, ...)", of a "24-word BIP39 recovery phrase".          *)
MasterNeeds24Words == master # None /\ master.key # None => master.key.words = 24

(* export: "Creates a portable backup of the identity ... the file itself   *)
(* IS the key": what a key file restores can sign.                          *)
KeyFileHasSecret == gckey # None => gckey.key.secret
=============================================================================
