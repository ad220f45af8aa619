# A TLA+ model of gitcellar-crypto

gitcellar-crypto is the client-side cryptography of GitCellar: what seals keys
on a machine and signs a user in (`passkey-core`), what identifies a device,
signs for it and grants repository keys (`gitcellar-crypto`), and what cuts,
encrypts, packs and stores repository data (`vault-core`, `bounded-http`). This
directory models the parts of it that keep state, loop over data or decide on
what others send, checks them with TLC on small instances, and proves the
central properties with TLAPS for every instance.

## Inventory

| Component | State | Operations | What is hard | What makes it correct | Module |
|---|---|---|---|---|---|
| Local protection key (`keywrap.rs`) | OS-keyring slot, minted marker, process cache behind a mutex, sealed files | wrap, unwrap, source, re-mint | processes minting together, keyring failures, wipes, crashes between key and marker | seals stay recoverable; a lost key is never replaced silently; one key per process; the mutex is released | `LocalProtectionKey` |
| Device keystore (`keystore.rs`) | four files, their temporary files, cached public key | generate, export, import | two files for one pair, fixed temporary names, several instances | an exported key stays the device's key; targets are whole | `Keystore` |
| Identity store (`multi_user/`, `identity/`) | user directories, secret and public files, `active_user` | create, save, delete, set active, evaluate, repair | no lock, many file-system calls per operation, overwrites in place | answers match the files; deletes are complete; repair spares a valid user | `IdentityStore` |
| Pack builder (`pack.rs`) | open pack, finished packs, index, ladder step | pack, pad, slice | seal and flush edges, dedup, ladder growth at its limits | every name reads back; padding is bounded; the loops end | `PackBuilder` |
| Chunking (`chunking.rs`) | stream buffer, offset, emitted chunks | feed, finalize, chunk_data | a boundary later bytes can move, bounded memory | a stream is chunked as the whole buffer | `StreamChunker`, `GearHash` |
| Chunk format and engines (`chunk_format.rs`, `vault-core/encryption.rs`) | none | seal, open with associated data | retired versions, NUL in a field, truncated blobs, old keys | a blob opens only as what it was sealed as, and nothing panics | `ChunkCipher` |
| Repository engine (`gitcellar-crypto/encryption.rs`) | the certificate copy, blocking tasks of a batch | encrypt/decrypt data and chunks, batches, sign | tasks in any order, failing or panicking; two live subkeys; revocation | order is kept; every call returns; one key is in force | `ChunkBatch`, `RepoEncryption` |
| Storage (`storage/s3.rs`, `storage/file.rs`) | objects, requests under way | upload, download, exists, list, delete | timeouts with late effects, crashes inside a write, pages | what was acknowledged holds, up to a change still on the way | `S3Store`, `FileStore` |
| Bounded HTTP reader (`bounded-http`) | bytes read so far | read a body, read a diagnostic | lying or missing Content-Length, the exact ceiling | whole or refused, in bounded memory | `BoundedRead` |
| FFI and .NET classes (`ffi.rs`, `bindings/dotnet`) | handles, allocations, per-thread error | create, call, free, Dispose | shared handles, ownership of results, whose error it is | everything is freed exactly once; a thread sees its own error | `FfiHandles` |
| Device and revocation certificates, master key, legacy extraction | the callers' enrolment records | sign, verify, migrate | order of arrival, altered certificates, revoked signers | enrolment follows the master; a revoked device's signatures stop | `DeviceTrust` |
| Repository key grants (`grant_signing.rs`) | signed bundles, imported keys | make, verify, import | a relay that re-aims, strips and swaps | an imported key was granted to this recipient, for this repository and version | `RepoKeyGrant` |
| Identity succession (`identity_succession.rs`) | statements, the Cloud's identity per account | sign, verify | replay, reordering, two accounts of one person, spellings | every change was signed by the account's master; none takes effect twice | `IdentitySuccession` |
| Incident broadcast (`broadcast.rs`) | each desktop's high-water mark | sign, verify_and_parse | late, repeated, reordered and altered manifests, expiry | no older manifest replaces a newer one; the latest arrives | `IncidentBroadcast`, `IncidentFeed` |
| Canonical encoding (`canonical.rs`) | none | lp_push | fields with the framing's own bytes | equal bytes, equal fields | `CanonicalEncoding` |
| Cloud backup, key file, recovery code, identity export | bundles, key file | create, add passkey, recover, export, import | a server that mixes bundles, phrases typed differently | what comes back is what was backed up | `AccountRecovery` |
| Recovery word search (`bip39_impl.rs`) | two rows of a table | find_closest_word | rows that are swapped and never cleared | the first closest word | `ClosestWord` |
| Authentication (`auth/`) | signatures, sessions, tokens, clocks | sign and verify challenges, register, log in, machine ids | untrusted challenges, clock differences | no session its key holder did not mean; challenges age | `AuthChallenge` |
| Credential store (`credential_store/`) | six keyring entries | store_all, clear_all, get, is_logged_in | failure or death between two entries, ambiguous entries | the access token is never older than the other entries; the recovery hash is kept | `CredentialStore` |
| Paths, user names, `gitcellar-identity`, errors and exports | none | pure functions | parsing | see "Not modelled" | none |

Interaction. `Keystore` and the identity store seal every private key through
the local protection key (`wrap_at_rest`) and fail closed without it. Chunking
feeds the chunk engines, these the pack builder, whose packs a storage backend
uploads, reading answers through the bounded reader. Every statement that is
signed goes through the canonical encoding. A recovery phrase gives both the
key of a backup and the master that certifies devices and successions. The
relay, the Cloud, the Desktop's store of verdicts, the S3 service, the OS
keyring, `tokio`, OpenPGP, BIP39 and `jsonwebtoken` are outside this repository
and are modelled from how it uses them.

## Modules

One action per operation, or per step of one where another actor may come
between; the constants that bound a model are named `Max...`.

* `LocalProtectionKey` has one action per call on the keyring, the marker or
  the mutex in `cached_lpk`, `choose_lpk` and `resolve_lpk`: `Acquire`, `Get`,
  `Check`, `Set`, `Reread`, `Mark`, `Headless`, `Store`, `Use`. Environment
  actions are `Crash` and `Wipe`; every keyring call may fail. A key is a model
  value and a sealed file is the key that sealed it. `osPersistent` and
  `headlessConf` are the kind of host, one of `Hosts`, which no step changes.
* `Keystore` has one action per file-system call of `generate_device_keypair`,
  `export_pubkey`, the imports and `write_atomic`, with `IoError` and `Restart`
  between any two. `fs::write` is two steps, `OpenTmp` (create or truncate) and
  `FillTmp`: `open` is the file an instance is filling, which a rename by
  another instance moves or unlinks. The history variables `overlap` and
  `shared` record two generations at once and targets with two writers.
* `IdentityStore` has one action per file-system call of `multi_user` and
  `identity`. A secret file is missing, torn or whole; an open descriptor goes
  on writing to a file that was unlinked. `at` is where a client is in its
  call; `stale` records that another client touched the directory during it.
* `PackBuilder` has the iterations of `pack_chunks` (`Visit`, `AppendChunk`,
  `Flush`), of the padding loop (`Grow`) and `Seal`. A byte carries its origin;
  the shuffle is nondeterminism; the register limits are constants.
* `StreamChunker` has `Feed`, the rounds of `emit_chunks` (`Emit`, `Wait`) and
  `Finalize`; `IsChunking` is the reference, the loop of `chunk_data` on the
  whole stream. The hash test is the parameter `Cut`; `GearHash` is the code's
  test at a small register width.
* `ChunkCipher` holds the format: the version registry, `ChunkAad` with its
  refusals and its bytes, and the two engines over an ideal AEAD. `ChunkBatch`
  extends it with clients that seal and open single chunks and batches: a batch
  spawns one blocking task per chunk, tasks run, fail and panic in any order,
  the call awaits them in order. A provider serves any blob, cut or with its
  version byte changed; a removed collaborator seals under old keys.
* `RepoEncryption` is which subkey of a certificate is used for what: the owner
  adds and revokes subkeys, subkeys expire, holders have copies of any age and
  in any order. `decrypt_data` goes over the session-key packets of a message
  in their order, and over the copy's subkeys for each; `derive_k_repo` and
  `sign_data` collect their `Candidates` and refuse more than one.
* `S3Store` sends a request, lets the service carry it out now, late or never,
  and maps the response; `FileStore` makes directories, truncates and writes in
  separate steps. `fileClean` is what was last acknowledged for a path and has
  not been disturbed since by another call or a crash. `possible` is, for every
  object, the contents it may have: the last acknowledged change, and every
  change that was called since, called during that one, or still on the way
  when that one was called. A change that was not acknowledged is in the set,
  since the client never learns what became of it: a PUT that timed out may
  undo a retry or a delete acknowledged after it (`s3.rs:317-341`).
  `StorageBackends` puts the two backends side by side.
* `BoundedRead` tests the declared length, then counts pieces as they come.
* `FfiHandles` enters a native call and runs it in two steps; `heap` is what
  was handed out, `corrupt` a use of something freed.
* `DeviceTrust` lets masters and devices sign device and revocation
  certificates; each verifier receives them in its own order, altered or not,
  and keeps its own records of who is enrolled and revoked.
* `RepoKeyGrant`, `IdentitySuccession`, `AuthChallenge` each have signers, the
  set of signatures made, a history of what the signer meant, and a receiver
  given anything that can be put together from what was signed. `applied` of
  `IdentitySuccession` is what the Cloud has applied to each account.
* `IncidentBroadcast` is the signed manifest and `verify_and_parse` with a
  desktop's high-water mark; `IncidentFeed` is the abstract specification, a
  feed of numbered announcements in which a desktop only moves forward, and
  `ImplementsFeed` the refinement: a manifest signed by a pinned key maps to an
  announcement of its number and state.
* `CanonicalEncoding` pushes fields to buffers with `lp_push` and compares the
  bytes with the tuple of fields, which is what the other signing modules use.
  `ends`, where each field ends, is history for the proof.
* `AccountRecovery` has the backup bundle with its two slots, the key file and
  the phrase, a server that puts bundles together from the fields of others,
  and a user who types a phrase in any case and spacing; the two
  `normalize_phrase` functions (`recovery/mod.rs:253`, `master.rs:255`) are two
  operators. The passkey slot is in the bundle's format and its functions are
  in the crate, but the source marks enrolling a passkey STRUCK and says not to
  call it (`cloud_backup.rs:17-43`, `166`): `AddPasskeyEncryption` and
  `DecryptWithPasskey` say what the functions do, not what a client does today.
  `BackupSpec` is a
  machine whose identity has its secret; in `AccountSpec` the identity may also
  come from a key file, and then may be a public key only.
* `CredentialStore` stores or deletes one entry per step; any step may fail,
  the process may die between two, an entry may become ambiguous.
* `ClosestWord` has one action per cell of the edit-distance table. The
  reference, `Distance`, has no table: it is the cost of the cheapest way to
  pair letters of the two words without crossing, where a letter without a
  partner and a pair of different letters cost one each. `MCClientCalls` has
  TLC compare it, for every pair of words of the instance, with the length of
  the shortest path of single edits.
* `...Proofs` modules hold theorems, `MC...` modules give instances. Names are
  prefixed (`GrantNext`, `S3Next`, `StoreNext`, ...) where one instance, or one
  module of proofs, extends several components.

Operators whose comment starts with "Mutant of" are plausible bugs of the
definition that follows them; `PROJECT.json` pairs each with the property that
catches it.

## Runs

| Run | Instance | Checks |
|---|---|---|
| `lpk_hosts` | two processes with one thread each, one file, three keys; on a keyring host, on one whose Service also has a headless secret that may be unreadable, and on one without a persistent keyring | `SealsRecoverable`, `NoSilentRemint`, `WrongKeyOnlyAfterLoss` |
| `lpk_one_process` | two threads of one process | `StableInProcess`, and `MutexReleased` under fairness |
| `device_files` | two processes; two key pairs of a keystore, or two users of an identity store | `ExportStable`, `TargetsWhole`, `CertMatchesKey`; `AnswerAccurate`, `DeleteComplete`, `RepairSparesValidUser` |
| `pack_builder` | up to three chunks of one to four bytes, targets up to eight, ladder 2 x 7/5 | `ReadsBack`, `PaddingBounded` |
| `stream_chunker` | binary streams up to 11 bytes in pieces up to 3; sizes 2/4/6 | `StreamEqualsWhole`, `BufferBounded`, and `FeedReturns` under fairness |
| `incident` | one desktop, a pinned and an unpinned key, three manifests, a clock of four ticks | the refinement `ImplementsFeed`, and `LatestReachesEveryone` under fairness |
| `vault_calls` | batches of up to two chunks, two key versions, engines that know their version or not; packing of two chunks | `BatchOpens`, and `BatchReturns` and `PackReturns` under fairness |
| `signatures` | three parties, two repositories, two keys, two delegations, two grants; two accounts of one master; two machines, one of them with a v6 key; clocks up to 5 apart by up to 2; two devices, two masters, three certificates; lists of two fields of two bytes | `ImportedWasGranted`, `EveryChangeConsented`, `ReplayDoesNothing`, `LoginWasMeant`, `ChallengeAgeBounded`, `EnrolmentFollowsMaster`, `RevokedSignaturesStop`, `Injective` |
| `stored_data` | two identities, two phrases, one passkey, two uploads; two holders and two encryption subkeys, or one holder and two signing subkeys; three S3 clients of which two share a prefix; two processes on a path and one below it | `RecoveredIsTheBackup`, `OneMasterPerPhrase`, `OneKeyInForce`, `MessagesStayReadable`, `AcknowledgedHolds` |
| `client_calls` | a provider with two blobs of either cipher; two threads on an `AesEngine` and a `ChunkEngine`; bodies up to and over two ceilings; three logins with two faults and one ambiguous entry; words of up to four letters over a list of five | `OpensAsSealed`, `FreedExactlyOnce`, `ErrorIsOwn`, `WholeOrOver`, `SessionsConsistent`, `ClosestIsFirstClosest` |
| `lpk_first_launch` | two processes on a fresh machine, no wipe, no crash | violated: `ProcessesConverge` |
| `s3_list` | one client, two paths, a page of one key | violated: `ListComplete` |

`device_files`, `vault_calls`, `signatures`, `stored_data` and `client_calls`
put several components in one model: the variable `part` names the one a
behaviour exercises, and the others stay in an initial state. The components of
a run share no state in the code, so nothing that could go wrong between them is
lost, and each is explored exactly as it would be alone. A property of such a
run that is the conjunction of several is commented where it is defined.

### Bounds

* Three keys of the `lpk_*` runs are one for the initial state or a first mint
  and one for each of two concurrent or successive mints; `FreshKeysLeft`
  starts a call only while a key is left for every thread, so no call is cut
  short by the bound.
* Two processes, instances, threads or clients are enough for every race
  between a check and the act that follows; the proofs hold for any number.
* `UsizeMax = 8` and the ladder 2, 3, 4, 5, 7, 8 make both the saturation and
  the one-byte step of the ladder happen; `U32Modulus = 5` exceeds the largest
  blob, as `BlobAssumption` asks.
* Eleven bytes with `max_size = 6` allow forced cuts, early cuts and a last
  chunk below `min_size`; both masks occur because `avg_size` lies between.
* Repository ids and chunk names `<1>`, `<1, 0, 1>` hold a NUL where it would
  shift a field; fields over `1`, `:` and newline are made of the framing's own
  bytes.
* Three manifests are an incident, its clearance and one more, so that a late
  one can arrive after two newer; four ticks let one expire.
* Two grants, successions or three certificates are one to be abused and what
  it is abused against; a chain of certificates from the master over a device
  to another device needs three with a revocation.
* A clock bound of 5 with `MaxAge = 1` and a Cloud clock up to two ahead lets a
  challenge outlive its age and the clock be put back over it.
* Three S3 calls are an upload that times out and is still on the way, a retry
  or a delete that is acknowledged, and a download after both.
* In `client_calls` the provider's two blobs are two versions of one chunk, or
  one identity's and another's; ceilings 2 and 5 with pieces up to 3 are met
  exactly, crossed inside a piece and crossed at its start.

### Fairness

* `lpk_one_process`: each thread's steps after it has the mutex. The calls have
  no waiting points other than the mutex, so a running thread goes on.
* `stream_chunker`, `vault_calls` (packing): the single thread running the loop
  goes on.
* `vault_calls` (batches): `RunTask`, `Await` and `Finish`. `spawn_blocking`
  runs every task it accepted, and the runtime polls a call whose task ended.
* `incident`: a desktop goes on polling the current object, as the Desktop's
  poll loop does. The relay owes nothing else.

Nothing obliges a caller to call, a user to act, a process to crash or a clock
to move. Deadlock is checked in the runs whose system never stops; it is off
where calls return for good or a bound ends the inputs (`pack_builder`,
`stream_chunker`, `vault_calls`, `incident`, `signatures`, `stored_data`, the
two violations).

## Where the code and its documentation differ

Two runs show a violated property:

* `lpk_first_launch`. `local_protection_key` promises that "independent
  processes converge on one key" (`keywrap.rs:455`). A writes and re-reads its
  key, then B, which had also seen the slot empty, writes its own: A has cached
  a key the keyring no longer holds, and what A seals cannot be opened by B,
  nor by A after a restart.
* `s3_list`. `list` returns the "List of matching paths" (`storage/mod.rs:78`).
  `S3Storage::list` reads one response, neither `IsTruncated` nor the
  continuation token, so objects past the first page are missing.

Others were met while modelling. Each is a definition of its module that TLC
refutes on the instance named; it needs a configuration of its own with that
property alone.

| Module, property | Instance | What the text says, and what the code does |
|---|---|---|
| `IdentityStore` `RepairReturnsNewState` | one client, three users | `repair_state` "Returns the new state after repair." With the active user missing and several left it answers `NeedsUserSelection` and changes nothing; evaluating again answers `ActiveUserMissing`. |
| `IdentityStore` `ReadyIsLoadable` | one client, two users | `Ready` is "ready to go", and there is a `Corrupted` state. A crash inside the overwrite of `secret.pgp` leaves a file that cannot be loaded, and the answer is `Ready`. |
| `DeviceTrust` `RevokedStopsValidating` | a legacy key that was migrated | "A revoked device is *not* in this list, so its outstanding signatures stop validating immediately" (`device_cert.rs:220`). After the migration the device key is the master key, and the `Master` branch of `verify` never looks at the list. |
| `IncidentBroadcast` `ExpiredIsCleared` | that of `incident` | `Expired`: "Treat the incident as locally cleared" (`broadcast.rs:278`). The replay check comes first, so a manifest verified before its expiry answers `Stale` on every later poll. |
| `RepoEncryption` `ChunksRoundTrip` | one holder, two encryption subkeys | "Deterministic for a given cert ... the chunk round-trips" (`encryption.rs:345`), also over a rotation of the subkey (`:371`). The rotation changes the derived root, so earlier chunks are out of reach. |
| `S3Store` `ExistsAccurate` | one client | `exists` will "Check if path exists"; every status that is no success, a 5xx too, answers `Ok(false)` (`s3.rs:448`). |
| `FileStore` `DeleteOfMissingIsOk` | one client | "Not an error if file doesn't exist" (`file.rs:158`) stands in a closure that maps `NotFound` to an error. |
| `FileStore` `FileListComplete` | a path of two names | `list` reads one directory, and returns a subdirectory in place of the files below it. |
| `CredentialStore` `LogoutClears` | one process, one fault | "Clear all stored credentials"; a failed delete is logged, `Ok` is returned, and `is_logged_in` stays true. |
| `CredentialStore` `AmbiguousReadsFirst` | one duplicate | "Multiple entries found ..., using first" (`keyring_impl.rs:37`); the next line returns `None`. |
| `FfiHandles` `MemorySafe` | `DisposeAlone = FALSE` | "Handles can be shared across threads" (`ffi.rs:14`), and `AesEngine` is "Thread-safe"; `Dispose` does not wait for calls under way on other threads. |
| `FfiHandles` `NeverAborts` | `Wrapped = FALSE` | `vault_chunker_create_custom` "Returns handle to engine, or NULL on error" (`ffi.rs:372`); sizes out of order panic in `ChunkConfig::new`. |
| `AccountRecovery` `MasterNeeds24Words` | any | `from_phrase` parses "a 24-word BIP39 mnemonic" (`master.rs:101`) and accepts every BIP39 length. |
| `AccountRecovery` `KeyFileHasSecret` | an identity imported from a public key | "the file itself IS the key" (`transfer.rs:74`); the export of such an identity succeeds without a secret. |
| `AuthChallenge` `RegisteredIdIsValid` | a prefix with a dash, as of "my-app" | "Valid format: `{prefix}-{40 or 64 hex chars}`" (`machine_id.rs:125`); the code splits at every dash and wants two parts. |

## Proofs

The theorems are `Spec => []...`, an action property or a refinement (and one
fact about an encoding, `AadInjective`), for every value of the constants that
satisfies the module's named assumptions: any number of processes, clients,
threads, users, keys, paths and calls. Where a property alone is not inductive,
what has to be added says why the code is right.

### The machine

* `LocalProtectionKeyProofs`. `SealsRecoverable` says nothing of keys in a
  thread's hands; `IndInv` adds them (`InFlightInv`), that the slot stays empty
  while somebody is about to store (`EmptyWhileMinting`), that the mutex
  protects resolution on an empty cache (`MutexInv`), that a loss is recorded
  before anyone decides to mint (`LossRecorded`), and which source a key came
  from (`SourceInv`). All of it is for any set of hosts. Theorems:
  `TypeCorrect`, `Recoverability`, `NoSilentRemintHolds`, `WrongKeyExplained`,
  `StableInProcessHolds`, `MutexHolderAdvances`.
* `DeviceFilesProofs`, the keystore. `GenerationInv`: without an overlap there
  is one generation at a time, on a directory without a public file, and the
  public file is the last to appear. `OpenInv` and `WriterInv`: a target that
  was never shared has one writer, which fills the temporary file before it
  renames it. Theorems: `TypeCorrect`, `ExportStableHolds`,
  `TargetsWholeHolds`, `CertMatchesKeyHolds`, `FilesKeepTheirKindHolds`.
* `DeviceFilesProofs`, the identity store. A call reads and removes many files
  one after the other. `ViewInv` says, for every point of a call that was not
  disturbed, which part of the files it has already got right: the scan found
  exactly the identities of the directories it has looked into, a repair is
  about to activate the only identity there is, a delete has left nothing of
  what it passed. `CallInv` ties the point of a call to the call. That
  `repair_state` picks the only user needs the directories to be finitely many
  at any time, which `StoreInv` carries along. A step of another client either
  keeps a view (`OtherKeeps`) or makes it stale. Theorems: `StoreTypes`,
  `AnswersAccurate`, `DeletesComplete`, `RepairsSpare`.

### Repository data

* `PackBuilderProofs`. `LocatedInv` follows every index entry into the open or
  a finished pack byte by byte; `MemoryInv` and `LadderInv` bound the open pack
  and the padding loop. Theorems: `TypeCorrect`, `ReadsBackHolds`,
  `SoftCeilingHolds`, `PaddingBoundedHolds`, `PackingAdvances`.
* `StreamChunkerProofs`. The key lemma `BoundaryStable`: a boundary that is
  certain (found inside the buffer, or the buffer has `max_size` bytes) is not
  moved by bytes added at the end. `BoundaryInv` records that every emitted
  chunk was cut at a certain boundary, `QuietInv` that what `finalize` flushes
  is its own boundary. Theorems: `TypeCorrect`, `StreamEqualsWholeHolds`,
  `SizesInRangeHolds`, `BufferBoundedHolds`, `FeedAdvances`. Nothing is assumed
  of `Cut`.
* `ClientCallsProofs`, the chunk engines. `AadInjective`: two identities that
  pass `check` have different associated data, because the first NUL ends the
  repository id and the fields after the name have a fixed length; it is proved
  over sequences of any length. `BatchInv` adds that every blob a provider has,
  cut or altered, comes from a seal that was made (`SealedInv`, `StoreInv`),
  and that each task of a batch under way has nothing, an error or the blob of
  its own chunk (`JobInv`). Theorems: `AadInjective`, `BatchTypes`,
  `BatchesOpen`, `OpenedAsSealed`, `BatchesAdvance`; the last needs that a task
  which ends leaves something other than `None` (`TaskResult`).
* `ClientCallsProofs`, the bounded reader. `ReadInv`: the bytes kept are the
  bytes sent until a ceiling is crossed, and never more than the ceiling.
  Theorem: `BodyWholeOrOver`.
* `StoredDataProofs`, the backends. `FileInv`: a path that is settled has
  nobody on it, and an upload that may settle its path is alone on it, with
  the file it opened still linked. `S3Inv`: what every request on the way
  would leave in its object is in `possible` there and in what every call
  under way on that object allows (`HistoryOK`, `MaysOK`), so that carrying
  one out late keeps both; two clients meet on an object only through equal
  prefixes (`Cancel`). `ObjectsHold` is about late requests too: an object has
  the acknowledged contents whenever no other change of it was on the way then
  or called since, and otherwise those or the contents of one of these.
  Theorems: `FilesHold`, `ObjectsHold`, `StorageHolds`.
* `StoredDataProofs`, the repository engine. `EngineInv`: a holder's copy has
  each subkey once, and every signature was made with the only signing subkey
  then in force. The lemmas say of `TheKey` and `Tried` that they do not depend
  on the order of a copy. Theorems: `OneKey`, `MessagesRead`; the second is for
  holders that have no locked encryption subkey.

### What others send

* `IncidentBroadcastProofs`. `Inv` adds to the types that every published
  signature covers its own envelope. Lemma `Genuine`: what passes
  `verify_and_parse` has the state and number of a published manifest signed by
  a pinned key, altered or not. `InitRefines`, `PublishRefines` and
  `PollRefines` then map every step to a step or a stutter of `IncidentFeed`;
  theorem `Refinement` is `Spec => ImplementsFeed`. `ReachInv` adds that every
  manifest is signed by a pinned key and consistent, that no number is used
  twice and one is the newest, and that a Desktop's number is a published one
  whose state it holds; so a Desktop either has the newest announcement or is
  below it: theorem `NobodyIsShutOut`.
* `SignatureProofs`, succession. `SignedMeant`: bytes are signed exactly when
  their meaning was consented to, because the canonical form forgets the
  spelling and nothing else (`CanonicalIsMeaning`); `MeantShaped`: what was
  signed has a valid shape; `AppliedPast`: no statement applied to an account
  is for a later version than the account's, and no two are for the same.
  Theorems: `OnlyConsentedChanges`, `NothingReplayed`,
  `RenderingNeverMatters`.
* `SignatureProofs`, authentication. `AnswersMeant`: a signature over a
  challenge's payload exists only for a purpose the holder meant; it rests on
  `PayloadsApart`, that the domain tags of the two purposes and of a grant
  differ. `Stamps` and `Tokens` relate time stamps to both clocks. Theorems:
  `SessionsWereMeant`, `ChallengesAreNoGrants`, `IdsNameOneKey`,
  `LiveTokensPass`, `ChallengesExpire`.
* `SignatureProofs`, grants. `BundlesGranted`: every bundle is that of a grant
  that was made. `CanonicalInjective`: the signed tuple determines grant and
  delegation, since a delegated grant has a tag of its own; hence
  `VerifiedWasGranted`, for whatever the relay puts together. Theorems:
  `GrantTypeCorrect`, `ImportsWereGranted`.
* `SignatureProofs`, device certificates. `TrustInv` keeps `ChainOfTrust`, that
  a set of devices closed under what verifies contains every enrolled one, and
  `FollowsMaster`: after the master's certificates alone, a verifier's records
  are a function of the *set* it received, which is why the order of arrival
  does not matter. Theorems: `EnrolmentTraced`, `RevocationStops`. The second
  property is about a master that is no device key; for a migrated legacy key
  it is false (`RevokedStopsValidating` above).
* `SignatureProofs`, the encoding. `FramesApart`: two frames that stand at one
  place are of one field, since the colon ends the digits of both and the
  digits say how long the field is. `EncodingInv`: where one buffer's bytes
  begin another's, its fields begin the other's and end at the same places;
  `PushInner` and `PushOuter` keep this when either grows. So the induction
  over the list of fields is one over the pushes. Theorem:
  `CanonicalDetermines`, for fields of any number, length and content, from
  `EncodingAssumption`: `to_string` writes digits only and different numbers
  differently.
* `StoredDataProofs`, recovery. `AccountInv`: slot by slot, what the server has
  was sealed by the user for that mechanism, that material and that
  fingerprint. Theorems: `BackupsRecover` for `BackupSpec`; `PhrasesAgree` and
  `RecoveriesSealed` for `AccountSpec`, where both mechanisms of a bundle need
  not give the same identity, since a key file may replace it between the two.

### Callers of the library

* `ClientCallsProofs`, the bindings. `FfiInv`: an object's handle is live
  unless it was disposed, a call under way keeps its object in use, the heap
  holds exactly what the threads' calls hold (`HeapHeld`), and a call that
  failed finds its own cause in its thread's cell (`FailedOwn`). Theorems:
  `FfiAllocations`, `FfiErrors`, both with the hypothesis `DisposeAlone`;
  without it they are false (`MemorySafe` above).
* `ClientCallsProofs`, the credential store. `CredInv`: an undisturbed login
  has left its own session in the entries it has passed. `NewestInv`: with one
  process, the access token is at least as new as every other entry, since it
  is written first. Theorems: `LoginsWhole` for any number of processes,
  `SessionsStayConsistent` with the hypothesis `OneProcess`: two processes that
  log in at once interleave their entries.
* `ClientCallsProofs`, the word search, for any alphabet, word list and lengths.
  `LastLetters`: an alignment pairs the last letters of two words or leaves one
  of them alone, since otherwise two of its pairs would cross. With the lemmas
  on adding a letter or a pair (`RemoveLast`, `InsertLast`, `PairLast`) this
  gives `CellIsDistance`, the recurrence of `levenshtein_distance`, for the
  cheapest alignment. `WordInv` says which cells of the two rows are distances
  of prefixes already, also after the swap that leaves old values in a row, and
  that the word kept is the first closest of those compared. Theorem:
  `FirstClosestWord`. There is no induction over words: the loops of the code
  fill the table from prefixes to longer ones, and the invariant follows them.

### Progress

Liveness needs fairness and ENABLED and is left to TLC. What remains of each
liveness property without its fairness is proved for every instance: nobody is
set back, and there is always less left to do.

| Liveness property | Theorem | What it says |
|---|---|---|
| `MutexReleased` | `MutexHolderAdvances`: `GuardHeld`, `ResolutionAdvances` | only a resolving thread holds the mutex; each of its steps leaves less of `resolve_lpk` ahead (`Ahead`), and nobody else moves it |
| `FeedReturns` | `FeedAdvances`: `EmitAdvances` | a round of `emit_chunks` shortens the buffer or is the last |
| `PackReturns` | `PackingAdvances`: `LoopsAdvance` | a step takes an entry, brings it further (`Stage`) or climbs a ladder that is below the pack's length |
| `BatchReturns` | `BatchesAdvance`: `BatchAdvances` | a task ends once, a kept result stays, a batch ends only when all results are in or the one due has failed |
| `LatestReachesEveryone` | `NobodyIsShutOut`: `LatestWithinReach` | a Desktop has the newest announcement, or will accept it at the next poll |

The type invariants, `SoftCeiling`, `SizesInRange`, `FilesKeepTheirKind`,
`SignedIsAccepted`, `GrantsWereMeant`, `MachineIdNamesOneKey`,
`LiveTokenAccepted` and the properties of the table above are proved and have
no run of their own. Every invariant and every action property that a passing
run checks is also proved.

Only model-checked:

* the liveness properties `MutexReleased`, `FeedReturns`, `PackReturns`,
  `BatchReturns` and `LatestReachesEveryone`, beyond what the table says;
* that `Distance` is the least number of single edits, which is about paths of
  any length and needs induction over them: `MCClientCalls` states it and TLC
  evaluates it for all words of up to four letters and all beginnings of the
  words of the list;
* `GearHash`, a fold over the window of bytes; the proofs about `StreamChunker`
  hold for every rolling-hash test and do without it.

## Assumptions and abstractions

* AES-GCM, XChaCha20-Poly1305, HKDF, HMAC, Argon2id, Ed25519 and OpenPGP are
  ideal: what is sealed opens with its key and its associated data only, a
  signature is made by its key over its bytes only, keys and ids drawn from
  `OsRng` are fresh. A fingerprint names one key.
* `fs::rename` and unlink are atomic, and a rename after a write survives a
  crash of the process in that order (power loss is not modelled; the code
  does not sync). Two writers of one keystore file leave a mixture only where
  their contents differ in length, which is the certificate.
* A certificate given to `import_cert` is for a key this keystore exported;
  `import_cert` itself does not compare them.
* `StreamChunker` assumes `0 < min <= avg <= max`, as in both profiles of the
  code; `ChunkConfig` accepts `min_size = 0` as well.
* An engine that was told a key version was told the true one, or 0; a caller
  that seals a chunk with an identity names the version of the key it uses.
* No S3 client's prefix reaches into another's (`S3Assumption`). The S3 service
  is honest, and carries a request out at most once.
* The headless secret of a host is one value, the same for all its processes.
* The granter's certificate and the fingerprint it is served under are of one
  key: `verify_grant_bundle` does not compare them and leaves it to its caller
  (`grant_signing.rs:554-571`).
* The loops of `ffi.rs:479-503` free each part of a result once.
* The output of a passkey's PRF is never one of HKDF on a phrase
  (`AccountAssumption`).
* The Cloud applies a succession after `verify_identity_succession` and a
  comparison of the old identity, uses a nonce for one purpose and once, and
  registers a machine under the id it derived, as the docs of these functions
  ask of it. A desktop stores a verdict's number and state together.
* In the run of `FfiHandles`, and in the theorems about it, a program disposes
  an object only when no other thread is using it. The credential store's run
  and `SessionsStayConsistent` have one process.
* Test overrides (`test_override`) are left out.

## Not modelled

* Paths, user names and `gitcellar-identity`: string building and character
  classes without state; the wrappers call what is modelled here with
  GitCellar's names.
* Error types, exports, logging, display formats, OpenPGP armor and point
  encodings, URL encoding and request signing of S3, JSON.
* `first_key_evidence_canonical`, refresh tokens, the verification hash and
  identifier of a recovery code, prefix suggestions: single hash or encoding
  calls whose results nothing in this repository acts on.
* `user_info.json` and the file-level backup of identities, the in-memory
  credential store of tests, `action_url` and targeting of a manifest.
* Zeroization: no property of states tells a cleared buffer.
* Power loss, and a keyring or file system that answers falsely.

## Possible extensions

In order of what they would add:

1. `ReadyIsLoadable` in the form that holds: an identity file that nobody
   writes and whose last writer did not die is whole, proved from `StoreInv`
   extended by `writer`.
2. A composition of `ChunkBatch`, `PackBuilder` and `StorageBackends`: what was
   acknowledged after packing opens again, whatever upload was retried. The
   theorems of the three are the lemmas it needs.
3. `user_info.json` and the file-level backup in `IdentityStore`.
