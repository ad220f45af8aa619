----------------------------- MODULE ChunkCipher -----------------------------
(***************************************************************************)
(* The chunk format (vault-core/src/chunk_format.rs) and the two engines   *)
(* that seal with it (vault-core/src/encryption.rs): XChaCha20-Poly1305    *)
(* for chunks, AES-256-GCM for passphrase files.                           *)
(*                                                                         *)
(* A byte string is a sequence of naturals, 0 being NUL; an integer field  *)
(* of the associated data is one element, its fixed width kept apart by    *)
(* position.  The AEADs are ideal: a blob opens exactly under the cipher,  *)
(* key and associated data it was sealed with, and only if it is whole.    *)
(***************************************************************************)
EXTENDS Integers, Sequences

\* The registry: a retired byte, the only one read or written, a reserved one.
V2_KEYED_CDC_NAMING == 2
V3_REPO_UID_KEY_VERSION == 3
V4_AES_256_GCM_SIV == 4

\* The sizes of the two wire formats, by cipher.
NONCE_SIZE == [xchacha |-> 24, aes |-> 12]
TAG_SIZE == 16
VERSION_SIZE == [xchacha |-> 1, aes |-> 0]
OVERHEAD(cipher) == VERSION_SIZE[cipher] + NONCE_SIZE[cipher] + TAG_SIZE

\* ChunkAad, and its constructors: a content chunk binds offset 0, a singleton
\* object size 0 too.
ChunkAad(uid, name, version, size) ==
    [repo_uid |-> uid, chunk_name |-> name, key_version |-> version,
     stream_offset |-> 0, size |-> size]
Content(uid, name, version, size) == ChunkAad(uid, name, version, size)
Named(uid, name, version) == ChunkAad(uid, name, version, 0)
DEFAULT_KEY_VERSION == 1
ForContentChunk(uid, name, size) == ChunkAad(uid, name, DEFAULT_KEY_VERSION, size)
ForNamedObject(uid, name) == ChunkAad(uid, name, DEFAULT_KEY_VERSION, 0)

HasNul(s) == \E i \in DOMAIN s : s[i] = 0

\* ChunkAad::check.
Check(aad) == ~ HasNul(aad.repo_uid) /\ ~ HasNul(aad.chunk_name)

\* Mutant of CanonicalAadBytes: the key version is left out, as before v3.
CanonicalWithoutVersion(aad) ==
    aad.repo_uid \o <<0>> \o aad.chunk_name \o <<0>>
        \o <<aad.stream_offset, aad.size>>

\* canonical_aad_bytes.
CanonicalAadBytes(aad) ==
    aad.repo_uid \o <<0>> \o aad.chunk_name \o <<0>>
        \o <<aad.key_version, aad.stream_offset, aad.size>>

\* parse_version and version_of: only byte 3 is dispatched.
ParseVersion(byte) == byte = V3_REPO_UID_KEY_VERSION

\* The chunk content key of a root key, apart from every other sub-key of it.
DeriveContentKey(k) == <<"gitcellar/chunk-content/v1", k>>

\* cipher_aad: the version byte in front, the one the engine emits or the one
\* it observes.
CipherAad(byte, aad) == <<byte>> \o CanonicalAadBytes(aad)

\* The chunk layout: version byte, nonce, ciphertext, tag.
Blob(key, aadBytes, chunk) ==
    [cipher |-> "xchacha", ver |-> V3_REPO_UID_KEY_VERSION, key |-> key, aad |-> aadBytes,
     body |-> chunk.data, len |-> OVERHEAD("xchacha") + chunk.size, whole |-> TRUE]

\* The layout of the AES engine has no version byte: its first byte is of the
\* nonce and may be any, here the one the chunk engine would read.
AesBlob(key, aadBytes, chunk) ==
    [Blob(key, aadBytes, chunk) EXCEPT
        !.cipher = "aes", !.len = OVERHEAD("aes") + chunk.size]

\* encrypt_with_aad, under a fresh nonce.  Refused is the error of check.
EncryptWithAad(key, chunk, aad, Refused) ==
    IF Check(aad) THEN Blob(key, CipherAad(V3_REPO_UID_KEY_VERSION, aad), chunk) ELSE Refused

\* XChaChaChunkEngine::encrypt: no identity is bound.
Encrypt(key, chunk) == Blob(key, <<>>, chunk)

\* AesEncryptionEngine::encrypt_chunk and encrypt.
AesEncryptChunk(key, chunk, aad, Refused) ==
    IF Check(aad) THEN AesBlob(key, CanonicalAadBytes(aad), chunk) ELSE Refused
AesEncrypt(key, chunk) == AesBlob(key, <<>>, chunk)

-----------------------------------------------------------------------------
\* The slices an engine takes exist only if the blob is long enough: indexing
\* past the end panics.
Sliceable(cipher, b) == b.len >= VERSION_SIZE[cipher] + NONCE_SIZE[cipher]

\* The AEAD itself.
Opened(cipher, b, key, aadBytes) ==
    IF ~ Sliceable(cipher, b) THEN [err |-> "panic"]
    ELSE IF b.whole /\ b.cipher = cipher /\ b.key = key /\ b.aad = aadBytes
         THEN [plain |-> b.body]
         ELSE [err |-> "auth"]

\* The shortest blob an engine looks into.
MinLength(cipher) == IF cipher = "xchacha" THEN OVERHEAD(cipher) ELSE NONCE_SIZE[cipher]

\* version_of and the length test, before anything else is read.
Header(b) ==
    IF b.len = 0 THEN "empty"
    ELSE IF ~ ParseVersion(b.ver) THEN "version"
    ELSE IF b.len < MinLength("xchacha") THEN "short"
    ELSE "ok"

\* decrypt_with_aad, under the version byte observed.
DecryptWithAad(b, key, aad) ==
    IF Header(b) # "ok" THEN [err |-> Header(b)]
    ELSE IF ~ Check(aad) THEN [err |-> "refused"]
    ELSE Opened("xchacha", b, key, CipherAad(b.ver, aad))

\* XChaChaChunkEngine::decrypt.
Decrypt(b, key) ==
    IF Header(b) # "ok" THEN [err |-> Header(b)] ELSE Opened("xchacha", b, key, <<>>)

\* AesEncryptionEngine::decrypt_chunk and decrypt.
AesDecryptChunk(b, key, aad) ==
    IF b.len < MinLength("aes") THEN [err |-> "short"]
    ELSE IF ~ Check(aad) THEN [err |-> "refused"]
    ELSE Opened("aes", b, key, CanonicalAadBytes(aad))
AesDecrypt(b, key) ==
    IF b.len < MinLength("aes") THEN [err |-> "short"] ELSE Opened("aes", b, key, <<>>)

-----------------------------------------------------------------------------
\* The EncryptionEngine trait: whichever engine, over a chunk's identity or
\* over None for a raw payload.
SealBy(cipher, key, chunk, aad, None) ==
    IF aad = None
    THEN IF cipher = "xchacha" THEN Encrypt(key, chunk) ELSE AesEncrypt(key, chunk)
    ELSE IF cipher = "xchacha" THEN EncryptWithAad(key, chunk, aad, None)
                               ELSE AesEncryptChunk(key, chunk, aad, None)
OpenBy(cipher, b, key, aad, None) ==
    IF aad = None
    THEN IF cipher = "xchacha" THEN Decrypt(b, key) ELSE AesDecrypt(b, key)
    ELSE IF cipher = "xchacha" THEN DecryptWithAad(b, key, aad)
                               ELSE AesDecryptChunk(b, key, aad)
=============================================================================
