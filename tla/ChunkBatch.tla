----------------------------- MODULE ChunkBatch -----------------------------
(***************************************************************************)
(* Sealing and opening chunks through gitcellar-crypto's EncryptionEngine  *)
(* (gitcellar-crypto/src/encryption.rs) over a storage provider nobody     *)
(* trusts.  A batch spawns one blocking task per chunk and awaits them in  *)
(* order; the tasks finish in any order and any of them may fail.  A       *)
(* client that reads is given, for each identity its manifest names, any   *)
(* blob the provider holds, whole or cut, its version byte flipped or not. *)
(*                                                                         *)
(* Version v of the repository's key has the root key v.  Everyone who     *)
(* ever held a version keeps its key and may seal with it under any        *)
(* identity: a removed collaborator is one of the clients.                 *)
(***************************************************************************)
EXTENDS ChunkCipher, FiniteSets

CONSTANTS
    Client,    \* engines at work
    Uid,       \* repository ids, as bytes
    Chunk,     \* chunks: [hash, size, data]
    Aad,       \* the identities callers and manifests name: ChunkAad values
    Cipher,    \* the engines in use: "xchacha", the one of every batch, and maybe "aes"
    MaxKey,    \* key versions are 1 .. MaxKey
    MaxBatch,  \* bound: chunks in a batch
    MaxBlobs,  \* bound: what is ever sealed
    NoVersion  \* an engine that was never told its key version

ASSUME BatchAssumption ==
    /\ Cipher \subseteq {"xchacha", "aes"} /\ "xchacha" \in Cipher
    /\ MaxKey \in Nat /\ MaxBatch \in Nat /\ MaxBlobs \in Nat
    /\ NoVersion \notin 0 .. MaxKey
    /\ \A a \in Aad : /\ a = ChunkAad(a.repo_uid, a.chunk_name, a.key_version, a.size)
                      /\ a.repo_uid \in Seq(Nat) /\ a.chunk_name \in Seq(Nat)
                      /\ a.key_version \in Nat /\ a.size \in Nat
    /\ \A u \in Uid : u \in Seq(Nat)
    /\ \A x \in Chunk : x.hash \in Seq(Nat) /\ x.size \in Nat

\* No blob, no identity, no result yet.
None == [op |-> "none"]

VARIABLES
    store,   \* the blobs the provider holds
    sealed,  \* history: what was sealed, [cipher, key, aad, plain]
    job,     \* per client: the batch under way
    answer   \* per client: what its last call returned

vars == <<store, sealed, job, answer>>

Version == 1 .. MaxKey
Batches(S) == UNION {[1 .. n -> S] : n \in 0 .. MaxBatch}

Idle == [op |-> "idle"]
NoAnswer == [op |-> "none"]

Init ==
    /\ store = {}
    /\ sealed = {}
    /\ job = [c \in Client |-> Idle]
    /\ answer = [c \in Client |-> NoAnswer]

\* derive_k_repo and chunk_engine, for the key version an engine was built on.
ChunkKey(v) == DeriveContentKey(v)

Sealing(cipher, v, aad, plain) ==
    [cipher |-> cipher, key |-> ChunkKey(v), aad |-> aad, plain |-> plain]

\* The bound on what is ever sealed.
Room(n) == Cardinality(sealed) + n <= MaxBlobs

Returns(c, a) == answer' = [answer EXCEPT ![c] = a]

-----------------------------------------------------------------------------
\* encrypt_chunk and encrypt_chunk_e1 under the identity the caller names, the
\* engines' own encrypt_chunk, and encrypt, which binds nothing (None).
EncryptChunk(c, cipher, v, chunk, aad) ==
    LET b == SealBy(cipher, ChunkKey(v), chunk, aad, None)
    IN  /\ job[c] = Idle /\ Room(1)
        /\ IF b = None
           THEN /\ Returns(c, [op |-> "error"])
                /\ UNCHANGED <<store, sealed>>
           ELSE /\ Returns(c, NoAnswer)
                /\ store' = store \cup {b}
                /\ sealed' = sealed \cup {Sealing(cipher, v, aad, chunk.data)}
        /\ UNCHANGED job

\* batch_key_version: never a guess.
BatchKeyVersion(told) ==
    IF told = NoVersion THEN [ok |-> FALSE, v |-> 0]
    ELSE [ok |-> told >= 1, v |-> told]

\* content_chunk_aad.
ContentChunkAad(uid, chunk, v) == Content(uid, chunk.hash, v, chunk.size)

\* encrypt_chunks_parallel and encrypt_chunks_e1_parallel up to the first await:
\* the version, then every chunk's identity, or nothing is returned.  The code
\* spawns each task as soon as its chunk's identity is built, so that tasks
\* of earlier chunks run although a later one is refused; nobody sees their
\* results.  A caller tells the engine its true version, version 0 or nothing.
StartSeal(c, v, told, uid, chunks) ==
    LET kv == BatchKeyVersion(told)
        aads == [i \in DOMAIN chunks |-> ContentChunkAad(uid, chunks[i], kv.v)]
    IN  /\ job[c] = Idle /\ Room(Len(chunks))
        /\ told \in {v, 0, NoVersion}
        /\ IF kv.ok /\ \A i \in DOMAIN chunks : Check(aads[i])
           THEN /\ job' = [job EXCEPT ![c] =
                      [op |-> "seal", v |-> v, uid |-> uid, in |-> chunks, aads |-> aads,
                       task |-> [i \in DOMAIN chunks |-> None], out |-> <<>>]]
                /\ Returns(c, NoAnswer)
           ELSE /\ Returns(c, [op |-> "error"])
                /\ UNCHANGED job
        /\ UNCHANGED <<store, sealed>>

\* decrypt_chunks_parallel up to its first await: one identity per blob.
StartOpen(c, v, blobs, aads) ==
    /\ job[c] = Idle
    /\ IF Len(blobs) # Len(aads)
       THEN /\ Returns(c, [op |-> "error"])
            /\ UNCHANGED job
       ELSE /\ job' = [job EXCEPT ![c] =
                  [op |-> "open", v |-> v, uid |-> None, in |-> blobs, aads |-> aads,
                   task |-> [i \in DOMAIN blobs |-> None], out |-> <<>>]]
            /\ Returns(c, NoAnswer)
    /\ UNCHANGED <<store, sealed>>

\* The blocking pool runs a task; one that panics or is cancelled ends in a
\* join error.
RunTask(c, i) ==
    LET j == job[c]
        result == IF j.op = "seal"
                  THEN EncryptWithAad(ChunkKey(j.v), j.in[i], j.aads[i], None)
                  ELSE DecryptWithAad(j.in[i], ChunkKey(j.v), j.aads[i])
    IN  /\ j # Idle /\ i \in DOMAIN j.in /\ j.task[i] = None
        /\ \/ /\ job' = [job EXCEPT ![c].task[i] = result]
              /\ sealed' = IF j.op = "seal"
                           THEN sealed \cup {Sealing("xchacha", j.v, j.aads[i], j.in[i].data)}
                           ELSE sealed
           \/ /\ job' = [job EXCEPT ![c].task[i] = [err |-> "join"]]
              /\ UNCHANGED sealed
        /\ UNCHANGED <<store, answer>>

Failed(r) == "err" \in DOMAIN r

\* Mutant of NextAwaited: the tasks are popped off the end of the list.
NextPopped(j) == {i \in {Len(j.in) - Len(j.out)} : j.task[i] # None}

\* The tasks are awaited in the order they were spawned.
NextAwaited(j) == {i \in {Len(j.out) + 1} : j.task[i] # None}

\* Mutant of Await: a failed task is spawned again.
AwaitRetrying(c) ==
    LET j == job[c]
    IN  /\ j # Idle /\ Len(j.out) < Len(j.in)
        /\ \E i \in NextAwaited(j) :
             job' = [job EXCEPT ![c] = IF Failed(j.task[i])
                                       THEN [@ EXCEPT !.task[i] = None]
                                       ELSE [@ EXCEPT !.out = Append(@, j.task[i])]]
        /\ UNCHANGED <<store, sealed, answer>>

\* One await: a result is kept, the first failure ends the call and the other
\* tasks' results are lost.
Await(c) ==
    LET j == job[c]
    IN  /\ j # Idle /\ Len(j.out) < Len(j.in)
        /\ \E i \in NextAwaited(j) :
             IF Failed(j.task[i])
             THEN /\ job' = [job EXCEPT ![c] = Idle]
                  /\ Returns(c, [op |-> "error"])
             ELSE /\ job' = [job EXCEPT ![c].out = Append(@, j.task[i])]
                  /\ UNCHANGED answer
        /\ UNCHANGED <<store, sealed>>

\* The call returns; what it sealed goes to the provider.
Finish(c) ==
    LET j == job[c]
    IN  /\ j # Idle /\ Len(j.out) = Len(j.in)
        /\ job' = [job EXCEPT ![c] = Idle]
        /\ Returns(c, [op |-> j.op, v |-> j.v, uid |-> j.uid, in |-> j.in,
                       aads |-> j.aads, out |-> j.out])
        /\ store' = IF j.op = "seal" THEN store \cup {j.out[i] : i \in DOMAIN j.out}
                    ELSE store
        /\ UNCHANGED sealed

\* decrypt_chunk, decrypt_with_aad and decrypt: one blob under one identity,
\* or under none.
DecryptChunk(c, cipher, v, b, aad) ==
    LET r == OpenBy(cipher, b, ChunkKey(v), aad, None)
    IN  /\ job[c] = Idle
        /\ Returns(c, IF Failed(r) THEN [op |-> "failed", why |-> r.err]
                      ELSE [op |-> "opened", cipher |-> cipher, v |-> v,
                            aad |-> aad, plain |-> r.plain])
        /\ UNCHANGED <<store, sealed, job>>

\* What the provider may serve for a blob it holds: the blob, its version byte
\* changed, or a part of it.
Flipped(b, byte) == [b EXCEPT !.ver = byte]
Cut(b, n) == [b EXCEPT !.len = n, !.whole = FALSE]
Served ==
    store
    \cup {Flipped(b, x) : b \in store, x \in {V2_KEYED_CDC_NAMING, V4_AES_256_GCM_SIV}}
    \cup {Cut(b, n) : b \in store, n \in {0, 5, 30}}

Next ==
    \/ \E c \in Client, cipher \in Cipher, v \in Version, chunk \in Chunk,
          aad \in Aad \cup {None} : EncryptChunk(c, cipher, v, chunk, aad)
    \/ \E c \in Client, v \in Version, told \in 0 .. MaxKey \cup {NoVersion}, uid \in Uid,
          chunks \in Batches(Chunk) : StartSeal(c, v, told, uid, chunks)
    \/ \E c \in Client, v \in Version, blobs \in Batches(store), aads \in Batches(Aad) :
         StartOpen(c, v, blobs, aads)
    \/ \E c \in Client, i \in 1 .. MaxBatch : RunTask(c, i)
    \/ \E c \in Client : Await(c) \/ Finish(c)
    \/ \E c \in Client, cipher \in Cipher, v \in Version, b \in Served, aad \in Aad \cup {None} :
         DecryptChunk(c, cipher, v, b, aad)

Spec == Init /\ [][Next]_vars

\* The pool runs every task it was given, and the awaiting call makes progress.
FairSpec == Spec /\ \A c \in Client : /\ \A i \in 1 .. MaxBatch : WF_vars(RunTask(c, i))
                                      /\ WF_vars(Await(c)) /\ WF_vars(Finish(c))

-----------------------------------------------------------------------------
TypeOK ==
    /\ \A b \in store : b.whole /\ b.cipher \in Cipher /\ b.ver = V3_REPO_UID_KEY_VERSION
    /\ \A s \in sealed : s.cipher \in Cipher /\ (s.aad = None \/ Check(s.aad))
    /\ \A c \in Client : job[c] # Idle => Len(job[c].out) <= Len(job[c].task)

\* The batches of one client return: result i is chunk i, and it opens for
\* whoever reads it at the version the key really has (batch_key_version,
\* content_chunk_aad, the awaits of encrypt_chunks_parallel).
BatchOpens ==
    \A c \in Client :
        LET a == answer[c]
        IN  a.op = "seal" =>
              /\ Len(a.out) = Len(a.in)
              /\ \A i \in DOMAIN a.in :
                   DecryptWithAad(a.out[i], ChunkKey(a.v),
                                  Content(a.uid, a.in[i].hash, a.v, a.in[i].size))
                     = [plain |-> a.in[i].data]

\* What a client opens under an identity was sealed under exactly that
\* identity and key: no splice, no substitute of another repository, name,
\* size or key version, no chunk for a raw payload; anything else, however
\* short, is refused with an error and never indexed past its end
\* (decrypt_with_aad, AesEncryptionEngine::decrypt_chunk).
OpensAsSealed ==
    \A c \in Client :
        LET a == answer[c]
        IN  /\ a.op = "opened" => Sealing(a.cipher, a.v, a.aad, a.plain) \in sealed
            /\ a.op = "open" =>
                 \A i \in DOMAIN a.in :
                    Sealing("xchacha", a.v, a.aads[i], a.out[i].plain) \in sealed
            /\ a.op = "failed" => a.why # "panic"

\* A batch that was started returns, whichever of its tasks fail.
BatchReturns == \A c \in Client : job[c] # Idle ~> job[c] = Idle

\* A batch goes from j to k: a task that was pending ends, for good; the result
\* that is due is kept; or the call returns, all results kept or the one that
\* is due a failure.
BatchMoves(j, k) ==
    \/ /\ k = Idle
       /\ Len(j.out) = Len(j.in) \/ Failed(j.task[Len(j.out) + 1])
    \/ /\ k.in = j.in /\ k.out = j.out
       /\ \E i \in DOMAIN j.in :
            /\ j.task[i] = None /\ k.task[i] # None
            /\ \A n \in DOMAIN j.in \ {i} : k.task[n] = j.task[n]
    \/ /\ k.in = j.in /\ k.task = j.task
       /\ Len(k.out) = Len(j.out) + 1 /\ Len(k.out) <= Len(k.in)

\* BatchReturns without its fairness: a step that touches a batch brings it
\* nearer its return, so there are at most two per chunk and one more.
BatchAdvances ==
    \A c \in Client :
        job[c] # Idle /\ job'[c] # job[c] => BatchMoves(job[c], job'[c])
=============================================================================
