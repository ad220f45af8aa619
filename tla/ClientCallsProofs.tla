-------------------------- MODULE ClientCallsProofs --------------------------
(***************************************************************************)
(* What the calls of a client program keep, for every value of the         *)
(* constants: chunks sealed and opened over a provider nobody trusts       *)
(* (ChunkBatch), the bounded HTTP reader (BoundedRead), allocations and    *)
(* errors across the FFI (FfiHandles), the entries of the credential store *)
(* (CredentialStore), and the search for a mistyped word (ClosestWord).    *)
(* Each part has its inductive invariant, one lemma for each action, and   *)
(* its theorems last.                                                      *)
(***************************************************************************)
EXTENDS ChunkBatch, CredentialStore, FfiHandles, BoundedRead, ClosestWord,
        SequenceTheorems, FiniteSetTheorems, TLAPS

-----------------------------------------------------------------------------
(* ChunkBatch *)

\* A field ended by a NUL, and what follows it.
Field(u, r) == (u \o <<0>>) \o r

\* Where the elements of a terminated field and of what follows it are.
LEMMA FieldElements ==
  ASSUME NEW u \in Seq(Nat), NEW r \in Seq(Nat)
  PROVE  /\ Field(u, r) \in Seq(Nat)
         /\ Len(Field(u, r)) = Len(u) + 1 + Len(r)
         /\ \A i \in 1 .. Len(u) : Field(u, r)[i] = u[i]
         /\ Field(u, r)[Len(u) + 1] = 0
         /\ \A i \in 1 .. Len(r) : Field(u, r)[Len(u) + 1 + i] = r[i]
<1> DEFINE p == u \o <<0>>
<1>1. p \in Seq(Nat) /\ Len(p) = Len(u) + 1
  OBVIOUS
<1>2. \A i \in 1 .. Len(u) : p[i] = u[i]
  OBVIOUS
<1>3. p[Len(u) + 1] = 0
  OBVIOUS
<1> HIDE DEF p
<1>4. Field(u, r) = p \o r
  BY DEF p, Field
<1>5. p \o r \in Seq(Nat) /\ Len(p \o r) = Len(p) + Len(r)
  BY <1>1, ConcatProperties
<1>6. \A i \in 1 .. Len(p) + Len(r) :
         (p \o r)[i] = IF i <= Len(p) THEN p[i] ELSE r[i - Len(p)]
  BY <1>1, ConcatProperties
<1> DEFINE s == p \o r
<1> HIDE DEF s
<1>7. Len(u) \in Nat /\ Len(r) \in Nat
  OBVIOUS
<1>8. \A i \in 1 .. Len(p) + Len(r) : s[i] = IF i <= Len(p) THEN p[i] ELSE r[i - Len(p)]
  BY <1>6 DEF s
<1>9. ASSUME NEW i \in 1 .. Len(u) PROVE s[i] = u[i]
  <2>1. i \in 1 .. Len(p) + Len(r) /\ i <= Len(p)
    BY <1>1, <1>7
  <2> QED BY <2>1, <1>2, <1>8
<1>10. s[Len(u) + 1] = 0
  BY <1>1, <1>3, <1>7, <1>8
<1>11. ASSUME NEW i \in 1 .. Len(r) PROVE s[Len(u) + 1 + i] = r[i]
  <2>1. Len(u) + 1 + i \in 1 .. Len(p) + Len(r) /\ ~(Len(u) + 1 + i <= Len(p))
    BY <1>1, <1>7
  <2>2. Len(u) + 1 + i - Len(p) = i
    BY <1>1, <1>7
  <2>3. s[Len(u) + 1 + i] = r[Len(u) + 1 + i - Len(p)]
    BY <2>1, <1>8
  <2> QED BY <2>2, <2>3
<1> QED BY <1>1, <1>4, <1>5, <1>9, <1>10, <1>11 DEF s

(* A field with its terminator is never empty.                              *)
LEMMA FieldNotEmpty ==
  ASSUME NEW u \in Seq(Nat), NEW r \in Seq(Nat)
  PROVE  Field(u, r) # <<>>
<1> DEFINE m == Len(u)
           n == Len(r)
           l == Len(Field(u, r))
<1>1. m \in Nat /\ n \in Nat /\ l = m + 1 + n
  <2>1. Len(Field(u, r)) = Len(u) + 1 + Len(r)
    BY FieldElements, Zenon
  <2>2. Len(u) \in Nat /\ Len(r) \in Nat
    OBVIOUS
  <2> QED BY <2>1, <2>2
<1> HIDE DEF m, n, l
<1>2. l # 0
  BY <1>1
<1>3. Len(Field(u, r)) # 0
  BY <1>2 DEF l
<1> QED BY <1>3

\* A field that holds no NUL and ends in one is read back: where it ends and
\* what follows it are determined by the bytes.
LEMMA Terminated ==
  ASSUME NEW u \in Seq(Nat), NEW w \in Seq(Nat), ~HasNul(u), ~HasNul(w),
         NEW r \in Seq(Nat), NEW t \in Seq(Nat),
         Field(u, r) = Field(w, t)
  PROVE  u = w /\ r = t
<1> DEFINE s == Field(u, r)
<1>3. /\ Len(s) = Len(u) + 1 + Len(r)
      /\ \A i \in 1 .. Len(u) : s[i] = u[i]
      /\ s[Len(u) + 1] = 0
      /\ \A i \in 1 .. Len(r) : s[Len(u) + 1 + i] = r[i]
  BY FieldElements, Zenon
<1>4. /\ Len(s) = Len(w) + 1 + Len(t)
      /\ \A i \in 1 .. Len(w) : s[i] = w[i]
      /\ s[Len(w) + 1] = 0
      /\ \A i \in 1 .. Len(t) : s[Len(w) + 1 + i] = t[i]
  <2>1. s = Field(w, t)
    OBVIOUS
  <2>2. /\ Len(Field(w, t)) = Len(w) + 1 + Len(t)
        /\ \A i \in 1 .. Len(w) : Field(w, t)[i] = w[i]
        /\ Field(w, t)[Len(w) + 1] = 0
        /\ \A i \in 1 .. Len(t) : Field(w, t)[Len(w) + 1 + i] = t[i]
    BY FieldElements, Zenon
  <2> HIDE DEF s
  <2> QED BY <2>1, <2>2, Zenon
<1> HIDE DEF s
<1>5. \A i \in 1 .. Len(u) : u[i] # 0
  BY DEF HasNul
<1>6. \A i \in 1 .. Len(w) : w[i] # 0
  BY DEF HasNul
<1>7. Len(u) = Len(w)
  <2>1. Len(u) \in Nat /\ Len(w) \in Nat
    OBVIOUS
  <2>2. ~(Len(u) < Len(w))
    <3> SUFFICES ASSUME Len(u) < Len(w) PROVE FALSE
      OBVIOUS
    <3>1. Len(u) + 1 \in 1 .. Len(w)
      BY <2>1
    <3> QED BY <3>1, <1>3, <1>4, <1>6
  <2>3. ~(Len(w) < Len(u))
    <3> SUFFICES ASSUME Len(w) < Len(u) PROVE FALSE
      OBVIOUS
    <3>1. Len(w) + 1 \in 1 .. Len(u)
      BY <2>1
    <3> QED BY <3>1, <1>3, <1>4, <1>5
  <2> QED BY <2>1, <2>2, <2>3
<1>8. u = w
  <2>1. \A i \in 1 .. Len(u) : u[i] = w[i]
    BY <1>3, <1>4, <1>7
  <2> QED BY <2>1, <1>7, SeqEqual
<1>9. Len(r) = Len(t)
  <2>1. Len(u) \in Nat /\ Len(r) \in Nat /\ Len(t) \in Nat
    OBVIOUS
  <2> QED BY <1>3, <1>4, <1>7, <2>1
<1>10. r = t
  <2>1. \A i \in 1 .. Len(r) : r[i] = t[i]
    BY <1>3, <1>4, <1>7, <1>9
  <2> QED BY <2>1, <1>9, SeqEqual
<1> QED BY <1>8, <1>10

-----------------------------------------------------------------------------
\* What canonical_aad_bytes encodes.
Identity == [repo_uid : Seq(Nat), chunk_name : Seq(Nat), key_version : Nat,
             stream_offset : {0}, size : Nat]

(* Every identity a caller or a manifest names has its fields.              *)
LEMMA NamesIdentities ==
  /\ \A a \in Aad : a \in Identity
  /\ \A u \in Uid, x \in Chunk, v \in Nat : Content(u, x.hash, v, x.size) \in Identity
BY BatchAssumption DEF BatchAssumption, ChunkAad, Content, Identity

(* Concatenation of bytes may be regrouped.                                 *)
LEMMA Regroup ==
  ASSUME NEW s \in Seq(Nat), NEW t \in Seq(Nat), NEW u \in Seq(Nat)
  PROVE  (s \o t) \o u = s \o (t \o u)
  BY ConcatAssociative, SMTT(60)

(* The encoding of a checked identity, as its two terminated fields and its *)
(* tail.                                                                    *)
LEMMA BytesSplit ==
  ASSUME NEW a \in Identity
  PROVE  /\ CanonicalAadBytes(a) \in Seq(Nat)
         /\ CanonicalAadBytes(a) =
              Field(a.repo_uid,
                    Field(a.chunk_name, <<a.key_version, a.stream_offset, a.size>>))
<1> DEFINE p == a.repo_uid \o <<0>>
           n == a.chunk_name
           t == <<a.key_version, a.stream_offset, a.size>>
<1>1. p \in Seq(Nat) /\ n \in Seq(Nat) /\ t \in Seq(Nat) /\ <<0>> \in Seq(Nat)
  BY DEF Identity
<1>2. CanonicalAadBytes(a) = ((p \o n) \o <<0>>) \o t
  BY DEF CanonicalAadBytes
<1> HIDE DEF p, n, t
<1>3. (p \o n) \o <<0>> = p \o (n \o <<0>>)
  BY <1>1, Regroup, Zenon
<1>4. n \o <<0>> \in Seq(Nat)
  BY <1>1, ConcatProperties
<1>5. (p \o (n \o <<0>>)) \o t = p \o ((n \o <<0>>) \o t)
  <2> DEFINE m == n \o <<0>>
  <2> HIDE DEF m
  <2>1. m \in Seq(Nat)
    BY <1>4 DEF m
  <2>2. (p \o m) \o t = p \o (m \o t)
    BY <1>1, <2>1, Regroup, Zenon
  <2> QED BY <2>2 DEF m
<1>6. p \o ((n \o <<0>>) \o t) \in Seq(Nat)
  BY <1>1, <1>4, ConcatProperties
<1> QED BY <1>2, <1>3, <1>5, <1>6 DEF p, n, t, Field

\* Two identities that pass check have different bytes (chunk_format.rs).
THEOREM AadInjective ==
  ASSUME NEW a \in Identity, NEW b \in Identity, Check(a), Check(b),
         CanonicalAadBytes(a) = CanonicalAadBytes(b)
  PROVE  a = b
<1> DEFINE t(x) == <<x.key_version, x.stream_offset, x.size>>
<1>1. \A x \in {a, b} : /\ x.repo_uid \in Seq(Nat) /\ x.chunk_name \in Seq(Nat)
                       /\ t(x) \in Seq(Nat)
                       /\ ~HasNul(x.repo_uid) /\ ~HasNul(x.chunk_name)
  BY DEF Identity, Check
<1>2. \A x \in {a, b} : Field(x.chunk_name, t(x)) \in Seq(Nat)
  <2> HIDE DEF t
  <2> QED BY <1>1, FieldElements
<1>3. Field(a.repo_uid, Field(a.chunk_name, t(a))) = Field(b.repo_uid, Field(b.chunk_name, t(b)))
  BY BytesSplit
<1> HIDE DEF t
<1>4. /\ a.repo_uid = b.repo_uid
      /\ Field(a.chunk_name, t(a)) = Field(b.chunk_name, t(b))
  BY <1>1, <1>2, <1>3, Terminated
<1>5. a.chunk_name = b.chunk_name /\ t(a) = t(b)
  BY <1>1, <1>4, Terminated
<1>6. /\ a.key_version = b.key_version /\ a.stream_offset = b.stream_offset
      /\ a.size = b.size
  BY <1>5 DEF t
<1> QED BY <1>4, <1>5, <1>6 DEF Identity

\* The associated data an engine binds for an identity, or for none.
BoundBytes(cipher, aad) ==
    IF aad = None THEN <<>>
    ELSE IF cipher = "xchacha" THEN CipherAad(V3_REPO_UID_KEY_VERSION, aad)
    ELSE CanonicalAadBytes(aad)

(* What may be sealed under: nothing, or an identity that passes its check. *)
Sealable(aad) == aad = None \/ (aad \in Identity /\ Check(aad))

(* No identity is the absence of one.                                       *)
LEMMA IdentityNotNone == None \notin Identity
BY DEF None, Identity

\* What a blob binds tells which identity it was sealed under, and that it
\* was sealed under one.
LEMMA BoundInjective ==
  ASSUME NEW cipher, NEW a, NEW b, Sealable(a), Sealable(b),
         BoundBytes(cipher, a) = BoundBytes(cipher, b)
  PROVE  a = b
<1>1. ASSUME NEW x \in Identity
      PROVE  BoundBytes(cipher, x) # <<>>
  <2> DEFINE t == <<x.key_version, x.stream_offset, x.size>>
  <2>1. /\ CanonicalAadBytes(x) \in Seq(Nat)
        /\ CanonicalAadBytes(x) = Field(x.repo_uid, Field(x.chunk_name, t))
    BY BytesSplit
  <2>2. CanonicalAadBytes(x) # <<>>
    <3>1. x.repo_uid \in Seq(Nat) /\ x.chunk_name \in Seq(Nat) /\ t \in Seq(Nat)
      BY DEF Identity
    <3> HIDE DEF t
    <3>2. Field(x.chunk_name, t) \in Seq(Nat)
      BY <3>1, FieldElements
    <3>3. Field(x.repo_uid, Field(x.chunk_name, t)) # <<>>
      BY <3>1, <3>2, FieldNotEmpty
    <3> QED BY <2>1, <3>3
  <2>3. x # None
    BY IdentityNotNone
  <2>4. CASE cipher = "xchacha"
    <3>1. BoundBytes(cipher, x) = <<3>> \o CanonicalAadBytes(x)
      BY <2>3, <2>4 DEF BoundBytes, CipherAad, V3_REPO_UID_KEY_VERSION
    <3> QED BY <2>1, <3>1
  <2>5. CASE cipher # "xchacha"
    BY <2>1, <2>2, <2>3, <2>5 DEF BoundBytes
  <2> QED BY <2>4, <2>5
<1>2. CASE a = None \/ b = None
  BY <1>1, <1>2 DEF Sealable, BoundBytes
<1>3. CASE a # None /\ b # None
  <2>1. a \in Identity /\ b \in Identity /\ Check(a) /\ Check(b)
    BY <1>3 DEF Sealable
  <2>2. CASE cipher = "xchacha"
    <3>1. <<3>> \o CanonicalAadBytes(a) = <<3>> \o CanonicalAadBytes(b)
      BY <1>3, <2>2 DEF BoundBytes, CipherAad, V3_REPO_UID_KEY_VERSION
    <3>2. CanonicalAadBytes(a) \in Seq(Nat) /\ CanonicalAadBytes(b) \in Seq(Nat)
      BY <2>1, BytesSplit
    <3>4. <<3>> \in Seq(Nat)
      OBVIOUS
    <3>3. CanonicalAadBytes(a) = CanonicalAadBytes(b)
      BY <3>1, <3>2, <3>4, ConcatSimplifications
    <3> QED BY <2>1, <3>3, AadInjective
  <2>3. CASE cipher # "xchacha"
    BY <1>3, <2>1, <2>3, AadInjective DEF BoundBytes
  <2> QED BY <2>2, <2>3
<1> QED BY <1>2, <1>3

-----------------------------------------------------------------------------
\* f is a list of n elements.
Listed(f, n) == n \in Nat /\ f = [i \in 1 .. n |-> f[i]]

(* A list is a sequence of its length.                                      *)
LEMMA ListedSeq ==
  ASSUME NEW n, NEW f, Listed(f, n)
  PROVE  /\ f \in Seq({f[i] : i \in 1 .. n})
         /\ Len(f) = n /\ DOMAIN f = 1 .. n
<1> DEFINE S == {f[i] : i \in 1 .. n}
<1>1. n \in Nat /\ DOMAIN f = 1 .. n
  BY DEF Listed
<1>2. f \in [1 .. n -> S]
  BY DEF Listed
<1> HIDE DEF S
<1>3. f \in Seq(S)
  BY <1>1, <1>2, SeqDef
<1>4. Len(f) \in Nat /\ DOMAIN f = 1 .. Len(f)
  BY <1>3, LenProperties
<1>5. Len(f) = n
  BY <1>1, <1>4
<1> QED BY <1>1, <1>3, <1>5 DEF S

(* Appending to a list.                                                     *)
LEMMA ListedAppend ==
  ASSUME NEW n, NEW f, NEW e, Listed(f, n)
  PROVE  /\ Listed(Append(f, e), n + 1)
         /\ Append(f, e)[n + 1] = e
         /\ \A i \in 1 .. n : Append(f, e)[i] = f[i]
<1> DEFINE S == {f[i] : i \in 1 .. n} \cup {e}
<1>1. n \in Nat /\ Len(f) = n /\ f \in Seq({f[i] : i \in 1 .. n})
  BY ListedSeq DEF Listed
<1>2. {f[i] : i \in 1 .. n} \subseteq S /\ e \in S
  OBVIOUS
<1> HIDE DEF S
<1>3. f \in Seq(S)
  BY <1>1, <1>2, SeqMonotonic
<1>4. /\ Append(f, e) \in Seq(S) /\ Len(Append(f, e)) = n + 1
      /\ \A i \in 1 .. n : Append(f, e)[i] = f[i]
      /\ Append(f, e)[n + 1] = e
  BY <1>1, <1>2, <1>3, AppendProperties
<1>5. Append(f, e) \in [1 .. n + 1 -> S]
  BY <1>4, LenProperties
<1>6. Listed(Append(f, e), n + 1)
  BY <1>1, <1>5 DEF Listed
<1> QED BY <1>4, <1>6

(* Replacing one element of a list.                                         *)
LEMMA ListedExcept ==
  ASSUME NEW n, NEW f, NEW i, NEW e, Listed(f, n)
  PROVE  Listed([f EXCEPT ![i] = e], n)
BY DEF Listed

(* Every batch is a list, with its elements in the set it is drawn from.    *)
LEMMA BatchesListed ==
  ASSUME NEW S, NEW f \in Batches(S)
  PROVE  Listed(f, Len(f)) /\ Len(f) \in 0 .. MaxBatch /\ \A i \in 1 .. Len(f) : f[i] \in S
<1>1. PICK n \in 0 .. MaxBatch : f \in [1 .. n -> S]
  BY DEF Batches
<1>2. n \in Nat
  BY BatchAssumption DEF BatchAssumption
<1>3. Listed(f, n)
  BY <1>1, <1>2 DEF Listed
<1>4. Len(f) = n
  BY <1>3, ListedSeq
<1> QED BY <1>1, <1>3, <1>4

-----------------------------------------------------------------------------
\* What is sealed records an identity that passed check, or none.
SealedInv ==
    \A s \in sealed :
        /\ s = [cipher |-> s.cipher, key |-> s.key, aad |-> s.aad, plain |-> s.plain]
        /\ s.cipher \in Cipher /\ Sealable(s.aad)

\* b is the blob of the sealing s.
BlobOf(b, s) ==
    /\ s.cipher = b.cipher /\ s.key = b.key /\ s.plain = b.body
    /\ b.aad = BoundBytes(b.cipher, s.aad)

(* A blob with its fields.                                                  *)
WellFormed(b) ==
    /\ b = [cipher |-> b.cipher, ver |-> b.ver, key |-> b.key, aad |-> b.aad,
            body |-> b.body, len |-> b.len, whole |-> b.whole]
    /\ b.len \in Nat

\* A blob as an engine made it.
Made(b) ==
    /\ WellFormed(b) /\ b.cipher \in Cipher
    /\ b.ver = V3_REPO_UID_KEY_VERSION /\ b.whole = TRUE
    /\ b.len >= OVERHEAD(b.cipher)

\* Everything the provider holds was sealed, and is whole.
StoreInv == \A b \in store : Made(b) /\ \E s \in sealed : BlobOf(b, s)

(* A task that has not run, or that was lost.                               *)
Pending == {None, [err |-> "join"]}

\* A sealing job over the sealings S: the identities it computed, and what its tasks have made.
SealJob(j, S) ==
    /\ j.uid \in Uid
    /\ \A i \in 1 .. Len(j.in) :
         /\ j.in[i] \in Chunk
         /\ j.aads[i] = Content(j.uid, j.in[i].hash, j.v, j.in[i].size)
         /\ Check(j.aads[i])
         /\ \/ j.task[i] \in Pending
            \/ /\ j.task[i] = EncryptWithAad(ChunkKey(j.v), j.in[i], j.aads[i], None)
               /\ Sealing("xchacha", j.v, j.aads[i], j.in[i].data) \in S

\* An opening job over the blobs B.
OpenJob(j, B) ==
    \A i \in 1 .. Len(j.in) :
       /\ j.in[i] \in B /\ j.aads[i] \in Aad
       /\ j.task[i] \in Pending
            \/ j.task[i] = DecryptWithAad(j.in[i], ChunkKey(j.v), j.aads[i])

\* The results a job has kept are those of its first tasks, in order.
JobShape(j) ==
    /\ j = [op |-> j.op, v |-> j.v, uid |-> j.uid, in |-> j.in, aads |-> j.aads,
            task |-> j.task, out |-> j.out]
    /\ j.v \in Version
    /\ Listed(j.in, Len(j.in)) /\ Listed(j.aads, Len(j.in)) /\ Listed(j.task, Len(j.in))
    /\ Listed(j.out, Len(j.out)) /\ Len(j.out) <= Len(j.in)
    /\ \A i \in 1 .. Len(j.out) :
         j.out[i] = j.task[i] /\ j.task[i] # None /\ ~Failed(j.task[i])

(* A batch under way, for the blobs and the sealings there are.             *)
JobOK(j, B, S) ==
    /\ JobShape(j)
    /\ \/ j.op = "seal" /\ SealJob(j, S)
       \/ j.op = "open" /\ OpenJob(j, B)

(* Every client is idle or in a batch that is as far as it says.            *)
JobInv ==
    /\ job = [c \in Client |-> job[c]]
    /\ \A c \in Client : job[c] = Idle \/ JobOK(job[c], store, sealed)

\* What a call may have returned, over the sealings S.
AnswerOK(a, S) ==
    /\ a.op = "seal" =>
          /\ Len(a.out) = Len(a.in)
          /\ \A i \in DOMAIN a.in :
               DecryptWithAad(a.out[i], ChunkKey(a.v),
                              Content(a.uid, a.in[i].hash, a.v, a.in[i].size))
                 = [plain |-> a.in[i].data]
    /\ a.op = "opened" => Sealing(a.cipher, a.v, a.aad, a.plain) \in S
    /\ a.op = "open" =>
          \A i \in DOMAIN a.in : Sealing("xchacha", a.v, a.aads[i], a.out[i].plain) \in S
    /\ a.op = "failed" => a.why # "panic"

(* Every client was answered correctly.                                     *)
AnswerInv ==
    /\ answer = [c \in Client |-> answer[c]]
    /\ \A c \in Client : AnswerOK(answer[c], sealed)

(* The inductive invariant of ChunkBatch.                                   *)
BatchInv == SealedInv /\ StoreInv /\ JobInv /\ AnswerInv

-----------------------------------------------------------------------------
(* A blob that was sealed is longer than any cut the provider serves.       *)
LEMMA Lengths ==
  /\ OVERHEAD("xchacha") = 41 /\ OVERHEAD("aes") = 28
  /\ MinLength("xchacha") = 41 /\ MinLength("aes") = 12
  /\ VERSION_SIZE["xchacha"] + NONCE_SIZE["xchacha"] = 25
  /\ VERSION_SIZE["aes"] + NONCE_SIZE["aes"] = 12
BY DEF OVERHEAD, MinLength, VERSION_SIZE, NONCE_SIZE, TAG_SIZE

\* What an engine answers: the plaintext of a whole blob sealed under the
\* same cipher, key and identity, or an error that is no panic.
LEMMA OpenExactly ==
  ASSUME NEW cipher \in {"xchacha", "aes"}, NEW b, WellFormed(b), NEW key, NEW aad,
         NEW r, r = OpenBy(cipher, b, key, aad, None)
  PROVE  \/ /\ r = [plain |-> b.body] /\ b.whole /\ b.cipher = cipher /\ b.key = key
            /\ b.aad = BoundBytes(cipher, aad)
            /\ aad = None \/ Check(aad)
         \/ \E e \in {"empty", "version", "short", "refused", "auth"} : r = [err |-> e]
<1>1. b.len \in Nat
  BY DEF WellFormed
<1>2. CASE cipher = "xchacha"
  <2>1. Header(b) \in {"empty", "version", "short", "ok"}
    BY DEF Header
  <2>2. CASE Header(b) = "ok"
    <3>1. b.ver = V3_REPO_UID_KEY_VERSION /\ b.len >= 41
      BY <1>1, <2>2, Lengths DEF Header, ParseVersion
    <3>2. Sliceable("xchacha", b)
      BY <1>1, <3>1, Lengths DEF Sliceable
    <3>3. CASE aad = None
      BY <1>2, <2>2, <3>2, <3>3 DEF OpenBy, Decrypt, Opened, BoundBytes
    <3>4. CASE aad # None
      BY <1>2, <2>2, <3>1, <3>2, <3>4 DEF OpenBy, DecryptWithAad, Opened, BoundBytes
    <3> QED BY <3>3, <3>4
  <2>3. CASE Header(b) # "ok"
    <3>1. r = [err |-> Header(b)]
      BY <1>2, <2>3 DEF OpenBy, Decrypt, DecryptWithAad
    <3> QED BY <2>1, <2>3, <3>1
  <2> QED BY <2>2, <2>3
<1>3. CASE cipher = "aes"
  <2>1. b.len >= 12 => Sliceable("aes", b)
    BY <1>1, Lengths DEF Sliceable
  <2>2. CASE aad = None
    BY <1>1, <1>3, <2>1, <2>2, Lengths DEF OpenBy, AesDecrypt, Opened, BoundBytes
  <2>3. CASE aad # None
    BY <1>1, <1>3, <2>1, <2>3, Lengths DEF OpenBy, AesDecryptChunk, Opened, BoundBytes
  <2> QED BY <2>2, <2>3
<1> QED BY <1>2, <1>3

\* What is served was derived from a blob the provider holds.
LEMMA ServedFrom ==
  ASSUME StoreInv, NEW b \in Served
  PROVE  /\ WellFormed(b)
         /\ \E s \in sealed : BlobOf(b, s)
<1>1. CASE b \in store
  BY <1>1 DEF StoreInv, Made
<1>2. ASSUME NEW o \in store, NEW x \in {V2_KEYED_CDC_NAMING, V4_AES_256_GCM_SIV},
             b = Flipped(o, x)
      PROVE  WellFormed(b) /\ \E s \in sealed : BlobOf(b, s)
  <2>1. /\ o = [cipher |-> o.cipher, ver |-> o.ver, key |-> o.key, aad |-> o.aad,
                body |-> o.body, len |-> o.len, whole |-> o.whole]
        /\ o.len \in Nat
    BY DEF StoreInv, Made, WellFormed
  <2>2. PICK s \in sealed : BlobOf(o, s)
    BY DEF StoreInv
  <2>3. b = [cipher |-> o.cipher, ver |-> x, key |-> o.key, aad |-> o.aad,
             body |-> o.body, len |-> o.len, whole |-> o.whole]
    BY <1>2, <2>1 DEF Flipped
  <2> QED BY <2>1, <2>2, <2>3 DEF WellFormed, BlobOf
<1>3. ASSUME NEW o \in store, NEW n \in {0, 5, 30},
             b = Cut(o, n)
      PROVE  WellFormed(b) /\ \E s \in sealed : BlobOf(b, s)
  <2>1. /\ o = [cipher |-> o.cipher, ver |-> o.ver, key |-> o.key, aad |-> o.aad,
                body |-> o.body, len |-> o.len, whole |-> o.whole]
        /\ o.len \in Nat
    BY DEF StoreInv, Made, WellFormed
  <2>2. PICK s \in sealed : BlobOf(o, s)
    BY DEF StoreInv
  <2>3. b = [cipher |-> o.cipher, ver |-> o.ver, key |-> o.key, aad |-> o.aad,
             body |-> o.body, len |-> n, whole |-> FALSE]
    BY <1>3, <2>1 DEF Cut
  <2> QED BY <2>1, <2>2, <2>3 DEF WellFormed, BlobOf
<1>4. \/ b \in store
      \/ \E o \in store, x \in {V2_KEYED_CDC_NAMING, V4_AES_256_GCM_SIV} :
            b = Flipped(o, x)
      \/ \E o \in store, n \in {0, 5, 30} : b = Cut(o, n)
  BY DEF Served
<1> QED BY <1>1, <1>2, <1>3, <1>4

\* A blob of a sealing that opens under an identity was sealed under it.
LEMMA OpenedWasSealed ==
  ASSUME SealedInv, NEW b, NEW s \in sealed, BlobOf(b, s), NEW cipher, NEW v, NEW aad,
         b.cipher = cipher, b.key = ChunkKey(v), b.aad = BoundBytes(cipher, aad),
         Sealable(aad)
  PROVE  Sealing(cipher, v, aad, b.body) \in sealed
<1>1. s = [cipher |-> cipher, key |-> ChunkKey(v), aad |-> s.aad, plain |-> b.body]
  BY DEF SealedInv, BlobOf
<1>2. s.aad = aad
  BY BoundInjective DEF SealedInv, BlobOf
<1>3. s = Sealing(cipher, v, aad, b.body)
  BY <1>1, <1>2 DEF Sealing
<1> QED BY <1>3

-----------------------------------------------------------------------------
\* Nothing sealed is forgotten and nothing stored is withdrawn.
LEMMA JobMonotonic ==
  ASSUME NEW j, NEW B, NEW S, NEW B2, NEW S2, B \subseteq B2, S \subseteq S2, JobOK(j, B, S)
  PROVE  JobOK(j, B2, S2)
BY DEF JobOK, SealJob, OpenJob

(* An answer stays right when more is sealed.                               *)
LEMMA AnswerMonotonic ==
  ASSUME NEW a, NEW S, NEW S2, S \subseteq S2, AnswerOK(a, S)
  PROVE  AnswerOK(a, S2)
BY DEF AnswerOK

\* A client that is given the answer a, the others keeping theirs.
LEMMA OneAnswer ==
  ASSUME AnswerInv, sealed \subseteq sealed', NEW c \in Client, NEW a,
         AnswerOK(a, sealed'), answer' = [answer EXCEPT ![c] = a]
  PROVE  AnswerInv'
<1>1. answer' = [d \in Client |-> IF d = c THEN a ELSE answer[d]]
  BY DEF AnswerInv
<1>2. answer' = [d \in Client |-> answer'[d]]
  BY <1>1
<1>3. ASSUME NEW d \in Client PROVE AnswerOK(answer'[d], sealed')
  <2>1. CASE d = c
    BY <1>1, <2>1
  <2>2. CASE d # c
    <3>1. answer'[d] = answer[d]
      BY <1>1, <2>2
    <3>2. AnswerOK(answer[d], sealed')
      BY AnswerMonotonic DEF AnswerInv
    <3> QED BY <3>1, <3>2
  <2> QED BY <2>1, <2>2
<1> QED BY <1>2, <1>3 DEF AnswerInv

(* The answers when none is given and more is sealed.                       *)
LEMMA SameAnswers ==
  ASSUME AnswerInv, sealed \subseteq sealed', UNCHANGED answer
  PROVE  AnswerInv'
<1>1. ASSUME NEW d \in Client PROVE AnswerOK(answer'[d], sealed')
  BY AnswerMonotonic DEF AnswerInv
<1> QED BY <1>1 DEF AnswerInv

\* A client whose job becomes j, the others keeping theirs.
LEMMA OneJob ==
  ASSUME JobInv, store \subseteq store', sealed \subseteq sealed', NEW c \in Client, NEW j,
         j = Idle \/ JobOK(j, store', sealed'), job' = [job EXCEPT ![c] = j]
  PROVE  JobInv'
<1>1. job' = [d \in Client |-> IF d = c THEN j ELSE job[d]]
  BY DEF JobInv
<1>2. job' = [d \in Client |-> job'[d]]
  BY <1>1
<1>3. ASSUME NEW d \in Client PROVE job'[d] = Idle \/ JobOK(job'[d], store', sealed')
  <2>1. CASE d = c
    BY <1>1, <2>1
  <2>2. CASE d # c
    <3>1. job'[d] = job[d]
      BY <1>1, <2>2
    <3>2. job[d] = Idle \/ JobOK(job[d], store', sealed')
      BY JobMonotonic DEF JobInv
    <3> QED BY <3>1, <3>2
  <2> QED BY <2>1, <2>2
<1> QED BY <1>2, <1>3 DEF JobInv

(* The jobs when none moves and more is stored or sealed.                   *)
LEMMA SameJobs ==
  ASSUME JobInv, store \subseteq store', sealed \subseteq sealed', UNCHANGED job
  PROVE  JobInv'
<1>1. ASSUME NEW d \in Client PROVE job'[d] = Idle \/ JobOK(job'[d], store', sealed')
  BY JobMonotonic DEF JobInv
<1> QED BY <1>1 DEF JobInv

(* The blobs stay accounted for when more is sealed.                        *)
LEMMA StoreKept ==
  ASSUME StoreInv, sealed \subseteq sealed', UNCHANGED store
  PROVE  StoreInv'
BY DEF StoreInv

\* Answers without a payload.
LEMMA PlainAnswers == \A S : AnswerOK(NoAnswer, S) /\ AnswerOK([op |-> "error"], S)
BY DEF AnswerOK, NoAnswer

\* What an engine seals is a whole blob of the sealing it is recorded as.
LEMMA SealExactly ==
  ASSUME NEW cipher \in Cipher, NEW v, NEW x \in Chunk, NEW aad,
         NEW b, b = SealBy(cipher, ChunkKey(v), x, aad, None),
         aad = None \/ Check(aad)
  PROVE  /\ Made(b) /\ b.cipher = cipher /\ b.body = x.data
         /\ BlobOf(b, Sealing(cipher, v, aad, x.data))
<1>0. cipher \in {"xchacha", "aes"} /\ x.size \in Nat
  BY BatchAssumption DEF BatchAssumption
<1> DEFINE bytes == BoundBytes(cipher, aad)
<1>1. CASE cipher = "xchacha"
  <2>1. b = Blob(ChunkKey(v), bytes, x)
    BY <1>1 DEF SealBy, Encrypt, EncryptWithAad, BoundBytes
  <2>2. b = [cipher |-> "xchacha", ver |-> V3_REPO_UID_KEY_VERSION, key |-> ChunkKey(v),
             aad |-> bytes, body |-> x.data, len |-> OVERHEAD("xchacha") + x.size,
             whole |-> TRUE]
    BY <2>1 DEF Blob
  <2>3. /\ OVERHEAD("xchacha") + x.size \in Nat
        /\ OVERHEAD("xchacha") + x.size >= OVERHEAD("xchacha")
    BY <1>0, Lengths
  <2> QED BY <1>1, <2>2, <2>3 DEF Made, WellFormed, BlobOf, Sealing
<1>2. CASE cipher = "aes"
  <2>1. b = AesBlob(ChunkKey(v), bytes, x)
    BY <1>2 DEF SealBy, AesEncrypt, AesEncryptChunk, BoundBytes
  <2>2. b = [cipher |-> "aes", ver |-> V3_REPO_UID_KEY_VERSION, key |-> ChunkKey(v),
             aad |-> bytes, body |-> x.data, len |-> OVERHEAD("aes") + x.size,
             whole |-> TRUE]
    BY <2>1 DEF AesBlob, Blob
  <2>3. /\ OVERHEAD("aes") + x.size \in Nat
        /\ OVERHEAD("aes") + x.size >= OVERHEAD("aes")
    BY <1>0, Lengths
  <2> QED BY <1>2, <2>2, <2>3 DEF Made, WellFormed, BlobOf, Sealing
<1> QED BY <1>0, <1>1, <1>2

-----------------------------------------------------------------------------
(* encrypt_chunk keeps the invariant.                                       *)
LEMMA EncryptChunkInv ==
  ASSUME BatchInv, NEW c \in Client, NEW cipher \in Cipher, NEW v \in Version, NEW chunk \in Chunk,
         NEW aad \in Aad \cup {None}, EncryptChunk(c, cipher, v, chunk, aad)
  PROVE  BatchInv'
<1> DEFINE b == SealBy(cipher, ChunkKey(v), chunk, aad, None)
           s == Sealing(cipher, v, aad, chunk.data)
<1>1. UNCHANGED job
  BY DEF EncryptChunk
<1>2. CASE b = None
  <2>1. answer' = [answer EXCEPT ![c] = [op |-> "error"]] /\ UNCHANGED <<store, sealed>>
    BY <1>2 DEF EncryptChunk, Returns
  <2>2. AnswerInv'
    BY <2>1, OneAnswer, PlainAnswers DEF BatchInv
  <2>3. JobInv'
    BY <1>1, <2>1, SameJobs DEF BatchInv
  <2> QED BY <2>1, <2>2, <2>3 DEF BatchInv, SealedInv, StoreInv
<1>3. CASE b # None
  <2>1. /\ answer' = [answer EXCEPT ![c] = NoAnswer]
        /\ store' = store \cup {b} /\ sealed' = sealed \cup {s}
    BY <1>3 DEF EncryptChunk, Returns
  <2>2. aad = None \/ Check(aad)
    BY <1>3 DEF SealBy, EncryptWithAad, AesEncryptChunk
  <2>4. Made(b) /\ BlobOf(b, s)
    <3>1. b = SealBy(cipher, ChunkKey(v), chunk, aad, None)
      OBVIOUS
    <3> HIDE DEF b
    <3> QED BY <2>2, <3>1, SealExactly
  <2>5. SealedInv'
    <3>1. Sealable(aad)
      BY <2>2, NamesIdentities DEF Sealable
    <3> QED BY <2>1, <3>1 DEF BatchInv, SealedInv, Sealing
  <2>6. StoreInv'
    <3> HIDE DEF b, s
    <3> QED BY <2>1, <2>4 DEF BatchInv, StoreInv
  <2>7. AnswerInv'
    <3> HIDE DEF b, s
    <3> QED BY <2>1, OneAnswer, PlainAnswers DEF BatchInv
  <2>8. JobInv'
    <3> HIDE DEF b, s
    <3> QED BY <1>1, <2>1, SameJobs DEF BatchInv
  <2> QED BY <2>5, <2>6, <2>7, <2>8 DEF BatchInv
<1> QED BY <1>2, <1>3

(* decrypt_chunk keeps the invariant.                                       *)
LEMMA DecryptChunkInv ==
  ASSUME BatchInv, NEW c \in Client, NEW cipher \in Cipher, NEW v \in Version, NEW b \in Served,
         NEW aad \in Aad \cup {None}, DecryptChunk(c, cipher, v, b, aad)
  PROVE  BatchInv'
<1> DEFINE r == OpenBy(cipher, b, ChunkKey(v), aad, None)
           a == IF Failed(r) THEN [op |-> "failed", why |-> r.err]
                ELSE [op |-> "opened", cipher |-> cipher, v |-> v, aad |-> aad,
                      plain |-> r.plain]
<1>1. UNCHANGED <<store, sealed, job>> /\ answer' = [answer EXCEPT ![c] = a]
  BY DEF DecryptChunk, Returns
<1>2. cipher \in {"xchacha", "aes"}
  BY BatchAssumption DEF BatchAssumption
<1>3. WellFormed(b) /\ \E s \in sealed : BlobOf(b, s)
  BY ServedFrom DEF BatchInv
<1>4. \/ /\ r = [plain |-> b.body] /\ b.whole /\ b.cipher = cipher /\ b.key = ChunkKey(v)
         /\ b.aad = BoundBytes(cipher, aad)
         /\ aad = None \/ Check(aad)
      \/ \E e \in {"empty", "version", "short", "refused", "auth"} : r = [err |-> e]
  BY <1>2, <1>3, OpenExactly
<1> HIDE DEF r
<1>5. AnswerOK(a, sealed)
  <2>1. CASE \E e \in {"empty", "version", "short", "refused", "auth"} : r = [err |-> e]
    <3>1. PICK e \in {"empty", "version", "short", "refused", "auth"} : r = [err |-> e]
      BY <2>1
    <3>2. a = [op |-> "failed", why |-> e]
      BY <3>1 DEF Failed
    <3> QED BY <3>2 DEF AnswerOK
  <2>2. CASE /\ r = [plain |-> b.body] /\ b.whole /\ b.cipher = cipher /\ b.key = ChunkKey(v)
             /\ b.aad = BoundBytes(cipher, aad)
             /\ aad = None \/ Check(aad)
    <3>1. Sealable(aad)
      BY <2>2, NamesIdentities DEF Sealable
    <3>2. Sealing(cipher, v, aad, b.body) \in sealed
      BY <1>3, <2>2, <3>1, OpenedWasSealed DEF BatchInv
    <3>3. a = [op |-> "opened", cipher |-> cipher, v |-> v, aad |-> aad, plain |-> b.body]
      BY <2>2 DEF Failed
    <3> QED BY <3>2, <3>3 DEF AnswerOK
  <2> QED BY <1>4, <2>1, <2>2
<1> HIDE DEF a
<1>6. AnswerInv'
  BY <1>1, <1>5, OneAnswer DEF BatchInv
<1>7. JobInv'
  BY <1>1, SameJobs DEF BatchInv
<1> QED BY <1>1, <1>6, <1>7 DEF BatchInv, SealedInv, StoreInv

\* The list that holds nothing.
LEMMA ListedEmpty == Listed(<<>>, 0) /\ Len(<<>>) = 0
BY DEF Listed

(* encrypt_chunks_parallel up to its first await keeps the invariant.       *)
LEMMA StartSealInv ==
  ASSUME BatchInv, NEW c \in Client, NEW v \in Version, NEW told \in 0 .. MaxKey \cup {NoVersion},
         NEW uid \in Uid, NEW chunks \in Batches(Chunk), StartSeal(c, v, told, uid, chunks)
  PROVE  BatchInv'
<1> DEFINE kv == BatchKeyVersion(told)
           aads == [i \in DOMAIN chunks |-> ContentChunkAad(uid, chunks[i], kv.v)]
           none == [i \in DOMAIN chunks |-> None]
           j == [op |-> "seal", v |-> v, uid |-> uid, in |-> chunks, aads |-> aads,
                 task |-> none, out |-> <<>>]
<1>1. UNCHANGED <<store, sealed>>
  BY DEF StartSeal
<1>2. CASE kv.ok /\ \A i \in DOMAIN chunks : Check(aads[i])
  <2>1. job' = [job EXCEPT ![c] = j] /\ answer' = [answer EXCEPT ![c] = NoAnswer]
    BY <1>2 DEF StartSeal, Returns
  <2>2. kv.v = v
    <3>1. told \in {v, 0, NoVersion}
      BY DEF StartSeal
    <3>2. told # NoVersion /\ kv = [ok |-> told >= 1, v |-> told]
      BY <1>2 DEF BatchKeyVersion
    <3>3. told # 0
      <4>1. (0 >= 1) = FALSE
        OBVIOUS
      <4> HIDE DEF kv
      <4>2. kv.ok = (told >= 1)
        BY <3>2, Zenon
      <4> QED BY <1>2, <4>1, <4>2
    <3> QED BY <3>1, <3>2, <3>3
  <2>3. /\ Listed(chunks, Len(chunks)) /\ DOMAIN chunks = 1 .. Len(chunks)
        /\ \A i \in 1 .. Len(chunks) : chunks[i] \in Chunk
    BY BatchesListed, ListedSeq
  <2>4. Listed(aads, Len(chunks)) /\ Listed(none, Len(chunks))
    BY <2>3 DEF Listed
  <2>5. \A i \in 1 .. Len(chunks) :
           /\ aads[i] = Content(uid, chunks[i].hash, v, chunks[i].size) /\ Check(aads[i])
           /\ none[i] = None
    BY <1>2, <2>2, <2>3 DEF ContentChunkAad
  <2> HIDE DEF aads, none, kv
  <2>6. JobShape(j)
    BY <2>3, <2>4, ListedEmpty DEF JobShape, Listed
  <2>7. SealJob(j, sealed)
    BY <2>3, <2>5 DEF SealJob, Pending
  <2>8. JobOK(j, store, sealed)
    BY <2>6, <2>7 DEF JobOK
  <2> HIDE DEF j
  <2>9. JobInv'
    BY <1>1, <2>1, <2>8, OneJob DEF BatchInv
  <2>10. AnswerInv'
    BY <1>1, <2>1, OneAnswer, PlainAnswers DEF BatchInv
  <2> QED BY <1>1, <2>9, <2>10 DEF BatchInv, SealedInv, StoreInv
<1>3. CASE ~(kv.ok /\ \A i \in DOMAIN chunks : Check(aads[i]))
  <2>1. UNCHANGED job /\ answer' = [answer EXCEPT ![c] = [op |-> "error"]]
    BY <1>3 DEF StartSeal, Returns
  <2>2. JobInv'
    BY <1>1, <2>1, SameJobs DEF BatchInv
  <2>3. AnswerInv'
    BY <1>1, <2>1, OneAnswer, PlainAnswers DEF BatchInv
  <2> QED BY <1>1, <2>2, <2>3 DEF BatchInv, SealedInv, StoreInv
<1> QED BY <1>2, <1>3

(* decrypt_chunks_parallel up to its first await keeps the invariant.       *)
LEMMA StartOpenInv ==
  ASSUME BatchInv, NEW c \in Client, NEW v \in Version, NEW blobs \in Batches(store),
         NEW aads \in Batches(Aad), StartOpen(c, v, blobs, aads)
  PROVE  BatchInv'
<1> DEFINE none == [i \in DOMAIN blobs |-> None]
           j == [op |-> "open", v |-> v, uid |-> None, in |-> blobs, aads |-> aads,
                 task |-> none, out |-> <<>>]
<1>1. UNCHANGED <<store, sealed>>
  BY DEF StartOpen
<1>2. CASE Len(blobs) = Len(aads)
  <2>1. job' = [job EXCEPT ![c] = j] /\ answer' = [answer EXCEPT ![c] = NoAnswer]
    BY <1>2 DEF StartOpen, Returns
  <2>2. /\ Listed(blobs, Len(blobs)) /\ DOMAIN blobs = 1 .. Len(blobs)
        /\ \A i \in 1 .. Len(blobs) : blobs[i] \in store
    BY BatchesListed, ListedSeq
  <2>3. Listed(aads, Len(blobs)) /\ \A i \in 1 .. Len(blobs) : aads[i] \in Aad
    BY <1>2, BatchesListed
  <2>4. Listed(none, Len(blobs)) /\ \A i \in 1 .. Len(blobs) : none[i] = None
    BY <2>2 DEF Listed
  <2> HIDE DEF none
  <2>5. JobShape(j)
    BY <2>2, <2>3, <2>4, ListedEmpty DEF JobShape, Listed
  <2>6. OpenJob(j, store)
    BY <2>2, <2>3, <2>4 DEF OpenJob, Pending
  <2>7. JobOK(j, store, sealed)
    BY <2>5, <2>6 DEF JobOK
  <2> HIDE DEF j
  <2>8. JobInv'
    BY <1>1, <2>1, <2>7, OneJob DEF BatchInv
  <2>9. AnswerInv'
    BY <1>1, <2>1, OneAnswer, PlainAnswers DEF BatchInv
  <2> QED BY <1>1, <2>8, <2>9 DEF BatchInv, SealedInv, StoreInv
<1>3. CASE Len(blobs) # Len(aads)
  <2>1. UNCHANGED job /\ answer' = [answer EXCEPT ![c] = [op |-> "error"]]
    BY <1>3 DEF StartOpen, Returns
  <2>2. JobInv'
    BY <1>1, <2>1, SameJobs DEF BatchInv
  <2>3. AnswerInv'
    BY <1>1, <2>1, OneAnswer, PlainAnswers DEF BatchInv
  <2> QED BY <1>1, <2>2, <2>3 DEF BatchInv, SealedInv, StoreInv
<1> QED BY <1>2, <1>3

\* A job with one more task done.
LEMMA TaskDone ==
  ASSUME NEW j, NEW B, NEW S, NEW S2, S \subseteq S2, JobOK(j, B, S),
         NEW i \in 1 .. Len(j.in), j.task[i] = None, NEW r, NEW j2,
         j2 = [j EXCEPT !.task = [j.task EXCEPT ![i] = r]],
         \/ r = [err |-> "join"]
         \/ /\ j.op = "seal"
            /\ r = EncryptWithAad(ChunkKey(j.v), j.in[i], j.aads[i], None)
            /\ Sealing("xchacha", j.v, j.aads[i], j.in[i].data) \in S2
         \/ j.op = "open" /\ r = DecryptWithAad(j.in[i], ChunkKey(j.v), j.aads[i])
  PROVE  JobOK(j2, B, S2)
<1> DEFINE t == [j.task EXCEPT ![i] = r]
<1>1. j2 = [op |-> j.op, v |-> j.v, uid |-> j.uid, in |-> j.in, aads |-> j.aads,
            task |-> t, out |-> j.out]
  BY DEF JobOK, JobShape
<1>2. Listed(t, Len(j.in))
  BY ListedExcept DEF JobOK, JobShape
<1>3. DOMAIN j.task = 1 .. Len(j.in)
  BY ListedSeq DEF JobOK, JobShape
<1>4. t[i] = r /\ \A k \in 1 .. Len(j.in) : k # i => t[k] = j.task[k]
  BY <1>3
<1> HIDE DEF t
<1>5. JobShape(j2)
  <2>1. Len(j.out) \in Nat /\ Len(j.in) \in Nat /\ Len(j.out) <= Len(j.in)
    BY DEF JobOK, JobShape, Listed
  <2>2. \A k \in 1 .. Len(j.out) :
           /\ k \in 1 .. Len(j.in) /\ k # i
           /\ j.out[k] = j.task[k] /\ j.task[k] # None /\ ~Failed(j.task[k])
    BY <2>1 DEF JobOK, JobShape
  <2>3. \A k \in 1 .. Len(j.out) : j.out[k] = t[k] /\ t[k] # None /\ ~Failed(t[k])
    BY <1>4, <2>2
  <2> QED BY <1>1, <1>2, <2>3 DEF JobOK, JobShape
<1>6. CASE j.op = "seal"
  <2>1. SealJob(j, S)
    BY <1>6 DEF JobOK
  <2>2. SealJob(j2, S2)
    BY <1>1, <1>4, <1>6, <2>1 DEF SealJob, Pending
  <2> QED BY <1>1, <1>5, <1>6, <2>2 DEF JobOK
<1>7. CASE j.op = "open"
  <2>1. OpenJob(j, B)
    BY <1>7 DEF JobOK
  <2>2. OpenJob(j2, B)
    BY <1>1, <1>4, <1>7, <2>1 DEF OpenJob, Pending
  <2> QED BY <1>1, <1>5, <1>7, <2>2 DEF JobOK
<1> QED BY <1>6, <1>7 DEF JobOK

(* A task of the pool, whether it ends or is lost, keeps the invariant.     *)
LEMMA RunTaskInv ==
  ASSUME BatchInv, NEW c \in Client, NEW i \in 1 .. MaxBatch, RunTask(c, i)
  PROVE  BatchInv'
<1> DEFINE j == job[c]
           sealing == Sealing("xchacha", j.v, j.aads[i], j.in[i].data)
           result == IF j.op = "seal"
                     THEN EncryptWithAad(ChunkKey(j.v), j.in[i], j.aads[i], None)
                     ELSE DecryptWithAad(j.in[i], ChunkKey(j.v), j.aads[i])
           done(r) == [j EXCEPT !.task = [j.task EXCEPT ![i] = r]]
<1>1. j # Idle /\ j.task[i] = None /\ i \in DOMAIN j.in /\ UNCHANGED <<store, answer>>
  BY DEF RunTask
<1>2. JobOK(j, store, sealed)
  BY <1>1 DEF BatchInv, JobInv
<1>3. i \in 1 .. Len(j.in)
  BY <1>1, <1>2, ListedSeq DEF JobOK, JobShape
<1>4. ASSUME NEW r, job' = [job EXCEPT ![c].task[i] = r]
      PROVE  job' = [job EXCEPT ![c] = done(r)]
  BY <1>4
<1>5. CASE j.op = "seal" /\ job' = [job EXCEPT ![c].task[i] = result]
           /\ sealed' = sealed \cup {sealing}
  <2>1. result = EncryptWithAad(ChunkKey(j.v), j.in[i], j.aads[i], None)
    BY <1>5
  <2>2. job' = [job EXCEPT ![c] = done(result)]
    BY <1>4, <1>5
  <2>3. SealJob(j, sealed)
    BY <1>2, <1>5 DEF JobOK
  <2>4. JobOK(done(result), store, sealed')
    <3>1. sealing \in sealed' /\ sealed \subseteq sealed'
      BY <1>5
    <3> HIDE DEF result
    <3> QED BY <1>1, <1>2, <1>3, <1>5, <2>1, <3>1, TaskDone
  <2>5. SealedInv'
    <3>1. j.v \in Nat
      BY <1>2, BatchAssumption DEF JobOK, JobShape, Version, BatchAssumption
    <3>2. Sealable(j.aads[i])
      BY <1>3, <2>3, <3>1, NamesIdentities DEF SealJob, Sealable
    <3>3. "xchacha" \in Cipher
      BY BatchAssumption DEF BatchAssumption
    <3> QED BY <1>5, <3>2, <3>3 DEF BatchInv, SealedInv, Sealing
  <2>6. sealed \subseteq sealed'
    BY <1>5
  <2> HIDE DEF result, done, sealing
  <2>7. JobInv'
    BY <1>1, <2>2, <2>4, <2>6, OneJob DEF BatchInv
  <2>8. AnswerInv'
    BY <1>1, <2>6, SameAnswers DEF BatchInv
  <2>9. StoreInv'
    BY <1>1, <2>6, StoreKept DEF BatchInv
  <2> QED BY <2>5, <2>7, <2>8, <2>9 DEF BatchInv
<1>6. CASE j.op # "seal" /\ job' = [job EXCEPT ![c].task[i] = result] /\ UNCHANGED sealed
  <2>1. j.op = "open" /\ result = DecryptWithAad(j.in[i], ChunkKey(j.v), j.aads[i])
    BY <1>2, <1>6 DEF JobOK
  <2>2. job' = [job EXCEPT ![c] = done(result)]
    BY <1>4, <1>6
  <2>3. JobOK(done(result), store, sealed)
    <3> HIDE DEF result
    <3> QED BY <1>1, <1>2, <1>3, <2>1, TaskDone
  <2> HIDE DEF result, done, sealing
  <2>4. JobInv'
    BY <1>1, <1>6, <2>2, <2>3, OneJob DEF BatchInv
  <2>5. AnswerInv'
    BY <1>1, <1>6, SameAnswers DEF BatchInv
  <2> QED BY <1>1, <1>6, <2>4, <2>5 DEF BatchInv, SealedInv, StoreInv
<1>7. CASE job' = [job EXCEPT ![c].task[i] = [err |-> "join"]] /\ UNCHANGED sealed
  <2>1. job' = [job EXCEPT ![c] = done([err |-> "join"])]
    BY <1>4, <1>7
  <2>2. JobOK(done([err |-> "join"]), store, sealed)
    BY <1>1, <1>2, <1>3, TaskDone
  <2> HIDE DEF result, done, sealing
  <2>3. JobInv'
    BY <1>1, <1>7, <2>1, <2>2, OneJob DEF BatchInv
  <2>4. AnswerInv'
    BY <1>1, <1>7, SameAnswers DEF BatchInv
  <2> QED BY <1>1, <1>7, <2>3, <2>4 DEF BatchInv, SealedInv, StoreInv
<1> QED BY <1>5, <1>6, <1>7 DEF RunTask

(* One await keeps the invariant.                                           *)
LEMMA AwaitInv ==
  ASSUME BatchInv, NEW c \in Client, Await(c)
  PROVE  BatchInv'
<1> DEFINE j == job[c]
           n == Len(j.out) + 1
           e == j.task[n]
           j2 == [j EXCEPT !.out = Append(j.out, e)]
<1>1. /\ j # Idle /\ Len(j.out) < Len(j.in) /\ UNCHANGED <<store, sealed>>
      /\ e # None
      /\ \/ Failed(e) /\ job' = [job EXCEPT ![c] = Idle]
            /\ answer' = [answer EXCEPT ![c] = [op |-> "error"]]
         \/ ~Failed(e) /\ job' = [job EXCEPT ![c].out = Append(@, e)] /\ UNCHANGED answer
  BY DEF Await, NextAwaited, Returns
<1>2. JobOK(j, store, sealed)
  BY <1>1 DEF BatchInv, JobInv
<1>3. CASE Failed(e)
  <2>1. JobInv'
    BY <1>1, <1>3, OneJob DEF BatchInv
  <2>2. AnswerInv'
    BY <1>1, <1>3, OneAnswer, PlainAnswers DEF BatchInv
  <2> QED BY <1>1, <2>1, <2>2 DEF BatchInv, SealedInv, StoreInv
<1>4. CASE ~Failed(e)
  <2>1. job' = [job EXCEPT ![c] = j2]
    BY <1>1, <1>4
  <2>2. j2 = [op |-> j.op, v |-> j.v, uid |-> j.uid, in |-> j.in, aads |-> j.aads,
              task |-> j.task, out |-> Append(j.out, e)]
    <3> DEFINE o == Append(j.out, e)
    <3> HIDE DEF o
    <3>1. j = [op |-> j.op, v |-> j.v, uid |-> j.uid, in |-> j.in, aads |-> j.aads,
               task |-> j.task, out |-> j.out]
      BY <1>2 DEF JobOK, JobShape
    <3>2. j2 = [j EXCEPT !.out = o]
      BY DEF o
    <3> HIDE DEF j, j2
    <3>3. j2 = [op |-> j.op, v |-> j.v, uid |-> j.uid, in |-> j.in, aads |-> j.aads,
                task |-> j.task, out |-> o]
      BY <3>1, <3>2
    <3> QED BY <3>3 DEF o
  <2>3. Len(j.out) \in Nat /\ Len(j.in) \in Nat
    BY <1>2 DEF JobOK, JobShape, Listed
  <2>4. /\ Listed(Append(j.out, e), n) /\ Append(j.out, e)[n] = e
        /\ \A i \in 1 .. Len(j.out) : Append(j.out, e)[i] = j.out[i]
    <3>1. Listed(j.out, Len(j.out))
      BY <1>2 DEF JobOK, JobShape
    <3> HIDE DEF e, j
    <3> QED BY <3>1, ListedAppend
  <2>5. Len(Append(j.out, e)) = n
    BY <2>4, ListedSeq
  <2> DEFINE o == Append(j.out, e)
  <2> HIDE DEF o
  <2>6. JobShape(j2)
    <3>1. \A i \in 1 .. n : o[i] = j.task[i] /\ j.task[i] # None /\ ~Failed(j.task[i])
      <4> SUFFICES ASSUME NEW i \in 1 .. n
                   PROVE  o[i] = j.task[i] /\ j.task[i] # None /\ ~Failed(j.task[i])
        OBVIOUS
      <4>1. CASE i = n
        BY <1>1, <1>4, <2>4, <4>1 DEF o
      <4>2. CASE i # n
        <5>1. i \in 1 .. Len(j.out)
          BY <2>3, <4>2
        <5> QED BY <1>2, <2>4, <5>1 DEF JobOK, JobShape, o
      <4> QED BY <4>1, <4>2
    <3>2. Listed(o, Len(o)) /\ Len(o) = n /\ n <= Len(j.in)
      BY <1>1, <2>3, <2>4, <2>5 DEF o
    <3>3. j2 = [op |-> j.op, v |-> j.v, uid |-> j.uid, in |-> j.in, aads |-> j.aads,
                task |-> j.task, out |-> o]
      BY <2>2 DEF o
    <3> HIDE DEF j2
    <3> QED BY <1>2, <3>1, <3>2, <3>3 DEF JobOK, JobShape
  <2>7. JobOK(j2, store, sealed)
    <3>1. SealJob(j, sealed) => SealJob(j2, sealed)
      BY <2>2 DEF SealJob
    <3>2. OpenJob(j, store) => OpenJob(j2, store)
      BY <2>2 DEF OpenJob
    <3> QED BY <1>2, <2>2, <2>6, <3>1, <3>2 DEF JobOK
  <2> HIDE DEF j2
  <2>8. JobInv'
    BY <1>1, <2>1, <2>7, OneJob DEF BatchInv
  <2>9. AnswerInv'
    BY <1>1, <1>4, SameAnswers DEF BatchInv
  <2> QED BY <1>1, <2>8, <2>9 DEF BatchInv, SealedInv, StoreInv
<1> QED BY <1>3, <1>4

\* A blob opens under the identity it was sealed for.
LEMMA RoundTrip ==
  ASSUME NEW b, NEW v, NEW aad, NEW d, Made(b), b.cipher = "xchacha", b.body = d,
         BlobOf(b, Sealing("xchacha", v, aad, d)), Check(aad), aad # None
  PROVE  DecryptWithAad(b, ChunkKey(v), aad) = [plain |-> d]
<1>1. b.len \in Nat /\ b.len >= 41 /\ b.ver = V3_REPO_UID_KEY_VERSION /\ b.whole = TRUE
  BY Lengths DEF Made, WellFormed
<1>2. Header(b) = "ok"
  BY <1>1, Lengths DEF Header, ParseVersion
<1>3. Sliceable("xchacha", b)
  BY <1>1, Lengths DEF Sliceable
<1>4. b.key = ChunkKey(v) /\ b.aad = CipherAad(V3_REPO_UID_KEY_VERSION, aad)
  BY DEF BlobOf, Sealing, BoundBytes
<1> QED BY <1>1, <1>2, <1>3, <1>4 DEF DecryptWithAad, Opened

\* What a batch of seals returns.
LEMMA SealedResult ==
  ASSUME NEW j, NEW S, JobShape(j), SealJob(j, S), NEW i \in 1 .. Len(j.out)
  PROVE  /\ Made(j.out[i])
         /\ \E s \in S : BlobOf(j.out[i], s)
         /\ DecryptWithAad(j.out[i], ChunkKey(j.v),
                           Content(j.uid, j.in[i].hash, j.v, j.in[i].size))
              = [plain |-> j.in[i].data]
<1> DEFINE b == j.out[i]
           x == j.in[i]
           aad == j.aads[i]
<1>1. i \in 1 .. Len(j.in) /\ j.v \in Nat
  BY BatchAssumption DEF JobShape, Listed, Version, BatchAssumption
<1>2. b = j.task[i] /\ b # None /\ ~Failed(b)
  BY DEF JobShape
<1>3. x \in Chunk /\ aad = Content(j.uid, x.hash, j.v, x.size) /\ Check(aad)
  BY <1>1 DEF SealJob
<1>4. aad # None
  BY <1>1, <1>3, NamesIdentities, IdentityNotNone DEF SealJob
<1>5. /\ b = EncryptWithAad(ChunkKey(j.v), x, aad, None)
      /\ Sealing("xchacha", j.v, aad, x.data) \in S
  <2>1. Failed([err |-> "join"])
    BY DEF Failed
  <2> QED BY <1>1, <1>2, <2>1 DEF SealJob, Pending
<1>6. b = SealBy("xchacha", ChunkKey(j.v), x, aad, None)
  BY <1>4, <1>5 DEF SealBy
<1>7. "xchacha" \in Cipher
  BY BatchAssumption DEF BatchAssumption
<1> HIDE DEF b, x, aad
<1>8. /\ Made(b) /\ b.cipher = "xchacha" /\ b.body = x.data
      /\ BlobOf(b, Sealing("xchacha", j.v, aad, x.data))
  BY <1>3, <1>6, <1>7, SealExactly
<1>9. DecryptWithAad(b, ChunkKey(j.v), aad) = [plain |-> x.data]
  BY <1>3, <1>4, <1>8, RoundTrip
<1> QED BY <1>3, <1>5, <1>8, <1>9 DEF b, x, aad

\* What a batch of opens returns.
LEMMA OpenedResult ==
  ASSUME SealedInv, StoreInv, NEW j, JobShape(j), OpenJob(j, store), NEW i \in 1 .. Len(j.out)
  PROVE  Sealing("xchacha", j.v, j.aads[i], j.out[i].plain) \in sealed
<1> DEFINE r == j.out[i]
           b == j.in[i]
           aad == j.aads[i]
<1>1. i \in 1 .. Len(j.in)
  BY DEF JobShape, Listed
<1>2. r = j.task[i] /\ r # None /\ ~Failed(r)
  BY DEF JobShape
<1>3. b \in store /\ aad \in Aad
  BY <1>1 DEF OpenJob
<1>4. aad # None /\ aad \in Identity
  BY <1>3, NamesIdentities, IdentityNotNone
<1>5. r = DecryptWithAad(b, ChunkKey(j.v), aad)
  <2>1. Failed([err |-> "join"])
    BY DEF Failed
  <2> QED BY <1>1, <1>2, <2>1 DEF OpenJob, Pending
<1>6. r = OpenBy("xchacha", b, ChunkKey(j.v), aad, None)
  BY <1>4, <1>5 DEF OpenBy
<1> HIDE DEF r, b, aad
<1>7. WellFormed(b) /\ \E s \in sealed : BlobOf(b, s)
  BY <1>3 DEF StoreInv, Made
<1>8. \/ /\ r = [plain |-> b.body] /\ b.whole /\ b.cipher = "xchacha" /\ b.key = ChunkKey(j.v)
         /\ b.aad = BoundBytes("xchacha", aad)
         /\ aad = None \/ Check(aad)
      \/ \E e \in {"empty", "version", "short", "refused", "auth"} : r = [err |-> e]
  BY <1>6, <1>7, OpenExactly
<1>9. ~ \E e \in {"empty", "version", "short", "refused", "auth"} : r = [err |-> e]
  BY <1>2 DEF Failed
<1>10. Sealing("xchacha", j.v, aad, b.body) \in sealed
  BY <1>4, <1>7, <1>8, <1>9, OpenedWasSealed DEF Sealable
<1> QED BY <1>8, <1>9, <1>10 DEF r, aad

(* The return of a batch keeps the invariant.                               *)
LEMMA FinishInv ==
  ASSUME BatchInv, NEW c \in Client, Finish(c)
  PROVE  BatchInv'
<1> DEFINE j == job[c]
           a == [op |-> j.op, v |-> j.v, uid |-> j.uid, in |-> j.in, aads |-> j.aads,
                 out |-> j.out]
<1>1. /\ j # Idle /\ Len(j.out) = Len(j.in) /\ UNCHANGED sealed
      /\ job' = [job EXCEPT ![c] = Idle] /\ answer' = [answer EXCEPT ![c] = a]
      /\ store' = IF j.op = "seal" THEN store \cup {j.out[i] : i \in DOMAIN j.out} ELSE store
  BY DEF Finish, Returns
<1>2. JobOK(j, store, sealed)
  BY <1>1 DEF BatchInv, JobInv
<1>3. DOMAIN j.out = 1 .. Len(j.out) /\ DOMAIN j.in = 1 .. Len(j.out)
  BY <1>1, <1>2, ListedSeq DEF JobOK, JobShape
<1>4. JobInv'
  BY <1>1, OneJob DEF BatchInv
<1>5. SealedInv'
  BY <1>1 DEF BatchInv, SealedInv
<1>6. CASE j.op = "seal"
  <2>1. SealJob(j, sealed) /\ JobShape(j)
    BY <1>2, <1>6 DEF JobOK
  <2>2. \A i \in 1 .. Len(j.out) :
          /\ Made(j.out[i]) /\ \E s \in sealed : BlobOf(j.out[i], s)
          /\ DecryptWithAad(j.out[i], ChunkKey(j.v),
                            Content(j.uid, j.in[i].hash, j.v, j.in[i].size))
               = [plain |-> j.in[i].data]
    BY <2>1, SealedResult
  <2>3. AnswerOK(a, sealed)
    BY <1>1, <1>3, <1>6, <2>2 DEF AnswerOK
  <2>4. StoreInv'
    BY <1>1, <1>3, <1>6, <2>2 DEF BatchInv, StoreInv
  <2> HIDE DEF a
  <2>5. AnswerInv'
    BY <1>1, <2>3, OneAnswer DEF BatchInv
  <2> QED BY <1>4, <1>5, <2>4, <2>5 DEF BatchInv
<1>7. CASE j.op = "open"
  <2>1. OpenJob(j, store) /\ JobShape(j)
    BY <1>2, <1>7 DEF JobOK
  <2>2. \A i \in 1 .. Len(j.out) : Sealing("xchacha", j.v, j.aads[i], j.out[i].plain) \in sealed
    BY <2>1, OpenedResult DEF BatchInv
  <2>3. AnswerOK(a, sealed)
    BY <1>3, <1>7, <2>2 DEF AnswerOK
  <2>4. StoreInv'
    BY <1>1, <1>7 DEF BatchInv, StoreInv
  <2> HIDE DEF a
  <2>5. AnswerInv'
    BY <1>1, <2>3, OneAnswer DEF BatchInv
  <2> QED BY <1>4, <1>5, <2>4, <2>5 DEF BatchInv
<1> QED BY <1>2, <1>6, <1>7 DEF JobOK

(* The invariant holds initially.                                           *)
LEMMA BatchInitInv == Init => BatchInv
BY DEF Init, BatchInv, SealedInv, StoreInv, JobInv, AnswerInv, AnswerOK, NoAnswer

(* Every step keeps the invariant.                                          *)
LEMMA BatchNextInv == BatchInv /\ [Next]_vars => BatchInv'
<1> SUFFICES ASSUME BatchInv, [Next]_vars PROVE BatchInv'
  OBVIOUS
<1>1. CASE UNCHANGED vars
  BY <1>1 DEF vars, BatchInv, SealedInv, StoreInv, JobInv, AnswerInv
<1>2. CASE Next
  BY <1>2, EncryptChunkInv, StartSealInv, StartOpenInv, RunTaskInv, AwaitInv, FinishInv,
     DecryptChunkInv DEF Next
<1> QED BY <1>1, <1>2

(* The invariant implies the properties.                                    *)
LEMMA BatchInvImplies == BatchInv => TypeOK /\ BatchOpens /\ OpensAsSealed
<1> SUFFICES ASSUME BatchInv PROVE TypeOK /\ BatchOpens /\ OpensAsSealed
  OBVIOUS
<1>1. BatchOpens /\ OpensAsSealed
  BY DEF BatchInv, AnswerInv, AnswerOK, BatchOpens, OpensAsSealed
<1>2. \A b \in store : b.whole /\ b.cipher \in Cipher /\ b.ver = V3_REPO_UID_KEY_VERSION
  BY DEF BatchInv, StoreInv, Made
<1>3. \A s \in sealed : s.cipher \in Cipher /\ (s.aad = None \/ Check(s.aad))
  BY DEF BatchInv, SealedInv, Sealable
<1>4. ASSUME NEW c \in Client, job[c] # Idle
      PROVE  Len(job[c].out) <= Len(job[c].task)
  <2>1. JobShape(job[c])
    BY <1>4 DEF BatchInv, JobInv, JobOK
  <2>2. Len(job[c].task) = Len(job[c].in)
    BY <2>1, ListedSeq DEF JobShape
  <2> QED BY <2>1, <2>2 DEF JobShape
<1> QED BY <1>1, <1>2, <1>3, <1>4 DEF TypeOK

(* For any clients, repositories, identities, chunks, key versions and      *)
(* batch sizes: what the provider holds is whole and of the current format, *)
(* nothing is sealed under an identity that does not pass its check, and a  *)
(* batch never returns more results than it has tasks.                      *)
THEOREM BatchTypes == Spec => []TypeOK
<1>1. BatchInv => TypeOK
  BY BatchInvImplies
<1> QED BY <1>1, BatchInitInv, BatchNextInv, PTL DEF Spec

(* For any clients and batch sizes, whatever order the tasks finish in and  *)
(* whichever fail: what a batch returns is one blob for each chunk, in the  *)
(* chunks' order, and each opens to its chunk for a reader at the key's     *)
(* true version (encrypt_chunks_parallel).                                  *)
THEOREM BatchesOpen == Spec => []BatchOpens
<1>1. BatchInv => BatchOpens
  BY BatchInvImplies
<1> QED BY <1>1, BatchInitInv, BatchNextInv, PTL DEF Spec

(* For any repository ids, chunk names and sizes, whatever the provider     *)
(* serves - another blob, a cut one, one with another version byte - what a *)
(* client opens was sealed under exactly the key and identity it named.     *)
(* This rests on AadInjective: the encoding of an identity determines it.   *)
THEOREM OpenedAsSealed == Spec => []OpensAsSealed
<1>1. BatchInv => OpensAsSealed
  BY BatchInvImplies
<1> QED BY <1>1, BatchInitInv, BatchNextInv, PTL DEF Spec

(* A task that ends leaves a result: a blob, a plaintext or an error.       *)
LEMMA TaskResult ==
  ASSUME NEW j, NEW B, NEW S, JobOK(j, B, S), NEW i \in 1 .. Len(j.in), NEW r,
         \/ r = [err |-> "join"]
         \/ j.op = "seal" /\ r = EncryptWithAad(ChunkKey(j.v), j.in[i], j.aads[i], None)
         \/ j.op # "seal" /\ r = DecryptWithAad(j.in[i], ChunkKey(j.v), j.aads[i])
  PROVE  r # None
<1>1. CASE r = [err |-> "join"]
  BY <1>1 DEF None
<1>2. CASE j.op = "seal" /\ r = EncryptWithAad(ChunkKey(j.v), j.in[i], j.aads[i], None)
  <2>1. Check(j.aads[i])
    BY <1>2 DEF JobOK, SealJob
  <2>2. "key" \in DOMAIN r
    BY <1>2, <2>1 DEF EncryptWithAad, Blob
  <2> QED BY <2>2 DEF None
<1>3. CASE j.op # "seal" /\ r = DecryptWithAad(j.in[i], ChunkKey(j.v), j.aads[i])
  <2>1. "err" \in DOMAIN r \/ "plain" \in DOMAIN r
    BY <1>3 DEF DecryptWithAad, Opened
  <2> QED BY <2>1 DEF None
<1> QED BY <1>1, <1>2, <1>3

(* One task of a batch ends.                                                *)
LEMMA RunTaskMoves ==
  ASSUME BatchInv, NEW c \in Client, NEW i \in 1 .. MaxBatch, RunTask(c, i)
  PROVE  BatchMoves(job[c], job'[c]) /\ \A d \in Client \ {c} : job'[d] = job[d]
<1> DEFINE j == job[c]
           result == IF j.op = "seal"
                     THEN EncryptWithAad(ChunkKey(j.v), j.in[i], j.aads[i], None)
                     ELSE DecryptWithAad(j.in[i], ChunkKey(j.v), j.aads[i])
<1>1. j # Idle /\ j.task[i] = None /\ i \in DOMAIN j.in
  BY DEF RunTask
<1>2. PICK r : /\ r = result \/ r = [err |-> "join"]
               /\ job' = [job EXCEPT ![c].task[i] = r]
  BY DEF RunTask
<1>3. JobOK(j, store, sealed)
  BY <1>1 DEF BatchInv, JobInv
<1>4. DOMAIN j.in = 1 .. Len(j.in) /\ DOMAIN j.task = 1 .. Len(j.in)
  BY <1>3, ListedSeq DEF JobOK, JobShape
<1>5. r # None
  <2>1. \/ r = [err |-> "join"]
        \/ j.op = "seal" /\ r = EncryptWithAad(ChunkKey(j.v), j.in[i], j.aads[i], None)
        \/ j.op # "seal" /\ r = DecryptWithAad(j.in[i], ChunkKey(j.v), j.aads[i])
    BY <1>2
  <2> HIDE DEF j
  <2> QED BY <1>1, <1>3, <1>4, <2>1, TaskResult
<1> DEFINE t == [j.task EXCEPT ![i] = r]
<1>6. t[i] = r /\ \A n \in DOMAIN j.in \ {i} : t[n] = j.task[n]
  BY <1>1, <1>4
<1>7. job = [d \in Client |-> job[d]]
  BY DEF BatchInv, JobInv
<1>8. job'[c] = [j EXCEPT !.task = t] /\ \A d \in Client \ {c} : job'[d] = job[d]
  BY <1>2, <1>7
<1> HIDE DEF t
<1>9. job'[c].in = j.in /\ job'[c].out = j.out /\ job'[c].task = t
  <2> DEFINE k == job'[c]
  <2>1. j = [op |-> j.op, v |-> j.v, uid |-> j.uid, in |-> j.in, aads |-> j.aads,
             task |-> j.task, out |-> j.out]
    BY <1>3 DEF JobOK, JobShape
  <2>2. k = [j EXCEPT !.task = t]
    BY <1>8
  <2> HIDE DEF j, k
  <2>3. k.in = j.in /\ k.out = j.out /\ k.task = t
    BY <2>1, <2>2
  <2> QED BY <2>3 DEF k
<1> QED BY <1>1, <1>5, <1>6, <1>8, <1>9 DEF BatchMoves

(* The result that is due is kept, or ends the call.                        *)
LEMMA AwaitMoves ==
  ASSUME BatchInv, NEW c \in Client, Await(c)
  PROVE  BatchMoves(job[c], job'[c]) /\ \A d \in Client \ {c} : job'[d] = job[d]
<1> DEFINE j == job[c]
           e == j.task[Len(j.out) + 1]
           o == Append(j.out, e)
<1>1. /\ j # Idle /\ Len(j.out) < Len(j.in)
      /\ \/ Failed(e) /\ job' = [job EXCEPT ![c] = Idle]
         \/ job' = [job EXCEPT ![c].out = Append(@, e)]
  BY DEF Await, NextAwaited
<1>2. JobOK(j, store, sealed)
  BY <1>1 DEF BatchInv, JobInv
<1>3. job = [d \in Client |-> job[d]]
  BY DEF BatchInv, JobInv
<1>4. CASE Failed(e) /\ job' = [job EXCEPT ![c] = Idle]
  BY <1>3, <1>4 DEF BatchMoves
<1>5. CASE job' = [job EXCEPT ![c].out = Append(@, e)]
  <2>1. job'[c] = [j EXCEPT !.out = o] /\ \A d \in Client \ {c} : job'[d] = job[d]
    BY <1>3, <1>5
  <2>2. Len(o) = Len(j.out) + 1
    <3>1. Listed(j.out, Len(j.out))
      BY <1>2 DEF JobOK, JobShape
    <3> HIDE DEF e, j
    <3>2. Listed(o, Len(j.out) + 1)
      BY <3>1, ListedAppend
    <3> QED BY <3>2, ListedSeq
  <2>3. Len(j.out) \in Nat /\ Len(j.in) \in Nat
    BY <1>2 DEF JobOK, JobShape, Listed
  <2> HIDE DEF o
  <2>4. job'[c].in = j.in /\ job'[c].task = j.task /\ job'[c].out = o
    <3> DEFINE k == job'[c]
    <3>1. j = [op |-> j.op, v |-> j.v, uid |-> j.uid, in |-> j.in, aads |-> j.aads,
               task |-> j.task, out |-> j.out]
      BY <1>2 DEF JobOK, JobShape
    <3>2. k = [j EXCEPT !.out = o]
      BY <2>1
    <3> HIDE DEF j, k
    <3>3. k.in = j.in /\ k.task = j.task /\ k.out = o
      BY <3>1, <3>2
    <3> QED BY <3>3 DEF k
  <2> QED BY <1>1, <2>1, <2>2, <2>3, <2>4 DEF BatchMoves
<1> QED BY <1>1, <1>4, <1>5

(* For any clients and batch sizes, and whichever tasks fail or are lost:   *)
(* no step sets a batch back.  A task that has ended is not run again, a    *)
(* result that was kept stays kept, and a batch is over only when every     *)
(* result is in or the one that is due has failed; what is left to          *)
(* BatchReturns is that the pool and the awaiting call go on                *)
(* (encrypt_chunks_parallel, decrypt_chunks_parallel).                      *)
THEOREM BatchesAdvance == Spec => [][BatchAdvances]_vars
<1>1. BatchInv /\ [Next]_vars => [BatchAdvances]_vars
  <2> SUFFICES ASSUME BatchInv, Next PROVE BatchAdvances
    OBVIOUS
  <2>1. ASSUME UNCHANGED job PROVE BatchAdvances
    BY <2>1 DEF BatchAdvances
  <2>2. ASSUME NEW c \in Client, BatchMoves(job[c], job'[c]),
               \A d \in Client \ {c} : job'[d] = job[d]
        PROVE  BatchAdvances
    BY <2>2 DEF BatchAdvances
  <2>3. ASSUME NEW c \in Client, job[c] = Idle, NEW j,
               job' = [job EXCEPT ![c] = j]
        PROVE  BatchAdvances
    BY <2>3 DEF BatchAdvances, BatchInv, JobInv
  <2>4. ASSUME NEW c \in Client, NEW v, NEW told, NEW uid, NEW chunks,
               StartSeal(c, v, told, uid, chunks)
        PROVE  BatchAdvances
    BY <2>1, <2>3, <2>4 DEF StartSeal
  <2>5. ASSUME NEW c \in Client, NEW v, NEW blobs, NEW aads, StartOpen(c, v, blobs, aads)
        PROVE  BatchAdvances
    BY <2>1, <2>3, <2>5 DEF StartOpen
  <2>6. ASSUME NEW c \in Client, Finish(c) PROVE BatchAdvances
    <3>1. BatchMoves(job[c], job'[c]) /\ \A d \in Client \ {c} : job'[d] = job[d]
      BY <2>6 DEF Finish, BatchMoves, BatchInv, JobInv
    <3> QED BY <3>1, <2>2
  <2>7. ASSUME NEW c \in Client, NEW cipher, NEW v, NEW chunk, NEW aad,
               EncryptChunk(c, cipher, v, chunk, aad)
        PROVE  BatchAdvances
    BY <2>1, <2>7 DEF EncryptChunk
  <2>8. ASSUME NEW c \in Client, NEW cipher, NEW v, NEW b, NEW aad,
               DecryptChunk(c, cipher, v, b, aad)
        PROVE  BatchAdvances
    BY <2>1, <2>8 DEF DecryptChunk
  <2> QED BY <2>2, <2>4, <2>5, <2>6, <2>7, <2>8, RunTaskMoves, AwaitMoves DEF Next
<1> QED BY <1>1, BatchInitInv, BatchNextInv, PTL DEF Spec

-----------------------------------------------------------------------------
(* BoundedRead *)

(* What one read has done: it keeps what was sent until it is over the      *)
(* ceiling, and never more than the ceiling.                                *)
ReadOK(s) ==
  /\ s = [max |-> s.max, declared |-> s.declared, got |-> s.got, sent |-> s.sent, state |-> s.state]
  /\ s.max \in Nat /\ s.got \in Nat /\ s.sent \in Nat
  /\ s.got <= s.max
  /\ s.state \in {"idle", "reading", "ok", "Io"} => s.sent = s.got
  /\ s.state = "StreamedTooLarge" => s.sent > s.max
  /\ s.state = "DeclaredTooLarge" => s.declared > s.max

(* The inductive invariant of BoundedRead.                                  *)
ReadInv ==
  /\ read = [r \in Reader |-> read[r]]
  /\ \A r \in Reader : ReadOK(read[r])

(* One read changes to another that is in order.                            *)
LEMMA OneRead ==
  ASSUME ReadInv, NEW r \in Reader, NEW s, ReadOK(s), read' = [read EXCEPT ![r] = s]
  PROVE  ReadInv'
<1>1. read' = [x \in Reader |-> IF x = r THEN s ELSE read[x]]
  BY DEF ReadInv
<1> QED BY <1>1 DEF ReadInv

(* Every step of the reader keeps the invariant.                            *)
LEMMA ReadNextInv == ReadInv /\ [ReadNext]_readVars => ReadInv'
<1> SUFFICES ASSUME ReadInv, [ReadNext]_readVars PROVE ReadInv'
  OBVIOUS
<1>1. ASSUME NEW r \in Reader, NEW max \in Ceiling, NEW declared \in Length \cup {Undeclared},
             StartRead(r, max, declared)
      PROVE  ReadInv'
  <2> DEFINE s == [max |-> max, declared |-> declared, got |-> 0, sent |-> 0,
                   state |-> IF declared # Undeclared /\ declared > max
                             THEN "DeclaredTooLarge" ELSE "reading"]
  <2>1. read' = [read EXCEPT ![r] = s]
    BY <1>1 DEF StartRead
  <2>2. ReadOK(s)
    BY ReadAssumption DEF ReadAssumption, ReadOK
  <2> HIDE DEF s
  <2> QED BY <2>1, <2>2, OneRead
<1>2. ASSUME NEW r \in Reader, NEW n \in 1 .. MaxPiece, Piece(r, n)
      PROVE  ReadInv'
  <2> DEFINE s == read[r]
             over == [s EXCEPT !.sent = s.sent + n, !.state = "StreamedTooLarge"]
             more == [s EXCEPT !.sent = s.sent + n, !.got = s.got + n]
  <2>1. /\ s.state = "reading"
        /\ read' = [read EXCEPT ![r] = IF s.got + n > s.max THEN over ELSE more]
    BY <1>2 DEF Piece
  <2>2. ReadOK(s)
    BY DEF ReadInv
  <2>8. s = [max |-> s.max, declared |-> s.declared, got |-> s.got, sent |-> s.sent,
             state |-> s.state]
    BY <2>2 DEF ReadOK
  <2>3. over = [max |-> s.max, declared |-> s.declared, got |-> s.got, sent |-> s.sent + n,
                state |-> "StreamedTooLarge"]
    <3> HIDE DEF s
    <3>1. ASSUME NEW x, NEW z, z = [s EXCEPT !.sent = x, !.state = "StreamedTooLarge"]
          PROVE  z =
                    [max |-> s.max, declared |-> s.declared, got |-> s.got, sent |-> x,
                     state |-> "StreamedTooLarge"]
      BY <2>8, <3>1
    <3> QED BY <3>1
  <2>4. more = [max |-> s.max, declared |-> s.declared, got |-> s.got + n, sent |-> s.sent + n,
                state |-> s.state]
    <3> HIDE DEF s
    <3>1. ASSUME NEW x, NEW y, NEW z, z = [s EXCEPT !.sent = x, !.got = y]
          PROVE  z =
                       [max |-> s.max, declared |-> s.declared, got |-> y, sent |-> x,
                        state |-> s.state]
      BY <2>8, <3>1
    <3> QED BY <3>1
  <2>5. /\ s.got \in Nat /\ s.max \in Nat /\ s.sent = s.got /\ s.got + n \in Nat
        /\ s.got <= s.max
    BY <2>1, <2>2 DEF ReadOK
  <2>6. CASE s.got + n > s.max
    <3>1. ReadOK(over)
      BY <2>3, <2>5, <2>6 DEF ReadOK
    <3> HIDE DEF over, more
    <3> QED BY <2>1, <2>6, <3>1, OneRead
  <2>7. CASE ~(s.got + n > s.max)
    <3>1. ReadOK(more)
      BY <2>1, <2>4, <2>5, <2>7 DEF ReadOK
    <3> HIDE DEF over, more
    <3> QED BY <2>1, <2>7, <3>1, OneRead
  <2> QED BY <2>6, <2>7
<1>3. ASSUME NEW r \in Reader, NEW how \in {"ok", "Io"}, FinishRead(r, how)
      PROVE  ReadInv'
  <2> DEFINE s == read[r]
             t == [s EXCEPT !.state = how]
  <2>1. s.state = "reading" /\ read' = [read EXCEPT ![r] = t]
    BY <1>3 DEF FinishRead
  <2>2. ReadOK(s)
    BY DEF ReadInv
  <2>3. t = [max |-> s.max, declared |-> s.declared, got |-> s.got, sent |-> s.sent, state |-> how]
    BY <2>2 DEF ReadOK
  <2>4. ReadOK(t)
    BY <2>1, <2>2, <2>3 DEF ReadOK
  <2> HIDE DEF t
  <2> QED BY <2>1, <2>4, OneRead
<1>4. CASE UNCHANGED readVars
  BY <1>4 DEF readVars, ReadInv
<1> QED BY <1>1, <1>2, <1>3, <1>4 DEF ReadNext

(* For any ceilings, declared lengths and pieces, and any number of reads:  *)
(* a body is returned whole or refused, within memory bounded by the        *)
(* ceiling, and refused only when it was too large or declared to be        *)
(* (bounded-http/src/lib.rs read_body_bounded).                             *)
THEOREM BodyWholeOrOver == ReadSpec => []WholeOrOver
<1>1. ReadInit => ReadInv
  BY ReadAssumption DEF ReadInit, Fresh, ReadInv, ReadOK
<1>2. ReadInv => WholeOrOver
  BY DEF ReadInv, ReadOK, WholeOrOver, ReadTextBounded
<1> QED BY <1>1, <1>2, ReadNextInv, PTL DEF ReadSpec

-----------------------------------------------------------------------------
(* FfiHandles *)

(* A thread's call, and the engine it is on.                                *)
FfiCallOK(c) ==
  /\ c = [at |-> c.at, op |-> c.op, on |-> c.on, input |-> c.input, parts |-> c.parts]
  /\ c.at \in {"idle", "checked", "inside", "returned", "failed", "message", "dispose", "disposed"}
  /\ c.at # "idle" => c.on \in Objects \union {NoObject}
  /\ c.at \in {"dispose", "disposed"} => c.on \in Objects
  /\ c.at = "idle" => c.on = NoObject

(* The shape of the state.                                                  *)
FfiTypes ==
  /\ native = [o \in Objects |-> native[o]]
  /\ \A o \in Objects : native[o] = [state |-> native[o].state, min |-> native[o].min]
  /\ object = [o \in Objects |-> object[o]]
  /\ \A o \in Objects : /\ object[o] = [handle |-> object[o].handle, disposed |-> object[o].disposed]
                        /\ object[o].handle \in BOOLEAN
  /\ ffiCall = [t \in Threads |-> ffiCall[t]]
  /\ \A t \in Threads : FfiCallOK(ffiCall[t])
  /\ lastError = [t \in Threads |-> lastError[t]]
  /\ thrown = [t \in Threads |-> thrown[t]]

(* Whoever disposes an engine is alone on it.                               *)
Alone ==
  \A t, u \in Threads :
     ffiCall[t].at \in {"dispose", "disposed"} /\ u # t => ffiCall[u].on # ffiCall[t].on

(* A handle that is set has a live engine behind it, but for the moment     *)
(* between the native free and the assignments of Dispose.                  *)
HandlesLive ==
  \A o \in Objects :
     object[o].handle =>
       \/ native[o].state = "live"
       \/ \E t \in Threads : ffiCall[t].at = "disposed" /\ ffiCall[t].on = o

(* A call between its test of _disposed and its return has its engine.      *)
InUse ==
  \A t \in Threads :
     ffiCall[t].at \in {"checked", "inside", "dispose"} /\ ffiCall[t].on # NoObject =>
       object[ffiCall[t].on].handle /\ native[ffiCall[t].on].state = "live"

(* What thread t holds of the heap.                                         *)
Holds(c) == IF c.at = "returned" THEN c.parts
            ELSE IF c.at = "message" THEN {ErrorString} ELSE {}

(* The heap is exactly what the threads hold.                               *)
HeapHeld ==
  /\ \A t \in Threads : Own(t, Holds(ffiCall[t])) \subseteq heap
  /\ \A a \in heap : \E t \in Threads : a \in Own(t, Holds(ffiCall[t]))

(* A call that failed left its own cause in its thread's cell.              *)
FailedOwn == \A t \in Threads : ffiCall[t].at = "failed" => lastError[t] = Cause(ffiCall[t])

(* The inductive invariant of FfiHandles.                                   *)
FfiInv == FfiTypes /\ Alone /\ HandlesLive /\ InUse /\ HeapHeld /\ FailedOwn /\ ~corrupt /\ ErrorIsOwn

(* The invariant holds initially.                                           *)
LEMMA FfiInitInv == FfiInit => FfiInv
<1> SUFFICES ASSUME FfiInit PROVE FfiInv
  OBVIOUS
<1>1. \A t \in Threads : ffiCall[t] = FfiIdle /\ Holds(ffiCall[t]) = {}
  BY DEF FfiInit, FfiIdle, Holds
<1>2. FfiTypes
  BY <1>1 DEF FfiInit, FfiTypes, FfiCallOK, FfiIdle
<1>3. Alone /\ HandlesLive /\ InUse /\ FailedOwn
  BY <1>1 DEF FfiInit, FfiIdle, Alone, HandlesLive, InUse, FailedOwn
<1>4. HeapHeld
  BY <1>1 DEF FfiInit, HeapHeld, Own
<1>5. ~corrupt /\ ErrorIsOwn
  BY DEF FfiInit, ErrorIsOwn
<1> QED BY <1>2, <1>3, <1>4, <1>5 DEF FfiInv

(* One thread's call becomes c, the others keeping theirs.                  *)
LEMMA OneCall ==
  ASSUME FfiTypes, NEW t \in Threads, NEW c, ffiCall' = [ffiCall EXCEPT ![t] = c]
  PROVE  /\ ffiCall' = [u \in Threads |-> ffiCall'[u]]
         /\ ffiCall'[t] = c
         /\ \A u \in Threads : u # t => ffiCall'[u] = ffiCall[u]
BY DEF FfiTypes

(* The heap when thread t comes to hold what c does.                        *)
LEMMA HeapStep ==
  ASSUME FfiTypes, HeapHeld, NEW t \in Threads, NEW c, ffiCall' = [ffiCall EXCEPT ![t] = c],
         \/ heap' = heap /\ Holds(c) = Holds(ffiCall[t])
         \/ heap' = heap \union Own(t, Holds(c)) /\ Holds(ffiCall[t]) = {}
         \/ heap' = heap \ Own(t, Holds(ffiCall[t])) /\ Holds(c) = {}
  PROVE  HeapHeld'
<1>1. /\ ffiCall'[t] = c
      /\ \A u \in Threads : u # t => ffiCall'[u] = ffiCall[u]
  BY OneCall
<1>2. \A u \in Threads : Own(u, Holds(ffiCall'[u])) \subseteq heap'
  BY <1>1 DEF HeapHeld, Own
<1>3. \A a \in heap' : \E u \in Threads : a \in Own(u, Holds(ffiCall'[u]))
  BY <1>1 DEF HeapHeld, Own
<1> QED BY <1>2, <1>3 DEF HeapHeld, Holds
(* What a step of thread t that keeps engines and objects has to show.      *)
LEMMA CallStep ==
  ASSUME FfiInv, NEW t \in Threads, NEW c, ffiCall' = [ffiCall EXCEPT ![t] = c],
         native' = native, object' = object,
         FfiCallOK(c),
         c.at = "disposed" => FALSE,
         ffiCall[t].at # "disposed",
         c.on # NoObject => \A u \in Threads : u # t /\ ffiCall[u].at \in {"dispose", "disposed"} => ffiCall[u].on # c.on,
         c.at = "dispose" => \A u \in Threads : u # t => ffiCall[u].on # c.on,
         c.at \in {"checked", "inside", "dispose"} /\ c.on # NoObject => object[c.on].handle /\ native[c.on].state = "live"
  PROVE  /\ ffiCall' = [u \in Threads |-> ffiCall'[u]]
         /\ \A u \in Threads : FfiCallOK(ffiCall'[u])
         /\ Alone' /\ HandlesLive' /\ InUse'
<1>1. /\ ffiCall' = [u \in Threads |-> ffiCall'[u]]
      /\ ffiCall'[t] = c
      /\ \A u \in Threads : u # t => ffiCall'[u] = ffiCall[u]
  BY OneCall DEF FfiInv
<1>2. \A u \in Threads : FfiCallOK(ffiCall'[u])
  BY <1>1 DEF FfiInv, FfiTypes
<1>3. \A u \in Threads : ffiCall[u].at \in {"dispose", "disposed"} => ffiCall[u].on # NoObject
  BY BoundsAssumption DEF FfiInv, FfiTypes, FfiCallOK, Objects, NoObject
<1>4. Alone'
  BY <1>1, <1>3 DEF FfiInv, Alone
<1>5. HandlesLive'
  BY <1>1 DEF FfiInv, HandlesLive
<1>6. InUse'
  BY <1>1 DEF FfiInv, InUse
<1> QED BY <1>1, <1>2, <1>4, <1>5, <1>6

(* A constructor that succeeds gives an object a live engine.               *)
LEMMA FfiCreateInv ==
  ASSUME FfiInv, NEW t \in Threads, NEW o \in Objects, ffiCall[t].at = "idle", native[o].state = "none",
         NEW n, n = [state |-> n.state, min |-> n.min], n.state = "live",
         native' = [native EXCEPT ![o] = n], object' = [object EXCEPT ![o].handle = TRUE],
         lastError' = [lastError EXCEPT ![t] = "none"],
         UNCHANGED <<ffiCall, heap, thrown, corrupt>>
  PROVE  FfiInv'
<1>1. FfiTypes'
  <2>1. native' = [p \in Objects |-> native'[p]] /\ object' = [p \in Objects |-> object'[p]]
    BY DEF FfiInv, FfiTypes
  <2>2. \A p \in Objects : native'[p] = [state |-> native'[p].state, min |-> native'[p].min]
    BY DEF FfiInv, FfiTypes
  <2>3. \A p \in Objects : object'[p] = [handle |-> object'[p].handle, disposed |-> object'[p].disposed]
                           /\ object'[p].handle \in BOOLEAN
    BY DEF FfiInv, FfiTypes
  <2>4. lastError' = [u \in Threads |-> lastError'[u]]
    BY DEF FfiInv, FfiTypes
  <2>5. \A u \in Threads : FfiCallOK(ffiCall'[u])
    BY DEF FfiInv, FfiTypes
  <2>6. ffiCall' = [u \in Threads |-> ffiCall'[u]] /\ thrown' = [u \in Threads |-> thrown'[u]]
    BY DEF FfiInv, FfiTypes
  <2> QED BY <2>1, <2>2, <2>3, <2>4, <2>5, <2>6 DEF FfiTypes
<1>2. Alone'
  BY DEF FfiInv, Alone
<1>3. HandlesLive'
  BY DEF FfiInv, FfiTypes, HandlesLive
<1>4. InUse'
  BY DEF FfiInv, FfiTypes, FfiCallOK, InUse
<1>5. HeapHeld' /\ ~corrupt' /\ ErrorIsOwn'
  BY DEF FfiInv, HeapHeld, Holds, ErrorIsOwn
<1>6. FailedOwn'
  BY DEF FfiInv, FfiTypes, FailedOwn, Cause, EngineErr
<1> QED BY <1>1, <1>2, <1>3, <1>4, <1>5, <1>6 DEF FfiInv

(* vault_aes_create keeps the invariant.                                    *)
LEMMA CreateAesInv ==
  ASSUME FfiInv, NEW t \in Threads, NEW o \in Objects, NEW input \in Inputs, CreateAes(t, o, input)
  PROVE  FfiInv'
<1>1. CASE input = "good"
  <2> DEFINE n == [native[o] EXCEPT !.state = "live"]
  <2>1. n = [state |-> n.state, min |-> n.min] /\ n.state = "live"
    BY DEF FfiInv, FfiTypes
  <2>2. native' = [native EXCEPT ![o] = n]
    BY <1>1 DEF CreateAes
  <2> HIDE DEF n
  <2> QED BY <1>1, <2>1, <2>2, FfiCreateInv DEF CreateAes
<1>2. CASE input # "good"
  <2> DEFINE c == [at |-> "failed", op |-> "create", on |-> NoObject, input |-> input, parts |-> {}]
  <2>1. ffiCall' = [ffiCall EXCEPT ![t] = c]
    BY <1>2 DEF CreateAes, FfiIdle
  <2>2. /\ FfiCallOK(c) /\ c.at = "failed" /\ c.on = NoObject /\ Holds(c) = {}
        /\ Cause(c) = IF input = "empty" THEN "null" ELSE "engine"
    BY <1>2 DEF FfiCallOK, Holds, Cause, EngineErr, Inputs
  <2> HIDE DEF c
  <2>3. UNCHANGED <<native, object, heap, thrown, corrupt>> /\ ffiCall[t].at = "idle"
    BY <1>2 DEF CreateAes
  <2>4. lastError' = [lastError EXCEPT ![t] = Cause(c)]
    BY <1>2, <2>2 DEF CreateAes, SetLastError
  <2>5. /\ ffiCall' = [u \in Threads |-> ffiCall'[u]]
        /\ \A u \in Threads : FfiCallOK(ffiCall'[u])
        /\ Alone' /\ HandlesLive' /\ InUse'
    BY <2>1, <2>2, <2>3, CallStep
  <2>6. HeapHeld'
    <3>1. Holds(ffiCall[t]) = {}
      BY <2>3 DEF Holds
    <3> QED BY <2>1, <2>2, <2>3, <3>1, HeapStep DEF FfiInv
  <2>7. FailedOwn'
    <3>1. /\ ffiCall'[t] = c
          /\ \A u \in Threads : u # t => ffiCall'[u] = ffiCall[u]
      BY <2>1, OneCall DEF FfiInv
    <3>2. lastError'[t] = Cause(c) /\ \A u \in Threads : u # t => lastError'[u] = lastError[u]
      BY <2>4 DEF FfiInv, FfiTypes
    <3> QED BY <3>1, <3>2 DEF FfiInv, FailedOwn, Cause, EngineErr
  <2>8. FfiTypes'
    BY <2>3, <2>4, <2>5 DEF FfiInv, FfiTypes
  <2> QED BY <2>3, <2>5, <2>6, <2>7, <2>8 DEF FfiInv, ErrorIsOwn
<1> QED BY <1>1, <1>2

(* vault_chunker_create_custom keeps the invariant.                         *)
LEMMA CreateChunkerInv ==
  ASSUME FfiInv, NEW t \in Threads, NEW o \in Objects, NEW min, NEW avg, NEW max,
         CreateChunker(t, o, min, avg, max)
  PROVE  FfiInv'
<1>1. CASE SizesOrdered(min, avg, max)
  <2> DEFINE n == [state |-> "live", min |-> min]
  <2>1. n = [state |-> n.state, min |-> n.min] /\ n.state = "live"
    OBVIOUS
  <2>2. native' = [native EXCEPT ![o] = n]
    BY <1>1 DEF CreateChunker
  <2> HIDE DEF n
  <2> QED BY <1>1, <2>1, <2>2, FfiCreateInv DEF CreateChunker, SetLastError
<1>2. CASE ~SizesOrdered(min, avg, max)
  <2>1. UNCHANGED <<native, object, heap, ffiCall, thrown, corrupt>> /\ ffiCall[t].at = "idle"
        /\ lastError' = [lastError EXCEPT ![t] = "none"]
    BY <1>2 DEF CreateChunker, SetLastError
  <2>2. FailedOwn'
    BY <2>1 DEF FfiInv, FfiTypes, FailedOwn, Cause, EngineErr
  <2>3. FfiTypes'
    BY <2>1 DEF FfiInv, FfiTypes, FfiCallOK
  <2>4. Alone' /\ HandlesLive' /\ InUse' /\ HeapHeld' /\ ErrorIsOwn' /\ ~corrupt'
    BY <2>1 DEF FfiInv, Alone, HandlesLive, InUse, HeapHeld, Holds, ErrorIsOwn
  <2> QED BY <2>2, <2>3, <2>4 DEF FfiInv
<1> QED BY <1>1, <1>2
(* A step of thread t that keeps engines, objects and what it has thrown,   *)
(* and leaves its cell alone unless it fails.                               *)
LEMMA QuietStep ==
  ASSUME FfiInv, NEW t \in Threads, NEW c, ffiCall' = [ffiCall EXCEPT ![t] = c],
         native' = native, object' = object, ~corrupt',
         FfiCallOK(c), c.at \notin {"dispose", "disposed"}, ffiCall[t].at # "disposed",
         c.on \in {ffiCall[t].on, NoObject},
         c.at \in {"checked", "inside"} => ffiCall[t].at \in {"checked", "inside"},
         NEW e, lastError' = [lastError EXCEPT ![t] = e],
         c.at = "failed" => e = Cause(c),
         NEW m, thrown' = [thrown EXCEPT ![t] = m], m.message = m.cause,
         HeapHeld'
  PROVE  FfiInv'
<1>1. c.on # NoObject => \A u \in Threads : u # t /\ ffiCall[u].at \in {"dispose", "disposed"} => ffiCall[u].on # c.on
  BY DEF FfiInv, Alone
<1>2. c.at \in {"checked", "inside"} /\ c.on # NoObject => object[c.on].handle /\ native[c.on].state = "live"
  BY DEF FfiInv, InUse
<1>3. /\ ffiCall' = [u \in Threads |-> ffiCall'[u]]
      /\ \A u \in Threads : FfiCallOK(ffiCall'[u])
      /\ Alone' /\ HandlesLive' /\ InUse'
  BY <1>1, <1>2, CallStep
<1>4. FfiTypes'
  BY <1>3 DEF FfiInv, FfiTypes
<1>5. FailedOwn'
  <2>1. /\ ffiCall'[t] = c
        /\ \A u \in Threads : u # t => ffiCall'[u] = ffiCall[u]
    BY OneCall DEF FfiInv
  <2>2. lastError'[t] = e /\ \A u \in Threads : u # t => lastError'[u] = lastError[u]
    BY DEF FfiInv, FfiTypes
  <2> QED BY <2>1, <2>2 DEF FfiInv, FailedOwn, Cause, EngineErr
<1>6. ErrorIsOwn'
  BY DEF FfiInv, FfiTypes, ErrorIsOwn
<1> QED BY <1>3, <1>4, <1>5, <1>6 DEF FfiInv

(* The record of a call that returns, written out.                          *)
LEMMA ReturnedCall ==
  ASSUME NEW c, FfiCallOK(c), NEW parts, NEW d, d = [c EXCEPT !.at = "returned", !.parts = parts]
  PROVE  d = [at |-> "returned", op |-> c.op, on |-> c.on, input |-> c.input, parts |-> parts]
<1>1. c = [at |-> c.at, op |-> c.op, on |-> c.on, input |-> c.input, parts |-> c.parts]
  BY DEF FfiCallOK
<1> QED BY <1>1

(* The record of a call at another place, with the result it returns.       *)
LEMMA CallAt ==
  ASSUME NEW c, FfiCallOK(c), NEW a, a \in {"inside", "returned", "failed", "message", "disposed"},
         c.at # "idle", a = "disposed" <=> c.at = "dispose",
         NEW d, d = [c EXCEPT !.at = a]
  PROVE  FfiCallOK(d) /\ d.at = a /\ d.on = c.on /\ d.op = c.op /\ d.input = c.input
<1>1. d = [at |-> a, op |-> c.op, on |-> c.on, input |-> c.input, parts |-> c.parts]
  BY DEF FfiCallOK
<1>2. d.at = a /\ d.on = c.on /\ d.op = c.op /\ d.input = c.input
  BY <1>1
<1>3. d = [at |-> d.at, op |-> d.op, on |-> d.on, input |-> d.input, parts |-> d.parts]
  BY <1>1
<1> QED BY <1>2, <1>3 DEF FfiCallOK

(* The record of a call that returns is in order.                           *)
LEMMA CallReturned ==
  ASSUME NEW c, FfiCallOK(c), c.at = "inside", NEW parts,
         NEW d, d = [at |-> "returned", op |-> c.op, on |-> c.on, input |-> c.input, parts |-> parts]
  PROVE  FfiCallOK(d) /\ d.at = "returned" /\ d.on = c.on /\ d.parts = parts
<1>1. d = [at |-> "returned", op |-> c.op, on |-> c.on, input |-> c.input, parts |-> parts]
  OBVIOUS
<1>2. d.at = "returned" /\ d.on = c.on /\ d.parts = parts
  BY <1>1
<1>3. d = [at |-> d.at, op |-> d.op, on |-> d.on, input |-> d.input, parts |-> d.parts]
  BY <1>1
<1> QED BY <1>2, <1>3 DEF FfiCallOK

(* ThrowIfDisposed keeps the invariant: an object that is not disposed, and *)
(* that nobody is disposing, has its engine.                                *)
LEMMA BeginInv ==
  ASSUME FfiInv, DisposeAlone, NEW t \in Threads, NEW op \in Ops, NEW input \in Inputs, NEW o \in On(op),
         Begin(t, op, o, input)
  PROVE  FfiInv'
<1> DEFINE c == [at |-> "checked", op |-> op, on |-> o, input |-> input, parts |-> {}]
<1>1. o \in Objects \union {NoObject}
  BY DEF On, Objects, Ops
<1>2. FfiCallOK(c) /\ c.at = "checked" /\ c.on = o /\ Holds(c) = {}
  BY <1>1 DEF FfiCallOK, Holds
<1>3. ffiCall' = [ffiCall EXCEPT ![t] = c] /\ ffiCall[t].at = "idle"
      /\ UNCHANGED <<native, object, heap, lastError, thrown, corrupt>>
  BY DEF Begin
<1>4. o # NoObject => \A u \in Threads : ~(ffiCall[u].at \in {"dispose", "disposed"} /\ ffiCall[u].on = o)
  BY DEF Begin
<1>5. o # NoObject => object[o].handle /\ native[o].state = "live"
  BY <1>1, <1>4 DEF Begin, FfiInv, HandlesLive
<1> HIDE DEF c
<1>6. /\ ffiCall' = [u \in Threads |-> ffiCall'[u]]
      /\ \A u \in Threads : FfiCallOK(ffiCall'[u])
      /\ Alone' /\ HandlesLive' /\ InUse'
  BY <1>2, <1>3, <1>4, <1>5, CallStep
<1>7. HeapHeld'
  <2>1. Holds(ffiCall[t]) = {}
    BY <1>3 DEF Holds
  <2> QED BY <1>2, <1>3, <2>1, HeapStep DEF FfiInv
<1>8. FailedOwn'
  <2>1. /\ ffiCall'[t] = c
        /\ \A u \in Threads : u # t => ffiCall'[u] = ffiCall[u]
    BY <1>3, OneCall DEF FfiInv
  <2> QED BY <1>2, <1>3, <2>1 DEF FfiInv, FailedOwn, Cause, EngineErr
<1> QED BY <1>3, <1>6, <1>7, <1>8 DEF FfiInv, FfiTypes, ErrorIsOwn

(* The null checks of a native call keep the invariant.                     *)
LEMMA EnterInv ==
  ASSUME FfiInv, NEW t \in Threads, Enter(t)
  PROVE  FfiInv'
<1> DEFINE a == IF Null(ffiCall[t]) THEN "failed" ELSE "inside"
           c == [ffiCall[t] EXCEPT !.at = a]
           e == IF Null(ffiCall[t]) THEN "null" ELSE "none"
<1>1. a \in {"failed", "inside"} /\ ffiCall[t].at = "checked" /\ FfiCallOK(ffiCall[t])
  BY DEF Enter, FfiInv, FfiTypes
<1>2. ffiCall' = [ffiCall EXCEPT ![t] = c]
  BY DEF Enter
<1>3. lastError' = [lastError EXCEPT ![t] = e] /\ UNCHANGED <<native, object, heap, thrown, corrupt>>
  BY DEF Enter, SetLastError
<1>4. a = "failed" => e = "null" /\ ffiCall[t].input = "empty"
  BY <1>1 DEF FfiInv, InUse, Null
<1> HIDE DEF a, c, e
<1>5. FfiCallOK(c) /\ c.at = a /\ c.on = ffiCall[t].on /\ c.op = ffiCall[t].op /\ c.input = ffiCall[t].input
  <2>1. c = [ffiCall[t] EXCEPT !.at = a]
    BY DEF c
  <2>2. a \in {"inside", "returned", "failed", "message", "disposed"} /\ a # "disposed"
    BY <1>1
  <2> QED BY <1>1, <2>1, <2>2, CallAt
<1>6. Holds(c) = {} /\ Holds(ffiCall[t]) = {}
  BY <1>1, <1>5 DEF Holds
<1>7. HeapHeld'
  BY <1>2, <1>3, <1>6, HeapStep DEF FfiInv
<1>8. c.at = "failed" => e = Cause(c)
  BY <1>4, <1>5 DEF Cause, EngineErr
<1> DEFINE m == thrown[t]
<1>9. thrown' = [thrown EXCEPT ![t] = m] /\ m.message = m.cause
  BY <1>3 DEF FfiInv, FfiTypes, ErrorIsOwn
<1> HIDE DEF m
<1>10. ~corrupt'
  BY <1>3 DEF FfiInv
<1> QED BY <1>1, <1>2, <1>3, <1>5, <1>7, <1>8, <1>9, <1>10, QuietStep

(* The body of a native call keeps the invariant: its engine is live.       *)
LEMMA RunInv ==
  ASSUME FfiInv, NEW t \in Threads, Run(t)
  PROVE  FfiInv'
<1> DEFINE m == thrown[t]
<1>1. ffiCall[t].at = "inside" /\ FfiCallOK(ffiCall[t]) /\ Holds(ffiCall[t]) = {}
      /\ UNCHANGED <<native, object, thrown>>
  BY DEF Run, FfiInv, FfiTypes, Holds
<1>2. thrown' = [thrown EXCEPT ![t] = m] /\ m.message = m.cause
  BY <1>1 DEF FfiInv, FfiTypes, ErrorIsOwn
<1> HIDE DEF m
<1>3. ~corrupt'
  BY <1>1 DEF Run, FfiInv, InUse
<1>4. CASE EngineErr(ffiCall[t])
  <2> DEFINE c == [ffiCall[t] EXCEPT !.at = "failed"]
  <2>1. ffiCall' = [ffiCall EXCEPT ![t] = c] /\ lastError' = [lastError EXCEPT ![t] = "engine"] /\ heap' = heap
    BY <1>4 DEF Run, SetLastError
  <2> HIDE DEF c
  <2>2. FfiCallOK(c) /\ c.at = "failed" /\ c.on = ffiCall[t].on /\ c.op = ffiCall[t].op /\ c.input = ffiCall[t].input
    <3>1. c = [ffiCall[t] EXCEPT !.at = "failed"]
      BY DEF c
    <3> QED BY <1>1, <3>1, CallAt
  <2>3. Holds(c) = {} /\ Cause(c) = "engine"
    BY <1>4, <2>2 DEF Holds, Cause, EngineErr
  <2>4. HeapHeld'
    BY <1>1, <2>1, <2>3, HeapStep DEF FfiInv
  <2> QED BY <1>1, <1>2, <1>3, <2>1, <2>2, <2>3, <2>4, QuietStep
<1>5. CASE ~EngineErr(ffiCall[t])
  <2>1. PICK parts \in Results(ffiCall[t]) :
          /\ ffiCall' = [ffiCall EXCEPT ![t].at = "returned", ![t].parts = parts]
          /\ heap' = heap \union Own(t, parts)
          /\ UNCHANGED lastError
    BY <1>5 DEF Run
  <2> DEFINE c == [ffiCall[t] EXCEPT !.at = "returned", !.parts = parts]
             e == lastError[t]
  <2>2. ffiCall' = [ffiCall EXCEPT ![t] = c]
    BY <2>1 DEF FfiInv, FfiTypes
  <2>3. lastError' = [lastError EXCEPT ![t] = e]
    BY <2>1 DEF FfiInv, FfiTypes
  <2> HIDE DEF c, e
  <2>4. FfiCallOK(c) /\ c.at = "returned" /\ c.on = ffiCall[t].on /\ c.parts = parts
    <3> DEFINE k == ffiCall[t]
    <3>2. FfiCallOK(k) /\ k.at = "inside" /\ c = [k EXCEPT !.at = "returned", !.parts = parts]
      BY <1>1 DEF c
    <3> HIDE DEF k
    <3>1. c = [at |-> "returned", op |-> k.op, on |-> k.on, input |-> k.input, parts |-> parts]
      BY <3>2, ReturnedCall
    <3>3. FfiCallOK(c) /\ c.at = "returned" /\ c.on = k.on /\ c.parts = parts
      BY <3>1, <3>2, CallReturned
    <3> QED BY <3>3 DEF k
  <2>5. Holds(c) = parts
    BY <2>4 DEF Holds
  <2>6. HeapHeld'
    BY <1>1, <2>1, <2>2, <2>5, HeapStep DEF FfiInv
  <2> QED BY <1>1, <1>2, <1>3, <2>2, <2>3, <2>4, <2>6, QuietStep
<1> QED BY <1>4, <1>5

(* Freeing what a thread holds.                                             *)
LEMMA FreeInv ==
  ASSUME FfiInv, NEW t \in Threads, ffiCall[t].at \in {"returned", "message"},
         Free(t, Holds(ffiCall[t])), ffiCall' = [ffiCall EXCEPT ![t] = FfiIdle],
         UNCHANGED <<native, object, lastError, thrown>>
  PROVE  FfiInv'
<1> DEFINE m == thrown[t]
           e == lastError[t]
           c == FfiIdle
<1>1. thrown' = [thrown EXCEPT ![t] = m] /\ m.message = m.cause
  BY DEF FfiInv, FfiTypes, ErrorIsOwn
<1>2. lastError' = [lastError EXCEPT ![t] = e]
  BY DEF FfiInv, FfiTypes
<1>3. FfiCallOK(c) /\ c.at = "idle" /\ c.on = NoObject /\ Holds(c) = {}
  BY DEF FfiIdle, FfiCallOK, Holds
<1> HIDE DEF m, e, c
<1>4. ffiCall' = [ffiCall EXCEPT ![t] = c]
  BY DEF c
<1>5. Own(t, Holds(ffiCall[t])) \subseteq heap
  BY DEF FfiInv, HeapHeld
<1>6. ~corrupt' /\ heap' = heap \ Own(t, Holds(ffiCall[t]))
  BY <1>5 DEF Free, FfiInv
<1>7. HeapHeld'
  BY <1>3, <1>4, <1>6, HeapStep DEF FfiInv
<1> QED BY <1>1, <1>2, <1>3, <1>4, <1>6, <1>7, QuietStep

(* Freeing a result keeps the invariant.                                    *)
LEMMA CopyAndFreeInv ==
  ASSUME FfiInv, NEW t \in Threads, CopyAndFree(t)
  PROVE  FfiInv'
<1>1. Holds(ffiCall[t]) = Released(ffiCall[t].parts)
  BY DEF CopyAndFree, Holds, Released
<1> QED BY <1>1, FreeInv DEF CopyAndFree

(* vault_error_free keeps the invariant.                                    *)
LEMMA ErrorFreeInv ==
  ASSUME FfiInv, NEW t \in Threads, ErrorFree(t)
  PROVE  FfiInv'
<1>1. Holds(ffiCall[t]) = {ErrorString}
  BY DEF ErrorFree, Holds
<1> QED BY <1>1, FreeInv DEF ErrorFree

(* vault_last_error keeps the invariant: the cell still holds the call's    *)
(* own cause.                                                               *)
LEMMA FromLastErrorInv ==
  ASSUME FfiInv, NEW t \in Threads, FromLastError(t)
  PROVE  FfiInv'
<1> DEFINE m == [message |-> lastError[t], cause |-> Cause(ffiCall[t])]
           e == lastError[t]
           c == [ffiCall[t] EXCEPT !.at = "message"]
<1>1. thrown' = [thrown EXCEPT ![t] = m] /\ m.message = m.cause
  BY DEF FromLastError, FfiInv, FailedOwn
<1>2. lastError' = [lastError EXCEPT ![t] = e]
  BY DEF FromLastError, FfiInv, FfiTypes
<1>3. ffiCall' = [ffiCall EXCEPT ![t] = c] /\ ffiCall[t].at = "failed" /\ UNCHANGED <<native, object, corrupt>>
      /\ heap' = heap \union Own(t, {ErrorString})
  BY DEF FromLastError
<1>4. FfiCallOK(ffiCall[t]) /\ ~corrupt'
  BY <1>3 DEF FfiInv, FfiTypes
<1> HIDE DEF m, e, c
<1>5. FfiCallOK(c) /\ c.at = "message" /\ c.on = ffiCall[t].on
  <2>1. c = [ffiCall[t] EXCEPT !.at = "message"]
    BY DEF c
  <2> QED BY <1>3, <1>4, <2>1, CallAt
<1>6. Holds(c) = {ErrorString} /\ Holds(ffiCall[t]) = {}
  BY <1>3, <1>5 DEF Holds
<1>7. HeapHeld'
  BY <1>3, <1>6, HeapStep DEF FfiInv
<1> QED BY <1>1, <1>2, <1>3, <1>4, <1>5, <1>7, QuietStep

(* The record of a call to Dispose, written out.                            *)
LEMMA DisposeCall ==
  ASSUME NEW o, NEW c, c = [FfiIdle EXCEPT !.at = "dispose", !.on = o]
  PROVE  c = [at |-> "dispose", op |-> "none", on |-> o, input |-> "none", parts |-> {}]
BY DEF FfiIdle

(* The test of _disposed in Dispose keeps the invariant.                    *)
LEMMA BeginDisposeInv ==
  ASSUME FfiInv, DisposeAlone, NEW t \in Threads, NEW o \in Objects, BeginDispose(t, o)
  PROVE  FfiInv'
<1> DEFINE c == [FfiIdle EXCEPT !.at = "dispose", !.on = o]
<1>1. ffiCall' = [ffiCall EXCEPT ![t] = c]
  BY DEF BeginDispose
<1>2. FfiCallOK(c) /\ c.at = "dispose" /\ c.on = o /\ Holds(c) = {}
  <2>1. c = [FfiIdle EXCEPT !.at = "dispose", !.on = o]
    OBVIOUS
  <2> HIDE DEF c
  <2>2. c = [at |-> "dispose", op |-> "none", on |-> o, input |-> "none", parts |-> {}]
    BY <2>1, DisposeCall
  <2> QED BY <2>2 DEF FfiCallOK, Holds
<1> HIDE DEF c
<1>3. ffiCall[t].at = "idle" /\ object[o].handle /\ UNCHANGED <<native, object, heap, lastError, thrown, corrupt>>
  BY DEF BeginDispose
<1>4. \A u \in Threads : u # t => ffiCall[u].on # o
  BY DEF BeginDispose, Quiet
<1>5. native[o].state = "live"
  BY <1>3, <1>4 DEF FfiInv, HandlesLive
<1>6. /\ ffiCall' = [u \in Threads |-> ffiCall'[u]]
      /\ \A u \in Threads : FfiCallOK(ffiCall'[u])
      /\ Alone' /\ HandlesLive' /\ InUse'
  BY <1>1, <1>2, <1>3, <1>4, <1>5, CallStep
<1>7. HeapHeld'
  <2>1. Holds(ffiCall[t]) = {}
    BY <1>3 DEF Holds
  <2> QED BY <1>1, <1>2, <1>3, <2>1, HeapStep DEF FfiInv
<1>8. FailedOwn'
  <2>1. /\ ffiCall'[t] = c
        /\ \A u \in Threads : u # t => ffiCall'[u] = ffiCall[u]
    BY <1>1, OneCall DEF FfiInv
  <2> QED BY <1>2, <1>3, <2>1 DEF FfiInv, FailedOwn, Cause, EngineErr
<1> QED BY <1>3, <1>6, <1>7, <1>8 DEF FfiInv, FfiTypes, ErrorIsOwn

(* The native free in Dispose keeps the invariant.                          *)
LEMMA DisposeFreeInv ==
  ASSUME FfiInv, NEW t \in Threads, DisposeFree(t)
  PROVE  FfiInv'
<1> DEFINE c == [ffiCall[t] EXCEPT !.at = "disposed"]
           o == ffiCall[t].on
           n == [native[o] EXCEPT !.state = "freed"]
<1>1. ffiCall' = [ffiCall EXCEPT ![t] = c] /\ ffiCall[t].at = "dispose" /\ FfiCallOK(ffiCall[t])
      /\ UNCHANGED <<object, heap, lastError, thrown>>
  BY DEF DisposeFree, FfiInv, FfiTypes
<1>2. o \in Objects /\ o # NoObject
  BY <1>1, BoundsAssumption DEF FfiCallOK, Objects, NoObject
<1>3. object[o].handle /\ native[o].state = "live"
  BY <1>1, <1>2 DEF FfiInv, InUse
<1>4. ~corrupt' /\ native' = [native EXCEPT ![o] = n]
  BY <1>3 DEF DisposeFree, FfiInv
<1>5. n = [state |-> n.state, min |-> n.min] /\ n.state = "freed"
  BY <1>2 DEF FfiInv, FfiTypes
<1> HIDE DEF c, n
<1>6. FfiCallOK(c) /\ c.at = "disposed" /\ c.on = o
  <2>1. c = [ffiCall[t] EXCEPT !.at = "disposed"]
    BY DEF c
  <2> QED BY <1>1, <2>1, CallAt
<1>7. Holds(c) = {} /\ Holds(ffiCall[t]) = {}
  BY <1>1, <1>6 DEF Holds
<1>8. HeapHeld'
  BY <1>1, <1>7, HeapStep DEF FfiInv
<1>9. /\ ffiCall' = [u \in Threads |-> ffiCall'[u]]
      /\ ffiCall'[t] = c
      /\ \A u \in Threads : u # t => ffiCall'[u] = ffiCall[u]
  BY <1>1, OneCall DEF FfiInv
<1>10. \A u \in Threads : u # t => ffiCall[u].on # o
  BY <1>1 DEF FfiInv, Alone
<1>11. /\ native' = [p \in Objects |-> native'[p]]
       /\ native'[o] = n
       /\ \A p \in Objects : p # o => native'[p] = native[p]
  BY <1>2, <1>4 DEF FfiInv, FfiTypes
<1> HIDE DEF o
<1>12. FfiTypes'
  BY <1>1, <1>5, <1>6, <1>9, <1>11 DEF FfiInv, FfiTypes
<1>13. Alone'
  BY <1>6, <1>9, <1>10 DEF FfiInv, Alone
<1>14. HandlesLive'
  BY <1>1, <1>6, <1>9, <1>11 DEF FfiInv, HandlesLive
<1>15. InUse'
  BY <1>1, <1>6, <1>9, <1>10, <1>11 DEF FfiInv, FfiTypes, FfiCallOK, InUse
<1>16. FailedOwn'
  BY <1>1, <1>6, <1>9 DEF FfiInv, FailedOwn, Cause, EngineErr
<1> QED BY <1>1, <1>4, <1>8, <1>12, <1>13, <1>14, <1>15, <1>16 DEF FfiInv, ErrorIsOwn

(* The assignments of Dispose keep the invariant.                           *)
LEMMA DisposeEndInv ==
  ASSUME FfiInv, NEW t \in Threads, DisposeEnd(t)
  PROVE  FfiInv'
<1> DEFINE c == FfiIdle
           o == ffiCall[t].on
           d == [handle |-> FALSE, disposed |-> TRUE]
<1>1. ffiCall[t].at = "disposed" /\ FfiCallOK(ffiCall[t])
      /\ UNCHANGED <<native, heap, lastError, thrown, corrupt>>
  BY DEF DisposeEnd, FfiInv, FfiTypes
<1>2. FfiCallOK(c) /\ c.at = "idle" /\ c.on = NoObject /\ Holds(c) = {} /\ Holds(ffiCall[t]) = {}
  BY <1>1 DEF FfiIdle, FfiCallOK, Holds
<1>3. d = [handle |-> d.handle, disposed |-> d.disposed] /\ d.handle = FALSE
  OBVIOUS
<1>4. object' = [object EXCEPT ![o] = d] /\ ffiCall' = [ffiCall EXCEPT ![t] = c]
  BY DEF DisposeEnd
<1>5. o \in Objects /\ o # NoObject
  BY <1>1, BoundsAssumption DEF FfiCallOK, Objects, NoObject
<1> HIDE DEF c, d
<1>6. HeapHeld'
  BY <1>1, <1>2, <1>4, HeapStep DEF FfiInv
<1>7. /\ ffiCall' = [u \in Threads |-> ffiCall'[u]]
      /\ ffiCall'[t] = c
      /\ \A u \in Threads : u # t => ffiCall'[u] = ffiCall[u]
  BY <1>4, OneCall DEF FfiInv
<1>8. \A u \in Threads : u # t => ffiCall[u].on # o
  BY <1>1 DEF FfiInv, Alone
<1>9. /\ object' = [p \in Objects |-> object'[p]]
      /\ object'[o] = d
      /\ \A p \in Objects : p # o => object'[p] = object[p]
  BY <1>4, <1>5 DEF FfiInv, FfiTypes
<1>10. FfiTypes'
  BY <1>1, <1>2, <1>3, <1>7, <1>9 DEF FfiInv, FfiTypes
<1>11. Alone'
  <2>1. \A u \in Threads : ffiCall[u].at \in {"dispose", "disposed"} => ffiCall[u].on # NoObject
    BY BoundsAssumption DEF FfiInv, FfiTypes, FfiCallOK, Objects, NoObject
  <2> QED BY <1>2, <1>7, <2>1 DEF FfiInv, Alone
<1>12. HandlesLive'
  BY <1>1, <1>3, <1>7, <1>9 DEF FfiInv, HandlesLive
<1> HIDE DEF o
<1>13. InUse'
  <2> SUFFICES ASSUME NEW u \in Threads, ffiCall'[u].at \in {"checked", "inside", "dispose"},
                      ffiCall'[u].on # NoObject
               PROVE  object'[ffiCall'[u].on].handle /\ native'[ffiCall'[u].on].state = "live"
    BY DEF InUse
  <2>1. u # t /\ ffiCall'[u] = ffiCall[u]
    BY <1>2, <1>7
  <2>2. ffiCall[u].on \in Objects /\ ffiCall[u].on # o
    BY <1>8, <2>1 DEF FfiInv, FfiTypes, FfiCallOK
  <2> QED BY <1>1, <1>9, <2>1, <2>2 DEF FfiInv, InUse
<1>14. FailedOwn'
  BY <1>1, <1>2, <1>7 DEF FfiInv, FailedOwn, Cause, EngineErr
<1> QED BY <1>1, <1>6, <1>10, <1>11, <1>12, <1>13, <1>14 DEF FfiInv, ErrorIsOwn

(* Every step keeps the invariant of a program that disposes alone.         *)
LEMMA FfiNextInv ==
  ASSUME DisposeAlone, FfiInv, [FfiNext]_ffiVars
  PROVE  FfiInv'
<1>1. CASE FfiNext
  <2>1. PICK t \in Threads :
          \/ \E o \in Objects : \/ \E input \in Inputs : CreateAes(t, o, input)
                                \/ \E min, avg, max \in 0..MaxSize : CreateChunker(t, o, min, avg, max)
                                \/ BeginDispose(t, o)
          \/ \E op \in Ops, input \in Inputs : \E o \in On(op) : Begin(t, op, o, input)
          \/ Enter(t) \/ Run(t) \/ CopyAndFree(t) \/ FromLastError(t) \/ ErrorFree(t)
          \/ DisposeFree(t) \/ DisposeEnd(t)
    BY <1>1 DEF FfiNext
  <2>2. CASE \E o \in Objects, input \in Inputs : CreateAes(t, o, input)
    BY <2>2, CreateAesInv
  <2>3. CASE \E o \in Objects, min, avg, max \in 0..MaxSize : CreateChunker(t, o, min, avg, max)
    BY <2>3, CreateChunkerInv
  <2>4. CASE \E o \in Objects : BeginDispose(t, o)
    BY <2>4, BeginDisposeInv
  <2>5. CASE \E op \in Ops, input \in Inputs : \E o \in On(op) : Begin(t, op, o, input)
    BY <2>5, BeginInv
  <2>6. CASE Enter(t) \/ Run(t) \/ CopyAndFree(t)
    BY <2>6, EnterInv, RunInv, CopyAndFreeInv
  <2>7. CASE FromLastError(t) \/ ErrorFree(t)
    BY <2>7, FromLastErrorInv, ErrorFreeInv
  <2>8. CASE DisposeFree(t) \/ DisposeEnd(t)
    BY <2>8, DisposeFreeInv, DisposeEndInv
  <2> QED BY <2>1, <2>2, <2>3, <2>4, <2>5, <2>6, <2>7, <2>8
<1>2. CASE UNCHANGED ffiVars
  <2> USE <1>2 DEF ffiVars
  <2>1. FfiTypes'
    BY DEF FfiInv, FfiTypes, FfiCallOK
  <2>2. Alone' /\ HandlesLive' /\ InUse'
    BY DEF FfiInv, Alone, HandlesLive, InUse
  <2>3. HeapHeld'
    BY DEF FfiInv, Holds, HeapHeld
  <2>4. FailedOwn' /\ ~corrupt' /\ ErrorIsOwn'
    BY DEF FfiInv, FailedOwn, Cause, EngineErr, ErrorIsOwn
  <2> QED BY <2>1, <2>2, <2>3, <2>4 DEF FfiInv
<1> QED BY <1>1, <1>2

(* The heap being what the threads hold, an idle thread left nothing.       *)
LEMMA FfiInvImplies == FfiInv => FreedExactlyOnce
BY DEF FfiInv, HeapHeld, Holds, Own, FreedExactlyOnce, MemorySafe, NoLeak

(* For any threads, engines and chunk lists, of a program that disposes an  *)
(* object nobody else is using: nothing that was freed is used or freed     *)
(* again, and no thread leaves an allocation behind (vault_*_free in        *)
(* ffi.rs, the finally blocks of AesEngine.cs and ChunkEngine.cs).          *)
THEOREM FfiAllocations == ASSUME DisposeAlone PROVE FfiSpec => []FreedExactlyOnce
<1>1. FfiInv /\ [FfiNext]_ffiVars => FfiInv'
  BY FfiNextInv
<1> QED BY <1>1, FfiInitInv, FfiInvImplies, PTL DEF FfiSpec

(* For the same programs: the exception a thread throws carries the cause   *)
(* of its own call, though other threads fail in between (LAST_ERROR in     *)
(* ffi.rs).                                                                 *)
THEOREM FfiErrors == ASSUME DisposeAlone PROVE FfiSpec => []ErrorIsOwn
<1>1. FfiInv /\ [FfiNext]_ffiVars => FfiInv'
  BY FfiNextInv
<1>2. FfiInv => ErrorIsOwn
  BY DEF FfiInv
<1> QED BY <1>1, <1>2, FfiInitInv, PTL DEF FfiSpec

-----------------------------------------------------------------------------
(* CredentialStore *)

(* The five entries of a session are five different keys, the access token  *)
(* the first of them and the recovery hash none of them.                    *)
LEMMA SessionKeyFacts ==
  /\ DOMAIN SessionKeys = 1..5 /\ Len(SessionKeys) = 5
  /\ SessionKeys[1] = "ACCESS_TOKEN"
  /\ \A i \in 1..5 : SessionKeys[i] \in Keys /\ SessionKeys[i] # "RECOVERY_HASH"
  /\ \A i, j \in 1..5 : SessionKeys[i] = SessionKeys[j] => i = j
  /\ "RECOVERY_HASH" \in Keys
<1>1. DOMAIN SessionKeys = 1..5 /\ Len(SessionKeys) = 5 /\ SessionKeys[1] = "ACCESS_TOKEN"
  BY DEF SessionKeys
<1>2. \A i \in 1..5 : SessionKeys[i] \in Keys
  BY <1>1 DEF Keys
<1>3. /\ SessionKeys[2] = "REFRESH_TOKEN" /\ SessionKeys[3] = "USER_ID"
      /\ SessionKeys[4] = "USER_EMAIL" /\ SessionKeys[5] = "TOKEN_EXPIRES_AT"
  BY DEF SessionKeys
<1>4. \A i \in 1..5 : i = 1 \/ i = 2 \/ i = 3 \/ i = 4 \/ i = 5
  OBVIOUS
<1>5. \A i \in 1..5 : SessionKeys[i] # "RECOVERY_HASH"
  BY <1>1, <1>3, <1>4
<1>6. \A i, j \in 1..5 : SessionKeys[i] = SessionKeys[j] => i = j
  BY <1>1, <1>3, <1>4
<1> QED BY <1>1, <1>2, <1>5, <1>6 DEF Keys

(* A process's call and where it stands.                                    *)
CredCallOK(c) ==
  /\ c = [op |-> c.op, at |-> c.at, session |-> c.session, alone |-> c.alone]
  /\ c.op \in {"idle", "store_all", "clear_all"}
  /\ c.at \in 1..5
  /\ c.session \in Nat
  /\ c.alone \in BOOLEAN

(* The shape of the state.                                                  *)
CredTypes ==
  /\ entry = [k \in Keys |-> entry[k]]
  /\ \A k \in Keys : entry[k] \in Seq(Nat)
  /\ credCall = [p \in Procs |-> credCall[p]]
  /\ \A p \in Procs : CredCallOK(credCall[p])
  /\ credAnswer = [p \in Procs |-> credAnswer[p]]
  /\ sessions \in Nat

(* A store_all nobody has disturbed has written its session up to where it  *)
(* stands.                                                                  *)
Written(E, c) ==
  c.op = "store_all" /\ c.alone = TRUE => \A i \in 1..5 : i < c.at => E[SessionKeys[i]] = <<c.session>>

(* The inductive invariant of CredentialStore, for any processes.           *)
CredInv == CredTypes /\ \A p \in Procs : Written(entry, credCall[p])

(* A process that does nothing is in order.                                 *)
LEMMA IdleOK == CredCallOK(CredIdle) /\ CredIdle.op = "idle"
<1> DEFINE c == CredIdle
<1>1. c = [op |-> "idle", at |-> 1, session |-> 0, alone |-> TRUE]
  BY DEF CredIdle
<1> HIDE DEF c
<1>2. c = [op |-> c.op, at |-> c.at, session |-> c.session, alone |-> c.alone]
  BY <1>1
<1>3. CredCallOK(c) /\ c.op = "idle"
  BY <1>1, <1>2 DEF CredCallOK
<1> QED BY <1>3 DEF c

(* The invariant holds initially.                                           *)
LEMMA CredInitInv == CredInit => CredInv
<1> SUFFICES ASSUME CredInit PROVE CredInv
  OBVIOUS
<1>1. \A p \in Procs : CredCallOK(credCall[p]) /\ credCall[p].op = "idle"
  BY IdleOK DEF CredInit
<1>2. \A k \in Keys : entry[k] \in Seq(Nat)
  BY DEF CredInit
<1>3. CredTypes
  BY <1>1, <1>2 DEF CredInit, CredTypes
<1> QED BY <1>1, <1>3 DEF CredInv, Written

(* A call that has seen an entry change.                                    *)
Seen(c) == IF c.op = "idle" THEN c ELSE [c EXCEPT !.alone = FALSE]

(* A call that has seen an entry change stands where it stood.              *)
LEMMA SeenOK ==
  ASSUME NEW c, CredCallOK(c), NEW d, d = Seen(c)
  PROVE  /\ CredCallOK(d)
         /\ d.op = c.op /\ d.at = c.at /\ d.session = c.session
         /\ d.op = "idle" \/ d.alone = FALSE
<1>1. CASE c.op = "idle"
  BY <1>1 DEF Seen
<1>2. CASE c.op # "idle"
  <2>1. d = [op |-> c.op, at |-> c.at, session |-> c.session, alone |-> FALSE]
    BY <1>2 DEF Seen, CredCallOK
  <2>2. d.op = c.op /\ d.at = c.at /\ d.session = c.session /\ d.alone = FALSE
    BY <2>1
  <2>3. d = [op |-> d.op, at |-> d.at, session |-> d.session, alone |-> d.alone]
    BY <2>1
  <2> QED BY <2>2, <2>3 DEF CredCallOK
<1> QED BY <1>1, <1>2

(* One call becomes c, the others as they were.                             *)
LEMMA CallAlone ==
  ASSUME CredInv, NEW p \in Procs, NEW c, credCall' = [credCall EXCEPT ![p] = c], CredCallOK(c),
         Written(entry, c), entry' = entry,
         credAnswer' = [q \in Procs |-> credAnswer'[q]], sessions' \in Nat
  PROVE  /\ CredInv'
         /\ credCall'[p] = c
         /\ \A q \in Procs : q # p => credCall'[q] = credCall[q]
<1>1. /\ credCall' = [q \in Procs |-> credCall'[q]]
      /\ credCall'[p] = c
      /\ \A q \in Procs : q # p => credCall'[q] = credCall[q]
  BY DEF CredInv, CredTypes
<1>2. \A q \in Procs : CredCallOK(credCall'[q])
  BY <1>1 DEF CredInv, CredTypes
<1>3. \A q \in Procs : Written(entry', credCall'[q])
  BY <1>1 DEF CredInv
<1> QED BY <1>1, <1>2, <1>3 DEF CredInv, CredTypes

(* Process p's call becomes c, and the others have seen an entry change.    *)
OthersSeen(p, c) ==
  /\ credCall' = [q \in Procs |-> credCall'[q]]
  /\ credCall'[p] = c
  /\ \A q \in Procs : q # p => credCall'[q] = Seen(credCall[q])

(* One call becomes c and an entry changes: every other call has seen it.   *)
LEMMA CallDisturbs ==
  ASSUME CredInv, NEW p \in Procs, NEW c, CredCallOK(c), OthersSeen(p, c),
         NEW k \in Keys, NEW v \in Seq(Nat), entry' = [entry EXCEPT ![k] = v],
         Written(entry', c),
         credAnswer' = [q \in Procs |-> credAnswer'[q]], sessions' \in Nat
  PROVE  /\ CredInv'
         /\ credCall'[p] = c
         /\ \A q \in Procs : q # p => credCall'[q].op = credCall[q].op
<1>1. /\ credCall' = [q \in Procs |-> credCall'[q]]
      /\ credCall'[p] = c
      /\ \A q \in Procs : q # p => credCall'[q] = Seen(credCall[q])
  BY DEF OthersSeen
<1>2. ASSUME NEW q \in Procs, q # p
      PROVE  /\ CredCallOK(credCall'[q])
             /\ credCall'[q].op = credCall[q].op
             /\ credCall'[q].op = "idle" \/ credCall'[q].alone = FALSE
  <2>1. CredCallOK(credCall[q]) /\ credCall'[q] = Seen(credCall[q])
    BY <1>1, <1>2 DEF CredInv, CredTypes
  <2> DEFINE o == credCall[q]
             d == credCall'[q]
  <2>2. CredCallOK(o) /\ d = Seen(o)
    BY <2>1
  <2> HIDE DEF o, d
  <2>3. /\ CredCallOK(d)
        /\ d.op = o.op /\ d.at = o.at /\ d.session = o.session
        /\ d.op = "idle" \/ d.alone = FALSE
    BY <2>2, SeenOK, Zenon
  <2> QED BY <2>3 DEF o, d
<1>3. \A q \in Procs : CredCallOK(credCall'[q])
  BY <1>1, <1>2
<1>4. ASSUME NEW q \in Procs PROVE Written(entry', credCall'[q])
  <2>1. CASE q = p
    BY <1>1, <2>1
  <2>2. CASE q # p
    BY <1>2, <2>2 DEF Written
  <2> QED BY <2>1, <2>2
<1>5. entry' = [j \in Keys |-> entry'[j]] /\ \A j \in Keys : entry'[j] \in Seq(Nat)
  BY DEF CredInv, CredTypes
<1>6. CredTypes'
  BY <1>1, <1>3, <1>5 DEF CredTypes
<1> QED BY <1>1, <1>2, <1>4, <1>6 DEF CredInv

(* What every step keeps.                                                   *)
StepKept == CredInv' /\ LoginWhole /\ RecoveryHashKept

(* A login begins.                                                          *)
LEMMA BeginStoreAllKept ==
  ASSUME CredInv, NEW p \in Procs, BeginStoreAll(p)
  PROVE  StepKept
<1> DEFINE c == [op |-> "store_all", at |-> 1, session |-> sessions + 1, alone |-> TRUE]
<1>1. credCall' = [credCall EXCEPT ![p] = c] /\ sessions' = sessions + 1 /\ sessions \in Nat
      /\ entry' = entry /\ credAnswer' = credAnswer
  BY DEF BeginStoreAll, CredInv, CredTypes
<1>2. CredCallOK(c) /\ c.at = 1
  BY <1>1 DEF CredCallOK
<1> HIDE DEF c
<1>3. Written(entry, c)
  BY <1>2 DEF Written
<1>4. credAnswer' = [q \in Procs |-> credAnswer'[q]] /\ sessions' \in Nat
  BY <1>1 DEF CredInv, CredTypes
<1>5. CredInv'
  BY <1>1, <1>2, <1>3, <1>4, CallAlone
<1>6. LoginWhole
  BY <1>1 DEF LoginWhole
<1>7. RecoveryHashKept
  BY <1>1, SessionKeyFacts DEF RecoveryHashKept, CredInv, CredTypes
<1> QED BY <1>5, <1>6, <1>7 DEF StepKept

(* The call goes on to its next key.                                        *)
LEMMA NextAt ==
  ASSUME NEW c, CredCallOK(c), c.at # 5, NEW d, d = [c EXCEPT !.at = c.at + 1]
  PROVE  CredCallOK(d) /\ d.op = c.op /\ d.at = c.at + 1 /\ d.session = c.session /\ d.alone = c.alone
<1>1. d = [op |-> c.op, at |-> c.at + 1, session |-> c.session, alone |-> c.alone]
  BY DEF CredCallOK
<1>2. d.op = c.op /\ d.at = c.at + 1 /\ d.session = c.session /\ d.alone = c.alone
  BY <1>1
<1>3. d = [op |-> d.op, at |-> d.at, session |-> d.session, alone |-> d.alone]
  BY <1>1
<1> QED BY <1>2, <1>3 DEF CredCallOK

(* Disturbed(p), one call at a time.                                        *)
LEMMA DisturbedIs ==
  ASSUME NEW p \in Procs, NEW c,
         credCall' = [Disturbed(p) EXCEPT ![p] = c]
  PROVE  OthersSeen(p, c)
BY DEF Disturbed, Seen, OthersSeen

(* One store of store_all: the last of an undisturbed login completes its   *)
(* five entries.                                                            *)
LEMMA CredStoreKept ==
  ASSUME CredInv, NEW p \in Procs, Store(p)
  PROVE  /\ StepKept
         /\ entry' = [entry EXCEPT ![SessionKeys[credCall[p].at]] = <<credCall[p].session>>]
         /\ sessions' = sessions
         /\ \/ credCall'[p].op = "idle"
            \/ credCall'[p].op = "store_all" /\ credCall'[p].session = credCall[p].session
<1> DEFINE o == credCall[p]
           k == SessionKeys[o.at]
           v == <<o.session>>
<1>1. CredCallOK(o) /\ o.op = "store_all" /\ o.at \in 1..5 /\ o.session \in Nat /\ k \in Keys
      /\ k # "RECOVERY_HASH"
  BY SessionKeyFacts DEF CredInv, CredTypes, CredCallOK, Store
<1>2. entry' = [entry EXCEPT ![k] = v] /\ v \in Seq(Nat)
  <2>1. entry' = [entry EXCEPT ![k] = SetPassword(entry[k], o.session)] /\ ~Ambiguous(entry[k])
    BY DEF Store, KeyAt
  <2>2. SetPassword(entry[k], o.session) = v
    BY <2>1 DEF SetPassword, Ambiguous
  <2> QED BY <1>1, <2>1, <2>2
<1>3. /\ entry'[k] = v
      /\ \A j \in Keys : j # k => entry'[j] = entry[j]
  BY <1>1, <1>2 DEF CredInv, CredTypes
<1>4. o.alone = TRUE => \A i \in 1..5 : i <= o.at => entry'[SessionKeys[i]] = v
  <2> SUFFICES ASSUME o.alone = TRUE, NEW i \in 1..5, i <= o.at PROVE entry'[SessionKeys[i]] = v
    OBVIOUS
  <2>1. CASE i = o.at
    BY <1>3, <2>1
  <2>2. CASE i < o.at
    <3>1. SessionKeys[i] \in Keys /\ SessionKeys[i] # k
      BY <1>1, <2>2, SessionKeyFacts
    <3>2. entry[SessionKeys[i]] = v
      BY <1>1, <2>2 DEF CredInv, Written
    <3> QED BY <1>3, <3>1, <3>2
  <2> QED BY <1>1, <2>1, <2>2
<1>5. RecoveryHashKept
  BY <1>1, <1>3, SessionKeyFacts DEF RecoveryHashKept, CredInv, CredTypes
<1>6. sessions' = sessions /\ sessions' \in Nat
  BY DEF Store, CredInv, CredTypes
<1>7. CASE o.at = 5
  <2> DEFINE c == CredIdle
             a == [op |-> "stored", session |-> o.session, alone |-> o.alone]
  <2>1. credCall' = [Disturbed(p) EXCEPT ![p] = c] /\ credAnswer' = [credAnswer EXCEPT ![p] = a]
    BY <1>7, SessionKeyFacts DEF Store, AtLast, Answer
  <2>2. a.session = o.session /\ a.alone = o.alone
    OBVIOUS
  <2>3. CredCallOK(c) /\ c.op = "idle"
    BY IdleOK
  <2> HIDE DEF c, a
  <2>4. OthersSeen(p, c)
    BY <2>1, DisturbedIs
  <2>5. /\ credAnswer' = [q \in Procs |-> credAnswer'[q]]
        /\ credAnswer'[p] = a
        /\ \A q \in Procs : q # p => credAnswer'[q] = credAnswer[q]
    BY <2>1 DEF CredInv, CredTypes
  <2>6. Written(entry', c)
    BY <2>3 DEF Written
  <2>7. CredInv' /\ credCall'[p] = c
    <3> HIDE DEF k, v, o
    <3> QED BY <1>1, <1>2, <1>6, <2>3, <2>4, <2>5, <2>6, CallDisturbs
  <2>8. LoginWhole
    BY <1>4, <1>7, <2>2, <2>5, SessionKeyFacts DEF LoginWhole
  <2> QED BY <1>2, <1>5, <1>6, <2>3, <2>7, <2>8 DEF StepKept
<1>8. CASE o.at # 5
  <2> DEFINE c == [o EXCEPT !.at = o.at + 1]
  <2>1. CredCallOK(c) /\ c.op = o.op /\ c.at = o.at + 1 /\ c.session = o.session /\ c.alone = o.alone
    <3>1. c = [o EXCEPT !.at = o.at + 1]
      OBVIOUS
    <3> HIDE DEF c, o
    <3> QED BY <1>1, <1>8, <3>1, NextAt
  <2>2. credCall' = [Disturbed(p) EXCEPT ![p] = c]
    BY <1>8, SessionKeyFacts DEF Store, AtLast, Disturbed
  <2> HIDE DEF c
  <2>3. OthersSeen(p, c)
    BY <2>2, DisturbedIs
  <2>4. credAnswer' = credAnswer /\ credAnswer' = [q \in Procs |-> credAnswer'[q]]
    BY <1>8, SessionKeyFacts DEF Store, AtLast, CredInv, CredTypes
  <2>5. Written(entry', c)
    BY <1>1, <1>4, <2>1 DEF Written
  <2>6. CredInv' /\ credCall'[p] = c
    <3> HIDE DEF k, v, o
    <3> QED BY <1>1, <1>2, <1>6, <2>1, <2>3, <2>4, <2>5, CallDisturbs
  <2>7. LoginWhole
    BY <2>4 DEF LoginWhole
  <2> QED BY <1>1, <1>2, <1>5, <1>6, <2>1, <2>6, <2>7 DEF StepKept
<1> QED BY <1>7, <1>8

(* The first failing store ends store_all with an error.                    *)
LEMMA StoreFailsKept ==
  ASSUME CredInv, NEW p \in Procs, StoreFails(p)
  PROVE  StepKept /\ entry' = entry /\ sessions' = sessions /\ credCall'[p].op = "idle"
<1> DEFINE c == CredIdle
           a == [op |-> "err", session |-> credCall[p].session, alone |-> credCall[p].alone]
<1>1. credCall' = [credCall EXCEPT ![p] = c] /\ entry' = entry /\ sessions' = sessions
      /\ credAnswer' = [credAnswer EXCEPT ![p] = a]
  BY DEF StoreFails, Answer
<1>2. CredCallOK(c) /\ c.op = "idle" /\ a.op = "err"
  BY IdleOK
<1> HIDE DEF c, a
<1>3. Written(entry, c)
  BY <1>2 DEF Written
<1>4. /\ credAnswer' = [q \in Procs |-> credAnswer'[q]] /\ sessions' \in Nat
      /\ credAnswer'[p] = a
      /\ \A q \in Procs : q # p => credAnswer'[q] = credAnswer[q]
  BY <1>1 DEF CredInv, CredTypes
<1>5. CredInv' /\ credCall'[p] = c
  BY <1>1, <1>2, <1>3, <1>4, CallAlone
<1>6. LoginWhole
  BY <1>2, <1>4 DEF LoginWhole
<1>7. RecoveryHashKept
  BY <1>1, SessionKeyFacts DEF RecoveryHashKept, CredInv, CredTypes
<1> QED BY <1>1, <1>2, <1>5, <1>6, <1>7 DEF StepKept

(* A logout begins.                                                         *)
LEMMA BeginClearAllKept ==
  ASSUME CredInv, NEW p \in Procs, BeginClearAll(p)
  PROVE  StepKept /\ entry' = entry /\ sessions' = sessions /\ credCall'[p].op = "clear_all"
<1> DEFINE c == [CredIdle EXCEPT !.op = "clear_all"]
<1>1. credCall' = [credCall EXCEPT ![p] = c] /\ entry' = entry /\ sessions' = sessions /\ credAnswer' = credAnswer
  BY DEF BeginClearAll
<1>2. CredCallOK(c) /\ c.op = "clear_all"
  <2>0. c = [CredIdle EXCEPT !.op = "clear_all"]
    OBVIOUS
  <2> HIDE DEF c
  <2>1. c = [op |-> "clear_all", at |-> 1, session |-> 0, alone |-> TRUE]
    BY <2>0 DEF CredIdle
  <2>2. c = [op |-> c.op, at |-> c.at, session |-> c.session, alone |-> c.alone]
    BY <2>1
  <2> QED BY <2>1, <2>2 DEF CredCallOK
<1> HIDE DEF c
<1>3. Written(entry, c)
  BY <1>2 DEF Written
<1>4. credAnswer' = [q \in Procs |-> credAnswer'[q]] /\ sessions' \in Nat
  BY <1>1 DEF CredInv, CredTypes
<1>5. CredInv' /\ credCall'[p] = c
  BY <1>1, <1>2, <1>3, <1>4, CallAlone
<1>6. LoginWhole
  BY <1>1 DEF LoginWhole
<1>7. RecoveryHashKept
  BY <1>1, SessionKeyFacts DEF RecoveryHashKept, CredInv, CredTypes
<1> QED BY <1>1, <1>2, <1>5, <1>6, <1>7 DEF StepKept

(* AdvanceClear leaves a call that is no store_all, and no login reported.  *)
LEMMA AdvanceClearKept ==
  ASSUME CredInv, NEW p \in Procs, credCall[p].op = "clear_all", NEW procs, AdvanceClear(p, procs),
         procs[p] = credCall[p], procs = [q \in Procs |-> procs[q]]
  PROVE  /\ LoginWhole
         /\ credAnswer' = [q \in Procs |-> credAnswer'[q]]
         /\ \E c : CredCallOK(c) /\ c.op \in {"idle", "clear_all"} /\ credCall' = [procs EXCEPT ![p] = c]
<1> DEFINE o == credCall[p]
<1>1. CredCallOK(o)
  BY DEF CredInv, CredTypes
<1>2. CASE o.at = 5
  <2> DEFINE c == CredIdle
             a == [op |-> "cleared", session |-> o.session, alone |-> o.alone]
  <2>1. credCall' = [procs EXCEPT ![p] = c] /\ credAnswer' = [credAnswer EXCEPT ![p] = a]
    BY <1>2, SessionKeyFacts DEF AdvanceClear, AtLast, Answer
  <2>2. a.op = "cleared" /\ CredCallOK(c) /\ c.op = "idle"
    BY IdleOK
  <2> HIDE DEF c, a
  <2>3. /\ credAnswer' = [q \in Procs |-> credAnswer'[q]]
        /\ credAnswer'[p] = a
        /\ \A q \in Procs : q # p => credAnswer'[q] = credAnswer[q]
    BY <2>1 DEF CredInv, CredTypes
  <2>4. LoginWhole
    BY <2>2, <2>3 DEF LoginWhole
  <2> QED BY <2>1, <2>2, <2>3, <2>4
<1>3. CASE o.at # 5
  <2> DEFINE c == [o EXCEPT !.at = o.at + 1]
  <2>1. CredCallOK(c) /\ c.op = o.op
    <3>1. c = [o EXCEPT !.at = o.at + 1]
      OBVIOUS
    <3> HIDE DEF c, o
    <3> QED BY <1>1, <1>3, <3>1, NextAt
  <2>2. credCall' = [procs EXCEPT ![p] = c] /\ credAnswer' = credAnswer
    BY <1>3, SessionKeyFacts DEF AdvanceClear, AtLast
  <2> HIDE DEF c
  <2>3. LoginWhole /\ credAnswer' = [q \in Procs |-> credAnswer'[q]]
    BY <2>2 DEF LoginWhole, CredInv, CredTypes
  <2> QED BY <2>1, <2>2, <2>3
<1> QED BY <1>2, <1>3

(* One delete of clear_all, which is never about the recovery hash.         *)
LEMMA DeleteKept ==
  ASSUME CredInv, NEW p \in Procs, Delete(p)
  PROVE  /\ StepKept
         /\ entry' = [entry EXCEPT ![SessionKeys[credCall[p].at]] = <<>>]
         /\ sessions' = sessions /\ credCall'[p].op # "store_all"
<1> DEFINE o == credCall[p]
           k == SessionKeys[o.at]
           v == <<>>
<1>1. CredCallOK(o) /\ o.op = "clear_all" /\ o.at \in 1..5 /\ k \in Keys /\ k # "RECOVERY_HASH"
  BY SessionKeyFacts DEF CredInv, CredTypes, CredCallOK, Delete
<1>2. entry' = [entry EXCEPT ![k] = v] /\ v \in Seq(Nat) /\ sessions' = sessions /\ sessions' \in Nat
  BY DEF Delete, KeyAt, CredInv, CredTypes
<1>3. RecoveryHashKept
  BY <1>1, <1>2, SessionKeyFacts DEF RecoveryHashKept, CredInv, CredTypes
<1>4. Disturbed(p)[p] = o /\ Disturbed(p) = [q \in Procs |-> Disturbed(p)[q]]
  BY DEF Disturbed
<1>5. AdvanceClear(p, Disturbed(p))
  BY DEF Delete
<1>6. /\ LoginWhole
      /\ credAnswer' = [q \in Procs |-> credAnswer'[q]]
      /\ \E c : CredCallOK(c) /\ c.op \in {"idle", "clear_all"} /\ credCall' = [Disturbed(p) EXCEPT ![p] = c]
  BY <1>1, <1>4, <1>5, AdvanceClearKept
<1>7. PICK c : CredCallOK(c) /\ c.op \in {"idle", "clear_all"} /\ credCall' = [Disturbed(p) EXCEPT ![p] = c]
  BY <1>6
<1>8. OthersSeen(p, c)
  BY <1>7, DisturbedIs
<1>9. Written(entry', c)
  BY <1>7 DEF Written
<1>10. CredInv' /\ credCall'[p] = c
  <2> HIDE DEF k, v, o
  <2> QED BY <1>1, <1>2, <1>6, <1>7, <1>8, <1>9, CallDisturbs
<1> QED BY <1>2, <1>3, <1>6, <1>7, <1>10 DEF StepKept

(* One failing delete of clear_all.                                         *)
LEMMA DeleteFailsKept ==
  ASSUME CredInv, NEW p \in Procs, DeleteFails(p)
  PROVE  StepKept /\ entry' = entry /\ sessions' = sessions /\ credCall'[p].op # "store_all"
<1>1. entry' = entry /\ sessions' = sessions /\ sessions' \in Nat /\ credCall[p].op = "clear_all"
  BY DEF DeleteFails, CredInv, CredTypes
<1>2. RecoveryHashKept
  BY <1>1, SessionKeyFacts DEF RecoveryHashKept, CredInv, CredTypes
<1>3. AdvanceClear(p, credCall) /\ credCall = [q \in Procs |-> credCall[q]]
  BY DEF DeleteFails, CredInv, CredTypes
<1>4. /\ LoginWhole
      /\ credAnswer' = [q \in Procs |-> credAnswer'[q]]
      /\ \E c : CredCallOK(c) /\ c.op \in {"idle", "clear_all"} /\ credCall' = [credCall EXCEPT ![p] = c]
  BY <1>1, <1>3, AdvanceClearKept
<1>5. PICK c : CredCallOK(c) /\ c.op \in {"idle", "clear_all"} /\ credCall' = [credCall EXCEPT ![p] = c]
  BY <1>4
<1>6. Written(entry, c)
  BY <1>5 DEF Written
<1>7. CredInv' /\ credCall'[p] = c
  BY <1>1, <1>4, <1>5, <1>6, CallAlone
<1> QED BY <1>1, <1>2, <1>4, <1>5, <1>7 DEF StepKept

(* Storing the recovery hash touches no entry of a session.                 *)
LEMMA StoreRecoveryHashKept ==
  ASSUME CredInv, NEW p \in Procs, StoreRecoveryHash(p)
  PROVE  /\ StepKept /\ sessions' = sessions /\ credCall'[p].op = "idle"
         /\ \A i \in 1..5 : entry'[SessionKeys[i]] = entry[SessionKeys[i]]
<1> DEFINE k == "RECOVERY_HASH"
           v == <<1>>
           c == credCall[p]
<1>1. entry' = [entry EXCEPT ![k] = v] /\ v \in Seq(Nat) /\ k \in Keys /\ ~Ambiguous(entry[k]) /\ Len(v) = 1
  <2>1. entry' = [entry EXCEPT ![k] = SetPassword(entry[k], 1)] /\ ~Ambiguous(entry[k])
    BY DEF StoreRecoveryHash
  <2>2. SetPassword(entry[k], 1) = v
    BY <2>1 DEF SetPassword, Ambiguous
  <2>3. v \in Seq(Nat) /\ Len(v) = 1
    OBVIOUS
  <2>4. k \in Keys
    BY SessionKeyFacts
  <2> HIDE DEF v, k
  <2> QED BY <2>1, <2>2, <2>3, <2>4
<1>2. /\ CredCallOK(c) /\ c.op = "idle" /\ sessions' = sessions /\ sessions' \in Nat
      /\ credAnswer' = credAnswer /\ credAnswer' = [q \in Procs |-> credAnswer'[q]]
  BY DEF StoreRecoveryHash, CredInv, CredTypes
<1>3. OthersSeen(p, c)
  BY DEF StoreRecoveryHash, Disturbed, Seen, OthersSeen
<1>4. RecoveryHashKept
  BY <1>1 DEF RecoveryHashKept, CredInv, CredTypes, Ambiguous
<1>5. \A i \in 1..5 : entry'[SessionKeys[i]] = entry[SessionKeys[i]]
  BY <1>1, SessionKeyFacts DEF CredInv, CredTypes
<1> HIDE DEF v, c
<1>6. Written(entry', c)
  BY <1>2 DEF Written
<1>7. CredInv' /\ credCall'[p] = c
  BY <1>1, <1>2, <1>3, <1>6, CallDisturbs
<1>8. LoginWhole
  BY <1>2 DEF LoginWhole
<1> QED BY <1>2, <1>4, <1>5, <1>7, <1>8 DEF StepKept

(* is_logged_in changes nothing.                                            *)
LEMMA AskLoggedInKept ==
  ASSUME CredInv, NEW p \in Procs, AskLoggedIn(p)
  PROVE  StepKept /\ UNCHANGED <<entry, credCall, sessions>>
<1>1. UNCHANGED <<entry, credCall, sessions>>
  BY DEF AskLoggedIn
<1>2. PICK op \in {"in", "out"} : Answer(p, op)
  BY DEF AskLoggedIn
<1> DEFINE a == [op |-> op, session |-> credCall[p].session, alone |-> credCall[p].alone]
<1>3. credAnswer' = [credAnswer EXCEPT ![p] = a] /\ a.op = op
  BY <1>2 DEF Answer
<1> HIDE DEF a
<1>4. /\ credAnswer' = [q \in Procs |-> credAnswer'[q]]
      /\ credAnswer'[p] = a
      /\ \A q \in Procs : q # p => credAnswer'[q] = credAnswer[q]
  BY <1>3 DEF CredInv, CredTypes
<1>5. LoginWhole
  BY <1>2, <1>3, <1>4 DEF LoginWhole
<1>6. RecoveryHashKept
  BY <1>1, SessionKeyFacts DEF RecoveryHashKept, CredInv, CredTypes
<1>7. CredTypes'
  BY <1>1, <1>4 DEF CredInv, CredTypes, CredCallOK
<1>8. \A q \in Procs : Written(entry', credCall'[q])
  BY <1>1 DEF CredInv
<1> QED BY <1>1, <1>5, <1>6, <1>7, <1>8 DEF StepKept, CredInv

(* A process dies.                                                          *)
LEMMA CrashKept ==
  ASSUME CredInv, NEW p \in Procs, Crash(p)
  PROVE  StepKept /\ entry' = entry /\ sessions' = sessions /\ credCall'[p].op = "idle"
<1> DEFINE c == CredIdle
<1>1. credCall' = [credCall EXCEPT ![p] = c] /\ UNCHANGED <<entry, sessions, credAnswer>>
  BY DEF Crash
<1>2. CredCallOK(c) /\ c.op = "idle"
  BY IdleOK
<1> HIDE DEF c
<1>3. Written(entry, c)
  BY <1>2 DEF Written
<1>4. credAnswer' = [q \in Procs |-> credAnswer'[q]] /\ sessions' \in Nat
  BY <1>1 DEF CredInv, CredTypes
<1>5. CredInv' /\ credCall'[p] = c
  BY <1>1, <1>2, <1>3, <1>4, CallAlone
<1>6. LoginWhole
  BY <1>1 DEF LoginWhole
<1>7. RecoveryHashKept
  BY <1>1, SessionKeyFacts DEF RecoveryHashKept, CredInv, CredTypes
<1> QED BY <1>1, <1>2, <1>5, <1>6, <1>7 DEF StepKept

(* Another program adds an item to an entry.                                *)
LEMMA AddDuplicateKept ==
  ASSUME CredInv, NEW k \in Keys, AddDuplicate(k)
  PROVE  /\ StepKept /\ sessions' = sessions
         /\ Len(entry'[k]) = 2
         /\ \A j \in Keys : j # k => entry'[j] = entry[j]
         /\ \A p \in Procs : /\ credCall'[p].op = credCall[p].op
                             /\ credCall'[p].at = credCall[p].at
                             /\ credCall'[p].session = credCall[p].session
<1> DEFINE v == Append(entry[k], 0)
<1>1. entry' = [entry EXCEPT ![k] = v] /\ UNCHANGED <<sessions, credAnswer>> /\ Len(entry[k]) = 1
      /\ entry[k] \in Seq(Nat)
  BY DEF AddDuplicate, CredInv, CredTypes
<1>2. v \in Seq(Nat) /\ Len(v) = 2
  <2> DEFINE s == entry[k]
  <2>1. s \in Seq(Nat) /\ Len(s) = 1
    BY <1>1
  <2> HIDE DEF s
  <2>2. Append(s, 0) \in Seq(Nat) /\ Len(Append(s, 0)) = 2
    BY <2>1
  <2> QED BY <2>2 DEF s
<1> HIDE DEF v
<1>3. /\ entry' = [j \in Keys |-> entry'[j]]
      /\ entry'[k] = v
      /\ \A j \in Keys : j # k => entry'[j] = entry[j]
  BY <1>1 DEF CredInv, CredTypes
<1>4. credCall' = [p \in Procs |-> credCall'[p]] /\ \A p \in Procs : credCall'[p] = Seen(credCall[p])
  BY DEF AddDuplicate, Seen
<1>5. \A p \in Procs : /\ CredCallOK(credCall'[p])
                       /\ credCall'[p].op = credCall[p].op /\ credCall'[p].at = credCall[p].at
                       /\ credCall'[p].session = credCall[p].session
                       /\ credCall'[p].op = "idle" \/ credCall'[p].alone = FALSE
  <2> SUFFICES ASSUME NEW p \in Procs
               PROVE  /\ CredCallOK(credCall'[p])
                      /\ credCall'[p].op = credCall[p].op /\ credCall'[p].at = credCall[p].at
                      /\ credCall'[p].session = credCall[p].session
                      /\ credCall'[p].op = "idle" \/ credCall'[p].alone = FALSE
    OBVIOUS
  <2>1. CredCallOK(credCall[p]) /\ credCall'[p] = Seen(credCall[p])
    BY <1>4 DEF CredInv, CredTypes
  <2> DEFINE o == credCall[p]
             d == credCall'[p]
  <2>2. CredCallOK(o) /\ d = Seen(o)
    BY <2>1
  <2> HIDE DEF o, d
  <2>3. /\ CredCallOK(d)
        /\ d.op = o.op /\ d.at = o.at /\ d.session = o.session
        /\ d.op = "idle" \/ d.alone = FALSE
    BY <2>2, SeenOK, Zenon
  <2> QED BY <2>3 DEF o, d
<1>6. \A p \in Procs : Written(entry', credCall'[p])
  BY <1>5 DEF Written
<1>7. CredInv'
  BY <1>1, <1>2, <1>3, <1>4, <1>5, <1>6 DEF CredInv, CredTypes
<1>8. LoginWhole
  BY <1>1 DEF LoginWhole
<1>9. RecoveryHashKept
  <2>1. Len(entry["RECOVERY_HASH"]) \in Nat
    BY SessionKeyFacts DEF CredInv, CredTypes
  <2> QED BY <1>1, <1>2, <1>3, <2>1, SessionKeyFacts DEF RecoveryHashKept
<1> QED BY <1>1, <1>2, <1>3, <1>5, <1>7, <1>8, <1>9 DEF StepKept

(* Every step keeps the invariant and the two action properties.            *)
LEMMA CredNextKept ==
  ASSUME CredInv, CredNext
  PROVE  StepKept
BY BeginStoreAllKept, CredStoreKept, StoreFailsKept, BeginClearAllKept, DeleteKept, DeleteFailsKept,
   StoreRecoveryHashKept, AskLoggedInKept, CrashKept, AddDuplicateKept DEF CredNext

(* Only one process uses the store.                                         *)
OneProcess == \A p, q \in Procs : p = q

(* In one process: a session's entries are numbered no higher than the      *)
(* last login, none is newer than the access token, and the login under way *)
(* is the last and has replaced the access token - or left it ambiguous -   *)
(* before it goes on.                                                       *)
Ordered(E, n) ==
  \A i \in 1..5 : Len(E[SessionKeys[i]]) = 1 =>
     /\ E[SessionKeys[i]][1] <= n
     /\ Len(E[SessionKeys[1]]) = 1 => E[SessionKeys[i]][1] <= E[SessionKeys[1]][1]

(* The login under way is the last, and wrote the access token first.       *)
LoginNewest(E, n, c) ==
  c.op = "store_all" =>
     /\ c.session = n
     /\ c.at > 1 => Len(E[SessionKeys[1]]) > 1 \/ E[SessionKeys[1]] = <<c.session>>

(* What one process adds to the invariant.                                  *)
NewestInv == Ordered(entry, sessions) /\ \A p \in Procs : LoginNewest(entry, sessions, credCall[p])

(* It holds initially.                                                      *)
LEMMA NewestInit == CredInit => NewestInv
<1> SUFFICES ASSUME CredInit PROVE NewestInv
  OBVIOUS
<1>1. \A i \in 1..5 : Len(entry[SessionKeys[i]]) = 0
  BY SessionKeyFacts DEF CredInit
<1>2. \A p \in Procs : credCall[p].op = "idle"
  BY IdleOK DEF CredInit
<1> QED BY <1>1, <1>2 DEF NewestInv, Ordered, LoginNewest

(* It implies what is said of the access token.                             *)
LEMMA NewestImplies == CredInv /\ NewestInv => AccessTokenNewest
<1> SUFFICES ASSUME CredInv, NewestInv, Get("ACCESS_TOKEN") # <<>>,
                    NEW i \in DOMAIN SessionKeys, NEW s, s = Get(SessionKeys[i]), s # <<>>
             PROVE  s[1] <= Get("ACCESS_TOKEN")[1]
  BY DEF AccessTokenNewest
<1>1. Len(entry[SessionKeys[1]]) = 1 /\ Get("ACCESS_TOKEN") = entry[SessionKeys[1]]
  BY SessionKeyFacts DEF Get
<1>2. Len(entry[SessionKeys[i]]) = 1 /\ s = entry[SessionKeys[i]] /\ i \in 1..5
  BY SessionKeyFacts DEF Get
<1> QED BY <1>1, <1>2 DEF NewestInv, Ordered

(* A step that writes no session entry and starts no login.                 *)
LEMMA NewestIdle ==
  ASSUME CredInv, NewestInv, sessions' = sessions,
         \A i \in 1..5 : entry'[SessionKeys[i]] = entry[SessionKeys[i]],
         \A p \in Procs : credCall'[p].op # "store_all" \/ credCall'[p] = credCall[p]
  PROVE  NewestInv'
<1>1. Ordered(entry', sessions')
  BY DEF NewestInv, Ordered
<1>2. \A p \in Procs : LoginNewest(entry', sessions', credCall'[p])
  BY DEF NewestInv, LoginNewest
<1> QED BY <1>1, <1>2 DEF NewestInv

(* What each action does to the ordering, in one process.                   *)
LEMMA NewestStore ==
  ASSUME OneProcess, CredInv, NewestInv, NEW p \in Procs, Store(p)
  PROVE  NewestInv'
<1> DEFINE o == credCall[p]
           k == SessionKeys[o.at]
           v == <<o.session>>
<1>1. CredCallOK(o) /\ o.op = "store_all" /\ o.at \in 1..5 /\ k \in Keys /\ o.session = sessions /\ sessions \in Nat
  BY SessionKeyFacts DEF CredInv, CredTypes, CredCallOK, Store, NewestInv, LoginNewest
<1>2. /\ entry' = [entry EXCEPT ![k] = v]
      /\ sessions' = sessions
      /\ \/ credCall'[p].op = "idle"
         \/ credCall'[p].op = "store_all" /\ credCall'[p].session = credCall[p].session
  BY CredStoreKept
<1>3. entry'[k] = v /\ Len(v) = 1 /\ v[1] = sessions /\ \A j \in Keys : j # k => entry'[j] = entry[j]
  BY <1>1, <1>2 DEF CredInv, CredTypes
<1>4. o.at > 1 => Len(entry[SessionKeys[1]]) > 1 \/ entry[SessionKeys[1]] = v
  BY <1>1 DEF NewestInv, LoginNewest
<1>5. Len(entry'[SessionKeys[1]]) > 1 \/ entry'[SessionKeys[1]] = v
  <2>1. CASE o.at = 1
    BY <1>3, <2>1
  <2>2. CASE o.at > 1
    <3>1. SessionKeys[1] # k /\ SessionKeys[1] \in Keys
      BY <1>1, <2>2, SessionKeyFacts
    <3> QED BY <1>3, <1>4, <2>2, <3>1
  <2> QED BY <1>1, <2>1, <2>2
<1>6. \A i \in 1..5 : Len(entry'[SessionKeys[i]]) = 1 => entry'[SessionKeys[i]][1] <= sessions
  <2> SUFFICES ASSUME NEW i \in 1..5, Len(entry'[SessionKeys[i]]) = 1 PROVE entry'[SessionKeys[i]][1] <= sessions
    OBVIOUS
  <2>1. CASE SessionKeys[i] = k
    BY <1>1, <1>3, <2>1
  <2>2. CASE SessionKeys[i] # k
    BY <1>3, <2>2, SessionKeyFacts DEF NewestInv, Ordered
  <2> QED BY <2>1, <2>2
<1> HIDE DEF o, k, v
<1>7. Ordered(entry', sessions')
  <2> SUFFICES ASSUME NEW i \in 1..5, Len(entry'[SessionKeys[i]]) = 1
               PROVE  /\ entry'[SessionKeys[i]][1] <= sessions
                      /\ Len(entry'[SessionKeys[1]]) = 1 =>
                           entry'[SessionKeys[i]][1] <= entry'[SessionKeys[1]][1]
    BY <1>2 DEF Ordered
  <2>1. Len(entry'[SessionKeys[1]]) = 1 => entry'[SessionKeys[1]][1] = sessions
    BY <1>3, <1>5
  <2>2. entry'[SessionKeys[i]][1] <= sessions
    BY <1>6
  <2> QED BY <2>1, <2>2
<1>8. \A q \in Procs : LoginNewest(entry', sessions', credCall'[q])
  <2>1. \A q \in Procs : q = p
    BY DEF OneProcess
  <2> QED BY <1>1, <1>2, <1>5, <2>1 DEF LoginNewest, o, v
<1> QED BY <1>7, <1>8 DEF NewestInv

(* A delete keeps it.                                                       *)
LEMMA NewestDelete ==
  ASSUME OneProcess, CredInv, NewestInv, NEW p \in Procs, Delete(p)
  PROVE  NewestInv'
<1> DEFINE o == credCall[p]
           k == SessionKeys[o.at]
<1>1. o.at \in 1..5 /\ k \in Keys
  BY SessionKeyFacts DEF CredInv, CredTypes, CredCallOK
<1>2. entry' = [entry EXCEPT ![k] = <<>>] /\ sessions' = sessions /\ credCall'[p].op # "store_all"
  BY DeleteKept
<1>3. Len(entry'[k]) = 0 /\ \A j \in Keys : j # k => entry'[j] = entry[j]
  BY <1>1, <1>2 DEF CredInv, CredTypes
<1> HIDE DEF o, k
<1>4. Ordered(entry', sessions')
  <2> SUFFICES ASSUME NEW i \in 1..5, Len(entry'[SessionKeys[i]]) = 1
               PROVE  /\ entry'[SessionKeys[i]][1] <= sessions'
                      /\ Len(entry'[SessionKeys[1]]) = 1 =>
                           entry'[SessionKeys[i]][1] <= entry'[SessionKeys[1]][1]
    BY DEF Ordered
  <2>1. SessionKeys[i] # k /\ entry'[SessionKeys[i]] = entry[SessionKeys[i]]
    BY <1>3, SessionKeyFacts
  <2>2. CASE SessionKeys[1] = k
    BY <1>2, <1>3, <2>1, <2>2 DEF NewestInv, Ordered
  <2>3. CASE SessionKeys[1] # k
    <3>1. entry'[SessionKeys[1]] = entry[SessionKeys[1]]
      BY <1>3, <2>3, SessionKeyFacts
    <3> QED BY <1>2, <2>1, <3>1 DEF NewestInv, Ordered
  <2> QED BY <2>2, <2>3
<1>5. \A q \in Procs : LoginNewest(entry', sessions', credCall'[q])
  BY <1>2 DEF OneProcess, LoginNewest
<1> QED BY <1>4, <1>5 DEF NewestInv

(* An added item keeps it: an ambiguous entry reads as none.                *)
LEMMA NewestDuplicate ==
  ASSUME CredInv, NewestInv, NEW k \in Keys, AddDuplicate(k)
  PROVE  NewestInv'
<1>1. /\ sessions' = sessions
      /\ Len(entry'[k]) = 2
      /\ \A j \in Keys : j # k => entry'[j] = entry[j]
      /\ \A p \in Procs : /\ credCall'[p].op = credCall[p].op
                          /\ credCall'[p].at = credCall[p].at
                          /\ credCall'[p].session = credCall[p].session
  BY AddDuplicateKept
<1>2. Ordered(entry', sessions')
  <2> SUFFICES ASSUME NEW i \in 1..5, Len(entry'[SessionKeys[i]]) = 1
               PROVE  /\ entry'[SessionKeys[i]][1] <= sessions'
                      /\ Len(entry'[SessionKeys[1]]) = 1 =>
                           entry'[SessionKeys[i]][1] <= entry'[SessionKeys[1]][1]
    BY DEF Ordered
  <2>1. SessionKeys[i] # k /\ entry'[SessionKeys[i]] = entry[SessionKeys[i]]
    BY <1>1, SessionKeyFacts
  <2>2. CASE SessionKeys[1] = k
    BY <1>1, <2>1, <2>2 DEF NewestInv, Ordered
  <2>3. CASE SessionKeys[1] # k
    <3>1. entry'[SessionKeys[1]] = entry[SessionKeys[1]]
      BY <1>1, <2>3, SessionKeyFacts
    <3> QED BY <1>1, <2>1, <3>1 DEF NewestInv, Ordered
  <2> QED BY <2>2, <2>3
<1>3. SessionKeys[1] = k \/ entry'[SessionKeys[1]] = entry[SessionKeys[1]]
  BY <1>1, SessionKeyFacts
<1>4. \A q \in Procs : LoginNewest(entry', sessions', credCall'[q])
  BY <1>1, <1>3 DEF NewestInv, LoginNewest
<1> QED BY <1>2, <1>4 DEF NewestInv

(* A new login is newer than every entry.                                   *)
LEMMA NewestBegin ==
  ASSUME OneProcess, CredInv, NewestInv, NEW p \in Procs, BeginStoreAll(p)
  PROVE  NewestInv'
<1> DEFINE c == [op |-> "store_all", at |-> 1, session |-> sessions + 1, alone |-> TRUE]
<1>1. credCall' = [credCall EXCEPT ![p] = c] /\ sessions' = sessions + 1 /\ sessions \in Nat /\ entry' = entry
  BY DEF BeginStoreAll, CredInv, CredTypes
<1>2. c.at = 1 /\ c.session = sessions + 1
  OBVIOUS
<1> HIDE DEF c
<1>3. credCall'[p] = c
  BY <1>1 DEF CredInv, CredTypes
<1>4. \A i \in 1..5 : Len(entry[SessionKeys[i]]) = 1 => entry[SessionKeys[i]][1] \in Nat
  BY SessionKeyFacts DEF CredInv, CredTypes
<1>5. Ordered(entry', sessions')
  BY <1>1, <1>4 DEF NewestInv, Ordered
<1>6. \A q \in Procs : LoginNewest(entry', sessions', credCall'[q])
  BY <1>1, <1>2, <1>3 DEF OneProcess, LoginNewest
<1> QED BY <1>5, <1>6 DEF NewestInv

(* Every step of one process keeps it.                                      *)
LEMMA NewestNext ==
  ASSUME OneProcess, CredInv, NewestInv, CredNext
  PROVE  NewestInv'
<1>1. ASSUME NEW p \in Procs, BeginStoreAll(p) \/ Store(p) \/ Delete(p) PROVE NewestInv'
  BY <1>1, NewestBegin, NewestStore, NewestDelete
<1>2. ASSUME NEW k \in Keys, AddDuplicate(k) PROVE NewestInv'
  BY <1>2, NewestDuplicate
<1>3. ASSUME NEW p \in Procs, StoreFails(p) \/ BeginClearAll(p) \/ DeleteFails(p) \/ Crash(p) PROVE NewestInv'
  <2>1. entry' = entry /\ sessions' = sessions /\ credCall'[p].op # "store_all"
    BY <1>3, StoreFailsKept, BeginClearAllKept, DeleteFailsKept, CrashKept
  <2> QED BY <2>1, NewestIdle DEF OneProcess
<1>4. ASSUME NEW p \in Procs, StoreRecoveryHash(p) PROVE NewestInv'
  BY <1>4, StoreRecoveryHashKept, NewestIdle DEF OneProcess
<1>5. ASSUME NEW p \in Procs, AskLoggedIn(p) PROVE NewestInv'
  BY <1>5, AskLoggedInKept, NewestIdle
<1> QED BY <1>1, <1>2, <1>3, <1>4, <1>5 DEF CredNext

(* Every step, or none, keeps the invariant and the action properties.      *)
LEMMA CredNextInv ==
  ASSUME CredInv, [CredNext]_credVars
  PROVE  CredInv' /\ [LoginWhole /\ RecoveryHashKept]_credVars
<1>1. CASE CredNext
  BY <1>1, CredNextKept DEF StepKept
<1>2. CASE UNCHANGED credVars
  <2>1. CredTypes'
    BY <1>2 DEF credVars, CredInv, CredTypes, CredCallOK
  <2>2. \A q \in Procs : Written(entry', credCall'[q])
    BY <1>2 DEF credVars, CredInv
  <2> QED BY <1>2, <2>1, <2>2 DEF CredInv
<1> QED BY <1>1, <1>2

(* For any number of processes, whatever fails or crashes: a login that     *)
(* reports success, undisturbed, has left the five entries of its own       *)
(* session, and no login or logout loses the recovery hash (store_all,      *)
(* clear_all).                                                              *)
THEOREM LoginsWhole == CredSpec => [][LoginWhole /\ RecoveryHashKept]_credVars
<1>1. CredInv /\ [CredNext]_credVars => CredInv' /\ [LoginWhole /\ RecoveryHashKept]_credVars
  BY CredNextInv
<1> QED BY <1>1, CredInitInv, PTL DEF CredSpec

(* For one process, any number of sessions, faults and duplicates: besides, *)
(* the access token a front end reads is never older than the entries read  *)
(* with it, because store_all writes it first.                              *)
THEOREM SessionsStayConsistent == ASSUME OneProcess PROVE CredSpec => SessionsConsistent
<1> DEFINE I == CredInv /\ NewestInv
<1>1. CredInit => I
  BY CredInitInv, NewestInit
<1>2. I /\ [CredNext]_credVars => I' /\ [LoginWhole /\ RecoveryHashKept /\ AccessTokenNewest']_credVars
  <2> SUFFICES ASSUME I, [CredNext]_credVars
               PROVE  I' /\ [LoginWhole /\ RecoveryHashKept /\ AccessTokenNewest']_credVars
    OBVIOUS
  <2>1. CredInv' /\ [LoginWhole /\ RecoveryHashKept]_credVars
    BY CredNextInv
  <2>2. CASE CredNext
    <3>1. NewestInv'
      BY <2>2, NewestNext
    <3>2. AccessTokenNewest'
      BY <2>1, <3>1, NewestImplies, PTL
    <3>3. LoginWhole /\ RecoveryHashKept
      BY <2>2, CredNextKept DEF StepKept
    <3> QED BY <2>1, <3>1, <3>2, <3>3
  <2>3. CASE UNCHANGED credVars
    <3>1. NewestInv'
      BY <2>3 DEF credVars, NewestInv, Ordered, LoginNewest
    <3> QED BY <2>1, <2>3, <3>1
  <2> QED BY <2>2, <2>3
<1> HIDE DEF I
<1>3. CredSpec => [][LoginWhole /\ RecoveryHashKept /\ AccessTokenNewest']_credVars
  BY <1>1, <1>2, PTL DEF CredSpec
<1> QED BY <1>3 DEF SessionsConsistent

-----------------------------------------------------------------------------
(* ClosestWord *)

\* u1 is u without its last letter.
Butlast(u1, u) == /\ Len(u) = Len(u1) + 1
                  /\ \A x \in 1..Len(u1) : u1[x] = u[x]

\* d is what the cheapest alignment of two words costs.
IsDistance(u, v, d) ==
  /\ \E A \in Alignments(u, v) : d = AlignmentCost(u, v, A)
  /\ \A A \in Alignments(u, v) : d <= AlignmentCost(u, v, A)

\* The letters an alignment removes, inserts and replaces can be counted.
LEMMA AlignmentFinite ==
  ASSUME NEW u \in Seq(Letters), NEW v \in Seq(Letters), NEW A \in Alignments(u, v)
  PROVE  /\ IsFiniteSet(Removed(u, A)) /\ Cardinality(Removed(u, A)) \in Nat
         /\ IsFiniteSet(Inserted(v, A)) /\ Cardinality(Inserted(v, A)) \in Nat
         /\ IsFiniteSet(Replaced(u, v, A)) /\ Cardinality(Replaced(u, v, A)) \in Nat
         /\ AlignmentCost(u, v, A) \in Nat
<1>1. Len(u) \in Nat /\ Len(v) \in Nat
  OBVIOUS
<1>2. IsFiniteSet(1..Len(u)) /\ IsFiniteSet(1..Len(v))
  BY <1>1, FS_Interval
<1>3. IsFiniteSet((1..Len(u)) \X (1..Len(v)))
  BY <1>2, FS_Product
<1>4. Removed(u, A) \in SUBSET (1..Len(u)) /\ Inserted(v, A) \in SUBSET (1..Len(v))
  BY DEF Removed, Inserted
<1>5. Replaced(u, v, A) \in SUBSET ((1..Len(u)) \X (1..Len(v)))
  BY DEF Replaced, Alignments
<1>6. /\ IsFiniteSet(Removed(u, A)) /\ IsFiniteSet(Inserted(v, A))
      /\ IsFiniteSet(Replaced(u, v, A))
  BY <1>2, <1>3, <1>4, <1>5, FS_Subset
<1>7. /\ Cardinality(Removed(u, A)) \in Nat /\ Cardinality(Inserted(v, A)) \in Nat
      /\ Cardinality(Replaced(u, v, A)) \in Nat
  BY <1>6, FS_CardinalityType
<1> QED
  BY <1>6, <1>7 DEF AlignmentCost

\* An alignment of a shorter word is one of the longer word, and removes one
\* letter more.
LEMMA RemoveLast ==
  ASSUME NEW u \in Seq(Letters), NEW v \in Seq(Letters),
         NEW u1 \in Seq(Letters), Butlast(u1, u), NEW A \in Alignments(u1, v)
  PROVE  /\ A \in Alignments(u, v)
         /\ AlignmentCost(u, v, A) = AlignmentCost(u1, v, A) + 1
<1>1. Len(u1) \in Nat /\ Len(v) \in Nat /\ Len(u) = Len(u1) + 1
  BY DEF Butlast
<1>2. \A p \in A : p[1] \in 1..Len(u1) /\ p[2] \in 1..Len(v) /\ p = <<p[1], p[2]>>
  BY DEF Alignments
<1>3. A \in Alignments(u, v)
  BY <1>1, <1>2 DEF Alignments
<1>4. Removed(u, A) = Removed(u1, A) \cup {Len(u)}
  BY <1>1, <1>2 DEF Removed
<1>5. Len(u) \notin Removed(u1, A)
  BY <1>1 DEF Removed
<1>6. Replaced(u, v, A) = Replaced(u1, v, A)
  BY <1>2 DEF Replaced, Butlast
<1>7. Cardinality(Removed(u, A)) = Cardinality(Removed(u1, A)) + 1
  BY <1>4, <1>5, AlignmentFinite, FS_AddElement
<1>8. /\ Cardinality(Removed(u1, A)) \in Nat /\ Cardinality(Inserted(v, A)) \in Nat
      /\ Cardinality(Replaced(u1, v, A)) \in Nat
  BY AlignmentFinite
<1> QED
  BY <1>3, <1>6, <1>7, <1>8 DEF AlignmentCost

\* The same for a letter inserted at the end of the other word.
LEMMA InsertLast ==
  ASSUME NEW u \in Seq(Letters), NEW v \in Seq(Letters),
         NEW v1 \in Seq(Letters), Butlast(v1, v), NEW A \in Alignments(u, v1)
  PROVE  /\ A \in Alignments(u, v)
         /\ AlignmentCost(u, v, A) = AlignmentCost(u, v1, A) + 1
<1>1. Len(v1) \in Nat /\ Len(u) \in Nat /\ Len(v) = Len(v1) + 1
  BY DEF Butlast
<1>2. \A p \in A : p[1] \in 1..Len(u) /\ p[2] \in 1..Len(v1) /\ p = <<p[1], p[2]>>
  BY DEF Alignments
<1>3. A \in Alignments(u, v)
  BY <1>1, <1>2 DEF Alignments
<1>4. Inserted(v, A) = Inserted(v1, A) \cup {Len(v)}
  BY <1>1, <1>2 DEF Inserted
<1>5. Len(v) \notin Inserted(v1, A)
  BY <1>1 DEF Inserted
<1>6. Replaced(u, v, A) = Replaced(u, v1, A)
  BY <1>2 DEF Replaced, Butlast
<1>7. Cardinality(Inserted(v, A)) = Cardinality(Inserted(v1, A)) + 1
  BY <1>4, <1>5, AlignmentFinite, FS_AddElement
<1>8. /\ Cardinality(Removed(u, A)) \in Nat /\ Cardinality(Inserted(v1, A)) \in Nat
      /\ Cardinality(Replaced(u, v1, A)) \in Nat
  BY AlignmentFinite
<1> QED
  BY <1>3, <1>6, <1>7, <1>8 DEF AlignmentCost

\* Pairing the last letters costs a replacement when they differ.
LEMMA PairLast ==
  ASSUME NEW u \in Seq(Letters), NEW v \in Seq(Letters),
         NEW u1 \in Seq(Letters), Butlast(u1, u),
         NEW v1 \in Seq(Letters), Butlast(v1, v),
         NEW A \in Alignments(u1, v1),
         NEW B, B = A \cup {<<Len(u), Len(v)>>}
  PROVE  /\ B \in Alignments(u, v)
         /\ AlignmentCost(u, v, B) =
              AlignmentCost(u1, v1, A) + (IF u[Len(u)] = v[Len(v)] THEN 0 ELSE 1)
<1> DEFINE last == <<Len(u), Len(v)>>
<1>1. /\ Len(u1) \in Nat /\ Len(u) = Len(u1) + 1
      /\ Len(v1) \in Nat /\ Len(v) = Len(v1) + 1
  BY DEF Butlast
<1>2. \A p \in A : p[1] \in 1..Len(u1) /\ p[2] \in 1..Len(v1) /\ p = <<p[1], p[2]>>
  BY DEF Alignments
<1>3. last[1] = Len(u) /\ last[2] = Len(v) /\ last \in (1..Len(u)) \X (1..Len(v))
  BY <1>1
<1> HIDE DEF last
<1>4. B = A \cup {last}
  BY DEF last
<1>5. B \in Alignments(u, v)
  <2>1. B \in SUBSET ((1..Len(u)) \X (1..Len(v)))
    BY <1>1, <1>2, <1>3, <1>4
  <2>2. \A p, q \in A : (p[1] < q[1]) <=> (p[2] < q[2])
    BY DEF Alignments
  <2>3. \A p, q \in B : (p[1] < q[1]) <=> (p[2] < q[2])
    BY <1>1, <1>2, <1>3, <1>4, <2>2
  <2> QED
    BY <2>1, <2>3 DEF Alignments
<1>6. Removed(u, B) = Removed(u1, A)
  BY <1>1, <1>2, <1>3, <1>4 DEF Removed
<1>7. Inserted(v, B) = Inserted(v1, A)
  BY <1>1, <1>2, <1>3, <1>4 DEF Inserted
<1>8. last \notin Replaced(u1, v1, A)
  BY <1>1, <1>2, <1>3 DEF Replaced
<1>9. Replaced(u, v, B) =
        IF u[Len(u)] = v[Len(v)] THEN Replaced(u1, v1, A)
                                 ELSE Replaced(u1, v1, A) \cup {last}
  BY <1>2, <1>3, <1>4 DEF Replaced, Butlast
<1>10. Cardinality(Replaced(u, v, B)) =
         Cardinality(Replaced(u1, v1, A)) + (IF u[Len(u)] = v[Len(v)] THEN 0 ELSE 1)
  <2>1. IsFiniteSet(Replaced(u1, v1, A)) /\ Cardinality(Replaced(u1, v1, A)) \in Nat
    BY AlignmentFinite
  <2>2. Cardinality(Replaced(u1, v1, A) \cup {last}) = Cardinality(Replaced(u1, v1, A)) + 1
    BY <1>8, <2>1, FS_AddElement
  <2> QED
    BY <1>9, <2>1, <2>2
<1>11. /\ Cardinality(Removed(u1, A)) \in Nat /\ Cardinality(Inserted(v1, A)) \in Nat
       /\ Cardinality(Replaced(u1, v1, A)) \in Nat
  BY AlignmentFinite
<1> QED
  BY <1>5, <1>6, <1>7, <1>10, <1>11 DEF AlignmentCost

\* An alignment pairs the last letters, or leaves one of them alone: were
\* both paired with earlier letters, the two pairs would cross.
LEMMA LastLetters ==
  ASSUME NEW u \in Seq(Letters), NEW v \in Seq(Letters),
         NEW u1 \in Seq(Letters), Butlast(u1, u),
         NEW v1 \in Seq(Letters), Butlast(v1, v),
         NEW A \in Alignments(u, v)
  PROVE  \/ A \in Alignments(u1, v)
         \/ A \in Alignments(u, v1)
         \/ \E B \in Alignments(u1, v1) : A = B \cup {<<Len(u), Len(v)>>}
<1> DEFINE last == <<Len(u), Len(v)>>
<1>1. /\ Len(u1) \in Nat /\ Len(u) = Len(u1) + 1
      /\ Len(v1) \in Nat /\ Len(v) = Len(v1) + 1
  BY DEF Butlast
<1>2. \A p \in A : p[1] \in 1..Len(u) /\ p[2] \in 1..Len(v) /\ p = <<p[1], p[2]>>
  BY DEF Alignments
<1>3. \A p, q \in A : (p[1] < q[1]) <=> (p[2] < q[2])
  BY DEF Alignments
<1>4. CASE \A p \in A : p[1] # Len(u)
  <2>1. A \in SUBSET ((1..Len(u1)) \X (1..Len(v)))
    BY <1>1, <1>2, <1>4
  <2> QED
    BY <1>3, <2>1 DEF Alignments
<1>5. CASE \A p \in A : p[2] # Len(v)
  <2>1. A \in SUBSET ((1..Len(u)) \X (1..Len(v1)))
    BY <1>1, <1>2, <1>5
  <2> QED
    BY <1>3, <2>1 DEF Alignments
<1>6. ASSUME NEW p \in A, p[1] = Len(u), NEW q \in A, q[2] = Len(v)
      PROVE  \E B \in Alignments(u1, v1) : A = B \cup {<<Len(u), Len(v)>>}
  <2>1. p[2] = Len(v)
    BY <1>1, <1>2, <1>3, <1>6
  <2>2. last \in A
    BY <1>2, <1>6, <2>1
  <2>3. last[1] = Len(u) /\ last[2] = Len(v)
    OBVIOUS
  <2> DEFINE B == A \ {last}
  <2>4. A = B \cup {last}
    BY <2>2
  <2>5. \A r \in B : r[1] # Len(u) /\ r[2] # Len(v)
    <3> SUFFICES ASSUME NEW r \in B PROVE r[1] # Len(u) /\ r[2] # Len(v)
      OBVIOUS
    <3>1. r \in A /\ r # last
      OBVIOUS
    <3> HIDE DEF B, last
    <3>2. r = <<r[1], r[2]>> /\ r[1] \in 1..Len(u) /\ r[2] \in 1..Len(v)
      BY <1>2, <3>1
    <3>3. (r[1] < Len(u)) <=> (r[2] < Len(v))
      BY <1>3, <2>2, <2>3, <3>1
    <3>4. ~(r[1] = Len(u) /\ r[2] = Len(v))
      BY <3>1, <3>2 DEF last
    <3> QED
      BY <1>1, <3>2, <3>3, <3>4
  <2>6. B \in SUBSET ((1..Len(u1)) \X (1..Len(v1)))
    <3>1. B \subseteq A
      OBVIOUS
    <3> HIDE DEF B
    <3> QED
      BY <1>1, <1>2, <2>5, <3>1
  <2>7. B \in Alignments(u1, v1)
    BY <1>3, <2>6 DEF Alignments
  <2> QED
    BY <2>4, <2>7
<1> QED
  BY <1>4, <1>5, <1>6

\* The recurrence of levenshtein_distance: a cell from its three neighbours.
LEMMA CellIsDistance ==
  ASSUME NEW u \in Seq(Letters), NEW v \in Seq(Letters),
         NEW u1 \in Seq(Letters), Butlast(u1, u),
         NEW v1 \in Seq(Letters), Butlast(v1, v),
         NEW a \in Nat, IsDistance(u1, v, a),
         NEW b \in Nat, IsDistance(u, v1, b),
         NEW c \in Nat, IsDistance(u1, v1, c),
         NEW d, d = Least(Least(a + 1, b + 1), c + (IF u[Len(u)] = v[Len(v)] THEN 0 ELSE 1))
  PROVE  IsDistance(u, v, d) /\ d \in Nat
<1> DEFINE e == IF u[Len(u)] = v[Len(v)] THEN 0 ELSE 1
<1>0. e \in Nat /\ d = Least(Least(a + 1, b + 1), c + e)
  OBVIOUS
<1> HIDE DEF e
<1>1. \E A \in Alignments(u, v) : a + 1 = AlignmentCost(u, v, A)
  <2>1. PICK A \in Alignments(u1, v) : a = AlignmentCost(u1, v, A)
    BY DEF IsDistance
  <2> QED
    BY <2>1, RemoveLast
<1>2. \E A \in Alignments(u, v) : b + 1 = AlignmentCost(u, v, A)
  <2>1. PICK A \in Alignments(u, v1) : b = AlignmentCost(u, v1, A)
    BY DEF IsDistance
  <2> QED
    BY <2>1, InsertLast
<1>3. \E A \in Alignments(u, v) : c + e = AlignmentCost(u, v, A)
  <2>1. PICK A \in Alignments(u1, v1) : c = AlignmentCost(u1, v1, A)
    BY DEF IsDistance
  <2> DEFINE B == A \cup {<<Len(u), Len(v)>>}
  <2>2. B = A \cup {<<Len(u), Len(v)>>}
    OBVIOUS
  <2> HIDE DEF B
  <2>3. B \in Alignments(u, v) /\ AlignmentCost(u, v, B) = AlignmentCost(u1, v1, A) + e
    BY <2>2, PairLast DEF e
  <2> QED
    BY <2>1, <2>3
<1>4. ASSUME NEW A \in Alignments(u, v)
      PROVE  \/ a + 1 <= AlignmentCost(u, v, A)
             \/ b + 1 <= AlignmentCost(u, v, A)
             \/ c + e <= AlignmentCost(u, v, A)
  <2>1. CASE A \in Alignments(u1, v)
    <3>1. a <= AlignmentCost(u1, v, A) /\ AlignmentCost(u1, v, A) \in Nat
      BY <2>1, AlignmentFinite DEF IsDistance
    <3>2. AlignmentCost(u, v, A) = AlignmentCost(u1, v, A) + 1
      BY <2>1, RemoveLast
    <3> QED
      BY <3>1, <3>2
  <2>2. CASE A \in Alignments(u, v1)
    <3>1. b <= AlignmentCost(u, v1, A) /\ AlignmentCost(u, v1, A) \in Nat
      BY <2>2, AlignmentFinite DEF IsDistance
    <3>2. AlignmentCost(u, v, A) = AlignmentCost(u, v1, A) + 1
      BY <2>2, InsertLast
    <3> QED
      BY <3>1, <3>2
  <2>3. ASSUME NEW B \in Alignments(u1, v1), A = B \cup {<<Len(u), Len(v)>>}
        PROVE  c + e <= AlignmentCost(u, v, A)
    <3>1. c <= AlignmentCost(u1, v1, B) /\ AlignmentCost(u1, v1, B) \in Nat
      BY AlignmentFinite DEF IsDistance
    <3>2. AlignmentCost(u, v, A) = AlignmentCost(u1, v1, B) + e
      BY <2>3, PairLast DEF e
    <3> QED
      BY <1>0, <3>1, <3>2
  <2> QED
    BY <2>1, <2>2, <2>3, LastLetters
<1>5. \A A \in Alignments(u, v) : AlignmentCost(u, v, A) \in Nat
  BY AlignmentFinite
<1>6. d \in {a + 1, b + 1, c + e} /\ d <= a + 1 /\ d <= b + 1 /\ d <= c + e /\ d \in Nat
  BY <1>0 DEF Least
<1>7. \A A \in Alignments(u, v) : d <= AlignmentCost(u, v, A)
  <2> SUFFICES ASSUME NEW A \in Alignments(u, v) PROVE d <= AlignmentCost(u, v, A)
    OBVIOUS
  <2>1. AlignmentCost(u, v, A) \in Nat
    BY <1>5
  <2> QED
    BY <1>0, <1>4, <1>6, <2>1
<1>8. \E A \in Alignments(u, v) : d = AlignmentCost(u, v, A)
  BY <1>1, <1>2, <1>3, <1>6
<1> QED
  BY <1>6, <1>7, <1>8 DEF IsDistance

\* The first row and the first column: only insertions, or only removals.
LEMMA EdgeIsDistance ==
  ASSUME NEW u \in Seq(Letters), NEW v \in Seq(Letters), Len(u) = 0 \/ Len(v) = 0
  PROVE  IsDistance(u, v, Len(u) + Len(v))
<1>1. Len(u) \in Nat /\ Len(v) \in Nat
  OBVIOUS
<1>2. (1..Len(u)) \X (1..Len(v)) = {}
  <2>1. 1..Len(u) = {} \/ 1..Len(v) = {}
    BY <1>1
  <2> QED
    BY <2>1
<1>3. Alignments(u, v) = {{}}
  <2>1. {} \in Alignments(u, v)
    BY DEF Alignments
  <2>2. \A A \in Alignments(u, v) : A = {}
    BY <1>2 DEF Alignments
  <2> QED
    BY <2>1, <2>2
<1>4. /\ Removed(u, {}) = 1..Len(u) /\ Inserted(v, {}) = 1..Len(v)
      /\ Replaced(u, v, {}) = {}
  BY DEF Removed, Inserted, Replaced
<1>5. Cardinality(1..Len(u)) = Len(u) /\ Cardinality(1..Len(v)) = Len(v)
  <2>1. \A x \in Nat : Cardinality(1..x) = IF 1 > x THEN 0 ELSE x - 1 + 1
    BY FS_Interval
  <2> QED
    BY <1>1, <2>1
<1>6. AlignmentCost(u, v, {}) = Len(u) + Len(v)
  <2>1. Cardinality(Replaced(u, v, {})) = 0
    BY <1>4, FS_EmptySet
  <2> QED
    BY <1>1, <1>4, <1>5, <2>1 DEF AlignmentCost
<1> QED
  BY <1>1, <1>3, <1>6 DEF IsDistance

\* A word is a sequence of letters.
LEMMA WordIsSeq ==
  ASSUME NEW w \in Words
  PROVE  w \in Seq(Letters) /\ Len(w) \in Nat
<1>1. PICK l \in 0..MaxLen : w \in [1..l -> Letters]
  BY DEF Words
<1> QED
  BY <1>1, WordAssumption

\* A beginning of a word is a word of its own length and letters.
LEMMA WordPrefix ==
  ASSUME NEW w \in Words, NEW x \in 0..Len(w)
  PROVE  /\ w \in Seq(Letters) /\ Len(w) \in Nat
         /\ SubSeq(w, 1, x) \in Words /\ SubSeq(w, 1, x) \in Seq(Letters)
         /\ Len(SubSeq(w, 1, x)) = x
         /\ \A y \in 1..x : SubSeq(w, 1, x)[y] = w[y]
<1>1. PICK l \in 0..MaxLen : w \in [1..l -> Letters]
  BY DEF Words
<1>2. l \in Nat /\ l <= MaxLen
  BY WordAssumption
<1>3. w \in Seq(Letters) /\ Len(w) = l
  BY <1>1, <1>2
<1>4. /\ SubSeq(w, 1, x) \in Seq(Letters) /\ Len(SubSeq(w, 1, x)) = x
      /\ \A y \in 1..x : SubSeq(w, 1, x)[y] = w[y]
  <2>1. x \in Int /\ 1 \in Int /\ x <= l /\ 0 <= x
    BY <1>2, <1>3
  <2>2. \A y \in 1..x : w[y] \in Letters
    BY <1>1, <1>2, <2>1
  <2>3. /\ SubSeq(w, 1, x) \in Seq(Letters)
        /\ Len(SubSeq(w, 1, x)) = IF 1 <= x THEN x - 1 + 1 ELSE 0
        /\ \A y \in 1..x - 1 + 1 : SubSeq(w, 1, x)[y] = w[1 + y - 1]
    BY <2>1, <2>2, SubSeqProperties
  <2> QED
    BY <2>1, <2>3
<1>5. SubSeq(w, 1, x) \in [1..x -> Letters]
  BY <1>4, LenProperties
<1>6. x \in 0..MaxLen
  BY <1>2, <1>3, WordAssumption
<1> QED
  BY <1>2, <1>3, <1>4, <1>5, <1>6 DEF Words

\* One more letter, and all of them.
LEMMA WordPrefixes ==
  ASSUME NEW w \in Words
  PROVE  /\ \A x \in 1..Len(w) : Butlast(SubSeq(w, 1, x - 1), SubSeq(w, 1, x))
         /\ SubSeq(w, 1, Len(w)) = w
<1>1. Len(w) \in Nat /\ w \in Seq(Letters)
  BY WordIsSeq
<1>2. ASSUME NEW x \in 1..Len(w)
      PROVE  Butlast(SubSeq(w, 1, x - 1), SubSeq(w, 1, x))
  <2>1. x \in 0..Len(w) /\ x - 1 \in 0..Len(w)
    BY <1>1
  <2>2. /\ Len(SubSeq(w, 1, x)) = x /\ Len(SubSeq(w, 1, x - 1)) = x - 1
        /\ \A y \in 1..x : SubSeq(w, 1, x)[y] = w[y]
        /\ \A y \in 1..x - 1 : SubSeq(w, 1, x - 1)[y] = w[y]
    BY <2>1, WordPrefix
  <2> QED
    BY <1>1, <2>1, <2>2 DEF Butlast
<1> QED
  BY <1>1, <1>2, SubSeqFull

\* The words of the list, and their beginnings.
LEMMA ListWords ==
  ASSUME NEW e \in 1..Len(WordList)
  PROVE  /\ WordList[e] \in Words /\ WordList[e] \in ListPrefixes
         /\ \A x \in 0..Len(WordList[e]) : SubSeq(WordList[e], 1, x) \in ListPrefixes
<1>1. WordList[e] \in Words
  BY WordAssumption
<1>2. \A x \in 0..Len(WordList[e]) : SubSeq(WordList[e], 1, x) \in ListPrefixes
  BY DEF ListPrefixes
<1>3. Len(WordList[e]) \in Nat
  BY <1>1, WordIsSeq
<1>4. Len(WordList[e]) \in 0..Len(WordList[e])
  BY <1>3
<1> QED
  BY <1>1, <1>2, <1>4, WordPrefixes

\* There is only one distance, and the reference chooses it.
LEMMA DistanceIs ==
  ASSUME NEW u \in Words, NEW v \in ListPrefixes,
         u \in Seq(Letters), v \in Seq(Letters),
         NEW d \in Nat, IsDistance(u, v, d)
  PROVE  Distance[u][v] = d
<1> DEFINE costs == {AlignmentCost(u, v, A) : A \in Alignments(u, v)}
<1>1. Distance[u][v] = CHOOSE x \in costs : \A c \in costs : x <= c
  BY DEF Distance
<1>2. d \in costs /\ \A c \in costs : d <= c
  BY DEF IsDistance
<1>3. \A c \in costs : c \in Nat
  BY AlignmentFinite
<1> HIDE DEF costs
<1>4. \A x \in costs : (\A c \in costs : x <= c) => x = d
  BY <1>2, <1>3
<1> QED
  BY <1>1, <1>2, <1>4

\* The answer over the words before entry e.
FirstClosest(w, e, c) ==
  /\ \A x \in 1..e - 1 : Distance[w][WordList[x]] \in Nat
  /\ IF c = NoWord THEN \A x \in 1..e - 1 : Distance[w][WordList[x]] > MaxDistance
     ELSE /\ c.at \in 1..e - 1
          /\ c.d = Distance[w][WordList[c.at]] /\ c.d <= MaxDistance
          /\ \A x \in 1..e - 1 :
               /\ Distance[w][WordList[x]] >= c.d
               /\ x < c.at => Distance[w][WordList[x]] > c.d

\* The cells of a row before cell z are the distances from the typed word's
\* first r letters.
RowHolds(w, e, r, cells, z) ==
  \A x \in 0..z - 1 :
    IsDistance(SubSeq(w, 1, r), SubSeq(WordList[e], 1, x), cells[x])

\* Between words the table is at rest; in a word the row above is finished
\* and the row below holds distances up to the cell to be written.
TableInv(w, e, pr, cu, r, z) ==
  \/ r = 0 /\ e \in 1..Len(WordList) + 1
  \/ /\ e \in 1..Len(WordList) /\ r \in 1..Len(w)
     /\ z \in 1..Len(WordList[e]) + 1
     /\ pr \in [0..Len(WordList[e]) -> Nat] /\ cu \in [0..Len(WordList[e]) -> Nat]
     /\ RowHolds(w, e, r - 1, pr, Len(WordList[e]) + 1)
     /\ RowHolds(w, e, r, cu, z)

WordInv == /\ typed \in Words
           /\ TableInv(typed, candidate, prev, curr, row, col)
           /\ FirstClosest(typed, candidate, closest)

\* The step of the search: the filter and min_by_key keep the first of the
\* closest words.
LEMMA FoundKeeps ==
  ASSUME NEW w \in Words, NEW e \in 1..Len(WordList), NEW c, FirstClosest(w, e, c),
         NEW d \in Nat, Distance[w][WordList[e]] = d,
         NEW c2, c2 = IF d <= MaxDistance /\ (c = NoWord \/ d < c.d)
                      THEN [at |-> e, d |-> d] ELSE c
  PROVE  FirstClosest(w, e + 1, c2)
<1>1. e \in Nat /\ e >= 1 /\ MaxDistance \in Nat
  BY WordAssumption
<1>2. \A x \in 1..(e + 1) - 1 : x \in 1..e - 1 \/ x = e
  BY <1>1
<1>3. \A x \in 1..e - 1 : x \in 1..(e + 1) - 1 /\ x \in Nat /\ x < e
  BY <1>1
<1>4. e \in 1..(e + 1) - 1
  BY <1>1
<1>5. \A x \in 1..(e + 1) - 1 : Distance[w][WordList[x]] \in Nat
  BY <1>2 DEF FirstClosest
<1>6. CASE d <= MaxDistance /\ (c = NoWord \/ d < c.d)
  <2>1. c2.at = e /\ c2.d = d /\ c2 # NoWord
    <3>1. c2 = [at |-> e, d |-> d]
      BY <1>6
    <3> QED
      BY <1>1, <3>1 DEF NoWord
  <2>2. \A x \in 1..e - 1 : Distance[w][WordList[x]] > d
    <3> SUFFICES ASSUME NEW x \in 1..e - 1 PROVE Distance[w][WordList[x]] > d
      OBVIOUS
    <3>1. Distance[w][WordList[x]] \in Nat
      BY <1>3, <1>5
    <3>2. CASE c = NoWord
      BY <1>1, <1>6, <3>1, <3>2 DEF FirstClosest
    <3>3. CASE c # NoWord
      <4>1. /\ Distance[w][WordList[x]] >= c.d /\ c.d = Distance[w][WordList[c.at]]
            /\ c.at \in 1..e - 1
        BY <3>3 DEF FirstClosest
      <4>2. c.d \in Nat
        BY <4>1 DEF FirstClosest
      <4> QED
        BY <1>6, <3>1, <3>3, <4>1, <4>2
    <3> QED
      BY <3>2, <3>3
  <2> QED
    BY <1>2, <1>4, <1>5, <1>6, <2>1, <2>2 DEF FirstClosest
<1>7. CASE ~(d <= MaxDistance /\ (c = NoWord \/ d < c.d))
  <2>1. c2 = c
    BY <1>7
  <2>2. CASE c = NoWord
    BY <1>1, <1>2, <1>5, <1>7, <2>1, <2>2 DEF FirstClosest
  <2>3. CASE c # NoWord
    <3>1. /\ c.d = Distance[w][WordList[c.at]] /\ c.d <= MaxDistance
          /\ c.at \in 1..e - 1 /\ c.d \in Nat /\ c.at \in Nat /\ c.at < e
      BY <1>3, <2>3 DEF FirstClosest
    <3>2. d >= c.d
      BY <1>1, <1>7, <2>3, <3>1
    <3>3. \A x \in 1..(e + 1) - 1 :
            /\ Distance[w][WordList[x]] >= c.d
            /\ x < c.at => Distance[w][WordList[x]] > c.d
      BY <1>1, <1>2, <2>3, <3>1, <3>2 DEF FirstClosest
    <3> QED
      BY <1>3, <1>5, <2>1, <2>3, <3>1, <3>3 DEF FirstClosest
  <2> QED
    BY <2>2, <2>3
<1> QED
  BY <1>6, <1>7

LEMMA WordInitInv == WordInit => WordInv
<1> SUFFICES ASSUME WordInit PROVE WordInv
  OBVIOUS
<1>1. Len(WordList) \in Nat
  BY WordAssumption
<1>2. TableInv(typed, candidate, prev, curr, row, col)
  BY <1>1 DEF WordInit, TableInv
<1>3. FirstClosest(typed, candidate, closest)
  BY DEF WordInit, FirstClosest
<1> QED
  BY <1>2, <1>3 DEF WordInit, WordInv

\* A word's distance is found: the answer covers one word more.
LEMMA FoundInv ==
  ASSUME WordInv, NEW d \in Nat, Found(d), candidate \in 1..Len(WordList),
         IsDistance(typed, WordList[candidate], d)
  PROVE  WordInv'
<1>1. typed \in Words /\ typed \in Seq(Letters)
  BY WordIsSeq DEF WordInv
<1>2. WordList[candidate] \in ListPrefixes /\ WordList[candidate] \in Words
  BY ListWords
<1>3. WordList[candidate] \in Seq(Letters)
  BY <1>2, WordIsSeq
<1>4. Distance[typed][WordList[candidate]] = d
  BY <1>1, <1>2, <1>3, DistanceIs
<1>5. FirstClosest(typed, candidate + 1, closest')
  BY <1>1, <1>4, FoundKeeps DEF WordInv, Found, Closer
<1>6. candidate' = candidate + 1 /\ row' = 0 /\ typed' = typed
  BY DEF Found
<1>7. candidate + 1 \in 1..Len(WordList) + 1
  BY WordAssumption
<1>8. TableInv(typed, candidate, prev, curr, row, col)'
  BY <1>6, <1>7 DEF TableInv
<1> QED
  BY <1>1, <1>5, <1>6, <1>8 DEF WordInv

\* What the invariant says of the words in a call.
LEMMA WordFacts ==
  ASSUME WordInv, candidate \in 1..Len(WordList)
  PROVE  /\ typed \in Words /\ typed \in Seq(Letters) /\ Len(typed) \in Nat
         /\ WordList[candidate] \in Words /\ WordList[candidate] \in Seq(Letters)
         /\ Width = Len(WordList[candidate]) /\ Width \in Nat
<1>1. typed \in Words /\ WordList[candidate] \in Words
  BY ListWords DEF WordInv
<1> QED
  BY <1>1, WordIsSeq DEF Width

\* The first row, or the distance from or to the empty word.
LEMMA BeginWordInv == ASSUME WordInv, BeginWord PROVE WordInv'
<1>1. candidate \in 1..Len(WordList) /\ row = 0
  BY WordAssumption DEF WordInv, TableInv, BeginWord
<1>2. /\ typed \in Words /\ typed \in Seq(Letters) /\ Len(typed) \in Nat
      /\ WordList[candidate] \in Words /\ WordList[candidate] \in Seq(Letters)
      /\ Width = Len(WordList[candidate]) /\ Width \in Nat
  BY <1>1, WordFacts
<1>3. CASE Len(typed) = 0 \/ Width = 0
  <2>1. IsDistance(typed, WordList[candidate], Len(typed) + Width)
    BY <1>2, <1>3, EdgeIsDistance
  <2>2. Found(Len(typed) + Width) /\ Len(typed) + Width \in Nat
    BY <1>2, <1>3 DEF BeginWord
  <2> QED
    BY <1>1, <2>1, <2>2, FoundInv
<1>4. CASE ~(Len(typed) = 0 \/ Width = 0)
  <2>1. /\ prev' = [x \in 0..Width |-> x]
        /\ curr' = [x \in 0..Width |-> IF x = 0 THEN 1 ELSE 0]
        /\ row' = 1 /\ col' = 1
        /\ typed' = typed /\ candidate' = candidate /\ closest' = closest
    BY <1>4 DEF BeginWord
  <2>2. /\ prev' \in [0..Width -> Nat] /\ curr' \in [0..Width -> Nat]
        /\ \A x \in 0..Width : prev'[x] = x
        /\ curr'[0] = 1
    BY <1>2, <2>1
  <2>3. RowHolds(typed, candidate, 0, prev', Width + 1)
    <3> SUFFICES ASSUME NEW x \in 0..(Width + 1) - 1
                 PROVE  IsDistance(SubSeq(typed, 1, 0), SubSeq(WordList[candidate], 1, x), prev'[x])
      BY DEF RowHolds
    <3>1. x \in 0..Width /\ 0 \in 0..Len(typed) /\ x \in Nat
      BY <1>2
    <3>2. /\ SubSeq(typed, 1, 0) \in Seq(Letters) /\ Len(SubSeq(typed, 1, 0)) = 0
          /\ SubSeq(WordList[candidate], 1, x) \in Seq(Letters)
          /\ Len(SubSeq(WordList[candidate], 1, x)) = x
      BY <1>2, <3>1, WordPrefix
    <3>3. IsDistance(SubSeq(typed, 1, 0), SubSeq(WordList[candidate], 1, x), 0 + x)
      BY <3>2, EdgeIsDistance
    <3>4. prev'[x] = 0 + x
      BY <2>2, <3>1
    <3> QED
      BY <3>3, <3>4
  <2>4. RowHolds(typed, candidate, 1, curr', 1)
    <3> SUFFICES ASSUME NEW x \in 0..1 - 1
                 PROVE  IsDistance(SubSeq(typed, 1, 1), SubSeq(WordList[candidate], 1, x), curr'[x])
      BY DEF RowHolds
    <3>1. x = 0 /\ 1 \in 0..Len(typed) /\ 0 \in 0..Width
      BY <1>2, <1>4
    <3>2. /\ SubSeq(typed, 1, 1) \in Seq(Letters) /\ Len(SubSeq(typed, 1, 1)) = 1
          /\ SubSeq(WordList[candidate], 1, 0) \in Seq(Letters)
          /\ Len(SubSeq(WordList[candidate], 1, 0)) = 0
      BY <1>2, <3>1, WordPrefix
    <3>3. IsDistance(SubSeq(typed, 1, 1), SubSeq(WordList[candidate], 1, 0), 1 + 0)
      BY <3>2, EdgeIsDistance
    <3>4. curr'[x] = 1 + 0
      BY <2>2, <3>1
    <3> QED
      BY <3>1, <3>3, <3>4
  <2>5. 1 \in 1..Len(typed) /\ 1 \in 1..Width + 1 /\ 1 - 1 = 0
    BY <1>2, <1>4
  <2>6. TableInv(typed, candidate, prev', curr', 1, 1)
    BY <1>1, <1>2, <2>2, <2>3, <2>4, <2>5 DEF TableInv
  <2> QED
    BY <2>1, <2>6 DEF WordInv
<1> QED
  BY <1>3, <1>4

\* Inside a word of the list.
LEMMA InTable ==
  ASSUME WordInv, row > 0
  PROVE  /\ candidate \in 1..Len(WordList) /\ row \in 1..Len(typed)
         /\ col \in 1..Width + 1
         /\ prev \in [0..Width -> Nat] /\ curr \in [0..Width -> Nat]
         /\ RowHolds(typed, candidate, row - 1, prev, Width + 1)
         /\ RowHolds(typed, candidate, row, curr, col)
BY DEF WordInv, TableInv, Width

LEMMA CellInv == ASSUME WordInv, Cell PROVE WordInv'
<1> DEFINE W == WordList[candidate]
<1>1. /\ candidate \in 1..Len(WordList) /\ row \in 1..Len(typed)
      /\ col \in 1..Width + 1
      /\ prev \in [0..Width -> Nat] /\ curr \in [0..Width -> Nat]
      /\ RowHolds(typed, candidate, row - 1, prev, Width + 1)
      /\ RowHolds(typed, candidate, row, curr, col)
  BY InTable DEF Cell
<1>2. /\ typed \in Words /\ typed \in Seq(Letters) /\ Len(typed) \in Nat
      /\ W \in Words /\ W \in Seq(Letters)
      /\ Width = Len(W) /\ Width \in Nat
  BY <1>1, WordFacts
<1> DEFINE u == SubSeq(typed, 1, row)
           u1 == SubSeq(typed, 1, row - 1)
           v == SubSeq(W, 1, col)
           v1 == SubSeq(W, 1, col - 1)
           d == Least(Least(prev[col] + 1, curr[col - 1] + 1), prev[col - 1] + Cost)
<1>3. col \in 1..Width /\ col - 1 \in 0..Width /\ col \in 0..Width /\ col \in Nat
  BY <1>1, <1>2 DEF Cell
<1>4. row \in 0..Len(typed) /\ row - 1 \in 0..Len(typed) /\ row \in Nat
  BY <1>1, <1>2
<1>5. /\ u \in Seq(Letters) /\ Len(u) = row /\ u[row] = typed[row]
      /\ u1 \in Seq(Letters)
  <2>1. row \in 1..row
    BY <1>1, <1>4
  <2> QED
    BY <1>2, <1>4, <2>1, WordPrefix
<1>6. /\ v \in Seq(Letters) /\ Len(v) = col /\ v[col] = W[col]
      /\ v1 \in Seq(Letters)
  <2>1. col \in 1..col
    BY <1>3
  <2> QED
    BY <1>2, <1>3, <2>1, WordPrefix
<1>7. Butlast(u1, u) /\ Butlast(v1, v)
  BY <1>1, <1>2, <1>3, WordPrefixes
<1>8. /\ IsDistance(u1, v, prev[col]) /\ IsDistance(u1, v1, prev[col - 1])
      /\ IsDistance(u, v1, curr[col - 1])
  <2>1. /\ col \in 0..(Width + 1) - 1 /\ col - 1 \in 0..(Width + 1) - 1
        /\ col - 1 \in 0..col - 1
    BY <1>2, <1>3
  <2> QED
    BY <1>1, <2>1 DEF RowHolds
<1>9. prev[col] \in Nat /\ prev[col - 1] \in Nat /\ curr[col - 1] \in Nat
  BY <1>1, <1>3
<1>10. Cost = IF u[Len(u)] = v[Len(v)] THEN 0 ELSE 1
  BY <1>5, <1>6 DEF Cost
<1>11. IsDistance(u, v, d) /\ d \in Nat
  <2> DEFINE a == prev[col]
             b == curr[col - 1]
             c == prev[col - 1]
  <2>1. d = Least(Least(a + 1, b + 1), c + (IF u[Len(u)] = v[Len(v)] THEN 0 ELSE 1))
    BY <1>10
  <2>2. /\ a \in Nat /\ IsDistance(u1, v, a) /\ b \in Nat /\ IsDistance(u, v1, b)
        /\ c \in Nat /\ IsDistance(u1, v1, c)
    BY <1>8, <1>9
  <2> HIDE DEF u, v, u1, v1, W, a, b, c, d
  <2> QED
    BY <1>5, <1>6, <1>7, <2>1, <2>2, CellIsDistance
<1>12. /\ curr' = [curr EXCEPT ![col] = d] /\ col' = col + 1
       /\ typed' = typed /\ candidate' = candidate /\ prev' = prev
       /\ row' = row /\ closest' = closest
  BY DEF Cell
<1> HIDE DEF d
<1>13. /\ curr' \in [0..Width -> Nat] /\ curr'[col] = d
       /\ \A x \in 0..col - 1 : curr'[x] = curr[x]
  BY <1>1, <1>2, <1>3, <1>11, <1>12
<1>14. RowHolds(typed, candidate, row, curr', col + 1)
  <2> SUFFICES ASSUME NEW x \in 0..(col + 1) - 1
               PROVE  IsDistance(SubSeq(typed, 1, row), SubSeq(WordList[candidate], 1, x), curr'[x])
    BY DEF RowHolds
  <2>1. CASE x = col
    BY <1>11, <1>13, <2>1
  <2>2. CASE x \in 0..col - 1
    BY <1>1, <1>13, <2>2 DEF RowHolds
  <2> QED
    BY <1>3, <2>1, <2>2
<1>15. col + 1 \in 1..Width + 1
  BY <1>2, <1>3
<1>16. TableInv(typed, candidate, prev, curr', row, col + 1)
  BY <1>1, <1>2, <1>13, <1>14, <1>15 DEF TableInv
<1> QED
  BY <1>12, <1>16 DEF WordInv

LEMMA NextRowInv == ASSUME WordInv, NextRow PROVE WordInv'
<1>1. /\ candidate \in 1..Len(WordList) /\ row \in 1..Len(typed)
      /\ col \in 1..Width + 1
      /\ prev \in [0..Width -> Nat] /\ curr \in [0..Width -> Nat]
      /\ RowHolds(typed, candidate, row, curr, col)
  BY InTable DEF NextRow
<1>2. /\ typed \in Words /\ typed \in Seq(Letters) /\ Len(typed) \in Nat
      /\ WordList[candidate] \in Words /\ WordList[candidate] \in Seq(Letters)
      /\ Width = Len(WordList[candidate]) /\ Width \in Nat
  BY <1>1, WordFacts
<1>3. /\ prev' = curr /\ curr' = [prev EXCEPT ![0] = row + 1]
      /\ row' = row + 1 /\ col' = 1 /\ row < Len(typed) /\ col > Width
      /\ typed' = typed /\ candidate' = candidate /\ closest' = closest
  BY DEF NextRow
<1>4. col = Width + 1 /\ row + 1 \in 1..Len(typed) /\ (row + 1) - 1 = row
  BY <1>1, <1>2, <1>3
<1>5. curr' \in [0..Width -> Nat] /\ curr'[0] = row + 1
  BY <1>1, <1>2, <1>3
<1>6. RowHolds(typed, candidate, row + 1, curr', 1)
  <2> SUFFICES ASSUME NEW x \in 0..1 - 1
               PROVE  IsDistance(SubSeq(typed, 1, row + 1), SubSeq(WordList[candidate], 1, x), curr'[x])
    BY DEF RowHolds
  <2>1. x = 0 /\ row + 1 \in 0..Len(typed) /\ 0 \in 0..Width
    BY <1>2, <1>4
  <2>2. /\ SubSeq(typed, 1, row + 1) \in Seq(Letters)
        /\ Len(SubSeq(typed, 1, row + 1)) = row + 1
        /\ SubSeq(WordList[candidate], 1, 0) \in Seq(Letters)
        /\ Len(SubSeq(WordList[candidate], 1, 0)) = 0
    BY <1>2, <2>1, WordPrefix
  <2>3. IsDistance(SubSeq(typed, 1, row + 1), SubSeq(WordList[candidate], 1, 0), (row + 1) + 0)
    BY <2>2, EdgeIsDistance
  <2>4. curr'[x] = (row + 1) + 0
    BY <1>1, <1>5, <2>1
  <2> QED
    BY <2>1, <2>3, <2>4
<1>7. 1 \in 1..Width + 1
  BY <1>2
<1>8. TableInv(typed, candidate, curr, curr', row + 1, 1)
  BY <1>1, <1>2, <1>4, <1>5, <1>6, <1>7 DEF TableInv
<1> QED
  BY <1>3, <1>8 DEF WordInv

LEMMA LastRowInv == ASSUME WordInv, LastRow PROVE WordInv'
<1>1. /\ candidate \in 1..Len(WordList) /\ row \in 1..Len(typed)
      /\ col \in 1..Width + 1 /\ curr \in [0..Width -> Nat]
      /\ RowHolds(typed, candidate, row, curr, col)
  BY InTable DEF LastRow
<1>2. /\ typed \in Words /\ WordList[candidate] \in Words
      /\ Width = Len(WordList[candidate]) /\ Width \in Nat
  BY <1>1, WordFacts
<1>3. Width \in 0..col - 1 /\ Width \in 0..Width
  BY <1>1, <1>2 DEF LastRow
<1>4. IsDistance(SubSeq(typed, 1, row), SubSeq(WordList[candidate], 1, Width), curr[Width])
  BY <1>1, <1>3 DEF RowHolds
<1>5. IsDistance(typed, WordList[candidate], curr[Width])
  BY <1>2, <1>4, WordPrefixes DEF LastRow
<1>6. curr[Width] \in Nat /\ Found(curr[Width])
  BY <1>1, <1>3 DEF LastRow
<1> QED
  BY <1>1, <1>5, <1>6, FoundInv

LEMMA WordNextInv == WordInv /\ [WordNext]_wordVars => WordInv'
<1> SUFFICES ASSUME WordInv, [WordNext]_wordVars PROVE WordInv'
  OBVIOUS
<1>1. CASE BeginWord
  BY <1>1, BeginWordInv
<1>2. CASE Cell
  BY <1>2, CellInv
<1>3. CASE NextRow
  BY <1>3, NextRowInv
<1>4. CASE LastRow
  BY <1>4, LastRowInv
<1>5. CASE UNCHANGED wordVars
  BY <1>5 DEF WordInv, TableInv, RowHolds, FirstClosest, wordVars
<1> QED
  BY <1>1, <1>2, <1>3, <1>4, <1>5 DEF WordNext, Searched

LEMMA WordInvImplies == WordInv => ClosestIsFirstClosest
<1> SUFFICES ASSUME WordInv PROVE ClosestIsFirstClosest
  OBVIOUS
<1>1. RowsAreDistances
  <2> SUFFICES ASSUME row > 0
               PROVE  /\ \A x \in 0..Width : prev[x] =
                           Distance[SubSeq(typed, 1, row - 1)][SubSeq(WordList[candidate], 1, x)]
                      /\ \A x \in 0..col - 1 : curr[x] =
                           Distance[SubSeq(typed, 1, row)][SubSeq(WordList[candidate], 1, x)]
    BY DEF RowsAreDistances
  <2>1. /\ candidate \in 1..Len(WordList) /\ row \in 1..Len(typed)
        /\ col \in 1..Width + 1
        /\ prev \in [0..Width -> Nat] /\ curr \in [0..Width -> Nat]
        /\ RowHolds(typed, candidate, row - 1, prev, Width + 1)
        /\ RowHolds(typed, candidate, row, curr, col)
    BY InTable
  <2>2. /\ typed \in Words /\ Len(typed) \in Nat /\ WordList[candidate] \in Words
        /\ Width = Len(WordList[candidate]) /\ Width \in Nat
    BY <2>1, WordFacts
  <2>3. ASSUME NEW r \in 0..Len(typed), NEW x \in 0..Width, NEW d \in Nat,
               IsDistance(SubSeq(typed, 1, r), SubSeq(WordList[candidate], 1, x), d)
        PROVE  d = Distance[SubSeq(typed, 1, r)][SubSeq(WordList[candidate], 1, x)]
    <3>1. /\ SubSeq(typed, 1, r) \in Words /\ SubSeq(typed, 1, r) \in Seq(Letters)
          /\ SubSeq(WordList[candidate], 1, x) \in Seq(Letters)
      BY <2>2, WordPrefix
    <3>2. SubSeq(WordList[candidate], 1, x) \in ListPrefixes
      BY <2>1, <2>2, ListWords
    <3> QED
      BY <2>3, <3>1, <3>2, DistanceIs
  <2>4. row \in 0..Len(typed) /\ row - 1 \in 0..Len(typed)
    BY <2>1, <2>2
  <2>5. ASSUME NEW x \in 0..Width
        PROVE  prev[x] = Distance[SubSeq(typed, 1, row - 1)][SubSeq(WordList[candidate], 1, x)]
    <3>1. x \in 0..(Width + 1) - 1 /\ prev[x] \in Nat
      BY <2>1, <2>2
    <3>2. IsDistance(SubSeq(typed, 1, row - 1), SubSeq(WordList[candidate], 1, x), prev[x])
      BY <2>1, <3>1 DEF RowHolds
    <3> QED
      BY <2>3, <2>4, <3>1, <3>2
  <2>6. ASSUME NEW x \in 0..col - 1
        PROVE  curr[x] = Distance[SubSeq(typed, 1, row)][SubSeq(WordList[candidate], 1, x)]
    <3>1. x \in 0..Width /\ curr[x] \in Nat
      BY <2>1, <2>2
    <3>2. IsDistance(SubSeq(typed, 1, row), SubSeq(WordList[candidate], 1, x), curr[x])
      BY <2>1 DEF RowHolds
    <3> QED
      BY <2>3, <2>4, <3>1, <3>2
  <2> QED
    BY <2>5, <2>6
<1>2. AnswerIsFirstClosest
  <2> SUFFICES ASSUME candidate > Len(WordList)
               PROVE  AnswerIsFirstClosest
    BY DEF AnswerIsFirstClosest
  <2>1. Len(WordList) \in Nat
    BY WordAssumption
  <2>2. candidate = Len(WordList) + 1
    BY <2>1 DEF WordInv, TableInv
  <2>3. candidate - 1 = Len(WordList)
    BY <2>1, <2>2
  <2>4. FirstClosest(typed, candidate, closest)
    BY DEF WordInv
  <2> QED
    BY <2>3, <2>4 DEF FirstClosest, AnswerIsFirstClosest
<1> QED
  BY <1>1, <1>2 DEF ClosestIsFirstClosest

\* For every word list, alphabet, length of the typed word and threshold,
\* every finished cell of the two swapped rows of levenshtein_distance is the
\* cost of the cheapest alignment of two prefixes, and find_closest_word
\* answers the first word of least distance, and none only when all are
\* farther than max_distance (recovery/bip39_impl.rs).
THEOREM FirstClosestWord == WordSpec => []ClosestIsFirstClosest
BY WordInitInv, WordNextInv, WordInvImplies, PTL DEF WordSpec
=============================================================================
