------------------------------- MODULE S3Store -------------------------------
(***************************************************************************)
(* S3Storage (vault-core/src/storage/s3.rs) against an S3 service: each    *)
(* call sends one request and maps the response.  Requests and responses   *)
(* are lost; a call gives up after its timeout while its request is still  *)
(* on the way and may yet be carried out, after later calls too; a server  *)
(* error says nothing of whether the request was carried out.  Bodies are  *)
(* read by BoundedRead; the signature of a request is left out, the        *)
(* service accepts it.                                                     *)
(*                                                                         *)
(* A path is a sequence of segments; the service is honest here, its size  *)
(* of a list page an instance's own (1000 for S3).                         *)
(***************************************************************************)
EXTENDS Integers, Sequences, FiniteSets, SequencesExt

CONSTANTS
    S3Client,   \* S3Storage values, over one bucket
    PrefixOf,   \* per client: the configured prefix, <<>> for none
    S3Path,     \* the paths clients use
    S3Data,     \* what is stored
    Absent,     \* no object
    PageSize,   \* keys in one list response
    S3MaxCalls  \* bound: calls made

ASSUME S3Assumption ==
    /\ PrefixOf \in [S3Client -> Seq(UNION {ToSet(PrefixOf[c]) : c \in S3Client})]
    /\ S3Path \subseteq Seq(UNION {ToSet(p) : p \in S3Path})
    /\ Absent \notin S3Data
    /\ PageSize \in Nat \ {0} /\ S3MaxCalls \in Nat
    \* no client's paths reach into another client's prefix
    /\ \A c, d \in S3Client, p, q \in S3Path :
         PrefixOf[c] \o p = PrefixOf[d] \o q => PrefixOf[c] = PrefixOf[d]

VARIABLES
    objects,   \* the bucket: key -> data
    net,       \* requests on their way
    s3Call,    \* per client: the call under way and its response
    s3Result,  \* per client: what its last call returned
    possible,  \* history, per prefix and path: the contents the object may have
    s3Calls    \* how many calls were made

s3Vars == <<objects, net, s3Call, s3Result, possible, s3Calls>>

\* object_key: the prefix, a slash and the path.
ObjectKey(c, path) == PrefixOf[c] \o path

Key == {ObjectKey(c, p) : c \in S3Client, p \in S3Path}

\* An object as its clients know it.
Slot == {<<PrefixOf[c], p>> : c \in S3Client, p \in S3Path}

Changes(op) == op \in {"PUT", "DELETE"}
S3Idle == [op |-> "idle"]
S3NoResult == [op |-> "none"]

S3Init ==
    /\ objects = [k \in Key |-> Absent]
    /\ net = {}
    /\ s3Call = [c \in S3Client |-> S3Idle]
    /\ s3Result = [c \in S3Client |-> S3NoResult]
    /\ possible = [s \in Slot |-> {Absent}]
    /\ s3Calls = 0

\* A call of upload, download, exists, delete or list sends its request.  The
\* history: a change adds its content to what its object may have, for the
\* other calls under way on that object too; "may" of a change is what may be
\* there once it was carried out (its own content or that of a change then
\* on the way), of a read what it may find; "seen" of a listing are the objects
\* that are there whatever is on the way.
Send(c, op, path, d) ==
    LET slot == <<PrefixOf[c], path>>
        late == {r.body : r \in {q \in net : q.slot = slot /\ Changes(q.op)}}
        certain == {s \in Slot : Absent \notin possible[s]}
        Note(k) == [k EXCEPT !.may = IF k.slot = slot THEN @ \cup {d} ELSE @,
                             !.seen = IF d = Absent THEN @ \ {slot} ELSE @]
    IN  /\ s3Call[c] = S3Idle /\ s3Calls < S3MaxCalls
        /\ s3Calls' = s3Calls + 1
        /\ net' = net \cup {[slot |-> slot, client |-> c, n |-> s3Calls, op |-> op,
                             key |-> ObjectKey(c, path), body |-> d]}
        /\ s3Call' = [x \in S3Client |->
              IF x = c
              THEN [op |-> op, n |-> s3Calls, path |-> path, slot |-> slot, body |-> d,
                    reply |-> "none", got |-> Absent, keys |-> {},
                    may |-> IF Changes(op) THEN {d} \cup late
                            ELSE IF slot \in Slot THEN possible[slot] ELSE {},
                    seen |-> IF op = "LIST" THEN certain ELSE {}]
              ELSE IF Changes(op) /\ s3Call[x] # S3Idle THEN Note(s3Call[x])
              ELSE s3Call[x]]
        /\ possible' = IF Changes(op) THEN [possible EXCEPT ![slot] = @ \cup {d}] ELSE possible
        /\ s3Result' = [s3Result EXCEPT ![c] = S3NoResult]
        /\ UNCHANGED objects

\* A response reaches its call only if that still waits.
Reply(r, status, got, keys) ==
    /\ net' = net \ {r}
    /\ s3Call' = IF s3Call[r.client] # S3Idle /\ s3Call[r.client].n = r.n
               THEN [s3Call EXCEPT ![r.client].reply = status, ![r.client].got = got,
                                 ![r.client].keys = keys]
               ELSE s3Call
    /\ UNCHANGED <<s3Result, possible, s3Calls>>

\* The bucket once the request was carried out.
Carried(r) == IF Changes(r.op) THEN [objects EXCEPT ![r.key] = r.body] ELSE objects

\* The service carries a request out.  A delete of an object that is not there
\* may be answered "not found".
Serve(r) ==
    /\ r \in net
    /\ objects' = Carried(r)
    /\ CASE r.op = "PUT" -> Reply(r, "2xx", Absent, {})
         [] r.op = "DELETE" -> \/ Reply(r, "2xx", Absent, {})
                               \/ objects[r.key] = Absent /\ Reply(r, "404", Absent, {})
         [] r.op \in {"GET", "HEAD"} ->
              Reply(r, IF objects[r.key] = Absent THEN "404" ELSE "2xx", objects[r.key], {})
         [] r.op = "LIST" ->
              LET found == {k \in Key : IsPrefix(r.key, k) /\ objects[k] # Absent}
              IN  \E page \in SUBSET found :
                    /\ Cardinality(page) = (IF Cardinality(found) < PageSize
                                            THEN Cardinality(found) ELSE PageSize)
                    /\ Reply(r, "2xx", Absent, page)

\* The service answers a server error, and may have carried the request out.
Fail(r) == r \in net /\ objects' \in {objects, Carried(r)} /\ Reply(r, "5xx", Absent, {})

\* A request is lost, or carried out and its response lost.
Lose(r) ==
    /\ r \in net
    /\ net' = net \ {r}
    /\ objects' \in {objects, Carried(r)}
    /\ UNCHANGED <<s3Call, s3Result, possible, s3Calls>>

S3Return(c, res) ==
    /\ s3Result' = [s3Result EXCEPT ![c] = res]
    /\ s3Call' = [s3Call EXCEPT ![c] = S3Idle]
    /\ UNCHANGED <<objects, net, s3Calls>>

\* The request fails or its time is up: the response, if any, is gone.
TimeOut(c) ==
    /\ s3Call[c] # S3Idle /\ s3Call[c].reply = "none"
    /\ S3Return(c, [op |-> s3Call[c].op, path |-> s3Call[c].path, ok |-> FALSE])
    /\ UNCHANGED possible

\* History: a change that returns Ok rules out every content that neither it
\* nor a change on the way since it was called can have left.
Acknowledge(c) ==
    LET k == s3Call[c] IN possible' = [possible EXCEPT ![k.slot] = @ \cap k.may]

\* Mutant of S3Upload: the status is not looked at.
UploadAnyStatus(c) ==
    /\ s3Call[c].op = "PUT" /\ s3Call[c].reply # "none"
    /\ S3Return(c, [op |-> "PUT", path |-> s3Call[c].path, ok |-> TRUE])
    /\ Acknowledge(c)

\* upload, after its response: a success status is an acknowledgement.
S3Upload(c) ==
    /\ s3Call[c].op = "PUT" /\ s3Call[c].reply # "none"
    /\ S3Return(c, [op |-> "PUT", path |-> s3Call[c].path, ok |-> s3Call[c].reply = "2xx"])
    /\ IF s3Call[c].reply = "2xx" THEN Acknowledge(c) ELSE UNCHANGED possible

\* download: not found and every other status are errors, and so is a body
\* that breaks off or passes its ceiling.
S3Download(c) ==
    /\ s3Call[c].op = "GET" /\ s3Call[c].reply # "none"
    /\ \E read \in BOOLEAN :
         S3Return(c, IF read /\ s3Call[c].reply = "2xx"
                     THEN [op |-> "GET", path |-> s3Call[c].path, ok |-> TRUE,
                           data |-> s3Call[c].got, may |-> s3Call[c].may]
                     ELSE [op |-> "GET", path |-> s3Call[c].path, ok |-> FALSE])
    /\ UNCHANGED possible

\* exists: any status that is no success is a "no".
S3Exists(c) ==
    /\ s3Call[c].op = "HEAD" /\ s3Call[c].reply # "none"
    /\ S3Return(c, [op |-> "HEAD", path |-> s3Call[c].path, ok |-> TRUE,
                  yes |-> s3Call[c].reply = "2xx", may |-> s3Call[c].may])
    /\ UNCHANGED possible

\* delete: an object that is gone already is no error.
S3Delete(c) ==
    /\ s3Call[c].op = "DELETE" /\ s3Call[c].reply # "none"
    /\ S3Return(c, [op |-> "DELETE", path |-> s3Call[c].path, ok |-> s3Call[c].reply \in {"2xx", "404"}])
    /\ IF s3Call[c].reply \in {"2xx", "404"} THEN Acknowledge(c) ELSE UNCHANGED possible

\* The prefix is stripped from a key that has it.
Relative(c, key) ==
    IF IsPrefix(PrefixOf[c], key) THEN SubSeq(key, Len(PrefixOf[c]) + 1, Len(key)) ELSE key

\* list: the keys of the one response, without the prefix.  No further page is
\* asked for.
S3List(c) ==
    /\ s3Call[c].op = "LIST" /\ s3Call[c].reply # "none"
    /\ \E read \in BOOLEAN :
         S3Return(c, IF read /\ s3Call[c].reply = "2xx"
                     THEN [op |-> "LIST", path |-> s3Call[c].path, ok |-> TRUE,
                           paths |-> {Relative(c, k) : k \in s3Call[c].keys}, seen |-> s3Call[c].seen]
                     ELSE [op |-> "LIST", path |-> s3Call[c].path, ok |-> FALSE])
    /\ UNCHANGED possible

S3Next ==
    \/ \E c \in S3Client, path \in S3Path :
         \/ \E d \in S3Data : Send(c, "PUT", path, d)
         \/ \E op \in {"GET", "HEAD", "DELETE"} : Send(c, op, path, Absent)
    \/ \E c \in S3Client, path \in {SubSeq(p, 1, Len(p) - 1) : p \in S3Path} :
         Send(c, "LIST", path, Absent)
    \/ \E r \in net : Serve(r) \/ Fail(r) \/ Lose(r)
    \/ \E c \in S3Client : \/ TimeOut(c) \/ S3Upload(c) \/ S3Download(c)
                         \/ S3Exists(c) \/ S3Delete(c) \/ S3List(c)

S3Spec == S3Init /\ [][S3Next]_s3Vars

-----------------------------------------------------------------------------
\* What Ok of an upload or a delete says of its object, under timeouts and
\* retries.  The object has, and a download returns, the content of the last
\* acknowledged change, of a change called while that one was under way or
\* since, or of an earlier change that was still on the way when it was called:
\* no other content comes back, whatever clients of another prefix do.
\* With nothing on the way and no other call it is exactly what was
\* acknowledged.  That an earlier change on the way may land afterwards
\* and undo what was acknowledged is the code's behaviour (it sends no
\* condition with a request), and part of what the property says.
S3AcknowledgedHolds ==
    /\ \A c \in S3Client, p \in S3Path :
         objects[ObjectKey(c, p)] \in possible[<<PrefixOf[c], p>>]
    /\ \A c \in S3Client :
         (s3Result[c].op = "GET" /\ s3Result[c].ok) => s3Result[c].data \in s3Result[c].may

\* exists "[c]heck[s] if path exists in storage": an object that is there
\* whatever is on the way is not reported missing.
ExistsAccurate ==
    \A c \in S3Client :
        (s3Result[c].op = "HEAD" /\ s3Result[c].ok /\ ~ s3Result[c].yes) => Absent \in s3Result[c].may

\* list returns the "[l]ist of matching paths": every object that was there
\* before the call and that nobody deletes during it is in it.
ListComplete ==
    \A c \in S3Client :
        (s3Result[c].op = "LIST" /\ s3Result[c].ok) =>
            \A s \in s3Result[c].seen :
                (s[1] = PrefixOf[c] /\ IsPrefix(s3Result[c].path, s[2])) =>
                    s[2] \in s3Result[c].paths
=============================================================================
