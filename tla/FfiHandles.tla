------------------------------ MODULE FfiHandles ------------------------------
(***************************************************************************)
(* ffi.rs and the .NET classes over it: who owns each allocation, which    *)
(* thread sees which error, and what happens to a handle that several      *)
(* threads use.  A native call is entered (arguments checked) and run (the *)
(* engine dereferenced) in two steps, because another thread may free the  *)
(* engine in between.  A thread holds at most one result and one error     *)
(* string, so an allocation is named by its thread and its part.           *)
(***************************************************************************)
EXTENDS Naturals, FiniteSets

CONSTANTS Threads,      \* OS threads of the host program
          AesObjects, ChunkObjects,   \* AesEngine and ChunkEngine objects
          MaxChunks,    \* chunks of one chunk list
          MaxSize,      \* sizes a chunker is asked for are 0..MaxSize
          Wrapped,      \* TRUE: through the .NET classes; FALSE: C calls
          DisposeAlone  \* the program disposes an object nobody else is using

ASSUME BoundsAssumption ==
  /\ MaxChunks \in Nat /\ MaxSize \in Nat
  /\ "static" \notin AesObjects \union ChunkObjects

VARIABLES native,     \* of an object: the engine behind it, or none or freed
          object,     \* of an object: its fields _handle (set or not) and _disposed
          heap,       \* live allocations handed out to callers
          lastError,  \* LAST_ERROR of each thread
          ffiCall,       \* what each thread is doing
          thrown,     \* the message of the thread's last VaultException, and its cause
          corrupt,    \* something freed was used or freed again
          aborted     \* a panic reached the C boundary

ffiVars == <<native, object, heap, lastError, ffiCall, thrown, corrupt, aborted>>

Objects == AesObjects \union ChunkObjects

NoObject == "static"
FfiIdle == [at |-> "idle", op |-> "none", on |-> NoObject, input |-> "none", parts |-> {}]

(* What a call may be given; an empty array is pinned to a null pointer.    *)
Inputs == {"empty", "good", "bad"}

Ops == {"encrypt", "decrypt", "chunk", "derive_key", "generate", "hash"}

(* VaultBuffer::from_vec leaks the box and the bytes to the caller.         *)
Buffer(i) == {<<"box", i>>, <<"bytes", i>>}

(* vault_chunker_chunk: the list, its two arrays, a hash and a buffer for   *)
(* each chunk.                                                              *)
ChunkList(n) == {<<"list", 0>>, <<"infos", 0>>, <<"datas", 0>>}
                  \union UNION {{<<"hash", i>>} \union Buffer(i) : i \in 1..n}

ErrorString == <<"error", 0>>

Own(t, parts) == {t} \X parts

Free(t, parts) == /\ heap' = heap \ Own(t, parts)
                  /\ corrupt' = (corrupt \/ ~(Own(t, parts) \subseteq heap))

(* Mutant of SetLastError: the cell is one for all threads.                 *)
SetLastErrorGlobal(t, e) == lastError' = [u \in Threads |-> e]

(* clear_last_error and set_last_error: one cell for each thread.           *)
SetLastError(t, e) == lastError' = [lastError EXCEPT ![t] = e]

FfiInit == /\ native = [o \in Objects |-> [state |-> "none", min |-> 0]]
           /\ object = [o \in Objects |-> [handle |-> FALSE, disposed |-> FALSE]]
           /\ heap = {}
           /\ lastError = [t \in Threads |-> "none"]
           /\ ffiCall = [t \in Threads |-> FfiIdle]
           /\ thrown = [t \in Threads |-> [message |-> "none", cause |-> "none"]]
           /\ corrupt = FALSE
           /\ aborted = FALSE

(* Nobody else is at work on o.                                             *)
Quiet(t, o) == \A u \in Threads \ {t} : ffiCall[u].on # o

(* vault_aes_create behind AesEngine's constructor, which lets only keys of *)
(* 32 bytes through.  A refused key is the caller's error.                  *)
CreateAes(t, o, input) ==
  /\ ffiCall[t].at = "idle" /\ o \in AesObjects /\ native[o].state = "none"
  /\ Wrapped => input = "good"
  /\ IF input = "good"
       THEN /\ native' = [native EXCEPT ![o].state = "live"]
            /\ object' = [object EXCEPT ![o].handle = TRUE]
            /\ lastError' = [lastError EXCEPT ![t] = "none"]
            /\ UNCHANGED ffiCall
       ELSE /\ SetLastError(t, IF input = "empty" THEN "null" ELSE "engine")
            /\ ffiCall' = [ffiCall EXCEPT ![t] =
                              [FfiIdle EXCEPT !.at = "failed", !.op = "create", !.input = input]]
            /\ UNCHANGED <<native, object>>
  /\ UNCHANGED <<heap, thrown, corrupt, aborted>>

(* ChunkConfig::new asserts the order of the sizes.                         *)
SizesOrdered(min, avg, max) == min <= avg /\ avg <= max

(* ChunkEngine's constructor throws before the native call otherwise.       *)
SizesAdmitted(min, avg, max) == Wrapped => min > 0 /\ SizesOrdered(min, avg, max)

(* vault_chunker_create and vault_chunker_create_custom; the assertion is a *)
(* panic in an extern "C" function, which aborts the process.               *)
CreateChunker(t, o, min, avg, max) ==
  /\ ffiCall[t].at = "idle" /\ o \in ChunkObjects /\ native[o].state = "none"
  /\ SizesAdmitted(min, avg, max)
  /\ SetLastError(t, "none")
  /\ IF SizesOrdered(min, avg, max)
       THEN /\ native' = [native EXCEPT ![o] = [state |-> "live", min |-> min]]
            /\ object' = [object EXCEPT ![o].handle = TRUE]
            /\ UNCHANGED aborted
       ELSE aborted' = TRUE /\ UNCHANGED <<native, object>>
  /\ UNCHANGED <<heap, ffiCall, thrown, corrupt>>

On(op) == CASE op \in {"encrypt", "decrypt"} -> AesObjects
            [] op = "chunk" -> ChunkObjects
            [] OTHER -> {NoObject}

(* ThrowIfDisposed; an empty array is chunked without a native call.        *)
Begin(t, op, o, input) ==
  /\ ffiCall[t].at = "idle"
  /\ o # NoObject => object[o].handle /\ ~object[o].disposed
  /\ DisposeAlone /\ o # NoObject =>
       \A u \in Threads : ~(ffiCall[u].at \in {"dispose", "disposed"} /\ ffiCall[u].on = o)
  /\ ~(Wrapped /\ op = "chunk" /\ input = "empty")
  /\ ffiCall' = [ffiCall EXCEPT ![t] = [at |-> "checked", op |-> op, on |-> o, input |-> input, parts |-> {}]]
  /\ UNCHANGED <<native, object, heap, lastError, thrown, corrupt, aborted>>

(* What the null checks refuse: a handle that is gone, or a null pointer -  *)
(* for chunk and hash only when the length is not zero.                     *)
Null(c) == \/ c.on # NoObject /\ ~object[c.on].handle
           \/ c.input = "empty" /\ c.op \in {"encrypt", "decrypt", "derive_key"}

Enter(t) ==
  /\ ffiCall[t].at = "checked"
  /\ IF Null(ffiCall[t]) THEN SetLastError(t, "null") /\ ffiCall' = [ffiCall EXCEPT ![t].at = "failed"]
                      ELSE SetLastError(t, "none") /\ ffiCall' = [ffiCall EXCEPT ![t].at = "inside"]
  /\ UNCHANGED <<native, object, heap, thrown, corrupt, aborted>>

(* The engine refuses: a blob that does not open, a salt Argon2 rejects.    *)
EngineErr(c) == c.input = "bad" /\ c.op \in {"decrypt", "derive_key"}

Results(c) == CASE c.op = "chunk" -> {ChunkList(n) : n \in IF c.input = "empty" THEN {0} ELSE 1..MaxChunks}
                [] c.op = "hash" -> {{ErrorString}}
                [] OTHER -> {Buffer(0)}

Run(t) ==
  LET c == ffiCall[t] IN
  /\ c.at = "inside"
  /\ corrupt' = (corrupt \/ (c.on # NoObject /\ native[c.on].state = "freed"))
  /\ IF EngineErr(c)
       THEN /\ SetLastError(t, "engine")
            /\ ffiCall' = [ffiCall EXCEPT ![t].at = "failed"]
            /\ UNCHANGED heap
       ELSE \E parts \in Results(c) :
            /\ ffiCall' = [ffiCall EXCEPT ![t].at = "returned", ![t].parts = parts]
            /\ heap' = heap \union Own(t, parts)
            /\ UNCHANGED lastError
  /\ UNCHANGED <<native, object, thrown, aborted>>

(* The parts vault_buffer_free, vault_chunk_list_free and vault_error_free  *)
(* release of a result: all of them.  That the loop over a chunk list walks *)
(* each entry once is taken as it stands.                                   *)
Released(parts) == parts

(* The result is copied into managed memory and freed in a finally block.   *)
CopyAndFree(t) ==
  /\ ffiCall[t].at = "returned"
  /\ Free(t, Released(ffiCall[t].parts))
  /\ ffiCall' = [ffiCall EXCEPT ![t] = FfiIdle]
  /\ UNCHANGED <<native, object, lastError, thrown, aborted>>

(* Why a call that failed did.                                              *)
Cause(c) == IF EngineErr(c) \/ (c.op = "create" /\ c.input = "bad") THEN "engine" ELSE "null"

(* VaultException.FromLastError: each vault_last_error allocates a copy.    *)
FromLastError(t) ==
  /\ ffiCall[t].at = "failed"
  /\ heap' = heap \union Own(t, {ErrorString})
  /\ thrown' = [thrown EXCEPT ![t] = [message |-> lastError[t], cause |-> Cause(ffiCall[t])]]
  /\ ffiCall' = [ffiCall EXCEPT ![t].at = "message"]
  /\ UNCHANGED <<native, object, lastError, corrupt, aborted>>

ErrorFree(t) ==
  /\ ffiCall[t].at = "message"
  /\ Free(t, {ErrorString})
  /\ ffiCall' = [ffiCall EXCEPT ![t] = FfiIdle]
  /\ UNCHANGED <<native, object, lastError, thrown, aborted>>

(* Dispose: the test of _disposed, the native free, the two assignments.    *)
BeginDispose(t, o) ==
  /\ ffiCall[t].at = "idle" /\ object[o].handle /\ ~object[o].disposed
  /\ DisposeAlone => Quiet(t, o)
  /\ ffiCall' = [ffiCall EXCEPT ![t] = [FfiIdle EXCEPT !.at = "dispose", !.on = o]]
  /\ UNCHANGED <<native, object, heap, lastError, thrown, corrupt, aborted>>

DisposeFree(t) ==
  /\ ffiCall[t].at = "dispose"
  /\ IF object[ffiCall[t].on].handle
       THEN /\ corrupt' = (corrupt \/ native[ffiCall[t].on].state = "freed")
            /\ native' = [native EXCEPT ![ffiCall[t].on].state = "freed"]
       ELSE UNCHANGED <<native, corrupt>>
  /\ ffiCall' = [ffiCall EXCEPT ![t].at = "disposed"]
  /\ UNCHANGED <<object, heap, lastError, thrown, aborted>>

(* Mutant of DisposeEnd: the handle stays set and the object not disposed.  *)
DisposeEndForgets(t) ==
  /\ ffiCall[t].at = "disposed"
  /\ ffiCall' = [ffiCall EXCEPT ![t] = FfiIdle]
  /\ UNCHANGED <<native, object, heap, lastError, thrown, corrupt, aborted>>

DisposeEnd(t) ==
  /\ ffiCall[t].at = "disposed"
  /\ object' = [object EXCEPT ![ffiCall[t].on] = [handle |-> FALSE, disposed |-> TRUE]]
  /\ ffiCall' = [ffiCall EXCEPT ![t] = FfiIdle]
  /\ UNCHANGED <<native, heap, lastError, thrown, corrupt, aborted>>

FfiNext ==
  /\ ~aborted
  /\ \E t \in Threads :
       \/ \E o \in Objects : \/ \E input \in Inputs : CreateAes(t, o, input)
                             \/ \E min, avg, max \in 0..MaxSize : CreateChunker(t, o, min, avg, max)
                             \/ BeginDispose(t, o)
       \/ \E op \in Ops, input \in Inputs : \E o \in On(op) : Begin(t, op, o, input)
       \/ Enter(t) \/ Run(t) \/ CopyAndFree(t) \/ FromLastError(t) \/ ErrorFree(t)
       \/ DisposeFree(t) \/ DisposeEnd(t)

FfiSpec == FfiInit /\ [][FfiNext]_ffiVars
-----------------------------------------------------------------------------
(* Nothing that was freed is used or freed again, whatever the interleaving *)
(* of calls on shared engines with the freeing of results and engines       *)
(* ("Handles can be shared across threads").                                *)
MemorySafe == ~corrupt

(* A thread that has returned to its program has left nothing behind: every *)
(* part of a result - a list's hashes and buffers too - and every error     *)
(* string is freed.                                                         *)
NoLeak == \A t \in Threads : ffiCall[t].at = "idle" => \A a \in heap : a[1] # t

(* Every allocation handed out is freed exactly once: nothing that was      *)
(* freed is used or freed again, and a thread that is back in its program   *)
(* has left nothing behind (ffi.rs vault_*_free, AesEngine.cs,              *)
(* ChunkEngine.cs).                                                         *)
FreedExactlyOnce == MemorySafe /\ NoLeak

(* The exception a thread throws carries the cause of its own call, though  *)
(* other threads fail between the call and vault_last_error (ffi.rs         *)
(* LAST_ERROR).                                                             *)
ErrorIsOwn == \A t \in Threads : thrown[t].message = thrown[t].cause

(* "Returns handle to engine, or NULL on error": no call takes the process  *)
(* down.                                                                    *)
NeverAborts == ~aborted
=============================================================================
