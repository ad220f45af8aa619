--------------------------- MODULE MCClientCalls ---------------------------
(***************************************************************************)
(* Calls a client program makes: opening what a storage provider serves,   *)
(* through the engines, the .NET classes over them, the bounded HTTP       *)
(* reader, the credential store, and the search for a mistyped word of a   *)
(* recovery phrase.  They share no state, so a behaviour exercises one and *)
(* leaves the others at rest.                                              *)
(***************************************************************************)
EXTENDS ChunkBatch, CredentialStore, FfiHandles, BoundedRead, ClosestWord, SequencesExt

CONSTANTS t1, t2

VARIABLE part

-----------------------------------------------------------------------------
\* A repository id and a chunk name with a zero byte, beside plain ones.
MCUid == {<<1>>, <<1, 0, 1>>}
MCChunk == {[hash |-> <<1>>, size |-> 1, data |-> "p"],
            [hash |-> <<1, 0, 1>>, size |-> 2, data |-> "q"]}
MCAad == {ForContentChunk(<<1>>, <<1>>, 1), Content(<<1>>, <<1>>, 2, 1),
          Content(<<1, 0, 1>>, <<1>>, 1, 1), Content(<<1>>, <<1, 0, 1>>, 1, 1),
          ForNamedObject(<<1>>, <<1>>)}

\* Words of two letters, some of them neighbours of each other.
MCWordList == << <<1, 1, 2>>, <<1, 2>>, <<2, 2, 1>>, <<2>>, <<1, 1, 1>> >>

-----------------------------------------------------------------------------
\* Edits of one letter, and the words they reach: on the words of this
\* instance the cheapest alignment costs as much as the shortest way there.
Edits(u) == {RemoveAt(u, x) : x \in 1..Len(u)}
            \union {ReplaceAt(u, x, c) : x \in 1..Len(u), c \in Letters}
            \union {v \in {InsertAt(u, x, c) : x \in 1..Len(u) + 1, c \in Letters} :
                      Len(v) <= MaxLen}

Within == [u \in Words |->
  LET W[d \in 0..MaxLen] == IF d = 0 THEN {u} ELSE UNION {{v} \union Edits(v) : v \in W[d - 1]}
  IN W]

ASSUME \A u \in Words : \A v \in ListPrefixes :
         /\ v \in Within[u][Distance[u][v]]
         /\ \A e \in 0..Distance[u][v] - 1 : v \notin Within[u][e]

-----------------------------------------------------------------------------
MCInit ==
    /\ part \in {"provider", "credentials", "ffi", "http", "words"}
    /\ Init /\ CredInit /\ FfiInit /\ ReadInit /\ WordInit
    /\ part # "words" => typed = <<>>

ProviderStep == part = "provider" /\ Next /\ UNCHANGED <<part, credVars, ffiVars, read, wordVars>>
CredentialStep == /\ part = "credentials" /\ CredNext
                  /\ UNCHANGED <<part, vars, ffiVars, read, wordVars>>
FfiStep == part = "ffi" /\ FfiNext /\ UNCHANGED <<part, vars, credVars, read, wordVars>>
HttpStep == part = "http" /\ ReadNext /\ UNCHANGED <<part, vars, credVars, ffiVars, wordVars>>
WordStep == part = "words" /\ WordNext /\ UNCHANGED <<part, vars, credVars, ffiVars, read>>

MCNext == ProviderStep \/ CredentialStep \/ FfiStep \/ HttpStep \/ WordStep

MCSpec == MCInit /\ [][MCNext]_<<part, vars, credVars, ffiVars, read, wordVars>>
=============================================================================
