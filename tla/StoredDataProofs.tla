--------------------------- MODULE StoredDataProofs ---------------------------
(***************************************************************************)
(* What is kept outside the machine, proved for every set of clients,      *)
(* paths, contents, identities, phrases, holders and subkeys: the files of *)
(* FileStore, the objects of S3Store, the backups and masters of           *)
(* AccountRecovery and the subkeys of RepoEncryption.                      *)
(***************************************************************************)
EXTENDS AccountRecovery, RepoEncryption, StorageBackends, SequenceTheorems, TLAPS

(* FileStore: inductive invariant FileInv.                                  *)

(* An upload or a delete under way: the step it is at, what it stores, and  *)
(* whether nobody else has changed its path meanwhile.                      *)
FileCallType ==
    [op : {"mkdir", "open", "write", "delete"}, path : FilePath,
     data : FileData \cup {NoFile}, alone : BOOLEAN]

(* The types of the state of FileStore.                                     *)
FileTypeOK ==
    /\ files \in [FilePath -> FileData \cup {NoFile, Torn}]
    /\ fileCall \in [FileClient -> FileCallType \cup {FileIdle}]
    /\ fileResult = [c \in FileClient |-> fileResult[c]]
    /\ fileClean \in [FilePath -> FileData \cup {NoFile, Unsettled}]
    /\ fileCalls \in Nat

\* The call of a client is on a path.
On(C, c, p) == C[c] # FileIdle /\ C[c].path = p

\* A settled path holds what was acknowledged, and nobody is changing it.
Settled(F, C, K) ==
    \A p \in FilePath : K[p] # Unsettled =>
        /\ F[p] = K[p]
        /\ \A c \in FileClient : ~ On(C, c, p)

\* A call that is alone shares its path with no other; what it opened is there.
Alone(F, C) ==
    \A c \in FileClient : (C[c] # FileIdle /\ C[c].alone = TRUE) =>
        /\ \A x \in FileClient \ {c} : ~ On(C, x, C[c].path)
        /\ C[c].op = "write" => F[C[c].path] # NoFile

(* A download or an exists that fell between an acknowledgement and the     *)
(* next change said what was acknowledged.                                  *)
ReadOK(r) ==
    /\ r.op = "download" => (r.seen # Unsettled => r.data = r.seen)
    /\ r.op = "exists" => (r.seen \in FileData => r.yes)

(* Every client's last result is of that kind.                              *)
ReadsOK(R) == \A c \in FileClient : ReadOK(R[c])

(* The inductive invariant of FileStore.  FileAcknowledgedHolds is not      *)
(* inductive by itself: that an upload may settle its path needs to know    *)
(* that nobody shares the path with it and that the file it opened was not  *)
(* unlinked.                                                                *)
FileInv ==
    /\ FileTypeOK
    /\ Settled(files, fileCall, fileClean)
    /\ Alone(files, fileCall)
    /\ ReadsOK(fileResult)

(* The empty directory satisfies the invariant.                             *)
LEMMA FileInvInit == FileInit => FileInv
<1> SUFFICES ASSUME FileInit PROVE FileInv OBVIOUS
<1>1. FileTypeOK BY DEF FileInit, FileTypeOK
<1>2. Settled(files, fileCall, fileClean) BY DEF FileInit, Settled, On
<1>3. Alone(files, fileCall) BY DEF FileInit, Alone, On
<1>4. ReadsOK(fileResult) BY DEF FileInit, ReadsOK, ReadOK, FileNoResult
<1> QED BY <1>1, <1>2, <1>3, <1>4 DEF FileInv

(* A call under way is on one of the paths.                                 *)
LEMMA BusyShape ==
    ASSUME FileTypeOK, NEW c \in FileClient, fileCall[c] # FileIdle
    PROVE  /\ fileCall[c] \in FileCallType
           /\ fileCall[c].path \in FilePath
           /\ fileCall[c].data \in FileData \cup {NoFile}
BY DEF FileTypeOK, FileCallType

(* A client at a step of a call is not idle.                                *)
LEMMA OpBusy ==
    ASSUME NEW c, fileCall[c].op # "idle" PROVE fileCall[c] # FileIdle
BY DEF FileIdle

(* Starting an upload or a delete unsettles its path and takes "alone" from *)
(* every call on that path, its own included when it is not the first.      *)
LEMMA BeginKeeps ==
    ASSUME FileInv, NEW c \in FileClient, NEW op \in {"mkdir", "delete"}, NEW p \in FilePath,
           NEW d \in FileData \cup {NoFile}, Begin(c, op, p, d)
    PROVE  FileInv'
<1> DEFINE new == [op |-> op, path |-> p, data |-> d, alone |-> ~ Busy(c, p)]
           muted(x) == [fileCall[x] EXCEPT !.alone = FALSE]
<1>0. FileTypeOK /\ fileCall[c] = FileIdle BY DEF FileInv, Begin
<1>1. new \in FileCallType /\ new # FileIdle /\ new.path = p /\ new.op = op BY DEF FileCallType, FileIdle
<1>1a. new.alone = TRUE => ~ Busy(c, p) BY Zenon
<1>2. \A x \in FileClient : fileCall[x] # FileIdle =>
        /\ muted(x) \in FileCallType /\ muted(x) # FileIdle
        /\ muted(x).path = fileCall[x].path /\ muted(x).alone = FALSE /\ muted(x).op = fileCall[x].op
  BY <1>0 DEF FileTypeOK, FileCallType, FileIdle
<1> HIDE DEF new, muted
<1>3. /\ fileCall' = [x \in FileClient |-> IF x = c THEN new
                        ELSE IF fileCall[x] # FileIdle /\ fileCall[x].path = p THEN muted(x)
                        ELSE fileCall[x]]
      /\ fileClean' = [fileClean EXCEPT ![p] = Unsettled]
      /\ fileResult' = [fileResult EXCEPT ![c] = FileNoResult]
      /\ files' = files /\ fileCalls' = fileCalls + 1
  BY DEF Begin, new, muted
<1>4. /\ fileCall'[c] = new
      /\ \A x \in FileClient \ {c} : fileCall'[x] =
            IF fileCall[x] # FileIdle /\ fileCall[x].path = p THEN muted(x) ELSE fileCall[x]
  BY <1>3
<1>4a. fileCall' \in [FileClient -> FileCallType \cup {FileIdle}]
  BY <1>0, <1>1, <1>2, <1>3 DEF FileTypeOK
<1>5. FileTypeOK'
  <2>1. fileResult' = [x \in FileClient |-> fileResult'[x]] BY <1>0, <1>3 DEF FileTypeOK
  <2>2. fileClean' \in [FilePath -> FileData \cup {NoFile, Unsettled}] BY <1>0, <1>3 DEF FileTypeOK
  <2>3. fileCalls' \in Nat BY <1>0, <1>3 DEF FileTypeOK
  <2> QED BY <1>0, <1>3, <1>4a, <2>1, <2>2, <2>3 DEF FileTypeOK
<1>6. \A x \in FileClient \ {c}, q \in FilePath : On(fileCall', x, q) <=> On(fileCall, x, q)
  BY <1>2, <1>4 DEF On
<1>7. \A q \in FilePath : On(fileCall', c, q) <=> q = p
  BY <1>1, <1>4 DEF On
<1>8. Settled(files, fileCall', fileClean')
  BY <1>0, <1>3, <1>6, <1>7 DEF FileInv, FileTypeOK, Settled
<1>9. Alone(files, fileCall')
  <2> SUFFICES ASSUME NEW x \in FileClient, fileCall'[x] # FileIdle, fileCall'[x].alone = TRUE
               PROVE  /\ \A y \in FileClient \ {x} : ~ On(fileCall', y, fileCall'[x].path)
                      /\ fileCall'[x].op = "write" => files[fileCall'[x].path] # NoFile
    BY DEF Alone
  <2>1. CASE x = c
    <3>1. ~ Busy(c, p) /\ fileCall'[x].path = p /\ fileCall'[x].op # "write" BY <2>1, <1>4, <1>1, <1>1a
    <3>2. \A y \in FileClient \ {c} : ~ On(fileCall, y, p) BY <3>1 DEF Busy, On
    <3> QED BY <3>1, <3>2, <2>1, <1>6
  <2>2. CASE x # c
    <3>1. fileCall'[x] = fileCall[x] /\ ~ (fileCall[x] # FileIdle /\ fileCall[x].path = p)
      BY <2>2, <1>4, <1>2
    <3>2. fileCall[x] # FileIdle /\ fileCall[x].alone = TRUE /\ fileCall[x].path # p /\ fileCall[x].path \in FilePath
      BY <3>1, <1>0, BusyShape
    <3>3. /\ \A y \in FileClient \ {x} : ~ On(fileCall, y, fileCall[x].path)
          /\ fileCall[x].op = "write" => files[fileCall[x].path] # NoFile
      BY <3>2 DEF FileInv, Alone
    <3> QED BY <3>1, <3>2, <3>3, <1>6, <1>7
  <2> QED BY <2>1, <2>2
<1>10. ReadsOK(fileResult')
  BY <1>0, <1>3 DEF FileInv, ReadsOK, ReadOK, FileNoResult, FileTypeOK
<1> QED BY <1>3, <1>5, <1>8, <1>9, <1>10 DEF FileInv

\* A call ends: its path is left as it is, or holds what the call says.
LEMMA EndKeeps ==
    ASSUME FileInv, NEW c \in FileClient, fileCall[c] # FileIdle,
           NEW e, fileCall' = [fileCall EXCEPT ![c] = FileIdle],
           files' \in [FilePath -> FileData \cup {NoFile, Torn}],
           \A p \in FilePath : p # fileCall[c].path => files'[p] = files[p],
           fileClean' = fileClean \/ 
             (fileCall[c].alone = TRUE /\ e \in FileData \cup {NoFile} /\ files'[fileCall[c].path] = e
              /\ fileClean' = [fileClean EXCEPT ![fileCall[c].path] = e]),
           fileResult' = fileResult \/
             \E r : fileResult' = [fileResult EXCEPT ![c] = r] /\ r.op \notin {"download", "exists"},
           UNCHANGED fileCalls
    PROVE  FileInv'
<1> DEFINE p == fileCall[c].path
<1>0. FileTypeOK /\ p \in FilePath BY BusyShape DEF FileInv
<1> HIDE DEF p
<1>1. fileCall'[c] = FileIdle /\ \A x \in FileClient \ {c} : fileCall'[x] = fileCall[x]
  BY <1>0 DEF FileTypeOK
<1>2. FileTypeOK'
  BY <1>0 DEF FileTypeOK, p
<1>3. \A x \in FileClient : \A q : On(fileCall', x, q) => x # c /\ On(fileCall, x, q)
  BY <1>1 DEF On
<1>3a. fileClean[p] = Unsettled
  <2> On(fileCall, c, p) BY DEF On, p
  <2> QED BY <1>0 DEF FileInv, Settled
<1>4. Settled(files', fileCall', fileClean')
  <2> SUFFICES ASSUME NEW q \in FilePath, fileClean'[q] # Unsettled
               PROVE  files'[q] = fileClean'[q] /\ \A x \in FileClient : ~ On(fileCall', x, q)
    BY DEF Settled
  <2>1. CASE q = p
    <3>1. /\ fileCall[c].alone = TRUE /\ files'[p] = e
          /\ fileClean' = [fileClean EXCEPT ![p] = e]
      BY <2>1, <1>3a DEF p
    <3>2. \A x \in FileClient \ {c} : ~ On(fileCall, x, p)
      BY <3>1 DEF FileInv, Alone, p
    <3> QED BY <3>1, <3>2, <1>3, <1>0, <2>1 DEF FileTypeOK
  <2>2. CASE q # p
    <3>1. fileClean'[q] = fileClean[q] /\ files'[q] = files[q]
      BY <2>2, <1>0 DEF FileTypeOK, p
    <3> QED BY <3>1, <1>3 DEF FileInv, Settled
  <2> QED BY <2>1, <2>2
<1>5. Alone(files', fileCall')
  <2> SUFFICES ASSUME NEW x \in FileClient, fileCall'[x] # FileIdle, fileCall'[x].alone = TRUE
               PROVE  /\ \A y \in FileClient \ {x} : ~ On(fileCall', y, fileCall'[x].path)
                      /\ fileCall'[x].op = "write" => files'[fileCall'[x].path] # NoFile
    BY DEF Alone
  <2>1. x # c /\ fileCall'[x] = fileCall[x] BY <1>1
  <2>2. /\ \A y \in FileClient \ {x} : ~ On(fileCall, y, fileCall[x].path)
        /\ fileCall[x].op = "write" => files[fileCall[x].path] # NoFile
    BY <2>1 DEF FileInv, Alone
  <2>3. fileCall[x].path # p BY <2>1, <2>2 DEF On, p
  <2>4. fileCall[x].path \in FilePath BY <2>1, <1>0, BusyShape
  <2> QED BY <2>1, <2>2, <2>3, <2>4, <1>3 DEF p
<1>6. ReadsOK(fileResult')
  <2>1. CASE fileResult' = fileResult BY <2>1 DEF FileInv
  <2>2. CASE \E r : fileResult' = [fileResult EXCEPT ![c] = r] /\ r.op \notin {"download", "exists"}
    <3> PICK r : fileResult' = [fileResult EXCEPT ![c] = r] /\ r.op \notin {"download", "exists"} BY <2>2
    <3>1. \A x \in FileClient : fileResult'[x] = IF x = c THEN r ELSE fileResult[x]
      BY <1>0 DEF FileTypeOK
    <3> QED BY <3>1 DEF FileInv, ReadsOK, ReadOK
  <2> QED BY <2>1, <2>2
<1> QED BY <1>2, <1>4, <1>5, <1>6 DEF FileInv

\* A call under way goes on to its next step.
LEMMA StepKeeps ==
    ASSUME FileInv, NEW c \in FileClient, fileCall[c] # FileIdle,
           NEW op \in {"open", "write"}, fileCall' = [fileCall EXCEPT ![c].op = op],
           \/ op = "open" /\ files' = files
           \/ op = "write" /\ files' = [files EXCEPT ![fileCall[c].path] = Torn],
           UNCHANGED <<fileResult, fileClean, fileCalls>>
    PROVE  FileInv'
<1> DEFINE p == fileCall[c].path
           new == [fileCall[c] EXCEPT !.op = op]
<1>0. FileTypeOK /\ p \in FilePath /\ fileCall[c] \in FileCallType BY BusyShape DEF FileInv
<1>1. new \in FileCallType /\ new # FileIdle /\ new.op = op /\ new.path = p /\ new.alone = fileCall[c].alone
  BY <1>0 DEF FileCallType, FileIdle
<1>2. fileCall'[c] = new /\ \A x \in FileClient \ {c} : fileCall'[x] = fileCall[x]
  BY <1>0 DEF FileTypeOK
<1>2a. fileCall' \in [FileClient -> FileCallType \cup {FileIdle}]
  <2>1. fileCall' = [fileCall EXCEPT ![c] = new] BY <1>0 DEF FileTypeOK
  <2> HIDE DEF new
  <2> QED BY <2>1, <1>0, <1>1 DEF FileTypeOK
<1>2b. fileCall[c].path = p OBVIOUS
<1> HIDE DEF p, new
<1>3. FileTypeOK'
  BY <1>0, <1>2a, <1>2b DEF FileTypeOK
<1>4. \A x \in FileClient : \A q : On(fileCall', x, q) <=> On(fileCall, x, q)
  BY <1>1, <1>2, <1>2b DEF On
<1>5. On(fileCall, c, p) BY <1>2b DEF On
<1>6. \A q \in FilePath : q # p => files'[q] = files[q]
  BY <1>0, <1>2b DEF FileTypeOK
<1>7. Settled(files', fileCall', fileClean')
  BY <1>0, <1>4, <1>5, <1>6 DEF FileInv, Settled
<1>8. Alone(files', fileCall')
  <2> SUFFICES ASSUME NEW x \in FileClient, fileCall'[x] # FileIdle, fileCall'[x].alone = TRUE
               PROVE  /\ \A y \in FileClient \ {x} : ~ On(fileCall', y, fileCall'[x].path)
                      /\ fileCall'[x].op = "write" => files'[fileCall'[x].path] # NoFile
    BY DEF Alone
  <2>1. fileCall[x] # FileIdle /\ fileCall[x].alone = TRUE /\ fileCall'[x].path = fileCall[x].path
    BY <1>1, <1>2, <1>2b
  <2>2. /\ \A y \in FileClient \ {x} : ~ On(fileCall, y, fileCall[x].path)
        /\ fileCall[x].op = "write" => files[fileCall[x].path] # NoFile
    BY <2>1 DEF FileInv, Alone
  <2>3. CASE x = c
    <3>1. fileCall'[x].op = op /\ fileCall[x].path = p BY <2>3, <1>1, <1>2, <1>2b
    <3>2. op = "write" => files'[p] = Torn BY <1>0, <1>2b DEF FileTypeOK
    <3> QED BY <3>1, <3>2, <2>1, <2>2, <1>4, FileAssumption
  <2>4. CASE x # c
    <3>1. fileCall'[x] = fileCall[x] /\ fileCall[x].path # p /\ fileCall[x].path \in FilePath
      BY <2>4, <2>1, <2>2, <1>2, <1>5, <1>0, BusyShape DEF On
    <3> QED BY <3>1, <2>1, <2>2, <1>4, <1>6
  <2> QED BY <2>3, <2>4
<1> QED BY <1>3, <1>7, <1>8 DEF FileInv

(* A call that only reads changes nothing but its result.                   *)
LEMMA ReadsKeeps ==
    ASSUME FileInv, NEW c \in FileClient, NEW r, Reads(c, r), ReadOK(r)
    PROVE  FileInv'
<1>0. FileTypeOK BY DEF FileInv
<1>1. /\ fileResult' = [fileResult EXCEPT ![c] = r]
      /\ files' = files /\ fileCall' = fileCall /\ fileClean' = fileClean /\ fileCalls' = fileCalls + 1
  BY DEF Reads
<1>2. FileTypeOK' BY <1>0, <1>1 DEF FileTypeOK
<1>3. \A x \in FileClient : fileResult'[x] = IF x = c THEN r ELSE fileResult[x]
  BY <1>0, <1>1 DEF FileTypeOK
<1>4. ReadsOK(fileResult') BY <1>3 DEF FileInv, ReadsOK
<1> QED BY <1>1, <1>2, <1>4 DEF FileInv
(* Every step of FileStore keeps the invariant: a call begins, goes on,     *)
(* ends or reads.                                                           *)
LEMMA FileNextKeeps == FileInv /\ [FileNext]_fileVars => FileInv'
<1> SUFFICES ASSUME FileInv, [FileNext]_fileVars PROVE FileInv' OBVIOUS
<1>0. FileTypeOK BY DEF FileInv
<1>1. CASE UNCHANGED fileVars
  BY <1>1 DEF FileInv, FileTypeOK, fileVars
<1>2. ASSUME NEW c \in FileClient, NEW p \in FilePath, NEW d \in FileData, Begin(c, "mkdir", p, d)
      PROVE  FileInv'
  BY <1>2, BeginKeeps
<1>3. ASSUME NEW c \in FileClient, NEW p \in FilePath, Begin(c, "delete", p, NoFile)
      PROVE  FileInv'
  BY <1>3, BeginKeeps
<1>4. ASSUME NEW c \in FileClient, NEW p \in FilePath, FileDownload(c, p)
      PROVE  FileInv'
  <2> DEFINE r == [op |-> "download", path |-> p, ok |-> IsFile(p),
                   data |-> IF IsFile(p) THEN files[p] ELSE NoFile, seen |-> fileClean[p]]
  <2>1. Reads(c, r) BY <1>4 DEF FileDownload
  <2>2. r.seen # Unsettled => r.data = r.seen
    <3> SUFFICES ASSUME fileClean[p] # Unsettled PROVE r.data = fileClean[p] OBVIOUS
    <3>1. files[p] = fileClean[p] BY DEF FileInv, Settled
    <3> QED BY <3>1, FileAssumption DEF IsFile
  <2>3. ReadOK(r) BY <2>2 DEF ReadOK
  <2> QED BY <2>1, <2>3, ReadsKeeps
<1>5. ASSUME NEW c \in FileClient, NEW p \in FilePath, FileExists(c, p)
      PROVE  FileInv'
  <2> DEFINE r == [op |-> "exists", path |-> p, ok |-> TRUE,
                   yes |-> IsFile(p) \/ p \in dirs, seen |-> fileClean[p]]
  <2>1. Reads(c, r) BY <1>5 DEF FileExists
  <2>2. fileClean[p] \in FileData => IsFile(p)
    BY FileAssumption DEF FileInv, Settled, IsFile
  <2>3. /\ r.op = "exists" /\ r.seen = fileClean[p]
        /\ IsFile(p) => r.yes
    BY Zenon
  <2> HIDE DEF r
  <2>4. ReadOK(r) BY <2>2, <2>3 DEF ReadOK
  <2> QED BY <2>1, <2>4, ReadsKeeps
<1>6. ASSUME NEW c \in FileClient, NEW prefix, FileList(c, prefix)
      PROVE  FileInv'
  <2>1. PICK r : Reads(c, r) /\ r.op = "list" BY <1>6 DEF FileList
  <2>2. ReadOK(r) BY <2>1 DEF ReadOK
  <2> QED BY <2>1, <2>2, ReadsKeeps
<1>7. ASSUME NEW c \in FileClient, NEW content, fileCall[c] # FileIdle, files' = files,
             FileReturn(c, FALSE, content)
      PROVE  FileInv'
  <2> DEFINE r == [op |-> fileCall[c].op, path |-> fileCall[c].path, ok |-> FALSE]
  <2>1. r.op \notin {"download", "exists"} BY <1>7, BusyShape, <1>0 DEF FileCallType
  <2>2. /\ fileResult' = [fileResult EXCEPT ![c] = r]
        /\ fileCall' = [fileCall EXCEPT ![c] = FileIdle]
        /\ fileClean' = fileClean /\ UNCHANGED fileCalls
    BY <1>7 DEF FileReturn
  <2> HIDE DEF r
  <2>3. /\ files' \in [FilePath -> FileData \cup {NoFile, Torn}]
        /\ \A p \in FilePath : p # fileCall[c].path => files'[p] = files[p]
    BY <1>0, <1>7 DEF FileTypeOK
  <2> QED BY <1>7, <2>1, <2>2, <2>3, EndKeeps
<1>8. ASSUME NEW c \in FileClient, NEW content \in FileData \cup {NoFile}, fileCall[c] # FileIdle,
             files' = [files EXCEPT ![fileCall[c].path] = files'[fileCall[c].path]],
             files'[fileCall[c].path] \in FileData \cup {NoFile},
             fileCall[c].alone = TRUE => files'[fileCall[c].path] = content,
             FileReturn(c, TRUE, content)
      PROVE  FileInv'
  <2> DEFINE r == [op |-> fileCall[c].op, path |-> fileCall[c].path, ok |-> TRUE]
  <2>0. fileCall[c] \in FileCallType /\ fileCall[c].path \in FilePath BY <1>8, BusyShape, <1>0
  <2>1. r.op \notin {"download", "exists"} BY <2>0 DEF FileCallType
  <2>2. /\ fileResult' = [fileResult EXCEPT ![c] = r]
        /\ fileCall' = [fileCall EXCEPT ![c] = FileIdle]
        /\ UNCHANGED fileCalls
    BY <1>8 DEF FileReturn
  <2>2a. fileClean' = IF fileCall[c].alone THEN [fileClean EXCEPT ![fileCall[c].path] = content] ELSE fileClean
    BY <1>8 DEF FileReturn
  <2>2b. fileCall[c].alone \in BOOLEAN BY <2>0 DEF FileCallType
  <2>2c. \/ fileClean' = fileClean
         \/ fileCall[c].alone = TRUE /\ fileClean' = [fileClean EXCEPT ![fileCall[c].path] = content]
    BY <2>2a, <2>2b
  <2> HIDE DEF r
  <2>3. /\ files' \in [FilePath -> FileData \cup {NoFile, Torn}]
        /\ \A p \in FilePath : p # fileCall[c].path => files'[p] = files[p]
    BY <1>0, <1>8, <2>0 DEF FileTypeOK
  <2>4. fileClean' = fileClean \/
          (/\ fileCall[c].alone = TRUE /\ content \in FileData \cup {NoFile}
           /\ files'[fileCall[c].path] = content
           /\ fileClean' = [fileClean EXCEPT ![fileCall[c].path] = content])
    BY <1>8, <2>2c
  <2>5. \E x : fileResult' = [fileResult EXCEPT ![c] = x] /\ x.op \notin {"download", "exists"} BY <2>1, <2>2
  <2> QED BY <1>8, <2>2, <2>3, <2>4, <2>5, EndKeeps
<1>9. ASSUME NEW c \in FileClient, CreateDirAll(c)
      PROVE  FileInv'
  <2>1. fileCall[c].op = "mkdir" /\ fileCall[c] # FileIdle BY <1>9, OpBusy DEF CreateDirAll
  <2>2. CASE \E q \in Parents(fileCall[c].path) : IsFile(q)
    BY <1>9, <2>1, <2>2, <1>7 DEF CreateDirAll
  <2>3. CASE ~ \E q \in Parents(fileCall[c].path) : IsFile(q)
    <3>1. /\ fileCall' = [fileCall EXCEPT ![c].op = "open"]
          /\ files' = files /\ UNCHANGED <<fileResult, fileClean, fileCalls>>
      BY <1>9, <2>3 DEF CreateDirAll
    <3> QED BY <3>1, <2>1, StepKeeps
  <2> QED BY <2>2, <2>3
<1>10. ASSUME NEW c \in FileClient, Truncate(c)
       PROVE  FileInv'
  <2>1. fileCall[c].op = "open" /\ fileCall[c] # FileIdle BY <1>10, OpBusy DEF Truncate
  <2>2. CASE fileCall[c].path \in dirs
    BY <1>10, <2>1, <2>2, <1>7 DEF Truncate
  <2>3. CASE fileCall[c].path \notin dirs
    <3>1. /\ fileCall' = [fileCall EXCEPT ![c].op = "write"]
          /\ files' = [files EXCEPT ![fileCall[c].path] = Torn]
          /\ UNCHANGED <<fileResult, fileClean, fileCalls>>
      BY <1>10, <2>3 DEF Truncate
    <3> QED BY <3>1, <2>1, StepKeeps
  <2> QED BY <2>2, <2>3
<1>11. ASSUME NEW c \in FileClient, Write(c)
       PROVE  FileInv'
  <2>1. fileCall[c].op = "write" /\ fileCall[c] # FileIdle BY <1>11, OpBusy DEF Write
  <2>1a. fileCall[c].path \in FilePath /\ fileCall[c].data \in FileData \cup {NoFile}
    BY <2>1, <1>0, BusyShape
  <2>2. CASE FileReturn(c, FALSE, Unsettled) /\ UNCHANGED files
    BY <2>2, <2>1, <1>7
  <2>3. CASE /\ files' = [files EXCEPT ![fileCall[c].path] = IF @ = NoFile THEN @ ELSE fileCall[c].data]
             /\ FileReturn(c, TRUE, fileCall[c].data)
    <3>1. files'[fileCall[c].path] =
            IF files[fileCall[c].path] = NoFile THEN NoFile ELSE fileCall[c].data
      BY <2>1a, <2>3, <1>0 DEF FileTypeOK
    <3>2. files' = [files EXCEPT ![fileCall[c].path] = files'[fileCall[c].path]]
      BY <2>1a, <2>3, <3>1, <1>0 DEF FileTypeOK
    <3>3. fileCall[c].alone = TRUE => files[fileCall[c].path] # NoFile
      BY <2>1 DEF FileInv, Alone
    <3> QED BY <3>1, <3>2, <3>3, <2>1, <2>1a, <2>3, <1>8
  <2> QED BY <1>11, <2>2, <2>3 DEF Write
<1>12. ASSUME NEW c \in FileClient, FileDelete(c)
       PROVE  FileInv'
  <2>1. fileCall[c].op = "delete" /\ fileCall[c] # FileIdle BY <1>12, OpBusy DEF FileDelete
  <2>1a. fileCall[c].path \in FilePath BY <2>1, <1>0, BusyShape
  <2>2. CASE ~ IsFile(fileCall[c].path)
    BY <1>12, <2>1, <2>2, <1>7 DEF FileDelete
  <2>3. CASE IsFile(fileCall[c].path)
    <3>1. files' = [files EXCEPT ![fileCall[c].path] = NoFile] /\ FileReturn(c, TRUE, NoFile)
      BY <1>12, <2>3 DEF FileDelete
    <3>2. files'[fileCall[c].path] = NoFile BY <3>1, <2>1a, <1>0 DEF FileTypeOK
    <3> QED BY <3>1, <3>2, <2>1, <2>1a, <1>8
  <2> QED BY <2>2, <2>3
<1>13. ASSUME NEW c \in FileClient, Crash(c)
       PROVE  FileInv'
  <2>1. /\ fileCall[c] # FileIdle /\ fileCall' = [fileCall EXCEPT ![c] = FileIdle]
        /\ files' = files /\ UNCHANGED <<fileResult, fileClean, fileCalls>>
    BY <1>13 DEF Crash
  <2>2. /\ files' \in [FilePath -> FileData \cup {NoFile, Torn}]
        /\ \A p \in FilePath : p # fileCall[c].path => files'[p] = files[p]
    BY <1>0, <2>1 DEF FileTypeOK
  <2> QED BY <2>1, <2>2, EndKeeps
<1>14. CASE \E c \in FileClient, p \in FilePath :
              \/ \E d \in FileData : Begin(c, "mkdir", p, d)
              \/ Begin(c, "delete", p, NoFile)
              \/ FileDownload(c, p) \/ FileExists(c, p)
  BY <1>14, <1>2, <1>3, <1>4, <1>5
<1>15. CASE \E c \in FileClient, prefix \in UNION {Parents(p) : p \in FilePath} \cup {<<>>} : FileList(c, prefix)
  BY <1>15, <1>6
<1>16. CASE \E c \in FileClient : CreateDirAll(c) \/ Truncate(c) \/ Write(c) \/ FileDelete(c) \/ Crash(c)
  BY <1>16, <1>9, <1>10, <1>11, <1>12, <1>13
<1> QED BY <1>1, <1>14, <1>15, <1>16 DEF FileNext

(* What FileStorage acknowledged is there, whole, until the next change of  *)
(* it is called (file.rs upload, download, delete): for any number of       *)
(* clients and paths, wherever a client crashes.                            *)
THEOREM FilesHold == FileSpec => []FileAcknowledgedHolds
<1>1. FileInv => FileAcknowledgedHolds
  BY DEF FileInv, Settled, ReadsOK, ReadOK, FileAcknowledgedHolds
<1> QED BY <1>1, FileInvInit, FileNextKeeps, PTL DEF FileSpec

-----------------------------------------------------------------------------
(* S3Store: inductive invariant S3Inv.                                     *)

(* The object key of a slot (S3Storage::object_key).                        *)
KeyOf(s) == s[1] \o s[2]

(* What a key of the bucket holds.                                          *)
Stored == S3Data \cup {Absent}

\* The methods of the five calls.
Methods == {"PUT", "DELETE", "GET", "HEAD", "LIST"}

(* A request on its way is one that a client sent: numbered before the      *)
(* count of calls, and with the key of its slot if it is about an object.   *)
RequestOK(r, n) ==
    /\ r.op \in Methods
    /\ r.client \in S3Client /\ r.n \in Nat /\ r.n < n
    /\ r.op # "LIST" => (r.slot \in Slot /\ r.key = KeyOf(r.slot) /\ r.body \in Stored)

(* No two requests on their way have the same number.                       *)
RequestsOK(N, n) ==
    /\ \A r \in N : RequestOK(r, n)
    /\ \A r, q \in N : r.n = q.n => r = q

(* The fields of a call under way.                                          *)
CallShape(k) ==
    k = [op |-> k.op, n |-> k.n, path |-> k.path, slot |-> k.slot, body |-> k.body,
         reply |-> k.reply, got |-> k.got, keys |-> k.keys, may |-> k.may, seen |-> k.seen]

\* A call under way, and its request if that is still on the way.
CallOK(k, N, c, n) ==
    /\ CallShape(k)
    /\ k.n \in Nat /\ k.n < n
    /\ k.op # "LIST" => k.slot \in Slot
    /\ Changes(k.op) => k.body \in k.may
    /\ \A r \in N : r.n = k.n => (r.client = c /\ r.op = k.op /\ r.slot = k.slot /\ r.body = k.body)

(* All calls under way are of that kind.                                    *)
CallsOK(C, N, n) == \A c \in S3Client : C[c] # S3Idle => CallOK(C[c], N, c, n)

(* The request is a change of the slot.                                     *)
Pending(r, s) == Changes(r.op) /\ r.slot = s

(* The history allows what the bucket holds, and whatever a request on its  *)
(* way makes of it.                                                         *)
HistoryOK(O, N, K) ==
    \A s \in Slot : /\ O[KeyOf(s)] \in K[s]
                    /\ \A r \in N : Pending(r, s) => r.body \in K[s]

(* What a call was told it may meet covers every change on the way to its   *)
(* object, what it read, and, for a read at once and for a change from its  *)
(* success on, what the bucket holds.                                       *)
MayOK(k, O, N) ==
    k.op # "LIST" =>
        /\ \A r \in N : Pending(r, k.slot) => r.body \in k.may
        /\ (Changes(k.op) => k.reply \in {"2xx", "404"}) => O[KeyOf(k.slot)] \in k.may
        /\ (k.op = "GET" /\ k.reply = "2xx") => k.got \in k.may

(* That is so for all calls under way.                                      *)
MaysOK(C, O, N) == \A c \in S3Client : C[c] # S3Idle => MayOK(C[c], O, N)

(* A download returned what it may have met.                                *)
GetOK(r) == (r.op = "GET" /\ r.ok) => r.data \in r.may

(* That is so for all results.                                              *)
GetsOK(R) == \A c \in S3Client : GetOK(R[c])

(* The types of the state of S3Store.                                       *)
S3TypeOK ==
    /\ objects \in [Key -> Stored]
    /\ s3Call = [c \in S3Client |-> s3Call[c]]
    /\ s3Result = [c \in S3Client |-> s3Result[c]]
    /\ possible = [s \in Slot |-> possible[s]]
    /\ s3Calls \in Nat

(* The inductive invariant of S3Store.  S3AcknowledgedHolds is not          *)
(* inductive by itself: a request that outlived its call changes the object *)
(* after later calls were acknowledged, so what is on the way has to be     *)
(* allowed too, by the history and by every call that will narrow it.       *)
S3Inv ==
    /\ S3TypeOK
    /\ RequestsOK(net, s3Calls)
    /\ CallsOK(s3Call, net, s3Calls)
    /\ HistoryOK(objects, net, possible)
    /\ MaysOK(s3Call, objects, net)
    /\ GetsOK(s3Result)

(* A common prefix of two concatenations can be cancelled.                  *)
LEMMA Cancel ==
    ASSUME NEW A, NEW B, NEW a \in Seq(A), NEW p \in Seq(B), NEW q \in Seq(B), a \o p = a \o q
    PROVE  p = q
<1> DEFINE S == A \cup B
<1>0. a \in Seq(S) /\ p \in Seq(S) /\ q \in Seq(S) OBVIOUS
<1> HIDE DEF S
<1>1. Len(p) = Len(q)
  <2>1. Len(a \o p) = Len(a) + Len(p) OBVIOUS
  <2>2. Len(a \o q) = Len(a) + Len(q) OBVIOUS
  <2> QED BY <2>1, <2>2
<1>2. \A i \in 1 .. Len(p) : p[i] = q[i]
  <2> TAKE i \in 1 .. Len(p)
  <2>0. Len(a) \in Nat /\ Len(p) \in Nat OBVIOUS
  <2>1. (a \o p)[Len(a) + i] = p[i] BY <1>0, <2>0, ConcatProperties
  <2>2. (a \o q)[Len(a) + i] = q[i] BY <1>0, <1>1, <2>0, ConcatProperties
  <2> QED BY <2>1, <2>2
<1> QED BY <1>1, <1>2

(* A slot has one of the bucket's keys.                                     *)
LEMMA SlotKey == ASSUME NEW s \in Slot PROVE KeyOf(s) \in Key
<1>1. PICK c \in S3Client, p \in S3Path : s = <<PrefixOf[c], p>> BY DEF Slot
<1>2. KeyOf(s) = ObjectKey(c, p) BY <1>1 DEF KeyOf, ObjectKey
<1> QED BY <1>2 DEF Key

(* Two slots never share a key (S3Storage::object_key), given that no       *)
(* client's paths reach into another's prefix.                              *)
LEMMA KeyInjective == ASSUME NEW s \in Slot, NEW t \in Slot, KeyOf(s) = KeyOf(t) PROVE s = t
<1>1. PICK c \in S3Client, p \in S3Path : s = <<PrefixOf[c], p>> BY DEF Slot
<1>2. PICK d \in S3Client, q \in S3Path : t = <<PrefixOf[d], q>> BY DEF Slot
<1>3. PrefixOf[c] \o p = PrefixOf[d] \o q BY <1>1, <1>2 DEF KeyOf
<1>4. PrefixOf[c] = PrefixOf[d] BY <1>3, S3Assumption
<1> DEFINE A == UNION {ToSet(PrefixOf[x]) : x \in S3Client}
           B == UNION {ToSet(x) : x \in S3Path}
<1>5. PrefixOf[c] \in Seq(A) /\ p \in Seq(B) /\ q \in Seq(B)
  <2>1. PrefixOf \in [S3Client -> Seq(A)] /\ S3Path \subseteq Seq(B) BY S3Assumption
  <2> HIDE DEF A, B
  <2> QED BY <2>1
<1> HIDE DEF A, B
<1>6. p = q BY <1>3, <1>4, <1>5, Cancel
<1> QED BY <1>1, <1>2, <1>4, <1>6

(* The empty bucket satisfies the invariant.                                *)
LEMMA S3InvInit == S3Init => S3Inv
<1> SUFFICES ASSUME S3Init PROVE S3Inv OBVIOUS
<1>1. S3TypeOK BY DEF S3Init, S3TypeOK, Stored
<1>2. \A c \in S3Client : s3Call[c] = S3Idle BY DEF S3Init
<1>3. RequestsOK(net, s3Calls) BY DEF S3Init, RequestsOK
<1>4. CallsOK(s3Call, net, s3Calls) BY <1>2 DEF CallsOK
<1>5. HistoryOK(objects, net, possible) BY SlotKey DEF S3Init, HistoryOK
<1>6. MaysOK(s3Call, objects, net) BY <1>2 DEF MaysOK
<1>7. GetsOK(s3Result) BY DEF S3Init, GetsOK, GetOK, S3NoResult
<1> QED BY <1>1, <1>3, <1>4, <1>5, <1>6, <1>7 DEF S3Inv

\* A call ends, with its acknowledgement or without.
LEMMA S3EndKeeps ==
    ASSUME S3Inv, NEW c \in S3Client, s3Call[c] # S3Idle,
           NEW res, S3Return(c, res), GetOK(res),
           \/ possible' = possible
           \/ Changes(s3Call[c].op) /\ s3Call[c].reply \in {"2xx", "404"} /\ Acknowledge(c)
    PROVE  S3Inv'
<1>0. /\ S3TypeOK /\ CallOK(s3Call[c], net, c, s3Calls) /\ MayOK(s3Call[c], objects, net)
      /\ HistoryOK(objects, net, possible)
  BY DEF S3Inv, CallsOK, MaysOK
<1>1. /\ objects' = objects /\ net' = net /\ s3Calls' = s3Calls
      /\ s3Call' = [s3Call EXCEPT ![c] = S3Idle] /\ s3Result' = [s3Result EXCEPT ![c] = res]
  BY DEF S3Return
<1>2. s3Call'[c] = S3Idle /\ \A x \in S3Client \ {c} : s3Call'[x] = s3Call[x]
  BY <1>0, <1>1 DEF S3TypeOK
<1>3. s3Call' = [x \in S3Client |-> s3Call'[x]] /\ s3Result' = [x \in S3Client |-> s3Result'[x]]
  BY <1>0, <1>1 DEF S3TypeOK
<1>4. CallsOK(s3Call', net, s3Calls) BY <1>2 DEF S3Inv, CallsOK
<1>5. MaysOK(s3Call', objects, net) BY <1>2 DEF S3Inv, MaysOK
<1>6. GetsOK(s3Result')
  <2> SUFFICES ASSUME NEW x \in S3Client PROVE GetOK(s3Result'[x]) BY DEF GetsOK
  <2>1. s3Result'[x] = IF x = c THEN res ELSE s3Result[x] BY <1>0, <1>1 DEF S3TypeOK
  <2>2. GetOK(s3Result[x]) BY DEF S3Inv, GetsOK
  <2> QED BY <2>1, <2>2
<1>7. HistoryOK(objects, net, possible') /\ possible' = [s \in Slot |-> possible'[s]]
  <2>1. CASE possible' = possible BY <2>1, <1>0 DEF S3TypeOK
  <2>2. CASE Changes(s3Call[c].op) /\ s3Call[c].reply \in {"2xx", "404"} /\ Acknowledge(c)
    <3> DEFINE t == s3Call[c].slot
               m == s3Call[c].may
    <3>1. possible' = [possible EXCEPT ![t] = possible[t] \cap m] BY <2>2 DEF Acknowledge
    <3>2. /\ t \in Slot
          /\ objects[KeyOf(t)] \in m
          /\ \A r \in net : Pending(r, t) => r.body \in m
      BY <2>2, <1>0 DEF CallOK, MayOK, Changes
    <3> HIDE DEF t, m
    <3>3. \A s \in Slot : possible'[s] = IF s = t THEN possible[s] \cap m ELSE possible[s]
      BY <3>1, <3>2, <1>0 DEF S3TypeOK
    <3>4. possible' = [s \in Slot |-> possible'[s]] BY <3>1, <1>0 DEF S3TypeOK
    <3>5. HistoryOK(objects, net, possible') BY <3>2, <3>3, <1>0 DEF HistoryOK
    <3> QED BY <3>4, <3>5
  <2> QED BY <2>1, <2>2
<1>8. S3TypeOK' BY <1>0, <1>1, <1>3, <1>7 DEF S3TypeOK
<1> QED BY <1>1, <1>4, <1>5, <1>6, <1>7, <1>8 DEF S3Inv

(* A request that is carried out, or not, leaves every object as it was or, *)
(* if it is a change of it, with its content.                               *)
LEMMA CarriedOut ==
    ASSUME S3Inv, NEW r \in net, objects' \in {objects, Carried(r)}
    PROVE  /\ objects' \in [Key -> Stored]
           /\ \A s \in Slot : \/ objects'[KeyOf(s)] = objects[KeyOf(s)]
                              \/ Pending(r, s) /\ objects'[KeyOf(s)] = r.body
           /\ \A s \in Slot : (objects' = Carried(r) /\ Pending(r, s)) => objects'[KeyOf(s)] = r.body
<1>0. S3TypeOK /\ RequestOK(r, s3Calls) BY DEF S3Inv, RequestsOK
<1>1. CASE Changes(r.op) /\ objects' = Carried(r)
  <2>1. r.slot \in Slot /\ r.key = KeyOf(r.slot) /\ r.body \in Stored
    BY <1>0, <1>1 DEF RequestOK, Changes
  <2>2. objects' = [objects EXCEPT ![r.key] = r.body] BY <1>1 DEF Carried
  <2>3. \A k \in Key : objects'[k] = IF k = r.key THEN r.body ELSE objects[k]
    BY <2>2, <1>0 DEF S3TypeOK
  <2>4. objects' \in [Key -> Stored] BY <2>1, <2>2, <1>0 DEF S3TypeOK
  <2>5. \A s \in Slot : KeyOf(s) \in Key /\ (KeyOf(s) = r.key => s = r.slot)
    BY <2>1, SlotKey, KeyInjective
  <2> QED BY <2>1, <2>3, <2>4, <2>5, <1>1 DEF Pending
<1>2. CASE objects' = objects /\ ~ (Changes(r.op) /\ objects' = Carried(r))
  BY <1>0, <1>2 DEF S3TypeOK, Pending
<1>3. CASE ~ Changes(r.op)
  <2>1. objects' = objects BY <1>3 DEF Carried
  <2> QED BY <2>1, <1>0, <1>3 DEF S3TypeOK, Pending
<1> QED BY <1>1, <1>2, <1>3

(* What is allowed for the requests on the way stays allowed when one of    *)
(* them is carried out, answered or lost.                                   *)
LEMMA LandKeeps ==
    ASSUME S3Inv, NEW r \in net, net' = net \ {r}, objects' \in {objects, Carried(r)}
    PROVE  /\ RequestsOK(net', s3Calls)
           /\ HistoryOK(objects', net', possible)
           /\ \A k : k.slot \in Slot /\ MayOK(k, objects, net) => MayOK(k, objects', net')
<1>0. /\ \A s \in Slot : \/ objects'[KeyOf(s)] = objects[KeyOf(s)]
                         \/ Pending(r, s) /\ objects'[KeyOf(s)] = r.body
  BY CarriedOut
<1>1. RequestsOK(net', s3Calls) BY DEF S3Inv, RequestsOK
<1>2. HistoryOK(objects', net', possible)
  BY <1>0 DEF S3Inv, HistoryOK
<1>3. ASSUME NEW k, k.slot \in Slot, MayOK(k, objects, net)
      PROVE  MayOK(k, objects', net')
  BY <1>0, <1>3 DEF MayOK
<1> QED BY <1>1, <1>2, <1>3

(* A request leaves the network unanswered, carried out or not.             *)
LEMMA LoseKeeps ==
    ASSUME S3Inv, NEW r \in net, Lose(r)
    PROVE  S3Inv'
<1>1. /\ net' = net \ {r} /\ objects' \in {objects, Carried(r)} /\ s3Call' = s3Call
      /\ s3Result' = s3Result /\ possible' = possible /\ s3Calls' = s3Calls
  BY DEF Lose
<1>2. S3TypeOK'
  <2>1. objects' \in [Key -> Stored] BY <1>1, CarriedOut
  <2> QED BY <1>1, <2>1 DEF S3Inv, S3TypeOK
<1>3. CallsOK(s3Call, net', s3Calls) BY <1>1 DEF S3Inv, CallsOK, CallOK
<1>4. MaysOK(s3Call, objects', net')
  <2> SUFFICES ASSUME NEW x \in S3Client, s3Call[x] # S3Idle PROVE MayOK(s3Call[x], objects', net')
    BY DEF MaysOK
  <2>1. CallOK(s3Call[x], net, x, s3Calls) /\ MayOK(s3Call[x], objects, net)
    BY DEF S3Inv, CallsOK, MaysOK
  <2> DEFINE k == s3Call[x]
  <2>2. (k.op # "LIST" => k.slot \in Slot) /\ MayOK(k, objects, net) BY <2>1 DEF CallOK
  <2> HIDE DEF k
  <2>3. MayOK(k, objects', net') BY <2>2, <1>1, LandKeeps DEF MayOK
  <2> QED BY <2>3 DEF k
<1>5. RequestsOK(net', s3Calls) /\ HistoryOK(objects', net', possible) BY <1>1, LandKeeps
<1>6. GetsOK(s3Result) BY DEF S3Inv
<1> QED BY <1>1, <1>2, <1>3, <1>4, <1>5, <1>6 DEF S3Inv

(* What a response changes of a call.                                       *)
LEMMA Replied ==
    ASSUME NEW k, CallShape(k), NEW a, NEW g, NEW ks,
           NEW z, z = [op |-> k.op, n |-> k.n, path |-> k.path, slot |-> k.slot, body |-> k.body,
                       reply |-> a, got |-> g, keys |-> ks, may |-> k.may, seen |-> k.seen]
    PROVE  /\ CallShape(z) /\ z # S3Idle
           /\ z.op = k.op /\ z.n = k.n /\ z.slot = k.slot /\ z.body = k.body
           /\ z.reply = a /\ z.got = g /\ z.may = k.may
<1>1. z = [op |-> k.op, n |-> k.n, path |-> k.path, slot |-> k.slot, body |-> k.body,
           reply |-> a, got |-> g, keys |-> ks, may |-> k.may, seen |-> k.seen]
  OBVIOUS
<1>2. /\ z.op = k.op /\ z.n = k.n /\ z.path = k.path /\ z.slot = k.slot /\ z.body = k.body
      /\ z.reply = a /\ z.got = g /\ z.keys = ks /\ z.may = k.may /\ z.seen = k.seen
  BY <1>1
<1>3. z # S3Idle
  <2>1. "n" \in DOMAIN z BY <1>1
  <2>2. "n" \notin DOMAIN S3Idle BY DEF S3Idle
  <2> QED BY <2>1, <2>2
<1> QED BY <1>1, <1>2, <1>3 DEF CallShape

(* A response reaches only the call that sent the request: a call that gave *)
(* up, or a later call of the same client, is left alone.                   *)
LEMMA ReplyCalls ==
    ASSUME S3Inv, NEW r \in net, NEW a, NEW g, NEW ks, Reply(r, a, g, ks)
    PROVE  /\ s3Call' = [x \in S3Client |-> s3Call'[x]]
           /\ \A x \in S3Client : s3Call[x] = S3Idle => s3Call'[x] = S3Idle
           /\ \A x \in S3Client : s3Call[x] # S3Idle =>
                /\ s3Call'[x] # S3Idle /\ CallShape(s3Call'[x])
                /\ s3Call'[x].op = s3Call[x].op /\ s3Call'[x].n = s3Call[x].n
                /\ s3Call'[x].slot = s3Call[x].slot /\ s3Call'[x].body = s3Call[x].body
                /\ s3Call'[x].may = s3Call[x].may
                /\ s3Call'[x].reply = (IF s3Call[x].n = r.n THEN a ELSE s3Call[x].reply)
                /\ s3Call'[x].got = (IF s3Call[x].n = r.n THEN g ELSE s3Call[x].got)
<1> DEFINE c == r.client
           z == [s3Call[c] EXCEPT !.reply = a, !.got = g, !.keys = ks]
<1>0. S3TypeOK /\ c \in S3Client BY DEF S3Inv, RequestsOK, RequestOK
<1>1. \A x \in S3Client : s3Call[x] # S3Idle =>
         CallShape(s3Call[x]) /\ (s3Call[x].n = r.n => x = c)
  BY DEF S3Inv, CallsOK, CallOK
<1>2. CASE s3Call[c] # S3Idle /\ s3Call[c].n = r.n
  <2>1. s3Call' = [s3Call EXCEPT ![c].reply = a, ![c].got = g, ![c].keys = ks] BY <1>2 DEF Reply
  <2>2. s3Call' = [s3Call EXCEPT ![c] = z] BY <2>1, <1>0 DEF S3TypeOK
  <2>3. /\ CallShape(z) /\ z # S3Idle
        /\ z.op = s3Call[c].op /\ z.n = s3Call[c].n /\ z.slot = s3Call[c].slot /\ z.body = s3Call[c].body
        /\ z.reply = a /\ z.got = g /\ z.may = s3Call[c].may
    <3> DEFINE k == s3Call[c]
    <3>1. CallShape(k) BY <1>0, <1>1, <1>2
    <3>2. z = [k EXCEPT !.reply = a, !.got = g, !.keys = ks] OBVIOUS
    <3> HIDE DEF z, k
    <3>2a. z = [op |-> k.op, n |-> k.n, path |-> k.path, slot |-> k.slot, body |-> k.body,
                reply |-> a, got |-> g, keys |-> ks, may |-> k.may, seen |-> k.seen]
      BY <3>1, <3>2 DEF CallShape
    <3>3. /\ CallShape(z) /\ z # S3Idle
          /\ z.op = k.op /\ z.n = k.n /\ z.slot = k.slot /\ z.body = k.body
          /\ z.reply = a /\ z.got = g /\ z.may = k.may
      BY <3>1, <3>2a, Replied
    <3> QED BY <3>3 DEF k
  <2> HIDE DEF z, c
  <2>4. s3Call'[c] = z /\ \A x \in S3Client \ {c} : s3Call'[x] = s3Call[x] BY <2>2, <1>0 DEF S3TypeOK
  <2>5. s3Call' = [x \in S3Client |-> s3Call'[x]] BY <2>2, <1>0 DEF S3TypeOK
  <2>6. ASSUME NEW x \in S3Client, s3Call[x] # S3Idle
        PROVE  /\ s3Call'[x] # S3Idle /\ CallShape(s3Call'[x])
               /\ s3Call'[x].op = s3Call[x].op /\ s3Call'[x].n = s3Call[x].n
               /\ s3Call'[x].slot = s3Call[x].slot /\ s3Call'[x].body = s3Call[x].body
               /\ s3Call'[x].may = s3Call[x].may
               /\ s3Call'[x].reply = (IF s3Call[x].n = r.n THEN a ELSE s3Call[x].reply)
               /\ s3Call'[x].got = (IF s3Call[x].n = r.n THEN g ELSE s3Call[x].got)
    <3>1. CASE x = c BY <3>1, <2>3, <2>4, <1>2
    <3>2. CASE x # c BY <3>2, <2>4, <2>6, <1>1
    <3> QED BY <3>1, <3>2
  <2> QED BY <2>4, <2>5, <2>6, <1>2
<1>3. CASE ~ (s3Call[c] # S3Idle /\ s3Call[c].n = r.n)
  <2>1. s3Call' = s3Call BY <1>3 DEF Reply
  <2>2. \A x \in S3Client : s3Call[x] # S3Idle => s3Call[x].n # r.n BY <1>1, <1>3
  <2> HIDE DEF z, c
  <2> QED BY <2>1, <2>2, <1>0, <1>1 DEF S3TypeOK
<1> QED BY <1>2, <1>3

(* The service answers a request, and an answer that says a change was      *)
(* carried out is true; late or not, nothing lands that is not allowed.     *)
LEMMA ReplyKeeps ==
    ASSUME S3Inv, NEW r \in net, NEW a, NEW g, NEW ks, Reply(r, a, g, ks),
           objects' \in {objects, Carried(r)},
           (Changes(r.op) /\ a \in {"2xx", "404"}) => objects' = Carried(r),
           (r.op = "GET" /\ a = "2xx") => g = objects[r.key]
    PROVE  S3Inv'
<1>0. /\ S3TypeOK /\ RequestsOK(net, s3Calls) /\ CallsOK(s3Call, net, s3Calls)
      /\ RequestOK(r, s3Calls)
  BY DEF S3Inv, RequestsOK
<1>1. net' = net \ {r} /\ possible' = possible /\ s3Calls' = s3Calls /\ s3Result' = s3Result BY DEF Reply
<1>2. /\ s3Call' = [x \in S3Client |-> s3Call'[x]]
      /\ \A x \in S3Client : s3Call[x] = S3Idle => s3Call'[x] = S3Idle
      /\ \A x \in S3Client : s3Call[x] # S3Idle =>
           /\ s3Call'[x] # S3Idle /\ CallShape(s3Call'[x])
           /\ s3Call'[x].op = s3Call[x].op /\ s3Call'[x].n = s3Call[x].n
           /\ s3Call'[x].slot = s3Call[x].slot /\ s3Call'[x].body = s3Call[x].body
           /\ s3Call'[x].may = s3Call[x].may
           /\ s3Call'[x].reply = (IF s3Call[x].n = r.n THEN a ELSE s3Call[x].reply)
           /\ s3Call'[x].got = (IF s3Call[x].n = r.n THEN g ELSE s3Call[x].got)
  BY ReplyCalls
<1>3. /\ objects' \in [Key -> Stored]
      /\ \A s \in Slot : (objects' = Carried(r) /\ Pending(r, s)) => objects'[KeyOf(s)] = r.body
  BY CarriedOut
<1>4. S3TypeOK' BY <1>0, <1>1, <1>2, <1>3 DEF S3TypeOK
<1>5. RequestsOK(net', s3Calls) /\ HistoryOK(objects', net', possible) BY <1>1, LandKeeps
<1>6. CallsOK(s3Call', net', s3Calls)
  <2> SUFFICES ASSUME NEW x \in S3Client, s3Call'[x] # S3Idle PROVE CallOK(s3Call'[x], net', x, s3Calls)
    BY DEF CallsOK
  <2>1. s3Call[x] # S3Idle BY <1>2
  <2>2. CallOK(s3Call[x], net, x, s3Calls) BY <2>1, <1>0 DEF CallsOK
  <2> QED BY <2>1, <2>2, <1>1, <1>2 DEF CallOK
<1>7. MaysOK(s3Call', objects', net')
  <2> SUFFICES ASSUME NEW x \in S3Client, s3Call'[x] # S3Idle PROVE MayOK(s3Call'[x], objects', net')
    BY DEF MaysOK
  <2> DEFINE k == s3Call[x]
             z == s3Call'[x]
  <2>1. s3Call[x] # S3Idle BY <1>2
  <2>2. CallOK(k, net, x, s3Calls) /\ MayOK(k, objects, net) BY <2>1, <1>0 DEF CallsOK, S3Inv, MaysOK
  <2>3. /\ z.op = k.op /\ z.slot = k.slot /\ z.may = k.may
        /\ z.reply = (IF k.n = r.n THEN a ELSE k.reply)
        /\ z.got = (IF k.n = r.n THEN g ELSE k.got)
    BY <2>1, <1>2
  <2> HIDE DEF k, z
  <2>4. k.op # "LIST" => k.slot \in Slot /\ MayOK(k, objects', net')
    BY <2>2, <1>1, LandKeeps DEF CallOK
  <2>5. ASSUME k.op # "LIST", k.n = r.n, Changes(k.op), a \in {"2xx", "404"}
        PROVE  objects'[KeyOf(k.slot)] \in k.may
    <3>1. r.op = k.op /\ r.slot = k.slot /\ r.body = k.body /\ k.body \in k.may BY <2>2, <2>5 DEF CallOK
    <3>2. objects' = Carried(r) /\ Pending(r, k.slot) BY <3>1, <2>5 DEF Pending
    <3>3. objects'[KeyOf(k.slot)] = r.body BY <3>2, <2>4, <2>5, <1>3
    <3> QED BY <3>1, <3>3
  <2>6. ASSUME k.op = "GET", k.n = r.n, a = "2xx"
        PROVE  g \in k.may
    <3>1. r.op = "GET" /\ r.slot = k.slot BY <2>2, <2>6 DEF CallOK
    <3>2. g = objects[KeyOf(k.slot)] BY <3>1, <2>6, <1>0 DEF RequestOK
    <3>3. ~ Changes(k.op) BY <2>6 DEF Changes
    <3> QED BY <3>2, <3>3, <2>2, <2>6 DEF MayOK
  <2>7. MayOK(z, objects', net')
    <3> SUFFICES ASSUME k.op # "LIST"
                 PROVE  /\ \A q \in net' : Pending(q, k.slot) => q.body \in k.may
                        /\ (Changes(k.op) => z.reply \in {"2xx", "404"}) => objects'[KeyOf(k.slot)] \in k.may
                        /\ (k.op = "GET" /\ z.reply = "2xx") => z.got \in k.may
      BY <2>3 DEF MayOK
    <3>1. CASE k.n = r.n
      <4>1. z.reply = a /\ z.got = g BY <3>1, <2>3
      <4>2. ~ Changes(k.op) => objects'[KeyOf(k.slot)] \in k.may BY <2>4 DEF MayOK
      <4>3. \A q \in net' : Pending(q, k.slot) => q.body \in k.may BY <2>4 DEF MayOK
      <4> QED BY <3>1, <4>1, <4>2, <4>3, <2>5, <2>6
    <3>2. CASE k.n # r.n
      <4>1. z.reply = k.reply /\ z.got = k.got BY <3>2, <2>3
      <4> QED BY <4>1, <2>4 DEF MayOK
    <3> QED BY <3>1, <3>2
  <2> QED BY <2>7 DEF z
<1>8. GetsOK(s3Result) BY DEF S3Inv
<1> QED BY <1>1, <1>4, <1>5, <1>6, <1>7, <1>8 DEF S3Inv

(* What another call of a change makes of a call.                           *)
LEMMA Noted ==
    ASSUME NEW k, CallShape(k), NEW m, NEW v,
           NEW z, z = [op |-> k.op, n |-> k.n, path |-> k.path, slot |-> k.slot, body |-> k.body,
                       reply |-> k.reply, got |-> k.got, keys |-> k.keys, may |-> m, seen |-> v]
    PROVE  /\ CallShape(z) /\ z # S3Idle
           /\ z.op = k.op /\ z.n = k.n /\ z.slot = k.slot /\ z.body = k.body
           /\ z.reply = k.reply /\ z.got = k.got /\ z.may = m
<1>1. z = [op |-> k.op, n |-> k.n, path |-> k.path, slot |-> k.slot, body |-> k.body,
           reply |-> k.reply, got |-> k.got, keys |-> k.keys, may |-> m, seen |-> v]
  OBVIOUS
<1>2. /\ z.op = k.op /\ z.n = k.n /\ z.path = k.path /\ z.slot = k.slot /\ z.body = k.body
      /\ z.reply = k.reply /\ z.got = k.got /\ z.keys = k.keys /\ z.may = m /\ z.seen = v
  BY <1>1
<1>3. z # S3Idle
  <2>1. "n" \in DOMAIN z BY <1>1
  <2>2. "n" \notin DOMAIN S3Idle BY DEF S3Idle
  <2> QED BY <2>1, <2>2
<1> QED BY <1>1, <1>2, <1>3 DEF CallShape

(* A new call has a number of its own; a change is allowed for by the       *)
(* history and by the other calls on its object before it can land.         *)
LEMMA SendKeeps ==
    ASSUME S3Inv, NEW c \in S3Client, NEW op \in Methods, NEW path, NEW d \in Stored,
           op # "LIST" => path \in S3Path, Send(c, op, path, d)
    PROVE  S3Inv'
<1> DEFINE s == <<PrefixOf[c], path>>
           req == [slot |-> s, client |-> c, n |-> s3Calls, op |-> op, key |-> ObjectKey(c, path), body |-> d]
           late == {r.body : r \in {q \in net : q.slot = s /\ Changes(q.op)}}
           may == IF Changes(op) THEN {d} \cup late ELSE IF s \in Slot THEN possible[s] ELSE {}
           seen == IF op = "LIST" THEN {t \in Slot : Absent \notin possible[t]} ELSE {}
           new == [op |-> op, n |-> s3Calls, path |-> path, slot |-> s, body |-> d,
                   reply |-> "none", got |-> Absent, keys |-> {}, may |-> may, seen |-> seen]
           wider(x) == IF s3Call[x].slot = s THEN s3Call[x].may \cup {d} ELSE s3Call[x].may
           kept(x) == IF d = Absent THEN s3Call[x].seen \ {s} ELSE s3Call[x].seen
           noted(x) == [s3Call[x] EXCEPT !.may = wider(x), !.seen = kept(x)]
<1>0. /\ S3TypeOK /\ RequestsOK(net, s3Calls) /\ CallsOK(s3Call, net, s3Calls)
      /\ HistoryOK(objects, net, possible) /\ MaysOK(s3Call, objects, net) /\ GetsOK(s3Result)
      /\ s3Calls \in Nat /\ s3Call[c] = S3Idle
  BY DEF S3Inv, S3TypeOK, Send
<1>1. /\ s3Calls' = s3Calls + 1 /\ net' = net \cup {req} /\ objects' = objects
      /\ possible' = (IF Changes(op) THEN [possible EXCEPT ![s] = @ \cup {d}] ELSE possible)
      /\ s3Result' = [s3Result EXCEPT ![c] = S3NoResult]
  BY DEF Send
<1>2. s3Call' = [x \in S3Client |-> IF x = c THEN new
                   ELSE IF Changes(op) /\ s3Call[x] # S3Idle THEN noted(x) ELSE s3Call[x]]
  BY DEF Send
<1>3. /\ req.slot = s /\ req.client = c /\ req.n = s3Calls /\ req.op = op /\ req.body = d
      /\ req.key = ObjectKey(c, path)
  OBVIOUS
<1>4. /\ new.op = op /\ new.n = s3Calls /\ new.slot = s /\ new.body = d /\ new.reply = "none"
      /\ new.may = may /\ CallShape(new) /\ new # S3Idle
  <2> HIDE DEF may, seen
  <2>1. /\ new.op = op /\ new.n = s3Calls /\ new.slot = s /\ new.body = d /\ new.reply = "none"
        /\ new.may = may
    OBVIOUS
  <2>2. CallShape(new) BY DEF CallShape
  <2>3. new # S3Idle
    <3>1. "n" \in DOMAIN new OBVIOUS
    <3>2. "n" \notin DOMAIN S3Idle BY DEF S3Idle
    <3> QED BY <3>1, <3>2
  <2> QED BY <2>1, <2>2, <2>3
<1>5. KeyOf(s) = ObjectKey(c, path) BY DEF KeyOf, ObjectKey
<1>6. op # "LIST" => s \in Slot BY DEF Slot
<1>6a. Changes(op) => op # "LIST" BY DEF Changes
<1>7. /\ Changes(op) => d \in may /\ \A r \in net : Pending(r, s) => r.body \in may
      /\ (op # "LIST" /\ ~ Changes(op)) => may = possible[s]
  BY <1>6 DEF Pending
<1>8. ASSUME NEW x \in S3Client, s3Call[x] # S3Idle, NEW z, z = noted(x)
      PROVE  /\ CallShape(z) /\ z # S3Idle /\ z.op = s3Call[x].op /\ z.n = s3Call[x].n
             /\ z.slot = s3Call[x].slot /\ z.body = s3Call[x].body /\ z.reply = s3Call[x].reply
             /\ z.got = s3Call[x].got /\ z.may = wider(x)
  <2> DEFINE k == s3Call[x]
             m == wider(x)
             v == kept(x)
  <2>1. CallShape(k) BY <1>0, <1>8 DEF CallsOK, CallOK
  <2>2. z = [k EXCEPT !.may = m, !.seen = v] BY <1>8
  <2> HIDE DEF k, m, v
  <2>2a. z = [op |-> k.op, n |-> k.n, path |-> k.path, slot |-> k.slot, body |-> k.body,
              reply |-> k.reply, got |-> k.got, keys |-> k.keys, may |-> m, seen |-> v]
    BY <2>1, <2>2 DEF CallShape
  <2>3. /\ CallShape(z) /\ z # S3Idle /\ z.op = k.op /\ z.n = k.n
        /\ z.slot = k.slot /\ z.body = k.body /\ z.reply = k.reply /\ z.got = k.got /\ z.may = m
    BY <2>1, <2>2a, Noted
  <2> QED BY <2>3 DEF k, m
<1>9. /\ s3Call'[c] = new
      /\ \A x \in S3Client \ {c} :
            s3Call'[x] = IF Changes(op) /\ s3Call[x] # S3Idle THEN noted(x) ELSE s3Call[x]
      /\ s3Call' = [x \in S3Client |-> s3Call'[x]]
  <2> HIDE DEF new, noted
  <2> QED BY <1>2
<1>9a. \A x \in S3Client : /\ wider(x) = s3Call[x].may \/ wider(x) = s3Call[x].may \cup {d}
                           /\ s3Call[x].slot = s => d \in wider(x)
  OBVIOUS
<1> HIDE DEF new, noted, wider, kept, may, seen, late
<1>10. \A x \in S3Client \ {c} :
         /\ s3Call[x] = S3Idle => s3Call'[x] = S3Idle
         /\ s3Call[x] # S3Idle =>
              /\ s3Call'[x] # S3Idle /\ CallShape(s3Call'[x])
              /\ s3Call'[x].op = s3Call[x].op /\ s3Call'[x].n = s3Call[x].n
              /\ s3Call'[x].slot = s3Call[x].slot /\ s3Call'[x].body = s3Call[x].body
              /\ s3Call'[x].reply = s3Call[x].reply /\ s3Call'[x].got = s3Call[x].got
              /\ s3Call[x].may \subseteq s3Call'[x].may
              /\ (Changes(op) /\ s3Call[x].slot = s) => d \in s3Call'[x].may
  <2> TAKE x \in S3Client \ {c}
  <2>1. CASE Changes(op) /\ s3Call[x] # S3Idle
    <3>1. s3Call'[x] = noted(x) BY <2>1, <1>9
    <3> DEFINE z == s3Call'[x]
    <3>2. z = noted(x) BY <3>1
    <3> HIDE DEF z
    <3>3. /\ CallShape(z) /\ z # S3Idle /\ z.op = s3Call[x].op /\ z.n = s3Call[x].n
          /\ z.slot = s3Call[x].slot /\ z.body = s3Call[x].body /\ z.reply = s3Call[x].reply
          /\ z.got = s3Call[x].got /\ z.may = wider(x)
      BY <3>2, <2>1, <1>8
    <3>4. s3Call[x].may \subseteq z.may /\ (s3Call[x].slot = s => d \in z.may)
      BY <3>3, <1>9a
    <3> QED BY <3>3, <3>4, <2>1 DEF z
  <2>2. CASE ~ (Changes(op) /\ s3Call[x] # S3Idle)
    <3>1. s3Call'[x] = s3Call[x] BY <2>2, <1>9
    <3>2. s3Call[x] # S3Idle => CallShape(s3Call[x]) BY <1>0 DEF CallsOK, CallOK
    <3> QED BY <3>1, <3>2, <2>2
  <2> QED BY <2>1, <2>2
<1> HIDE DEF req, s
<1>11. /\ possible' = [t \in Slot |-> possible'[t]]
       /\ \A t \in Slot : possible[t] \subseteq possible'[t] /\ (Changes(op) /\ t = s => d \in possible'[t])
  <2>1. CASE ~ Changes(op) BY <2>1, <1>0, <1>1 DEF S3TypeOK
  <2>2. CASE Changes(op)
    <3>1. possible' = [possible EXCEPT ![s] = possible[s] \cup {d}] /\ s \in Slot BY <2>2, <1>1, <1>6, <1>6a
    <3>2. \A t \in Slot : possible'[t] = IF t = s THEN possible[s] \cup {d} ELSE possible[t]
      BY <3>1, <1>0 DEF S3TypeOK
    <3>3. possible' = [t \in Slot |-> possible'[t]] BY <3>1, <1>0 DEF S3TypeOK
    <3> QED BY <3>2, <3>3
  <2> QED BY <2>1, <2>2
<1>12. \A t : Pending(req, t) <=> Changes(op) /\ t = s BY <1>3 DEF Pending
<1>13. S3TypeOK'
  <2>1. s3Result' = [x \in S3Client |-> s3Result'[x]] BY <1>0, <1>1 DEF S3TypeOK
  <2> QED BY <1>0, <1>1, <1>9, <1>11, <2>1 DEF S3TypeOK
<1>14. RequestsOK(net', s3Calls')
  <2>1. RequestOK(req, s3Calls') BY <1>0, <1>1, <1>3, <1>5, <1>6 DEF RequestOK
  <2>2. \A r \in net : RequestOK(r, s3Calls') /\ r.n # s3Calls
    BY <1>0, <1>1 DEF RequestsOK, RequestOK
  <2> QED BY <2>1, <2>2, <1>0, <1>1, <1>3 DEF RequestsOK
<1>15. CallsOK(s3Call', net', s3Calls')
  <2> SUFFICES ASSUME NEW x \in S3Client, s3Call'[x] # S3Idle PROVE CallOK(s3Call'[x], net', x, s3Calls')
    BY DEF CallsOK
  <2>1. CASE x = c
    <3>1. \A r \in net : r.n # s3Calls BY <1>0 DEF RequestsOK, RequestOK
    <3>2. \A r \in net' : r.n = s3Calls => r = req BY <3>1, <1>1
    <3> QED BY <3>2, <2>1, <1>0, <1>1, <1>3, <1>4, <1>6, <1>7, <1>9 DEF CallOK
  <2>2. CASE x # c
    <3>1. s3Call[x] # S3Idle BY <2>2, <1>10
    <3>2. CallOK(s3Call[x], net, x, s3Calls) BY <3>1, <1>0 DEF CallsOK
    <3>3. s3Call[x].n # s3Calls /\ s3Call[x].n < s3Calls' BY <3>2, <1>0, <1>1 DEF CallOK
    <3>4. \A r \in net' : r.n = s3Call[x].n => r \in net BY <3>3, <1>1, <1>3
    <3> QED BY <3>1, <3>2, <3>3, <3>4, <2>2, <1>10 DEF CallOK
  <2> QED BY <2>1, <2>2
<1>16. HistoryOK(objects, net', possible') BY <1>0, <1>1, <1>3, <1>11, <1>12 DEF HistoryOK
<1>17. MaysOK(s3Call', objects, net')
  <2> SUFFICES ASSUME NEW x \in S3Client, s3Call'[x] # S3Idle, s3Call'[x].op # "LIST"
               PROVE  MayOK(s3Call'[x], objects, net')
    BY DEF MaysOK, MayOK
  <2>1. CASE x = c
    <3>1. s3Call'[x] = new /\ op # "LIST" /\ s \in Slot BY <2>1, <1>4, <1>6, <1>9
    <3>2. \A r \in net : Pending(r, s) => r.body \in may
      BY <3>1, <1>0, <1>7 DEF HistoryOK
    <3>3. \A r \in net' : Pending(r, s) => r.body \in may
      BY <3>2, <1>1, <1>3, <1>7, <1>12
    <3>4. ~ Changes(op) => objects[KeyOf(s)] \in may BY <3>1, <1>0, <1>7 DEF HistoryOK
    <3> QED BY <3>1, <3>3, <3>4, <1>4 DEF MayOK
  <2>2. CASE x # c
    <3> DEFINE k == s3Call[x]
               z == s3Call'[x]
    <3>1. /\ k # S3Idle /\ z.op = k.op /\ z.slot = k.slot /\ z.reply = k.reply /\ z.got = k.got
          /\ k.may \subseteq z.may /\ ((Changes(op) /\ k.slot = s) => d \in z.may)
      BY <2>2, <1>10
    <3>2. MayOK(k, objects, net) BY <3>1, <1>0 DEF MaysOK
    <3>3. z.op # "LIST" OBVIOUS
    <3> HIDE DEF k, z
    <3>4. \A r \in net' : Pending(r, k.slot) => r.body \in z.may
      BY <3>1, <3>2, <3>3, <1>1, <1>3, <1>12 DEF MayOK
    <3>5. MayOK(z, objects, net') BY <3>1, <3>2, <3>3, <3>4 DEF MayOK
    <3> QED BY <3>5 DEF z
  <2> QED BY <2>1, <2>2
<1>18. GetsOK(s3Result')
  BY <1>0, <1>1 DEF GetsOK, GetOK, S3NoResult, S3TypeOK
<1> QED BY <1>1, <1>13, <1>14, <1>15, <1>16, <1>17, <1>18 DEF S3Inv

(* A client whose call has a method is not idle.                            *)
LEMMA S3Busy == ASSUME NEW c, s3Call[c].op # "idle" PROVE s3Call[c] # S3Idle
BY DEF S3Idle

(* Every step of S3Store keeps the invariant: a call is sent, its request   *)
(* served, failed or lost, and the call ends.                               *)
LEMMA S3NextKeeps == S3Inv /\ [S3Next]_s3Vars => S3Inv'
<1> SUFFICES ASSUME S3Inv, [S3Next]_s3Vars PROVE S3Inv' OBVIOUS
<1>0. S3TypeOK BY DEF S3Inv
<1>1. CASE UNCHANGED s3Vars
  BY <1>1 DEF S3Inv, S3TypeOK, s3Vars
<1>2. ASSUME NEW c \in S3Client, NEW path \in S3Path, NEW d \in S3Data, Send(c, "PUT", path, d)
      PROVE  S3Inv'
  BY <1>2, SendKeeps DEF Stored, Methods
<1>3. ASSUME NEW c \in S3Client, NEW path \in S3Path, NEW op \in Methods, Send(c, op, path, Absent)
      PROVE  S3Inv'
  BY <1>3, SendKeeps DEF Stored
<1>4. ASSUME NEW c \in S3Client, NEW path, Send(c, "LIST", path, Absent)
      PROVE  S3Inv'
  BY <1>4, SendKeeps DEF Stored, Methods
<1>5. ASSUME NEW r \in net, Serve(r) PROVE S3Inv'
  <2>0. objects' = Carried(r) BY <1>5 DEF Serve
  <2>1. CASE r.op = "PUT"
    <3>1. Reply(r, "2xx", Absent, {}) BY <1>5, <2>1 DEF Serve
    <3> QED BY <3>1, <2>0, <2>1, ReplyKeeps
  <2>2. CASE r.op = "DELETE"
    <3>1. Reply(r, "2xx", Absent, {}) \/ Reply(r, "404", Absent, {}) BY <1>5, <2>2 DEF Serve
    <3> QED BY <3>1, <2>0, <2>2, ReplyKeeps
  <2>3. CASE r.op \in {"GET", "HEAD"}
    <3> DEFINE a == IF objects[r.key] = Absent THEN "404" ELSE "2xx"
               g == objects[r.key]
    <3>1. Reply(r, a, g, {}) BY <1>5, <2>3 DEF Serve
    <3>2. ~ Changes(r.op) /\ g = objects[r.key] BY <2>3 DEF Changes
    <3> HIDE DEF a, g
    <3> QED BY <3>1, <3>2, <2>0, ReplyKeeps
  <2>4. CASE r.op = "LIST"
    <3>1. \E page : Reply(r, "2xx", Absent, page) BY <1>5, <2>4 DEF Serve
    <3>2. ~ Changes(r.op) BY <2>4 DEF Changes
    <3>3. PICK page : Reply(r, "2xx", Absent, page) BY <3>1
    <3> QED BY <3>2, <3>3, <2>0, <2>4, ReplyKeeps
  <2>5. r.op \in Methods BY DEF S3Inv, RequestsOK, RequestOK
  <2> QED BY <2>1, <2>2, <2>3, <2>4, <2>5 DEF Methods
<1>6. ASSUME NEW r \in net, Fail(r) PROVE S3Inv'
  <2>1. Reply(r, "5xx", Absent, {}) /\ objects' \in {objects, Carried(r)} BY <1>6 DEF Fail
  <2> QED BY <2>1, ReplyKeeps
<1>7. ASSUME NEW r \in net, Lose(r) PROVE S3Inv'
  BY <1>7, LoseKeeps
<1>8. ASSUME NEW c \in S3Client, TimeOut(c) PROVE S3Inv'
  <2>1. PICK res : S3Return(c, res) /\ res = [op |-> s3Call[c].op, path |-> s3Call[c].path, ok |-> FALSE]
    BY <1>8 DEF TimeOut
  <2>2. GetOK(res) BY <2>1 DEF GetOK
  <2> QED BY <1>8, <2>1, <2>2, S3EndKeeps DEF TimeOut
<1>9. ASSUME NEW c \in S3Client, S3Upload(c) PROVE S3Inv'
  <2>1. s3Call[c] # S3Idle /\ Changes(s3Call[c].op) BY <1>9, S3Busy DEF S3Upload, Changes
  <2>2. PICK res : S3Return(c, res) /\ res.op = "PUT" BY <1>9 DEF S3Upload
  <2>3. GetOK(res) BY <2>2 DEF GetOK
  <2>4. possible' = possible \/ (s3Call[c].reply \in {"2xx", "404"} /\ Acknowledge(c))
    BY <1>9 DEF S3Upload
  <2> QED BY <2>1, <2>2, <2>3, <2>4, S3EndKeeps
<1>10. ASSUME NEW c \in S3Client, S3Delete(c) PROVE S3Inv'
  <2>1. s3Call[c] # S3Idle /\ Changes(s3Call[c].op) BY <1>10, S3Busy DEF S3Delete, Changes
  <2>2. PICK res : S3Return(c, res) /\ res.op = "DELETE" BY <1>10 DEF S3Delete
  <2>3. GetOK(res) BY <2>2 DEF GetOK
  <2>4. possible' = possible \/ (s3Call[c].reply \in {"2xx", "404"} /\ Acknowledge(c))
    BY <1>10 DEF S3Delete
  <2> QED BY <2>1, <2>2, <2>3, <2>4, S3EndKeeps
<1>11. ASSUME NEW c \in S3Client, S3Download(c) PROVE S3Inv'
  <2>1. s3Call[c] # S3Idle /\ s3Call[c].op = "GET" /\ possible' = possible
    BY <1>11, S3Busy DEF S3Download
  <2>2. MayOK(s3Call[c], objects, net) BY <2>1 DEF S3Inv, MaysOK
  <2> DEFINE g == s3Call[c].got
             m == s3Call[c].may
  <2>3. s3Call[c].reply = "2xx" => g \in m BY <2>1, <2>2 DEF MayOK
  <2>4. PICK res :
          /\ S3Return(c, res)
          /\ \/ g \in m /\ res = [op |-> "GET", path |-> s3Call[c].path, ok |-> TRUE, data |-> g, may |-> m]
             \/ res = [op |-> "GET", path |-> s3Call[c].path, ok |-> FALSE]
    BY <1>11, <2>3 DEF S3Download
  <2> HIDE DEF g, m
  <2>5. GetOK(res) BY <2>4 DEF GetOK
  <2> QED BY <2>1, <2>4, <2>5, S3EndKeeps
<1>12. ASSUME NEW c \in S3Client, S3Exists(c) PROVE S3Inv'
  <2>1. s3Call[c] # S3Idle /\ possible' = possible BY <1>12, S3Busy DEF S3Exists
  <2>2. PICK res : S3Return(c, res) /\ res.op = "HEAD" BY <1>12 DEF S3Exists
  <2>3. GetOK(res) BY <2>2 DEF GetOK
  <2> QED BY <2>1, <2>2, <2>3, S3EndKeeps
<1>13. ASSUME NEW c \in S3Client, S3List(c) PROVE S3Inv'
  <2>1. s3Call[c] # S3Idle /\ possible' = possible BY <1>13, S3Busy DEF S3List
  <2>2. PICK res : S3Return(c, res) /\ res.op = "LIST" BY <1>13 DEF S3List
  <2>3. GetOK(res) BY <2>2 DEF GetOK
  <2> QED BY <2>1, <2>2, <2>3, S3EndKeeps
<1>14. CASE \E c \in S3Client, path \in S3Path :
              \/ \E d \in S3Data : Send(c, "PUT", path, d)
              \/ \E op \in {"GET", "HEAD", "DELETE"} : Send(c, op, path, Absent)
  BY <1>14, <1>2, <1>3 DEF Methods
<1>15. CASE \E c \in S3Client, path \in {SubSeq(p, 1, Len(p) - 1) : p \in S3Path} :
              Send(c, "LIST", path, Absent)
  BY <1>15, <1>4
<1>16. CASE \E r \in net : Serve(r) \/ Fail(r) \/ Lose(r)
  BY <1>16, <1>5, <1>6, <1>7
<1>17. CASE \E c \in S3Client : \/ TimeOut(c) \/ S3Upload(c) \/ S3Download(c)
                                \/ S3Exists(c) \/ S3Delete(c) \/ S3List(c)
  BY <1>17, <1>8, <1>9, <1>10, <1>11, <1>12, <1>13
<1> QED BY <1>1, <1>14, <1>15, <1>16, <1>17 DEF S3Next

(* For any clients, prefixes, paths and number of calls: an object has, and *)
(* a download returns, the content of the last acknowledged change, of one  *)
(* called during it or since, or of one that was still on the way when it   *)
(* was called (s3.rs upload, download, delete).  A timed-out upload that    *)
(* lands after a retry or a delete was acknowledged is among them; anything *)
(* older, or of another prefix, is not.                                     *)
THEOREM ObjectsHold == S3Spec => []S3AcknowledgedHolds
<1>1. S3Inv => S3AcknowledgedHolds
  <2> SUFFICES ASSUME S3Inv PROVE S3AcknowledgedHolds OBVIOUS
  <2>1. ASSUME NEW c \in S3Client, NEW p \in S3Path
        PROVE  objects[ObjectKey(c, p)] \in possible[<<PrefixOf[c], p>>]
    <3> DEFINE s == <<PrefixOf[c], p>>
    <3>1. s \in Slot BY DEF Slot
    <3>2. KeyOf(s) = ObjectKey(c, p) BY DEF KeyOf, ObjectKey
    <3> HIDE DEF s
    <3>3. objects[KeyOf(s)] \in possible[s] BY <3>1 DEF S3Inv, HistoryOK
    <3> QED BY <3>2, <3>3 DEF s
  <2>2. \A c \in S3Client :
          (s3Result[c].op = "GET" /\ s3Result[c].ok) => s3Result[c].data \in s3Result[c].may
    BY DEF S3Inv, GetsOK, GetOK
  <2> QED BY <2>1, <2>2 DEF S3AcknowledgedHolds
<1> QED BY <1>1, S3InvInit, S3NextKeeps, PTL DEF S3Spec

\* Both backends keep what they acknowledged, the bucket up to changes that
\* were on the way when the acknowledged one was called or were called
\* since: any number of clients, paths and contents, in any interleaving of
\* calls, crashes, timeouts and late effects (storage/s3.rs, storage/file.rs).
THEOREM StorageHolds == StorageSpec => []AcknowledgedHolds
BY FilesHold, ObjectsHold, PTL DEF StorageSpec, AcknowledgedHolds


-----------------------------------------------------------------------------
(* AccountRecovery: inductive invariant AccountInv(S).                     *)

(* The identities whose "secret" flag is in S: {TRUE} when only whole       *)
(* identities are backed up.                                                *)
Ids(S) == [kind : {"identity"}, fp : Fingerprints, secret : S]

\* The payload of a slot of a bundle that names a fingerprint.
SealedBy(S, W, m, x, pl, f) ==
    \E id \in Ids(S) : /\ pl = EncryptPayload(m, x, id)
                       /\ id.fp = f
                       /\ <<m, x, id>> \in W

(* The recovery-code slot of a bundle was sealed under a phrase.            *)
CodeOK(S, W, pl, f) == \E s \in Seeds : SealedBy(S, W, "code", Derive("recovery", s), pl, f)
(* The passkey slot of a bundle is empty or was sealed under a passkey.     *)
PasskeyOK(S, W, pl, f) == pl = None \/ \E prf \in Prfs : SealedBy(S, W, "passkey", prf, pl, f)

(* A bundle as the user made it: both slots hold the identity it names.     *)
BundleOK(S, W, b) ==
    /\ b = [kind |-> "bundle", fp |-> b.fp, passkey |-> b.passkey, code |-> b.code]
    /\ CodeOK(S, W, b.code, b.fp)
    /\ PasskeyOK(S, W, b.passkey, b.fp)

(* Backups are sealed under a passkey or under recovery material only.      *)
WrittenOK(W) == \A w \in W : (w[2] \in Prfs \/ \E s \in Seeds : w[2] = Derive("recovery", s))
(* What a recovery gave was sealed for that mechanism and material and is   *)
(* what the bundle names.                                                   *)
GotOK(g, W) ==
    g # None /\ g.identity # None =>
        <<g.by, g.material, g.identity>> \in W /\ g.identity.fp = g.named
(* The master is what from_phrase makes of the phrase typed.                *)
MasterOK(x) == x # None => (x.phrase \in Typed /\ x.key = MasterFromPhrase(x.phrase))
(* A key file holds an identity.                                            *)
KeyFileOK(S, g) == g # None => (g.kind = "gckey" /\ g.key \in Ids(S))

(* The inductive invariant of AccountRecovery: what the server has was made *)
(* by the user, slot by slot.                                               *)
AccountInv(S) ==
    /\ device \in Ids(S) \cup {None}
    /\ draft = None \/ BundleOK(S, written, draft)
    /\ \A b \in uploaded : BundleOK(S, written, b)
    /\ WrittenOK(written)
    /\ GotOK(got, written)
    /\ MasterOK(master)
    /\ KeyFileOK(S, gckey)

(* Nothing is stored yet.                                                   *)
LEMMA AccountInvInit == ASSUME NEW CONSTANT S, AccountInit PROVE AccountInv(S)
<1>1. /\ device = None /\ draft = None /\ uploaded = {} /\ written = {}
      /\ got = None /\ gckey = None /\ master = None
  BY DEF AccountInit
<1>2. WrittenOK({}) /\ GotOK(None, {}) /\ MasterOK(None) /\ KeyFileOK(S, None)
  <2>1. WrittenOK({}) BY DEF WrittenOK
  <2>2. GotOK(None, {}) BY DEF GotOK
  <2>3. MasterOK(None) /\ KeyFileOK(S, None) BY DEF MasterOK, KeyFileOK
  <2> QED BY <2>1, <2>2, <2>3
<1> QED BY <1>1, <1>2 DEF AccountInv

(* An identity is not the absence of one.                                   *)
LEMMA IdsShape == ASSUME NEW S, NEW i \in Ids(S) PROVE i # None /\ i.kind = "identity"
BY DEF Ids, None

(* Whole identities of one fingerprint are one identity.                    *)
LEMMA IdsOne ==
    ASSUME NEW i \in Ids({TRUE}), NEW j \in Ids({TRUE}), i.fp = j.fp PROVE i = j
<1>1. /\ i = [kind |-> i.kind, fp |-> i.fp, secret |-> i.secret]
      /\ i.kind = "identity" /\ i.secret = TRUE
  BY DEF Ids
<1>2. /\ j = [kind |-> j.kind, fp |-> j.fp, secret |-> j.secret]
      /\ j.kind = "identity" /\ j.secret = TRUE
  BY DEF Ids
<1> QED BY <1>1, <1>2, Zenon

(* A bundle stays good when more is sealed.                                 *)
LEMMA MoreWritten ==
    ASSUME NEW S, NEW W, NEW V, W \subseteq V, NEW b, BundleOK(S, W, b)
    PROVE  BundleOK(S, V, b)
BY DEF BundleOK, CodeOK, PasskeyOK, SealedBy

(* A payload that opens was sealed for the mechanism and the material that  *)
(* opened it (decrypt_payload).                                             *)
LEMMA Opened ==
    ASSUME NEW S, NEW W, NEW m \in {"code", "passkey"}, NEW x,
           NEW k \in {"code", "passkey"}, NEW y, NEW f, NEW pl, SealedBy(S, W, k, y, pl, f),
           NEW id, id = DecryptPayload(pl, m, x), id # None
    PROVE  id \in Ids(S) /\ <<m, x, id>> \in W /\ m = k /\ x = y /\ id.fp = f /\ pl = EncryptPayload(m, x, id)
<1>1. PICK i \in Ids(S) : pl = EncryptPayload(k, y, i) /\ i.fp = f /\ <<k, y, i>> \in W BY DEF SealedBy
<1>2. pl.key = <<Context(k), y>> /\ pl.data = i BY <1>1 DEF EncryptPayload
<1>3. pl.key = <<Context(m), x>> /\ id = pl.data BY DEF DecryptPayload
<1>4. Context(k) = Context(m) /\ x = y BY <1>2, <1>3
<1>5. k = m BY <1>4 DEF Context
<1> QED BY <1>1, <1>2, <1>3, <1>4, <1>5

(* A payload opens under what sealed it.                                    *)
LEMMA Opens ==
    ASSUME NEW m, NEW x, NEW id PROVE DecryptPayload(EncryptPayload(m, x, id), m, x) = id
BY DEF DecryptPayload, EncryptPayload

(* Whatever mix of fields the server serves, each slot is empty or was      *)
(* sealed by the user.                                                      *)
LEMMA ServedSlot ==
    ASSUME NEW S, AccountInv(S), NEW pl,
           pl \in {None} \union {x.code : x \in uploaded} \union {x.passkey : x \in uploaded}
    PROVE  pl = None \/ \E k \in {"code", "passkey"} : \E y, f : SealedBy(S, written, k, y, pl, f)
<1>1. CASE pl = None BY <1>1
<1>2. ASSUME NEW x \in uploaded, pl = x.code
      PROVE  \E k \in {"code", "passkey"} : \E y, f : SealedBy(S, written, k, y, pl, f)
  BY <1>2 DEF AccountInv, BundleOK, CodeOK
<1>3. ASSUME NEW x \in uploaded, pl = x.passkey
      PROVE  pl = None \/ \E k \in {"code", "passkey"} : \E y, f : SealedBy(S, written, k, y, pl, f)
  BY <1>3 DEF AccountInv, BundleOK, PasskeyOK
<1> QED BY <1>1, <1>2, <1>3

(* A recovery from any bundle the server puts together gives what the user  *)
(* sealed, or nothing.                                                      *)
LEMMA RecoverKeeps ==
    ASSUME NEW CONSTANT S, AccountInv(S), NEW b \in Served, NEW m \in {"code", "passkey"}, NEW x, NEW res,
           NEW pl \in {b.code, b.passkey},
           res = Accept(DecryptPayload(pl, m, x), b) \/ res = None,
           Recover(b, m, x, res)
    PROVE  AccountInv(S)'
<1>1. pl \in {None} \union {y.code : y \in uploaded} \union {y.passkey : y \in uploaded}
  BY DEF Served
<1>2. pl = None \/ \E k \in {"code", "passkey"} : \E y, f : SealedBy(S, written, k, y, pl, f)
  BY <1>1, ServedSlot
<1>3. res # None => res \in Ids(S) /\ <<m, x, res>> \in written /\ res.fp = b.fp
  <2> SUFFICES ASSUME res # None PROVE res \in Ids(S) /\ <<m, x, res>> \in written /\ res.fp = b.fp OBVIOUS
  <2>1. res = DecryptPayload(pl, m, x) /\ res.fp = b.fp BY DEF Accept
  <2>2. pl # None BY <2>1 DEF DecryptPayload, None
  <2>3. PICK k \in {"code", "passkey"} : \E y, f : SealedBy(S, written, k, y, pl, f) BY <1>2, <2>2
  <2>4. PICK y, f : SealedBy(S, written, k, y, pl, f) BY <2>3
  <2> QED BY <2>1, <2>4, Opened
<1> DEFINE g == [kind |-> "recovery", named |-> b.fp, by |-> m, material |-> x, identity |-> res]
<1>4. /\ device' = res /\ got' = g
      /\ UNCHANGED <<draft, uploaded, written, gckey, master>>
  BY DEF Recover
<1>5. GotOK(g, written) BY <1>3 DEF GotOK
<1> HIDE DEF g
<1> QED BY <1>3, <1>4, <1>5 DEF AccountInv

(* create_with_recovery_code makes a good bundle.                           *)
LEMMA CreateKeeps ==
    ASSUME NEW CONSTANT S, AccountInv(S), NEW p \in Typed, CreateWithRecoveryCode(p)
    PROVE  AccountInv(S)'
<1> DEFINE x == DeriveKeyMaterial(p)
           w == <<"code", x, device>>
           pl == EncryptPayload("code", x, device)
           b == [kind |-> "bundle", fp |-> device.fp, passkey |-> None, code |-> pl]
           W == written \union {w}
<1>1. /\ device \in Ids(S) /\ draft' = b /\ written' = W
      /\ UNCHANGED <<device, uploaded, got, gckey, master>>
  BY DEF CreateWithRecoveryCode, AccountInv
<1>2. p.seed \in Seeds /\ x = Derive("recovery", p.seed) BY DEF Typed, DeriveKeyMaterial
<1>3. b.code = pl /\ b.fp = device.fp /\ b.passkey = None OBVIOUS
<1>4. b = [kind |-> "bundle", fp |-> b.fp, passkey |-> b.passkey, code |-> b.code] OBVIOUS
<1>5. w[2] = x OBVIOUS
<1>5a. w = <<"code", x, device>> /\ pl = EncryptPayload("code", x, device) OBVIOUS
<1> HIDE DEF x, w, pl, b
<1>6. SealedBy(S, W, "code", x, pl, device.fp) BY <1>1, <1>5a DEF SealedBy
<1>7. BundleOK(S, W, b) BY <1>2, <1>3, <1>4, <1>6 DEF BundleOK, CodeOK, PasskeyOK
<1>8. WrittenOK(W) BY <1>2, <1>5 DEF WrittenOK, AccountInv
<1>9. \A c \in uploaded : BundleOK(S, W, c) BY MoreWritten DEF AccountInv
<1>10. GotOK(got, W) BY DEF GotOK, AccountInv
<1> HIDE DEF W
<1> QED BY <1>1, <1>7, <1>8, <1>9, <1>10 DEF AccountInv

(* add_passkey_encryption keeps a bundle good: the fingerprints were        *)
(* compared.                                                                *)
LEMMA AddPasskeyKeeps ==
    ASSUME NEW CONSTANT S, AccountInv(S), NEW prf \in Prfs, AddPasskeyEncryption(prf)
    PROVE  AccountInv(S)'
<1> DEFINE w == <<"passkey", prf, device>>
           pl == EncryptPayload("passkey", prf, device)
           b == [draft EXCEPT !.passkey = pl]
           W == written \union {w}
<1>1. /\ device \in Ids(S) /\ device.fp = draft.fp /\ draft' = b /\ written' = W
      /\ UNCHANGED <<device, uploaded, got, gckey, master>>
      /\ BundleOK(S, written, draft)
  BY DEF AddPasskeyEncryption, AccountInv
<1>2. draft = [kind |-> "bundle", fp |-> draft.fp, passkey |-> draft.passkey, code |-> draft.code]
  BY <1>1 DEF BundleOK
<1>3. b.code = draft.code /\ b.fp = draft.fp /\ b.passkey = pl BY <1>2
<1>4. b = [kind |-> "bundle", fp |-> b.fp, passkey |-> b.passkey, code |-> b.code] BY <1>2
<1>5. w[2] = prf OBVIOUS
<1>5a. w = <<"passkey", prf, device>> /\ pl = EncryptPayload("passkey", prf, device) OBVIOUS
<1> HIDE DEF w, pl, b
<1>6. SealedBy(S, W, "passkey", prf, pl, device.fp) BY <1>1, <1>5a DEF SealedBy
<1>6a. BundleOK(S, W, draft) BY <1>1, MoreWritten
<1>7. BundleOK(S, W, b) BY <1>1, <1>3, <1>4, <1>6, <1>6a DEF BundleOK, PasskeyOK
<1>8. WrittenOK(W) BY <1>5 DEF WrittenOK, AccountInv
<1>9. \A c \in uploaded : BundleOK(S, W, c) BY MoreWritten DEF AccountInv
<1>10. GotOK(got, W) BY DEF GotOK, AccountInv
<1> HIDE DEF W
<1> QED BY <1>1, <1>7, <1>8, <1>9, <1>10 DEF AccountInv

(* The machine gets an identity.                                            *)
LEMMA ObtainKeeps ==
    ASSUME NEW CONSTANT S, AccountInv(S), NEW f \in Fingerprints, NEW secret \in S, Obtain(f, secret)
    PROVE  AccountInv(S)'
<1>1. Identity(f, secret) \in Ids(S) BY DEF Identity, Ids
<1> QED BY <1>1 DEF Obtain, AccountInv

(* Every step of the backup keeps the invariant.                            *)
LEMMA BackupKeeps ==
    ASSUME NEW CONSTANT S, TRUE \in S, AccountInv(S), Backup
    PROVE  AccountInv(S)'
<1>1. ASSUME NEW f \in Fingerprints, Obtain(f, TRUE) PROVE AccountInv(S)'
  BY <1>1, ObtainKeeps
<1>2. ASSUME NEW p \in Typed, CreateWithRecoveryCode(p) PROVE AccountInv(S)'
  BY <1>2, CreateKeeps
<1>3. ASSUME NEW prf \in Prfs, AddPasskeyEncryption(prf) PROVE AccountInv(S)'
  BY <1>3, AddPasskeyKeeps
<1>4. CASE UploadBundle
  BY <1>4 DEF UploadBundle, AccountInv
<1>5. CASE LoseMachine
  BY <1>5 DEF LoseMachine, AccountInv
<1>6. ASSUME NEW b \in uploaded, DownloadBundle(b) PROVE AccountInv(S)'
  BY <1>6 DEF DownloadBundle, AccountInv
<1>7. ASSUME NEW b \in Served, NEW p \in Typed, RecoverWithCode(b, p) PROVE AccountInv(S)'
  <2>1. Recover(b, "code", DeriveKeyMaterial(p), DecryptWithRecoveryCode(b, p)) BY <1>7 DEF RecoverWithCode
  <2>2. \/ DecryptWithRecoveryCode(b, p) = Accept(DecryptPayload(b.code, "code", DeriveKeyMaterial(p)), b)
        \/ DecryptWithRecoveryCode(b, p) = None
    BY DEF DecryptWithRecoveryCode
  <2> QED BY <2>1, <2>2, RecoverKeeps
<1>8. ASSUME NEW b \in Served, NEW prf \in Prfs, RecoverWithPasskey(b, prf) PROVE AccountInv(S)'
  <2>1. Recover(b, "passkey", prf, DecryptWithPasskey(b, prf)) BY <1>8 DEF RecoverWithPasskey
  <2>2. DecryptWithPasskey(b, prf) = Accept(DecryptPayload(b.passkey, "passkey", prf), b)
    BY DEF DecryptWithPasskey
  <2> QED BY <2>1, <2>2, RecoverKeeps
<1> QED BY <1>1, <1>2, <1>3, <1>4, <1>5, <1>6, <1>7, <1>8 DEF Backup

(* Every step of the key file and of the master keeps it too.               *)
LEMMA TransferKeeps ==
    ASSUME AccountInv(BOOLEAN), Transfer
    PROVE  AccountInv(BOOLEAN)'
<1>1. ASSUME NEW f \in Fingerprints, NEW secret \in BOOLEAN, Obtain(f, secret) PROVE AccountInv(BOOLEAN)'
  BY <1>1, ObtainKeeps
<1>2. CASE Export
  <2> DEFINE g == [kind |-> "gckey", version |-> 3, encrypted |-> FALSE, framed |-> TRUE, key |-> device]
  <2>1. /\ gckey' = g /\ device \in Ids(BOOLEAN)
        /\ UNCHANGED <<device, draft, uploaded, written, got, master>>
    BY <1>2 DEF Export, AccountInv
  <2>2. KeyFileOK(BOOLEAN, g) BY <2>1 DEF KeyFileOK
  <2> HIDE DEF g
  <2> QED BY <2>1, <2>2 DEF AccountInv
<1>3. CASE Import
  <2>1. gckey.key \in Ids(BOOLEAN) /\ device' = gckey.key BY <1>3 DEF Import, AccountInv, KeyFileOK
  <2> QED BY <2>1, <1>3 DEF Import, AccountInv
<1>4. CASE LoseMachine
  BY <1>4 DEF LoseMachine, AccountInv
<1>5. ASSUME NEW v, NEW e, NEW fr, Alter(v, e, fr) PROVE AccountInv(BOOLEAN)'
  <2>1. /\ gckey' = [gckey EXCEPT !.version = v, !.encrypted = e, !.framed = fr]
        /\ gckey.kind = "gckey" /\ gckey.key \in Ids(BOOLEAN)
        /\ UNCHANGED <<device, draft, uploaded, written, got, master>>
    BY <1>5 DEF Alter, AccountInv, KeyFileOK
  <2>2. gckey'.kind = gckey.kind /\ gckey'.key = gckey.key BY <2>1
  <2>3. KeyFileOK(BOOLEAN, gckey') BY <2>1, <2>2 DEF KeyFileOK
  <2> QED BY <2>1, <2>3 DEF AccountInv
<1>6. ASSUME NEW p \in Typed, MaterializeMaster(p) PROVE AccountInv(BOOLEAN)'
  <2>1. /\ master' = [kind |-> "typed", phrase |-> p, key |-> MasterFromPhrase(p)]
        /\ UNCHANGED <<device, draft, uploaded, written, got, gckey>>
    BY <1>6 DEF MaterializeMaster
  <2>2. MasterOK(master') BY <2>1 DEF MasterOK
  <2> QED BY <2>1, <2>2 DEF AccountInv
<1> QED BY <1>1, <1>2, <1>3, <1>4, <1>5, <1>6 DEF Transfer

(* So does a step that changes nothing.                                     *)
LEMMA StutterKeeps == ASSUME NEW CONSTANT S, AccountInv(S), UNCHANGED accountVars PROVE AccountInv(S)'
BY DEF AccountInv, accountVars

(* What the recovery code opens of a good bundle is the identity the bundle *)
(* names.                                                                   *)
LEMMA AcceptedByCode ==
    ASSUME NEW S, NEW W, NEW b, BundleOK(S, W, b), NEW p \in Typed, DecryptWithRecoveryCode(b, p) # None
    PROVE  DecryptWithRecoveryCode(b, p) \in Ids(S) /\ DecryptWithRecoveryCode(b, p).fp = b.fp
<1> DEFINE x == DeriveKeyMaterial(p)
           d == DecryptPayload(b.code, "code", x)
<1>1. DecryptWithRecoveryCode(b, p) = d /\ d # None BY DEF DecryptWithRecoveryCode, Accept
<1>2. PICK s \in Seeds : SealedBy(S, W, "code", Derive("recovery", s), b.code, b.fp) BY DEF BundleOK, CodeOK
<1>3. d = DecryptPayload(b.code, "code", x) OBVIOUS
<1> HIDE DEF d, x
<1>4. PICK i \in Ids(S) : b.code = EncryptPayload("code", Derive("recovery", s), i) /\ i.fp = b.fp
  BY <1>2 DEF SealedBy
<1>5. d = i BY <1>1, <1>3, <1>4 DEF DecryptPayload, EncryptPayload
<1> QED BY <1>1, <1>4, <1>5

(* The two slots of a good bundle hold the same whole identity.             *)
LEMMA Agree == AccountInv({TRUE}) => MechanismsAgree
<1> SUFFICES ASSUME AccountInv({TRUE}), NEW b \in uploaded, NEW p \in Typed, NEW prf \in Prfs,
                    DecryptWithRecoveryCode(b, p) # None, b.passkey # None, b.passkey.key[2] = prf
             PROVE  DecryptWithPasskey(b, prf) = DecryptWithRecoveryCode(b, p)
  BY DEF MechanismsAgree
<1> DEFINE i == DecryptWithRecoveryCode(b, p)
<1>0. BundleOK({TRUE}, written, b) BY DEF AccountInv
<1>1. i \in Ids({TRUE}) /\ i.fp = b.fp BY <1>0, AcceptedByCode
<1>2. PICK q \in Prfs : SealedBy({TRUE}, written, "passkey", q, b.passkey, b.fp)
  BY <1>0 DEF BundleOK, PasskeyOK
<1>3. PICK j \in Ids({TRUE}) : b.passkey = EncryptPayload("passkey", q, j) /\ j.fp = b.fp
  BY <1>2 DEF SealedBy
<1>4. q = prf BY <1>3 DEF EncryptPayload
<1>5. DecryptPayload(b.passkey, "passkey", prf) = j BY <1>3, <1>4, Opens
<1>6. DecryptWithPasskey(b, prf) = j BY <1>3, <1>5, IdsShape DEF DecryptWithPasskey, Accept
<1> HIDE DEF i
<1>7. i = j BY <1>1, <1>3, IdsOne
<1> QED BY <1>6, <1>7 DEF i

(* The phrase that sealed a good bundle opens it, however it is typed.      *)
LEMMA Enough == ASSUME NEW CONSTANT S, AccountInv(S) PROVE PhraseIsEnough
<1> SUFFICES ASSUME NEW b \in uploaded
             PROVE  \E s \in Seeds : \A l, t \in BOOLEAN :
                      DecryptWithRecoveryCode(b, [seed |-> s, words |-> 24, valid |-> TRUE,
                                                  lower |-> l, spaced |-> t]) # None
  BY DEF PhraseIsEnough
<1>0. BundleOK(S, written, b) BY DEF AccountInv
<1>1. PICK s \in Seeds : SealedBy(S, written, "code", Derive("recovery", s), b.code, b.fp) BY <1>0 DEF BundleOK, CodeOK
<1>2. PICK i \in Ids(S) : b.code = EncryptPayload("code", Derive("recovery", s), i) /\ i.fp = b.fp
  BY <1>1 DEF SealedBy
<1>3. ASSUME NEW l \in BOOLEAN, NEW t \in BOOLEAN,
             NEW p, p = [seed |-> s, words |-> 24, valid |-> TRUE, lower |-> l, spaced |-> t]
      PROVE  DecryptWithRecoveryCode(b, p) # None
  <2>1. DeriveKeyMaterial(p) = Derive("recovery", s) BY <1>3 DEF DeriveKeyMaterial
  <2>2. IsRecoveryCode(p)
    <3>1. p.words = 24 BY <1>3
    <3> DEFINE q == NormalizeCodePhrase(p)
    <3>2. q.valid = TRUE /\ q.lower = TRUE /\ q.spaced = TRUE BY <1>3 DEF NormalizeCodePhrase
    <3> QED BY <3>1, <3>2 DEF IsRecoveryCode, Parses
  <2>3. DecryptPayload(b.code, "code", DeriveKeyMaterial(p)) = i BY <1>2, <2>1, Opens
  <2> QED BY <2>2, <2>3, <1>2, IdsShape DEF DecryptWithRecoveryCode, Accept
<1> QED BY <1>3

(* Against any server that mixes the fields it was given, an identity that  *)
(* comes back was sealed by the user for that mechanism and material and is *)
(* the one the bundle names; an uploaded bundle opens to the same identity  *)
(* both ways, and by its phrase however it is typed (cloud_backup.rs        *)
(* decrypt_with_recovery_code, decrypt_with_passkey).                       *)
THEOREM BackupsRecover == BackupSpec => []RecoveredIsTheBackup
<1>1. AccountInit => AccountInv({TRUE}) BY AccountInvInit
<1>2. AccountInv({TRUE}) /\ [Backup]_accountVars => AccountInv({TRUE})'
  BY BackupKeeps, StutterKeeps
<1>3. AccountInv({TRUE}) => RecoveredIsTheBackup
  <2> SUFFICES ASSUME AccountInv({TRUE}) PROVE RecoveredIsTheBackup OBVIOUS
  <2>1. RecoveredWasSealed BY DEF AccountInv, GotOK, RecoveredWasSealed
  <2> QED BY <2>1, Agree, Enough DEF RecoveredIsTheBackup
<1> QED BY <1>1, <1>2, <1>3, PTL DEF BackupSpec

(* A phrase the recovery code accepts gives a master.                       *)
LEMMA MasterHolds == ASSUME MasterOK(master) PROVE MasterFromAnyTyping
<1> SUFFICES ASSUME master # None, IsRecoveryCode(master.phrase)
             PROVE  master.key # None /\ master.key.key = Derive("master", master.phrase.seed)
  BY DEF MasterFromAnyTyping
<1>1. master.key = MasterFromPhrase(master.phrase) BY DEF MasterOK
<1>2. Parses(NormalizeCodePhrase(master.phrase)) BY DEF IsRecoveryCode
<1>3. NormalizeMasterPhrase(master.phrase) = NormalizeCodePhrase(master.phrase)
  BY DEF NormalizeMasterPhrase, NormalizeCodePhrase
<1> QED BY <1>1, <1>2, <1>3 DEF MasterFromPhrase, None

(* Backups and key files in one history: a phrase the recovery code accepts *)
(* gives one master however it is typed, and nothing is ever sealed under a *)
(* master key (recovery/mod.rs from_phrase, derive_key_material, master.rs  *)
(* from_phrase).                                                            *)
THEOREM PhrasesAgree == AccountSpec => []OneMasterPerPhrase
<1>1. AccountInit => AccountInv(BOOLEAN) BY AccountInvInit
<1>2. AccountInv(BOOLEAN) /\ [Backup \/ Transfer]_accountVars => AccountInv(BOOLEAN)'
  BY BackupKeeps, TransferKeeps, StutterKeeps
<1>3. AccountInv(BOOLEAN) => OneMasterPerPhrase
  <2> SUFFICES ASSUME AccountInv(BOOLEAN) PROVE OneMasterPerPhrase OBVIOUS
  <2>1. MasterFromAnyTyping BY MasterHolds DEF AccountInv
  <2>2. \A r, s : Derive("recovery", r) # Derive("master", s)
    BY DEF Derive, DerivationInfo
  <2>3. DomainsApart BY <2>2, AccountAssumption DEF AccountInv, WrittenOK, DomainsApart
  <2> QED BY <2>1, <2>3 DEF OneMasterPerPhrase
<1> QED BY <1>1, <1>2, <1>3, PTL DEF AccountSpec

(* Also when machines hold only public keys and key files come and go, a    *)
(* recovery gives what was sealed and the phrase stays enough               *)
(* (cloud_backup.rs decrypt_with_recovery_code).                            *)
THEOREM RecoveriesSealed == AccountSpec => [](RecoveredWasSealed /\ PhraseIsEnough)
<1>1. AccountInit => AccountInv(BOOLEAN) BY AccountInvInit
<1>2. AccountInv(BOOLEAN) /\ [Backup \/ Transfer]_accountVars => AccountInv(BOOLEAN)'
  BY BackupKeeps, TransferKeeps, StutterKeeps
<1>3. AccountInv(BOOLEAN) => RecoveredWasSealed /\ PhraseIsEnough
  <2> SUFFICES ASSUME AccountInv(BOOLEAN) PROVE RecoveredWasSealed /\ PhraseIsEnough OBVIOUS
  <2>1. RecoveredWasSealed BY DEF AccountInv, GotOK, RecoveredWasSealed
  <2> QED BY <2>1, Enough
<1> QED BY <1>1, <1>2, <1>3, PTL DEF AccountSpec

-----------------------------------------------------------------------------
(* RepoEncryption: inductive invariant EngineInv.                          *)

\* The subkeys of a kind that are in force for a copy, as a set.
InForce(C, X, h, Kind) ==
    {k \in ToSet(C[h].order) \cap Kind : k \notin X /\ k \notin C[h].revoked}

\* No subkey stands in a copy twice.
OrderOK(o) == \A i, j \in DOMAIN o : o[i] = o[j] => i = j

\* A signature was made with the only signing subkey in force.
SigOK(s) == {k \in s.keys \cap SignKey : k \notin s.expired /\ k \notin s.revoked} = {s.key}

(* The inductive invariant of RepoEncryption.                               *)
EngineInv ==
    /\ copy = [h \in Holder |-> copy[h]]
    /\ \A h \in Holder : OrderOK(copy[h].order)
    /\ \A m \in msgs : m \subseteq EncKey
    /\ \A s \in sigs : SigOK(s)

(* The subkeys derive_k_repo and sign_data collect are those in force.      *)
LEMMA CandidateKeys ==
    ASSUME NEW h \in Holder, NEW Kind
    PROVE  InForce(copy, expired, h, Kind) = {copy[h].order[i] : i \in Candidates(h, Kind)}
BY DEF InForce, Candidates, Yield, Usable, ToSet

(* A key that is found is the only one in force, and not locked.            *)
LEMMA TheKeyFound ==
    ASSUME NEW h \in Holder, NEW Kind, TheKey(h, Kind) # NoKey
    PROVE  InForce(copy, expired, h, Kind) = {TheKey(h, Kind)} /\ TheKey(h, Kind) \notin Locked
<1>1. PICK i \in Candidates(h, Kind) : Candidates(h, Kind) = {i} /\ copy[h].order[i] \notin Locked
  BY DEF TheKey
<1>2. (CHOOSE j \in Candidates(h, Kind) : TRUE) = i BY <1>1
<1>3. TheKey(h, Kind) = copy[h].order[i] BY <1>1, <1>2 DEF TheKey
<1>4. {copy[h].order[j] : j \in Candidates(h, Kind)} = {copy[h].order[i]} BY <1>1
<1> QED BY <1>1, <1>3, <1>4, CandidateKeys

(* The only one in force, not locked, is found wherever it stands.          *)
LEMMA TheKeyIs ==
    ASSUME NEW h \in Holder, NEW Kind, OrderOK(copy[h].order),
           NEW k, InForce(copy, expired, h, Kind) = {k}, k \notin Locked
    PROVE  TheKey(h, Kind) = k
<1>1. {copy[h].order[i] : i \in Candidates(h, Kind)} = {k} BY CandidateKeys
<1>2. PICK i \in Candidates(h, Kind) : copy[h].order[i] = k BY <1>1
<1>3. \A j \in Candidates(h, Kind) : copy[h].order[j] = k BY <1>1
<1>4. \A j \in Candidates(h, Kind) : j \in DOMAIN copy[h].order BY DEF Candidates, Yield
<1>5. Candidates(h, Kind) = {i} BY <1>2, <1>3, <1>4 DEF OrderOK
<1>6. (CHOOSE j \in Candidates(h, Kind) : TRUE) = i BY <1>5
<1> QED BY <1>2, <1>5, <1>6 DEF TheKey

(* No copies, no messages and no signatures yet.                            *)
LEMMA EngineInvInit == EngineInit => EngineInv
<1> SUFFICES ASSUME EngineInit PROVE EngineInv OBVIOUS
<1>1. copy = [h \in Holder |-> [order |-> <<>>, revoked |-> {}]] /\ msgs = {} /\ sigs = {} BY DEF EngineInit
<1>2. \A h \in Holder : copy[h].order = <<>> BY <1>1
<1>3. OrderOK(<<>>) BY DEF OrderOK
<1>4. copy = [h \in Holder |-> copy[h]] BY <1>1
<1> QED BY <1>1, <1>2, <1>3, <1>4 DEF EngineInv

(* Every step of RepoEncryption keeps the invariant.                        *)
LEMMA EngineNextKeeps == EngineInv /\ [EngineNext]_engineVars => EngineInv'
<1> SUFFICES ASSUME EngineInv, [EngineNext]_engineVars PROVE EngineInv' OBVIOUS
<1>1. ASSUME copy' = copy, msgs' = msgs, sigs' = sigs PROVE EngineInv'
  BY <1>1 DEF EngineInv
<1>2. CASE UNCHANGED engineVars BY <1>2, <1>1 DEF engineVars
<1>3. ASSUME NEW k \in Subkey, AddSubkey(k) \/ RevokeSubkey(k) \/ Expire(k) PROVE EngineInv'
  BY <1>3, <1>1 DEF AddSubkey, RevokeSubkey, Expire
<1>4. ASSUME NEW h \in Holder, NEW order \in SetToSeqs(cert.keys), FromCert(h, order) PROVE EngineInv'
  <2>1. OrderOK(order)
    <3> DEFINE D == 1 .. Cardinality(cert.keys)
    <3>1. order \in [D -> cert.keys] /\ \A i, j \in D : i # j => order[i] # order[j] BY DEF SetToSeqs
    <3> HIDE DEF D
    <3>2. DOMAIN order = D BY <3>1
    <3> QED BY <3>1, <3>2 DEF OrderOK
  <2> DEFINE new == [order |-> order, revoked |-> cert.revoked]
  <2>2. copy' = [copy EXCEPT ![h] = new] /\ msgs' = msgs /\ sigs' = sigs BY <1>4 DEF FromCert
  <2>3. new.order = order OBVIOUS
  <2> HIDE DEF new
  <2>4. copy' = [x \in Holder |-> copy'[x]] /\ \A x \in Holder : copy'[x] = IF x = h THEN new ELSE copy[x]
    BY <2>2 DEF EngineInv
  <2>5. \A x \in Holder : OrderOK(copy'[x].order) BY <2>1, <2>3, <2>4 DEF EngineInv
  <2> QED BY <2>2, <2>4, <2>5 DEF EngineInv
<1>5. ASSUME NEW h \in Holder, EncryptData(h) PROVE EngineInv'
  <2>1. msgs' = msgs \cup {Recipients(h)} /\ copy' = copy /\ sigs' = sigs BY <1>5 DEF EncryptData
  <2>2. Recipients(h) \subseteq EncKey BY DEF Recipients
  <2> QED BY <2>1, <2>2 DEF EngineInv
<1>6. ASSUME NEW h \in Holder, SignData(h) PROVE EngineInv'
  <2> DEFINE s == [key |-> TheKey(h, SignKey), keys |-> Held(h),
                   revoked |-> copy[h].revoked, expired |-> expired]
  <2>1. TheKey(h, SignKey) # NoKey /\ sigs' = sigs \cup {s} /\ copy' = copy /\ msgs' = msgs
    BY <1>6 DEF SignData
  <2>2. InForce(copy, expired, h, SignKey) = {TheKey(h, SignKey)} BY <2>1, TheKeyFound
  <2>3. s.key = TheKey(h, SignKey) /\ s.keys = ToSet(copy[h].order) /\ s.revoked = copy[h].revoked /\ s.expired = expired
    BY DEF Held
  <2> HIDE DEF s
  <2>4. SigOK(s) BY <2>2, <2>3 DEF SigOK, InForce
  <2> QED BY <2>1, <2>4 DEF EngineInv
<1>7. ASSUME NEW h \in Holder, NEW uid \in Uid, SealChunk(h, uid) PROVE EngineInv'
  BY <1>7, <1>1 DEF SealChunk
<1> QED BY <1>2, <1>3, <1>4, <1>5, <1>6, <1>7 DEF EngineNext

(* Copies of one certificate in different orders give the same root.        *)
LEMMA Agreement == EngineInv => HoldersAgree
<1> SUFFICES ASSUME EngineInv, NEW g \in Holder, NEW h \in Holder, SameCopy(g, h)
             PROVE  DeriveKRepo(g) = DeriveKRepo(h)
  BY DEF HoldersAgree
<1>1. InForce(copy, expired, g, EncKey) = InForce(copy, expired, h, EncKey)
  BY DEF SameCopy, Held, InForce
<1>2. OrderOK(copy[g].order) /\ OrderOK(copy[h].order) BY DEF EngineInv
<1>3. TheKey(g, EncKey) = TheKey(h, EncKey)
  <2>1. CASE TheKey(g, EncKey) # NoKey BY <2>1, <1>1, <1>2, TheKeyFound, TheKeyIs
  <2>2. CASE TheKey(h, EncKey) # NoKey BY <2>2, <1>1, <1>2, TheKeyFound, TheKeyIs
  <2> QED BY <2>1, <2>2
<1> QED BY <1>3 DEF DeriveKRepo

(* Only one subkey is ever in force, for any set of subkeys, holders and    *)
(* orders: holders of one certificate derive the same K_repo or none, from  *)
(* the subkey encrypt_data encrypts to, and a signature is by the one       *)
(* signing subkey that was neither revoked nor expired (encryption.rs       *)
(* derive_k_repo, encrypt_data, sign_data).                                 *)
THEOREM OneKey == EngineSpec => []OneKeyInForce
<1>1. EngineInv => RootIsRecipient
  <2> SUFFICES ASSUME NEW h \in Holder, TheKey(h, EncKey) # NoKey
               PROVE  Recipients(h) = {TheKey(h, EncKey)}
    BY DEF RootIsRecipient
  <2>1. InForce(copy, expired, h, EncKey) = {TheKey(h, EncKey)} BY TheKeyFound
  <2>2. Recipients(h) = InForce(copy, expired, h, EncKey) BY DEF Recipients, InForce, Usable, Held
  <2> QED BY <2>1, <2>2
<1>2. EngineInv => SignaturesUnambiguous
  <2> SUFFICES ASSUME EngineInv, NEW s \in sigs, NEW t \in sigs
               PROVE  /\ s.key \notin s.revoked \cup s.expired
                      /\ (s.keys = t.keys /\ s.revoked = t.revoked /\ s.expired = t.expired) => s.key = t.key
    BY DEF SignaturesUnambiguous
  <2>1. SigOK(s) /\ SigOK(t) BY DEF EngineInv
  <2> QED BY <2>1 DEF SigOK
<1>3. EngineInv => OneKeyInForce BY <1>1, <1>2, Agreement DEF OneKeyInForce
<1> QED BY <1>3, EngineInvInit, EngineNextKeeps, PTL DEF EngineSpec

(* A message stays readable to every holder of one of its recipients        *)
(* through any number of additions, revocations and expirations, in any     *)
(* order of packets and subkeys, unless a locked subkey is in the way       *)
(* (encryption.rs decrypt_data).                                            *)
THEOREM MessagesRead == EngineSpec => []MessagesStayReadable
<1>1. EngineInv => MessagesStayReadable
  <2> SUFFICES ASSUME EngineInv, NEW m \in msgs, NEW h \in Holder, NEW pkesks \in SetToSeqs(m),
                      ToSet(pkesks) \cap Held(h) # {}, Held(h) \cap EncKey \cap Locked = {}
               PROVE  DecryptData(h, pkesks, FALSE)
    BY DEF MessagesStayReadable
  <2>1. PICK n \in DOMAIN pkesks : pkesks[n] \in Held(h) BY DEF ToSet
  <2>2. pkesks[n] \in EncKey
    <3> DEFINE D == 1 .. Cardinality(m)
    <3>1. pkesks \in [D -> m] BY DEF SetToSeqs
    <3> HIDE DEF D
    <3> QED BY <3>1, <2>1 DEF EngineInv
  <2>3. PICK i \in DOMAIN copy[h].order : copy[h].order[i] = pkesks[n] BY <2>1 DEF Held, ToSet
  <2>4. i \in Tried(h) BY <2>2, <2>3 DEF Tried, Yield
  <2>5. \A j \in Tried(h) : copy[h].order[j] \notin Locked BY DEF Tried, Yield, Held, ToSet
  <2> QED BY <2>1, <2>3, <2>4, <2>5 DEF DecryptData
<1> QED BY <1>1, EngineInvInit, EngineNextKeeps, PTL DEF EngineSpec
=============================================================================
