------------------------------ MODULE FileStore ------------------------------
(***************************************************************************)
(* FileStorage (vault-core/src/storage/file.rs): objects are files under a *)
(* root directory.  An upload makes the parent directories, truncates the  *)
(* file and writes it, each a step of its own that may fail; other clients *)
(* read, list and delete in between, and a client may crash at any step.   *)
(*                                                                         *)
(* A path is a sequence of names; a name is either a file or a directory.  *)
(***************************************************************************)
EXTENDS Integers, Sequences, FiniteSets, SequencesExt

CONSTANTS
    FileClient,   \* processes on the same root
    FilePath,     \* the paths they use
    FileData,     \* what is stored
    NoFile,       \* no such file
    Torn,         \* a file that is truncated or partly written
    Unsettled,    \* no acknowledged content
    FileMaxCalls  \* bound: calls made

ASSUME FileAssumption ==
    /\ NoFile \notin FileData /\ Torn \notin FileData /\ Unsettled \notin FileData
    /\ NoFile # Torn /\ Torn # Unsettled /\ Unsettled # NoFile
    /\ FileMaxCalls \in Nat

VARIABLES
    files,       \* path -> content
    dirs,        \* the directories that exist
    fileCall,    \* per client: the call under way and the step it is at
    fileResult,  \* per client: what its last call returned
    fileClean,   \* history, per path: the content last acknowledged, undisturbed since
    fileCalls    \* how many calls were made

fileVars == <<files, dirs, fileCall, fileResult, fileClean, fileCalls>>

\* The directories above a path, below the root.
Parents(p) == {SubSeq(p, 1, n) : n \in 1 .. Len(p) - 1}
FileIdle == [op |-> "idle"]
FileNoResult == [op |-> "none"]

\* new made the root, which is no path here.
FileInit ==
    /\ files = [p \in FilePath |-> NoFile]
    /\ dirs = {}
    /\ fileCall = [c \in FileClient |-> FileIdle]
    /\ fileResult = [c \in FileClient |-> FileNoResult]
    /\ fileClean = [p \in FilePath |-> NoFile]
    /\ fileCalls = 0

IsFile(p) == p \in FilePath /\ files[p] # NoFile

\* Another client is changing the file.
Busy(c, p) == \E x \in FileClient \ {c} : fileCall[x] # FileIdle /\ fileCall[x].path = p

\* upload and delete begin.
Begin(c, op, p, d) ==
    /\ fileCall[c] = FileIdle /\ fileCalls < FileMaxCalls
    /\ fileCalls' = fileCalls + 1
    /\ fileCall' = [x \in FileClient |->
          IF x = c THEN [op |-> op, path |-> p, data |-> d, alone |-> ~ Busy(c, p)]
          ELSE IF fileCall[x] # FileIdle /\ fileCall[x].path = p THEN [fileCall[x] EXCEPT !.alone = FALSE]
          ELSE fileCall[x]]
    /\ fileClean' = [fileClean EXCEPT ![p] = Unsettled]
    /\ fileResult' = [fileResult EXCEPT ![c] = FileNoResult]
    /\ UNCHANGED <<files, dirs>>

FileReturn(c, ok, content) ==
    /\ fileResult' = [fileResult EXCEPT ![c] = [op |-> fileCall[c].op, path |-> fileCall[c].path, ok |-> ok]]
    /\ fileCall' = [fileCall EXCEPT ![c] = FileIdle]
    /\ fileClean' = IF ok /\ fileCall[c].alone
                    THEN [fileClean EXCEPT ![fileCall[c].path] = content] ELSE fileClean
    /\ UNCHANGED fileCalls

\* create_dir_all: fails on a file in the way.
CreateDirAll(c) ==
    /\ fileCall[c].op = "mkdir"
    /\ IF \E q \in Parents(fileCall[c].path) : IsFile(q)
       THEN /\ FileReturn(c, FALSE, Unsettled)
            /\ UNCHANGED <<files, dirs>>
       ELSE /\ dirs' = dirs \cup Parents(fileCall[c].path)
            /\ fileCall' = [fileCall EXCEPT ![c].op = "open"]
            /\ UNCHANGED <<files, fileResult, fileClean, fileCalls>>

\* fs::write opens and truncates: fails on a directory of that name.
Truncate(c) ==
    /\ fileCall[c].op = "open"
    /\ IF fileCall[c].path \in dirs
       THEN /\ FileReturn(c, FALSE, Unsettled)
            /\ UNCHANGED <<files, dirs>>
       ELSE /\ files' = [files EXCEPT ![fileCall[c].path] = Torn]
            /\ fileCall' = [fileCall EXCEPT ![c].op = "write"]
            /\ UNCHANGED <<dirs, fileResult, fileClean, fileCalls>>

\* fs::write writes all of it, or fails part of the way (no space).  A file
\* unlinked since it was opened stays unlinked.
Write(c) ==
    /\ fileCall[c].op = "write"
    /\ \/ /\ files' = [files EXCEPT ![fileCall[c].path] = IF @ = NoFile THEN @ ELSE fileCall[c].data]
          /\ FileReturn(c, TRUE, fileCall[c].data)
       \/ FileReturn(c, FALSE, Unsettled) /\ UNCHANGED files
    /\ UNCHANGED dirs

\* delete: a file that is not there is an error.
FileDelete(c) ==
    /\ fileCall[c].op = "delete"
    /\ IF IsFile(fileCall[c].path)
       THEN /\ files' = [files EXCEPT ![fileCall[c].path] = NoFile]
            /\ FileReturn(c, TRUE, NoFile)
       ELSE /\ FileReturn(c, FALSE, Unsettled)
            /\ UNCHANGED files
    /\ UNCHANGED dirs

\* A call that reads is one step: whatever is there.
Reads(c, res) ==
    /\ fileCall[c] = FileIdle /\ fileCalls < FileMaxCalls
    /\ fileCalls' = fileCalls + 1
    /\ fileResult' = [fileResult EXCEPT ![c] = res]
    /\ UNCHANGED <<files, dirs, fileCall, fileClean>>

FileDownload(c, p) ==
    Reads(c, [op |-> "download", path |-> p, ok |-> IsFile(p),
              data |-> IF IsFile(p) THEN files[p] ELSE NoFile, seen |-> fileClean[p]])

\* exists: a directory of that name counts too.
FileExists(c, p) ==
    Reads(c, [op |-> "exists", path |-> p, ok |-> TRUE,
              yes |-> IsFile(p) \/ p \in dirs, seen |-> fileClean[p]])

\* list: the entries of the directory the prefix names, files and directories
\* alike, or else those of its parent that begin with its last name.
FileList(c, prefix) ==
    LET entries == {p \in FilePath : IsFile(p)} \cup dirs
        dir == IF prefix \in dirs \cup {<<>>} THEN prefix ELSE Front(prefix)
    IN  Reads(c, [op |-> "list", path |-> prefix, ok |-> TRUE,
                  paths |-> {e \in entries : /\ Len(e) = Len(dir) + 1
                                             /\ IsPrefix(dir, e) /\ IsPrefix(prefix, e)},
                  seen |-> {p \in FilePath : fileClean[p] \in FileData}])

\* A client's process dies; what it wrote so far stays.
Crash(c) ==
    /\ fileCall[c] # FileIdle
    /\ fileCall' = [fileCall EXCEPT ![c] = FileIdle]
    /\ UNCHANGED <<files, dirs, fileResult, fileClean, fileCalls>>

FileNext ==
    \/ \E c \in FileClient, p \in FilePath :
         \/ \E d \in FileData : Begin(c, "mkdir", p, d)
         \/ Begin(c, "delete", p, NoFile)
         \/ FileDownload(c, p) \/ FileExists(c, p)
    \/ \E c \in FileClient, prefix \in UNION {Parents(p) : p \in FilePath} \cup {<<>>} : FileList(c, prefix)
    \/ \E c \in FileClient : CreateDirAll(c) \/ Truncate(c) \/ Write(c) \/ FileDelete(c) \/ Crash(c)

FileSpec == FileInit /\ [][FileNext]_fileVars

-----------------------------------------------------------------------------
\* What was acknowledged is there, whole: after an upload or a delete returned
\* Ok, and until another change of that file is called, the file is exactly
\* that; a download in this time finds it, or nothing after a delete, and an
\* exists answers yes after an upload.  A torn file is only ever one whose
\* upload did not return Ok.
FileAcknowledgedHolds ==
    /\ \A p \in FilePath : fileClean[p] # Unsettled => files[p] = fileClean[p]
    /\ \A c \in FileClient :
         /\ fileResult[c].op = "download" =>
              (fileResult[c].seen # Unsettled => fileResult[c].data = fileResult[c].seen)
         /\ fileResult[c].op = "exists" => (fileResult[c].seen \in FileData => fileResult[c].yes)

\* "Not an error if file doesn't exist" (the comment in delete): a delete whose
\* file nobody else touches returns Ok.
DeleteOfMissingIsOk ==
    \A c \in FileClient : fileResult[c].op = "delete" => fileResult[c].ok

\* list returns the "[l]ist of matching paths" of files: the acknowledged files
\* below the prefix, and no directories.
FileListComplete ==
    \A c \in FileClient :
        fileResult[c].op = "list" =>
            \A p \in fileResult[c].seen : IsPrefix(fileResult[c].path, p) => p \in fileResult[c].paths
=============================================================================
