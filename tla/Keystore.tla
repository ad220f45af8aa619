------------------------------ MODULE Keystore ------------------------------
(***************************************************************************)
(* FileSystemKeystore of gitcellar-crypto/src/keystore.rs: the device key  *)
(* pair, the device certificate and the master public key in one identity  *)
(* directory, opened by several keystore instances (in one or in several   *)
(* processes).                                                             *)
(*                                                                         *)
(* Every file-system call is a step.  An instance may die, or a call on    *)
(* the file system may fail, between any two of them.  A key pair is one   *)
(* model value: disk["priv"] = disk["pub"] says that the private file      *)
(* holds the seed of the public one.  A certificate is the device key it   *)
(* certifies.  fs::write truncates and then fills: in between the file is  *)
(* torn, and it is filled wherever a rename has moved it.                  *)
(***************************************************************************)
CONSTANTS
    Instance,   \* FileSystemKeystore values over the same directory
    Key,        \* the device key pairs OsRng may produce
    Master,     \* the user's master public key
    NoKey,      \* a missing file, an empty cache, no open file
    Torn        \* a file that is empty or mixed from two writes

ASSUME KeyAssumption ==
    /\ NoKey \notin Key \cup {Master, Torn}
    /\ Master \notin Key \cup {Torn}
    /\ Torn \notin Key

VARIABLES
    disk,     \* device.key.bin, device.pub.bin, device-cert.bin, master.pub.bin
    tmp,      \* the ".tmp" file next to each of them
    cached,   \* per instance: cached_pubkey
    pc,       \* per instance: where it is in a call
    name,     \* per instance: the file write_atomic is replacing
    val,      \* per instance: what write_atomic puts there
    open,     \* per instance: the file it has open for writing
    used,     \* history: every key pair ever generated
    exported, \* history: every public key handed to a caller
    overlap,  \* history: two instances generated at the same time
    shared    \* history: files two instances were writing at the same time

vars == <<disk, tmp, cached, pc, name, val, open, used, exported, overlap, shared>>

Name == {"priv", "pub", "cert", "master"}
Content == Key \cup {Master, NoKey, Torn}

\* A file of the directory: a target or its temporary file.
Path == {"tmp", "disk"} \X Name

ASSUME PathAssumption == NoKey \notin Path

TypeOK ==
    /\ disk \in [Name -> Content]
    /\ tmp \in [Name -> Content]
    /\ cached \in [Instance -> Key \cup {NoKey}]
    /\ pc \in [Instance -> {"idle", "checkpub", "export", "seal", "write",
                            "fill", "rename"}]
    /\ name \in [Instance -> Name]
    /\ val \in [Instance -> Content]
    /\ open \in [Instance -> Path \cup {NoKey}]
    /\ used \in SUBSET Key
    /\ exported \in SUBSET Key
    /\ overlap \in BOOLEAN
    /\ shared \in SUBSET Name

\* A new directory, or one a finished generation left behind.
Init ==
    /\ \E k \in Key \cup {NoKey} :
         /\ disk = [n \in Name |-> IF n \in {"priv", "pub"} THEN k ELSE NoKey]
         /\ used = {k} \ {NoKey}
    /\ tmp = [n \in Name |-> NoKey]
    /\ cached = [i \in Instance |-> NoKey]
    /\ pc = [i \in Instance |-> "idle"]
    /\ name = [i \in Instance |-> "priv"]
    /\ val = [i \in Instance |-> NoKey]
    /\ open = [i \in Instance |-> NoKey]
    /\ exported = {}
    /\ shared = {}
    /\ overlap = FALSE

-----------------------------------------------------------------------------
Goto(i, l) == pc' = [pc EXCEPT ![i] = l]

\* A call returns and drops its arguments.
Return(i) ==
    /\ Goto(i, "idle")
    /\ name' = [name EXCEPT ![i] = "priv"]
    /\ val' = [val EXCEPT ![i] = NoKey]

\* The instance is past the existence checks of generate_device_keypair and
\* has not finished.
Generating(i) == \/ pc[i] = "seal"
                 \/ pc[i] \in {"write", "fill", "rename"} /\ name[i] \in {"priv", "pub"}

\* generate_device_keypair decides to make a fresh pair.
StartGenerating(i) ==
    /\ Goto(i, "seal")
    /\ \E k \in Key \ used :
         /\ val' = [val EXCEPT ![i] = k]
         /\ used' = used \cup {k}
    /\ overlap' = (overlap \/ \E j \in Instance \ {i} : Generating(j))
    /\ UNCHANGED <<disk, tmp, cached, name, open, exported, shared>>

\* Mutants of Generate and CheckPub: an existing pair is not respected.
GenerateAlways(i) == pc[i] = "idle" /\ StartGenerating(i)
CheckPubAlways(i) == pc[i] = "checkpub" /\ StartGenerating(i)

\* generate_device_keypair: private_path().exists().
Generate(i) ==
    /\ pc[i] = "idle"
    /\ \/ disk["priv"] = NoKey /\ StartGenerating(i)
       \/ /\ disk["priv"] # NoKey
          /\ Goto(i, "checkpub")
          /\ UNCHANGED <<disk, tmp, cached, name, val, open, used, exported, overlap, shared>>

\* ... && public_path().exists().
CheckPub(i) ==
    /\ pc[i] = "checkpub"
    /\ \/ disk["pub"] = NoKey /\ StartGenerating(i)
       \/ /\ disk["pub"] # NoKey
          /\ Goto(i, "export")
          /\ UNCHANGED <<disk, tmp, cached, name, val, open, used, exported, overlap, shared>>

\* export_pubkey called by a user of the keystore.
CallExport(i) ==
    /\ pc[i] = "idle"
    /\ Goto(i, "export")
    /\ UNCHANGED <<disk, tmp, cached, name, val, open, used, exported, overlap, shared>>

\* export_pubkey: the cached key, else the public file; a missing or a torn
\* one is an error.
ExportPubkey(i) ==
    /\ pc[i] = "export"
    /\ Goto(i, "idle")
    /\ exported' = exported \cup
         ((IF cached[i] # NoKey THEN {cached[i]} ELSE {disk["pub"]})
            \ {NoKey, Torn})
    /\ UNCHANGED <<disk, tmp, cached, name, val, open, used, overlap, shared>>

\* The seed is sealed before anything is written; without an LPK the call
\* fails here (fail closed).
Seal(i) ==
    /\ pc[i] = "seal"
    /\ \/ Return(i)
       \/ /\ Goto(i, "write")
          /\ name' = [name EXCEPT ![i] = "priv"]
          /\ UNCHANGED val
    /\ UNCHANGED <<disk, tmp, cached, open, used, exported, overlap, shared>>

\* import_cert and import_master_pubkey.  A certificate is issued for a
\* public key this keystore exported.
Import(i, n, v) ==
    /\ pc[i] = "idle"
    /\ \/ n = "cert" /\ v \in exported
       \/ n = "master" /\ v = Master
    /\ Goto(i, "write")
    /\ name' = [name EXCEPT ![i] = n]
    /\ val' = [val EXCEPT ![i] = v]
    /\ UNCHANGED <<disk, tmp, cached, open, used, exported, overlap, shared>>

\* The temporary file of a target is named after it.
TmpOf(n) == n

\* Another instance has a write of the same target under way.
OtherWriting(i) ==
    \E j \in Instance \ {i} : pc[j] \in {"fill", "rename"} /\ name[j] = name[i]

\* Mutant of OpenTmp: the target itself is overwritten.
OpenTmpInPlace(i) ==
    /\ pc[i] = "write"
    /\ disk' = [disk EXCEPT ![name[i]] = Torn]
    /\ open' = [open EXCEPT ![i] = <<"disk", name[i]>>]
    /\ Goto(i, "fill")
    /\ UNCHANGED <<tmp, cached, name, val, used, exported, overlap, shared>>

\* write_atomic: fs::write creates or truncates the temporary file ...
OpenTmp(i) ==
    /\ pc[i] = "write"
    /\ tmp' = [tmp EXCEPT ![TmpOf(name[i])] = Torn]
    /\ open' = [open EXCEPT ![i] = <<"tmp", TmpOf(name[i])>>]
    /\ shared' = IF OtherWriting(i) THEN shared \cup {name[i]} ELSE shared
    /\ Goto(i, "fill")
    /\ UNCHANGED <<disk, cached, name, val, used, exported, overlap>>

\* What a file holds once v was written to it: certificates differ in length,
\* so two writers of one file may leave a mixture.
Written(i, v) == {v} \cup (IF name[i] = "cert" /\ "cert" \in shared
                            THEN {Torn} ELSE {})

\* ... and writes the bytes to it, wherever it is now.
FillTmp(i) ==
    /\ pc[i] = "fill"
    /\ \E c \in Written(i, val[i]) :
         /\ tmp' = [n \in Name |-> IF open[i] = <<"tmp", n>> THEN c ELSE tmp[n]]
         /\ disk' = [n \in Name |-> IF open[i] = <<"disk", n>> THEN c ELSE disk[n]]
    /\ open' = [open EXCEPT ![i] = NoKey]
    /\ Goto(i, "rename")
    /\ UNCHANGED <<cached, name, val, used, exported, overlap, shared>>

\* What follows the rename: the private file is followed by the public one,
\* which ends the generation and fills the cache.  An import ends there, and so
\* does any call whose permission tightening fails.
AfterRename(i) ==
    \/ /\ name[i] = "priv"
       /\ Goto(i, "write") /\ name' = [name EXCEPT ![i] = "pub"]
       /\ UNCHANGED <<cached, exported, val>>
    \/ /\ name[i] = "pub"
       /\ Return(i)
       /\ cached' = [cached EXCEPT ![i] = val[i]]
       /\ exported' = exported \cup {val[i]}
    \/ /\ Return(i)
       /\ UNCHANGED <<cached, exported>>

\* write_atomic: fs::rename over the target; an open temporary file moves
\* along, an open target is unlinked.
Rename(i) ==
    /\ pc[i] = "rename"
    /\ tmp[TmpOf(name[i])] # NoKey
    /\ disk' = [disk EXCEPT ![name[i]] = tmp[TmpOf(name[i])]]
    /\ tmp' = [tmp EXCEPT ![TmpOf(name[i])] = NoKey]
    /\ open' = [j \in Instance |->
                  IF open[j] = <<"tmp", TmpOf(name[i])>> THEN <<"disk", name[i]>>
                  ELSE IF open[j] = <<"disk", name[i]>> THEN NoKey
                  ELSE open[j]]
    /\ AfterRename(i)
    /\ UNCHANGED <<used, overlap, shared>>

\* A file-system call fails (a full disk, a temporary file another instance
\* has renamed away): the call returns the error where it stands.
IoError(i) ==
    /\ pc[i] \in {"write", "fill", "rename", "export"}
    /\ Return(i)
    /\ open' = [open EXCEPT ![i] = NoKey]
    /\ UNCHANGED <<disk, tmp, cached, used, exported, overlap, shared>>

\* The process dies and a new instance is opened on the directory.
Restart(i) ==
    /\ Return(i)
    /\ cached' = [cached EXCEPT ![i] = NoKey]
    /\ open' = [open EXCEPT ![i] = NoKey]
    /\ UNCHANGED <<disk, tmp, used, exported, overlap, shared>>

Next == \E i \in Instance :
          \/ Generate(i) \/ CheckPub(i) \/ CallExport(i) \/ ExportPubkey(i)
          \/ Seal(i) \/ OpenTmp(i) \/ FillTmp(i) \/ Rename(i)
          \/ IoError(i) \/ Restart(i)
          \/ \E v \in exported : Import(i, "cert", v)
          \/ Import(i, "master", Master)

Spec == Init /\ [][Next]_vars

-----------------------------------------------------------------------------
\* A public key that was ever handed out stays the device's key: whatever
\* crashes, fails or restarts, the private and the public file hold it, so
\* sign() keeps producing signatures that verify under it
\* (generate_device_keypair: "If a keypair already exists, this returns it
\* unchanged").  Only two instances generating at the same time can break it.
ExportStable ==
    ~overlap => \A k \in exported : disk["priv"] = k /\ disk["pub"] = k

\* A crash or a failed call never leaves a torn device key, public key,
\* certificate or master key behind: write_atomic replaces a target in one
\* step, as long as two instances do not write the same target at the same
\* time (they share the temporary file's fixed name).
TargetsWhole == \A n \in Name \ shared : disk[n] # Torn

\* The stored certificate certifies the stored device key, whatever was
\* imported, generated again or interrupted before (import_cert,
\* generate_device_keypair), with the same two exceptions.
CertMatchesKey ==
    ~overlap /\ "cert" \notin shared /\ disk["cert"] # NoKey
        => disk["cert"] = disk["priv"]

\* A master public key never lands in a device file or the reverse, also when
\* several instances write at the same time (write_atomic gives every target
\* its own temporary file).
FilesKeepTheirKind ==
    /\ disk["master"] \in {Master, NoKey, Torn}
    /\ \A n \in {"priv", "pub", "cert"} : disk[n] # Master

-----------------------------------------------------------------------------
\* The parts of the inductive invariant.

\* The kind of value each file, its temporary file and a writer carry.
Holds(n) == IF n = "master" THEN {Master}
            ELSE IF n = "cert" THEN exported
            ELSE Key

KindInv ==
    /\ \A n \in Name : /\ disk[n] \in Holds(n) \cup {NoKey, Torn}
                       /\ tmp[n] \in Holds(n) \cup {NoKey, Torn}
    /\ \A i \in Instance :
         /\ pc[i] = "seal" => val[i] \in Key
         /\ pc[i] \in {"write", "fill", "rename"} => val[i] \in Holds(name[i])
         /\ cached[i] \in exported \cup {NoKey}

\* Only a file being filled is open, at its own name.
OpenInv ==
    \A i \in Instance :
        open[i] # NoKey =>
            pc[i] = "fill" /\ open[i] \in {<<"tmp", name[i]>>, <<"disk", name[i]>>}

Writing(i, n) == pc[i] \in {"fill", "rename"} /\ name[i] = n

\* One writer at a time, which fills the temporary file before it renames it.
WriterInv ==
    \A n \in Name \ shared :
        /\ \A i, j \in Instance : Writing(i, n) /\ Writing(j, n) => i = j
        /\ \A i \in Instance :
             /\ Writing(i, n) /\ pc[i] = "fill" => open[i] = <<"tmp", n>>
             /\ Writing(i, n) /\ pc[i] = "rename" => tmp[n] = val[i]
        /\ disk[n] # Torn

\* Without an overlap: one generation at a time, on a directory without a
\* public file; the private file is in place before the public one is
\* written; and the public file is the last thing to appear.
GenerationInv ==
    ~overlap =>
        /\ shared \subseteq {"cert", "master"}
        /\ \A i, j \in Instance : Generating(i) /\ Generating(j) => i = j
        /\ \A i \in Instance : Generating(i) => disk["pub"] = NoKey
        /\ \A i \in Instance :
             pc[i] \in {"write", "fill", "rename"} /\ name[i] = "pub"
                => disk["priv"] = val[i]
        /\ disk["pub"] # NoKey => disk["priv"] = disk["pub"]
        /\ exported \subseteq {disk["pub"]} \ {NoKey}

IndInv == TypeOK /\ KindInv /\ OpenInv /\ WriterInv /\ GenerationInv
=============================================================================
