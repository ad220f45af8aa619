------------------------- MODULE DeviceFilesProofs -------------------------
(***************************************************************************)
(* Proofs about the files of one machine: Keystore, for every set of       *)
(* instances and keys, and IdentityStore, for every set of clients and     *)
(* users.                                                                  *)
(***************************************************************************)
EXTENDS Keystore, IdentityStore, FiniteSetTheorems, TLAPS

USE KeyAssumption

\* No file is open: that is no file of the directory.
LEMMA NotOpen == \A n \in Name : NoKey # <<"tmp", n>> /\ NoKey # <<"disk", n>>
  BY PathAssumption DEF Path, Name

\* Deciding to generate: the public file is missing, so nothing was exported,
\* and a second generation under way is recorded as an overlap.
LEMMA StartGeneratingPreserves ==
  ASSUME IndInv, NEW i \in Instance, pc[i] \in {"idle", "checkpub"},
         disk["priv"] = NoKey \/ disk["pub"] = NoKey,
         StartGenerating(i)
  PROVE  IndInv'
<1> USE DEF IndInv, Goto, Name
<1>1. PICK k \in Key : /\ val' = [val EXCEPT ![i] = k]
                      /\ used' = used \cup {k}
  BY DEF StartGenerating
<1>2. overlap' \in BOOLEAN
  BY DEF StartGenerating
<1>3. TypeOK'
  BY <1>1, <1>2 DEF TypeOK, Content, StartGenerating
<1>4. KindInv'
  BY <1>1 DEF TypeOK, KindInv, Holds, StartGenerating
<1>5. OpenInv' /\ WriterInv'
  BY <1>1 DEF TypeOK, OpenInv, WriterInv, Writing, StartGenerating
<1>6. GenerationInv'
  <2> SUFFICES ASSUME ~overlap' PROVE GenerationInv'
    BY DEF GenerationInv
  <2>1. ~overlap /\ \A j \in Instance \ {i} : ~Generating(j)
    BY DEF StartGenerating
  <2>2. disk["pub"] = NoKey
    BY <2>1 DEF GenerationInv, TypeOK
  <2>3. \A j \in Instance \ {i} : ~Generating(j)'
    BY <2>1 DEF Generating, StartGenerating, TypeOK
  <2> QED BY <2>1, <2>2, <2>3 DEF GenerationInv, Generating, StartGenerating, TypeOK
<1> QED BY <1>3, <1>4, <1>5, <1>6

\* Neither file missing, generate_device_keypair changes no file.
LEMMA LookPreserves ==
  ASSUME IndInv, NEW i \in Instance, NEW l \in {"checkpub", "export"}, Goto(i, l),
         pc[i] \in {"idle", "checkpub"},
         UNCHANGED <<disk, tmp, cached, name, val, open, used, exported, overlap, shared>>
  PROVE  IndInv'
<1> USE DEF IndInv, Goto, Name
<1>1. TypeOK'
  BY DEF TypeOK
<1>2. KindInv'
  BY DEF TypeOK, KindInv, Holds
<1>3. OpenInv' /\ WriterInv'
  BY DEF TypeOK, OpenInv, WriterInv, Writing
<1>4. GenerationInv'
  BY DEF TypeOK, GenerationInv, Generating
<1> QED BY <1>1, <1>2, <1>3, <1>4

\* generate_device_keypair and its two existence checks.
LEMMA GeneratePreserves ==
  ASSUME IndInv, NEW i \in Instance, Generate(i) \/ CheckPub(i)
  PROVE  IndInv'
  BY StartGeneratingPreserves, LookPreserves DEF Generate, CheckPub

\* export_pubkey is only called.
LEMMA CallExportPreserves ==
  ASSUME IndInv, NEW i \in Instance, CallExport(i)
  PROVE  IndInv'
  BY LookPreserves DEF CallExport

\* Handing out the cached key or the public file, which is the private file's.
LEMMA ExportPubkeyPreserves ==
  ASSUME IndInv, NEW i \in Instance, ExportPubkey(i)
  PROVE  IndInv'
<1> USE DEF IndInv, Goto, Return, Name
<1>1. TypeOK'
  BY DEF TypeOK, KindInv, Holds, Content, Path, ExportPubkey
<1>2. KindInv'
  BY DEF TypeOK, KindInv, Holds, ExportPubkey
<1>3. OpenInv'
  BY DEF TypeOK, OpenInv, ExportPubkey
<1>4. WriterInv'
  BY DEF TypeOK, KindInv, Holds, OpenInv, WriterInv, Writing, ExportPubkey
<1>5. GenerationInv'
  BY DEF TypeOK, KindInv, Holds, OpenInv, WriterInv, Writing, GenerationInv, Generating, ExportPubkey
<1> QED BY <1>1, <1>2, <1>3, <1>4, <1>5

\* Sealing the seed, or failing before anything is written.
LEMMA SealPreserves ==
  ASSUME IndInv, NEW i \in Instance, Seal(i)
  PROVE  IndInv'
<1> USE DEF IndInv, Goto, Return, Name
<1>1. TypeOK'
  BY DEF TypeOK, KindInv, Holds, Content, Path, Seal
<1>2. KindInv'
  BY DEF TypeOK, KindInv, Holds, Seal
<1>3. OpenInv'
  BY DEF TypeOK, OpenInv, Seal
<1>4. WriterInv'
  BY DEF TypeOK, KindInv, Holds, OpenInv, WriterInv, Writing, Seal
<1>5. GenerationInv'
  BY DEF TypeOK, KindInv, Holds, OpenInv, WriterInv, Writing, GenerationInv, Generating, Seal
<1> QED BY <1>1, <1>2, <1>3, <1>4, <1>5

\* A certificate in flight is one for an exported key.
LEMMA ImportCertPreserves ==
  ASSUME IndInv, NEW i \in Instance, NEW v \in exported, Import(i, "cert", v)
  PROVE  IndInv'
<1> USE DEF IndInv, Goto, Return, Name
<1>1. TypeOK'
  BY DEF TypeOK, KindInv, Holds, Content, Path, Import
<1>2. KindInv'
  BY DEF TypeOK, KindInv, Holds, Import
<1>3. OpenInv'
  BY DEF TypeOK, OpenInv, Import
<1>4. WriterInv'
  BY DEF TypeOK, KindInv, Holds, OpenInv, WriterInv, Writing, Import
<1>5. GenerationInv'
  BY DEF TypeOK, KindInv, Holds, OpenInv, WriterInv, Writing, GenerationInv, Generating, Import
<1> QED BY <1>1, <1>2, <1>3, <1>4, <1>5

\* The master key in flight.
LEMMA ImportMasterPreserves ==
  ASSUME IndInv, NEW i \in Instance, Import(i, "master", Master)
  PROVE  IndInv'
<1> USE DEF IndInv, Goto, Return, Name
<1>1. TypeOK'
  BY DEF TypeOK, KindInv, Holds, Content, Path, Import
<1>2. KindInv'
  BY DEF TypeOK, KindInv, Holds, Import
<1>3. OpenInv'
  BY DEF TypeOK, OpenInv, Import
<1>4. WriterInv'
  BY DEF TypeOK, KindInv, Holds, OpenInv, WriterInv, Writing, Import
<1>5. GenerationInv'
  BY DEF TypeOK, KindInv, Holds, OpenInv, WriterInv, Writing, GenerationInv, Generating, Import
<1> QED BY <1>1, <1>2, <1>3, <1>4, <1>5

\* Truncating the temporary file of one target: a second writer is recorded.
LEMMA OpenTmpPreserves ==
  ASSUME IndInv, NEW i \in Instance, OpenTmp(i)
  PROVE  IndInv'
<1> USE DEF IndInv, Goto, Return, Name
<1>1. TypeOK'
  BY DEF TypeOK, KindInv, Holds, Content, Path, OpenTmp, OtherWriting, TmpOf
<1>2. KindInv'
  BY DEF TypeOK, KindInv, Holds, OpenTmp, OtherWriting, TmpOf
<1>3. OpenInv'
  BY DEF TypeOK, OpenInv, OpenTmp, OtherWriting, TmpOf
<1>4. WriterInv'
  BY DEF TypeOK, KindInv, Holds, OpenInv, WriterInv, Writing, OpenTmp, OtherWriting, TmpOf
<1>5. GenerationInv'
  <2> SUFFICES ASSUME ~overlap PROVE GenerationInv'
    BY DEF GenerationInv, OpenTmp
  <2>1. \A j \in Instance : Generating(j)' = Generating(j)
    BY DEF TypeOK, Generating, OpenTmp
  <2>2. shared' \subseteq {"cert", "master"}
    <3>1. CASE OtherWriting(i)
      <4>1. PICK j \in Instance \ {i} :
              pc[j] \in {"fill", "rename"} /\ name[j] = name[i]
        BY <3>1 DEF OtherWriting
      <4>2. ~(Generating(i) /\ Generating(j))
        BY DEF GenerationInv
      <4>3. name[i] \notin {"priv", "pub"}
        BY <4>1, <4>2 DEF Generating, OpenTmp
      <4>4. name[i] \in {"cert", "master"} /\ shared \subseteq {"cert", "master"}
        BY <4>3 DEF TypeOK, GenerationInv
      <4> QED BY <3>1, <4>4 DEF OpenTmp
    <3>2. CASE ~OtherWriting(i)
      BY <3>2 DEF GenerationInv, OpenTmp
    <3> QED BY <3>1, <3>2
  <2> QED BY <2>1, <2>2 DEF TypeOK, GenerationInv, OpenTmp
<1> QED BY <1>1, <1>2, <1>3, <1>4, <1>5

\* Filling what was opened: without a second writer it is the temporary file.
LEMMA FillTmpPreserves ==
  ASSUME IndInv, NEW i \in Instance, FillTmp(i)
  PROVE  IndInv'
<1> USE DEF IndInv, Goto, Name
<1>1. PICK c \in Written(i, val[i]) :
        /\ tmp' = [n \in Name |-> IF open[i] = <<"tmp", n>> THEN c ELSE tmp[n]]
        /\ disk' = [n \in Name |-> IF open[i] = <<"disk", n>> THEN c ELSE disk[n]]
  BY DEF FillTmp
<1>2. /\ pc[i] = "fill" /\ name[i] \in Name /\ val[i] \in Holds(name[i])
      /\ c \in Holds(name[i]) \cup {Torn}
      /\ name[i] \notin shared => c = val[i]
  BY DEF FillTmp, KindInv, Written, TypeOK
<1>3. open[i] \in {<<"tmp", name[i]>>, <<"disk", name[i]>>, NoKey}
  BY DEF OpenInv
<1>4. name[i] \notin shared => open[i] = <<"tmp", name[i]>>
  BY <1>2 DEF WriterInv, Writing
<1>5. Holds(name[i]) \cup {Torn} \subseteq Content
  BY DEF Holds, Content, TypeOK
<1>6. TypeOK'
  <2>1. c \in Content
    BY <1>2, <1>5
  <2>2. disk' \in [Name -> Content] /\ tmp' \in [Name -> Content]
    BY <1>1, <2>1 DEF TypeOK
  <2> QED BY <2>2 DEF TypeOK, FillTmp
<1>7. \A n \in Name :
        /\ n # name[i] => tmp'[n] = tmp[n] /\ disk'[n] = disk[n]
        /\ tmp'[n] \in {tmp[n], c} /\ disk'[n] \in {disk[n], c}
        /\ n \notin shared => disk'[n] = disk[n]
        /\ n \notin shared /\ n = name[i] => tmp'[n] = val[i]
  BY <1>1, <1>2, <1>3, <1>4, NotOpen
<1>8. KindInv'
  BY <1>2, <1>7 DEF TypeOK, KindInv, Holds, FillTmp
<1>9. OpenInv'
  BY DEF TypeOK, OpenInv, FillTmp
<1>10. WriterInv'
  BY <1>2, <1>7 DEF TypeOK, WriterInv, Writing, FillTmp
<1>11. GenerationInv'
  <2> SUFFICES ASSUME ~overlap PROVE GenerationInv'
    BY DEF GenerationInv, FillTmp
  <2>1. disk'["priv"] = disk["priv"] /\ disk'["pub"] = disk["pub"]
    BY <1>7 DEF GenerationInv
  <2>2. \A j \in Instance : Generating(j)' = Generating(j)
    BY DEF TypeOK, Generating, FillTmp
  <2> QED BY <2>1, <2>2 DEF TypeOK, GenerationInv, FillTmp
<1> QED BY <1>6, <1>8, <1>9, <1>10, <1>11

\* Replacing one target: the public file appears last and only after the
\* private file of the same pair.
LEMMA RenamePreserves ==
  ASSUME IndInv, NEW i \in Instance, Rename(i)
  PROVE  IndInv'
<1> USE DEF IndInv, Goto, Return, Name
<1>1. /\ pc[i] = "rename" /\ name[i] \in Name /\ tmp[name[i]] # NoKey
      /\ disk' = [disk EXCEPT ![name[i]] = tmp[name[i]]]
      /\ tmp' = [tmp EXCEPT ![name[i]] = NoKey]
      /\ used' = used /\ overlap' = overlap /\ shared' = shared
      /\ AfterRename(i)
  BY DEF Rename, TmpOf, TypeOK
<1>2. open' = [j \in Instance |->
                 IF open[j] = <<"tmp", name[i]>> THEN <<"disk", name[i]>>
                 ELSE IF open[j] = <<"disk", name[i]>> THEN NoKey
                 ELSE open[j]]
  BY DEF Rename, TmpOf
<1>3. val[i] \in Holds(name[i])
  BY <1>1 DEF KindInv
<1>4. \A j \in Instance \ {i} :
        pc'[j] = pc[j] /\ name'[j] = name[j] /\ val'[j] = val[j]
  BY <1>1 DEF TypeOK, AfterRename
<1>5. pc'[i] \in {"write", "idle"}
  BY <1>1 DEF TypeOK, AfterRename
<1>6. TypeOK'
  <2>1. open' \in [Instance -> Path \cup {NoKey}]
    <3>1. <<"disk", name[i]>> \in Path
      BY <1>1 DEF Path
    <3> QED BY <1>2, <3>1 DEF TypeOK
  <2>2. /\ disk' \in [Name -> Content] /\ tmp' \in [Name -> Content]
        /\ used' \in SUBSET Key /\ overlap' \in BOOLEAN /\ shared' \in SUBSET Name
    BY <1>1 DEF TypeOK, Content
  <2>3. name[i] = "pub" => val[i] \in Key
    BY <1>3 DEF Holds
  <2>4. /\ cached' \in [Instance -> Key \cup {NoKey}] /\ exported' \in SUBSET Key
        /\ name' \in [Instance -> Name] /\ val' \in [Instance -> Content]
        /\ pc' \in [Instance -> {"idle", "checkpub", "export", "seal", "write",
                                 "fill", "rename"}]
    BY <1>1, <2>3 DEF TypeOK, AfterRename, Content
  <2> QED BY <2>1, <2>2, <2>4 DEF TypeOK
<1>7. KindInv'
  BY DEF TypeOK, KindInv, Holds, Rename, AfterRename, TmpOf
<1>8. OpenInv'
  <2> SUFFICES ASSUME NEW j \in Instance, open'[j] # NoKey
               PROVE  /\ pc'[j] = "fill"
                      /\ open'[j] \in {<<"tmp", name'[j]>>, <<"disk", name'[j]>>}
    BY DEF OpenInv
  <2>1. open[j] # NoKey
    BY <1>1, <1>2, NotOpen
  <2>2. /\ pc[j] = "fill" /\ j # i
        /\ open[j] \in {<<"tmp", name[j]>>, <<"disk", name[j]>>}
    BY <2>1, <1>1 DEF OpenInv
  <2>3. open'[j] \in {open[j], <<"disk", name[i]>>}
    BY <1>2
  <2>4. open'[j] = open[j] \/ name[i] = name[j]
    BY <2>2, <1>2
  <2> QED BY <2>2, <2>3, <2>4, <1>4
<1>9. WriterInv'
  <2> SUFFICES ASSUME NEW n \in Name \ shared
               PROVE  /\ \A j, k \in Instance :
                           Writing(j, n)' /\ Writing(k, n)' => j = k
                      /\ \A j \in Instance :
                           /\ Writing(j, n)' /\ pc'[j] = "fill"
                                => open'[j] = <<"tmp", n>>
                           /\ Writing(j, n)' /\ pc'[j] = "rename"
                                => tmp'[n] = val'[j]
                      /\ disk'[n] # Torn
    BY <1>1 DEF WriterInv
  <2>1. \A j \in Instance : Writing(j, n)' => j # i /\ Writing(j, n)
    BY <1>4, <1>5 DEF Writing
  <2>2. /\ \A j, k \in Instance : Writing(j, n) /\ Writing(k, n) => j = k
        /\ \A j \in Instance :
             /\ Writing(j, n) /\ pc[j] = "fill" => open[j] = <<"tmp", n>>
             /\ Writing(j, n) /\ pc[j] = "rename" => tmp[n] = val[j]
        /\ disk[n] # Torn
    BY DEF WriterInv
  <2>3. CASE n = name[i]
    <3>1. Writing(i, n) /\ tmp[n] = val[i]
      BY <2>2, <2>3, <1>1 DEF Writing
    <3>2. disk'[n] = val[i]
      BY <3>1, <2>3, <1>1 DEF TypeOK
    <3>3. val[i] # Torn
      BY <1>3 DEF Holds, TypeOK
    <3>4. \A j \in Instance : ~Writing(j, n)'
      BY <2>1, <2>2, <3>1
    <3> QED BY <3>2, <3>3, <3>4
  <2>4. CASE n # name[i]
    <3>1. tmp'[n] = tmp[n] /\ disk'[n] = disk[n]
      BY <2>4, <1>1 DEF TypeOK
    <3>2. \A j \in Instance : open[j] = <<"tmp", n>> => open'[j] = <<"tmp", n>>
      BY <2>4, <1>2
    <3> QED BY <2>1, <2>2, <3>1, <3>2, <1>4
  <2> QED BY <2>3, <2>4
<1>10. GenerationInv'
  <2> SUFFICES ASSUME ~overlap PROVE GenerationInv'
    BY <1>1 DEF GenerationInv
  <2>1. name[i] \in {"priv", "pub"} =>
          /\ Generating(i) /\ disk["pub"] = NoKey /\ exported = {}
          /\ disk'[name[i]] = val[i] /\ val[i] \in Key
          /\ \A j \in Instance \ {i} : ~Generating(j)'
    <3> SUFFICES ASSUME name[i] \in {"priv", "pub"}
                 PROVE  /\ Generating(i) /\ disk["pub"] = NoKey /\ exported = {}
                        /\ disk'[name[i]] = val[i] /\ val[i] \in Key
                        /\ \A j \in Instance \ {i} : ~Generating(j)'
      OBVIOUS
    <3>1. Generating(i)
      BY <1>1 DEF Generating
    <3>2. name[i] \notin shared /\ Writing(i, name[i])
      BY <1>1 DEF GenerationInv, Writing
    <3>3. tmp[name[i]] = val[i]
      BY <3>2, <1>1 DEF WriterInv
    <3>4. \A j \in Instance \ {i} : ~Generating(j)
      BY <3>1 DEF GenerationInv
    <3>5. \A j \in Instance \ {i} : ~Generating(j)'
      BY <3>4, <1>4 DEF Generating
    <3>6. val[i] \in Key
      BY <1>3 DEF Holds
    <3>7. disk'[name[i]] = val[i]
      BY <3>3, <1>1 DEF TypeOK
    <3> QED BY <3>1, <3>5, <3>6, <3>7 DEF GenerationInv
  <2>2. CASE name[i] = "priv"
    BY <2>1, <2>2, <1>1, <1>4 DEF TypeOK, GenerationInv, Generating, AfterRename
  <2>3. CASE name[i] = "pub"
    BY <2>1, <2>3, <1>1, <1>4 DEF TypeOK, GenerationInv, Generating, AfterRename
  <2>4. CASE name[i] \in {"cert", "master"}
    <3>1. disk'["priv"] = disk["priv"] /\ disk'["pub"] = disk["pub"]
      BY <2>4, <1>1 DEF TypeOK
    <3>2. pc'[i] = "idle" /\ exported' = exported
      BY <2>4, <1>1 DEF TypeOK, AfterRename
    <3> QED BY <3>1, <3>2, <2>4, <1>1, <1>4 DEF GenerationInv, Generating
  <2> QED BY <2>2, <2>3, <2>4, <1>1
<1> QED BY <1>6, <1>7, <1>8, <1>9, <1>10

\* A failed call leaves the files as they are.
LEMMA IoErrorPreserves ==
  ASSUME IndInv, NEW i \in Instance, IoError(i)
  PROVE  IndInv'
<1> USE DEF IndInv, Goto, Return, Name
<1>1. TypeOK'
  BY DEF TypeOK, KindInv, Holds, Content, Path, IoError
<1>2. KindInv'
  BY DEF TypeOK, KindInv, Holds, IoError
<1>3. OpenInv'
  BY DEF TypeOK, OpenInv, IoError
<1>4. WriterInv'
  BY DEF TypeOK, KindInv, Holds, OpenInv, WriterInv, Writing, IoError
<1>5. GenerationInv'
  BY DEF TypeOK, KindInv, Holds, OpenInv, WriterInv, Writing, GenerationInv, Generating, IoError
<1> QED BY <1>1, <1>2, <1>3, <1>4, <1>5

\* A restart empties the cache and closes what was open.
LEMMA RestartPreserves ==
  ASSUME IndInv, NEW i \in Instance, Restart(i)
  PROVE  IndInv'
<1> USE DEF IndInv, Goto, Return, Name
<1>1. TypeOK'
  BY DEF TypeOK, KindInv, Holds, Content, Path, Restart
<1>2. KindInv'
  BY DEF TypeOK, KindInv, Holds, Restart
<1>3. OpenInv'
  BY DEF TypeOK, OpenInv, Restart
<1>4. WriterInv'
  BY DEF TypeOK, KindInv, Holds, OpenInv, WriterInv, Writing, Restart
<1>5. GenerationInv'
  BY DEF TypeOK, KindInv, Holds, OpenInv, WriterInv, Writing, GenerationInv, Generating, Restart
<1> QED BY <1>1, <1>2, <1>3, <1>4, <1>5

\* Every initial state satisfies the inductive invariant.
LEMMA InitEstablishes == Init => IndInv
<1> SUFFICES ASSUME Init PROVE IndInv
  OBVIOUS
<1>1. PICK k \in Key \cup {NoKey} :
        /\ disk = [n \in Name |-> IF n \in {"priv", "pub"} THEN k ELSE NoKey]
        /\ used = {k} \ {NoKey}
  BY DEF Init
<1>2. TypeOK
  BY <1>1 DEF Init, TypeOK, Content, Name
<1>3. KindInv
  BY <1>1 DEF Init, KindInv, Holds, Name
<1>4. OpenInv /\ WriterInv
  BY <1>1 DEF Init, OpenInv, WriterInv, Writing, Name
<1>5. GenerationInv
  BY <1>1 DEF Init, GenerationInv, Generating, Name
<1> QED BY <1>2, <1>3, <1>4, <1>5 DEF IndInv

\* Every step preserves it.
LEMMA NextPreserves == IndInv /\ [Next]_vars => IndInv'
<1> SUFFICES ASSUME IndInv, [Next]_vars PROVE IndInv'
  OBVIOUS
<1>1. CASE UNCHANGED vars
  BY <1>1 DEF vars, IndInv, TypeOK, KindInv, Holds, OpenInv, WriterInv, Writing,
              GenerationInv, Generating
<1>2. CASE Next
  BY <1>2, GeneratePreserves, CallExportPreserves, ExportPubkeyPreserves,
     SealPreserves, ImportCertPreserves, ImportMasterPreserves,
     OpenTmpPreserves, FillTmpPreserves, RenamePreserves, IoErrorPreserves, RestartPreserves
     DEF Next
<1> QED BY <1>1, <1>2

\* The inductive invariant holds in every reachable state.
THEOREM Invariance == Spec => []IndInv
  BY InitEstablishes, NextPreserves, PTL DEF Spec

\* Every variable keeps its type.
THEOREM TypeCorrect == Spec => []TypeOK
<1>1. IndInv => TypeOK
  BY DEF IndInv
<1> QED BY <1>1, Invariance, PTL

\* A public key once handed out stays the device's key through crashes, I/O
\* errors and restarts, for any number of instances (generate_device_keypair).
THEOREM ExportStableHolds == Spec => []ExportStable
<1>1. IndInv => ExportStable
  BY DEF IndInv, GenerationInv, ExportStable
<1> QED BY <1>1, Invariance, PTL

\* No crash, error or restart leaves a torn target, unless two instances
\* were writing it at the same time (write_atomic).
THEOREM TargetsWholeHolds == Spec => []TargetsWhole
<1>1. IndInv => TargetsWhole
  BY DEF IndInv, WriterInv, TargetsWhole
<1> QED BY <1>1, Invariance, PTL

\* The stored certificate is for the stored device key (import_cert).
THEOREM CertMatchesKeyHolds == Spec => []CertMatchesKey
<1>1. IndInv => CertMatchesKey
  BY DEF IndInv, KindInv, WriterInv, Holds, Name, GenerationInv, CertMatchesKey
<1> QED BY <1>1, Invariance, PTL

\* Device files and the master file are never mixed up (write_atomic).
THEOREM FilesKeepTheirKindHolds == Spec => []FilesKeepTheirKind
<1>1. IndInv => FilesKeepTheirKind
  BY DEF IndInv, TypeOK, KindInv, Holds, Name, FilesKeepTheirKind
<1> QED BY <1>1, Invariance, PTL

-----------------------------------------------------------------------------
\* What evaluate_state answers for the users us that have an identity and
\* the active user a, and that it is an IdentityState.
LEMMA Classified ==
    ASSUME NEW us \in SUBSET User, NEW a \in User \cup {NoUser}
    PROVE  /\ Classify(us, a) \in States
           /\ us = {} => Classify(us, a) = State("NoIdentity", NoUser, {})
           /\ Classify(us, a).users = us
           /\ Classify(us, a).state \in {"NeedsUserSelection", "ActiveUserMissing"}
                => a \notin us
           /\ a \in us /\ Cardinality(us) = 1 => Classify(us, a) = State("Ready", a, us)
<1>1. CASE us = {}
  <2>1. Classify(us, a) = State("NoIdentity", NoUser, {})
    BY <1>1, Zenon DEF Classify
  <2> QED BY <1>1, <2>1 DEF State, States
<1>2. CASE us # {} /\ a = NoUser
  <2>1. Classify(us, a) = State("NeedsUserSelection", NoUser, us)
    BY <1>2, UserAssumption DEF Classify
  <2> QED BY <1>2, <2>1, UserAssumption DEF State, States
<1>3. CASE us # {} /\ a # NoUser /\ a \in us
  <2>1. Classify(us, a) = State(IF Cardinality(us) = 1 THEN "Ready"
                                ELSE "ReadyMultiUser", a, us)
    BY <1>3 DEF Classify
  <2> QED BY <1>3, <2>1 DEF State, States
<1>4. CASE us # {} /\ a # NoUser /\ a \notin us
  <2>1. Classify(us, a) = State("ActiveUserMissing", a, us)
    BY <1>4 DEF Classify
  <2> QED BY <1>4, <2>1 DEF State, States
<1> QED BY <1>1, <1>2, <1>3, <1>4

\* A set with one member has the member that repair_state picks, and a finite
\* one has no other.
LEMMA TheOnly ==
    ASSUME NEW S, Cardinality(S) = 1
    PROVE  /\ (CHOOSE x \in S : TRUE) \in S
           /\ IsFiniteSet(S) => S = {CHOOSE x \in S : TRUE}
<1>1. S # {}
  BY FS_EmptySet
<1>2. ASSUME IsFiniteSet(S) PROVE \E x : S = {x}
  BY <1>2, FS_Singleton
<1> QED BY <1>1, <1>2

\* The variables of the calls of the clients other than c do not change.
OthersKeep(c) ==
    \A d \in Client \ {c} : /\ at'[d] = at[d] /\ op'[d] = op[d] /\ arg'[d] = arg[d]
                            /\ todo'[d] = todo[d] /\ found'[d] = found[d]
                            /\ res'[d] = res[d]

\* Every step of a client keeps the types, and the calls of the others.
LEMMA StepTypes ==
    ASSUME StoreTypeOK, NEW c \in Client, CallInv(c), Step(c),
           stale' \in [Client -> BOOLEAN]
    PROVE  StoreTypeOK' /\ OthersKeep(c)
<1> USE DEF StoreTypeOK, OthersKeep, StoreGoto, Begin, Continue, fileVars, callVars
<1>0. None \in States
  BY DEF None, State, States
<1>1. ASSUME NEW u \in User, CreateUser(c, u) PROVE StoreTypeOK' /\ OthersKeep(c)
  BY <1>1 DEF CreateUser
<1>2. ASSUME NEW u \in User, Save(c, u) PROVE StoreTypeOK' /\ OthersKeep(c)
  BY <1>2 DEF Save
<1>3. ASSUME NEW u \in User, DeleteUser(c, u) PROVE StoreTypeOK' /\ OthersKeep(c)
  BY <1>3 DEF DeleteUser
<1>4. ASSUME NEW u \in User, DeleteIdentity(c, u) PROVE StoreTypeOK' /\ OthersKeep(c)
  BY <1>4 DEF DeleteIdentity
<1>5. ASSUME NEW u \in User, SetActive(c, u) PROVE StoreTypeOK' /\ OthersKeep(c)
  BY <1>5 DEF SetActive
<1>6. ASSUME NEW u \in User, ScanUser(c, u) PROVE StoreTypeOK' /\ OthersKeep(c)
  BY <1>6 DEF ScanUser
<1>7. ASSUME NEW o, Evaluate(c, o) PROVE StoreTypeOK' /\ OthersKeep(c)
  BY <1>7 DEF Evaluate
<1>8. CASE SaveTruncate(c)
  BY <1>8 DEF SaveTruncate
<1>9. CASE SaveFill(c)
  BY <1>9 DEF SaveFill
<1>10. CASE SavePublic(c)
  BY <1>0, <1>10 DEF SavePublic, Answer
<1>11. CASE RemoveFiles(c) \/ RemoveSecret(c)
  BY <1>11 DEF RemoveFiles, RemoveSecret, Unlink
<1>12. CASE RemoveDir(c)
  BY <1>12 DEF RemoveDir
<1>13. CASE CheckActive(c)
  BY <1>0, <1>13 DEF CheckActive, Answer
<1>14. CASE RemoveActive(c) \/ RemovePublic(c)
  BY <1>0, <1>14 DEF RemoveActive, RemovePublic, Answer
<1>15. CASE ClearActive(c) \/ OpenActive(c)
  BY <1>15 DEF ClearActive, OpenActive
<1>16. CASE WriteActive(c)
  <2>1. State("Ready", arg[c], {arg[c]}) \in States
    BY <1>16 DEF WriteActive, CallInv, State, States
  <2> QED BY <1>0, <1>16, <2>1 DEF WriteActive, Answer
<1>17. CASE ListUsers(c)
  BY <1>17 DEF ListUsers
<1>18. CASE ScanDone(c)
  <2>1. State("NoIdentity", NoUser, {}) \in States
    BY DEF State, States
  <2> QED BY <1>18, <2>1 DEF ScanDone, Answer
<1>19. CASE ReadActive(c)
  <2> DEFINE s == Classify(found[c], active)
             k == CHOOSE u \in s.users : TRUE
             r == IF op[c] = "repair" /\ s.state = "ActiveUserMissing"
                    THEN State("NeedsUserSelection", NoUser, s.users) ELSE s
  <2>0. found[c] \in SUBSET User /\ active \in User \cup {NoUser}
    OBVIOUS
  <2>1. s \in States /\ s.users = found[c]
    BY <2>0, Classified
  <2>2. r \in States
    BY <2>1 DEF State, States
  <2>3. Repairable(s) => k \in User
    <3> SUFFICES ASSUME Repairable(s) PROVE k \in found[c]
      OBVIOUS
    <3>1. Cardinality(found[c]) = 1
      BY <2>1 DEF Repairable
    <3>2. k = CHOOSE u \in found[c] : TRUE
      BY <2>1
    <3> QED BY <3>1, <3>2, TheOnly
  <2> HIDE DEF s, k, r
  <2>4. \/ Repairable(s) /\ arg' = [arg EXCEPT ![c] = k] /\ StoreGoto(c, "open")
           /\ UNCHANGED <<op, todo, found, res>>
        \/ Answer(c, r)
    BY <1>19 DEF ReadActive, s, k, r
  <2> QED BY <1>19, <2>2, <2>3, <2>4 DEF ReadActive, Answer
<1>20. CASE Idle(c)
  BY <1>0, <1>20 DEF Idle
<1> QED
  BY <1>1, <1>2, <1>3, <1>4, <1>5, <1>6, <1>7, <1>8, <1>9, <1>10, <1>11, <1>12,
     <1>13, <1>14, <1>15, <1>16, <1>17, <1>18, <1>19, <1>20 DEF Step

\* There are finitely many user directories at any time.
LEMMA StepFinite ==
    ASSUME IsFiniteSet(dir), NEW c \in Client, Step(c)
    PROVE  IsFiniteSet(dir')
<1>1. dir' = dir \/ (\E u : dir' = dir \cup {u}) \/ (\E u : dir' = dir \ {u})
  BY DEF Step, CreateUser, Save, DeleteUser, DeleteIdentity, SetActive, ScanUser,
         Evaluate, SaveTruncate, SaveFill, SavePublic, RemoveFiles, RemoveDir,
         CheckActive, RemoveActive, RemoveSecret, RemovePublic, ClearActive,
         OpenActive, WriteActive, ListUsers, ScanDone, ReadActive, Idle, fileVars
<1> QED BY <1>1, FS_AddElement, FS_RemoveElement

\* A step of another client leaves a call as it is, and its view true unless
\* it becomes stale.
LEMMA OtherKeeps ==
    ASSUME NEW c \in Client, OthersKeep(c), NEW d \in Client \ {c}, CallInv(d),
           stale[d] = FALSE => ViewInv(d),
           stale'[d] = (at[d] # "idle" /\ (stale[d] \/ Touches)),
           stale[d] \in BOOLEAN
    PROVE  CallInv(d)' /\ (stale'[d] = FALSE => ViewInv(d)')
<1>1. CallInv(d)'
  BY DEF CallInv, OthersKeep
<1>2. ASSUME stale'[d] = FALSE, at[d] = "idle" PROVE ViewInv(d)'
  BY <1>2 DEF ViewInv, OthersKeep
<1>3. ASSUME stale'[d] = FALSE, at[d] # "idle" PROVE ViewInv(d)'
  <2>1. stale[d] = FALSE /\ ~Touches
    BY <1>3
  <2>2. dir' = dir /\ secret' = secret /\ public' = public /\ active' = active
    BY <2>1 DEF Touches
  <2>3. WithIdentity' = WithIdentity
    BY <2>2 DEF WithIdentity
  <2>4. Classify(WithIdentity, active)' = Classify(WithIdentity, active)
    BY <2>2, <2>3 DEF Classify
  <2> HIDE DEF Classify, WithIdentity
  <2>5. ViewInv(d)
    BY <2>1
  <2> QED BY <2>2, <2>3, <2>4, <2>5 DEF ViewInv, OthersKeep
<1> QED BY <1>1, <1>2, <1>3

\* The client's own call: where it goes on, and what it has learnt of the
\* files or done to them, action by action.
LEMMA OwnKeeps ==
    ASSUME StoreTypeOK, IsFiniteSet(dir), NEW c \in Client, CallInv(c),
           stale[c] = FALSE => ViewInv(c), Step(c),
           stale'[c] = (at[c] # "idle" /\ stale[c])
    PROVE  CallInv(c)' /\ (stale'[c] = FALSE => ViewInv(c)')
<1> DEFINE Goal == CallInv(c)' /\ (stale'[c] = FALSE => ViewInv(c)')
<1>a. ASSUME stale'[c] = FALSE, at[c] # "idle" PROVE ViewInv(c)
  BY <1>a DEF StoreTypeOK
<1> USE DEF StoreTypeOK, StoreGoto, Begin, Continue, fileVars, callVars
<1>1. ASSUME NEW u \in User, CreateUser(c, u) PROVE Goal
  BY <1>1 DEF CreateUser, CallInv, ViewInv
<1>2. ASSUME NEW u \in User, Save(c, u) PROVE Goal
  BY <1>2 DEF Save, CallInv, ViewInv
<1>3. ASSUME NEW u \in User, DeleteUser(c, u) PROVE Goal
  BY <1>3 DEF DeleteUser, CallInv, ViewInv
<1>4. ASSUME NEW u \in User, DeleteIdentity(c, u) PROVE Goal
  BY <1>4 DEF DeleteIdentity, CallInv, ViewInv
<1>5. ASSUME NEW u \in User, SetActive(c, u) PROVE Goal
  BY <1>5 DEF SetActive, CallInv, ViewInv
<1>6. ASSUME NEW u \in User, ScanUser(c, u) PROVE Goal
  <2>1. CallInv(c)'
    BY <1>6 DEF ScanUser, CallInv
  <2>2. ASSUME ViewInv(c) PROVE ViewInv(c)'
    BY <1>6, <2>2 DEF ScanUser, ViewInv, WithIdentity
  <2> QED BY <1>6, <1>a, <2>1, <2>2 DEF ScanUser
<1>7. ASSUME NEW o, Evaluate(c, o) PROVE Goal
  BY <1>7 DEF Evaluate, CallInv, ViewInv
<1>8. CASE SaveTruncate(c)
  BY <1>8 DEF SaveTruncate, CallInv, ViewInv
<1>9. CASE SaveFill(c)
  BY <1>9 DEF SaveFill, CallInv, ViewInv
<1>10. CASE SavePublic(c)
  BY <1>10 DEF SavePublic, Answer, CallInv, ViewInv
<1>11. CASE RemoveFiles(c)
  BY <1>11 DEF RemoveFiles, Unlink, CallInv, ViewInv
<1>12. CASE RemoveSecret(c)
  BY <1>12 DEF RemoveSecret, Unlink, CallInv, ViewInv
<1>13. CASE RemoveDir(c)
  BY <1>13 DEF RemoveDir, CallInv, ViewInv
<1>14. CASE CheckActive(c)
  BY <1>14, <1>a DEF CheckActive, Answer, CallInv, ViewInv
<1>15. CASE RemoveActive(c)
  BY <1>15, <1>a, UserAssumption DEF RemoveActive, Answer, CallInv, ViewInv
<1>16. CASE RemovePublic(c)
  BY <1>16 DEF RemovePublic, Answer, CallInv, ViewInv
<1>17. CASE ClearActive(c)
  BY <1>17 DEF ClearActive, CallInv, ViewInv
<1>18. CASE OpenActive(c)
  BY <1>18, <1>a DEF OpenActive, CallInv, ViewInv, WithIdentity
<1>19. CASE WriteActive(c)
  <2>1. CallInv(c)'
    BY <1>19 DEF WriteActive, Answer, CallInv
  <2>2. ASSUME ViewInv(c), op[c] = "repair"
        PROVE  res'[c] = Classify(WithIdentity, active)'
    <3>1. WithIdentity' = {arg[c]} /\ active' = arg[c] /\ arg[c] \in User
      BY <1>19, <2>2 DEF WriteActive, ViewInv, CallInv, WithIdentity
    <3>2. Cardinality({arg[c]}) = 1
      BY FS_Singleton
    <3>3. Classify({arg[c]}, arg[c]) = State("Ready", arg[c], {arg[c]})
      BY <3>1, <3>2, Classified
    <3>4. res'[c] = State("Ready", arg[c], {arg[c]})
      BY <1>19, <2>2 DEF WriteActive, Answer
    <3>5. Classify(WithIdentity, active)' = Classify({arg[c]}, arg[c])
      BY <3>1 DEF Classify
    <3> QED BY <3>3, <3>4, <3>5
  <2>3. at'[c] = "answer" /\ op'[c] = op[c] /\ op[c] \in {"set_active", "repair"}
    BY <1>19 DEF WriteActive, Answer, CallInv
  <2> QED BY <1>19, <1>a, <2>1, <2>2, <2>3 DEF WriteActive, ViewInv
<1>20. CASE ListUsers(c)
  BY <1>20 DEF ListUsers, CallInv, ViewInv, WithIdentity
<1>21. CASE ScanDone(c)
  <2>1. CallInv(c)'
    BY <1>21 DEF ScanDone, Answer, CallInv
  <2>2. WithIdentity \in SUBSET User /\ WithIdentity' = WithIdentity /\ active' = active
    BY <1>21 DEF ScanDone, WithIdentity
  <2>3. Classify(WithIdentity, active)' = Classify(WithIdentity, active)
    BY <2>2 DEF Classify
  <2>4. ASSUME ViewInv(c) PROVE found[c] = WithIdentity
    BY <1>21, <2>4 DEF ScanDone, ViewInv
  <2>5. WithIdentity = {} => Classify(WithIdentity, active) = State("NoIdentity", NoUser, {})
    BY <2>2, Classified
  <2>6. op'[c] = op[c] /\ op[c] \in {"evaluate", "repair"}
    BY <1>21 DEF ScanDone, Answer, CallInv
  <2>7. CASE found[c] = {}
    BY <1>21, <1>a, <2>1, <2>3, <2>4, <2>5, <2>6, <2>7 DEF ScanDone, Answer, ViewInv
  <2>8. CASE found[c] # {}
    BY <1>21, <1>a, <2>1, <2>2, <2>4, <2>6, <2>8 DEF ScanDone, ViewInv
  <2> QED BY <2>7, <2>8
<1>22. CASE ReadActive(c)
  <2> DEFINE s == Classify(found[c], active)
             k == CHOOSE u \in s.users : TRUE
             r == IF op[c] = "repair" /\ s.state = "ActiveUserMissing"
                    THEN State("NeedsUserSelection", NoUser, s.users) ELSE s
  <2>0. found[c] \in SUBSET User /\ active \in User \cup {NoUser}
    OBVIOUS
  <2>1. s.users = found[c]
    BY <2>0, Classified
  <2>2. op[c] \in {"evaluate", "repair"} /\ at[c] = "active"
    BY <1>22 DEF ReadActive, CallInv
  <2>3. WithIdentity \in SUBSET User /\ WithIdentity' = WithIdentity /\ active' = active
    BY <1>22 DEF ReadActive, WithIdentity
  <2>4. IsFiniteSet(WithIdentity)
    BY FS_Subset DEF WithIdentity
  <2>5. Classify(WithIdentity, active)' = Classify(WithIdentity, active)
    BY <2>3 DEF Classify
  <2>6. ASSUME stale'[c] = FALSE PROVE found[c] = WithIdentity
    BY <2>2, <2>6, <1>a DEF ViewInv
  <2>7. CASE op[c] = "repair" /\ Repairable(s)
    <3>1. Cardinality(found[c]) = 1 /\ active \notin found[c]
      BY <2>1, <2>7, Classified DEF Repairable
    <3>2. k = CHOOSE x \in found[c] : TRUE
      BY <2>1
    <3>3. k \in found[c] /\ (IsFiniteSet(found[c]) => found[c] = {k})
      BY <3>1, <3>2, TheOnly
    <3>4. at'[c] = "open" /\ arg'[c] = k /\ op' = op
      BY <1>22, <2>7 DEF ReadActive
    <3> HIDE DEF s, k, r
    <3> QED BY <2>2, <2>3, <2>4, <2>6, <2>7, <3>1, <3>3, <3>4 DEF CallInv, ViewInv
  <2>8. CASE ~(op[c] = "repair" /\ Repairable(s))
    <3>1. Answer(c, r)
      BY <1>22, <2>8 DEF ReadActive
    <3>2. op[c] = "evaluate" => r = s
      OBVIOUS
    <3>3. op[c] = "repair" /\ r.state # "NeedsUserSelection" => r = s
      BY DEF State
    <3>4. stale'[c] = FALSE => s = Classify(WithIdentity, active)
      BY <2>6
    <3> HIDE DEF s, k, r
    <3> QED BY <2>2, <2>5, <3>1, <3>2, <3>3, <3>4 DEF Answer, CallInv, ViewInv
  <2> QED BY <2>7, <2>8
<1>23. CASE Idle(c)
  BY <1>23 DEF Idle, CallInv, ViewInv
<1> QED
  BY <1>1, <1>2, <1>3, <1>4, <1>5, <1>6, <1>7, <1>8, <1>9, <1>10, <1>11, <1>12,
     <1>13, <1>14, <1>15, <1>16, <1>17, <1>18, <1>19, <1>20, <1>21, <1>22, <1>23 DEF Step

\* An empty configuration directory satisfies the invariant.
LEMMA StoreInitEstablishes == StoreInit => StoreInv
<1>1. None \in States
  BY DEF None, State, States
<1>2. StoreInit => IsFiniteSet(dir)
  BY FS_EmptySet DEF StoreInit
<1> QED BY <1>1, <1>2 DEF StoreInit, StoreInv, StoreTypeOK, CallInv, ViewInv

\* Every step of every client preserves it.
LEMMA StoreNextPreserves == StoreInv /\ [StoreNext]_storeVars => StoreInv'
<1> SUFFICES ASSUME StoreInv, [StoreNext]_storeVars PROVE StoreInv'
  OBVIOUS
<1>1. CASE StoreNext
  <2>1. PICK c \in Client :
          /\ Step(c)
          /\ stale' = [d \in Client |->
                         IF d = c THEN at[c] # "idle" /\ stale[c]
                         ELSE at[d] # "idle" /\ (stale[d] \/ Touches)]
    BY <1>1 DEF StoreNext
  <2>2. stale' \in [Client -> BOOLEAN]
    BY <2>1 DEF StoreInv, StoreTypeOK
  <2>3. StoreTypeOK' /\ OthersKeep(c)
    BY <2>1, <2>2, StepTypes DEF StoreInv
  <2>4. IsFiniteSet(dir')
    BY <2>1, StepFinite DEF StoreInv
  <2>5. CallInv(c)' /\ (stale'[c] = FALSE => ViewInv(c)')
    BY <2>1, OwnKeeps DEF StoreInv
  <2>6. ASSUME NEW d \in Client \ {c}
        PROVE  CallInv(d)' /\ (stale'[d] = FALSE => ViewInv(d)')
    <3>1. stale[d] \in BOOLEAN
      BY DEF StoreInv, StoreTypeOK
    <3> QED BY <2>1, <2>3, <2>6, <3>1, OtherKeeps DEF StoreInv
  <2> QED BY <2>3, <2>4, <2>5, <2>6 DEF StoreInv
<1>2. CASE UNCHANGED storeVars
  <2>1. \A c \in Client : CallInv(c)' = CallInv(c)
    BY <1>2 DEF CallInv, storeVars, callVars
  <2>2. \A c \in Client : ViewInv(c)' = ViewInv(c)
    BY <1>2 DEF ViewInv, WithIdentity, Classify, storeVars, fileVars, callVars
  <2> QED BY <1>2, <2>1, <2>2 DEF StoreInv, StoreTypeOK, storeVars, fileVars, callVars
<1> QED BY <1>1, <1>2

\* In every reachable state a call that nobody disturbed has a true view of
\* the files.
THEOREM StoreInvariance == StoreSpec => []StoreInv
  BY StoreInitEstablishes, StoreNextPreserves, PTL DEF StoreSpec

\* Every variable of the identity directories keeps its type.
THEOREM StoreTypes == StoreSpec => []StoreTypeOK
<1>1. StoreInv => StoreTypeOK
  BY DEF StoreInv
<1> QED BY <1>1, StoreInvariance, PTL

\* The answer of an undisturbed evaluate_state, or of a repair_state that
\* activated a user, is the state of the files, for any number of clients
\* and users (state_machine.rs evaluate_state, repair_state).
THEOREM AnswersAccurate == StoreSpec => []AnswerAccurate
<1>1. StoreInv => AnswerAccurate
  BY DEF StoreInv, StoreTypeOK, ViewInv, AnswerAccurate
<1> QED BY <1>1, StoreInvariance, PTL

\* An undisturbed delete_user that returns has left nothing of the user, for
\* any number of clients and users (multi_user/mod.rs delete_user).
THEOREM DeletesComplete == StoreSpec => []DeleteComplete
<1>1. StoreInv => DeleteComplete
  BY DEF StoreInv, StoreTypeOK, ViewInv, DeleteComplete
<1> QED BY <1>1, StoreInvariance, PTL

\* An undisturbed repair_state takes the active user's place only if that user
\* has no identity, for any number of clients and users (repair_state).
THEOREM RepairsSpare == StoreSpec => RepairSparesValidUser
<1>1. StoreInv => [\A c \in Client :
                     at[c] = "open" /\ at'[c] = "write" /\ op[c] = "repair" /\ ~stale[c]
                        => active \notin WithIdentity]_storeVars
  BY DEF StoreInv, StoreTypeOK, ViewInv
<1> QED BY <1>1, StoreInvariance, PTL DEF RepairSparesValidUser
=============================================================================
