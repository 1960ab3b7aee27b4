-------------------------- MODULE NodeClientsProofs --------------------------
(***************************************************************************)
(* Proofs about the export command and the gateway, for every set of       *)
(* manifests, every disk, and every pattern of failed calls, of a failing  *)
(* disk and of kills, while the node accepts more chunks and manifests.    *)
(***************************************************************************)
EXTENDS NodeClients, FiniteSetTheorems, SequenceTheorems, TLAPS

-----------------------------------------------------------------------------
(* The storage service. *)

(* What the node checked of a file manifest when it accepted it. *)
Sound(f) ==
    /\ f \in DOMAIN FileManifest
    /\ \A i \in DOMAIN FileManifest[f].chunks : FileManifest[f].chunks[i] \in chunks
    /\ Len(Concat[FileManifest[f].chunks]) = FileManifest[f].size
    /\ HashBytes(Concat[FileManifest[f].chunks]) = FileManifest[f].hash

(* What was accepted stays resolvable. *)
StoreInv ==
    /\ \A f \in fileManifests : Sound(f)
    /\ \A d \in dirManifests :
         /\ d \in DOMAIN DirManifest
         /\ \A i \in DOMAIN DirManifest[d] : DirManifest[d][i].id \in fileManifests

(* Nothing is removed from the chain state. *)
StoreGrows == fileManifests \subseteq fileManifests' /\ dirManifests \subseteq dirManifests'

LEMMA SyncGrows == ASSUME Sync PROVE StoreGrows /\ chunks \subseteq chunks'
BY DEF Sync, SyncChunk, SyncFileManifest, SyncDirectoryManifest, StoreGrows

LEMMA SyncStore == ASSUME StoreInv, Sync PROVE StoreInv'
<1>1. chunks \subseteq chunks' /\ fileManifests \subseteq fileManifests'
  BY SyncGrows DEF StoreGrows
<1>2. \A f : Sound(f) => Sound(f)'
  BY <1>1 DEF Sound
<1>3. ASSUME NEW f \in fileManifests' PROVE Sound(f)'
  <2>1. CASE f \in fileManifests
    BY <1>2, <2>1 DEF StoreInv
  <2>2. CASE f \notin fileManifests
    <3>1. SyncFileManifest /\ f \in DOMAIN FileManifest
      BY <2>2 DEF Sync, SyncChunk, SyncFileManifest, SyncDirectoryManifest
    <3>2. /\ Elements(FileManifest[f].chunks) \subseteq chunks
          /\ Len(Concat[FileManifest[f].chunks]) = FileManifest[f].size
          /\ HashBytes(Concat[FileManifest[f].chunks]) = FileManifest[f].hash
      BY <2>2, <3>1 DEF SyncFileManifest
    <3>3. Sound(f)
      BY <3>1, <3>2 DEF Sound, Elements
    <3> QED
      BY <1>2, <3>3
  <2> QED
    BY <2>1, <2>2
<1>4. ASSUME NEW d \in dirManifests'
      PROVE  /\ d \in DOMAIN DirManifest
             /\ \A i \in DOMAIN DirManifest[d] : DirManifest[d][i].id \in fileManifests'
  <2>1. CASE d \in dirManifests
    BY <1>1, <2>1 DEF StoreInv
  <2>2. CASE d \notin dirManifests
    BY <1>1, <2>2 DEF Sync, SyncChunk, SyncFileManifest, SyncDirectoryManifest
  <2> QED
    BY <2>1, <2>2
<1> QED
  BY <1>3, <1>4 DEF StoreInv

LEMMA StoreUnchanged == ASSUME StoreInv, UNCHANGED stored PROVE StoreInv' /\ StoreGrows
BY DEF StoreInv, StoreGrows, Sound, stored

LEMMA HashIs ==
    ASSUME NEW text, NEW h, HashBytes(text) = h
    PROVE  h.hash = text
BY DEF HashBytes

(* What GetFileData answers is the data that the manifest promises, and it answers for *)
(* every manifest that was accepted. *)
LEMMA DataIs ==
    ASSUME StoreInv, NEW f
    PROVE  /\ \A text \in GetFileData(f) : f \in fileManifests /\ text = Promised(f)
           /\ f \in fileManifests => Promised(f) \in GetFileData(f)
<1>1. ASSUME NEW text \in GetFileData(f) PROVE f \in fileManifests /\ text = Promised(f)
  <2>1. f \in fileManifests
    BY DEF GetFileData, GetFileManifest
  <2>2. HashBytes(text) = FileManifest[f].hash
    BY DEF GetFileData
  <2> QED
    BY <2>1, <2>2, HashIs DEF Promised
<1>2. ASSUME f \in fileManifests PROVE Promised(f) \in GetFileData(f)
  <2>1. Sound(f)
    BY <1>2 DEF StoreInv
  <2>2. PICK text : text = Concat[FileManifest[f].chunks]
    OBVIOUS
  <2>3. Len(text) = FileManifest[f].size /\ HashBytes(text) = FileManifest[f].hash
    BY <2>1, <2>2 DEF Sound
  <2>4. FileManifest[f] \in {m \in GetFileManifest(f) :
                               \A i \in DOMAIN m.chunks : GetChunkData(m.chunks[i]) # {}}
    BY <1>2, <2>1 DEF Sound, GetFileManifest, GetChunkData
  <2>5. text \in GetFileData(f)
    BY <2>2, <2>3, <2>4 DEF GetFileData
  <2>6. text = Promised(f)
    BY <2>3, HashIs DEF Promised
  <2> QED
    BY <2>5, <2>6
<1> QED
  BY <1>1, <1>2

-----------------------------------------------------------------------------
(* The export command. *)

IsList(s) == Len(s) \in Nat /\ DOMAIN s = 1 .. Len(s)

(* The files before the next one are exported, or were there encrypted; the targets of the *)
(* others are as the command found them, and what is to be written is the data of the next *)
(* file. *)
ExportInv ==
    /\ pc \in {"idle", "target", "manifest", "check", "fetch", "write", "success", "error"}
    /\ IsList(list)
    /\ pc \in {"target", "manifest"} => disk = before /\ next = 1
    /\ pc \in {"check", "fetch", "write"} =>
         /\ next \in DOMAIN list
         /\ \A i \in DOMAIN list : OnlyTarget(i) =>
              /\ i < next => LeftSealed(i) \/ Exact(list[i].path, list[i].id)
              /\ (next <= i /\ list[i].path \in DOMAIN disk) =>
                   list[i].path \in DOMAIN before /\ before[list[i].path] = disk[list[i].path]
    /\ pc = "write" =>
         \/ job.key = NoKey /\ data = Promised(Source)
         \/ job.key # NoKey /\ data \in Decrypt(Promised(Source), job.key)
    /\ ExportExact

(* Steps of the node, of the gateway, and steps that leave the list and the disk alone. *)
LEMMA ExportUnchanged ==
    ASSUME ExportInv, UNCHANGED exportVars
    PROVE  ExportInv'
<1>1. UNCHANGED <<disk, pc, job, list, next, data, before>>
  BY DEF exportVars, command, history
<1> QED
  BY <1>1 DEF ExportInv, IsList, OnlyTarget, LeftSealed, Exact, Source, Decrypt, ExportExact

LEMMA RunExportInv ==
    ASSUME ExportInv, NEW j, runExport(j)
    PROVE  ExportInv'
<1>1. disk' = disk /\ before' = disk /\ next' = 1
  BY DEF runExport
<1>2. CASE j.kind = "file"
  <2>1. pc' = "check" /\ list' = <<[path |-> j.path, id |-> j.id]>>
    BY <1>2 DEF runExport
  <2>2. Len(list') = 1 /\ DOMAIN list' = 1 .. 1 /\ IsList(list')
    BY <2>1 DEF IsList
  <2>3. ASSUME NEW i \in DOMAIN list'
        PROVE  /\ ~(i < next')
               /\ list'[i].path \in DOMAIN disk' =>
                    /\ list'[i].path \in DOMAIN before'
                    /\ before'[list'[i].path] = disk'[list'[i].path]
    BY <1>1, <2>2
  <2> QED
    BY <1>1, <2>1, <2>2, <2>3 DEF ExportInv, ExportExact
<1>3. CASE j.kind # "file"
  <2>1. pc' = "target" /\ list' = <<>>
    BY <1>3 DEF runExport
  <2>2. IsList(list')
    BY <2>1 DEF IsList
  <2> QED
    BY <1>1, <2>1, <2>2 DEF ExportInv, ExportExact
<1> QED
  BY <1>2, <1>3

LEMMA ExportEnds ==
    ASSUME ExportInv, pc' \in {"idle", "error"}, list' = list \/ list' = <<>>
    PROVE  ExportInv'
<1>1. IsList(list')
  BY DEF ExportInv, IsList
<1> QED
  BY <1>1 DEF ExportInv, ExportExact

LEMMA EnsureTargetInv ==
    ASSUME ExportInv, EnsureTarget
    PROVE  ExportInv'
<1>1. CASE pc' = "manifest" /\ UNCHANGED <<disk, command, history>>
  <2>1. pc = "target" /\ UNCHANGED <<disk, list, next, before>>
    BY <1>1 DEF EnsureTarget, command, history
  <2> QED
    BY <1>1, <2>1 DEF ExportInv, IsList, ExportExact
<1>2. CASE ReturnError
  BY <1>2, ExportEnds DEF ReturnError, command
<1> QED
  BY <1>1, <1>2 DEF EnsureTarget

LEMMA ExportDirectoryInv ==
    ASSUME StoreInv, ExportInv, ExportDirectory
    PROVE  ExportInv'
<1>1. CASE GetDirectoryManifest(job.id) = {}
  BY <1>1, ExportEnds DEF ExportDirectory, ReturnError, command
<1>2. CASE GetDirectoryManifest(job.id) # {}
  <2>1. PICK d : d = job.id /\ d \in dirManifests /\ d \in DOMAIN DirManifest
    BY <1>2 DEF GetDirectoryManifest, StoreInv
  <2>2. /\ list' = DirManifest[d] /\ pc' = IF DirManifest[d] = <<>> THEN "success" ELSE "check"
        /\ UNCHANGED <<disk, job, next, data, before>> /\ pc = "manifest"
    BY <2>1 DEF ExportDirectory, GetDirectoryManifest, history
  <2>3. DirManifest[d] \in Seq(Elements(DirManifest[d]))
    BY <2>1, ManifestAssumption
  <2>4. IsList(list')
    BY <2>2, <2>3 DEF IsList
  <2>5. disk' = before' /\ next' = 1
    BY <2>2 DEF ExportInv
  <2>6. CASE DirManifest[d] = <<>>
    <3>1. pc' = "success" /\ DOMAIN list' = {}
      BY <2>2, <2>6
    <3> QED
      BY <2>4, <3>1 DEF ExportInv, ExportExact
  <2>7. CASE DirManifest[d] # <<>>
    <3>1. pc' = "check" /\ Len(list') > 0
      BY <2>2, <2>3, <2>7
    <3>2. next' \in DOMAIN list'
      BY <2>4, <2>5, <3>1 DEF IsList
    <3>3. \A i \in DOMAIN list' : ~(i < next')
      BY <2>4, <2>5 DEF IsList
    <3> QED
      BY <2>4, <2>5, <3>1, <3>2, <3>3 DEF ExportInv, ExportExact
  <2> QED
    BY <2>6, <2>7
<1> QED
  BY <1>1, <1>2

(* The step only changes the file at one path. *)
OnlyChanges(path) ==
    \A p : p # path => /\ p \in DOMAIN disk' <=> p \in DOMAIN disk
                       /\ p \in DOMAIN disk => disk'[p] = disk[p]

(* On to the next file. *)
LEMMA NextFileInv ==
    ASSUME ExportInv, pc \in {"check", "write"}, NextFile, UNCHANGED <<job, list, before>>,
           OnlyChanges(Target), NEW t, t = Target, NEW f, f = Source,
           OnlyTarget(next) => LeftSealed(next) \/ Exact(t, f)'
    PROVE  ExportInv'
<1>1. PICK n : n = next
  OBVIOUS
<1>2. n \in DOMAIN list /\ IsList(list) /\ n \in Nat /\ t = list[n].path /\ f = list[n].id
  BY <1>1 DEF ExportInv, IsList, Target, Source
<1>3. ASSUME NEW i \in DOMAIN list, OnlyTarget(i), i < n, ~LeftSealed(i)
      PROVE  Exact(list[i].path, list[i].id)'
  <2>1. Exact(list[i].path, list[i].id)
    BY <1>1, <1>3 DEF ExportInv
  <2>2. list[i].path # t /\ t = Target
    BY <1>2, <1>3 DEF OnlyTarget, IsList
  <2>3. PICK p, x : p = list[i].path /\ x = list[i].id
    OBVIOUS
  <2>4. p \in DOMAIN disk' /\ disk'[p] = disk[p] /\ job' = job /\ before' = before
    BY <2>1, <2>2, <2>3 DEF OnlyChanges, Exact
  <2>5. Exact(p, x)'
    BY <2>1, <2>3, <2>4 DEF Exact, Decrypt
  <2> QED
    BY <2>3, <2>5
<1>4. OnlyTarget(n) => LeftSealed(n) \/ Exact(list[n].path, list[n].id)'
  BY <1>1, <1>2
<1>5. \A i \in DOMAIN list :
        OnlyTarget(i) /\ i < n + 1 /\ ~LeftSealed(i) => Exact(list[i].path, list[i].id)'
  <2> SUFFICES ASSUME NEW i \in DOMAIN list, OnlyTarget(i), i < n + 1, ~LeftSealed(i)
               PROVE  Exact(list[i].path, list[i].id)'
    OBVIOUS
  <2>1. i < n \/ i = n
    BY <1>2 DEF IsList
  <2> QED
    BY <1>3, <1>4, <2>1
<1>6. ASSUME NEW i \in DOMAIN list, OnlyTarget(i), n + 1 <= i, list[i].path \in DOMAIN disk'
      PROVE  list[i].path \in DOMAIN before /\ before[list[i].path] = disk'[list[i].path]
  <2>1. i # n /\ n <= i
    BY <1>2, <1>6 DEF IsList
  <2>2. list[i].path # Target
    BY <1>2, <1>6, <2>1 DEF OnlyTarget
  <2>3. list[i].path \in DOMAIN disk /\ disk'[list[i].path] = disk[list[i].path]
    BY <1>6, <2>2 DEF OnlyChanges
  <2> QED
    BY <1>1, <1>6, <2>1, <2>3 DEF ExportInv
<1>7. \A i : (OnlyTarget(i)' <=> OnlyTarget(i)) /\ (LeftSealed(i)' <=> LeftSealed(i))
  BY DEF OnlyTarget, LeftSealed
<1>8. CASE n = Len(list)
  <2>1. pc' = "success" /\ IsList(list')
    BY <1>1, <1>2, <1>8 DEF NextFile
  <2>2. \A i \in DOMAIN list : i < n + 1
    BY <1>2, <1>8 DEF IsList
  <2>3. ExportExact'
    BY <1>5, <1>7, <2>2 DEF ExportExact, Exact
  <2> QED
    BY <2>1, <2>3 DEF ExportInv
<1>9. CASE n # Len(list)
  <2>1. pc' = "check" /\ next' = n + 1 /\ IsList(list')
    BY <1>1, <1>2, <1>9 DEF NextFile
  <2>2. next' \in DOMAIN list'
    BY <1>2, <1>9, <2>1 DEF IsList
  <2>3. \A i \in DOMAIN list' : OnlyTarget(i)' =>
          /\ i < next' => LeftSealed(i)' \/ Exact(list[i].path, list[i].id)'
          /\ (next' <= i /\ list'[i].path \in DOMAIN disk') =>
               list'[i].path \in DOMAIN before' /\ before'[list'[i].path] = disk'[list'[i].path]
    BY <1>5, <1>6, <1>7, <2>1 DEF Exact
  <2> QED
    BY <2>1, <2>2, <2>3 DEF ExportInv, ExportExact
<1> QED
  BY <1>8, <1>9

(* A step of the same file that leaves the disk alone. *)
LEMMA SameFileInv ==
    ASSUME ExportInv, pc \in {"check", "fetch"}, pc' \in {"fetch", "write"},
           UNCHANGED <<disk, job, list, next, before>>,
           pc' = "write" => \/ job.key = NoKey /\ data' = Promised(Source)
                            \/ job.key # NoKey /\ data' \in Decrypt(Promised(Source), job.key)
    PROVE  ExportInv'
<1>1. IsList(list')
  BY DEF ExportInv
<1>2. /\ next' \in DOMAIN list'
      /\ \A i \in DOMAIN list' : OnlyTarget(i)' =>
           /\ i < next' => LeftSealed(i)' \/ Exact(list[i].path, list[i].id)'
           /\ (next' <= i /\ list'[i].path \in DOMAIN disk') =>
                list'[i].path \in DOMAIN before' /\ before'[list'[i].path] = disk'[list'[i].path]
  BY DEF ExportInv, OnlyTarget, LeftSealed, Exact, Decrypt
<1>3. pc' = "write" =>
        \/ job'.key = NoKey /\ data' = Promised(Source)'
        \/ job'.key # NoKey /\ data' \in Decrypt(Promised(Source), job.key)'
  BY DEF Source, Decrypt, Promised
<1> QED
  BY <1>1, <1>2, <1>3 DEF ExportInv, ExportExact

LEMMA CheckExistingInv ==
    ASSUME StoreInv, ExportInv, CheckExisting
    PROVE  ExportInv'
<1>1. CASE pc' = "fetch" /\ UNCHANGED <<disk, command, history>>
  BY <1>1, SameFileInv DEF CheckExisting, command, history
<1>2. CASE ReturnError
  BY <1>2, ExportEnds DEF ReturnError, command
<1>3. CASE /\ Target \in DOMAIN disk /\ NextFile
           /\ UNCHANGED <<stored, disk, dirs, job, list, history>>
           /\ \E manifest \in GetFileManifest(Source) : AlreadyExported(manifest)
  <2>1. PICK t, f, n : t = Target /\ f = Source /\ n = next
    OBVIOUS
  <2>2. FileManifest[f].hash = HashBytes(disk[t]) /\ t \in DOMAIN disk
    BY <1>3, <2>1 DEF GetFileManifest, AlreadyExported
  <2>3. disk[t] = Promised(f)
    BY <2>2, HashIs DEF Promised
  <2>4. UNCHANGED <<disk, job, list, before>>
    BY <1>3 DEF history
  <2>5. pc = "check" /\ n \in DOMAIN list /\ n <= n
    BY <2>1 DEF CheckExisting, ExportInv, IsList
  <2>6. OnlyTarget(n) => t \in DOMAIN before /\ before[t] = disk[t]
    BY <2>1, <2>2, <2>5 DEF ExportInv, Target
  <2>7. OnlyTarget(next) => LeftSealed(next) \/ Exact(t, f)'
    <3>1. CASE job.key = NoKey
      BY <2>2, <2>3, <2>4, <3>1 DEF Exact
    <3>2. CASE job.key # NoKey
      BY <2>1, <2>3, <2>6, <3>2 DEF LeftSealed, Target, Source
    <3> QED
      BY <3>1, <3>2
  <2>8. OnlyChanges(Target)
    BY <2>4 DEF OnlyChanges
  <2> QED
    BY <1>3, <2>1, <2>4, <2>5, <2>7, <2>8, NextFileInv
<1> QED
  BY <1>1, <1>2, <1>3 DEF CheckExisting

LEMMA StatFailsInv ==
    ASSUME ExportInv, StatFails
    PROVE  ExportInv'
BY SameFileInv DEF StatFails, command

LEMMA FetchDataInv ==
    ASSUME StoreInv, ExportInv, FetchData
    PROVE  ExportInv'
<1>1. CASE pc' = "error" /\ UNCHANGED command
  BY <1>1, ExportEnds DEF command
<1>2. CASE pc' # "error"
  <2>1. PICK text \in GetFileData(Source) \ {<<>>} : \E plain \in Fetched(text) : data' = plain
    BY <1>2 DEF FetchData, ReturnError
  <2>2. text = Promised(Source)
    BY <2>1, DataIs
  <2>3. data' \in Fetched(Promised(Source))
    BY <2>1, <2>2
  <2>4. \/ job.key = NoKey /\ data' = Promised(Source)
        \/ job.key # NoKey /\ data' \in Decrypt(Promised(Source), job.key)
    BY <2>3 DEF Fetched
  <2>5. pc = "fetch" /\ pc' = "write" /\ UNCHANGED <<disk, job, list, next, before>>
    BY <1>2 DEF FetchData, ReturnError, history
  <2> QED
    BY <2>4, <2>5, SameFileInv
<1> QED
  BY <1>1, <1>2 DEF FetchData, ReturnError

LEMMA WriteFileInv ==
    ASSUME ExportInv, WriteFile
    PROVE  ExportInv'
<1> SUFFICES ASSUME ~ReturnError PROVE ExportInv'
  BY ExportEnds DEF ReturnError, command
<1>1. PICK t, f : t = Target /\ f = Source
  OBVIOUS
<1>2. pc = "write" /\ Put(t, data) /\ NextFile /\ UNCHANGED <<job, list, before>>
  BY <1>1 DEF WriteFile, history
<1>3. t \in DOMAIN disk' /\ disk'[t] = data
  BY <1>2 DEF Put
<1>4. OnlyChanges(Target)
  BY <1>1, <1>2 DEF OnlyChanges, Put
<1>5. \/ job.key = NoKey /\ data = Promised(f)
      \/ job.key # NoKey /\ data \in Decrypt(Promised(f), job.key)
  BY <1>1, <1>2 DEF ExportInv
<1>6. Exact(t, f)'
  BY <1>2, <1>3, <1>5 DEF Exact, Decrypt
<1> QED
  BY <1>1, <1>2, <1>4, <1>6, NextFileInv

LEMMA ExportStepInv ==
    ASSUME StoreInv, ExportInv, ExportNext
    PROVE  ExportInv'
<1>1. CASE \E j \in Jobs : runExport(j)
  BY <1>1, RunExportInv
<1>2. CASE DiskFails \/ CallFails
  BY <1>2, ExportEnds DEF DiskFails, CallFails, command
<1>3. CASE Kill
  BY <1>3, ExportEnds DEF Kill
<1> QED
  BY <1>1, <1>2, <1>3, EnsureTargetInv, ExportDirectoryInv, CheckExistingInv, StatFailsInv,
     FetchDataInv, WriteFileInv DEF ExportNext

(* What the command needs as files and as directories. *)
Targets == {list[i].path : i \in DOMAIN list}
Needed == {<<>>} \cup UNION {Parents(path) : path \in Targets}

(* What the command has added to the disk it found is what it needs. *)
DiskInv ==
    /\ pc \in {"target", "manifest"} => dirs \subseteq beforeDirs \cup {<<>>}
    /\ pc \in {"check", "fetch", "write"} =>
         /\ DOMAIN disk \subseteq DOMAIN before \cup Targets
         /\ dirs \subseteq beforeDirs \cup Needed

LEMMA DiskUnchanged ==
    ASSUME DiskInv, UNCHANGED exportVars
    PROVE  DiskInv'
<1>1. UNCHANGED <<disk, dirs, pc, list, before, beforeDirs>>
  BY DEF exportVars, command, history
<1> QED
  BY <1>1 DEF DiskInv, Targets, Needed

(* A step within a list of files that leaves the disk alone. *)
LEMMA DiskSameList ==
    ASSUME DiskInv, pc \in {"check", "fetch"}, pc' \notin {"target", "manifest"},
           UNCHANGED <<disk, dirs, list, before, beforeDirs>>
    PROVE  DiskInv'
BY DEF DiskInv, Targets, Needed

LEMMA ExportStepDisk ==
    ASSUME ExportInv, DiskInv, ExportNext
    PROVE  DiskInv'
<1>1. CASE pc' \in {"idle", "success", "error"}
  BY <1>1 DEF DiskInv
<1>2. ASSUME NEW j \in Jobs, runExport(j) PROVE DiskInv'
  BY <1>2 DEF runExport, DiskInv
<1>3. CASE EnsureTarget
  BY <1>1, <1>3 DEF EnsureTarget, EnsureDir, ReturnError, history, DiskInv
<1>4. CASE ExportDirectory
  <2>1. SUFFICES ASSUME ~ReturnError PROVE DiskInv'
    BY <1>1 DEF ReturnError
  <2>2. /\ pc = "manifest" /\ pc' \in {"check", "success"}
        /\ UNCHANGED <<disk, dirs, before, beforeDirs>>
    BY <1>4, <2>1 DEF ExportDirectory, history
  <2>3. disk = before /\ dirs \subseteq beforeDirs \cup {<<>>}
    BY <2>2 DEF ExportInv, DiskInv
  <2> QED
    BY <2>2, <2>3 DEF DiskInv, Needed
<1>5. CASE CheckExisting \/ StatFails \/ FetchData
  <2>1. /\ pc \in {"check", "fetch"} /\ pc' \in {"check", "fetch", "write", "success", "error"}
        /\ UNCHANGED <<disk, dirs, list, before, beforeDirs>>
    BY <1>5 DEF CheckExisting, StatFails, FetchData, ReturnError, NextFile, command, history
  <2> QED
    BY <2>1, DiskSameList
<1>6. CASE WriteFile
  <2>1. SUFFICES ASSUME ~ReturnError PROVE DiskInv'
    BY <1>1 DEF ReturnError
  <2>2. PICK t : t = Target /\ t \in Targets
    BY <1>6 DEF WriteFile, ExportInv, Target, Targets
  <2>3. /\ DOMAIN disk' = DOMAIN disk \cup {t} /\ dirs' = dirs \cup Parents(t) /\ pc = "write"
        /\ pc' \in {"check", "success"} /\ UNCHANGED <<list, before, beforeDirs>>
    BY <1>6, <2>1, <2>2 DEF WriteFile, EnsureDir, Put, NextFile, history
  <2>4. Parents(t) \subseteq Needed
    BY <2>2 DEF Needed
  <2>5. UNCHANGED <<Targets, Needed>>
    BY <2>3 DEF Targets, Needed
  <2> QED
    BY <2>2, <2>3, <2>4, <2>5 DEF DiskInv
<1>7. CASE DiskFails \/ CallFails \/ Kill
  BY <1>1, <1>7 DEF DiskFails, CallFails, Kill
<1> QED
  BY <1>2, <1>3, <1>4, <1>5, <1>6, <1>7 DEF ExportNext

(* The errors of the disk that are not a failure: an entry was in the way at the beginning, *)
(* or the command needs it as a file and as a directory. *)
LEMMA BlockedIs ==
    ASSUME ExportInv, DiskInv, pc \in {"check", "write"}, UNCHANGED <<list, before, beforeDirs>>,
           Target \in dirs \/ Parents(Target) \cap DOMAIN disk # {}
    PROVE  Obstructed'
<1>1. PICK t : t = Target /\ t \in Targets
  BY DEF ExportInv, Target, Targets
<1>2. Parents(t) \subseteq Needed
  BY <1>1 DEF Needed
<1>3. \/ Needed \cap (Targets \cup DOMAIN before) # {}
      \/ Targets \cap beforeDirs # {}
  <2>1. DOMAIN disk \subseteq DOMAIN before \cup Targets /\ dirs \subseteq beforeDirs \cup Needed
    BY DEF DiskInv
  <2>2. CASE t \in dirs
    BY <1>1, <2>1, <2>2
  <2>3. CASE Parents(t) \cap DOMAIN disk # {}
    BY <1>2, <2>1, <2>3
  <2> QED
    BY <1>1, <2>2, <2>3
<1>4. Obstructed
  BY <1>3 DEF Obstructed, Targets, Needed
<1> QED
  BY <1>4 DEF Obstructed

(* What was there when the command began is still there, so that the command gets it. *)
ReadyInv ==
    /\ pc \in {"target", "manifest"} /\ ready => job.id \in dirManifests
    /\ pc \in {"check", "fetch", "write"} /\ ready =>
         \A i \in DOMAIN list : list[i].id \in fileManifests
    /\ ExportCompletes

LEMMA ReadyKept ==
    ASSUME ReadyInv, StoreGrows, UNCHANGED exportVars
    PROVE  ReadyInv'
<1>1. UNCHANGED <<pc, job, list, ready, failed, before, beforeDirs>>
  BY DEF exportVars, command, history
<1>2. Obstructed' <=> Obstructed
  BY <1>1 DEF Obstructed
<1> QED
  BY <1>1, <1>2 DEF ReadyInv, StoreGrows, ExportCompletes, Exportable, Decrypt

(* A step within a list of files. *)
LEMMA ReadySameList ==
    ASSUME ReadyInv, pc \in {"check", "fetch", "write"}, UNCHANGED <<stored, list, ready>>,
           pc' \in {"check", "fetch", "write", "success"}
    PROVE  ReadyInv'
BY DEF ReadyInv, ExportCompletes, stored

(* A step that reports an error because of a call or the disk, or of what is in the way. *)
LEMMA ReadyFails ==
    ASSUME pc' \in {"error", "idle"}, failed' = TRUE \/ Obstructed' \/ pc' = "idle"
    PROVE  ReadyInv'
<1>1. pc' = "error" => failed' \/ Obstructed'
  OBVIOUS
<1> QED
  BY <1>1 DEF ReadyInv, ExportCompletes

LEMMA ExportStepReady ==
    ASSUME StoreInv, ExportInv, DiskInv, ReadyInv, ExportNext
    PROVE  ReadyInv'
<1>1. ASSUME NEW j \in Jobs, runExport(j) PROVE ReadyInv'
  <2>1. job' = j /\ UNCHANGED <<fileManifests, dirManifests>>
    BY <1>1 DEF runExport, stored
  <2>2. CASE j.kind = "file"
    <3>1. pc' = "check" /\ list' = <<[path |-> j.path, id |-> j.id]>>
      BY <1>1, <2>2 DEF runExport
    <3>2. ready' => j.id \in fileManifests
      BY <1>1, <2>2 DEF runExport
    <3>3. \A i \in DOMAIN list' : list'[i].id = j.id
      BY <3>1
    <3> QED
      BY <2>1, <3>1, <3>2, <3>3 DEF ReadyInv, ExportCompletes
  <2>3. CASE j.kind # "file"
    <3>1. pc' = "target"
      BY <1>1, <2>3 DEF runExport
    <3>2. ready' => j.id \in dirManifests
      BY <1>1, <2>3 DEF runExport
    <3> QED
      BY <2>1, <3>1, <3>2 DEF ReadyInv, ExportCompletes
  <2> QED
    BY <2>2, <2>3
<1>2. CASE ExportDirectory
  <2>1. pc = "manifest" /\ UNCHANGED <<stored, ready>>
    BY <1>2 DEF ExportDirectory, ReturnError, history
  <2>2. CASE job.id \in dirManifests
    <3>1. list' = DirManifest[job.id] /\ pc' \in {"check", "success"}
      BY <1>2, <2>2 DEF ExportDirectory, GetDirectoryManifest
    <3>2. \A i \in DOMAIN list' : list'[i].id \in fileManifests'
      BY <2>1, <2>2, <3>1 DEF StoreInv, stored
    <3> QED
      BY <3>1, <3>2 DEF ReadyInv, ExportCompletes
  <2>3. CASE job.id \notin dirManifests
    <3>1. ~ready'
      BY <2>1, <2>3 DEF ReadyInv
    <3>2. pc' = "error"
      BY <1>2, <2>3 DEF ExportDirectory, GetDirectoryManifest, ReturnError
    <3> QED
      BY <3>1, <3>2 DEF ReadyInv, ExportCompletes
  <2> QED
    BY <2>2, <2>3
<1>3. CASE CheckExisting
  <2>1. pc = "check" /\ UNCHANGED <<stored, list, ready>>
    BY <1>3 DEF CheckExisting, ReturnError, command, history
  <2>2. CASE pc' # "error"
    <3>1. pc' \in {"check", "fetch", "success"}
      BY <1>3, <2>2 DEF CheckExisting, ReturnError, NextFile
    <3> QED
      BY <2>1, <3>1, ReadySameList
  <2>3. CASE pc' = "error" /\ Target \in dirs
    <3>1. UNCHANGED <<list, before, beforeDirs>>
      BY <1>3, <2>3 DEF CheckExisting, ReturnError, NextFile, command
    <3> QED
      BY <2>1, <2>3, <3>1, BlockedIs, ReadyFails
  <2>4. CASE pc' = "error" /\ Target \notin dirs
    <3>1. GetFileManifest(Source) = {}
      BY <1>3, <2>4 DEF CheckExisting, NextFile
    <3>2. list[next].id \notin fileManifests
      BY <3>1 DEF GetFileManifest, Source
    <3>3. ~ready'
      BY <2>1, <3>2 DEF ReadyInv, ExportInv
    <3> QED
      BY <2>4, <3>3 DEF ReadyInv, ExportCompletes
  <2> QED
    BY <2>2, <2>3, <2>4
<1>4. CASE FetchData
  <2>1. pc = "fetch" /\ UNCHANGED <<stored, list, ready, job>>
    BY <1>4 DEF FetchData, ReturnError, command, history
  <2>2. CASE pc' # "error"
    <3>1. pc' = "write"
      BY <1>4, <2>2 DEF FetchData, ReturnError
    <3> QED
      BY <2>1, <3>1, ReadySameList
  <2>3. CASE pc' = "error"
    <3>1. \A text \in GetFileData(Source) \ {<<>>} : Fetched(text) = {}
      BY <1>4, <2>3 DEF FetchData
    <3>2. PICK n, f : n = next /\ f = Source /\ n \in DOMAIN list /\ f = list[n].id
      BY <2>1 DEF ExportInv, Source
    <3>3. CASE f \in fileManifests
      <4>1. Promised(f) \in GetFileData(f)
        BY <3>3, DataIs
      <4>2. Promised(f) = <<>> \/ Fetched(Promised(f)) = {}
        BY <3>1, <3>2, <4>1
      <4>3. Promised(f) = <<>> \/ (job.key # NoKey /\ Decrypt(Promised(f), job.key) = {})
        BY <4>2 DEF Fetched
      <4>4. ~Exportable(f)'
        BY <2>1, <4>3 DEF Exportable, Decrypt
      <4>5. n \in DOMAIN list' /\ ~Exportable(list[n].id)'
        BY <2>1, <3>2, <4>4 DEF Exportable
      <4> QED
        BY <2>3, <4>5 DEF ReadyInv, ExportCompletes
    <3>4. CASE f \notin fileManifests
      <4>1. ~ready'
        BY <2>1, <3>2, <3>4 DEF ReadyInv
      <4> QED
        BY <2>3, <4>1 DEF ReadyInv, ExportCompletes
    <3> QED
      BY <3>3, <3>4
  <2> QED
    BY <2>2, <2>3
<1>5. CASE WriteFile
  <2>1. CASE ReturnError
    <3>1. pc = "write" /\ (Target \in dirs \/ Parents(Target) \cap DOMAIN disk # {})
      BY <1>5, <2>1 DEF WriteFile, ReturnError, NextFile
    <3>2. pc' = "error" /\ UNCHANGED <<list, before, beforeDirs>>
      BY <2>1 DEF ReturnError, command
    <3> QED
      BY <3>1, <3>2, BlockedIs, ReadyFails
  <2>2. CASE ~ReturnError
    BY <1>5, <2>2, ReadySameList DEF WriteFile, NextFile, history
  <2> QED
    BY <2>1, <2>2
<1>6. CASE StatFails
  BY <1>6, ReadySameList DEF StatFails, command
<1>7. CASE DiskFails \/ CallFails \/ Kill
  BY <1>7, ReadyFails DEF DiskFails, CallFails, Kill
<1>8. CASE EnsureTarget
  <2>1. pc = "target" /\ UNCHANGED <<stored, job, ready, before>>
    BY <1>8 DEF EnsureTarget, ReturnError, command, history
  <2>2. CASE pc' = "manifest"
    BY <2>1, <2>2 DEF ReadyInv, ExportCompletes, stored
  <2>3. CASE pc' # "manifest"
    <3>1. pc' = "error" /\ <<>> \in DOMAIN disk
      BY <1>8, <2>3 DEF EnsureTarget, ReturnError
    <3>2. <<>> \in DOMAIN before'
      BY <2>1, <3>1 DEF ExportInv
    <3>3. Obstructed'
      BY <3>2 DEF Obstructed
    <3> QED
      BY <3>1, <3>3, ReadyFails
  <2> QED
    BY <2>2, <2>3
<1> QED
  BY <1>1, <1>2, <1>3, <1>4, <1>5, <1>6, <1>7, <1>8 DEF ExportNext

-----------------------------------------------------------------------------
(* The gateway. *)

(* The file that is served is the one that was asked for and was accepted; an identifier *)
(* that was there when it was asked for still is. *)
GatewayInv ==
    /\ request = [id |-> request.id, subPath |-> request.subPath, page |-> request.page,
                  range |-> request.range]
    /\ request.range \in Ranges \cup {NoRange}
    /\ known => request.id \in dirManifests \cup fileManifests
    /\ at = "file" /\ known => lost \/ request.id \in fileManifests
    /\ at \in {"manifest", "data"} => fileId \in fileManifests /\ fileId \in Asked
    /\ GatewayServes

LEMMA RenderIsListing ==
    ASSUME NEW files, NEW manifests
    PROVE  /\ RenderDirectory(files, manifests).status = 200
           /\ RenderDirectory(files, manifests).listing
BY DEF RenderDirectory

(* What the Content-Range of a response r to a range of a file with these bytes says. *)
RangeExactly(r, text, range) ==
    /\ r.end < Len(text)
    /\ r.body = SubSeq(text, r.start + 1, r.end + 1)
    /\ Len(r.body) = r.end - r.start + 1
    /\ range.first # Blank =>
         \A i \in 0 .. Len(text) - 1 :
            (range.first <= i /\ (range.last # Blank => i <= range.last))
              <=> (r.start <= i /\ i <= r.end)

LEMMA ServeRangeIs ==
    ASSUME NEW text, text \in Seq(Elements(text)),
           NEW range \in [first : Nat \cup {Blank}, last : Nat \cup {Blank}],
           NEW r, r = ServeRange(text, range)
    PROVE  r.status = 416 \/ (r.status = 206 /\ RangeExactly(r, text, range))
<1>1. PICK start, end, n :
        /\ start = (IF range.first = Blank THEN 0 ELSE range.first) /\ n = Len(text)
        /\ end = (IF range.last = Blank \/ range.last >= Len(text) THEN Len(text) - 1
                  ELSE range.last)
  OBVIOUS
<1>2. Blank \notin Nat
  BY GatewayAssumption
<1>3. /\ n \in Nat /\ start \in Nat /\ end \in Int
      /\ range.first \in Nat \cup {Blank} /\ range.last \in Nat \cup {Blank}
  BY <1>1, <1>2
<1>4. CASE start >= n \/ start > end
  <2>1. r = Error(416)
    BY <1>1, <1>4 DEF ServeRange
  <2> QED
    BY <2>1 DEF Error
<1>5. CASE ~(start >= n \/ start > end)
  <2>1. PICK body : /\ body = SubSeq(text, start + 1, end + 1)
                    /\ r = [status |-> 206, start |-> start, end |-> end, body |-> body]
    BY <1>1, <1>5 DEF ServeRange
  <2>2. r.status = 206 /\ r.start = start /\ r.end = end /\ r.body = body
    <3>1. r = [status |-> 206, start |-> start, end |-> end, body |-> body]
      BY <2>1
    <3> QED
      BY ONLY <3>1, SMT
  <2>3. end < n /\ start <= end /\ end \in Nat
    BY <1>1, <1>3, <1>5
  <2>4. Len(body) = end - start + 1
    <3>1. PICK a \in Int, b \in Int : a = start + 1 /\ b = end + 1 /\ a \in 1 .. n /\ b \in a .. n
      BY <1>3, <2>3
    <3>2. \A i \in a .. b : text[i] \in Elements(text)
      BY <1>1, <1>3, <3>1 DEF Elements
    <3>3. Len(SubSeq(text, a, b)) = IF a <= b THEN b - a + 1 ELSE 0
      BY <3>2, SubSeqProperties
    <3> QED
      BY <1>3, <2>1, <2>3, <3>1, <3>3
  <2>5. ASSUME range.first # Blank, NEW i \in 0 .. Len(text) - 1
        PROVE  (range.first <= i /\ (range.last # Blank => i <= range.last))
                 <=> (start <= i /\ i <= end)
    <3>1. start = range.first
      BY <1>1, <2>5
    <3>2. (range.last # Blank => i <= range.last) <=> i <= end
      <4>1. CASE range.last = Blank
        BY <1>1, <1>3, <4>1
      <4>2. CASE range.last # Blank
        <5>1. range.last \in Nat
          BY <1>3, <4>2
        <5> QED
          BY <1>1, <1>3, <4>2, <5>1
      <4> QED
        BY <4>1, <4>2
    <3> QED
      BY <3>1, <3>2
  <2>6. RangeExactly(r, text, range)
    <3>1. r.end < Len(text) /\ r.body = SubSeq(text, r.start + 1, r.end + 1)
          /\ Len(r.body) = r.end - r.start + 1
      BY <1>1, <2>1, <2>2, <2>3, <2>4
    <3>2. range.first # Blank =>
            \A i \in 0 .. Len(text) - 1 :
               (range.first <= i /\ (range.last # Blank => i <= range.last))
                 <=> (r.start <= i /\ i <= r.end)
      BY <2>2, <2>5, Zenon
    <3> QED
      BY <3>1, <3>2, Zenon DEF RangeExactly
  <2> QED
    BY <2>2, <2>6
<1> QED
  BY <1>4, <1>5

(* How serveFile answers with the data of a file. *)
LEMMA ServeIs ==
    ASSUME NEW f \in DOMAIN FileManifest, request.range \in Ranges \cup {NoRange},
           NEW r, r = Serve(Contents(f))
    PROVE  \/ r.status = 416
           \/ r.status = 200 /\ r.body = Contents(f)
           \/ r.status = 206 /\ RangeExactly(r, Contents(f), request.range)
<1>1. PICK text, range : text = Contents(f) /\ range = request.range
  OBVIOUS
<1>2. text \in Seq(Elements(text))
  BY <1>1, ManifestAssumption DEF Contents
<1>3. CASE range = NoRange \/ range = BadRange
  <2>1. r = [status |-> 200, listing |-> FALSE, body |-> text] \/ r = Error(416)
    BY <1>1, <1>3 DEF Serve
  <2> QED
    BY <1>1, <2>1 DEF Error
<1>4. CASE ~(range = NoRange \/ range = BadRange)
  <2>1. r = ServeRange(text, range)
    BY <1>1, <1>4 DEF Serve
  <2>2. range \in [first : Nat \cup {Blank}, last : Nat \cup {Blank}]
    BY <1>1, <1>4, GatewayAssumption
  <2>3. r.status = 416 \/ (r.status = 206 /\ RangeExactly(r, text, range))
    BY <1>2, <2>1, <2>2, ServeRangeIs
  <2> QED
    BY <1>1, <2>3
<1> QED
  BY <1>3, <1>4

(* GatewayServes, of a response that is given now. *)
Right(r) ==
    /\ r.status = 200 /\ ~r.listing => \E f \in Asked : r.body = Contents(f)
    /\ r.status = 206 => \E f \in Asked : RangeExactly(r, Contents(f), request.range)
    /\ r.status \in {404, 500} /\ known => lost

LEMMA ServesIsRight ==
    ASSUME at' = "done" => Right(response)'
    PROVE  GatewayServes'
<1>1. CASE at' = "done"
  <2>1. Right(response)'
    BY <1>1
  <2>2. response'.status = 200 /\ ~response'.listing => \E f \in Asked' : response'.body = Contents(f)
    BY <2>1 DEF Right
  <2>3. response'.status \in {404, 500} /\ known' => lost'
    BY <2>1 DEF Right
  <2>4. response'.status = 206 => (\E f \in Asked : RangeExactly(response, Contents(f), request.range))'
    BY <2>1 DEF Right
  <2> QED
    BY <2>2, <2>3, <2>4, Zenon DEF GatewayServes, RangeExactly
<1>2. CASE at' # "done"
  BY <1>2 DEF GatewayServes
<1> QED
  BY <1>1, <1>2

(* A step of the gateway that responds. *)
LEMMA Answers ==
    ASSUME GatewayInv, at' = "done", UNCHANGED <<stored, request, known>>, Right(response)'
    PROVE  GatewayInv'
<1>1. GatewayServes'
  BY ServesIsRight
<1> QED
  BY <1>1 DEF GatewayInv, stored

(* A step of the gateway to another call. *)
LEMMA Proceeds ==
    ASSUME GatewayInv, at' # "done", at' # "file", StoreGrows, UNCHANGED <<request, known>>,
           at' \in {"manifest", "data"} => fileId' \in fileManifests' /\ fileId' \in Asked
    PROVE  GatewayInv'
<1>1. Asked' = Asked
  BY DEF Asked, Lookup
<1> QED
  BY <1>1 DEF GatewayInv, StoreGrows, GatewayServes

LEMMA GatewayUnchanged ==
    ASSUME GatewayInv, StoreGrows, UNCHANGED gatewayVars
    PROVE  GatewayInv'
<1>1. UNCHANGED <<at, request, fileId, response, known, lost>>
  BY DEF gatewayVars
<1>2. Asked' = Asked
  BY <1>1 DEF Asked, Lookup
<1>3. GatewayServes'
  BY <1>1, <1>2 DEF GatewayInv, GatewayServes
<1> QED
  BY <1>1, <1>2, <1>3 DEF GatewayInv, StoreGrows

LEMMA LookupFinds ==
    ASSUME NEW files, NEW path, NEW f \in Lookup(files, path)
    PROVE  \E i \in DOMAIN files : f = files[i].id
BY DEF Lookup

LEMMA directoryHandlerInv ==
    ASSUME StoreInv, GatewayInv, directoryHandler
    PROVE  GatewayInv'
<1>1. UNCHANGED <<stored, request, known, lost>> /\ StoreGrows
  BY DEF directoryHandler, Goes, Responds, StoreGrows, stored
<1>2. CASE /\ at = "directory" /\ GetDirectoryManifest(request.id) = {}
           /\ Goes("file") /\ UNCHANGED fileId
  <2>1. request.id \notin dirManifests /\ at' = "file"
    BY <1>2 DEF GetDirectoryManifest, Goes
  <2>2. known' => request'.id \in fileManifests'
    BY <1>1, <2>1 DEF GatewayInv, stored
  <2> QED
    BY <1>1, <2>1, <2>2 DEF GatewayInv, GatewayServes, stored
<1>3. CASE /\ at = "directory"
           /\ \E files \in GetDirectoryManifest(request.id) :
                \/ \E f \in Lookup(files, request.subPath) : fileId' = f /\ Goes("manifest")
                \/ /\ Lookup(files, request.subPath) = {}
                   /\ Goes("batch") /\ UNCHANGED fileId
  <2>1. request.id \in dirManifests /\ request.id \in DOMAIN DirManifest
    BY <1>3 DEF GetDirectoryManifest, StoreInv
  <2>2. PICK files : files = DirManifest[request.id]
    OBVIOUS
  <2>3. CASE at' = "batch"
    BY <1>1, <2>3, Proceeds
  <2>4. CASE at' # "batch"
    <3>1. fileId' \in Lookup(files, request.subPath) /\ at' = "manifest"
      BY <1>3, <2>1, <2>2, <2>4 DEF GetDirectoryManifest, Goes
    <3>2. fileId' \in fileManifests
      BY <2>1, <2>2, <3>1, LookupFinds DEF StoreInv
    <3>3. fileId' \in Asked
      BY <2>1, <2>2, <3>1 DEF Asked
    <3> QED
      BY <1>1, <3>1, <3>2, <3>3, Proceeds DEF stored
  <2> QED
    BY <2>3, <2>4
<1>4. CASE /\ at = "file" /\ GetFileManifest(request.id) # {}
           /\ fileId' = request.id /\ Goes("manifest")
  <2>1. request.id \in fileManifests /\ request.id \in DOMAIN FileManifest
    BY <1>4 DEF GetFileManifest, StoreInv, Sound
  <2>2. request.id \in Asked
    BY <2>1, ManifestAssumption DEF Asked
  <2>3. at' = "manifest"
    BY <1>4 DEF Goes
  <2> QED
    BY <1>1, <1>4, <2>1, <2>2, <2>3, Proceeds DEF stored
<1>5. CASE at = "file" /\ GetFileManifest(request.id) = {} /\ Responds(Error(404))
  <2>1. request.id \notin fileManifests
    BY <1>5 DEF GetFileManifest
  <2>2. known' => lost'
    BY <1>1, <1>5, <2>1 DEF GatewayInv
  <2>3. response' = [status |-> 404] /\ at' = "done"
    BY <1>5 DEF Responds, Error
  <2>4. response'.status = 404
    BY <2>3
  <2>5. Right(response)'
    BY <2>2, <2>4 DEF Right
  <2> QED
    BY <1>1, <2>3, <2>5, Answers
<1> QED
  BY <1>2, <1>3, <1>4, <1>5 DEF directoryHandler

LEMMA listDirectoryInv ==
    ASSUME GatewayInv, listDirectory
    PROVE  GatewayInv'
<1>1. PICK files, manifests : Responds(RenderDirectory(files, manifests))
  BY DEF listDirectory
<1>2. at' = "done" /\ UNCHANGED <<stored, request, known>>
  BY <1>1 DEF Responds
<1>3. response'.status = 200 /\ response'.listing
  BY <1>1, RenderIsListing DEF Responds
<1>4. Right(response)'
  BY <1>3 DEF Right
<1> QED
  BY <1>2, <1>4, Answers

LEMMA serveFileInv ==
    ASSUME StoreInv, GatewayInv, serveFile
    PROVE  GatewayInv'
<1>1. /\ UNCHANGED <<stored, request, known, fileId>> /\ StoreGrows
      /\ at \in {"manifest", "data"}
  BY DEF serveFile, Goes, Responds, StoreGrows, stored
<1>2. fileId \in fileManifests /\ fileId \in Asked /\ fileId \in DOMAIN FileManifest
  BY <1>1 DEF GatewayInv, StoreInv, Sound
<1>3. GetFileManifest(fileId) # {} /\ GetFileData(fileId) # {}
  BY <1>2, DataIs DEF GetFileManifest
<1>4. CASE at = "manifest" /\ Goes("data")
  BY <1>1, <1>2, <1>4, Proceeds DEF Goes, stored
<1>5. CASE at = "data" /\ \E text \in GetFileData(fileId) : Responds(Serve(text))
  <2>1. PICK r, f : f = fileId /\ r = Serve(Contents(f)) /\ response' = r /\ at' = "done"
    <3>1. PICK text \in GetFileData(fileId) : Responds(Serve(text))
      BY <1>5
    <3>2. text = Contents(fileId)
      BY <3>1, DataIs DEF Promised, Contents
    <3> QED
      BY <3>1, <3>2 DEF Responds
  <2>2. \/ r.status = 416
        \/ r.status = 200 /\ r.body = Contents(f)
        \/ r.status = 206 /\ RangeExactly(r, Contents(f), request.range)
    BY <1>2, <2>1, ServeIs DEF GatewayInv
  <2>3. Asked' = Asked /\ f \in Asked
    BY <1>1, <1>2, <2>1 DEF Asked, Lookup
  <2>4. Right(response)'
    <3>1. CASE r.status = 416
      BY <2>1, <3>1 DEF Right
    <3>2. CASE r.status = 200 /\ r.body = Contents(f)
      BY <2>1, <2>3, <3>2 DEF Right
    <3>3. CASE r.status = 206 /\ RangeExactly(r, Contents(f), request.range)
      <4>1. (\E g \in Asked : RangeExactly(response, Contents(g), request.range))'
        BY <1>1, <2>1, <2>3, <3>3 DEF RangeExactly
      <4> QED
        BY <2>1, <3>3, <4>1 DEF Right
    <3> QED
      BY <2>2, <3>1, <3>2, <3>3
  <2> QED
    BY <1>1, <2>1, <2>4, Answers
<1> QED
  BY <1>3, <1>4, <1>5 DEF serveFile

LEMMA CallFailsInv ==
    ASSUME StoreInv, GatewayInv, GatewayCallFails
    PROVE  GatewayInv'
<1>1. UNCHANGED <<stored, request, known, fileId>> /\ lost' = TRUE
  BY DEF GatewayCallFails
<1>2. lost'
  BY <1>1
<1>3. CASE at' = "file"
  BY <1>1, <1>2, <1>3 DEF GatewayInv, GatewayServes, stored
<1>4. CASE at' = "done" /\ (response' = Error(404) \/ response' = Error(500))
  <2>1. response'.status = 404 \/ response'.status = 500
    BY <1>4 DEF Error
  <2>2. Right(response)'
    BY <1>2, <2>1 DEF Right
  <2> QED
    BY <1>1, <1>4, <2>2, Answers
<1>5. CASE at' = "done" /\ response' = RenderDirectory(DirManifest[request.id], {})
  <2>1. response'.status = 200 /\ response'.listing
    BY <1>5, RenderIsListing
  <2>2. Right(response)'
    BY <2>1 DEF Right
  <2> QED
    BY <1>1, <1>5, <2>2, Answers
<1> QED
  BY <1>3, <1>4, <1>5 DEF GatewayCallFails

LEMMA GetInv ==
    ASSUME NEW id, NEW subPath, NEW page, NEW range \in Ranges \cup {NoRange},
           Get(id, subPath, page, range)
    PROVE  GatewayInv'
<1>1. /\ request' = [id |-> id, subPath |-> subPath, page |-> page, range |-> range]
      /\ at' = "directory" /\ UNCHANGED stored
  BY DEF Get
<1>2. known' => id \in dirManifests \cup fileManifests
  BY DEF Get
<1>3. /\ request'.id = id /\ request'.subPath = subPath /\ request'.page = page
      /\ request'.range = range
  BY <1>1
<1> QED
  BY <1>1, <1>2, <1>3 DEF GatewayInv, GatewayServes, stored

LEMMA FollowInv ==
    ASSUME GatewayInv, Follow
    PROVE  GatewayInv'
<1>1. UNCHANGED <<stored, known>> /\ at' \in {"browsed", "directory"}
  BY DEF Follow
<1>2. PICK p : request' = request \/ request' = [request EXCEPT !.subPath = p[1], !.page = p[2]]
  BY DEF Follow
<1>3. request = [id |-> request.id, subPath |-> request.subPath, page |-> request.page,
                 range |-> request.range]
  BY DEF GatewayInv
<1>4. PICK sub, page : request' = [id |-> request.id, subPath |-> sub, page |-> page,
                                   range |-> request.range]
  BY <1>2, <1>3
<1>5. /\ request'.id = request.id /\ request'.range = request.range
      /\ request'.subPath = sub /\ request'.page = page
  BY <1>4
<1> QED
  BY <1>1, <1>4, <1>5 DEF GatewayInv, GatewayServes, stored

LEMMA LeaveInv ==
    ASSUME Leave
    PROVE  GatewayInv'
<1>1. at' = "idle" /\ request' = None /\ ~known'
  BY DEF Leave
<1>2. None = [id |-> None.id, subPath |-> None.subPath, page |-> None.page, range |-> None.range]
      /\ None.range = NoRange
  BY DEF None
<1> QED
  BY <1>1, <1>2 DEF GatewayInv, GatewayServes

LEMMA GatewayStepInv ==
    ASSUME StoreInv, GatewayInv, GatewayNext
    PROVE  GatewayInv'
<1>1. CASE Download
  <2>1. PICK id, subPath, page, range :
          range \in Ranges \cup {NoRange} /\ Get(id, subPath, page, range)
    BY <1>1 DEF Download
  <2> QED
    BY <2>1, GetInv
<1>2. ASSUME NEW d, Browse(d) PROVE GatewayInv'
  <2>1. Get(d, <<>>, 1, NoRange)
    BY <1>2 DEF Browse
  <2> QED
    BY <2>1, GetInv
<1> QED
  BY <1>1, <1>2, directoryHandlerInv, listDirectoryInv, serveFileInv, CallFailsInv, FollowInv,
     LeaveInv DEF GatewayNext

-----------------------------------------------------------------------------
(* The node and its clients. *)

IInv == StoreInv /\ ExportInv /\ DiskInv /\ ReadyInv /\ GatewayInv

LEMMA InitIInv == Init => IInv
<1> SUFFICES ASSUME Init PROVE IInv
  OBVIOUS
<1>1. StoreInv
  BY DEF Init, StoreInit, StoreInv
<1>2. pc = "idle" /\ list = <<>>
  BY DEF Init, ExportInit
<1>3. ExportInv
  BY <1>2 DEF ExportInv, IsList, ExportExact
<1>4. DiskInv /\ ReadyInv
  BY <1>2 DEF DiskInv, ReadyInv, ExportCompletes
<1>5. at = "idle" /\ request = None /\ ~known
  BY DEF Init, GatewayInit
<1>6. None = [id |-> None.id, subPath |-> None.subPath, page |-> None.page, range |-> None.range]
      /\ None.range = NoRange
  BY DEF None
<1>7. GatewayInv
  BY <1>5, <1>6 DEF GatewayInv, GatewayServes
<1> QED
  BY <1>1, <1>3, <1>4, <1>7 DEF IInv

LEMMA ClientsRead ==
    ASSUME ExportNext \/ GatewayNext
    PROVE  UNCHANGED stored
BY DEF ExportNext, runExport, EnsureTarget, ExportDirectory, CheckExisting, StatFails, FetchData,
       WriteFile, DiskFails, CallFails, Kill, ReturnError, GatewayNext, directoryHandler, listDirectory, serveFile,
       GatewayCallFails, Goes, Responds, Download, Browse, Get, Follow, Leave

LEMMA NextIInv == IInv /\ [Next]_vars => IInv'
<1> SUFFICES ASSUME IInv, [Next]_vars PROVE IInv'
  OBVIOUS
<1> USE DEF IInv
<1>1. CASE Sync /\ UNCHANGED <<exportVars, gatewayVars, client>>
  BY <1>1, SyncStore, SyncGrows, ExportUnchanged, DiskUnchanged, ReadyKept, GatewayUnchanged
<1>2. CASE ExportNext /\ UNCHANGED gatewayVars
  BY <1>2, ClientsRead, StoreUnchanged, ExportStepInv, ExportStepDisk, ExportStepReady, GatewayUnchanged
<1>3. CASE GatewayNext /\ UNCHANGED exportVars
  BY <1>3, ClientsRead, StoreUnchanged, ExportUnchanged, DiskUnchanged, ReadyKept, GatewayStepInv
<1>4. CASE UNCHANGED vars
  BY <1>4, StoreUnchanged, ExportUnchanged, DiskUnchanged, ReadyKept, GatewayUnchanged DEF vars
<1> QED
  BY <1>1, <1>2, <1>3, <1>4 DEF Next

LEMMA Invariance == Spec => []IInv
BY InitIInv, NextIInv, PTL DEF Spec

(* A successful export has left exactly the files' data at their targets, encrypted only *)
(* where a key was given and it was there encrypted before: ExportExact for every directory *)
(* and file, every disk, and wherever calls, the disk and commands fail. *)
THEOREM ExactTheorem == Spec => []ExportExact
<1>1. IInv => ExportExact
  BY DEF IInv, ExportInv
<1> QED
  BY <1>1, Invariance, PTL

(* An export of what the node had when it began fails only for a failed call, a failing *)
(* disk, an empty file, another key, or a file where a directory is needed or the reverse: *)
(* ExportCompletes for every manifest and every disk. *)
THEOREM CompletesTheorem == Spec => []ExportCompletes
<1>1. IInv => ExportCompletes
  BY DEF IInv, ReadyInv
<1> QED
  BY <1>1, Invariance, PTL

(* The gateway serves the bytes that were asked for, and finds what the node had. *)
THEOREM ServesTheorem == Spec => []GatewayServes
<1>1. IInv => GatewayServes
  BY DEF IInv, GatewayInv
<1> QED
  BY <1>1, Invariance, PTL
-----------------------------------------------------------------------------
(* The pages of a directory. *)

Paths(files) == {files[i].path : i \in DOMAIN files}

(* The page t = <<subPath, page>>, or one it leads to, shows the file with that path. *)
LeadsTo(files, t, path) ==
    /\ IsStrictPrefix(t[1], path)
    /\ IF Len(path) = Len(t[1]) + 1
       THEN \E j \in DOMAIN FileNames(files, t[1]) :
              /\ FileNames(files, t[1])[j] = path[Len(path)]
              /\ j > (t[2] - 1) * FilesPerPage
       ELSE t[2] = 1

(* A file is on one of the pages that were visited, or exactly one page that is still to *)
(* be visited leads to it; a file with an empty path is served instead of the directory. *)
Covered(files, pages, shown) ==
    /\ shown \in Seq(Paths(files))
    /\ \A i, j \in DOMAIN shown : shown[i] = shown[j] => i = j
    /\ \A path \in Paths(files) :
         \/ path \in Elements(shown)
         \/ \E t \in pages : LeadsTo(files, t, path)
         \/ path = <<>> /\ <<<<>>, 1>> \in pages
    /\ \A path \in Paths(files) : \A t \in pages :
         LeadsTo(files, t, path) =>
             /\ path \notin Elements(shown)
             /\ \A u \in pages : LeadsTo(files, u, path) => u = t

(* A page that there is. *)
IsPage(files, t) ==
    /\ t = <<t[1], t[2]>> /\ t[1] \in Seq(Nat) /\ t[2] \in Nat \ {0}
    /\ t[2] <= TotalPages(files, t[1])

(* The pages to visit are there, and the one that is asked for is one of them. *)
PagesInv ==
    /\ todo # {} \/ at = "browsed" => request.id \in DOMAIN DirManifest
    /\ todo # {} => at \notin {"idle", "browsed"} /\ <<request.subPath, request.page>> \in todo
    /\ at = "browsed" => todo = {}
    /\ \A t \in todo : IsPage(DirManifest[request.id], t)

(* The page p of a directory, as the response r has it. *)
ShowsPage(r, files, sub, p) ==
    /\ r.page = p /\ r.hasNext = (p < TotalPages(files, sub))
    /\ r.dirs = {Append(sub, n) : n \in Directories(files, sub)}
    /\ DOMAIN r.files = DOMAIN PagedFiles(files, sub, p)
    /\ \A i \in DOMAIN r.files : r.files[i].path = Append(sub, PagedFiles(files, sub, p)[i])

(* A directory is shown at a path that is not one of its files. *)
ShownInv ==
    at = "batch" \/ (at = "done" /\ response.status = 200 /\ response.listing) =>
        /\ request.id \in DOMAIN DirManifest
        /\ Lookup(DirManifest[request.id], request.subPath) = {}
        /\ at = "done" => ShowsPage(response, DirManifest[request.id], request.subPath,
                                    ShownPage(DirManifest[request.id]))

FoundInv ==
    (todo # {} \/ at = "browsed") /\ Unambiguous(DirManifest[request.id]) =>
        Covered(DirManifest[request.id], todo, found)

BrowseInv == PagesInv /\ ShownInv /\ FoundInv

(* Facts about paths. *)

LEMMA PrefixIs ==
    ASSUME NEW s \in Seq(Nat), NEW t \in Seq(Nat)
    PROVE  /\ IsPrefix(s, t) <=> Len(s) <= Len(t) /\ \A i \in 1 .. Len(s) : s[i] = t[i]
           /\ IsStrictPrefix(s, t) <=> Len(s) < Len(t) /\ \A i \in 1 .. Len(s) : s[i] = t[i]
<1>1. PICK m \in Nat, n \in Nat : m = Len(s) /\ n = Len(t)
  OBVIOUS
<1>2. ASSUME m <= n
      PROVE  SubSeq(s, 1, m) = SubSeq(t, 1, m) <=> \A i \in 1 .. m : s[i] = t[i]
  <2>1. \A i \in 1 .. m : s[i] \in Nat /\ t[i] \in Nat
    BY <1>1, <1>2
  <2>2. SubSeq(s, 1, m) \in Seq(Nat) /\ SubSeq(t, 1, m) \in Seq(Nat)
    BY <2>1, SubSeqProperties
  <2>3. /\ Len(SubSeq(s, 1, m)) = IF 1 <= m THEN m - 1 + 1 ELSE 0
        /\ Len(SubSeq(t, 1, m)) = IF 1 <= m THEN m - 1 + 1 ELSE 0
    BY <2>1, SubSeqProperties
  <2>4. /\ \A i \in 1 .. m - 1 + 1 : SubSeq(s, 1, m)[i] = s[1 + i - 1]
        /\ \A i \in 1 .. m - 1 + 1 : SubSeq(t, 1, m)[i] = t[1 + i - 1]
    BY <2>1, SubSeqProperties
  <2>5. PICK u \in Seq(Nat), v \in Seq(Nat) : u = SubSeq(s, 1, m) /\ v = SubSeq(t, 1, m)
    BY <2>2
  <2>6. m - 1 + 1 = m /\ \A i \in 1 .. m : 1 + i - 1 = i
    OBVIOUS
  <2>7. /\ Len(u) = m /\ Len(v) = m
        /\ \A i \in 1 .. m : u[i] = s[i] /\ v[i] = t[i]
    BY <2>3, <2>4, <2>5, <2>6
  <2>8. u = v <=> \A i \in 1 .. m : u[i] = v[i]
    BY <2>5, <2>7, SeqEqual
  <2> QED
    BY <2>5, <2>7, <2>8
<1>3. IsPrefix(s, t) <=> m <= n /\ \A i \in 1 .. m : s[i] = t[i]
  BY <1>1, <1>2 DEF IsPrefix
<1>4. (m <= n /\ \A i \in 1 .. m : s[i] = t[i]) /\ s # t <=> m < n /\ \A i \in 1 .. m : s[i] = t[i]
  <2>1. ASSUME m = n, \A i \in 1 .. m : s[i] = t[i] PROVE s = t
    BY <1>1, <2>1, SeqEqual
  <2>2. s = t => m = n
    BY <1>1
  <2> QED
    BY <2>1, <2>2
<1> QED
  BY <1>1, <1>3, <1>4 DEF IsStrictPrefix

(* A path with one more name. *)
LEMMA ChildIs ==
    ASSUME NEW s \in Seq(Nat), NEW n \in Nat, NEW u, u = Append(s, n)
    PROVE  /\ u \in Seq(Nat) /\ Len(u) = Len(s) + 1 /\ u[Len(s) + 1] = n
           /\ \A i \in 1 .. Len(s) : u[i] = s[i]
OBVIOUS

LEMMA ChildPrefix ==
    ASSUME NEW s \in Seq(Nat), NEW t \in Seq(Nat), NEW n \in Nat, NEW u, u = Append(s, n)
    PROVE  /\ IsPrefix(u, t) <=> IsStrictPrefix(s, t) /\ t[Len(s) + 1] = n
           /\ IsStrictPrefix(u, t) <=>
                IsStrictPrefix(s, t) /\ t[Len(s) + 1] = n /\ Len(t) # Len(s) + 1
           /\ IsStrictPrefix(s, t) /\ t[Len(s) + 1] = n /\ Len(t) = Len(s) + 1 <=> t = u
<1>1. PICK m \in Nat, k \in Nat : m = Len(s) /\ k = Len(t)
  OBVIOUS
<1>2. u \in Seq(Nat) /\ Len(u) = m + 1 /\ u[m + 1] = n /\ \A i \in 1 .. m : u[i] = s[i]
  BY <1>1, ChildIs
<1>3. \A i : i \in 1 .. m + 1 <=> i \in 1 .. m \/ i = m + 1
  OBVIOUS
<1>4. (\A i \in 1 .. m + 1 : u[i] = t[i]) <=> (\A i \in 1 .. m : s[i] = t[i]) /\ t[m + 1] = n
  BY <1>2, <1>3
<1>5. IsStrictPrefix(s, t) <=> m < k /\ \A i \in 1 .. m : s[i] = t[i]
  BY <1>1, PrefixIs
<1>6. /\ IsPrefix(u, t) <=> m + 1 <= k /\ \A i \in 1 .. m + 1 : u[i] = t[i]
      /\ IsStrictPrefix(u, t) <=> m + 1 < k /\ \A i \in 1 .. m + 1 : u[i] = t[i]
  BY <1>1, <1>2, PrefixIs
<1>7. t = u <=> k = m + 1 /\ \A i \in 1 .. m + 1 : u[i] = t[i]
  <2>1. t = u => k = m + 1 /\ \A i \in 1 .. m + 1 : u[i] = t[i]
    BY <1>1, <1>2
  <2>2. ASSUME k = m + 1, \A i \in 1 .. m + 1 : u[i] = t[i] PROVE t = u
    BY <1>1, <1>2, <2>2, SeqEqual
  <2> QED
    BY <2>1, <2>2
<1>8. (m + 1 <= k <=> m < k) /\ (m + 1 < k <=> m < k /\ k # m + 1) /\ (k = m + 1 => m < k)
  OBVIOUS
<1> QED
  BY <1>1, <1>4, <1>5, <1>6, <1>7, <1>8

(* A finite set of numbers can be sorted: the place of a number is how many are up to it. *)
LEMMA SortExists ==
    ASSUME NEW J \in SUBSET Nat, IsFiniteSet(J)
    PROVE  \E s \in [1 .. Cardinality(J) -> J] : \A i, j \in DOMAIN s : i < j => s[i] < s[j]
<1>1. PICK n \in Nat : n = Cardinality(J)
  BY FS_CardinalityType
<1>0. \A k \in J : k \in Nat
  OBVIOUS
<1> DEFINE upto(k) == {l \in J : l <= k}
           R == [k \in J |-> Cardinality(upto(k))]
<1>2. ASSUME NEW k \in J PROVE /\ IsFiniteSet(upto(k)) /\ Cardinality(upto(k)) \in 1 .. n
                               /\ k \in upto(k)
  <2>1. upto(k) \in SUBSET J /\ k \in upto(k)
    OBVIOUS
  <2>2. IsFiniteSet(upto(k)) /\ Cardinality(upto(k)) <= n
    BY <1>1, <2>1, FS_Subset
  <2>3. Cardinality(upto(k)) \in Nat
    BY <2>2, FS_CardinalityType
  <2>4. Cardinality(upto(k)) # 0
    BY <2>1, <2>2, FS_EmptySet
  <2> QED
    BY <2>1, <2>2, <2>3, <2>4
<1>3. ASSUME NEW k \in J, NEW l \in J, k < l PROVE R[k] < R[l]
  <2>1. PICK A, B : A = upto(k) /\ B = upto(l)
    OBVIOUS
  <2>2. /\ IsFiniteSet(B) /\ Cardinality(A) \in 1 .. n /\ Cardinality(B) \in 1 .. n
        /\ l \in B
    BY <1>2, <2>1
  <2>3. A \in SUBSET B /\ l \notin A
    <3>1. k \in Nat /\ l \in Nat
      BY <1>0
    <3>2. (\A x \in J : x <= k => x <= l) /\ ~(l <= k)
      BY <1>0, <1>3, <3>1
    <3>3. A \in SUBSET B
      BY <2>1, <3>2
    <3>4. l \notin A
      BY <2>1, <3>2
    <3> QED
      BY <3>3, <3>4
  <2>4. Cardinality(A) <= Cardinality(B) /\ Cardinality(A) # Cardinality(B)
    BY <2>2, <2>3, FS_Subset
  <2>5. Cardinality(A) < Cardinality(B)
    BY <2>2, <2>4
  <2> QED
    BY <2>1, <2>5
<1>4. R \in [J -> 1 .. n]
  BY <1>2
<1>5. ASSUME NEW k \in J, NEW l \in J, R[k] = R[l] PROVE k = l
  <2>1. R[k] \in Int /\ ~(R[k] < R[l]) /\ ~(R[l] < R[k])
    BY <1>4, <1>5
  <2>2. ~(k < l) /\ ~(l < k)
    BY <1>3, <2>1
  <2> QED
    BY <2>2
<1>6. R \in Injection(J, 1 .. n)
  BY <1>4, <1>5 DEF Injection, IsInjective
<1>7. IsFiniteSet(1 .. n) /\ Cardinality(1 .. n) = n
  BY FS_Interval
<1>8. R \in Surjection(J, 1 .. n)
  BY <1>1, <1>6, <1>7, FS_Injection
<1>9. \A i \in 1 .. n : \E k \in J : R[k] = i
  BY <1>8 DEF Surjection
<1> HIDE DEF R
<1>10. PICK s : s = [i \in 1 .. n |-> CHOOSE k \in J : R[k] = i]
  OBVIOUS
<1>11. s \in [1 .. n -> J] /\ \A i \in 1 .. n : R[s[i]] = i
  BY <1>9, <1>10
<1>12. ASSUME NEW i \in DOMAIN s, NEW j \in DOMAIN s, i < j PROVE s[i] < s[j]
  <2>1. s[i] \in J /\ s[j] \in J /\ R[s[i]] = i /\ R[s[j]] = j /\ i \in Int /\ j \in Int
    BY <1>11
  <2>2. ~(R[s[j]] < R[s[i]])
    BY <1>12, <2>1
  <2>3. ~(s[j] < s[i])
    BY <1>3, <2>1, <2>2
  <2>4. s[i] # s[j]
    BY <1>12, <2>1
  <2>5. PICK x \in Nat, y \in Nat : x = s[i] /\ y = s[j]
    BY <1>0, <2>1
  <2>6. x < y
    BY <2>3, <2>4, <2>5
  <2> QED
    BY <2>5, <2>6
<1> QED
  BY <1>1, <1>11, <1>12

(* A sorted list of a finite set has each element once. *)
LEMMA SortOnto ==
    ASSUME NEW J \in SUBSET Nat, IsFiniteSet(J), NEW s \in [1 .. Cardinality(J) -> J],
           \A i, j \in DOMAIN s : i < j => s[i] < s[j]
    PROVE  /\ \A k \in J : \E i \in DOMAIN s : s[i] = k
           /\ \A i, j \in DOMAIN s : s[i] = s[j] => i = j
<1>1. PICK n \in Nat : n = Cardinality(J)
  BY FS_CardinalityType
<1>2. IsFiniteSet(1 .. n) /\ Cardinality(1 .. n) = n
  BY FS_Interval
<1>3. ASSUME NEW i \in 1 .. n, NEW j \in 1 .. n, s[i] = s[j] PROVE i = j
  <2>1. s[i] \in Nat /\ s[j] \in Nat /\ i \in DOMAIN s /\ j \in DOMAIN s
    BY <1>1
  <2>2. ~(i < j) /\ ~(j < i)
    BY <1>3, <2>1
  <2> QED
    BY <2>2
<1>4. s \in Injection(1 .. n, J)
  BY <1>1, <1>3 DEF Injection, IsInjective
<1>5. s \in Surjection(1 .. n, J)
  BY <1>1, <1>2, <1>4, FS_Injection
<1> QED
  BY <1>1, <1>3, <1>5 DEF Surjection

(* The directories of the theorems below. *)
IsTree(files) == files \in Seq(Elements(files)) /\ \A i \in DOMAIN files : files[i].path \in Seq(Nat)

LEMMA TreeIs == ASSUME NEW d \in DOMAIN DirManifest PROVE IsTree(DirManifest[d])
BY ManifestAssumption DEF IsTree

LEMMA NamesAre ==
    ASSUME NEW files, IsTree(files), NEW sub \in Seq(Nat)
    PROVE  /\ Names(files, sub) \in SUBSET Nat
           /\ IsFiniteSet(Names(files, sub) \ Directories(files, sub))
           /\ \A i \in Below(files, sub) : NameBelow(files, sub, i) \in Nat
<1>1. PICK m \in Nat : DOMAIN files = 1 .. m
  BY DEF IsTree
<1>2. ASSUME NEW i \in Below(files, sub) PROVE NameBelow(files, sub, i) \in Nat
  <2>1. PICK t \in Seq(Nat) : t = files[i].path
    BY DEF IsTree, Below
  <2>2. Len(sub) < Len(t)
    BY <2>1, PrefixIs DEF Below
  <2> QED
    BY <2>1, <2>2 DEF NameBelow
<1>3. PICK B : B = Below(files, sub)
  OBVIOUS
<1>4. IsFiniteSet(B)
  <2>1. B \in SUBSET (1 .. m)
    BY <1>1, <1>3 DEF Below
  <2>2. IsFiniteSet(1 .. m)
    BY FS_Interval
  <2> QED
    BY <2>1, <2>2, FS_Subset
<1>5. PICK f : f = [i \in B |-> NameBelow(files, sub, i)]
  OBVIOUS
<1>6. f \in Surjection(B, Names(files, sub))
  BY <1>3, <1>5 DEF Names, Surjection
<1>7. IsFiniteSet(Names(files, sub))
  BY <1>4, <1>6, FS_Surjection
<1>8. IsFiniteSet(Names(files, sub) \ Directories(files, sub))
  BY <1>7, FS_Subset
<1> QED
  BY <1>2, <1>8 DEF Names

LEMMA FileNamesAre ==
    ASSUME NEW files, IsTree(files), NEW sub \in Seq(Nat), NEW names, names = FileNames(files, sub)
    PROVE  /\ names \in Seq(Nat)
           /\ \A i \in DOMAIN names : names[i] \in Names(files, sub) \ Directories(files, sub)
           /\ \A n \in Names(files, sub) \ Directories(files, sub) :
                \E i \in DOMAIN names : names[i] = n
           /\ \A i, j \in DOMAIN names : names[i] = names[j] => i = j
<1>1. PICK J : J = Names(files, sub) \ Directories(files, sub)
  OBVIOUS
<1>2. J \in SUBSET Nat /\ IsFiniteSet(J)
  BY <1>1, NamesAre
<1>3. names = CHOOSE s \in [1 .. Cardinality(J) -> J] : \A i, j \in DOMAIN s : i < j => s[i] < s[j]
  BY <1>1 DEF FileNames
<1>4. \E s \in [1 .. Cardinality(J) -> J] : \A i, j \in DOMAIN s : i < j => s[i] < s[j]
  BY <1>2, SortExists
<1>5. /\ names \in [1 .. Cardinality(J) -> J]
      /\ \A i, j \in DOMAIN names : i < j => names[i] < names[j]
  BY <1>3, <1>4
<1>6. /\ \A k \in J : \E i \in DOMAIN names : names[i] = k
      /\ \A i, j \in DOMAIN names : names[i] = names[j] => i = j
  BY <1>2, <1>5, SortOnto
<1>7. PICK n \in Nat : n = Cardinality(J)
  BY <1>2, FS_CardinalityType
<1>8. names \in [1 .. n -> Nat]
  BY <1>2, <1>5, <1>7
<1>9. names \in Seq(Nat)
  BY <1>8
<1> QED
  BY <1>1, <1>5, <1>6, <1>9

(* A bounded set of numbers has a greatest and a least one. *)
LEMMA Greatest ==
    ASSUME NEW m \in Nat, NEW B \in SUBSET (1 .. m), B # {}
    PROVE  \E i \in B : \A j \in B : j <= i
<1>1. IsFiniteSet(B) /\ B \in SUBSET Nat
  <2>1. IsFiniteSet(1 .. m)
    BY FS_Interval
  <2>2. IsFiniteSet(B)
    BY <2>1, FS_Subset
  <2>3. \A k \in 1 .. m : k \in Nat
    OBVIOUS
  <2> QED
    BY <2>2, <2>3
<1>2. PICK s \in [1 .. Cardinality(B) -> B] : \A i, j \in DOMAIN s : i < j => s[i] < s[j]
  BY <1>1, SortExists
<1>3. PICK n \in Nat : n = Cardinality(B)
  BY <1>1, FS_CardinalityType
<1>4. n # 0
  BY <1>1, <1>3, FS_EmptySet
<1>5. n \in 1 .. n /\ DOMAIN s = 1 .. n /\ s[n] \in B
  BY <1>2, <1>3, <1>4
<1>6. ASSUME NEW j \in B PROVE j <= s[n]
  <2>1. PICK i \in DOMAIN s : s[i] = j
    BY <1>1, <1>2, SortOnto
  <2>2. i \in 1 .. n /\ s[i] \in Nat /\ s[n] \in Nat
    BY <1>1, <1>5, <2>1
  <2>3. i < n => s[i] < s[n]
    BY <1>2, <1>5, <2>1
  <2>4. i = n \/ i < n
    BY <2>2
  <2> QED
    BY <2>1, <2>2, <2>3, <2>4
<1> QED
  BY <1>5, <1>6

LEMMA Least ==
    ASSUME NEW m \in Nat, NEW B \in SUBSET (1 .. m), B # {}
    PROVE  \E i \in B : \A j \in B : i <= j
<1>1. PICK C : C = {m + 1 - i : i \in B}
  OBVIOUS
<1>2. \A i \in B : i \in 1 .. m
  OBVIOUS
<1>3. C \in SUBSET (1 .. m) /\ C # {}
  <2>1. \A i \in 1 .. m : m + 1 - i \in 1 .. m
    OBVIOUS
  <2> QED
    BY <1>1, <1>2, <2>1
<1>4. PICK x \in C : \A y \in C : y <= x
  BY <1>3, Greatest
<1>5. PICK i \in B : x = m + 1 - i
  BY <1>1
<1>6. ASSUME NEW j \in B PROVE i <= j
  <2>1. m + 1 - j <= x
    BY <1>1, <1>4
  <2>2. i \in Int /\ j \in Int
    BY <1>2
  <2> QED
    BY <1>5, <2>1, <2>2
<1> QED
  BY <1>6

(* With no name that is both a file and a directory, a name is listed as what it is. *)
LEMMA NameKinds ==
    ASSUME NEW files, IsTree(files), Unambiguous(files), NEW sub \in Seq(Nat),
           NEW path \in Paths(files), IsStrictPrefix(sub, path), NEW n, n = path[Len(sub) + 1]
    PROVE  /\ path \in Seq(Nat) /\ n \in Nat
           /\ Len(path) = Len(sub) + 1 => n \in Names(files, sub) \ Directories(files, sub)
           /\ Len(path) # Len(sub) + 1 => n \in Directories(files, sub)
<1>1. PICK k \in DOMAIN files : files[k].path = path
  BY DEF Paths
<1>2. PICK l \in Nat : l = Len(sub)
  OBVIOUS
<1>3. path \in Seq(Nat) /\ k \in Below(files, sub) /\ NameBelow(files, sub, k) = n
  BY <1>1 DEF IsTree, Below, NameBelow
<1>4. n \in Nat /\ n \in Names(files, sub)
  BY <1>3, NamesAre DEF Names
<1>5. PICK m \in Nat : DOMAIN files = 1 .. m
  BY DEF IsTree
<1>6. ASSUME NEW i \in Below(files, sub), NameBelow(files, sub, i) = n
      PROVE  Len(files[i].path) > Len(sub) + 1 <=> Len(path) # Len(sub) + 1
  <2>0. PICK t \in Seq(Nat) : t = files[i].path
    BY DEF IsTree, Below
  <2>1. PICK u : t = files[i].path /\ u = Append(sub, n)
    BY <2>0
  <2>2. /\ IsStrictPrefix(sub, t) /\ t[Len(sub) + 1] = n
        /\ i \in DOMAIN files
    BY <1>6, <2>1 DEF Below, NameBelow
  <2>3. IsPrefix(u, t) /\ (Len(t) = Len(sub) + 1 => t = u)
    <3>1. n \in Nat /\ t \in Seq(Nat) /\ sub \in Seq(Nat) /\ u = Append(sub, n)
      BY <1>4, <2>1
    <3>2. IsPrefix(u, t) <=> IsStrictPrefix(sub, t) /\ t[Len(sub) + 1] = n
      BY ONLY <3>1, ChildPrefix
    <3>3. IsStrictPrefix(sub, t) /\ t[Len(sub) + 1] = n /\ Len(t) = Len(sub) + 1 <=> t = u
      BY ONLY <3>1, ChildPrefix
    <3> QED
      BY <2>2, <3>2, <3>3
  <2>4. IsPrefix(u, path) /\ (Len(path) = Len(sub) + 1 => path = u)
    BY <1>3, <1>4, <2>1, ChildPrefix
  <2>5. i # k => ~IsPrefix(t, path) /\ ~IsPrefix(path, t)
    BY <1>1, <2>1, <2>2 DEF Unambiguous
  <2>6. Len(t) = Len(sub) + 1 <=> Len(path) = Len(sub) + 1
    BY <1>1, <2>1, <2>3, <2>4, <2>5
  <2>7. PICK a \in Nat : a = Len(t)
    OBVIOUS
  <2>8. l < a
    BY <1>2, <2>1, <2>2, <2>7, PrefixIs
  <2>9. a > l + 1 <=> a # l + 1
    BY <2>8
  <2> QED
    BY <1>2, <2>1, <2>6, <2>7, <2>9
<1>7. PICK i \in Below(files, sub) :
        /\ NameBelow(files, sub, i) = n
        /\ \A j \in Below(files, sub) : NameBelow(files, sub, j) = n => j <= i
  <2>1. PICK B : B = {j \in Below(files, sub) : NameBelow(files, sub, j) = n}
    OBVIOUS
  <2>2. B \in SUBSET (1 .. m) /\ B # {}
    BY <1>3, <1>5, <2>1 DEF Below
  <2>3. \E i \in B : \A j \in B : j <= i
    BY <2>2, Greatest
  <2> QED
    BY <2>1, <2>3
<1>8. IsDirectory(files, sub, n) <=> Len(path) # Len(sub) + 1
  <2>1. Len(path) # Len(sub) + 1 => IsDirectory(files, sub, n)
    BY <1>6, <1>7 DEF IsDirectory
  <2>2. IsDirectory(files, sub, n) => Len(path) # Len(sub) + 1
    BY <1>6 DEF IsDirectory
  <2> QED
    BY <2>1, <2>2
<1> QED
  BY <1>3, <1>4, <1>8 DEF Directories

(* A name that is listed as a file is one. *)
LEMMA FileListed ==
    ASSUME NEW files, IsTree(files), NEW sub \in Seq(Nat),
           NEW n \in Names(files, sub) \ Directories(files, sub)
    PROVE  Append(sub, n) \in Paths(files)
<1>1. PICK k \in Below(files, sub) : NameBelow(files, sub, k) = n
  BY DEF Names
<1>2. PICK m \in Nat : DOMAIN files = 1 .. m
  BY DEF IsTree
<1>3. PICK i \in Below(files, sub) :
        /\ NameBelow(files, sub, i) = n
        /\ \A j \in Below(files, sub) : NameBelow(files, sub, j) = n => j <= i
  <2>1. PICK B : B = {j \in Below(files, sub) : NameBelow(files, sub, j) = n}
    OBVIOUS
  <2>2. B \in SUBSET (1 .. m) /\ B # {}
    BY <1>1, <1>2, <2>1 DEF Below
  <2>3. \E i \in B : \A j \in B : j <= i
    BY <2>2, Greatest
  <2> QED
    BY <2>1, <2>3
<1>4. PICK t \in Seq(Nat), l \in Nat, a \in Nat : t = files[i].path /\ l = Len(sub) /\ a = Len(t)
  BY DEF IsTree, Below
<1>5. IsStrictPrefix(sub, t) /\ t[l + 1] = n /\ i \in DOMAIN files
  BY <1>3, <1>4 DEF Below, NameBelow
<1>6. ~(a > l + 1)
  BY <1>3, <1>4 DEF Directories, IsDirectory
<1>7. l < a
  BY <1>4, <1>5, PrefixIs
<1>8. n \in Nat
  BY <1>1, NamesAre
<1>9. a = l + 1
  BY <1>6, <1>7
<1>10. t = Append(sub, n)
  <2>1. PICK u : u = Append(sub, n)
    OBVIOUS
  <2>2. IsStrictPrefix(sub, t) /\ t[Len(sub) + 1] = n /\ Len(t) = Len(sub) + 1 <=> t = u
    BY <1>8, <2>1, ChildPrefix
  <2> QED
    BY <1>4, <1>5, <1>9, <2>1, <2>2
<1> QED
  BY <1>4, <1>5, <1>10 DEF Paths

LEMMA PagesAre ==
    ASSUME NEW files, IsTree(files), NEW sub \in Seq(Nat), NEW p \in Nat
    PROVE  /\ TotalPages(files, sub) \in Nat \ {0}
           /\ Len(FileNames(files, sub)) > p * FilesPerPage => p < TotalPages(files, sub)
<1>0. PICK t \in Nat, n \in Nat \ {0} : t = Len(FileNames(files, sub)) /\ n = FilesPerPage
  BY FileNamesAre, GatewayAssumption
<1>1. PICK d : t = Len(FileNames(files, sub)) /\ n = FilesPerPage /\ d = (t + n - 1) \div n
  BY <1>0
<1>2. TotalPages(files, sub) = IF t = 0 THEN 1 ELSE d
  BY <1>1 DEF TotalPages
<1>3. d \in Int /\ t + n - 1 < n * (d + 1)
  BY <1>1
<1>4. ASSUME NEW q \in Nat, t > q * n PROVE q < d
  <2>1. CASE d <= q
    <3>1. n * (d + 1) <= n * (q + 1)
      BY <1>3, <2>1
    <3>2. n * (q + 1) = q * n + n
      OBVIOUS
    <3>3. q * n \in Nat
      OBVIOUS
    <3> QED
      BY <1>3, <1>4, <3>1, <3>2, <3>3
  <2> QED
    BY <1>3, <2>1
<1>5. t # 0 => 0 < d
  <2>1. 0 * n = 0 /\ 0 \in Nat
    OBVIOUS
  <2>2. t # 0 => t > 0 * n
    BY <2>1
  <2> QED
    BY <1>4, <2>1, <2>2
<1>6. t > p * n => t # 0 /\ p < d
  <2>1. p * n \in Nat
    OBVIOUS
  <2> QED
    BY <1>4, <2>1
<1> QED
  BY <1>1, <1>2, <1>3, <1>5, <1>6

LEMMA PagedAre ==
    ASSUME NEW files, IsTree(files), NEW sub \in Seq(Nat), NEW p \in Nat \ {0},
           NEW names, names = FileNames(files, sub), NEW a, a = (p - 1) * FilesPerPage,
           NEW paged, paged = PagedFiles(files, sub, p)
    PROVE  /\ a \in Nat /\ p * FilesPerPage = a + FilesPerPage
           /\ paged \in Seq(Nat)
           /\ \A i \in DOMAIN paged : /\ i \in Nat /\ a + i \in DOMAIN names
                                      /\ paged[i] = names[a + i] /\ i <= FilesPerPage
           /\ \A j \in DOMAIN names : j > a /\ ~(j > a + FilesPerPage) => j - a \in DOMAIN paged
<1>1. PICK n \in Nat, f \in Nat \ {0} : n = Len(names) /\ f = FilesPerPage
  BY FileNamesAre, GatewayAssumption
<1>2. a \in Nat /\ p * f = a + f
  <2>1. PICK q \in Nat : q = p - 1
    OBVIOUS
  <2>2. q * f \in Nat /\ (q + 1) * f = q * f + f /\ p = q + 1
    BY <2>1
  <2> QED
    BY <1>1, <2>1, <2>2
<1>3. names \in Seq(Nat) /\ DOMAIN names = 1 .. n
  BY <1>1, FileNamesAre
<1>4. PICK b \in Nat : b = (IF a + f < n THEN a + f ELSE n)
  BY <1>2
<1>5. paged = SubSeq(names, a + 1, b)
  BY <1>1, <1>4 DEF PagedFiles
<1>6. PICK c \in Int : c = a + 1
  BY <1>2
<1>7. \A i \in c .. b : names[i] \in Nat
  BY <1>2, <1>3, <1>4, <1>6
<1>8. /\ SubSeq(names, c, b) \in Seq(Nat)
      /\ Len(SubSeq(names, c, b)) = IF c <= b THEN b - c + 1 ELSE 0
      /\ \A i \in 1 .. b - c + 1 : SubSeq(names, c, b)[i] = names[c + i - 1]
  BY <1>7, SubSeqProperties
<1>9. PICK m \in Nat : m = Len(paged) /\ m = IF c <= b THEN b - c + 1 ELSE 0
  BY <1>5, <1>6, <1>8
<1>10. paged \in Seq(Nat) /\ DOMAIN paged = 1 .. m
  BY <1>5, <1>6, <1>8, <1>9
<1>11. ASSUME NEW i \in 1 .. m
       PROVE  i \in Nat /\ a + i \in 1 .. n /\ paged[i] = names[a + i] /\ i <= f
  <2>1. i \in 1 .. b - c + 1 /\ c + i - 1 = a + i /\ a + i \in 1 .. n /\ i <= f
    <3>1. /\ a \in Nat /\ b \in Nat /\ n \in Nat /\ f \in Nat \ {0} /\ m \in Nat
          /\ i \in 1 .. m /\ c = a + 1 /\ m = (IF c <= b THEN b - c + 1 ELSE 0)
          /\ b = IF a + f < n THEN a + f ELSE n
      BY <1>2, <1>4, <1>6, <1>9
    <3> QED
      BY ONLY <3>1
  <2> QED
    BY <1>5, <1>6, <1>8, <2>1
<1>12. ASSUME NEW j \in 1 .. n, j > a, ~(j > a + f) PROVE j - a \in 1 .. m
  <2>1. /\ a \in Nat /\ b \in Nat /\ n \in Nat /\ f \in Nat \ {0} /\ m \in Nat
        /\ j \in 1 .. n /\ j > a /\ ~(j > a + f) /\ c = a + 1
        /\ m = (IF c <= b THEN b - c + 1 ELSE 0) /\ b = IF a + f < n THEN a + f ELSE n
    BY <1>2, <1>4, <1>6, <1>9, <1>12
  <2> QED
    BY ONLY <2>1
<1> QED
  BY <1>1, <1>2, <1>3, <1>10, <1>11, <1>12

(* What the pages t of a listing lead to. *)
LEMMA PageLeads ==
    ASSUME NEW files, NEW sub, NEW p, NEW path, NEW names, names = FileNames(files, sub)
    PROVE  LeadsTo(files, <<sub, p>>, path) <=>
             /\ IsStrictPrefix(sub, path)
             /\ IF Len(path) = Len(sub) + 1
                THEN \E j \in DOMAIN names : /\ names[j] = path[Len(path)]
                                             /\ j > (p - 1) * FilesPerPage
                ELSE p = 1
<1>1. PICK t : t = <<sub, p>>
  OBVIOUS
<1>2. t[1] = sub /\ t[2] = p
  BY <1>1
<1> QED
  BY <1>1, <1>2 DEF LeadsTo

LEMMA LinkLeads ==
    ASSUME NEW files, IsTree(files), Unambiguous(files), NEW sub \in Seq(Nat), NEW n \in Nat,
           NEW path \in Paths(files)
    PROVE  LeadsTo(files, <<Append(sub, n), 1>>, path) <=>
             IsStrictPrefix(sub, path) /\ path[Len(sub) + 1] = n /\ Len(path) # Len(sub) + 1
<1>1. PICK u, names : u = Append(sub, n) /\ names = FileNames(files, u)
  OBVIOUS
<1>2. u \in Seq(Nat) /\ path \in Seq(Nat)
  BY <1>1, ChildIs DEF Paths, IsTree
<1>3. IsStrictPrefix(u, path) <=>
        IsStrictPrefix(sub, path) /\ path[Len(sub) + 1] = n /\ Len(path) # Len(sub) + 1
  BY <1>1, <1>2, ChildPrefix
<1>4. ASSUME IsStrictPrefix(u, path), Len(path) = Len(u) + 1
      PROVE  \E j \in DOMAIN names : names[j] = path[Len(path)] /\ j > (1 - 1) * FilesPerPage
  <2>1. path[Len(path)] \in Names(files, u) \ Directories(files, u)
    <3>1. PICK x : x = path[Len(u) + 1]
      OBVIOUS
    <3>2. Len(path) = Len(u) + 1 => x \in Names(files, u) \ Directories(files, u)
      BY <1>2, <1>4, <3>1, NameKinds
    <3> QED
      BY <1>4, <3>1, <3>2
  <2>2. PICK j \in DOMAIN names : names[j] = path[Len(path)]
    <3>1. \A x \in Names(files, u) \ Directories(files, u) : \E j \in DOMAIN names : names[j] = x
      <4>1. IsTree(files) /\ u \in Seq(Nat) /\ names = FileNames(files, u)
        BY <1>1, <1>2
      <4> QED
        BY ONLY <4>1, FileNamesAre
    <3> QED
      BY <2>1, <3>1, Zenon
  <2>3. j > (1 - 1) * FilesPerPage
    <3>1. names \in Seq(Nat)
      BY <1>1, <1>2, FileNamesAre
    <3>2. j \in Nat /\ j > 0
      BY <3>1
    <3>3. PICK f \in Nat : f = FilesPerPage
      BY GatewayAssumption
    <3>4. (1 - 1) * f = 0
      OBVIOUS
    <3> QED
      BY <3>2, <3>3, <3>4
  <2> QED
    BY <2>2, <2>3
<1>5. LeadsTo(files, <<u, 1>>, path) <=>
        /\ IsStrictPrefix(u, path)
        /\ IF Len(path) = Len(u) + 1
           THEN \E j \in DOMAIN names : names[j] = path[Len(path)] /\ j > (1 - 1) * FilesPerPage
           ELSE 1 = 1
  BY <1>1, PageLeads
<1> QED
  BY <1>1, <1>3, <1>4, <1>5

(* What a browser finds on a page: files, links to subdirectories, and to the next page. *)
PageRows(files, sub, p) ==
    [i \in DOMAIN PagedFiles(files, sub, p) |-> Append(sub, PagedFiles(files, sub, p)[i])]
PageLinks(files, sub, p) ==
    IF p = 1 THEN {<<Append(sub, n), 1>> : n \in Directories(files, sub)} ELSE {}
PageMore(files, sub, p) == IF p < TotalPages(files, sub) THEN {<<sub, p + 1>>} ELSE {}

(* The files of a page are files of the directory, each once, and the page leads to them. *)
LEMMA RowsAre ==
    ASSUME NEW files, IsTree(files), NEW sub \in Seq(Nat), NEW p \in Nat \ {0},
           NEW rows, rows = PageRows(files, sub, p)
    PROVE  /\ rows \in Seq(Paths(files))
           /\ \A i, j \in DOMAIN rows : rows[i] = rows[j] => i = j
           /\ \A i \in DOMAIN rows : LeadsTo(files, <<sub, p>>, rows[i])
<1>1. PICK names, paged, a : /\ names = FileNames(files, sub) /\ paged = PagedFiles(files, sub, p)
                             /\ a = (p - 1) * FilesPerPage
  OBVIOUS
<1>2. /\ a \in Nat /\ paged \in Seq(Nat)
      /\ \A i \in DOMAIN paged : i \in Nat /\ a + i \in DOMAIN names /\ paged[i] = names[a + i]
  BY <1>1, PagedAre
<1>3. /\ names \in Seq(Nat)
      /\ \A i \in DOMAIN names : names[i] \in Names(files, sub) \ Directories(files, sub)
      /\ \A i, j \in DOMAIN names : names[i] = names[j] => i = j
  BY <1>1, FileNamesAre
<1>4. PICK m \in Nat : DOMAIN paged = 1 .. m
  BY <1>2
<1>5. DOMAIN rows = 1 .. m /\ \A i \in 1 .. m : rows[i] = Append(sub, paged[i])
  BY <1>1, <1>4 DEF PageRows
<1>6. ASSUME NEW i \in 1 .. m
      PROVE  /\ rows[i] \in Paths(files) /\ rows[i] \in Seq(Nat) /\ paged[i] \in Nat
             /\ Len(rows[i]) = Len(sub) + 1 /\ rows[i][Len(sub) + 1] = paged[i]
             /\ LeadsTo(files, <<sub, p>>, rows[i])
  <2>1. PICK n, u : n \in Nat /\ n = paged[i] /\ u = rows[i] /\ u = Append(sub, n)
    <3>1. i \in DOMAIN paged
      BY <1>4
    <3>2. paged[i] \in Nat
      BY <1>2, <3>1
    <3> QED
      BY <1>5, <3>2
  <2>2. n = names[a + i] /\ a + i \in DOMAIN names /\ i \in Nat /\ i > 0
    <3>1. i \in DOMAIN paged /\ i > 0
      BY <1>4
    <3> QED
      BY <1>2, <2>1, <3>1
  <2>3. u \in Paths(files)
    <3>1. n \in Names(files, sub) \ Directories(files, sub)
      BY <1>3, <2>2
    <3> QED
      BY <2>1, <3>1, FileListed
  <2>4. u \in Seq(Nat) /\ Len(u) = Len(sub) + 1 /\ u[Len(sub) + 1] = n
    BY <2>1, ChildIs
  <2>5. IsStrictPrefix(sub, u)
    <3>1. IsStrictPrefix(sub, u) /\ u[Len(sub) + 1] = n /\ Len(u) = Len(sub) + 1 <=> u = u
      BY <2>1, <2>4, ChildPrefix
    <3> QED
      BY <3>1
  <2>6. a + i > (p - 1) * FilesPerPage
    <3>1. a + i > a
      BY <1>2, <2>2
    <3> QED
      BY <1>1, <3>1
  <2>7. LeadsTo(files, <<sub, p>>, u)
    <3>1. \E j \in DOMAIN names : names[j] = u[Len(u)] /\ j > (p - 1) * FilesPerPage
      BY <2>2, <2>4, <2>6
    <3> QED
      BY <1>1, <2>4, <2>5, <3>1, PageLeads
  <2> QED
    BY <2>1, <2>3, <2>4, <2>7
<1>7. ASSUME NEW i \in 1 .. m, NEW j \in 1 .. m, rows[i] = rows[j] PROVE i = j
  <2>1. paged[i] = paged[j]
    BY <1>6, <1>7
  <2>2. names[a + i] = names[a + j] /\ a + i \in DOMAIN names /\ a + j \in DOMAIN names
    BY <1>2, <1>4, <2>1
  <2>3. a + i = a + j
    BY <1>3, <2>2
  <2> QED
    BY <1>2, <2>3
<1>8. rows \in Seq(Paths(files))
  <2>1. rows = [i \in 1 .. m |-> Append(sub, paged[i])]
    BY <1>1, <1>4 DEF PageRows
  <2>2. rows \in [1 .. m -> Paths(files)]
    BY <1>5, <1>6, <2>1
  <2> QED
    BY <2>2
<1> QED
  BY <1>5, <1>6, <1>7, <1>8

(* A page leads to the files on it, to those on the next page and, if it is the first *)
(* one, to those in the subdirectories; to each on one way only. *)
LEMMA PageSplits ==
    ASSUME NEW files, IsTree(files), Unambiguous(files), NEW sub \in Seq(Nat), NEW p \in Nat \ {0},
           NEW rows, rows = PageRows(files, sub, p),
           NEW links, links = PageLinks(files, sub, p), NEW more, more = PageMore(files, sub, p),
           NEW path \in Paths(files)
    PROVE  /\ LeadsTo(files, <<sub, p>>, path) =>
                path \in Elements(rows) \/ \E t \in links \cup more : LeadsTo(files, t, path)
           /\ \A t \in links \cup more : LeadsTo(files, t, path) =>
                /\ LeadsTo(files, <<sub, p>>, path)
                /\ path \notin Elements(rows)
                /\ \A u \in links \cup more : LeadsTo(files, u, path) => u = t
<1>1. PICK names, paged, a, f : /\ names = FileNames(files, sub)
                                /\ paged = PagedFiles(files, sub, p)
                                /\ a = (p - 1) * FilesPerPage /\ f = FilesPerPage
  OBVIOUS
<1>2. /\ a \in Nat /\ f \in Nat \ {0} /\ p * f = a + f
      /\ \A i \in DOMAIN paged : /\ i \in Nat /\ a + i \in DOMAIN names
                                 /\ paged[i] = names[a + i] /\ i <= f
      /\ \A j \in DOMAIN names : j > a /\ ~(j > a + f) => j - a \in DOMAIN paged
  <2>1. /\ a \in Nat /\ p * FilesPerPage = a + FilesPerPage
        /\ \A i \in DOMAIN paged : /\ i \in Nat /\ a + i \in DOMAIN names
                                   /\ paged[i] = names[a + i] /\ i <= FilesPerPage
        /\ \A j \in DOMAIN names : j > a /\ ~(j > a + FilesPerPage) => j - a \in DOMAIN paged
    <3>1. /\ IsTree(files) /\ sub \in Seq(Nat) /\ p \in Nat \ {0} /\ names = FileNames(files, sub)
          /\ a = (p - 1) * FilesPerPage /\ paged = PagedFiles(files, sub, p)
      BY <1>1
    <3> QED
      BY ONLY <3>1, PagedAre
  <2> QED
    BY <1>1, <2>1, GatewayAssumption
<1>3. /\ names \in Seq(Nat) /\ \A i, j \in DOMAIN names : names[i] = names[j] => i = j
  BY <1>1, FileNamesAre
<1>4. path \in Seq(Nat)
  BY DEF Paths, IsTree
<1> DEFINE in == IsStrictPrefix(sub, path)
           direct == Len(path) = Len(sub) + 1
<1>5. PICK last : last = path[Len(sub) + 1]
  OBVIOUS
<1>6. LeadsTo(files, <<sub, p>>, path) <=>
        in /\ (IF direct THEN \E j \in DOMAIN names : names[j] = last /\ j > a ELSE p = 1)
  <2>1. LeadsTo(files, <<sub, p>>, path) <=>
          /\ IsStrictPrefix(sub, path)
          /\ IF Len(path) = Len(sub) + 1
             THEN \E j \in DOMAIN names : /\ names[j] = path[Len(path)]
                                          /\ j > (p - 1) * FilesPerPage
             ELSE p = 1
    BY <1>1, PageLeads
  <2> QED
    BY <1>1, <1>5, <2>1
<1>7. LeadsTo(files, <<sub, p + 1>>, path) <=>
        in /\ direct /\ \E j \in DOMAIN names : names[j] = last /\ j > a + f
  <2>1. p + 1 # 1 /\ p + 1 - 1 = p
    OBVIOUS
  <2>2. LeadsTo(files, <<sub, p + 1>>, path) <=>
          /\ IsStrictPrefix(sub, path)
          /\ IF Len(path) = Len(sub) + 1
             THEN \E j \in DOMAIN names : /\ names[j] = path[Len(path)]
                                          /\ j > (p + 1 - 1) * FilesPerPage
             ELSE p + 1 = 1
    BY <1>1, PageLeads
  <2>3. (p + 1 - 1) * FilesPerPage = a + f
    BY <1>1, <1>2, <2>1
  <2> QED
    BY <1>5, <2>1, <2>2, <2>3
<1>8. ASSUME NEW n \in Nat
      PROVE  LeadsTo(files, <<Append(sub, n), 1>>, path) <=> in /\ last = n /\ ~direct
  <2>1. LeadsTo(files, <<Append(sub, n), 1>>, path) <=>
          IsStrictPrefix(sub, path) /\ path[Len(sub) + 1] = n /\ Len(path) # Len(sub) + 1
    BY LinkLeads
  <2> QED
    BY <1>5, <2>1
<1>9. path \in Elements(rows) =>
        in /\ direct /\ \E j \in DOMAIN names : names[j] = last /\ ~(j > a + f)
  <2> SUFFICES ASSUME NEW i \in DOMAIN rows, path = rows[i]
               PROVE  in /\ direct /\ \E j \in DOMAIN names : names[j] = last /\ ~(j > a + f)
    BY DEF Elements
  <2>1. i \in DOMAIN paged /\ path = Append(sub, paged[i]) /\ i \in Nat /\ a + i \in DOMAIN names
        /\ paged[i] = names[a + i] /\ i <= f
    BY <1>1, <1>2 DEF PageRows
  <2>2. names[a + i] \in Nat
    BY <1>3, <2>1
  <2>3. in /\ direct /\ last = names[a + i]
    <3>1. PICK n \in Nat : n = names[a + i] /\ path = Append(sub, n)
      BY <2>1, <2>2
    <3>2. path \in Seq(Nat) /\ sub \in Seq(Nat) /\ n \in Nat /\ path = Append(sub, n)
      BY <1>4, <3>1
    <3>3. IsStrictPrefix(sub, path) /\ path[Len(sub) + 1] = n /\ Len(path) = Len(sub) + 1 <=> path = path
      BY ONLY <3>2, ChildPrefix
    <3> QED
      BY <1>5, <3>1, <3>3
  <2>4. ~(a + i > a + f)
    BY <1>2, <2>1
  <2> QED
    BY <2>1, <2>3, <2>4
<1>10. ASSUME in, ~direct PROVE last \in Directories(files, sub) /\ last \in Nat
  BY <1>5, <1>10, NameKinds
<1>11. ASSUME in, direct, NEW j \in DOMAIN names, names[j] = last, j > a, ~(j > a + f)
       PROVE  path \in Elements(rows)
  <2>1. j - a \in DOMAIN paged /\ j \in Nat /\ a + (j - a) = j
    BY <1>2, <1>3, <1>11
  <2>2. paged[j - a] = last /\ j - a \in DOMAIN rows
    BY <1>1, <1>2, <1>11, <2>1 DEF PageRows
  <2>3. rows[j - a] = Append(sub, last)
    BY <1>1, <2>2 DEF PageRows
  <2>4. path = Append(sub, last)
    <3>1. PICK n, u : n \in Nat /\ n = last /\ u = Append(sub, n)
      <4>1. names[j] \in Nat
        BY <1>3, <1>11
      <4> QED
        BY <1>11, <4>1
    <3>2. IsStrictPrefix(sub, path) /\ path[Len(sub) + 1] = n /\ Len(path) = Len(sub) + 1 <=> path = u
      BY <1>4, <3>1, ChildPrefix
    <3> QED
      BY <1>5, <1>11, <3>1, <3>2
  <2> QED
    BY <2>2, <2>3, <2>4 DEF Elements
<1>12. ASSUME NEW j \in DOMAIN names, j > a + f PROVE <<sub, p + 1>> \in more
  <2>1. PICK n \in Nat : n = Len(names)
    BY <1>3
  <2>2. j \in 1 .. n
    BY <1>3, <2>1
  <2>3. n > a + f
    BY <1>2, <1>12, <2>2
  <2>4. p < TotalPages(files, sub)
    BY <1>1, <1>2, <2>1, <2>3, PagesAre
  <2> QED
    BY <2>4 DEF PageMore
<1>13. ASSUME LeadsTo(files, <<sub, p>>, path)
       PROVE  path \in Elements(rows) \/ \E t \in links \cup more : LeadsTo(files, t, path)
  <2>1. CASE ~direct
    <3>1. in /\ p = 1
      BY <1>6, <1>13, <2>1
    <3>2. last \in Directories(files, sub) /\ last \in Nat
      BY <1>10, <2>1, <3>1
    <3>3. <<Append(sub, last), 1>> \in links
      BY <3>1, <3>2 DEF PageLinks
    <3>4. LeadsTo(files, <<Append(sub, last), 1>>, path)
      BY <1>8, <2>1, <3>1, <3>2
    <3> QED
      BY <3>3, <3>4
  <2>2. CASE direct
    <3>1. in
      BY <1>6, <1>13
    <3>2. PICK j \in DOMAIN names : names[j] = last /\ j > a
      BY <1>6, <1>13, <2>2
    <3>3. CASE j > a + f
      <4>1. <<sub, p + 1>> \in more
        BY <1>12, <3>3
      <4>2. LeadsTo(files, <<sub, p + 1>>, path)
        BY <1>7, <2>2, <3>1, <3>2, <3>3
      <4> QED
        BY <4>1, <4>2
    <3>4. CASE ~(j > a + f)
      BY <1>11, <2>2, <3>1, <3>2, <3>4
    <3> QED
      BY <3>3, <3>4
  <2> QED
    BY <2>1, <2>2
<1>14. ASSUME NEW t \in links \cup more, LeadsTo(files, t, path)
       PROVE  \/ /\ t \in links /\ in /\ ~direct /\ p = 1 /\ t = <<Append(sub, last), 1>>
              \/ /\ t = <<sub, p + 1>> /\ in /\ direct
                 /\ \E j \in DOMAIN names : names[j] = last /\ j > a + f
  <2>1. CASE t \in links
    <3>1. p = 1
      BY <2>1 DEF PageLinks
    <3>2. PICK n \in Directories(files, sub) : t = <<Append(sub, n), 1>>
      BY <2>1, <3>1 DEF PageLinks
    <3>3. n \in Nat
      BY <3>2, NamesAre DEF Directories
    <3>4. in /\ last = n /\ ~direct
      BY <1>8, <1>14, <3>2, <3>3
    <3> QED
      BY <2>1, <3>1, <3>2, <3>4
  <2>2. CASE t \in more
    <3>1. t = <<sub, p + 1>>
      BY <2>2 DEF PageMore
    <3> QED
      BY <1>7, <1>14, <3>1
  <2> QED
    BY <2>1, <2>2
<1>15. ASSUME NEW t \in links \cup more, LeadsTo(files, t, path)
       PROVE  /\ LeadsTo(files, <<sub, p>>, path)
              /\ path \notin Elements(rows)
              /\ \A u \in links \cup more : LeadsTo(files, u, path) => u = t
  <2>1. LeadsTo(files, <<sub, p>>, path)
    <3>1. CASE ~direct
      BY <1>6, <1>14, <1>15, <3>1
    <3>2. CASE direct
      <4>1. PICK j \in DOMAIN names : names[j] = last /\ j > a + f
        BY <1>14, <1>15, <3>2
      <4>2. j > a
        <5>1. j \in Nat
          BY <1>3
        <5> QED
          BY <1>2, <4>1, <5>1
      <4>3. in
        BY <1>14, <1>15
      <4> QED
        BY <1>6, <3>2, <4>1, <4>2, <4>3
    <3> QED
      BY <3>1, <3>2
  <2>2. path \notin Elements(rows)
    <3>1. SUFFICES ASSUME path \in Elements(rows) PROVE FALSE
      OBVIOUS
    <3>2. direct /\ \E j \in DOMAIN names : names[j] = last /\ ~(j > a + f)
      BY <1>9, <3>1
    <3>3. \E j \in DOMAIN names : names[j] = last /\ j > a + f
      BY <1>14, <1>15, <3>2
    <3> QED
      BY <1>3, <3>2, <3>3
  <2>3. ASSUME NEW u \in links \cup more, LeadsTo(files, u, path) PROVE u = t
    <3>1. \/ ~direct /\ t = <<Append(sub, last), 1>>
          \/ direct /\ t = <<sub, p + 1>>
      BY <1>14, <1>15
    <3>2. \/ ~direct /\ u = <<Append(sub, last), 1>>
          \/ direct /\ u = <<sub, p + 1>>
      BY <1>14, <2>3
    <3> QED
      BY <3>1, <3>2
  <2> QED
    BY <2>1, <2>2, <2>3
<1> QED
  BY <1>13, <1>15

(* A path that is not found is of no file. *)
LEMMA LookupFails ==
    ASSUME NEW files, IsTree(files), NEW path, Lookup(files, path) = {}
    PROVE  path \notin Paths(files)
<1>1. SUFFICES ASSUME path \in Paths(files) PROVE FALSE
  OBVIOUS
<1>2. PICK m \in Nat : DOMAIN files = 1 .. m
  BY DEF IsTree
<1>3. PICK B : B = {i \in DOMAIN files : files[i].path = path}
  OBVIOUS
<1>4. B \in SUBSET (1 .. m) /\ B # {}
  BY <1>1, <1>2, <1>3 DEF Paths
<1>5. PICK j \in B : \A k \in B : j <= k
  BY <1>4, Least
<1>6. files[j].id \in Lookup(files, path)
  BY <1>3, <1>5 DEF Lookup
<1> QED
  BY <1>6

LEMMA VisitCovers ==
    ASSUME NEW files, IsTree(files), Unambiguous(files), NEW pages, NEW shown,
           Covered(files, pages, shown), NEW sub \in Seq(Nat), NEW p \in Nat \ {0},
           <<sub, p>> \in pages, Lookup(files, sub) = {},
           NEW rows, rows = PageRows(files, sub, p),
           NEW links, links = PageLinks(files, sub, p), NEW more, more = PageMore(files, sub, p)
    PROVE  Covered(files, (pages \ {<<sub, p>>}) \cup links \cup more, shown \o rows)
<1>1. PICK v, rest, new, all, next_ : /\ v = <<sub, p>> /\ rest = pages \ {v} /\ new = links \cup more
                                      /\ all = shown \o rows
                                      /\ next_ = (pages \ {v}) \cup links \cup more
  OBVIOUS
<1>2. next_ = rest \cup new /\ v \in pages /\ v \notin rest /\ rest \subseteq pages
  BY <1>1
<1>3. /\ rows \in Seq(Paths(files)) /\ \A i, j \in DOMAIN rows : rows[i] = rows[j] => i = j
      /\ \A i \in DOMAIN rows : LeadsTo(files, v, rows[i])
  <2>1. /\ rows \in Seq(Paths(files)) /\ \A i, j \in DOMAIN rows : rows[i] = rows[j] => i = j
        /\ \A i \in DOMAIN rows : LeadsTo(files, <<sub, p>>, rows[i])
    BY RowsAre
  <2> QED
    BY <1>1, <2>1
<1>4. ASSUME NEW path \in Paths(files)
      PROVE  /\ LeadsTo(files, v, path) =>
                  path \in Elements(rows) \/ \E t \in new : LeadsTo(files, t, path)
             /\ \A t \in new : LeadsTo(files, t, path) =>
                  /\ LeadsTo(files, v, path) /\ path \notin Elements(rows)
                  /\ \A u \in new : LeadsTo(files, u, path) => u = t
  <2>1. /\ LeadsTo(files, <<sub, p>>, path) =>
             path \in Elements(rows) \/ \E t \in links \cup more : LeadsTo(files, t, path)
        /\ \A t \in links \cup more : LeadsTo(files, t, path) =>
             /\ LeadsTo(files, <<sub, p>>, path)
             /\ path \notin Elements(rows)
             /\ \A u \in links \cup more : LeadsTo(files, u, path) => u = t
    BY PageSplits
  <2> QED
    BY <1>1, <2>1
<1>5. /\ shown \in Seq(Paths(files)) /\ \A i, j \in DOMAIN shown : shown[i] = shown[j] => i = j
      /\ \A path \in Paths(files) :
           \/ path \in Elements(shown)
           \/ \E t \in pages : LeadsTo(files, t, path)
           \/ path = <<>> /\ <<<<>>, 1>> \in pages
      /\ \A path \in Paths(files) : \A t \in pages :
           LeadsTo(files, t, path) =>
               /\ path \notin Elements(shown)
               /\ \A u \in pages : LeadsTo(files, u, path) => u = t
  BY DEF Covered
<1>6. PICK m \in Nat, k \in Nat : m = Len(shown) /\ k = Len(rows)
  BY <1>3, <1>5
<1>7. DOMAIN shown = 1 .. m /\ DOMAIN rows = 1 .. k
  BY <1>3, <1>5, <1>6
<1>8. /\ all \in Seq(Paths(files)) /\ Len(all) = m + k
      /\ \A i \in 1 .. m + k : all[i] = IF i <= m THEN shown[i] ELSE rows[i - m]
  BY <1>1, <1>3, <1>5, <1>6, ConcatProperties
<1>9. DOMAIN all = 1 .. m + k
  BY <1>8
<1>10. \A i \in 1 .. m + k : (i <= m => i \in 1 .. m) /\ (~(i <= m) => i - m \in 1 .. k)
  BY <1>6
<1>11. ASSUME NEW path, path \in Elements(all) PROVE path \in Elements(shown) \/ path \in Elements(rows)
  <2>1. PICK i \in 1 .. m + k : path = all[i]
    BY <1>9, <1>11 DEF Elements
  <2>2. CASE i <= m
    <3>1. i \in DOMAIN shown /\ path = shown[i]
      BY <1>7, <1>8, <1>10, <2>1, <2>2
    <3> QED
      BY <3>1 DEF Elements
  <2>3. CASE ~(i <= m)
    <3>1. i - m \in DOMAIN rows /\ path = rows[i - m]
      BY <1>7, <1>8, <1>10, <2>1, <2>3
    <3> QED
      BY <3>1 DEF Elements
  <2> QED
    BY <2>2, <2>3
<1>12. ASSUME NEW path, path \in Elements(shown) \/ path \in Elements(rows) PROVE path \in Elements(all)
  <2>1. CASE path \in Elements(shown)
    <3>1. PICK i \in 1 .. m : path = shown[i]
      BY <1>7, <2>1 DEF Elements
    <3>2. i \in 1 .. m + k /\ i <= m
      BY <1>6
    <3>3. i \in DOMAIN all /\ path = all[i]
      BY <1>8, <1>9, <3>1, <3>2
    <3> QED
      BY <3>3 DEF Elements
  <2>2. CASE path \in Elements(rows)
    <3>1. PICK i \in 1 .. k : path = rows[i]
      BY <1>7, <2>2 DEF Elements
    <3>2. m + i \in 1 .. m + k /\ ~(m + i <= m) /\ (m + i) - m = i
      BY <1>6
    <3>3. m + i \in DOMAIN all /\ path = all[m + i]
      BY <1>8, <1>9, <3>1, <3>2
    <3> QED
      BY <3>3 DEF Elements
  <2> QED
    BY <1>12, <2>1, <2>2
<1>13. ASSUME NEW path \in Paths(files), path \in Elements(rows) PROVE LeadsTo(files, v, path)
  BY <1>3, <1>13 DEF Elements
<1>14. ASSUME NEW path \in Paths(files), path \in Elements(rows) PROVE path \notin Elements(shown)
  BY <1>2, <1>5, <1>13, <1>14
<1>15. ASSUME NEW i \in DOMAIN all, NEW j \in DOMAIN all, all[i] = all[j] PROVE i = j
  <2>1. i \in 1 .. m + k /\ j \in 1 .. m + k /\ i \in Int /\ j \in Int
    BY <1>9
  <2>2. CASE i <= m /\ j <= m
    <3>1. i \in DOMAIN shown /\ j \in DOMAIN shown /\ shown[i] = shown[j]
      BY <1>7, <1>8, <1>10, <1>15, <2>1, <2>2
    <3> QED
      BY <1>5, <3>1
  <2>3. CASE ~(i <= m) /\ ~(j <= m)
    <3>1. i - m \in DOMAIN rows /\ j - m \in DOMAIN rows /\ rows[i - m] = rows[j - m]
      BY <1>7, <1>8, <1>10, <1>15, <2>1, <2>3
    <3>2. i - m = j - m
      BY <1>3, <3>1
    <3> QED
      BY <1>6, <2>1, <3>2
  <2>4. ASSUME NEW x \in DOMAIN shown, NEW y \in DOMAIN rows, shown[x] = rows[y] PROVE FALSE
    <3>1. rows[y] \in Elements(rows) /\ rows[y] \in Elements(shown) /\ rows[y] \in Paths(files)
      <4>1. rows[y] \in Elements(rows) /\ shown[x] \in Elements(shown)
        BY DEF Elements
      <4>2. rows[y] \in Paths(files)
        <5>1. rows \in Seq(Paths(files)) /\ y \in DOMAIN rows
          BY <1>3
        <5> QED
          BY ONLY <5>1
      <4> QED
        BY <2>4, <4>1, <4>2
    <3> QED
      BY <1>14, <3>1
  <2>5. ~(i <= m /\ ~(j <= m))
    BY <1>7, <1>8, <1>10, <1>15, <2>1, <2>4
  <2>6. ~(~(i <= m) /\ j <= m)
    BY <1>7, <1>8, <1>10, <1>15, <2>1, <2>4
  <2> QED
    BY <2>2, <2>3, <2>5, <2>6
<1>16. ASSUME NEW path \in Paths(files)
       PROVE  \/ path \in Elements(all)
              \/ \E t \in next_ : LeadsTo(files, t, path)
              \/ path = <<>> /\ <<<<>>, 1>> \in next_
  <2>1. CASE path \in Elements(shown)
    BY <1>12, <2>1
  <2>2. CASE \E t \in pages : LeadsTo(files, t, path)
    <3>1. PICK t \in pages : LeadsTo(files, t, path)
      BY <2>2
    <3>2. CASE t = v
      BY <1>2, <1>4, <1>12, <3>1, <3>2
    <3>3. CASE t # v
      BY <1>1, <1>2, <3>1, <3>3
    <3> QED
      BY <3>2, <3>3
  <2>3. CASE path = <<>> /\ <<<<>>, 1>> \in pages
    <3>1. PICK e : e = <<<<>>, 1>>
      OBVIOUS
    <3>2. CASE e = v
      <4>1. sub = <<>>
        BY <1>1, <3>1, <3>2
      <4>2. path \notin Paths(files)
        BY <2>3, <4>1, LookupFails
      <4> QED
        BY <4>2
    <3>3. CASE e # v
      BY <1>1, <1>2, <2>3, <3>1, <3>3
    <3> QED
      BY <3>2, <3>3
  <2> QED
    BY <1>5, <2>1, <2>2, <2>3
<1>17. ASSUME NEW path \in Paths(files), NEW t \in next_, LeadsTo(files, t, path)
       PROVE  /\ path \notin Elements(all)
              /\ \A u \in next_ : LeadsTo(files, u, path) => u = t
  <2>1. CASE t \in rest
    <3>1. /\ path \notin Elements(shown) /\ t \in pages /\ t # v
          /\ \A u \in pages : LeadsTo(files, u, path) => u = t
      BY <1>2, <1>5, <1>17, <2>1
    <3>2. ~LeadsTo(files, v, path)
      BY <1>2, <3>1
    <3>3. path \notin Elements(rows) /\ \A u \in new : ~LeadsTo(files, u, path)
      BY <1>4, <1>13, <3>2
    <3> QED
      BY <1>2, <1>11, <3>1, <3>3
  <2>2. CASE t \in new
    <3>1. /\ LeadsTo(files, v, path) /\ path \notin Elements(rows)
          /\ \A u \in new : LeadsTo(files, u, path) => u = t
      BY <1>4, <1>17, <2>2
    <3>2. path \notin Elements(shown) /\ \A u \in pages : LeadsTo(files, u, path) => u = v
      BY <1>2, <1>5, <3>1
    <3>3. \A u \in rest : ~LeadsTo(files, u, path)
      BY <1>2, <3>2
    <3> QED
      BY <1>2, <1>11, <3>1, <3>2, <3>3
  <2> QED
    BY <1>2, <2>1, <2>2
<1>18. Covered(files, next_, all)
  BY <1>8, <1>15, <1>16, <1>17 DEF Covered
<1> QED
  BY <1>1, <1>18

(* A browser begins at the first page of the directory. *)
LEMMA StartCovers ==
    ASSUME NEW files, IsTree(files), Unambiguous(files)
    PROVE  Covered(files, {<<<<>>, 1>>}, <<>>)
<1>1. PICK e : e = <<>>
  OBVIOUS
<1>2. e \in Seq(Nat) /\ Len(e) = 0 /\ DOMAIN e = {} /\ e \in Seq(Paths(files)) /\ Elements(e) = {}
  BY <1>1 DEF Elements
<1>3. ASSUME NEW path \in Paths(files), path # e PROVE LeadsTo(files, <<e, 1>>, path)
  <2>1. path \in Seq(Nat)
    BY DEF Paths, IsTree
  <2>2. PICK l \in Nat : l = Len(path)
    BY <2>1
  <2>3. l # 0
    BY <1>1, <1>3, <2>1, <2>2
  <2>4. IsStrictPrefix(e, path)
    <3>1. IsStrictPrefix(e, path) <=> Len(e) < Len(path) /\ \A i \in 1 .. Len(e) : e[i] = path[i]
      BY <1>2, <2>1, PrefixIs
    <3> QED
      BY <1>2, <2>2, <2>3, <3>1
  <2>5. PICK names : names = FileNames(files, e)
    OBVIOUS
  <2>6. ASSUME Len(path) = Len(e) + 1
        PROVE  \E j \in DOMAIN names : names[j] = path[Len(path)] /\ j > (1 - 1) * FilesPerPage
    <3>1. PICK x : x = path[Len(e) + 1]
      OBVIOUS
    <3>2. x \in Names(files, e) \ Directories(files, e)
      BY <1>2, <2>4, <2>6, <3>1, NameKinds
    <3>3. /\ names \in Seq(Nat)
          /\ \A n \in Names(files, e) \ Directories(files, e) : \E j \in DOMAIN names : names[j] = n
      <4>1. IsTree(files) /\ e \in Seq(Nat) /\ names = FileNames(files, e)
        BY <1>2, <2>5
      <4> QED
        BY ONLY <4>1, FileNamesAre
    <3>4. PICK j \in DOMAIN names : names[j] = x
      BY <3>2, <3>3, Zenon
    <3>5. j \in Nat /\ j > 0
      BY <3>3
    <3>6. (1 - 1) * FilesPerPage = 0
      <4>1. PICK f \in Nat : f = FilesPerPage
        BY GatewayAssumption
      <4> QED
        BY <4>1
    <3> QED
      BY <2>6, <3>1, <3>4, <3>5, <3>6
  <2>7. LeadsTo(files, <<e, 1>>, path) <=>
          /\ IsStrictPrefix(e, path)
          /\ IF Len(path) = Len(e) + 1
             THEN \E j \in DOMAIN names : names[j] = path[Len(path)] /\ j > (1 - 1) * FilesPerPage
             ELSE 1 = 1
    BY <2>5, PageLeads
  <2> QED
    BY <2>4, <2>6, <2>7
<1>4. PICK v : v = <<e, 1>>
  OBVIOUS
<1>5. \A path \in Paths(files) : path = e \/ LeadsTo(files, v, path)
  BY <1>3, <1>4
<1>6. Covered(files, {v}, e)
  BY <1>1, <1>2, <1>4, <1>5 DEF Covered
<1> QED
  BY <1>1, <1>4, <1>6

(* When no page is left, every file has been shown, each once. *)
LEMMA EndCovers ==
    ASSUME NEW files, IsTree(files), Unambiguous(files), NEW shown, Covered(files, {}, shown)
    PROVE  Elements(shown) = Paths(files) /\ Len(shown) = Len(files)
<1>1. PICK S : S = Paths(files)
  OBVIOUS
<1>2. /\ shown \in Seq(S) /\ \A i, j \in DOMAIN shown : shown[i] = shown[j] => i = j
      /\ \A path \in S : path \in Elements(shown)
  BY <1>1 DEF Covered
<1>3. PICK m \in Nat, n \in Nat : m = Len(shown) /\ n = Len(files)
  BY <1>2 DEF IsTree
<1>4. DOMAIN shown = 1 .. m /\ DOMAIN files = 1 .. n /\ \A i \in 1 .. m : shown[i] \in S
  BY <1>2, <1>3 DEF IsTree
<1>5. Elements(shown) = S
  BY <1>2, <1>4 DEF Elements
<1>6. PICK f, g : f = [i \in 1 .. m |-> shown[i]] /\ g = [i \in 1 .. n |-> files[i].path]
  OBVIOUS
<1>7. f \in Bijection(1 .. m, S)
  <2>1. f \in [1 .. m -> S] /\ \A i, j \in 1 .. m : f[i] = f[j] => i = j
    BY <1>2, <1>4, <1>6
  <2>2. \A path \in S : \E i \in 1 .. m : f[i] = path
    BY <1>2, <1>4, <1>6 DEF Elements
  <2> QED
    BY <2>1, <2>2 DEF Bijection, Injection, Surjection, IsInjective
<1>8. g \in Bijection(1 .. n, S)
  <2>1. g \in [1 .. n -> S] /\ \A path \in S : \E i \in 1 .. n : g[i] = path
    BY <1>1, <1>4, <1>6 DEF Paths
  <2>2. ASSUME NEW i \in 1 .. n, NEW j \in 1 .. n, g[i] = g[j] PROVE i = j
    <3>1. PICK t \in Seq(Nat) : t = files[i].path /\ t = files[j].path
      BY <1>4, <1>6, <2>2 DEF IsTree
    <3>2. IsPrefix(t, t)
      BY PrefixIs
    <3> QED
      BY <1>4, <3>1, <3>2 DEF Unambiguous
  <2> QED
    BY <2>1, <2>2 DEF Bijection, Injection, Surjection, IsInjective
<1>9. IsFiniteSet(S) /\ Cardinality(S) = m
  <2>1. ExistsBijection(1 .. m, S)
    BY <1>7 DEF ExistsBijection
  <2> QED
    BY <2>1, FS_CountingElements, FS_NatBijection
<1>10. Cardinality(S) = n
  <2>1. ExistsBijection(1 .. n, S)
    BY <1>8 DEF ExistsBijection
  <2> QED
    BY <2>1, FS_CountingElements, FS_NatBijection
<1> QED
  BY <1>1, <1>3, <1>5, <1>9, <1>10

LEMMA PageIs ==
    ASSUME NEW files, NEW sub \in Seq(Nat), NEW p \in Nat \ {0}, p <= TotalPages(files, sub)
    PROVE  IsPage(files, <<sub, p>>)
<1>1. PICK t : t = <<sub, p>>
  OBVIOUS
<1>2. t[1] = sub /\ t[2] = p
  BY <1>1
<1> QED
  BY <1>1, <1>2 DEF IsPage

(* The links on a page are to pages that there are. *)
LEMMA LinksAre ==
    ASSUME NEW files, IsTree(files), NEW sub \in Seq(Nat), NEW p \in Nat \ {0},
           NEW t \in PageLinks(files, sub, p) \cup PageMore(files, sub, p)
    PROVE  IsPage(files, t)
<1>1. CASE t \in PageLinks(files, sub, p)
  <2>1. PICK n \in Directories(files, sub) : t = <<Append(sub, n), 1>>
    BY <1>1 DEF PageLinks
  <2>2. n \in Nat
    BY <2>1, NamesAre DEF Directories
  <2>3. PICK u \in Seq(Nat) : u = Append(sub, n)
    BY <2>2, ChildIs
  <2>4. TotalPages(files, u) \in Nat \ {0}
    BY <2>3, PagesAre
  <2>5. 1 <= TotalPages(files, u) /\ 1 \in Nat \ {0}
    BY <2>4
  <2> QED
    BY <2>1, <2>3, <2>5, PageIs
<1>2. CASE t \in PageMore(files, sub, p)
  <2>1. p < TotalPages(files, sub) /\ t = <<sub, p + 1>>
    BY <1>2 DEF PageMore
  <2>2. TotalPages(files, sub) \in Nat
    BY PagesAre
  <2>3. PICK q \in Nat \ {0} : q = p + 1 /\ q <= TotalPages(files, sub)
    BY <2>1, <2>2
  <2> QED
    BY <2>1, <2>3, PageIs
<1> QED
  BY <1>1, <1>2

LEMMA RenderShows ==
    ASSUME NEW files, NEW manifests, NEW r, r = RenderDirectory(files, manifests)
    PROVE  ShowsPage(r, files, request.subPath, ShownPage(files))
<1>1. PICK sub, p, paged : /\ sub = request.subPath /\ p = ShownPage(files)
                           /\ paged = PagedFiles(files, sub, p)
  OBVIOUS
<1>2. /\ r.page = p /\ r.hasNext = (p < TotalPages(files, sub))
      /\ r.dirs = {Append(sub, n) : n \in Directories(files, sub)}
  BY <1>1 DEF RenderDirectory
<1>3. r.files = [i \in DOMAIN paged |->
                   [path |-> Append(sub, paged[i]),
                    size |-> UNION {{m[f].size : f \in Lookup(files, Append(sub, paged[i]))}
                                      : m \in manifests}]]
  BY <1>1 DEF RenderDirectory
<1>4. DOMAIN r.files = DOMAIN paged
  BY <1>3
<1>5. ASSUME NEW i \in DOMAIN paged PROVE r.files[i].path = Append(sub, paged[i])
  BY <1>3
<1> QED
  BY <1>1, <1>2, <1>4, <1>5 DEF ShowsPage

(* A step of the handlers leaves the browser where it is. *)
LEMMA HandlerPages ==
    ASSUME PagesInv, FoundInv, UNCHANGED <<request, todo, found>>,
           at \notin {"idle", "browsed"}, at' \notin {"idle", "browsed"}
    PROVE  PagesInv' /\ FoundInv'
<1>1. PagesInv'
  BY DEF PagesInv
<1>2. FoundInv'
  BY DEF FoundInv
<1> QED
  BY <1>1, <1>2

LEMMA BrowseUnchanged ==
    ASSUME BrowseInv, UNCHANGED gatewayVars
    PROVE  BrowseInv'
<1>1. UNCHANGED <<at, request, response, todo, found>>
  BY DEF gatewayVars
<1>2. PagesInv' /\ FoundInv'
  BY <1>1 DEF BrowseInv, PagesInv, FoundInv
<1>3. ShownInv'
  BY <1>1 DEF BrowseInv, ShownInv, ShowsPage, ShownPage
<1> QED
  BY <1>2, <1>3 DEF BrowseInv

(* A directory is shown as the response has it. *)
LEMMA ShownAfter ==
    ASSUME BrowseInv, at = "batch", at' = "done", UNCHANGED <<request, todo, found>>,
           NEW manifests, response' = RenderDirectory(DirManifest[request.id], manifests)
    PROVE  BrowseInv'
<1>1. PagesInv' /\ FoundInv'
  BY HandlerPages DEF BrowseInv
<1>2. PICK files, sub, p : /\ files = DirManifest[request.id] /\ sub = request.subPath
                           /\ p = ShownPage(files)
  OBVIOUS
<1>3. ShowsPage(response', files, sub, p)
  BY <1>2, RenderShows
<1>4. /\ request'.id \in DOMAIN DirManifest
      /\ Lookup(DirManifest[request'.id], request'.subPath) = {}
  BY DEF BrowseInv, ShownInv
<1>5. p = ShownPage(DirManifest[request.id])' /\ files = DirManifest[request'.id]
      /\ sub = request'.subPath
  BY <1>2 DEF ShownPage
<1>6. ShowsPage(response, DirManifest[request.id], request.subPath,
                ShownPage(DirManifest[request.id]))'
  BY <1>3, <1>5 DEF ShowsPage
<1>7. ShownInv'
  BY <1>4, <1>6 DEF ShownInv
<1> QED
  BY <1>1, <1>7 DEF BrowseInv

LEMMA HandlerBrowse ==
    ASSUME StoreInv, BrowseInv, directoryHandler \/ listDirectory \/ serveFile \/ GatewayCallFails
    PROVE  BrowseInv'
<1>1. /\ UNCHANGED <<request, todo, found>> /\ at \notin {"idle", "browsed"}
      /\ at' \notin {"idle", "browsed"}
  BY DEF directoryHandler, listDirectory, serveFile, GatewayCallFails, Goes, Responds
<1>2. PagesInv' /\ FoundInv'
  BY <1>1, HandlerPages DEF BrowseInv
<1>3. ASSUME at' \notin {"batch", "done"} PROVE BrowseInv'
  BY <1>2, <1>3 DEF BrowseInv, ShownInv
<1>4. ASSUME at' = "done", NEW n, n # 200, response' = Error(n) PROVE BrowseInv'
  <2>1. response'.status = n
    BY <1>4 DEF Error
  <2> QED
    BY <1>2, <1>4, <2>1 DEF BrowseInv, ShownInv
<1>5. CASE directoryHandler
  <2>1. CASE at' = "batch"
    <3>1. PICK files \in GetDirectoryManifest(request.id) : Lookup(files, request.subPath) = {}
      BY <1>5, <2>1 DEF directoryHandler, Goes, Responds
    <3>2. request.id \in DOMAIN DirManifest /\ files = DirManifest[request.id]
      BY <3>1 DEF GetDirectoryManifest, StoreInv
    <3>3. ShownInv'
      BY <1>1, <2>1, <3>1, <3>2 DEF ShownInv
    <3> QED
      BY <1>2, <3>3 DEF BrowseInv
  <2>2. CASE at' = "done"
    <3>1. response' = Error(404)
      BY <1>5, <2>2 DEF directoryHandler, Goes, Responds
    <3> QED
      BY <1>4, <2>2, <3>1
  <2> QED
    BY <1>3, <2>1, <2>2
<1>6. CASE listDirectory
  <2>1. PICK manifests : Responds(RenderDirectory(DirManifest[request.id], manifests))
    BY <1>6 DEF listDirectory
  <2>2. at = "batch" /\ at' = "done" /\ response' = RenderDirectory(DirManifest[request.id], manifests)
    BY <1>6, <2>1 DEF listDirectory, Responds
  <2> QED
    BY <1>1, <2>2, ShownAfter
<1>7. CASE serveFile
  <2>1. CASE at' # "done"
    <3>1. at' = "data"
      BY <1>7, <2>1 DEF serveFile, Goes, Responds
    <3> QED
      BY <1>3, <3>1
  <2>2. CASE at' = "done" /\ response' = Error(500)
    BY <1>4, <2>2
  <2>3. CASE at' = "done" /\ \E text : response' = Serve(text)
    <3>1. PICK text : response' = Serve(text)
      BY <2>3
    <3>2. \/ response' = [status |-> 200, listing |-> FALSE, body |-> text]
          \/ response' = Error(416)
          \/ response' = ServeRange(text, request.range)
      BY <3>1 DEF Serve
    <3>3. CASE response' = [status |-> 200, listing |-> FALSE, body |-> text]
      <4>1. response'.listing = FALSE
        BY <3>3
      <4> QED
        BY <1>2, <2>3, <4>1 DEF BrowseInv, ShownInv
    <3>4. CASE response' = Error(416)
      BY <1>4, <2>3, <3>4
    <3>5. CASE response' = ServeRange(text, request.range) /\ response' # Error(416)
      <4>1. PICK a, b, c : response' = [status |-> 206, start |-> a, end |-> b, body |-> c]
        <5>1. PICK a, b : /\ a = (IF request.range.first = Blank THEN 0 ELSE request.range.first)
                          /\ b = (IF request.range.last = Blank \/ request.range.last >= Len(text)
                                  THEN Len(text) - 1 ELSE request.range.last)
          OBVIOUS
        <5>2. response' = [status |-> 206, start |-> a, end |-> b, body |-> SubSeq(text, a + 1, b + 1)]
          BY <3>5, <5>1 DEF ServeRange
        <5> QED
          BY <5>2
      <4>2. response'.status = 206
        BY <4>1
      <4> QED
        BY <1>2, <2>3, <4>2 DEF BrowseInv, ShownInv
    <3> QED
      BY <3>2, <3>3, <3>4, <3>5
  <2> QED
    BY <1>7, <2>1, <2>2, <2>3 DEF serveFile, Responds, Goes
<1>8. CASE GatewayCallFails
  <2>1. CASE at' = "file"
    BY <1>3, <2>1
  <2>2. CASE at' = "done" /\ (response' = Error(404) \/ response' = Error(500))
    BY <1>4, <2>2
  <2>3. CASE at = "batch" /\ at' = "done" /\ response' = RenderDirectory(DirManifest[request.id], {})
    BY <1>1, <2>3, ShownAfter
  <2> QED
    BY <1>8, <2>1, <2>2, <2>3 DEF GatewayCallFails
<1> QED
  BY <1>5, <1>6, <1>7, <1>8

LEMMA BrowseBegins ==
    ASSUME NEW d \in DOMAIN DirManifest, Browse(d)
    PROVE  BrowseInv'
<1>1. PICK v, files : v = <<<<>>, 1>> /\ files = DirManifest[d]
  OBVIOUS
<1>2. /\ request' = [id |-> d, subPath |-> <<>>, page |-> 1, range |-> NoRange]
      /\ at' = "directory" /\ todo' = {v} /\ found' = <<>>
  BY <1>1 DEF Browse, Get
<1>3. request'.id = d /\ request'.subPath = <<>> /\ request'.page = 1
  BY <1>2
<1>4. IsTree(files)
  BY <1>1, TreeIs
<1>5. IsPage(files, v)
  <2>1. PICK e : e = <<>>
    OBVIOUS
  <2>2. e \in Seq(Nat)
    BY <2>1
  <2>3. TotalPages(files, e) \in Nat \ {0}
    BY <1>4, <2>2, PagesAre
  <2>4. 1 <= TotalPages(files, e) /\ 1 \in Nat \ {0}
    BY <2>3
  <2>5. IsPage(files, <<e, 1>>)
    BY <2>2, <2>4, PageIs
  <2> QED
    BY <1>1, <2>1, <2>5
<1>6. PagesInv'
  <2>1. \A t \in todo' : IsPage(DirManifest[request'.id], t)
    BY <1>1, <1>2, <1>3, <1>5
  <2>2. <<request'.subPath, request'.page>> = v
    BY <1>1, <1>3
  <2> QED
    BY <1>2, <1>3, <2>1, <2>2 DEF PagesInv
<1>7. FoundInv'
  <2>1. Unambiguous(files) => Covered(files, {v}, <<>>)
    BY <1>1, <1>4, StartCovers
  <2> QED
    BY <1>1, <1>2, <1>3, <2>1 DEF FoundInv
<1>8. ShownInv'
  BY <1>2 DEF ShownInv
<1> QED
  BY <1>6, <1>7, <1>8 DEF BrowseInv

LEMMA FollowBrowse ==
    ASSUME GatewayInv, BrowseInv, Follow
    PROVE  BrowseInv'
<1>1. PICK id, sub, p, files : /\ id = request.id /\ sub = request.subPath /\ p = request.page
                               /\ files = DirManifest[id]
  OBVIOUS
<1>2. PICK v : v = <<sub, p>>
  OBVIOUS
<1>3. /\ at = "done" /\ todo # {} /\ id \in DOMAIN DirManifest /\ v \in todo
      /\ \A t \in todo : IsPage(files, t)
  BY <1>1, <1>2 DEF Follow, BrowseInv, PagesInv
<1>4. sub \in Seq(Nat) /\ p \in Nat \ {0} /\ p <= TotalPages(files, sub)
  <2>1. v[1] = sub /\ v[2] = p
    BY <1>2
  <2> QED
    BY <1>3, <2>1 DEF IsPage
<1>5. IsTree(files)
  BY <1>1, <1>3, TreeIs
<1>6. PICK rows, links, more : /\ rows = PageRows(files, sub, p) /\ links = PageLinks(files, sub, p)
                               /\ more = PageMore(files, sub, p)
  OBVIOUS
<1>7. \/ /\ response.status = 200 /\ response.listing
         /\ todo' = (todo \ {v}) \cup links \cup more /\ found' = found \o rows
      \/ UNCHANGED <<todo, found>>
  <2>1. CASE ~(response.status = 200 /\ response.listing)
    BY <2>1 DEF Follow
  <2>2. CASE response.status = 200 /\ response.listing
    <3>1. ShowsPage(response, files, sub, ShownPage(files))
      BY <1>1, <1>3, <2>2 DEF BrowseInv, ShownInv
    <3>2. ShownPage(files) = p
      <4>1. TotalPages(files, sub) \in Nat
        BY <1>4, <1>5, PagesAre
      <4>2. ~(p > TotalPages(files, sub))
        BY <1>4, <4>1
      <4> QED
        BY <1>1, <4>2 DEF ShownPage
    <3>3. /\ response.page = p /\ response.hasNext = (p < TotalPages(files, sub))
          /\ response.dirs = {Append(sub, n) : n \in Directories(files, sub)}
          /\ DOMAIN response.files = DOMAIN PagedFiles(files, sub, p)
          /\ \A i \in DOMAIN response.files :
               response.files[i].path = Append(sub, PagedFiles(files, sub, p)[i])
      BY <3>1, <3>2 DEF ShowsPage
    <3>4. [i \in DOMAIN response.files |-> response.files[i].path] = rows
      BY <1>6, <3>3 DEF PageRows
    <3>5. (IF response.hasNext THEN {<<sub, p + 1>>} ELSE {}) = more
      BY <1>6, <3>3 DEF PageMore
    <3>6. (IF response.page = 1 THEN {<<d, 1>> : d \in response.dirs} ELSE {}) = links
      <4>1. {<<d, 1>> : d \in response.dirs} = {<<Append(sub, n), 1>> : n \in Directories(files, sub)}
        BY <3>3
      <4> QED
        BY <1>6, <3>3, <4>1 DEF PageLinks
    <3>7. /\ todo' = (todo \ {<<sub, p>>})
                        \cup (IF response.page = 1 THEN {<<d, 1>> : d \in response.dirs} ELSE {})
                        \cup (IF response.hasNext THEN {<<sub, p + 1>>} ELSE {})
          /\ found' = found \o [i \in DOMAIN response.files |-> response.files[i].path]
      BY <1>1, <2>2 DEF Follow
    <3> QED
      BY <1>2, <2>2, <3>4, <3>5, <3>6, <3>7
  <2> QED
    BY <2>1, <2>2
<1>8. \A t \in todo' : IsPage(files, t)
  BY <1>3, <1>4, <1>5, <1>6, <1>7, LinksAre
<1>9. Unambiguous(files) => Covered(files, todo', found')
  <2> SUFFICES ASSUME Unambiguous(files) PROVE Covered(files, todo', found')
    OBVIOUS
  <2>1. PICK pages, shown : pages = todo /\ shown = found
    OBVIOUS
  <2>2. Covered(files, pages, shown)
    BY <1>1, <1>3, <2>1 DEF BrowseInv, FoundInv
  <2>3. CASE UNCHANGED <<todo, found>>
    BY <2>1, <2>2, <2>3
  <2>4. CASE /\ response.status = 200 /\ response.listing
             /\ todo' = (todo \ {v}) \cup links \cup more /\ found' = found \o rows
    <3>1. Lookup(files, sub) = {}
      BY <1>1, <1>3, <2>4 DEF BrowseInv, ShownInv
    <3>2. <<sub, p>> \in pages
      BY <1>2, <1>3, <2>1
    <3>3. Covered(files, (pages \ {<<sub, p>>}) \cup links \cup more, shown \o rows)
      BY <1>4, <1>5, <1>6, <2>2, <3>1, <3>2, VisitCovers
    <3> QED
      BY <1>2, <2>1, <2>4, <3>3
  <2> QED
    BY <1>7, <2>3, <2>4
<1>10. CASE todo' = {}
  <2>1. at' = "browsed" /\ request' = request
    BY <1>10 DEF Follow
  <2>2. PagesInv'
    BY <1>1, <1>3, <1>10, <2>1 DEF PagesInv
  <2>3. FoundInv'
    BY <1>1, <1>9, <2>1 DEF FoundInv
  <2>4. ShownInv'
    BY <2>1 DEF ShownInv
  <2> QED
    BY <2>2, <2>3, <2>4 DEF BrowseInv
<1>11. CASE todo' # {}
  <2>1. PICK t \in todo' : request' = [request EXCEPT !.subPath = t[1], !.page = t[2]]
    <3>1. PICK u : u = CHOOSE t \in todo' : TRUE
      OBVIOUS
    <3>2. u \in todo'
      BY <1>11, <3>1
    <3> QED
      BY <1>11, <3>1, <3>2 DEF Follow
  <2>2. at' = "directory"
    BY <1>11 DEF Follow
  <2>3. request' = [id |-> request.id, subPath |-> t[1], page |-> t[2], range |-> request.range]
    BY <2>1 DEF GatewayInv
  <2>4. request'.id = id /\ request'.subPath = t[1] /\ request'.page = t[2]
    BY <1>1, <2>3
  <2>5. <<request'.subPath, request'.page>> = t
    BY <1>8, <2>1, <2>4 DEF IsPage
  <2>6. PagesInv'
    BY <1>1, <1>3, <1>8, <2>1, <2>2, <2>4, <2>5 DEF PagesInv
  <2>7. FoundInv'
    BY <1>1, <1>9, <2>4 DEF FoundInv
  <2>8. ShownInv'
    BY <2>2 DEF ShownInv
  <2> QED
    BY <2>6, <2>7, <2>8 DEF BrowseInv
<1> QED
  BY <1>10, <1>11

LEMMA NextBrowse ==
    ASSUME StoreInv, GatewayInv, BrowseInv, [Next]_vars
    PROVE  BrowseInv'
<1>1. CASE UNCHANGED gatewayVars
  BY <1>1, BrowseUnchanged
<1>2. CASE directoryHandler \/ listDirectory \/ serveFile \/ GatewayCallFails
  BY <1>2, HandlerBrowse
<1>3. CASE Download \/ Leave
  <2>1. at' \in {"directory", "idle"} /\ todo' = {}
    BY <1>3 DEF Download, Get, Leave
  <2> QED
    BY <2>1 DEF BrowseInv, PagesInv, ShownInv, FoundInv
<1>4. CASE \E d \in DOMAIN DirManifest : Browse(d)
  BY <1>4, BrowseBegins
<1>5. CASE Follow
  BY <1>5, FollowBrowse
<1> QED
  BY <1>1, <1>2, <1>3, <1>4, <1>5 DEF Next, GatewayNext, vars

LEMMA BrowseInvariance == Spec => []BrowseInv
<1>1. Init => BrowseInv
  BY DEF Init, GatewayInit, BrowseInv, PagesInv, ShownInv, FoundInv
<1>2. IInv /\ BrowseInv /\ [Next]_vars => BrowseInv'
  BY NextBrowse DEF IInv
<1> QED
  BY <1>1, <1>2, Invariance, PTL DEF Spec

(* ListingComplete for every directory and page size, wherever calls fail: a browser that *)
(* follows the links of the pages that directoryHandler renders has been shown each file *)
(* of the directory and its subdirectories, and none twice. *)
THEOREM ListingTheorem == Spec => []ListingComplete
<1>1. BrowseInv => ListingComplete
  <2> SUFFICES ASSUME BrowseInv, at = "browsed", Unambiguous(DirManifest[request.id])
               PROVE  /\ Elements(found) = {DirManifest[request.id][i].path :
                                              i \in DOMAIN DirManifest[request.id]}
                      /\ Len(found) = Len(DirManifest[request.id])
    BY DEF ListingComplete
  <2>1. PICK files : files = DirManifest[request.id]
    OBVIOUS
  <2>2. IsTree(files) /\ Covered(files, {}, found)
    BY <2>1, TreeIs DEF BrowseInv, PagesInv, FoundInv
  <2>3. Elements(found) = Paths(files) /\ Len(found) = Len(files)
    BY <2>1, <2>2, EndCovers
  <2> QED
    BY <2>1, <2>3 DEF Paths
<1> QED
  BY <1>1, BrowseInvariance, PTL
=============================================================================
