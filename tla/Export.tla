------------------------------- MODULE Export --------------------------------
(***************************************************************************)
(* `blobcast files export' (cmd/files/export.go, ExportFile and            *)
(* ExportDirectory of pkg/sync/filesystem.go) against a node's storage     *)
(* service and the local disk.  A call may fail, the disk may fail and the *)
(* command may be killed, also in the middle of a write, and run again,    *)
(* with or without the key.                                                *)
(*                                                                         *)
(* The disk is the part of a file system at and below the target: a path   *)
(* is a sequence of names, <<>> the directory that is exported to, or the  *)
(* one of a single file.  What stands in the way of making <<>>, a file    *)
(* above it, is a file at <<>>.                                            *)
(***************************************************************************)
EXTENDS StorageService

CONSTANTS
    Jobs,            \* the commands: [kind "dir" or "file", id, key]
    NoKey,           \* no --key is given
    Nonce,           \* the nonce of an encrypted text, as one byte
    Disks,           \* what may be on the disk at first: [files (path -> data), dirs]
    ExportFailures,  \* which happen: "rpc", "disk", "kill"
    MaxRuns          \* bound on the number of commands

ASSUME RunsAssumption == MaxRuns \in Nat /\ ExportFailures \subseteq {"rpc", "disk", "kill"}

(* The first n of the directories above a path, from <<>> on, and all of them. *)
Upper(path, n) == {SubSeq(path, 1, i) : i \in 0 .. n - 1}
Parents(path) == Upper(path, Len(path))

(* A path is a file, a directory or nothing, and all that is above an entry is a directory. *)
ASSUME DiskAssumption ==
    \A d \in Disks :
        /\ DOMAIN d.files \cap d.dirs = {}
        /\ \A path \in DOMAIN d.files \cup d.dirs : Parents(path) \subseteq d.dirs

VARIABLES
    disk,       \* the files: path -> data
    dirs,       \* the directories
    pc,         \* where the command is
    job,        \* the command
    list, next, \* the files [path, id] to export, and the next one
    data,       \* what is to be written
    runs,       \* commands so far
    before, beforeDirs,  \* history: the disk when the command began
    ready,      \* history: what the command asks for was in the chain state then
    failed      \* history: a call or the disk has failed during the command

command == <<job, list, next, data>>
history == <<runs, before, beforeDirs, ready, failed>>
exportVars == <<disk, dirs, pc, command, history>>

Target == list[next].path
Source == list[next].id

(* AES-GCM: the nonce in front, and a text that only opens under the same key. *)
Encrypt(plain, key) == <<Nonce, [key |-> key, plain |-> plain]>>

Decrypt(text, key) ==
    IF Len(text) = 2 /\ text[1] = Nonce /\ text[2].key = key THEN {text[2].plain} ELSE {}

ExportInit ==
    /\ \E d \in Disks : disk = d.files /\ dirs = d.dirs
    /\ pc = "idle" /\ job = [kind |-> "none"] /\ list = <<>> /\ next = 0 /\ data = <<>>
    /\ runs = 0 /\ before = <<>> /\ beforeDirs = {} /\ ready = FALSE /\ failed = FALSE

(* The command begins; a single file is a list of one. *)
runExport(j) ==
    /\ pc \in {"idle", "success", "error"} /\ runs < MaxRuns
    /\ runs' = runs + 1
    /\ job' = j
    /\ list' = IF j.kind = "file" THEN <<[path |-> j.path, id |-> j.id]>> ELSE <<>>
    /\ pc' = IF j.kind = "file" THEN "check" ELSE "target"
    /\ next' = 1 /\ data' = <<>>
    /\ before' = disk /\ beforeDirs' = dirs /\ failed' = FALSE
    /\ ready' = (j.id \in IF j.kind = "file" THEN fileManifests ELSE dirManifests)
    /\ UNCHANGED <<stored, disk, dirs>>

ReturnError ==
    /\ pc' = "error"
    /\ UNCHANGED <<stored, disk, dirs, command, runs, before, beforeDirs, ready>>

(* os.MkdirAll makes those of the directories that are missing; a file in the place of *)
(* one is an error. *)
EnsureDir(path) == path \cap DOMAIN disk = {} /\ dirs' = dirs \cup path

(* The directory to export to is made before it is known what is exported. *)
EnsureTarget ==
    /\ pc = "target"
    /\ \/ /\ EnsureDir({<<>>})
          /\ pc' = "manifest" /\ UNCHANGED <<stored, disk, command, history>>
       \/ <<>> \in DOMAIN disk /\ ReturnError /\ UNCHANGED failed

ExportDirectory ==
    /\ pc = "manifest"
    /\ \/ \E files \in GetDirectoryManifest(job.id) :
            /\ list' = files
            /\ pc' = IF files = <<>> THEN "success" ELSE "check"
            /\ UNCHANGED <<stored, disk, dirs, job, next, data, history>>
       \/ GetDirectoryManifest(job.id) = {} /\ ReturnError /\ UNCHANGED failed

(* On to the next file, or the end. *)
NextFile ==
    /\ next' = next + 1 /\ data' = <<>>
    /\ pc' = IF next = Len(list) THEN "success" ELSE "check"

(* Mutant of AlreadyExported: only the size is compared. *)
AlreadyExportedSize(manifest) == Len(disk[Target]) = manifest.size

AlreadyExported(manifest) ==
    Len(disk[Target]) = manifest.size /\ HashBytes(disk[Target]) = manifest.hash

Exists(path) == path \in DOMAIN disk \cup dirs

(* Mutant of CheckExisting: a file that is there and differs is an error. *)
CheckExistingRefuses ==
    /\ pc = "check"
    /\ \/ /\ ~Exists(Target)
          /\ pc' = "fetch" /\ UNCHANGED <<stored, disk, dirs, command, history>>
       \/ /\ Target \in DOMAIN disk
          /\ \E manifest \in GetFileManifest(Source) :
               \/ /\ AlreadyExported(manifest)
                  /\ NextFile /\ UNCHANGED <<stored, disk, dirs, job, list, history>>
               \/ ~AlreadyExported(manifest) /\ ReturnError /\ UNCHANGED failed

(* ExportFile: a file that is there already with the manifest's hash is left alone; it is *)
(* an error if there is no manifest, or if what is there is a directory, which cannot be *)
(* read. *)
CheckExisting ==
    /\ pc = "check"
    /\ \/ /\ ~Exists(Target)
          /\ pc' = "fetch" /\ UNCHANGED <<stored, disk, dirs, command, history>>
       \/ /\ Target \in DOMAIN disk
          /\ \E manifest \in GetFileManifest(Source) :
               \/ /\ AlreadyExported(manifest)
                  /\ NextFile /\ UNCHANGED <<stored, disk, dirs, job, list, history>>
               \/ /\ ~AlreadyExported(manifest)
                  /\ pc' = "fetch" /\ UNCHANGED <<stored, disk, dirs, command, history>>
       \/ /\ Exists(Target) /\ (GetFileManifest(Source) = {} \/ Target \in dirs)
          /\ ReturnError /\ UNCHANGED failed

(* The disk fails, and Exists takes any error for an absent file. *)
StatFails ==
    /\ "disk" \in ExportFailures
    /\ pc = "check" /\ Exists(Target)
    /\ pc' = "fetch" /\ failed' = TRUE
    /\ UNCHANGED <<stored, disk, dirs, command, runs, before, beforeDirs, ready>>

(* Empty data arrives as nil, which is an error. *)
Fetched(text) == IF job.key = NoKey THEN {text} ELSE Decrypt(text, job.key)

FetchData ==
    /\ pc = "fetch"
    /\ \/ \E text \in GetFileData(Source) \ {<<>>} : \E plain \in Fetched(text) :
            /\ data' = plain
            /\ pc' = "write"
            /\ UNCHANGED <<stored, disk, dirs, job, list, next, history>>
       \/ /\ \A text \in GetFileData(Source) \ {<<>>} : Fetched(text) = {}
          /\ ReturnError /\ UNCHANGED failed

Put(path, contents) ==
    disk' = [p \in DOMAIN disk \cup {path} |-> IF p = path THEN contents ELSE disk[p]]

(* The directories above the file are made first; then os.WriteFile truncates the file and *)
(* writes all of it.  A file in the place of a directory is an error, and so is a *)
(* directory in the place of the file. *)
WriteFile ==
    /\ pc = "write"
    /\ \/ /\ EnsureDir(Parents(Target)) /\ Target \notin dirs'
          /\ Put(Target, data)
          /\ NextFile
          /\ UNCHANGED <<stored, job, list, history>>
       \/ /\ Target \in dirs \/ Parents(Target) \cap DOMAIN disk # {}
          /\ ReturnError /\ UNCHANGED failed

(* A write that stops half-way: some of the directories have been made, or all of them and *)
(* the file has been opened and has some of the data. *)
WriteStops ==
    \/ \E n \in 0 .. Len(Target) : EnsureDir(Upper(Target, n)) /\ UNCHANGED disk
    \/ /\ EnsureDir(Parents(Target)) /\ Target \notin dirs'
       /\ \E n \in 0 .. Len(data) : Put(Target, SubSeq(data, 1, n))

(* The disk fails where the command makes the target, reads what is there or writes, and *)
(* the command ends. *)
DiskFails ==
    /\ "disk" \in ExportFailures
    /\ \/ /\ pc = "target" \/ (pc = "check" /\ Exists(Target))
          /\ UNCHANGED <<disk, dirs>>
       \/ pc = "write" /\ WriteStops
    /\ pc' = "error" /\ failed' = TRUE
    /\ UNCHANGED <<stored, command, runs, before, beforeDirs, ready>>

(* A call to the node fails. *)
CallFails ==
    /\ "rpc" \in ExportFailures
    /\ pc \in {"manifest", "fetch"} \/ (pc = "check" /\ Exists(Target))
    /\ pc' = "error" /\ failed' = TRUE
    /\ UNCHANGED <<stored, disk, dirs, command, runs, before, beforeDirs, ready>>

(* The command is killed, perhaps half-way through a write. *)
Kill ==
    /\ "kill" \in ExportFailures
    /\ pc \in {"target", "manifest", "check", "fetch", "write"}
    /\ (pc = "write" /\ WriteStops) \/ UNCHANGED <<disk, dirs>>
    /\ pc' = "idle"
    /\ job' = [kind |-> "none"] /\ list' = <<>> /\ next' = 0 /\ data' = <<>>
    /\ before' = <<>> /\ beforeDirs' = {} /\ ready' = FALSE /\ failed' = FALSE
    /\ UNCHANGED <<stored, runs>>

ExportNext ==
    \/ \E j \in Jobs : runExport(j)
    \/ EnsureTarget \/ ExportDirectory \/ CheckExisting \/ FetchData \/ WriteFile
    \/ StatFails \/ DiskFails \/ CallFails \/ Kill

-----------------------------------------------------------------------------
(***************************************************************************)
(* Properties.                                                             *)
(***************************************************************************)

(* What the manifest promises the file to be. *)
Promised(f) == FileManifest[f].hash.hash

(* The target has exactly the file's data, with a key the decrypted data. *)
Exact(path, f) ==
    /\ path \in DOMAIN disk
    /\ \/ job.key = NoKey /\ disk[path] = Promised(f)
       \/ job.key # NoKey /\ disk[path] \in Decrypt(Promised(f), job.key)

(* No other file of the list has the path, as in every manifest that is made of a disk. *)
OnlyTarget(i) == \A j \in DOMAIN list : list[j].path = list[i].path => j = i

(* A key is given, and the data as it was stored, encrypted, was at the target already *)
(* when the command began: an earlier export without the key has left it. *)
LeftSealed(i) ==
    /\ job.key # NoKey
    /\ list[i].path \in DOMAIN before /\ before[list[i].path] = Promised(list[i].id)

(* An export that reports success has left at every target exactly the file's data, *)
(* decrypted if a key is given, whatever else was there before and wherever earlier *)
(* exports were killed: ExportFile overwrites what differs.  The encrypted text at a target *)
(* does not differ, see RecreatedExactly. *)
ExportExact ==
    pc = "success" =>
        \A i \in DOMAIN list : OnlyTarget(i) /\ ~LeftSealed(i) => Exact(list[i].path, list[i].id)

(* "The directory will be recreated exactly as it was uploaded. If the data was encrypted *)
(* you must supply the same `--key`": of `files export' in the documentation of the *)
(* command line, of every export that reports success. *)
RecreatedExactly ==
    pc = "success" => \A i \in DOMAIN list : OnlyTarget(i) => Exact(list[i].path, list[i].id)

(* A file that can be exported: it is not empty, and the key opens it. *)
Exportable(f) ==
    Promised(f) # <<>> /\ (job.key # NoKey => Decrypt(Promised(f), job.key) # {})

(* The directories and the files that the command needs cannot all be: one is needed as *)
(* both, or the other was in its place when the command began. *)
Obstructed ==
    LET targets == {list[i].path : i \in DOMAIN list}
        needed == {<<>>} \cup UNION {Parents(path) : path \in targets}
    IN  \/ needed \cap (targets \cup DOMAIN before) # {}
        \/ targets \cap beforeDirs # {}

(* An export of what the chain state had when it began fails only if a call or the disk *)
(* failed, a file is empty, the key is not the file's, or a file is where it needs a *)
(* directory or the reverse: in particular no file and no directory that an earlier export *)
(* left at its own place, whole or in part, stops a later one. *)
ExportCompletes ==
    pc = "error" /\ ready =>
        \/ failed \/ Obstructed
        \/ \E i \in DOMAIN list : ~Exportable(list[i].id)
=============================================================================
