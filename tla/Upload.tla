-------------------------------- MODULE Upload --------------------------------
(***************************************************************************)
(* `blobcast files submit --dir' (pkg/sync/filesystem.go, sync.go,         *)
(* manifest.go): a goroutine per file publishes the file's chunks and then *)
(* its manifest through the Submitter; when all have, the directory        *)
(* manifest is published.  Upload records (pkg/state/upload.go) let a      *)
(* later command go on from what was published.                            *)
(*                                                                         *)
(* A chunk is a model value and stands for its hash; a file's contents are *)
(* the sequence of its chunks and stand for its hash.  The directory may   *)
(* change between two commands.  `--file' is one such goroutine alone.     *)
(***************************************************************************)
EXTENDS Submitter

CONSTANTS
    Paths,      \* the files of the directory
    Versions    \* what the directory contains in turn: path -> chunks of fileutil.Split

(* All chunks there are. *)
Chunks == UNION {Range(Versions[i][p]) : i \in DOMAIN Versions, p \in Paths}

ASSUME ContentAssumption ==
    Versions # <<>> /\ Versions \in Seq([Paths -> Seq(Chunks)])

VARIABLES
    version,    \* the contents of the directory, as an index into Versions
    records,    \* the upload state: identifiers of completed uploads, by key
    main,       \* where UploadDirectory is
    result,     \* what it returned
    uploadErr,
    pc, index,  \* of each file's goroutine: location and loop variable
    pending,    \* the chunks it waits for (chunkResults)
    fileId      \* what UploadFile returned to it

fileVars == <<pc, index, pending, fileId>>
mainVars == <<main, result, uploadErr>>
vars == <<submitterVars, version, records, mainVars, fileVars>>

None == [height |-> -1]

(* content[p]: what is in file p. *)
content == Versions[version]

(* The keys of upload records: hashes of different things. *)
ChunkKey(c) == <<"chunk", c>>
FileKey(p) == <<"file", content[p]>>
DirKey == <<"dir">>

ChunkData(c) == [kind |-> "chunk", data |-> c]
FileManifest(data, chunks) == [kind |-> "file", content |-> data, chunks |-> chunks]
DirectoryManifest(files, hash) == [kind |-> "dir", files |-> files, hash |-> hash]

(* The ticket of a chunk is its number, that of the file manifest is 0. *)
Ticket(p, i) == <<p, i>>

SaveUploadRecord(key, id) ==
    records' = [k \in DOMAIN records \cup {key} |-> IF k = key THEN id ELSE records[k]]

NoFiles ==
    /\ pc = [p \in Paths |-> "none"] /\ index = [p \in Paths |-> 0]
    /\ pending = [p \in Paths |-> {}] /\ fileId = [p \in Paths |-> None]

Init ==
    /\ SubmitterInit
    /\ height = 0 /\ published = {}
    /\ version = 1 /\ records = <<>>
    /\ main = "down" /\ result = None /\ uploadErr = FALSE
    /\ NoFiles

-----------------------------------------------------------------------------
(* The directory was uploaded by an earlier command. *)
AlreadyComplete ==
    /\ main = "down" /\ DirKey \in DOMAIN records
    /\ main' = "returned" /\ result' = records[DirKey]
    /\ UNCHANGED <<version, submitterVars, records, uploadErr, fileVars>>

(* UploadDirectory starts a goroutine per file. *)
UploadDirectory ==
    /\ main = "down" /\ DirKey \notin DOMAIN records
    /\ main' = "uploading"
    /\ pc' = [p \in Paths |-> "start"]
    /\ UNCHANGED <<version, submitterVars, records, result, uploadErr, index, pending, fileId>>

(* A goroutine starts; not if another has failed, and not if the contents were *)
(* uploaded before. *)
UploadFile(p) ==
    /\ pc[p] = "start"
    /\ \/ /\ uploadErr
          /\ pc' = [pc EXCEPT ![p] = "skipped"]
          /\ UNCHANGED <<index, fileId>>
       \/ /\ ~uploadErr /\ FileKey(p) \in DOMAIN records
          /\ pc' = [pc EXCEPT ![p] = "done"]
          /\ fileId' = [fileId EXCEPT ![p] = records[FileKey(p)]]
          /\ UNCHANGED index
       \/ /\ ~uploadErr /\ FileKey(p) \notin DOMAIN records
          /\ pc' = [pc EXCEPT ![p] = IF content[p] = <<>> THEN "wait" ELSE "submit"]
          /\ index' = [index EXCEPT ![p] = 1]
          /\ UNCHANGED fileId
    /\ UNCHANGED <<version, submitterVars, records, mainVars, pending>>

(* PutFileData submits the next chunk, unless there is a record of it; after the last it *)
(* waits for them. *)
SubmitChunk(p) ==
    /\ pc[p] = "submit"
    /\ LET c == content[p][index[p]] IN
       \/ /\ ChunkKey(c) \in DOMAIN records
          /\ UNCHANGED <<queue, pending>>
       \/ /\ ChunkKey(c) \notin DOMAIN records
          /\ Submit(Ticket(p, index[p]), ChunkData(c))
          /\ pending' = [pending EXCEPT ![p] = @ \cup {index[p]}]
    /\ \/ /\ index[p] < Len(content[p])
          /\ index' = [index EXCEPT ![p] = @ + 1] /\ UNCHANGED pc
       \/ /\ index[p] = Len(content[p])
          /\ index' = [index EXCEPT ![p] = 1] /\ pc' = [pc EXCEPT ![p] = "wait"]
    /\ UNCHANGED <<version, priorityQueue, runVars, answers, celestiaVars, records, mainVars,
                   fileId>>

(* PutFileData waits for its chunks in order and saves a record of each. *)
AwaitChunk(p) ==
    /\ pc[p] = "wait" /\ index[p] <= Len(content[p])
    /\ \/ /\ index[p] \notin pending[p]
          /\ UNCHANGED records
       \/ /\ index[p] \in pending[p]
          /\ Ticket(p, index[p]) \in DOMAIN answers
          /\ answers[Ticket(p, index[p])] # Error
          /\ SaveUploadRecord(ChunkKey(content[p][index[p]]), answers[Ticket(p, index[p])])
    /\ index' = [index EXCEPT ![p] = @ + 1]
    /\ UNCHANGED <<version, submitterVars, mainVars, pc, pending, fileId>>

(* The manifest refers to the chunks as recorded. *)
SubmitManifest(p) ==
    /\ pc[p] = "wait" /\ index[p] > Len(content[p])
    /\ SubmitWithPriority(Ticket(p, 0),
         FileManifest(content[p], [i \in DOMAIN content[p] |-> records[ChunkKey(content[p][i])]]))
    /\ pc' = [pc EXCEPT ![p] = "await"]
    /\ UNCHANGED <<version, queue, runVars, answers, celestiaVars, records, mainVars,
                   index, pending, fileId>>

AwaitManifest(p) ==
    /\ pc[p] = "await"
    /\ Ticket(p, 0) \in DOMAIN answers /\ answers[Ticket(p, 0)] # Error
    /\ SaveUploadRecord(FileKey(p), answers[Ticket(p, 0)])
    /\ fileId' = [fileId EXCEPT ![p] = answers[Ticket(p, 0)]]
    /\ pc' = [pc EXCEPT ![p] = "done"]
    /\ UNCHANGED <<version, submitterVars, mainVars, index, pending>>

(* The answer is an error: UploadFile returns it and no further goroutine starts. *)
FileFails(p) ==
    /\ \/ pc[p] = "wait" /\ index[p] \in pending[p] /\ index[p] <= Len(content[p])
          /\ Ticket(p, index[p]) \in DOMAIN answers
          /\ answers[Ticket(p, index[p])] = Error
       \/ pc[p] = "await" /\ Ticket(p, 0) \in DOMAIN answers /\ answers[Ticket(p, 0)] = Error
    /\ pc' = [pc EXCEPT ![p] = "failed"]
    /\ uploadErr' = TRUE
    /\ UNCHANGED <<version, submitterVars, records, main, result, index, pending, fileId>>

FileSteps(p) ==
    \/ UploadFile(p) \/ SubmitChunk(p) \/ AwaitChunk(p)
    \/ SubmitManifest(p) \/ AwaitManifest(p) \/ FileFails(p)

-----------------------------------------------------------------------------
FilesReturned == main = "uploading" /\ \A p \in Paths : pc[p] \in {"done", "failed", "skipped"}

UploadFails ==
    /\ FilesReturned /\ uploadErr
    /\ main' = "returned" /\ result' = Error
    /\ UNCHANGED <<version, submitterVars, records, uploadErr, fileVars>>

(* The references sorted by path, and the Merkle root of paths and file hashes. *)
TheDirectory == DirectoryManifest(fileId, content)

(* Mutant of DirectoryStored: uploadErr is not looked at. *)
DirectoryStoredAnyway ==
    /\ FilesReturned
    /\ Include({TheDirectory})
    /\ SaveUploadRecord(DirKey, [height |-> height + 1, commitment |-> TheDirectory])
    /\ main' = "returned"
    /\ result' = [height |-> height + 1, commitment |-> TheDirectory]
    /\ UNCHANGED <<version, queueVars, runVars, answers, uploadErr, fileVars>>

(* PutDirectoryManifest submits the manifest itself, and its record is saved. *)
DirectoryStored ==
    /\ FilesReturned /\ ~uploadErr
    /\ Include({TheDirectory})
    /\ SaveUploadRecord(DirKey, [height |-> height + 1, commitment |-> TheDirectory])
    /\ main' = "returned"
    /\ result' = [height |-> height + 1, commitment |-> TheDirectory]
    /\ UNCHANGED <<version, queueVars, runVars, answers, uploadErr, fileVars>>

(* As for a batch, the answer may be lost and the submission be made again ... *)
DirectoryAnswerLost ==
    /\ "lost" \in Failures
    /\ FilesReturned /\ ~uploadErr
    /\ Include({TheDirectory})
    /\ UNCHANGED <<version, queueVars, runVars, answers, records, mainVars, fileVars>>

(* ... or it may fail. *)
DirectoryRefused ==
    /\ "refused" \in Failures
    /\ FilesReturned /\ ~uploadErr
    /\ main' = "returned" /\ result' = Error
    /\ UNCHANGED <<version, submitterVars, records, uploadErr, fileVars>>

(* The process ends: Celestia and the upload records remain. *)
ProcessEnds ==
    /\ SubmitterGone
    /\ main' = "down" /\ result' = None /\ uploadErr' = FALSE
    /\ pc' = [p \in Paths |-> "none"] /\ index' = [p \in Paths |-> 0]
    /\ pending' = [p \in Paths |-> {}] /\ fileId' = [p \in Paths |-> None]
    /\ UNCHANGED <<version, records>>

Exit == main = "returned" /\ ProcessEnds

Kill == "kill" \in Failures /\ main # "down" /\ ProcessEnds

(* Between two commands the directory changes. *)
ChangeDirectory ==
    /\ main = "down"
    /\ version < Len(Versions)
    /\ version' = version + 1
    /\ UNCHANGED <<submitterVars, records, mainVars, fileVars>>

MainSteps == UploadFails \/ DirectoryStored \/ DirectoryRefused \/ Exit

RunSteps == main # "down" /\ SubmitterSteps /\ UNCHANGED <<version, records, mainVars, fileVars>>

Next ==
    \/ AlreadyComplete \/ UploadDirectory \/ ChangeDirectory
    \/ \E p \in Paths : FileSteps(p)
    \/ MainSteps \/ DirectoryAnswerLost \/ Kill
    \/ RunSteps
    \/ main # "down" /\ BatchAnswerLost /\ UNCHANGED <<version, records, mainVars, fileVars>>

Spec == Init /\ [][Next]_vars

(* All goroutines run while they can, and every submission is answered or ends after *)
(* 30 seconds; nobody need start the command again. *)
FairSpec ==
    /\ Spec
    /\ WF_vars(RunSteps) /\ WF_vars(MainSteps)
    /\ \A p \in Paths : WF_vars(FileSteps(p))

-----------------------------------------------------------------------------
(***************************************************************************)
(* Properties.                                                             *)
(***************************************************************************)

(* The bytes of some items, each as the item's place and its own within the payload. *)
Bytes(items) == UNION {{i} \X (1..Size(items[i].payload)) : i \in DOMAIN items}

(* No transaction exceeds MaxTxSize, but for a single blob that does by itself: run *)
(* counts the sizes of exactly the items in currentBatch. *)
BatchFits ==
    Len(batch) > 1 => Cardinality(Bytes(batch)) <= MaxTxSize

(* Each submitted item is in exactly one place, and is answered once: a second answer *)
(* would be a send on a closed channel, a lost item an upload that never ends (run and *)
(* submitBatch). *)
ItemsKept ==
    LET all == queue \o priorityQueue \o batch \o held
        unanswered == {all[i].ticket : i \in DOMAIN all}
    IN  /\ \A i, j \in DOMAIN all : i # j => all[i].ticket # all[j].ticket
        /\ unanswered \cap DOMAIN answers = {}
        /\ \A p \in Paths :
             /\ \A i \in pending[p] : Ticket(p, i) \in unanswered \cup DOMAIN answers
             /\ pc[p] = "await" => Ticket(p, 0) \in unanswered \cup DOMAIN answers

(* What an upload record of this key may refer to. *)
Denotes(key, blob) ==
    \/ blob.kind = "chunk" /\ key = ChunkKey(blob.data)
    \/ blob.kind = "file" /\ key = <<"file", blob.content>>
    \/ blob.kind = "dir" /\ key = DirKey

(* A resumed upload never builds on something that is not there: every upload record, *)
(* and the identifier UploadDirectory returns, is that of a blob on Celestia with the *)
(* contents the record is for, whatever was killed, lost or submitted twice; and unless *)
(* the path was taken for uploaded, it is that of the contents the directory has now, *)
(* whatever earlier commands recorded of other contents. *)
RecordsPublished ==
    /\ \A k \in DOMAIN records : records[k] \in published /\ Denotes(k, records[k].commitment)
    /\ result \notin {None, Error} =>
         /\ result \in published /\ Denotes(DirKey, result.commitment)
         /\ (\A p \in Paths : pc[p] = "done") => result.commitment.hash = content

(* Nodes accept what is uploaded: each file manifest on Celestia refers to the file's *)
(* chunks, each directory manifest to a manifest of each file of the directory, and all *)
(* of these are at lower heights (the acceptance rules of SyncFileManifest and *)
(* SyncDirectoryManifest in BlobcastChain). *)
ManifestsResolve ==
    \A m \in published :
        /\ m.commitment.kind = "file" =>
             /\ DOMAIN m.commitment.chunks = DOMAIN m.commitment.content
             /\ \A i \in DOMAIN m.commitment.chunks :
                  LET ref == m.commitment.chunks[i] IN
                  /\ ref \in published /\ ref.height < m.height
                  /\ ref.commitment = ChunkData(m.commitment.content[i])
        /\ m.commitment.kind = "dir" =>
             \A p \in Paths :
                  LET ref == m.commitment.files[p] IN
                  /\ ref \in published /\ ref.height < m.height
                  /\ ref.commitment.kind = "file"
                  /\ ref.commitment.content = m.commitment.hash[p]

(* The command ends, also when the queues are full, a batch is lost or refused, or one *)
(* file fails while others wait (unless the process is killed). *)
UploadReturns == main = "uploading" ~> main \in {"returned", "down"}
=============================================================================
