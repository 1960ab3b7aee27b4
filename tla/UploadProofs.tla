---------------------------- MODULE UploadProofs ----------------------------
(***************************************************************************)
(* Proofs about Upload: for every directory, however it changes between    *)
(* commands, every queue and transaction size, and every pattern of kills, *)
(* lost answers and refused submissions.                                   *)
(***************************************************************************)
EXTENDS Upload, FiniteSetTheorems, TLAPS

-----------------------------------------------------------------------------
(* Types.  Chunks, manifests of files and manifests of directories refer to *)
(* each other in this order only, so their sets are defined one by one.     *)

ChunkBlobs == [kind : {"chunk"}, data : Chunks]
ChunkIds == [height : Nat, commitment : ChunkBlobs]
FileBlobs == [kind : {"file"}, content : Seq(Chunks), chunks : Seq(ChunkIds)]
FileIds == [height : Nat, commitment : FileBlobs]
DirBlobs == [kind : {"dir"}, files : [Paths -> FileIds], hash : [Paths -> Seq(Chunks)]]
DirIds == [height : Nat, commitment : DirBlobs]

Ids == ChunkIds \cup FileIds \cup DirIds
Tickets == Paths \X Nat
SubmitItems == [ticket : Tickets, payload : ChunkBlobs \cup FileBlobs]

SubmitterTypeOK ==
    /\ queue \in Seq(SubmitItems) /\ priorityQueue \in Seq(SubmitItems)
    /\ batch \in Seq(SubmitItems) /\ held \in Seq(SubmitItems)
    /\ run \in {"select", "storing"}
    /\ DOMAIN answers \subseteq Tickets
    /\ \A t \in DOMAIN answers : answers[t] \in ChunkIds \cup FileIds \cup {Error}
    /\ height \in Nat /\ published \subseteq Ids

Locations == {"none", "start", "submit", "wait", "await", "done", "failed", "skipped"}

UploadTypeOK ==
    /\ version \in DOMAIN Versions
    /\ \A k \in DOMAIN records : records[k] \in Ids
    /\ main \in {"down", "uploading", "returned"}
    /\ result \in DirIds \cup {None, Error} /\ uploadErr \in BOOLEAN
    /\ pc \in [Paths -> Locations] /\ index \in [Paths -> Nat]
    /\ pending \in [Paths -> SUBSET Nat] /\ fileId \in [Paths -> FileIds \cup {None}]

(* The type invariant. *)
TypeOK == SubmitterTypeOK /\ UploadTypeOK

-----------------------------------------------------------------------------
(* The inductive invariant, in named parts. *)

(* What is submitted with a ticket: the chunk of that number, or the manifest. *)
Carries(t, blob) ==
    IF t[2] = 0
    THEN blob.kind = "file" /\ blob.content = content[t[1]]
    ELSE t[2] \in DOMAIN content[t[1]] /\ blob = ChunkData(content[t[1]][t[2]])

(* A file manifest whose references are on Celestia at height h or below. *)
FileResolves(blob, h) ==
    /\ DOMAIN blob.chunks = DOMAIN blob.content
    /\ \A i \in DOMAIN blob.chunks :
         /\ blob.chunks[i] \in published /\ blob.chunks[i].height <= h
         /\ blob.chunks[i].commitment = ChunkData(blob.content[i])

InFlight == Range(queue) \cup Range(priorityQueue) \cup Range(batch) \cup Range(held)

PayloadInv ==
    \A it \in InFlight :
        /\ Carries(it.ticket, it.payload)
        /\ it.payload.kind = "file" => FileResolves(it.payload, height)

AnswerInv ==
    \A t \in DOMAIN answers :
        answers[t] # Error => answers[t] \in published /\ Carries(t, answers[t].commitment)

(* Nothing on Celestia is above the last height. *)
HeightInv == \A m \in published : m.height <= height

RecordInv ==
    \A k \in DOMAIN records : records[k] \in published /\ Denotes(k, records[k].commitment)

(* How far the goroutine of a file has come: the chunks it does not wait for, *)
(* and those it has waited for, have a record. *)
HasRecord(p, i) == ChunkKey(content[p][i]) \in DOMAIN records

FileOK(p) ==
    /\ pc[p] = "submit" =>
         /\ index[p] \in DOMAIN content[p]
         /\ \A i \in 1..(index[p] - 1) : i \in pending[p] \/ HasRecord(p, i)
    /\ pc[p] = "wait" =>
         /\ index[p] \in 1..(Len(content[p]) + 1)
         /\ \A i \in DOMAIN content[p] : i \in pending[p] \/ HasRecord(p, i)
         /\ \A i \in 1..(index[p] - 1) : HasRecord(p, i)
    /\ pc[p] = "done" =>
         /\ fileId[p] \in published /\ fileId[p] \in FileIds
         /\ fileId[p].commitment.content = content[p]
    /\ pc[p] \in {"failed", "skipped"} => uploadErr

FileInv == \A p \in Paths : FileOK(p)

(* Nothing is left of a process that is down, and one that has returned has no *)
(* goroutine at work. *)
MainInv ==
    /\ main = "down" =>
         /\ queue = <<>> /\ priorityQueue = <<>> /\ batch = <<>> /\ held = <<>>
         /\ answers = <<>> /\ uploadErr = FALSE
         /\ \A p \in Paths : pc[p] = "none" /\ pending[p] = {}
    /\ main = "returned" => \A p \in Paths : pc[p] \in {"none", "done", "failed", "skipped"}
    /\ main # "returned" => result = None

ResultInv ==
    result \notin {None, Error} =>
        /\ result \in published /\ Denotes(DirKey, result.commitment)
        /\ (\A p \in Paths : pc[p] = "done") => result.commitment.hash = content

IInv ==
    /\ TypeOK /\ PayloadInv /\ AnswerInv /\ HeightInv /\ RecordInv /\ FileInv
    /\ MainInv /\ ResultInv /\ ManifestsResolve

-----------------------------------------------------------------------------
(* Each ticket is in one place. *)

TicketsOf(s) == {s[i].ticket : i \in DOMAIN s}
Distinct(s) == \A i, j \in DOMAIN s : i # j => s[i].ticket # s[j].ticket

Waiting == TicketsOf(queue) \cup TicketsOf(priorityQueue) \cup TicketsOf(batch) \cup TicketsOf(held)
Known == Waiting \cup DOMAIN answers

PlacesInv ==
    /\ Distinct(queue) /\ Distinct(priorityQueue) /\ Distinct(batch) /\ Distinct(held)
    /\ TicketsOf(queue) \cap TicketsOf(priorityQueue) = {}
    /\ (TicketsOf(queue) \cup TicketsOf(priorityQueue)) \cap
         (TicketsOf(batch) \cup TicketsOf(held)) = {}
    /\ TicketsOf(batch) \cap TicketsOf(held) = {}
    /\ Waiting \cap DOMAIN answers = {}
    /\ run = "select" => held = <<>>

(* The tickets in use are those of the chunks a goroutine waits for and of the *)
(* manifest it has submitted. *)
InUse(t) ==
    IF t[2] = 0 THEN pc[t[1]] \in {"await", "done", "failed"} ELSE t[2] \in pending[t[1]]

FileTickets(p) ==
    /\ \A i \in pending[p] : i # 0 /\ Ticket(p, i) \in Known
    /\ pc[p] = "await" => Ticket(p, 0) \in Known
    /\ pc[p] \in {"none", "start"} => pending[p] = {}
    /\ pc[p] = "submit" => \A i \in pending[p] : i < index[p]

TicketInv ==
    /\ PlacesInv
    /\ \A t \in Known : InUse(t)
    /\ \A p \in Paths : FileTickets(p)

-----------------------------------------------------------------------------
(* Facts about the operators. *)

LEMMA VersionType ==
    ASSUME NEW v \in DOMAIN Versions
    PROVE  Versions[v] \in [Paths -> Seq(Chunks)]
BY ContentAssumption

LEMMA RangeAppend ==
    ASSUME NEW S, NEW s \in Seq(S), NEW x
    PROVE  Range(Append(s, x)) = Range(s) \cup {x}
BY DEF Range

LEMMA RangeTail ==
    ASSUME NEW S, NEW s \in Seq(S), s # <<>>
    PROVE  Range(s) = {Head(s)} \cup Range(Tail(s)) /\ Head(s) \in S /\ Tail(s) \in Seq(S)
<1>1. Head(s) \in S /\ Tail(s) \in Seq(S) /\ DOMAIN Tail(s) = 1..(Len(s) - 1) /\ Len(s) \in Nat \ {0}
  OBVIOUS
<1>2. Range(s) = {s[i] : i \in 1..Len(s)} /\ Range(Tail(s)) = {Tail(s)[i] : i \in 1..(Len(s) - 1)}
  <2>1. DOMAIN s = 1..Len(s)
    OBVIOUS
  <2>2. Range(s) = {s[i] : i \in 1..Len(s)}
    BY <2>1 DEF Range
  <2>3. PICK t : t = Tail(s)
    OBVIOUS
  <2>4. Range(t) = {t[i] : i \in 1..(Len(s) - 1)}
    BY <1>1, <2>3, Zenon DEF Range
  <2> QED
    BY <2>2, <2>3, <2>4
<1>3. \A i \in 1..(Len(s) - 1) : Tail(s)[i] = s[i + 1]
  BY <1>1
<1>4. ASSUME NEW i \in 1..Len(s) PROVE s[i] \in {Head(s)} \cup Range(Tail(s))
  <2>1. CASE i = 1
    BY <2>1
  <2>2. CASE i # 1
    <3>1. i - 1 \in 1..(Len(s) - 1) /\ (i - 1) + 1 = i
      BY <1>1, <2>2
    <3>2. Tail(s)[i - 1] = s[i]
      BY <1>3, <3>1
    <3> QED
      BY <1>2, <3>1, <3>2
  <2> QED
    BY <2>1, <2>2
<1>5. ASSUME NEW i \in 1..(Len(s) - 1) PROVE Tail(s)[i] \in Range(s)
  <2>1. i + 1 \in 1..Len(s)
    BY <1>1
  <2> QED
    BY <1>2, <1>3, <2>1
<1>6. Head(s) \in Range(s)
  BY <1>1, <1>2
<1> QED
  BY <1>1, <1>2, <1>4, <1>5, <1>6

LEMMA RangeEmpty == Range(<<>>) = {}
BY DEF Range

(* Identifiers are neither of the two other results. *)
LEMMA IdIsResult ==
    /\ Error # None
    /\ \A m \in Ids : m # Error /\ m # None
<1>1. Error # None
  BY DEF Error, None
<1>2. ASSUME NEW m \in Ids PROVE m # Error /\ m # None
  <2>1. "commitment" \in DOMAIN m
    BY DEF Ids, ChunkIds, FileIds, DirIds
  <2>2. "commitment" \notin DOMAIN Error /\ "commitment" \notin DOMAIN None
    BY DEF Error, None
  <2> QED
    BY <2>1, <2>2
<1> QED
  BY <1>1, <1>2

(* What a record of each key refers to. *)
LEMMA ChunkRecord ==
    ASSUME NEW c, NEW m \in Ids, Denotes(ChunkKey(c), m.commitment)
    PROVE  m \in ChunkIds /\ m.commitment = ChunkData(c)
<1>1. m.commitment.kind = "chunk" /\ m.commitment.data = c
  BY DEF Denotes, ChunkKey, DirKey
<1>2. m \in ChunkIds
  BY <1>1 DEF Ids, ChunkIds, FileIds, DirIds, FileBlobs, DirBlobs
<1> QED
  BY <1>1, <1>2 DEF ChunkIds, ChunkBlobs, ChunkData

LEMMA FileRecord ==
    ASSUME NEW data, NEW m \in Ids, Denotes(<<"file", data>>, m.commitment)
    PROVE  m \in FileIds /\ m.commitment.content = data
<1>1. m.commitment.kind = "file" /\ m.commitment.content = data
  BY DEF Denotes, ChunkKey, DirKey
<1>2. m \in FileIds
  BY <1>1 DEF Ids, ChunkIds, FileIds, DirIds, ChunkBlobs, DirBlobs
<1> QED
  BY <1>1, <1>2

LEMMA DirRecord ==
    ASSUME NEW m \in Ids, Denotes(DirKey, m.commitment)
    PROVE  m \in DirIds
<1>1. m.commitment.kind = "dir"
  BY DEF Denotes, ChunkKey, DirKey
<1> QED
  BY <1>1 DEF Ids, ChunkIds, FileIds, DirIds, FileBlobs, ChunkBlobs

-----------------------------------------------------------------------------
(* The parts of the invariant that a group of variables can disturb. *)

SubmitterInv ==
    SubmitterTypeOK /\ PayloadInv /\ AnswerInv /\ HeightInv /\ ManifestsResolve

UploadInv == UploadTypeOK /\ RecordInv /\ FileInv /\ ResultInv

LEMMA Parts == IInv <=> SubmitterInv /\ UploadInv /\ MainInv
BY DEF IInv, TypeOK, SubmitterInv, UploadInv

LEMMA PartsNext == SubmitterInv' /\ UploadInv' /\ MainInv' => IInv'
BY DEF IInv, TypeOK, SubmitterInv, UploadInv

(* A step that leaves the submitter and Celestia alone. *)
LEMMA SubmitterUnchanged ==
    ASSUME SubmitterInv, UNCHANGED <<submitterVars, version>>
    PROVE  SubmitterInv'
<1>1. /\ UNCHANGED <<queue, priorityQueue, run, batch, held, answers, height, published>>
      /\ content' = content
  BY DEF submitterVars, queueVars, runVars, celestiaVars, content
<1>2. SubmitterTypeOK'
  BY <1>1 DEF SubmitterInv, SubmitterTypeOK
<1>3. \A t, b : Carries(t, b)' <=> Carries(t, b)
  BY <1>1 DEF Carries
<1>4. InFlight' = InFlight /\ \A b, h : FileResolves(b, h)' <=> FileResolves(b, h)
  BY <1>1 DEF InFlight, FileResolves
<1>5. PayloadInv'
  BY <1>1, <1>3, <1>4 DEF SubmitterInv, PayloadInv
<1>6. AnswerInv'
  BY <1>1, <1>3 DEF SubmitterInv, AnswerInv
<1>7. HeightInv' /\ ManifestsResolve'
  BY <1>1 DEF SubmitterInv, HeightInv, ManifestsResolve
<1> QED
  BY <1>2, <1>5, <1>6, <1>7 DEF SubmitterInv

(* A step of the submitter, at most adding to Celestia. *)
LEMMA UploadUnchanged ==
    ASSUME UploadInv, UNCHANGED <<version, records, mainVars, fileVars>>,
           published \subseteq published'
    PROVE  UploadInv'
<1>1. /\ UNCHANGED <<records, main, result, uploadErr, pc, index, pending, fileId>>
      /\ content' = content /\ version' = version
  BY DEF mainVars, fileVars, content
<1>2. UploadTypeOK'
  BY <1>1 DEF UploadInv, UploadTypeOK
<1>3. RecordInv'
  BY <1>1 DEF UploadInv, RecordInv
<1>4. \A p, i : HasRecord(p, i)' <=> HasRecord(p, i)
  BY <1>1 DEF HasRecord
<1>5. FileInv'
  BY <1>1, <1>4 DEF UploadInv, FileInv, FileOK
<1>6. ResultInv'
  BY <1>1 DEF UploadInv, ResultInv
<1> QED
  BY <1>2, <1>3, <1>5, <1>6 DEF UploadInv

(* A transaction is included: what was on Celestia is still there, and the new *)
(* blobs are above it.  Manifests of files among them refer to blobs that were *)
(* there before, and so do manifests of directories. *)
LEMMA IncludeStep ==
    ASSUME SubmitterInv, NEW blobs, Include(blobs),
           \A b \in blobs :
               \/ b \in ChunkBlobs
               \/ b \in FileBlobs /\ FileResolves(b, height)
               \/ /\ b \in DirBlobs
                  /\ \A p \in Paths : b.files[p] \in published
                                      /\ b.files[p].commitment.content = b.hash[p]
    PROVE  /\ height' = height + 1 /\ height \in Nat
           /\ published \subseteq published' /\ published' \subseteq Ids
           /\ \A b \in blobs : [height |-> height + 1, commitment |-> b] \in published'
           /\ HeightInv' /\ ManifestsResolve'
           /\ \A b : FileResolves(b, height) => FileResolves(b, height)'
<1>1. /\ height \in Nat /\ height' = height + 1 /\ published \subseteq Ids
      /\ published' = published \cup {[height |-> height + 1, commitment |-> b] : b \in blobs}
  BY DEF Include, SubmitterInv, SubmitterTypeOK
<1>2. \A m \in published : m.height \in Nat /\ m.height <= height
  BY <1>1 DEF SubmitterInv, HeightInv, Ids, ChunkIds, FileIds, DirIds
<1>3. ASSUME NEW m \in published', m \notin published
      PROVE  /\ m.height = height + 1 /\ m.commitment \in blobs
             /\ m \in Ids
  <2>1. PICK b \in blobs : m = [height |-> height + 1, commitment |-> b]
    BY <1>1, <1>3
  <2>2. height + 1 \in Nat
    BY <1>1
  <2>3. b \in ChunkBlobs \cup FileBlobs \cup DirBlobs
    OBVIOUS
  <2>4. m \in Ids
    BY <2>1, <2>2, <2>3 DEF Ids, ChunkIds, FileIds, DirIds
  <2> QED
    BY <2>1, <2>4
<1>4. HeightInv'
  BY <1>1, <1>2, <1>3 DEF HeightInv
<1>5. \A b : FileResolves(b, height) => FileResolves(b, height)'
  <2> SUFFICES ASSUME NEW b, FileResolves(b, height) PROVE FileResolves(b, height)'
    OBVIOUS
  <2>1. ASSUME NEW i \in DOMAIN b.chunks
        PROVE  b.chunks[i] \in published' /\ b.chunks[i].height <= height'
    <3>1. b.chunks[i] \in published
      BY DEF FileResolves
    <3> QED
      BY <1>1, <1>2, <3>1
  <2> QED
    BY <2>1 DEF FileResolves
<1>6. ManifestsResolve'
  <2> SUFFICES ASSUME NEW m \in published'
      PROVE  /\ m.commitment.kind = "file" =>
                  /\ DOMAIN m.commitment.chunks = DOMAIN m.commitment.content
                  /\ \A i \in DOMAIN m.commitment.chunks :
                       /\ m.commitment.chunks[i] \in published'
                       /\ m.commitment.chunks[i].height < m.height
                       /\ m.commitment.chunks[i].commitment = ChunkData(m.commitment.content[i])
             /\ m.commitment.kind = "dir" =>
                  \A p \in Paths :
                       /\ m.commitment.files[p] \in published'
                       /\ m.commitment.files[p].height < m.height
                       /\ m.commitment.files[p].commitment.kind = "file"
                       /\ m.commitment.files[p].commitment.content = m.commitment.hash[p]
    BY DEF ManifestsResolve
  <2>1. CASE m \in published
    BY <1>1, <2>1 DEF SubmitterInv, ManifestsResolve
  <2>2. CASE m \notin published
    <3>1. m.height = height + 1 /\ m.commitment \in blobs
      BY <1>3, <2>2
    <3>2. PICK b \in blobs : b = m.commitment
      BY <3>1
    <3>3. CASE b \in ChunkBlobs
      BY <3>2, <3>3 DEF ChunkBlobs
    <3>4. CASE b \in FileBlobs /\ FileResolves(b, height)
      <4>1. \A i \in DOMAIN b.chunks : /\ b.chunks[i] \in published
                                       /\ b.chunks[i].commitment = ChunkData(b.content[i])
        BY <3>4 DEF FileResolves
      <4>2. \A i \in DOMAIN b.chunks : b.chunks[i].height < height + 1
        BY <1>1, <1>2, <4>1
      <4>3. DOMAIN b.chunks = DOMAIN b.content /\ b.kind = "file"
        BY <3>4 DEF FileResolves, FileBlobs
      <4> QED
        BY <1>1, <3>1, <3>2, <4>1, <4>2, <4>3
    <3>5. CASE /\ b \in DirBlobs
               /\ \A p \in Paths : b.files[p] \in published
                                   /\ b.files[p].commitment.content = b.hash[p]
      <4>1. b.kind = "dir" /\ \A p \in Paths : b.files[p] \in FileIds
        BY <3>5 DEF DirBlobs
      <4>2. \A p \in Paths : b.files[p].commitment.kind = "file"
        BY <4>1 DEF FileIds, FileBlobs
      <4>3. \A p \in Paths : b.files[p].height < height + 1
        BY <1>1, <1>2, <3>5
      <4> QED
        BY <1>1, <3>1, <3>2, <3>5, <4>1, <4>2, <4>3
    <3> QED
      BY <3>3, <3>4, <3>5
  <2> QED
    BY <2>1, <2>2
<1> QED
  BY <1>1, <1>3, <1>4, <1>5, <1>6

-----------------------------------------------------------------------------
(* The steps of the submitter. *)

(* Items move, or are added with the payload of their ticket. *)
LEMMA QueueStep ==
    ASSUME SubmitterInv, UNCHANGED <<answers, celestiaVars, version>>,
           queue' \in Seq(SubmitItems), priorityQueue' \in Seq(SubmitItems),
           batch' \in Seq(SubmitItems), held' \in Seq(SubmitItems),
           run' \in {"select", "storing"},
           NEW new, InFlight' \subseteq InFlight \cup new,
           \A it \in new :
               /\ Carries(it.ticket, it.payload)
               /\ it.payload.kind = "file" => FileResolves(it.payload, height)
    PROVE  SubmitterInv'
<1>1. UNCHANGED <<answers, height, published>> /\ content' = content
  BY DEF celestiaVars, content
<1>2. SubmitterTypeOK'
  BY <1>1 DEF SubmitterInv, SubmitterTypeOK
<1>3. \A t, b : Carries(t, b)' <=> Carries(t, b)
  BY <1>1 DEF Carries
<1>4. \A b, h : FileResolves(b, h)' <=> FileResolves(b, h)
  BY <1>1 DEF FileResolves
<1>5. PayloadInv'
  BY <1>1, <1>3, <1>4 DEF SubmitterInv, PayloadInv
<1>6. AnswerInv'
  BY <1>1, <1>3 DEF SubmitterInv, AnswerInv
<1>7. HeightInv' /\ ManifestsResolve'
  BY <1>1 DEF SubmitterInv, HeightInv, ManifestsResolve
<1> QED
  BY <1>2, <1>5, <1>6, <1>7 DEF SubmitterInv

(* An item taken from a queue joins the batch or is held. *)
LEMMA AddItemStep ==
    ASSUME SubmitterTypeOK, NEW it \in SubmitItems, AddItem(it)
    PROVE  /\ batch' \in Seq(SubmitItems) /\ held' \in Seq(SubmitItems)
           /\ run' \in {"select", "storing"}
           /\ Range(batch') \cup Range(held') \subseteq Range(batch) \cup Range(held) \cup {it}
<1>1. batch \in Seq(SubmitItems) /\ held \in Seq(SubmitItems) /\ run \in {"select", "storing"}
  BY DEF SubmitterTypeOK
<1>2. CASE batch' = Append(batch, it) /\ UNCHANGED <<run, held>>
  BY <1>1, <1>2, RangeAppend
<1>3. CASE run' = "storing" /\ held' = <<it>> /\ UNCHANGED batch
  <2>1. Range(<<it>>) = {it} /\ <<it>> \in Seq(SubmitItems)
    BY DEF Range
  <2> QED
    BY <1>1, <1>3, <2>1
<1> QED
  BY <1>2, <1>3 DEF AddItem

LEMMA MoveStep ==
    ASSUME SubmitterInv, UNCHANGED version, ReceivePriority \/ Receive \/ BatchTimeout
    PROVE  SubmitterInv'
<1>1. /\ queue \in Seq(SubmitItems) /\ priorityQueue \in Seq(SubmitItems)
      /\ batch \in Seq(SubmitItems) /\ held \in Seq(SubmitItems) /\ SubmitterTypeOK
  BY DEF SubmitterInv, SubmitterTypeOK
<1>2. ASSUME /\ queue' \in Seq(SubmitItems) /\ priorityQueue' \in Seq(SubmitItems)
             /\ batch' \in Seq(SubmitItems) /\ held' \in Seq(SubmitItems)
             /\ run' \in {"select", "storing"}
             /\ InFlight' \subseteq InFlight
             /\ UNCHANGED <<answers, celestiaVars>>
      PROVE  SubmitterInv'
  <2>1. PICK new : new = {}
    OBVIOUS
  <2>2. /\ InFlight' \subseteq InFlight \cup new
        /\ \A it \in new : /\ Carries(it.ticket, it.payload)
                           /\ it.payload.kind = "file" => FileResolves(it.payload, height)
    BY <1>2, <2>1
  <2>3. UNCHANGED <<answers, celestiaVars, version>>
    BY <1>2
  <2> QED
    BY <1>2, <2>2, <2>3, QueueStep
<1>3. CASE ReceivePriority
  <2>1. /\ priorityQueue # <<>> /\ priorityQueue' = Tail(priorityQueue) /\ queue' = queue
        /\ AddItem(Head(priorityQueue)) /\ UNCHANGED <<answers, celestiaVars>>
    BY <1>3 DEF ReceivePriority
  <2>2. /\ Range(priorityQueue) = {Head(priorityQueue)} \cup Range(priorityQueue')
        /\ Head(priorityQueue) \in SubmitItems /\ priorityQueue' \in Seq(SubmitItems)
    BY <1>1, <2>1, RangeTail
  <2>3. /\ batch' \in Seq(SubmitItems) /\ held' \in Seq(SubmitItems)
        /\ run' \in {"select", "storing"}
        /\ Range(batch') \cup Range(held')
             \subseteq Range(batch) \cup Range(held) \cup {Head(priorityQueue)}
    BY <1>1, <2>1, <2>2, AddItemStep
  <2>4. InFlight' \subseteq InFlight
    BY <2>1, <2>2, <2>3 DEF InFlight
  <2> QED
    BY <1>1, <1>2, <2>1, <2>2, <2>3, <2>4
<1>4. CASE Receive
  <2>1. /\ queue # <<>> /\ queue' = Tail(queue) /\ priorityQueue' = priorityQueue
        /\ AddItem(Head(queue)) /\ UNCHANGED <<answers, celestiaVars>>
    BY <1>4 DEF Receive
  <2>2. /\ Range(queue) = {Head(queue)} \cup Range(queue')
        /\ Head(queue) \in SubmitItems /\ queue' \in Seq(SubmitItems)
    BY <1>1, <2>1, RangeTail
  <2>3. /\ batch' \in Seq(SubmitItems) /\ held' \in Seq(SubmitItems)
        /\ run' \in {"select", "storing"}
        /\ Range(batch') \cup Range(held')
             \subseteq Range(batch) \cup Range(held) \cup {Head(queue)}
    BY <1>1, <2>1, <2>2, AddItemStep
  <2>4. InFlight' \subseteq InFlight
    BY <2>1, <2>2, <2>3 DEF InFlight
  <2> QED
    BY <1>1, <1>2, <2>1, <2>2, <2>3, <2>4
<1>5. CASE BatchTimeout
  BY <1>1, <1>2, <1>5 DEF BatchTimeout, queueVars, InFlight
<1> QED
  BY <1>3, <1>4, <1>5

(* Every ticket of the batch gets the result of an item with that ticket. *)
LEMMA AnsweredIs ==
    ASSUME NEW results, NEW t \in DOMAIN Answered(results)
    PROVE  \/ \E i \in DOMAIN batch : batch[i].ticket = t /\ Answered(results)[t] = results[i]
           \/ t \in DOMAIN answers /\ Answered(results)[t] = answers[t]
<1> DEFINE tickets == {batch[i].ticket : i \in DOMAIN batch}
<1>1. /\ t \in DOMAIN answers \cup tickets
      /\ Answered(results)[t] =
           IF t \in tickets THEN results[CHOOSE i \in DOMAIN batch : batch[i].ticket = t]
           ELSE answers[t]
  BY DEF Answered
<1>2. CASE t \in tickets
  <2>1. \E i \in DOMAIN batch : batch[i].ticket = t
    BY <1>2
  <2>2. PICK k : k = CHOOSE i \in DOMAIN batch : batch[i].ticket = t
    OBVIOUS
  <2>3. k \in DOMAIN batch /\ batch[k].ticket = t
    BY <2>1, <2>2
  <2> QED
    BY <1>1, <1>2, <2>2, <2>3
<1> QED
  BY <1>1, <1>2

(* The batch is answered: with errors, or with where its blobs are. *)
LEMMA ReplyStep ==
    ASSUME SubmitterInv, NEW results, Reply(results), UNCHANGED <<version, queueVars>>,
           height' \in Nat, published \subseteq published', published' \subseteq Ids,
           HeightInv', ManifestsResolve',
           \A b : FileResolves(b, height) => FileResolves(b, height)',
           \A i \in DOMAIN batch :
               \/ results[i] = Error
               \/ /\ results[i] \in published' /\ results[i] \in ChunkIds \cup FileIds
                  /\ results[i].commitment = batch[i].payload
    PROVE  SubmitterInv'
<1>1. /\ batch' = held /\ held' = <<>> /\ run' = "select" /\ answers' = Answered(results)
      /\ UNCHANGED <<queue, priorityQueue>> /\ content' = content
  BY DEF Reply, queueVars, content
<1>2. SubmitterTypeOK /\ batch \in Seq(SubmitItems) /\ held \in Seq(SubmitItems)
  BY DEF SubmitterInv, SubmitterTypeOK
<1>3. \A i \in DOMAIN batch : batch[i].ticket \in Tickets /\ batch[i] \in InFlight
  <2> SUFFICES ASSUME NEW i \in DOMAIN batch
               PROVE  batch[i].ticket \in Tickets /\ batch[i] \in InFlight
    OBVIOUS
  <2>1. batch[i] \in SubmitItems
    BY <1>2
  <2>2. batch[i] \in Range(batch)
    BY DEF Range
  <2> QED
    BY <2>1, <2>2 DEF SubmitItems, InFlight
<1>4. DOMAIN answers' \subseteq Tickets
  BY <1>1, <1>2, <1>3 DEF SubmitterTypeOK, Answered
<1>5. ASSUME NEW t \in DOMAIN answers'
      PROVE  \/ \E i \in DOMAIN batch : batch[i].ticket = t /\ answers'[t] = results[i]
             \/ t \in DOMAIN answers /\ answers'[t] = answers[t]
  BY <1>1, AnsweredIs
<1>6. \A t \in DOMAIN answers' : answers'[t] \in ChunkIds \cup FileIds \cup {Error}
  BY <1>2, <1>5 DEF SubmitterTypeOK
<1>7. SubmitterTypeOK'
  <2>1. <<>> \in Seq(SubmitItems)
    OBVIOUS
  <2> QED
    BY <1>1, <1>2, <1>4, <1>6, <2>1 DEF SubmitterTypeOK
<1>8. \A t, b : Carries(t, b)' <=> Carries(t, b)
  BY <1>1 DEF Carries
<1>9. InFlight' \subseteq InFlight
  BY <1>1, RangeEmpty DEF InFlight
<1>10. PayloadInv'
  BY <1>8, <1>9 DEF SubmitterInv, PayloadInv
<1>11. AnswerInv'
  <2> SUFFICES ASSUME NEW t \in DOMAIN answers', answers'[t] # Error
               PROVE  answers'[t] \in published' /\ Carries(t, answers'[t].commitment)
    BY <1>8 DEF AnswerInv
  <2>1. CASE t \in DOMAIN answers /\ answers'[t] = answers[t]
    BY <2>1 DEF SubmitterInv, AnswerInv
  <2>2. CASE \E i \in DOMAIN batch : batch[i].ticket = t /\ answers'[t] = results[i]
    <3>1. PICK i \in DOMAIN batch : batch[i].ticket = t /\ answers'[t] = results[i]
      BY <2>2
    <3>2. Carries(t, batch[i].payload)
      BY <1>3, <3>1 DEF SubmitterInv, PayloadInv
    <3> QED
      BY <3>1, <3>2
  <2> QED
    BY <1>5, <2>1, <2>2
<1> QED
  BY <1>7, <1>10, <1>11 DEF SubmitterInv

(* The payloads of a batch can be included. *)
LEMMA BatchIncluded ==
    ASSUME SubmitterInv, Include(Payloads)
    PROVE  /\ height' = height + 1 /\ height \in Nat
           /\ published \subseteq published' /\ published' \subseteq Ids
           /\ \A b \in Payloads : [height |-> height + 1, commitment |-> b] \in published'
           /\ HeightInv' /\ ManifestsResolve'
           /\ \A b : FileResolves(b, height) => FileResolves(b, height)'
<1>1. ASSUME NEW b \in Payloads
      PROVE  b \in ChunkBlobs \/ (b \in FileBlobs /\ FileResolves(b, height))
  <2>1. PICK i \in DOMAIN batch : b = batch[i].payload
    BY DEF Payloads
  <2>2. batch[i] \in SubmitItems /\ batch[i] \in InFlight
    BY DEF SubmitterInv, SubmitterTypeOK, InFlight, Range
  <2>3. b \in ChunkBlobs \cup FileBlobs
    BY <2>1, <2>2 DEF SubmitItems
  <2>4. b \in FileBlobs => FileResolves(b, height)
    BY <2>1, <2>2 DEF SubmitterInv, PayloadInv, FileBlobs
  <2> QED
    BY <2>3, <2>4
<1> QED
  BY <1>1, IncludeStep

LEMMA BatchStep ==
    ASSUME SubmitterInv, UNCHANGED version, BatchStored \/ BatchRefused \/ BatchAnswerLost
    PROVE  SubmitterInv' /\ published \subseteq published'
<1>0. SubmitterTypeOK /\ height \in Nat /\ published \subseteq Ids
  BY DEF SubmitterInv, SubmitterTypeOK
<1>1. CASE BatchStored
  <2> DEFINE results == [i \in DOMAIN batch |-> [height |-> height + 1,
                                                 commitment |-> batch[i].payload]]
  <2>1. Include(Payloads) /\ Reply(results) /\ UNCHANGED queueVars
    BY <1>1 DEF BatchStored
  <2>2. ASSUME NEW i \in DOMAIN batch
        PROVE  /\ results[i] \in published' /\ results[i] \in ChunkIds \cup FileIds
               /\ results[i].commitment = batch[i].payload
    <3>1. batch[i].payload \in Payloads /\ batch[i].payload \in ChunkBlobs \cup FileBlobs
      <4>1. batch[i] \in SubmitItems
        BY <1>0 DEF SubmitterTypeOK
      <4> QED
        BY <4>1 DEF Payloads, SubmitItems
    <3>2. results[i] = [height |-> height + 1, commitment |-> batch[i].payload]
      OBVIOUS
    <3>3. results[i] \in published'
      BY <2>1, <3>1, <3>2, BatchIncluded
    <3>4. height + 1 \in Nat
      BY <1>0
    <3> HIDE DEF results
    <3>5. results[i] \in ChunkIds \cup FileIds
      BY <3>1, <3>2, <3>4 DEF ChunkIds, FileIds
    <3> QED
      BY <3>2, <3>3, <3>5
  <2>3. /\ height' = height + 1
        /\ published \subseteq published' /\ published' \subseteq Ids
        /\ HeightInv' /\ ManifestsResolve'
        /\ \A b : FileResolves(b, height) => FileResolves(b, height)'
    BY <2>1, BatchIncluded
  <2>4. height' \in Nat
    BY <1>0, <2>3
  <2> HIDE DEF results
  <2> QED
    BY <2>1, <2>2, <2>3, <2>4, ReplyStep
<1>2. CASE BatchRefused
  <2> DEFINE results == [i \in DOMAIN batch |-> Error]
  <2>1. Reply(results) /\ UNCHANGED <<queueVars, height, published>>
    BY <1>2 DEF BatchRefused, celestiaVars
  <2>2. \A i \in DOMAIN batch : results[i] = Error
    OBVIOUS
  <2> HIDE DEF results
  <2>3. HeightInv' /\ ManifestsResolve'
    BY <2>1 DEF SubmitterInv, HeightInv, ManifestsResolve
  <2>4. \A b : FileResolves(b, height) => FileResolves(b, height)'
    BY <2>1 DEF FileResolves
  <2>5. height' \in Nat /\ published \subseteq published' /\ published' \subseteq Ids
    BY <1>0, <2>1
  <2> QED
    BY <2>1, <2>2, <2>3, <2>4, <2>5, ReplyStep
<1>3. CASE BatchAnswerLost
  <2>1. /\ Include(Payloads) /\ content' = content
        /\ UNCHANGED <<queue, priorityQueue, run, batch, held, answers>>
    BY <1>3 DEF BatchAnswerLost, queueVars, runVars, content
  <2>2. /\ height' = height + 1
        /\ published \subseteq published' /\ published' \subseteq Ids
        /\ HeightInv' /\ ManifestsResolve'
        /\ \A b : FileResolves(b, height) => FileResolves(b, height)'
    BY <2>1, BatchIncluded
  <2>3. height' \in Nat
    BY <1>0, <2>2
  <2>4. SubmitterTypeOK'
    BY <1>0, <2>1, <2>2, <2>3 DEF SubmitterTypeOK
  <2>5. \A t, b : Carries(t, b)' <=> Carries(t, b)
    BY <2>1 DEF Carries
  <2>6. InFlight' = InFlight
    BY <2>1 DEF InFlight
  <2>7. PayloadInv'
    BY <2>2, <2>5, <2>6 DEF SubmitterInv, PayloadInv
  <2>8. AnswerInv'
    BY <2>1, <2>2, <2>5 DEF SubmitterInv, AnswerInv
  <2> QED
    BY <2>2, <2>4, <2>7, <2>8 DEF SubmitterInv
<1> QED
  BY <1>1, <1>2, <1>3

-----------------------------------------------------------------------------
(* The goroutines of the files. *)

(* A record is saved of something that is on Celestia. *)
LEMMA RecordSaved ==
    ASSUME NEW key, NEW id \in Ids, SaveUploadRecord(key, id),
           \A k \in DOMAIN records : records[k] \in Ids,
           RecordInv, published \subseteq published', id \in published',
           Denotes(key, id.commitment)
    PROVE  /\ RecordInv' /\ \A k \in DOMAIN records' : records'[k] \in Ids
           /\ DOMAIN records \subseteq DOMAIN records' /\ key \in DOMAIN records'
<1>1. records' = [k \in DOMAIN records \cup {key} |-> IF k = key THEN id ELSE records[k]]
  BY DEF SaveUploadRecord
<1>2. /\ DOMAIN records' = DOMAIN records \cup {key}
      /\ records'[key] = id
      /\ \A k \in DOMAIN records : k # key => records'[k] = records[k]
  BY <1>1
<1> QED
  BY <1>2 DEF RecordInv

(* A step of one goroutine does not disturb another. *)
LEMMA OtherFile ==
    ASSUME NEW q \in Paths, FileOK(q), content' = content,
           DOMAIN records \subseteq DOMAIN records', published \subseteq published',
           uploadErr => uploadErr',
           pc'[q] = pc[q], index'[q] = index[q], pending'[q] = pending[q], fileId'[q] = fileId[q]
    PROVE  FileOK(q)'
<1>1. \A i : HasRecord(q, i) => HasRecord(q, i)'
  BY DEF HasRecord
<1> QED
  BY <1>1 DEF FileOK

(* A goroutine at work belongs to a command that has not returned. *)
LEMMA AtWork ==
    ASSUME IInv, NEW p \in Paths, pc[p] \in {"start", "submit", "wait", "await"}
    PROVE  /\ main = "uploading" /\ result = None /\ SubmitterInv /\ UploadInv
           /\ content \in [Paths -> Seq(Chunks)] /\ FileOK(p)
           /\ content[p] \in Seq(Chunks) /\ index[p] \in Nat
<1>1. main = "uploading" /\ result = None
  BY DEF IInv, MainInv, TypeOK, UploadTypeOK
<1>2. content \in [Paths -> Seq(Chunks)]
  BY VersionType DEF IInv, TypeOK, UploadTypeOK, content
<1> QED
  BY <1>1, <1>2, Parts DEF UploadInv, FileInv, UploadTypeOK

(* What is left to show of a step of the goroutine of file p. *)
LEMMA FileStep ==
    ASSUME IInv, NEW p \in Paths, pc[p] \in {"start", "submit", "wait", "await"},
           SubmitterInv', UNCHANGED <<version, main, result, published>>,
           uploadErr' \in BOOLEAN, uploadErr => uploadErr',
           RecordInv', \A k \in DOMAIN records' : records'[k] \in Ids,
           DOMAIN records \subseteq DOMAIN records',
           NEW l \in Locations, pc' = [pc EXCEPT ![p] = l],
           NEW i \in Nat, index' = [index EXCEPT ![p] = i],
           NEW w \in SUBSET Nat, pending' = [pending EXCEPT ![p] = w],
           NEW f \in FileIds \cup {None}, fileId' = [fileId EXCEPT ![p] = f],
           FileOK(p)'
    PROVE  IInv'
<1>1. main = "uploading" /\ result = None /\ UploadInv /\ UploadTypeOK
  BY AtWork DEF UploadInv
<1>2. content' = content
  BY DEF content
<1>3. UploadTypeOK'
  BY <1>1 DEF UploadTypeOK
<1>4. ASSUME NEW q \in Paths PROVE FileOK(q)'
  <2>1. CASE q = p
    BY <2>1
  <2>2. CASE q # p
    <3>1. pc'[q] = pc[q] /\ index'[q] = index[q] /\ pending'[q] = pending[q]
          /\ fileId'[q] = fileId[q]
      BY <1>1, <2>2 DEF UploadTypeOK
    <3>2. FileOK(q) /\ published \subseteq published'
      BY <1>1 DEF UploadInv, FileInv
    <3> QED
      BY <1>2, <3>1, <3>2, OtherFile
  <2> QED
    BY <2>1, <2>2
<1>5. FileInv'
  BY <1>4 DEF FileInv
<1>6. MainInv'
  BY <1>1 DEF MainInv
<1>7. ResultInv'
  BY <1>1 DEF ResultInv
<1> QED
  BY <1>3, <1>5, <1>6, <1>7, Parts DEF IInv, TypeOK, SubmitterInv

(* The local variables of a goroutine, and their replacement by themselves. *)
LEMMA Locals ==
    ASSUME IInv, NEW p \in Paths
    PROVE  /\ pc[p] \in Locations /\ pc = [pc EXCEPT ![p] = pc[p]]
           /\ index[p] \in Nat /\ index = [index EXCEPT ![p] = index[p]]
           /\ pending[p] \in SUBSET Nat /\ pending = [pending EXCEPT ![p] = pending[p]]
           /\ fileId[p] \in FileIds \cup {None} /\ fileId = [fileId EXCEPT ![p] = fileId[p]]
           /\ uploadErr \in BOOLEAN /\ RecordInv /\ \A k \in DOMAIN records : records[k] \in Ids
           /\ DOMAIN pc = Paths /\ DOMAIN index = Paths /\ DOMAIN pending = Paths
           /\ DOMAIN fileId = Paths
<1>1. /\ pc \in [Paths -> Locations] /\ index \in [Paths -> Nat]
      /\ pending \in [Paths -> SUBSET Nat] /\ fileId \in [Paths -> FileIds \cup {None}]
      /\ uploadErr \in BOOLEAN /\ RecordInv /\ \A k \in DOMAIN records : records[k] \in Ids
  BY DEF IInv, TypeOK, UploadTypeOK
<1> QED
  BY <1>1

LEMMA UploadFileStep ==
    ASSUME IInv, NEW p \in Paths, UploadFile(p)
    PROVE  IInv'
<1>1. /\ pc[p] = "start" /\ SubmitterInv' /\ content' = content
      /\ UNCHANGED <<version, main, result, published, records, uploadErr, pending>>
  <2>1. /\ pc[p] = "start" /\ UNCHANGED <<submitterVars, version>>
        /\ UNCHANGED <<version, main, result, published, records, uploadErr, pending>>
    BY DEF UploadFile, submitterVars, celestiaVars, mainVars
  <2> QED
    BY <2>1, Parts, SubmitterUnchanged DEF content
<1>2. content[p] \in Seq(Chunks)
  BY <1>1, AtWork
<1>3. RecordInv' /\ (\A k \in DOMAIN records' : records'[k] \in Ids) /\ uploadErr' \in BOOLEAN
  BY <1>1, Locals DEF RecordInv
<1>4. CASE /\ uploadErr /\ pc' = [pc EXCEPT ![p] = "skipped"] /\ UNCHANGED <<index, fileId>>
  <2>1. FileOK(p)' /\ "skipped" \in Locations
    BY <1>1, <1>4, Locals DEF FileOK, Locations
  <2> QED
    BY <1>1, <1>3, <1>4, <2>1, Locals, FileStep
<1>5. CASE /\ FileKey(p) \in DOMAIN records /\ UNCHANGED index
           /\ pc' = [pc EXCEPT ![p] = "done"]
           /\ fileId' = [fileId EXCEPT ![p] = records[FileKey(p)]]
  <2>1. PICK id : id = records[FileKey(p)]
    OBVIOUS
  <2>2. id \in Ids /\ id \in published /\ Denotes(<<"file", content[p]>>, id.commitment)
    BY <1>5, <2>1, Locals DEF RecordInv, FileKey
  <2>3. id \in FileIds /\ id.commitment.content = content[p]
    BY <2>2, FileRecord
  <2>4. pc'[p] = "done" /\ fileId'[p] = id
    BY <1>5, <2>1, Locals
  <2>5. FileOK(p)' /\ "done" \in Locations
    BY <1>1, <2>2, <2>3, <2>4 DEF FileOK, Locations
  <2> QED
    BY <1>1, <1>3, <1>5, <2>1, <2>3, <2>5, Locals, FileStep
<1>6. CASE /\ FileKey(p) \notin DOMAIN records /\ UNCHANGED fileId
           /\ pc' = [pc EXCEPT ![p] = IF content[p] = <<>> THEN "wait" ELSE "submit"]
           /\ index' = [index EXCEPT ![p] = 1]
  <2>1. PICK l : l = IF content[p] = <<>> THEN "wait" ELSE "submit"
    OBVIOUS
  <2>2. pc' = [pc EXCEPT ![p] = l] /\ pc'[p] = l /\ index'[p] = 1 /\ l \in Locations /\ 1 \in Nat
    BY <1>6, <2>1, Locals DEF Locations
  <2>3. FileOK(p)'
    <3>1. CASE content[p] = <<>>
      <4>1. /\ pc'[p] = "wait" /\ content'[p] = <<>> /\ Len(content'[p]) = 0
            /\ DOMAIN content'[p] = {}
        BY <1>1, <2>1, <2>2, <3>1
      <4>2. 1 \in 1..(0 + 1) /\ 1..(1 - 1) = {}
        OBVIOUS
      <4> QED
        BY <2>2, <4>1, <4>2 DEF FileOK
    <3>2. CASE content[p] # <<>>
      <4>1. 1 \in DOMAIN content[p] /\ 1..(1 - 1) = {}
        BY <1>2, <3>2
      <4> QED
        BY <1>1, <2>1, <2>2, <3>2, <4>1 DEF FileOK
    <3> QED
      BY <3>1, <3>2
  <2> QED
    BY <1>1, <1>3, <1>6, <2>2, <2>3, Locals, FileStep
<1> QED
  BY <1>4, <1>5, <1>6 DEF UploadFile

(* The next chunk goes to the queue, or has a record. *)
LEMMA SubmitChunkStep ==
    ASSUME IInv, NEW p \in Paths, SubmitChunk(p)
    PROVE  IInv'
<1> DEFINE i == index[p]
           c == content[p][i]
<1>1. /\ pc[p] = "submit" /\ content' = content
      /\ UNCHANGED <<version, priorityQueue, run, batch, held, answers, celestiaVars, records,
                     main, result, uploadErr, fileId, published>>
  BY DEF SubmitChunk, runVars, celestiaVars, mainVars, content
<1>2. /\ content[p] \in Seq(Chunks) /\ SubmitterInv
      /\ i \in DOMAIN content[p] /\ i \in Nat \ {0} /\ c \in Chunks
      /\ \A j \in 1..(i - 1) : j \in pending[p] \/ HasRecord(p, j)
  <2>1. content[p] \in Seq(Chunks) /\ SubmitterInv /\ FileOK(p)
    BY <1>1, AtWork
  <2>2. i \in DOMAIN content[p] /\ \A j \in 1..(i - 1) : j \in pending[p] \/ HasRecord(p, j)
    BY <1>1, <2>1 DEF FileOK
  <2> QED
    BY <2>1, <2>2
<1>3. RecordInv' /\ (\A k \in DOMAIN records' : records'[k] \in Ids) /\ uploadErr' \in BOOLEAN
  BY <1>1, Locals DEF RecordInv
<1>4. PICK w \in SUBSET Nat :
        /\ pending' = [pending EXCEPT ![p] = w] /\ pending[p] \subseteq w
        /\ i \in w \/ HasRecord(p, i)
        /\ SubmitterInv'
  <2>1. CASE ChunkKey(c) \in DOMAIN records /\ UNCHANGED <<queue, pending>>
    <3>1. UNCHANGED <<queue, priorityQueue, run, batch, held, answers, height, published>>
      BY <1>1, <2>1 DEF celestiaVars
    <3>2. SubmitterTypeOK' /\ InFlight' = InFlight
      BY <1>2, <3>1 DEF SubmitterInv, SubmitterTypeOK, InFlight
    <3>3. PICK new : new = {}
      OBVIOUS
    <3>4. /\ InFlight' \subseteq InFlight \cup new
          /\ \A it \in new : /\ Carries(it.ticket, it.payload)
                             /\ it.payload.kind = "file" => FileResolves(it.payload, height)
      BY <3>2, <3>3
    <3>5. UNCHANGED <<answers, celestiaVars, version>>
      BY <1>1
    <3>6. SubmitterInv'
      BY <1>2, <3>2, <3>4, <3>5, QueueStep DEF SubmitterTypeOK
    <3> QED
      BY <2>1, <3>6, Locals DEF HasRecord
  <2>2. CASE /\ Submit(Ticket(p, i), ChunkData(c))
             /\ pending' = [pending EXCEPT ![p] = @ \cup {i}]
    <3>1. PICK it : it = Item(Ticket(p, i), ChunkData(c))
      OBVIOUS
    <3>2. queue' = Append(queue, it)
      BY <2>2, <3>1 DEF Submit
    <3>3. /\ it.ticket = <<p, i>> /\ it.payload = ChunkData(c)
          /\ it.payload.kind = "chunk" /\ it \in SubmitItems
      BY <1>2, <3>1 DEF Item, Ticket, ChunkData, SubmitItems, Tickets, ChunkBlobs
    <3>4. Carries(it.ticket, it.payload)
      BY <1>2, <3>3 DEF Carries
    <3>5. queue \in Seq(SubmitItems) /\ SubmitterTypeOK
      BY <1>2 DEF SubmitterInv, SubmitterTypeOK
    <3>6. queue' \in Seq(SubmitItems) /\ Range(queue') = Range(queue) \cup {it}
      BY <3>2, <3>3, <3>5, RangeAppend
    <3>7. PICK new : new = {it}
      OBVIOUS
    <3>8. /\ InFlight' \subseteq InFlight \cup new
          /\ \A x \in new : /\ Carries(x.ticket, x.payload)
                            /\ x.payload.kind = "file" => FileResolves(x.payload, height)
      BY <1>1, <3>3, <3>4, <3>6, <3>7 DEF InFlight
    <3>9. UNCHANGED <<answers, celestiaVars, version>>
      BY <1>1
    <3>10. /\ priorityQueue' \in Seq(SubmitItems) /\ batch' \in Seq(SubmitItems)
           /\ held' \in Seq(SubmitItems) /\ run' \in {"select", "storing"}
      BY <1>1, <3>5 DEF SubmitterTypeOK
    <3>11. SubmitterInv'
      BY <1>2, <3>6, <3>8, <3>9, <3>10, QueueStep
    <3>12. pending[p] \cup {i} \in SUBSET Nat
      BY <1>2, Locals
    <3>13. pending' = [pending EXCEPT ![p] = pending[p] \cup {i}]
      BY <2>2
    <3> HIDE DEF i, c
    <3> QED
      BY <3>11, <3>12, <3>13
  <2> QED
    BY <2>1, <2>2 DEF SubmitChunk
<1>5. pending'[p] = w
  BY <1>4, Locals
<1>6. \A j : HasRecord(p, j)' <=> HasRecord(p, j)
  BY <1>1 DEF HasRecord
<1>7. ASSUME NEW j \in 1..i PROVE j \in w \/ HasRecord(p, j)
  BY <1>2, <1>4
<1> HIDE DEF i, c
<1>8. CASE /\ i < Len(content[p])
           /\ index' = [index EXCEPT ![p] = @ + 1] /\ UNCHANGED pc
  <2>1. /\ index' = [index EXCEPT ![p] = i + 1] /\ index'[p] = i + 1 /\ i + 1 \in Nat
        /\ pc'[p] = "submit"
    BY <1>1, <1>2, <1>8, Locals DEF i
  <2>2. i + 1 \in DOMAIN content[p] /\ 1..((i + 1) - 1) = 1..i
    BY <1>2, <1>8
  <2>3. FileOK(p)'
    BY <1>1, <1>5, <1>6, <1>7, <2>1, <2>2 DEF FileOK
  <2> QED
    BY <1>1, <1>3, <1>4, <1>8, <2>1, <2>3, Locals, FileStep
<1>9. CASE /\ i = Len(content[p])
           /\ index' = [index EXCEPT ![p] = 1] /\ pc' = [pc EXCEPT ![p] = "wait"]
  <2>1. index'[p] = 1 /\ pc'[p] = "wait" /\ "wait" \in Locations /\ 1 \in Nat
    BY <1>9, Locals DEF Locations
  <2>2. 1 \in 1..(Len(content[p]) + 1) /\ DOMAIN content[p] = 1..i /\ 1..(1 - 1) = {}
    BY <1>2, <1>9
  <2>3. FileOK(p)'
    BY <1>1, <1>5, <1>6, <1>7, <2>1, <2>2 DEF FileOK
  <2> QED
    BY <1>1, <1>3, <1>4, <1>9, <2>1, <2>3, Locals, FileStep
<1> QED
  BY <1>8, <1>9 DEF SubmitChunk, i

(* An answer that is not an error tells where the blob of its ticket is. *)
LEMMA GoodAnswer ==
    ASSUME IInv, NEW p \in Paths, NEW i \in Nat, Ticket(p, i) \in DOMAIN answers,
           answers[Ticket(p, i)] # Error
    PROVE  /\ answers[Ticket(p, i)] \in Ids /\ answers[Ticket(p, i)] \in published
           /\ i = 0 => /\ answers[Ticket(p, i)] \in FileIds
                       /\ answers[Ticket(p, i)].commitment.content = content[p]
                       /\ Denotes(<<"file", content[p]>>, answers[Ticket(p, i)].commitment)
           /\ i # 0 => Denotes(ChunkKey(content[p][i]), answers[Ticket(p, i)].commitment)
<1>1. PICK t, a : t = <<p, i>> /\ t = Ticket(p, i) /\ a = answers[Ticket(p, i)]
  BY DEF Ticket
<1>2. a \in ChunkIds \cup FileIds /\ a \in published /\ Carries(t, a.commitment)
  BY <1>1 DEF IInv, TypeOK, SubmitterTypeOK, AnswerInv
<1>3. t[1] = p /\ t[2] = i
  BY <1>1
<1>4. ASSUME i = 0 PROVE /\ a.commitment.kind = "file" /\ a.commitment.content = content[p]
                         /\ a \in FileIds
  <2>1. a.commitment.kind = "file" /\ a.commitment.content = content[p]
    BY <1>2, <1>3, <1>4 DEF Carries
  <2> QED
    BY <1>2, <2>1 DEF ChunkIds, ChunkBlobs
<1>5. ASSUME i # 0 PROVE a.commitment = ChunkData(content[p][i])
  BY <1>2, <1>3, <1>5 DEF Carries
<1>6. i = 0 => Denotes(<<"file", content[p]>>, a.commitment)
  BY <1>4 DEF Denotes
<1>7. i # 0 => Denotes(ChunkKey(content[p][i]), a.commitment)
  BY <1>5 DEF Denotes, ChunkData
<1> QED
  BY <1>1, <1>2, <1>4, <1>6, <1>7 DEF Ids

LEMMA AwaitChunkStep ==
    ASSUME IInv, NEW p \in Paths, AwaitChunk(p)
    PROVE  IInv'
<1>0. PICK i : i = index[p]
  OBVIOUS
<1>1. /\ pc[p] = "wait" /\ i <= Len(content[p]) /\ SubmitterInv' /\ content' = content
      /\ index' = [index EXCEPT ![p] = i + 1]
      /\ UNCHANGED <<version, main, result, published, uploadErr, pc, pending, fileId>>
  <2>1. /\ pc[p] = "wait" /\ i <= Len(content[p]) /\ UNCHANGED <<submitterVars, version>>
        /\ index' = [index EXCEPT ![p] = i + 1]
        /\ UNCHANGED <<version, main, result, published, uploadErr, pc, pending, fileId>>
    BY <1>0 DEF AwaitChunk, submitterVars, celestiaVars, mainVars
  <2> QED
    BY <2>1, Parts, SubmitterUnchanged DEF content
<1>2. /\ content[p] \in Seq(Chunks) /\ Len(content[p]) \in Nat
      /\ i \in DOMAIN content[p] /\ i \in Nat \ {0}
      /\ \A j \in DOMAIN content[p] : j \in pending[p] \/ HasRecord(p, j)
      /\ \A j \in 1..(i - 1) : HasRecord(p, j)
  <2>1. content[p] \in Seq(Chunks) /\ FileOK(p)
    BY <1>1, AtWork
  <2>2. /\ i \in 1..(Len(content[p]) + 1)
        /\ \A j \in DOMAIN content[p] : j \in pending[p] \/ HasRecord(p, j)
        /\ \A j \in 1..(i - 1) : HasRecord(p, j)
    BY <1>0, <1>1, <2>1 DEF FileOK
  <2>3. Len(content[p]) \in Nat /\ DOMAIN content[p] = 1..Len(content[p])
    BY <2>1
  <2> QED
    BY <1>1, <2>1, <2>2, <2>3
<1>3. /\ RecordInv' /\ (\A k \in DOMAIN records' : records'[k] \in Ids)
      /\ DOMAIN records \subseteq DOMAIN records' /\ HasRecord(p, i)'
  <2>1. CASE i \notin pending[p] /\ UNCHANGED records
    BY <1>1, <1>2, <2>1, Locals DEF RecordInv, HasRecord
  <2>2. CASE /\ Ticket(p, i) \in DOMAIN answers /\ answers[Ticket(p, i)] # Error
             /\ SaveUploadRecord(ChunkKey(content[p][i]), answers[Ticket(p, i)])
    <3>1. PICK a, k : a = answers[Ticket(p, i)] /\ k = ChunkKey(content[p][i])
      OBVIOUS
    <3>2. a \in Ids /\ a \in published /\ Denotes(k, a.commitment)
      BY <1>2, <2>2, <3>1, GoodAnswer
    <3>3. /\ RecordInv' /\ (\A x \in DOMAIN records' : records'[x] \in Ids)
          /\ DOMAIN records \subseteq DOMAIN records' /\ k \in DOMAIN records'
      BY <1>1, <2>2, <3>1, <3>2, Locals, RecordSaved
    <3> QED
      BY <1>1, <3>1, <3>3 DEF HasRecord
  <2> QED
    BY <1>0, <2>1, <2>2 DEF AwaitChunk
<1>4. index'[p] = i + 1 /\ i + 1 \in Nat
  BY <1>0, <1>1, <1>2, Locals
<1>5. FileOK(p)'
  <2>1. \A j : HasRecord(p, j) => HasRecord(p, j)'
    BY <1>1, <1>3 DEF HasRecord
  <2>2. i + 1 \in 1..(Len(content[p]) + 1) /\ 1..((i + 1) - 1) = 1..(i - 1) \cup {i}
    BY <1>1, <1>2
  <2> QED
    BY <1>1, <1>2, <1>3, <1>4, <2>1, <2>2 DEF FileOK
<1> QED
  BY <1>1, <1>3, <1>4, <1>5, Locals, FileStep

(* The manifest refers to the records of all chunks. *)
LEMMA SubmitManifestStep ==
    ASSUME IInv, NEW p \in Paths, SubmitManifest(p)
    PROVE  IInv'
<1> DEFINE refs == [i \in DOMAIN content[p] |-> records[ChunkKey(content[p][i])]]
<1>1. /\ pc[p] = "wait" /\ index[p] > Len(content[p])
      /\ SubmitWithPriority(Ticket(p, 0), FileManifest(content[p], refs))
      /\ pc' = [pc EXCEPT ![p] = "await"]
      /\ UNCHANGED <<version, queue, run, batch, held, answers, celestiaVars, records, main,
                     result, uploadErr, index, pending, fileId, height, published>>
  BY DEF SubmitManifest, runVars, celestiaVars, mainVars
<1>2. content[p] \in Seq(Chunks) /\ SubmitterInv /\ FileOK(p) /\ index[p] \in Nat
  BY <1>1, AtWork
<1>3. \A i \in DOMAIN content[p] : HasRecord(p, i)
  <2>1. index[p] \in 1..(Len(content[p]) + 1) /\ \A i \in 1..(index[p] - 1) : HasRecord(p, i)
    BY <1>1, <1>2 DEF FileOK
  <2>2. DOMAIN content[p] = 1..Len(content[p]) /\ Len(content[p]) \in Nat
    BY <1>2
  <2>3. 1..Len(content[p]) = 1..(index[p] - 1)
    BY <1>1, <2>1, <2>2
  <2> QED
    BY <2>1, <2>2, <2>3
<1>4. ASSUME NEW i \in DOMAIN content[p]
      PROVE  /\ refs[i] \in ChunkIds /\ refs[i] \in published
             /\ refs[i].commitment = ChunkData(content[p][i])
  <2>1. PICK m, c : m = records[ChunkKey(content[p][i])] /\ c = content[p][i]
    OBVIOUS
  <2>2. m \in Ids /\ m \in published /\ Denotes(ChunkKey(c), m.commitment)
    BY <1>3, <2>1, Locals DEF RecordInv, HasRecord
  <2>3. m \in ChunkIds /\ m.commitment = ChunkData(c)
    BY <2>2, ChunkRecord
  <2> QED
    BY <2>1, <2>2, <2>3
<1>5. DOMAIN refs = DOMAIN content[p] /\ refs \in Seq(ChunkIds)
  <2>1. DOMAIN refs = DOMAIN content[p]
    OBVIOUS
  <2>2. PICK n \in Nat : DOMAIN content[p] = 1..n
    BY <1>2
  <2>3. PICK r : r = refs
    OBVIOUS
  <2>4. r = [i \in 1..n |-> r[i]]
    BY <2>2, <2>3
  <2>5. \A i \in 1..n : r[i] \in ChunkIds
    BY <1>4, <2>2, <2>3
  <2> HIDE DEF refs
  <2>6. r \in Seq(ChunkIds)
    BY <2>4, <2>5
  <2> QED
    BY <2>1, <2>3, <2>6
<1> HIDE DEF refs
<1>6. PICK it : it = Item(Ticket(p, 0), FileManifest(content[p], refs))
  OBVIOUS
<1>7. /\ it.ticket = <<p, 0>> /\ it.payload.kind = "file" /\ it.payload.content = content[p]
      /\ it.payload.chunks = refs /\ it.payload \in FileBlobs
  BY <1>2, <1>5, <1>6 DEF Item, Ticket, FileManifest, FileBlobs
<1>8. it \in SubmitItems
  BY <1>6, <1>7 DEF SubmitItems, Item, Tickets
<1>9. Carries(it.ticket, it.payload)
  BY <1>7 DEF Carries
<1>10. FileResolves(it.payload, height)
  <2>1. \A i \in DOMAIN refs : refs[i].height <= height
    BY <1>4, <1>5 DEF IInv, HeightInv
  <2> QED
    BY <1>4, <1>5, <1>7, <2>1 DEF FileResolves
<1>11. SubmitterInv'
  <2>1. priorityQueue' = Append(priorityQueue, it)
    BY <1>1, <1>6 DEF SubmitWithPriority
  <2>2. priorityQueue \in Seq(SubmitItems) /\ SubmitterTypeOK
    BY <1>2 DEF SubmitterInv, SubmitterTypeOK
  <2>3. /\ priorityQueue' \in Seq(SubmitItems)
        /\ Range(priorityQueue') = Range(priorityQueue) \cup {it}
    BY <1>8, <2>1, <2>2, RangeAppend
  <2>4. PICK new : new = {it}
    OBVIOUS
  <2>5. /\ InFlight' \subseteq InFlight \cup new
        /\ \A x \in new : /\ Carries(x.ticket, x.payload)
                          /\ x.payload.kind = "file" => FileResolves(x.payload, height)
    BY <1>1, <1>9, <1>10, <2>3, <2>4 DEF InFlight
  <2>6. UNCHANGED <<answers, celestiaVars, version>>
    BY <1>1
  <2>7. /\ queue' \in Seq(SubmitItems) /\ batch' \in Seq(SubmitItems)
        /\ held' \in Seq(SubmitItems) /\ run' \in {"select", "storing"}
    BY <1>1, <2>2 DEF SubmitterTypeOK
  <2> QED
    BY <1>2, <2>3, <2>5, <2>6, <2>7, QueueStep
<1>12. FileOK(p)' /\ "await" \in Locations
  <2>1. pc'[p] = "await"
    BY <1>1, Locals
  <2> QED
    BY <2>1 DEF FileOK, Locations
<1>13. RecordInv' /\ (\A k \in DOMAIN records' : records'[k] \in Ids) /\ uploadErr' \in BOOLEAN
  BY <1>1, Locals DEF RecordInv
<1> QED
  BY <1>1, <1>11, <1>12, <1>13, Locals, FileStep

LEMMA AwaitManifestStep ==
    ASSUME IInv, NEW p \in Paths, AwaitManifest(p)
    PROVE  IInv'
<1>1. PICK a, k : a = answers[Ticket(p, 0)] /\ k = <<"file", content[p]>>
  OBVIOUS
<1>2. /\ pc[p] = "await" /\ SubmitterInv' /\ content' = content
      /\ Ticket(p, 0) \in DOMAIN answers /\ a # Error /\ SaveUploadRecord(k, a)
      /\ fileId' = [fileId EXCEPT ![p] = a] /\ pc' = [pc EXCEPT ![p] = "done"]
      /\ UNCHANGED <<version, main, result, published, uploadErr, index, pending>>
  <2>1. /\ pc[p] = "await" /\ UNCHANGED <<submitterVars, version>>
        /\ Ticket(p, 0) \in DOMAIN answers /\ a # Error /\ SaveUploadRecord(k, a)
        /\ fileId' = [fileId EXCEPT ![p] = a] /\ pc' = [pc EXCEPT ![p] = "done"]
        /\ UNCHANGED <<version, main, result, published, uploadErr, index, pending>>
    BY <1>1 DEF AwaitManifest, submitterVars, celestiaVars, mainVars, FileKey
  <2> QED
    BY <2>1, Parts, SubmitterUnchanged DEF content
<1>3. /\ a \in Ids /\ a \in published /\ a \in FileIds /\ a.commitment.content = content[p]
      /\ Denotes(k, a.commitment)
  BY <1>1, <1>2, GoodAnswer
<1>4. /\ RecordInv' /\ (\A x \in DOMAIN records' : records'[x] \in Ids)
      /\ DOMAIN records \subseteq DOMAIN records'
  BY <1>2, <1>3, Locals, RecordSaved
<1>5. pc'[p] = "done" /\ fileId'[p] = a
  BY <1>2, Locals
<1>6. FileOK(p)' /\ "done" \in Locations
  BY <1>2, <1>3, <1>5 DEF FileOK, Locations
<1> QED
  BY <1>2, <1>3, <1>4, <1>6, Locals, FileStep

LEMMA FileFailsStep ==
    ASSUME IInv, NEW p \in Paths, FileFails(p)
    PROVE  IInv'
<1>1. /\ pc[p] \in {"wait", "await"} /\ SubmitterInv'
      /\ pc' = [pc EXCEPT ![p] = "failed"] /\ uploadErr' = TRUE
      /\ UNCHANGED <<version, main, result, published, records, index, pending, fileId>>
  <2>1. /\ pc[p] \in {"wait", "await"} /\ UNCHANGED <<submitterVars, version>>
        /\ pc' = [pc EXCEPT ![p] = "failed"] /\ uploadErr' = TRUE
        /\ UNCHANGED <<version, main, result, published, records, index, pending, fileId>>
    BY DEF FileFails, submitterVars, celestiaVars
  <2> QED
    BY <2>1, Parts, SubmitterUnchanged
<1>2. RecordInv' /\ \A k \in DOMAIN records' : records'[k] \in Ids
  BY <1>1, Locals DEF RecordInv
<1>3. pc'[p] = "failed" /\ "failed" \in Locations /\ uploadErr' \in BOOLEAN
  BY <1>1, Locals DEF Locations
<1>4. FileOK(p)'
  BY <1>1, <1>3 DEF FileOK
<1> QED
  BY <1>1, <1>2, <1>3, <1>4, Locals, FileStep

-----------------------------------------------------------------------------
(* The command. *)

LEMMA InitInv == Init => IInv
<1> SUFFICES ASSUME Init PROVE IInv
  OBVIOUS
<1>1. /\ queue = <<>> /\ priorityQueue = <<>> /\ batch = <<>> /\ held = <<>> /\ run = "select"
      /\ answers = <<>> /\ height = 0 /\ published = {} /\ records = <<>> /\ version = 1
      /\ main = "down" /\ result = None /\ uploadErr = FALSE
      /\ pc = [p \in Paths |-> "none"] /\ index = [p \in Paths |-> 0]
      /\ pending = [p \in Paths |-> {}] /\ fileId = [p \in Paths |-> None]
  BY DEF Init, SubmitterInit, NoFiles
<1>2. DOMAIN <<>> = {} /\ InFlight = {}
  BY <1>1, RangeEmpty DEF InFlight
<1>3. SubmitterTypeOK
  <2>1. <<>> \in Seq(SubmitItems)
    OBVIOUS
  <2> QED
    BY <1>1, <1>2, <2>1 DEF SubmitterTypeOK
<1>4. UploadTypeOK
  <2>1. 1 \in DOMAIN Versions
    BY ContentAssumption
  <2> QED
    BY <1>1, <1>2, <2>1 DEF UploadTypeOK, Locations
<1>5. PayloadInv /\ AnswerInv /\ HeightInv /\ RecordInv /\ ManifestsResolve
  BY <1>1, <1>2 DEF PayloadInv, AnswerInv, HeightInv, RecordInv, ManifestsResolve
<1>6. FileInv /\ MainInv /\ ResultInv
  BY <1>1 DEF FileInv, FileOK, MainInv, ResultInv
<1> QED
  BY <1>3, <1>4, <1>5, <1>6 DEF IInv, TypeOK

(* The command returns an error. *)
LEMMA FailedStep ==
    ASSUME IInv, FilesReturned, main' = "returned", result' = Error,
           UNCHANGED <<version, submitterVars, records, uploadErr, fileVars>>
    PROVE  IInv'
<1>1. /\ UNCHANGED <<records, version, uploadErr, pc, index, pending, fileId, published>>
      /\ content' = content
  BY DEF submitterVars, celestiaVars, fileVars, content
<1>2. SubmitterInv' /\ UploadInv
  BY Parts, SubmitterUnchanged
<1>3. UploadTypeOK'
  BY <1>1, <1>2 DEF UploadInv, UploadTypeOK
<1>4. RecordInv'
  BY <1>1, <1>2 DEF UploadInv, RecordInv
<1>5. \A p, i : HasRecord(p, i)' <=> HasRecord(p, i)
  BY <1>1 DEF HasRecord
<1>6. FileInv'
  BY <1>1, <1>2, <1>5 DEF UploadInv, FileInv, FileOK
<1>7. ResultInv'
  BY DEF ResultInv
<1>8. MainInv'
  BY <1>1 DEF MainInv, FilesReturned
<1> QED
  BY <1>2, <1>3, <1>4, <1>6, <1>7, <1>8, PartsNext DEF UploadInv

(* The record of an earlier command is returned: no goroutine has started, so it *)
(* need not be of the contents the directory has now. *)
LEMMA AlreadyCompleteStep ==
    ASSUME IInv, AlreadyComplete
    PROVE  IInv'
<1>1. /\ main = "down" /\ DirKey \in DOMAIN records
      /\ main' = "returned" /\ result' = records[DirKey]
      /\ UNCHANGED <<version, submitterVars>>
      /\ UNCHANGED <<records, version, uploadErr, pc, index, pending, fileId, published>>
      /\ content' = content
  BY DEF AlreadyComplete, submitterVars, celestiaVars, fileVars, content
<1>2. SubmitterInv' /\ UploadInv
  BY <1>1, Parts, SubmitterUnchanged
<1>3. PICK id : id = records[DirKey]
  OBVIOUS
<1>4. id \in Ids /\ id \in published /\ Denotes(DirKey, id.commitment)
  BY <1>1, <1>2, <1>3 DEF UploadInv, UploadTypeOK, RecordInv
<1>5. id \in DirIds
  BY <1>4, DirRecord
<1>6. UploadTypeOK'
  BY <1>1, <1>2, <1>3, <1>5 DEF UploadInv, UploadTypeOK
<1>7. RecordInv'
  BY <1>1, <1>2 DEF UploadInv, RecordInv
<1>8. /\ FileInv'
      /\ \A p \in Paths : pc[p] = "none"
  <2>1. \A p \in Paths : pc[p] = "none"
    BY <1>1 DEF IInv, MainInv
  <2> QED
    BY <1>1, <2>1 DEF FileInv, FileOK
<1>9. ASSUME \A p \in Paths : pc'[p] = "done" PROVE id.commitment.hash = content
  <2>1. Paths = {}
    BY <1>1, <1>8, <1>9
  <2>2. content \in [Paths -> Seq(Chunks)]
    BY <1>2, VersionType DEF UploadInv, UploadTypeOK, content
  <2>3. id.commitment.hash \in [Paths -> Seq(Chunks)]
    BY <1>5 DEF DirIds, DirBlobs
  <2> QED
    BY <2>1, <2>2, <2>3
<1>10. ResultInv'
  BY <1>1, <1>3, <1>4, <1>9 DEF ResultInv
<1>11. MainInv'
  BY <1>1, <1>8 DEF MainInv
<1> QED
  BY <1>2, <1>6, <1>7, <1>8, <1>10, <1>11, PartsNext DEF UploadInv

LEMMA UploadDirectoryStep ==
    ASSUME IInv, UploadDirectory
    PROVE  IInv'
<1>1. /\ main = "down" /\ main' = "uploading" /\ pc' = [p \in Paths |-> "start"]
      /\ UNCHANGED <<version, submitterVars>>
      /\ UNCHANGED <<records, version, result, uploadErr, index, pending, fileId, published>>
      /\ content' = content
  BY DEF UploadDirectory, submitterVars, celestiaVars, content
<1>2. SubmitterInv' /\ UploadInv
  BY <1>1, Parts, SubmitterUnchanged
<1>3. result = None
  BY <1>1 DEF IInv, MainInv
<1>4. UploadTypeOK'
  BY <1>1, <1>2 DEF UploadInv, UploadTypeOK, Locations
<1>5. RecordInv'
  BY <1>1, <1>2 DEF UploadInv, RecordInv
<1>6. FileInv'
  BY <1>1 DEF FileInv, FileOK
<1>7. ResultInv' /\ MainInv'
  BY <1>1, <1>3 DEF ResultInv, MainInv
<1> QED
  BY <1>2, <1>4, <1>5, <1>6, <1>7, PartsNext DEF UploadInv

(* Nothing is under way when the directory changes. *)
LEMMA ChangeDirectoryStep ==
    ASSUME IInv, ChangeDirectory
    PROVE  IInv'
<1>1. /\ main = "down" /\ version < Len(Versions) /\ version' = version + 1
      /\ UNCHANGED <<queue, priorityQueue, run, batch, held, answers, height, published>>
      /\ UNCHANGED <<records, main, result, uploadErr, pc, index, pending, fileId>>
  BY DEF ChangeDirectory, submitterVars, queueVars, runVars, celestiaVars, mainVars, fileVars
<1>2. /\ queue = <<>> /\ priorityQueue = <<>> /\ batch = <<>> /\ held = <<>> /\ answers = <<>>
      /\ result = None /\ \A p \in Paths : pc[p] = "none"
  BY <1>1 DEF IInv, MainInv
<1>3. SubmitterInv /\ UploadInv
  BY Parts
<1>4. version' \in DOMAIN Versions
  BY <1>1, <1>3, ContentAssumption DEF UploadInv, UploadTypeOK
<1>5. SubmitterTypeOK'
  BY <1>1, <1>3 DEF SubmitterInv, SubmitterTypeOK
<1>6. InFlight' = {} /\ DOMAIN answers' = {}
  BY <1>1, <1>2, RangeEmpty DEF InFlight
<1>7. PayloadInv' /\ AnswerInv'
  BY <1>6 DEF PayloadInv, AnswerInv
<1>8. HeightInv' /\ ManifestsResolve'
  BY <1>1, <1>3 DEF SubmitterInv, HeightInv, ManifestsResolve
<1>9. UploadTypeOK'
  BY <1>1, <1>3, <1>4 DEF UploadInv, UploadTypeOK
<1>10. RecordInv'
  BY <1>1, <1>3 DEF UploadInv, RecordInv
<1>11. FileInv' /\ ResultInv'
  BY <1>1, <1>2 DEF FileInv, FileOK, ResultInv
<1>12. MainInv'
  BY <1>1 DEF IInv, MainInv
<1> QED
  BY <1>5, <1>7, <1>8, <1>9, <1>10, <1>11, <1>12, PartsNext DEF SubmitterInv, UploadInv

LEMMA ProcessEndsStep ==
    ASSUME IInv, ProcessEnds
    PROVE  IInv'
<1>1. /\ queue' = <<>> /\ priorityQueue' = <<>> /\ batch' = <<>> /\ held' = <<>>
      /\ run' = "select" /\ answers' = <<>>
      /\ UNCHANGED <<height, published, version, records>>
      /\ main' = "down" /\ result' = None /\ uploadErr' = FALSE
      /\ pc' = [p \in Paths |-> "none"] /\ index' = [p \in Paths |-> 0]
      /\ pending' = [p \in Paths |-> {}] /\ fileId' = [p \in Paths |-> None]
  BY DEF ProcessEnds, SubmitterGone, celestiaVars
<1>2. SubmitterInv /\ UploadInv
  BY Parts
<1>3. InFlight' = {} /\ DOMAIN answers' = {}
  BY <1>1, RangeEmpty DEF InFlight
<1>4. SubmitterTypeOK'
  <2>1. <<>> \in Seq(SubmitItems)
    OBVIOUS
  <2> QED
    BY <1>1, <1>2, <1>3, <2>1 DEF SubmitterInv, SubmitterTypeOK
<1>5. PayloadInv' /\ AnswerInv'
  BY <1>3 DEF PayloadInv, AnswerInv
<1>6. HeightInv' /\ ManifestsResolve'
  BY <1>1, <1>2 DEF SubmitterInv, HeightInv, ManifestsResolve
<1>7. UploadTypeOK'
  BY <1>1, <1>2 DEF UploadInv, UploadTypeOK, Locations
<1>8. RecordInv'
  BY <1>1, <1>2 DEF UploadInv, RecordInv
<1>9. FileInv' /\ ResultInv' /\ MainInv'
  BY <1>1 DEF FileInv, FileOK, ResultInv, MainInv
<1> QED
  BY <1>4, <1>5, <1>6, <1>7, <1>8, <1>9, PartsNext DEF SubmitterInv, UploadInv

(* The directory manifest is built when no file has failed, so all are published. *)
LEMMA DirectoryReady ==
    ASSUME IInv, FilesReturned, ~uploadErr
    PROVE  /\ TheDirectory \in DirBlobs /\ TheDirectory.kind = "dir"
           /\ TheDirectory.hash = content
           /\ \A p \in Paths : /\ TheDirectory.files[p] \in published
                               /\ TheDirectory.files[p].commitment.content = TheDirectory.hash[p]
<1>1. content \in [Paths -> Seq(Chunks)] /\ fileId \in [Paths -> FileIds \cup {None}]
  BY VersionType DEF IInv, TypeOK, UploadTypeOK, content
<1>2. ASSUME NEW p \in Paths
      PROVE  /\ fileId[p] \in published /\ fileId[p] \in FileIds
             /\ fileId[p].commitment.content = content[p]
  BY DEF IInv, FileInv, FileOK, FilesReturned
<1>3. fileId \in [Paths -> FileIds]
  BY <1>1, <1>2
<1>4. TheDirectory = [kind |-> "dir", files |-> fileId, hash |-> content]
  BY DEF TheDirectory, DirectoryManifest
<1>5. TheDirectory \in DirBlobs
  BY <1>1, <1>3, <1>4 DEF DirBlobs
<1> QED
  BY <1>2, <1>4, <1>5

(* The directory manifest is included. *)
LEMMA DirectoryIncluded ==
    ASSUME IInv, FilesReturned, ~uploadErr, Include({TheDirectory}),
           UNCHANGED <<version, queueVars, runVars, answers, uploadErr, fileVars>>
    PROVE  /\ SubmitterInv' /\ published \subseteq published' /\ height + 1 \in Nat
           /\ [height |-> height + 1, commitment |-> TheDirectory] \in published'
<1>1. PICK d : d = TheDirectory
  OBVIOUS
<1>2. d \in DirBlobs /\ \A p \in Paths : d.files[p] \in published
                                         /\ d.files[p].commitment.content = d.hash[p]
  BY <1>1, DirectoryReady
<1>3. PICK blobs : blobs = {d}
  OBVIOUS
<1>4. SubmitterInv /\ Include(blobs)
  BY <1>1, <1>3, Parts
<1>5. \A b \in blobs : /\ b \in DirBlobs
                       /\ \A p \in Paths : b.files[p] \in published
                                           /\ b.files[p].commitment.content = b.hash[p]
  BY <1>2, <1>3
<1>6. /\ height' = height + 1 /\ height \in Nat
      /\ published \subseteq published' /\ published' \subseteq Ids
      /\ \A b \in blobs : [height |-> height + 1, commitment |-> b] \in published'
      /\ HeightInv' /\ ManifestsResolve'
      /\ \A b : FileResolves(b, height) => FileResolves(b, height)'
  BY <1>4, <1>5, IncludeStep
<1>7. UNCHANGED <<queue, priorityQueue, run, batch, held, answers>> /\ content' = content
  BY DEF queueVars, runVars, content
<1>8. SubmitterTypeOK'
  BY <1>4, <1>6, <1>7 DEF SubmitterInv, SubmitterTypeOK
<1>9. \A t, b : Carries(t, b)' <=> Carries(t, b)
  BY <1>7 DEF Carries
<1>10. InFlight' = InFlight
  BY <1>7 DEF InFlight
<1>11. PayloadInv'
  BY <1>4, <1>6, <1>9, <1>10 DEF SubmitterInv, PayloadInv
<1>12. AnswerInv'
  BY <1>4, <1>6, <1>7, <1>9 DEF SubmitterInv, AnswerInv
<1>13. height + 1 \in Nat
  BY <1>6
<1> QED
  BY <1>1, <1>3, <1>6, <1>8, <1>11, <1>12, <1>13 DEF SubmitterInv

LEMMA DirectoryStoredStep ==
    ASSUME IInv, DirectoryStored
    PROVE  IInv'
<1>1. PICK id, d : d = TheDirectory /\ id = [height |-> height + 1, commitment |-> d]
  OBVIOUS
<1>2. /\ FilesReturned /\ ~uploadErr /\ Include({TheDirectory})
      /\ SaveUploadRecord(DirKey, id) /\ main' = "returned" /\ result' = id
      /\ UNCHANGED <<version, queueVars, runVars, answers, uploadErr, fileVars>>
  BY <1>1 DEF DirectoryStored
<1>3. /\ SubmitterInv' /\ published \subseteq published' /\ height + 1 \in Nat
      /\ id \in published'
  BY <1>1, <1>2, DirectoryIncluded
<1>4. d \in DirBlobs /\ d.kind = "dir" /\ d.hash = content
  BY <1>1, <1>2, DirectoryReady
<1>5. id \in DirIds /\ id \in Ids /\ Denotes(DirKey, id.commitment) /\ id.commitment = d
  BY <1>1, <1>3, <1>4 DEF DirIds, Ids, Denotes
<1>6. UploadInv /\ RecordInv /\ \A k \in DOMAIN records : records[k] \in Ids
  BY Parts DEF UploadInv, UploadTypeOK
<1>7. /\ RecordInv' /\ (\A k \in DOMAIN records' : records'[k] \in Ids)
      /\ DOMAIN records \subseteq DOMAIN records'
  BY <1>2, <1>3, <1>5, <1>6, RecordSaved
<1>8. UNCHANGED <<version, uploadErr, pc, index, pending, fileId>> /\ content' = content
  BY <1>2 DEF fileVars, content
<1>9. UploadTypeOK'
  BY <1>2, <1>5, <1>6, <1>7, <1>8 DEF UploadInv, UploadTypeOK
<1>10. FileInv'
  <2>1. ASSUME NEW q \in Paths PROVE FileOK(q)'
    BY <1>3, <1>6, <1>7, <1>8, OtherFile DEF UploadInv, FileInv
  <2> QED
    BY <2>1 DEF FileInv
<1>11. ResultInv'
  BY <1>2, <1>3, <1>4, <1>5, <1>8 DEF ResultInv
<1>12. MainInv'
  BY <1>2, <1>8 DEF MainInv, FilesReturned
<1> QED
  BY <1>3, <1>7, <1>9, <1>10, <1>11, <1>12, PartsNext DEF UploadInv

(* A step after which the command is where it was. *)
LEMMA MainUnchanged ==
    ASSUME MainInv, main # "down", UNCHANGED <<main, result, pc>>
    PROVE  MainInv'
BY DEF MainInv

LEMMA DirectoryAnswerLostStep ==
    ASSUME IInv, DirectoryAnswerLost
    PROVE  IInv'
<1>1. /\ FilesReturned /\ ~uploadErr /\ Include({TheDirectory})
      /\ UNCHANGED <<version, queueVars, runVars, answers, uploadErr, fileVars>>
      /\ UNCHANGED <<version, records, mainVars, fileVars>>
      /\ UNCHANGED <<main, result, pc>> /\ main # "down"
  BY DEF DirectoryAnswerLost, mainVars, fileVars, FilesReturned
<1>2. SubmitterInv' /\ published \subseteq published'
  BY <1>1, DirectoryIncluded
<1>3. UploadInv' /\ MainInv'
  BY <1>1, <1>2, Parts, UploadUnchanged, MainUnchanged
<1> QED
  BY <1>2, <1>3, PartsNext

(* The steps of the submitter's goroutine. *)
LEMMA SubmitterStep ==
    ASSUME IInv, main # "down", UNCHANGED <<version, records, mainVars, fileVars>>,
           SubmitterSteps \/ BatchAnswerLost
    PROVE  IInv'
<1>1. SubmitterInv /\ UploadInv /\ MainInv /\ UNCHANGED version /\ UNCHANGED <<main, result, pc>>
  BY Parts DEF mainVars, fileVars
<1>2. SubmitterInv' /\ published \subseteq published'
  <2>1. CASE ReceivePriority \/ Receive \/ BatchTimeout
    <3>1. published' = published
      BY <2>1 DEF ReceivePriority, Receive, BatchTimeout, celestiaVars
    <3> QED
      BY <1>1, <2>1, <3>1, MoveStep
  <2>2. CASE BatchStored \/ BatchRefused \/ BatchAnswerLost
    BY <1>1, <2>2, BatchStep
  <2> QED
    BY <2>1, <2>2 DEF SubmitterSteps
<1> QED
  BY <1>1, <1>2, Parts, PartsNext, UploadUnchanged, MainUnchanged

LEMMA NextInv == IInv /\ [Next]_vars => IInv'
<1> SUFFICES ASSUME IInv, [Next]_vars PROVE IInv'
  OBVIOUS
<1>1. CASE AlreadyComplete \/ UploadDirectory \/ ChangeDirectory
  BY <1>1, AlreadyCompleteStep, UploadDirectoryStep, ChangeDirectoryStep
<1>2. CASE \E p \in Paths : FileSteps(p)
  BY <1>2, UploadFileStep, SubmitChunkStep, AwaitChunkStep, SubmitManifestStep,
     AwaitManifestStep, FileFailsStep DEF FileSteps
<1>3. CASE UploadFails \/ DirectoryRefused
  BY <1>3, FailedStep DEF UploadFails, DirectoryRefused
<1>4. CASE DirectoryStored \/ DirectoryAnswerLost
  BY <1>4, DirectoryStoredStep, DirectoryAnswerLostStep
<1>5. CASE Exit \/ Kill
  BY <1>5, ProcessEndsStep DEF Exit, Kill
<1>6. CASE RunSteps \/ (main # "down" /\ BatchAnswerLost
                        /\ UNCHANGED <<version, records, mainVars, fileVars>>)
  BY <1>6, SubmitterStep DEF RunSteps
<1>7. CASE UNCHANGED vars
  <2>1. /\ UNCHANGED <<submitterVars, version>> /\ UNCHANGED <<version, records, mainVars, fileVars>>
        /\ UNCHANGED <<queue, priorityQueue, batch, held, answers, main, result, uploadErr, pc,
                       pending, published>>
    BY <1>7 DEF vars, submitterVars, queueVars, runVars, celestiaVars, mainVars, fileVars
  <2>2. SubmitterInv' /\ UploadInv'
    BY <2>1, Parts, SubmitterUnchanged, UploadUnchanged
  <2>3. MainInv'
    BY <2>1 DEF IInv, MainInv
  <2> QED
    BY <2>2, <2>3, PartsNext
<1> QED
  BY <1>1, <1>2, <1>3, <1>4, <1>5, <1>6, <1>7 DEF Next, MainSteps

LEMMA Invariance == Spec => []IInv
BY InitInv, NextInv, PTL DEF Spec

-----------------------------------------------------------------------------
(* The variables have their types, whatever the directory, the queue sizes and the *)
(* failures. *)
THEOREM TypeCorrect == Spec => []TypeOK
<1>1. IInv => TypeOK
  BY DEF IInv
<1> QED
  BY <1>1, Invariance, PTL

(* A resumed upload never builds on something that is not there: RecordsPublished for *)
(* every directory and every sequence of commands, kills, lost answers and refusals. *)
THEOREM RecordsTheorem == Spec => []RecordsPublished
<1>1. IInv => RecordsPublished
  BY DEF IInv, RecordInv, ResultInv, RecordsPublished
<1> QED
  BY <1>1, Invariance, PTL

(* Nodes accept what is uploaded: every manifest on Celestia refers to blobs at lower *)
(* heights that have the contents it says. *)
THEOREM ManifestsTheorem == Spec => []ManifestsResolve
<1>1. IInv => ManifestsResolve
  BY DEF IInv
<1> QED
  BY <1>1, Invariance, PTL

-----------------------------------------------------------------------------
(* Tickets of sequences of items. *)

LEMMA TicketsEmpty == TicketsOf(<<>>) = {} /\ Distinct(<<>>)
BY DEF TicketsOf, Distinct

LEMMA TicketsAppend ==
    ASSUME NEW S, NEW s \in Seq(S), NEW x, Distinct(s), x.ticket \notin TicketsOf(s)
    PROVE  /\ TicketsOf(Append(s, x)) = TicketsOf(s) \cup {x.ticket}
           /\ Distinct(Append(s, x))
<1>1. PICK n, a : n = Len(s) /\ a = Append(s, x)
  OBVIOUS
<1>2. /\ n \in Nat /\ DOMAIN s = 1..n /\ DOMAIN a = 1..(n + 1) /\ a[n + 1] = x
      /\ \A i \in 1..n : a[i] = s[i]
  BY <1>1
<1>3. 1..(n + 1) = 1..n \cup {n + 1} /\ n + 1 \notin 1..n
  BY <1>2
<1>4. \A i \in 1..n : s[i].ticket # x.ticket
  BY <1>2 DEF TicketsOf
<1>5. TicketsOf(a) = TicketsOf(s) \cup {x.ticket}
  BY <1>2, <1>3 DEF TicketsOf
<1>6. Distinct(a)
  BY <1>2, <1>3, <1>4 DEF Distinct
<1> QED
  BY <1>1, <1>5, <1>6

LEMMA TicketsTail ==
    ASSUME NEW S, NEW s \in Seq(S), s # <<>>, Distinct(s)
    PROVE  /\ TicketsOf(s) = TicketsOf(Tail(s)) \cup {Head(s).ticket}
           /\ Head(s).ticket \notin TicketsOf(Tail(s))
           /\ Distinct(Tail(s))
<1>1. PICK n, b : n = Len(s) /\ b = Tail(s)
  OBVIOUS
<1>2. /\ n \in Nat \ {0} /\ DOMAIN s = 1..n /\ DOMAIN b = 1..(n - 1) /\ Head(s) = s[1]
      /\ \A i \in 1..(n - 1) : b[i] = s[i + 1] /\ i + 1 \in 1..n /\ i + 1 # 1
  BY <1>1
<1>3. 1 \in 1..n /\ \A i \in 1..n : i # 1 => i - 1 \in 1..(n - 1) /\ (i - 1) + 1 = i
  BY <1>2
<1>4. TicketsOf(b) \cup {s[1].ticket} \subseteq TicketsOf(s)
  BY <1>2, <1>3 DEF TicketsOf
<1>5. \A i \in 1..n : i # 1 => s[i].ticket \in TicketsOf(b)
  <2> SUFFICES ASSUME NEW i \in 1..n, i # 1 PROVE s[i].ticket \in TicketsOf(b)
    OBVIOUS
  <2>1. i - 1 \in DOMAIN b /\ b[i - 1] = s[i]
    BY <1>2, <1>3
  <2> QED
    BY <2>1 DEF TicketsOf
<1>6. TicketsOf(s) \subseteq TicketsOf(b) \cup {s[1].ticket}
  BY <1>2, <1>5 DEF TicketsOf
<1>7. s[1].ticket \notin TicketsOf(b)
  <2>1. ASSUME NEW i \in 1..(n - 1) PROVE b[i].ticket # s[1].ticket
    <3>1. PICK k : k = i + 1
      OBVIOUS
    <3>2. k \in DOMAIN s /\ 1 \in DOMAIN s /\ k # 1 /\ b[i] = s[k]
      BY <1>2, <1>3, <3>1
    <3> QED
      BY <3>2 DEF Distinct
  <2> QED
    BY <1>2, <2>1 DEF TicketsOf
<1>8. Distinct(b)
  <2> SUFFICES ASSUME NEW i \in 1..(n - 1), NEW j \in 1..(n - 1), i # j
               PROVE  b[i].ticket # b[j].ticket
    BY <1>2 DEF Distinct
  <2>1. PICK k, l : k = i + 1 /\ l = j + 1
    OBVIOUS
  <2>2. k \in DOMAIN s /\ l \in DOMAIN s /\ k # l /\ b[i] = s[k] /\ b[j] = s[l]
    BY <1>2, <2>1
  <2> QED
    BY <2>2 DEF Distinct
<1> QED
  BY <1>1, <1>2, <1>4, <1>6, <1>7, <1>8

LEMMA TicketsConcat ==
    ASSUME NEW S, NEW s \in Seq(S), NEW u \in Seq(S), Distinct(s), Distinct(u),
           TicketsOf(s) \cap TicketsOf(u) = {}
    PROVE  s \o u \in Seq(S) /\ TicketsOf(s \o u) = TicketsOf(s) \cup TicketsOf(u) /\ Distinct(s \o u)
<1>1. PICK m, n, a : m = Len(s) /\ n = Len(u) /\ a = s \o u
  OBVIOUS
<1>2. /\ m \in Nat /\ n \in Nat /\ DOMAIN s = 1..m /\ DOMAIN u = 1..n /\ DOMAIN a = 1..(m + n)
      /\ a \in Seq(S)
      /\ \A i \in 1..(m + n) : a[i] = IF i <= m THEN s[i] ELSE u[i - m]
  BY <1>1
<1>3. ASSUME NEW i \in 1..(m + n)
      PROVE  \/ i <= m /\ i \in 1..m /\ a[i] = s[i] /\ a[i].ticket \in TicketsOf(s)
             \/ i > m /\ i - m \in 1..n /\ a[i] = u[i - m] /\ a[i].ticket \in TicketsOf(u)
  <2>1. CASE i <= m
    <3>1. i \in 1..m /\ a[i] = s[i]
      BY <1>2, <2>1
    <3> QED
      BY <1>2, <2>1, <3>1 DEF TicketsOf
  <2>2. CASE i > m
    <3>1. i - m \in 1..n /\ a[i] = u[i - m]
      BY <1>2, <2>2
    <3> QED
      BY <1>2, <2>2, <3>1 DEF TicketsOf
  <2> QED
    BY <1>2, <2>1, <2>2
<1>4. \A i \in 1..m : i \in 1..(m + n) /\ a[i] = s[i]
  BY <1>2
<1>5. \A i \in 1..n : i + m \in 1..(m + n) /\ a[i + m] = u[i]
  BY <1>2
<1>6. TicketsOf(a) = TicketsOf(s) \cup TicketsOf(u)
  <2>1. TicketsOf(a) \subseteq TicketsOf(s) \cup TicketsOf(u)
    BY <1>2, <1>3 DEF TicketsOf
  <2>2. TicketsOf(s) \subseteq TicketsOf(a)
    BY <1>2, <1>4 DEF TicketsOf
  <2>3. TicketsOf(u) \subseteq TicketsOf(a)
    <3>1. ASSUME NEW i \in 1..n PROVE u[i].ticket \in TicketsOf(a)
      <4>1. PICK k : k = i + m
        OBVIOUS
      <4>2. k \in DOMAIN a /\ a[k] = u[i]
        BY <1>2, <1>5, <4>1
      <4> QED
        BY <4>2 DEF TicketsOf
    <3> QED
      BY <1>2, <3>1 DEF TicketsOf
  <2> QED
    BY <2>1, <2>2, <2>3
<1>7. Distinct(a)
  <2> SUFFICES ASSUME NEW i \in 1..(m + n), NEW j \in 1..(m + n), i # j
               PROVE  a[i].ticket # a[j].ticket
    BY <1>2 DEF Distinct
  <2>1. CASE i <= m /\ j <= m
    <3>1. i \in DOMAIN s /\ j \in DOMAIN s /\ a[i] = s[i] /\ a[j] = s[j]
      BY <1>2, <2>1
    <3> QED
      BY <3>1 DEF Distinct
  <2>2. CASE i > m /\ j > m
    <3>1. i - m \in DOMAIN u /\ j - m \in DOMAIN u /\ i - m # j - m
          /\ a[i] = u[i - m] /\ a[j] = u[j - m]
      BY <1>2, <2>2
    <3> QED
      BY <3>1 DEF Distinct
  <2>3. CASE (i <= m) # (j <= m)
    BY <1>2, <1>3, <2>3
  <2> QED
    BY <1>2, <2>1, <2>2, <2>3
<1> QED
  BY <1>1, <1>2, <1>6, <1>7

-----------------------------------------------------------------------------
(* The items of the submitter stay apart. *)

(* A step that leaves queues, batch and answers alone. *)
LEMMA PlacesUnchanged ==
    ASSUME PlacesInv, UNCHANGED <<queueVars, runVars, answers>>
    PROVE  PlacesInv' /\ Known' = Known
<1>1. UNCHANGED <<queue, priorityQueue, run, batch, held, answers>>
  BY DEF queueVars, runVars
<1> QED
  BY <1>1 DEF PlacesInv, Waiting, Known

(* An item that was taken from a queue. *)
LEMMA AddItemPlaces ==
    ASSUME SubmitterTypeOK, PlacesInv, run = "select", NEW it, AddItem(it),
           it.ticket \notin TicketsOf(batch)
    PROVE  /\ Distinct(batch') /\ Distinct(held')
           /\ TicketsOf(batch') \cap TicketsOf(held') = {}
           /\ TicketsOf(batch') \cup TicketsOf(held') =
                TicketsOf(batch) \cup TicketsOf(held) \cup {it.ticket}
           /\ run' = "select" => held' = <<>>
<1>1. /\ batch \in Seq(SubmitItems) /\ held = <<>> /\ Distinct(batch)
      /\ TicketsOf(held) = {} /\ Distinct(held)
  BY TicketsEmpty DEF SubmitterTypeOK, PlacesInv
<1>2. CASE batch' = Append(batch, it) /\ UNCHANGED <<run, held>>
  BY <1>1, <1>2, TicketsAppend
<1>3. CASE run' = "storing" /\ held' = <<it>> /\ UNCHANGED batch
  <2>1. TicketsOf(<<it>>) = {it.ticket} /\ Distinct(<<it>>)
    BY DEF TicketsOf, Distinct
  <2>2. run' # "select"
    BY <1>3
  <2> QED
    BY <1>1, <1>3, <2>1, <2>2
<1> QED
  BY <1>2, <1>3 DEF AddItem

LEMMA ReceivePlaces ==
    ASSUME SubmitterTypeOK, PlacesInv, ReceivePriority \/ Receive
    PROVE  PlacesInv' /\ Known' = Known
<1>1. /\ queue \in Seq(SubmitItems) /\ priorityQueue \in Seq(SubmitItems)
      /\ Distinct(queue) /\ Distinct(priorityQueue)
      /\ TicketsOf(queue) \cap TicketsOf(priorityQueue) = {}
      /\ (TicketsOf(queue) \cup TicketsOf(priorityQueue)) \cap
           (TicketsOf(batch) \cup TicketsOf(held)) = {}
      /\ Waiting \cap DOMAIN answers = {}
  BY DEF SubmitterTypeOK, PlacesInv
<1>2. CASE ReceivePriority
  <2>1. PICK it : it = Head(priorityQueue)
    OBVIOUS
  <2>2. /\ run = "select" /\ priorityQueue # <<>> /\ priorityQueue' = Tail(priorityQueue)
        /\ AddItem(it) /\ UNCHANGED <<queue, answers>>
    BY <1>2, <2>1 DEF ReceivePriority
  <2>3. /\ TicketsOf(priorityQueue) = TicketsOf(priorityQueue') \cup {it.ticket}
        /\ it.ticket \notin TicketsOf(priorityQueue') /\ Distinct(priorityQueue')
    BY <1>1, <2>1, <2>2, TicketsTail
  <2>4. it.ticket \notin TicketsOf(batch)
    BY <1>1, <2>3
  <2>5. /\ Distinct(batch') /\ Distinct(held')
        /\ TicketsOf(batch') \cap TicketsOf(held') = {}
        /\ TicketsOf(batch') \cup TicketsOf(held') =
             TicketsOf(batch) \cup TicketsOf(held) \cup {it.ticket}
        /\ run' = "select" => held' = <<>>
    BY <2>2, <2>4, AddItemPlaces
  <2>6. Waiting' = Waiting /\ TicketsOf(queue') = TicketsOf(queue) /\ DOMAIN answers' = DOMAIN answers
    BY <2>2, <2>3, <2>5 DEF Waiting
  <2>7. /\ TicketsOf(queue') \cap TicketsOf(priorityQueue') = {}
        /\ (TicketsOf(queue') \cup TicketsOf(priorityQueue')) \cap
             (TicketsOf(batch') \cup TicketsOf(held')) = {}
    BY <1>1, <2>3, <2>5, <2>6
  <2> QED
    BY <1>1, <2>2, <2>3, <2>5, <2>6, <2>7 DEF PlacesInv, Known
<1>3. CASE Receive
  <2>1. PICK it : it = Head(queue)
    OBVIOUS
  <2>2. /\ run = "select" /\ queue # <<>> /\ queue' = Tail(queue)
        /\ AddItem(it) /\ UNCHANGED <<priorityQueue, answers>>
    BY <1>3, <2>1 DEF Receive
  <2>3. /\ TicketsOf(queue) = TicketsOf(queue') \cup {it.ticket}
        /\ it.ticket \notin TicketsOf(queue') /\ Distinct(queue')
    BY <1>1, <2>1, <2>2, TicketsTail
  <2>4. it.ticket \notin TicketsOf(batch)
    BY <1>1, <2>3
  <2>5. /\ Distinct(batch') /\ Distinct(held')
        /\ TicketsOf(batch') \cap TicketsOf(held') = {}
        /\ TicketsOf(batch') \cup TicketsOf(held') =
             TicketsOf(batch) \cup TicketsOf(held) \cup {it.ticket}
        /\ run' = "select" => held' = <<>>
    BY <2>2, <2>4, AddItemPlaces
  <2>6. /\ Waiting' = Waiting /\ TicketsOf(priorityQueue') = TicketsOf(priorityQueue)
        /\ DOMAIN answers' = DOMAIN answers
    BY <2>2, <2>3, <2>5 DEF Waiting
  <2>7. /\ TicketsOf(queue') \cap TicketsOf(priorityQueue') = {}
        /\ (TicketsOf(queue') \cup TicketsOf(priorityQueue')) \cap
             (TicketsOf(batch') \cup TicketsOf(held')) = {}
    BY <1>1, <2>3, <2>5, <2>6
  <2> QED
    BY <1>1, <2>2, <2>3, <2>5, <2>6, <2>7 DEF PlacesInv, Known
<1> QED
  BY <1>2, <1>3

(* The whole batch is answered, once, and the held item is the next batch. *)
LEMMA ReplyPlaces ==
    ASSUME PlacesInv, NEW results, Reply(results), UNCHANGED queueVars
    PROVE  PlacesInv' /\ Known' = Known
<1>1. /\ batch' = held /\ held' = <<>> /\ UNCHANGED <<queue, priorityQueue>>
      /\ DOMAIN answers' = DOMAIN answers \cup TicketsOf(batch)
  BY DEF Reply, queueVars, Answered, TicketsOf
<1>2. /\ TicketsOf(batch') = TicketsOf(held) /\ TicketsOf(held') = {}
      /\ Distinct(batch') /\ Distinct(held')
      /\ TicketsOf(queue') = TicketsOf(queue) /\ TicketsOf(priorityQueue') = TicketsOf(priorityQueue)
      /\ Distinct(queue') /\ Distinct(priorityQueue')
  BY <1>1, TicketsEmpty DEF PlacesInv
<1>3. /\ TicketsOf(queue) \cap TicketsOf(priorityQueue) = {}
      /\ (TicketsOf(queue) \cup TicketsOf(priorityQueue)) \cap
           (TicketsOf(batch) \cup TicketsOf(held)) = {}
      /\ TicketsOf(batch) \cap TicketsOf(held) = {}
      /\ Waiting \cap DOMAIN answers = {}
  BY DEF PlacesInv
<1>4. Waiting' = TicketsOf(queue) \cup TicketsOf(priorityQueue) \cup TicketsOf(held)
  BY <1>2 DEF Waiting
<1>5. Waiting' \cap DOMAIN answers' = {} /\ Known' = Known
  BY <1>1, <1>3, <1>4 DEF Waiting, Known
<1> QED
  BY <1>1, <1>2, <1>3, <1>5 DEF PlacesInv

LEMMA SubmitterPlaces ==
    ASSUME SubmitterTypeOK, PlacesInv, SubmitterSteps \/ BatchAnswerLost
    PROVE  PlacesInv' /\ Known' = Known
<1>1. CASE ReceivePriority \/ Receive
  BY <1>1, ReceivePlaces
<1>2. CASE BatchTimeout
  <2>1. run' # "select" /\ UNCHANGED <<queue, priorityQueue, batch, held, answers>>
    BY <1>2 DEF BatchTimeout, queueVars
  <2> QED
    BY <2>1 DEF PlacesInv, Waiting, Known
<1>3. CASE BatchStored
  <2>1. PICK results : Reply(results) /\ UNCHANGED queueVars
    BY <1>3 DEF BatchStored
  <2> QED
    BY <2>1, ReplyPlaces
<1>4. CASE BatchRefused
  <2>1. PICK results : Reply(results) /\ UNCHANGED queueVars
    BY <1>4 DEF BatchRefused
  <2> QED
    BY <2>1, ReplyPlaces
<1>5. CASE BatchAnswerLost
  BY <1>5, PlacesUnchanged DEF BatchAnswerLost
<1> QED
  BY <1>1, <1>2, <1>3, <1>4, <1>5 DEF SubmitterSteps

(* An item with a ticket that is not in use is put on a queue. *)
LEMMA SubmitPlaces ==
    ASSUME SubmitterTypeOK, PlacesInv, NEW t, t \notin Known, NEW payload,
           UNCHANGED <<runVars, answers>>,
           \/ queue' = Append(queue, Item(t, payload)) /\ UNCHANGED priorityQueue
           \/ priorityQueue' = Append(priorityQueue, Item(t, payload)) /\ UNCHANGED queue
    PROVE  PlacesInv' /\ Known' = Known \cup {t}
<1>1. PICK it : it = Item(t, payload) /\ it.ticket = t
  BY DEF Item
<1>2. /\ queue \in Seq(SubmitItems) /\ priorityQueue \in Seq(SubmitItems)
      /\ Distinct(queue) /\ Distinct(priorityQueue)
      /\ TicketsOf(queue) \cap TicketsOf(priorityQueue) = {}
      /\ (TicketsOf(queue) \cup TicketsOf(priorityQueue)) \cap
           (TicketsOf(batch) \cup TicketsOf(held)) = {}
      /\ Waiting \cap DOMAIN answers = {}
  BY DEF SubmitterTypeOK, PlacesInv
<1>3. UNCHANGED <<run, batch, held, answers>>
  BY DEF runVars
<1>4. /\ t \notin TicketsOf(queue) /\ t \notin TicketsOf(priorityQueue)
      /\ t \notin TicketsOf(batch) /\ t \notin TicketsOf(held) /\ t \notin DOMAIN answers
  BY DEF Known, Waiting
<1>5. /\ Distinct(queue') /\ Distinct(priorityQueue')
      /\ \/ /\ TicketsOf(queue') = TicketsOf(queue) \cup {t}
            /\ TicketsOf(priorityQueue') = TicketsOf(priorityQueue)
         \/ /\ TicketsOf(queue') = TicketsOf(queue)
            /\ TicketsOf(priorityQueue') = TicketsOf(priorityQueue) \cup {t}
  <2>1. CASE queue' = Append(queue, it) /\ UNCHANGED priorityQueue
    BY <1>1, <1>2, <1>4, <2>1, TicketsAppend
  <2>2. CASE priorityQueue' = Append(priorityQueue, it) /\ UNCHANGED queue
    BY <1>1, <1>2, <1>4, <2>2, TicketsAppend
  <2> QED
    BY <1>1, <2>1, <2>2
<1>6. Waiting' = Waiting \cup {t} /\ Known' = Known \cup {t}
  BY <1>3, <1>5 DEF Waiting, Known
<1>7. /\ TicketsOf(queue') \cap TicketsOf(priorityQueue') = {}
      /\ (TicketsOf(queue') \cup TicketsOf(priorityQueue')) \cap
           (TicketsOf(batch) \cup TicketsOf(held)) = {}
      /\ Waiting' \cap DOMAIN answers = {}
  BY <1>2, <1>4, <1>5, <1>6
<1> QED
  BY <1>3, <1>5, <1>6, <1>7 DEF PlacesInv

-----------------------------------------------------------------------------
(* The tickets of the goroutines. *)

(* A step of the goroutine of file p, which may add tickets of its own. *)
LEMMA FileTicketStep ==
    ASSUME IInv, TicketInv, NEW p \in Paths, PlacesInv', NEW new, Known' = Known \cup new,
           NEW l, pc' = [pc EXCEPT ![p] = l],
           pc[p] \in {"await", "done", "failed"} => l \in {"await", "done", "failed"},
           NEW i, index' = [index EXCEPT ![p] = i],
           NEW w, pending' = [pending EXCEPT ![p] = w], pending[p] \subseteq w,
           \A t \in new : InUse(t)', FileTickets(p)'
    PROVE  TicketInv'
<1>1. /\ DOMAIN pc = Paths /\ DOMAIN index = Paths /\ DOMAIN pending = Paths
      /\ Known \subseteq Tickets
  <2>1. SubmitterTypeOK
    BY DEF IInv, TypeOK
  <2>2. ASSUME NEW s \in Seq(SubmitItems) PROVE TicketsOf(s) \subseteq Tickets
    <3>1. \A k \in DOMAIN s : s[k] \in SubmitItems
      OBVIOUS
    <3> QED
      BY <3>1 DEF TicketsOf, SubmitItems
  <2> QED
    BY <2>1, <2>2, Locals DEF SubmitterTypeOK, Known, Waiting
<1>2. /\ pc'[p] = l /\ index'[p] = i /\ pending'[p] = w
      /\ \A q \in Paths : q # p => pc'[q] = pc[q] /\ index'[q] = index[q] /\ pending'[q] = pending[q]
  BY <1>1
<1>3. ASSUME NEW t \in Known PROVE InUse(t)'
  <2>1. InUse(t) /\ t[1] \in Paths
    BY <1>1 DEF TicketInv, Tickets
  <2>2. CASE t[1] = p
    BY <1>2, <2>1, <2>2 DEF InUse
  <2>3. CASE t[1] # p
    BY <1>2, <2>1, <2>3 DEF InUse
  <2> QED
    BY <2>2, <2>3
<1>4. ASSUME NEW q \in Paths, q # p PROVE FileTickets(q)'
  BY <1>2, <1>4 DEF TicketInv, FileTickets
<1> QED
  BY <1>3, <1>4 DEF TicketInv

(* A step that neither the goroutines nor the submitter take part in. *)
LEMMA TicketsUnchanged ==
    ASSUME TicketInv, UNCHANGED <<queueVars, runVars, answers, fileVars>>
    PROVE  TicketInv'
<1>1. PlacesInv' /\ Known' = Known /\ UNCHANGED <<pc, index, pending>>
  BY PlacesUnchanged DEF TicketInv, fileVars
<1>2. \A t : InUse(t)' <=> InUse(t)
  BY <1>1 DEF InUse
<1> QED
  BY <1>1, <1>2 DEF TicketInv, FileTickets

LEMMA NothingKnown ==
    ASSUME queue' = <<>>, priorityQueue' = <<>>, batch' = <<>>, held' = <<>>, answers' = <<>>,
           \A p \in Paths : pc'[p] \in {"none", "start"} /\ pending'[p] = {}
    PROVE  TicketInv'
<1>1. Known' = {} /\ Waiting' = {}
  BY TicketsEmpty DEF Known, Waiting
<1>2. PlacesInv'
  BY <1>1, TicketsEmpty DEF PlacesInv
<1> QED
  BY <1>1, <1>2 DEF TicketInv, FileTickets

LEMMA InitTickets == Init => TicketInv
<1> SUFFICES ASSUME Init PROVE TicketInv
  OBVIOUS
<1>1. /\ queue = <<>> /\ priorityQueue = <<>> /\ batch = <<>> /\ held = <<>> /\ answers = <<>>
      /\ pc = [p \in Paths |-> "none"] /\ pending = [p \in Paths |-> {}]
  BY DEF Init, SubmitterInit, NoFiles
<1>2. Known = {} /\ Waiting = {}
  BY <1>1, TicketsEmpty DEF Known, Waiting
<1>3. PlacesInv
  BY <1>1, <1>2, TicketsEmpty DEF PlacesInv
<1> QED
  BY <1>1, <1>2, <1>3 DEF TicketInv, FileTickets

(* A chunk's ticket is not in use: those in use have lower numbers. *)
LEMMA SubmitChunkTickets ==
    ASSUME IInv, TicketInv, NEW p \in Paths, SubmitChunk(p)
    PROVE  TicketInv'
<1>1. PICK i, c, t : i = index[p] /\ c = content[p][i] /\ t = Ticket(p, i)
  OBVIOUS
<1>2. /\ pc[p] = "submit" /\ i \in Nat \ {0} /\ t[1] = p /\ t[2] = i
  <2>1. pc[p] = "submit"
    BY DEF SubmitChunk
  <2>2. content[p] \in Seq(Chunks) /\ i \in DOMAIN content[p]
    BY <1>1, <2>1, AtWork DEF FileOK
  <2> QED
    BY <1>1, <2>1, <2>2 DEF Ticket
<1>3. SubmitterTypeOK /\ PlacesInv /\ UNCHANGED <<runVars, answers, priorityQueue>>
  BY DEF IInv, TypeOK, TicketInv, SubmitChunk
<1>4. FileTickets(p) /\ \A j \in pending[p] : j \in Nat /\ j < i /\ j # 0 /\ Ticket(p, j) \in Known
  <2>1. FileTickets(p) /\ pending[p] \subseteq Nat
    BY Locals DEF TicketInv
  <2> QED
    BY <1>1, <1>2, <2>1 DEF FileTickets
<1>5. PICK l, k : /\ pc' = [pc EXCEPT ![p] = l] /\ index' = [index EXCEPT ![p] = k]
                  /\ l = "wait" \/ (l = "submit" /\ k = i + 1)
  <2>1. CASE index[p] < Len(content[p]) /\ index' = [index EXCEPT ![p] = @ + 1] /\ UNCHANGED pc
    <3>1. pc' = [pc EXCEPT ![p] = "submit"] /\ index' = [index EXCEPT ![p] = i + 1]
      BY <1>1, <1>2, <2>1, Locals
    <3> QED
      BY <3>1
  <2>2. CASE index' = [index EXCEPT ![p] = 1] /\ pc' = [pc EXCEPT ![p] = "wait"]
    <3> WITNESS "wait", 1
    <3> QED
      BY <2>2
  <2> QED
    BY <2>1, <2>2 DEF SubmitChunk
<1>6. PICK w, new : /\ PlacesInv' /\ Known' = Known \cup new
                    /\ pending' = [pending EXCEPT ![p] = w] /\ pending[p] \subseteq w
                    /\ w \subseteq pending[p] \cup {i} /\ (i \in w => t \in Known')
                    /\ new \subseteq {t} /\ (t \in new => i \in w)
  <2>1. CASE UNCHANGED <<queue, pending>>
    <3>1. UNCHANGED <<queueVars, runVars, answers>>
      BY <1>3, <2>1 DEF queueVars
    <3>2. PlacesInv' /\ Known' = Known
      BY <1>3, <3>1, PlacesUnchanged
    <3>3. PICK new : new = {}
      OBVIOUS
    <3>4. i \notin pending[p]
      BY <1>2, <1>4
    <3>5. Known' = Known \cup new /\ pending' = [pending EXCEPT ![p] = pending[p]]
      BY <2>1, <3>2, <3>3, Locals
    <3> WITNESS pending[p], new
    <3> QED
      BY <3>2, <3>3, <3>4, <3>5
  <2>2. CASE /\ Submit(t, ChunkData(c)) /\ pending' = [pending EXCEPT ![p] = @ \cup {i}]
    <3>1. t \notin Known
      <4>1. i \notin pending[p]
        BY <1>2, <1>4
      <4> QED
        BY <1>2, <4>1 DEF TicketInv, InUse
    <3>2. queue' = Append(queue, Item(t, ChunkData(c)))
      BY <2>2 DEF Submit
    <3>3. PlacesInv' /\ Known' = Known \cup {t}
      BY <1>3, <3>1, <3>2, SubmitPlaces
    <3>4. pending' = [pending EXCEPT ![p] = pending[p] \cup {i}]
      BY <2>2
    <3> WITNESS pending[p] \cup {i}, {t}
    <3> QED
      BY <3>3, <3>4
  <2> QED
    BY <1>1, <2>1, <2>2 DEF SubmitChunk
<1>7. pc'[p] = l /\ index'[p] = k /\ pending'[p] = w
  BY <1>5, <1>6, Locals
<1>8. \A x \in new : InUse(x)'
  BY <1>2, <1>6, <1>7 DEF InUse
<1>9. FileTickets(p)'
  <2>1. \A j \in w : j # 0 /\ Ticket(p, j) \in Known' /\ j < i + 1
    BY <1>1, <1>2, <1>4, <1>6
  <2> QED
    BY <1>5, <1>7, <2>1 DEF FileTickets
<1> QED
  BY <1>2, <1>5, <1>6, <1>8, <1>9, FileTicketStep

LEMMA SubmitManifestTickets ==
    ASSUME IInv, TicketInv, NEW p \in Paths, SubmitManifest(p)
    PROVE  TicketInv'
<1>1. PICK t, blob : /\ t = Ticket(p, 0) /\ t[1] = p /\ t[2] = 0
                     /\ SubmitWithPriority(t, blob)
  BY DEF Ticket, SubmitManifest
<1>2. /\ pc[p] = "wait" /\ pc' = [pc EXCEPT ![p] = "await"]
      /\ UNCHANGED <<runVars, answers, queue, index, pending>>
  BY DEF SubmitManifest
<1>3. t \notin Known
  BY <1>1, <1>2 DEF TicketInv, InUse
<1>4. PlacesInv' /\ Known' = Known \cup {t}
  BY <1>1, <1>2, <1>3, SubmitPlaces DEF SubmitWithPriority, IInv, TypeOK, TicketInv
<1>5. pc'[p] = "await" /\ pending'[p] = pending[p]
  BY <1>2, Locals
<1>6. InUse(t)'
  BY <1>1, <1>5 DEF InUse
<1>7. FileTickets(p)'
  <2>1. FileTickets(p)
    BY DEF TicketInv
  <2> QED
    BY <1>1, <1>4, <1>5, <2>1 DEF FileTickets
<1>8. PICK new : new = {t}
  OBVIOUS
<1>9. Known' = Known \cup new /\ \A x \in new : InUse(x)'
  BY <1>4, <1>6, <1>8
<1> QED
  BY <1>2, <1>4, <1>7, <1>9, Locals, FileTicketStep

(* The other steps of a goroutine submit nothing. *)
LEMMA OtherFileTickets ==
    ASSUME IInv, TicketInv, NEW p \in Paths,
           UploadFile(p) \/ AwaitChunk(p) \/ AwaitManifest(p) \/ FileFails(p)
    PROVE  TicketInv'
<1>1. /\ UNCHANGED <<queueVars, runVars, answers, pending>>
  BY DEF UploadFile, AwaitChunk, AwaitManifest, FileFails, submitterVars
<1>2. PICK l, i :
        /\ pc' = [pc EXCEPT ![p] = l] /\ index' = [index EXCEPT ![p] = i]
        /\ l \notin {"none", "start", "await"}
        /\ pc[p] \in {"await", "done", "failed"} => l \in {"done", "failed"}
        /\ l = "submit" => pc[p] = "start"
  <2>1. CASE UploadFile(p)
    <3>1. CASE pc' = [pc EXCEPT ![p] = "skipped"] /\ UNCHANGED index
      <4> WITNESS "skipped", index[p]
      <4> QED
        BY <2>1, <3>1, Locals DEF UploadFile
    <3>2. CASE pc' = [pc EXCEPT ![p] = "done"] /\ UNCHANGED index
      <4> WITNESS "done", index[p]
      <4> QED
        BY <3>2, Locals
    <3>3. CASE /\ pc' = [pc EXCEPT ![p] = IF content[p] = <<>> THEN "wait" ELSE "submit"]
               /\ index' = [index EXCEPT ![p] = 1]
      <4> WITNESS IF content[p] = <<>> THEN "wait" ELSE "submit", 1
      <4> QED
        BY <2>1, <3>3 DEF UploadFile
    <3> QED
      BY <2>1, <3>1, <3>2, <3>3 DEF UploadFile
  <2>2. CASE AwaitChunk(p)
    <3>1. /\ pc[p] = "wait" /\ UNCHANGED pc /\ index' = [index EXCEPT ![p] = index[p] + 1]
          /\ pc' = [pc EXCEPT ![p] = "wait"]
      BY <2>2, Locals DEF AwaitChunk
    <3> QED
      BY <3>1
  <2>3. CASE AwaitManifest(p)
    <3> WITNESS "done", index[p]
    <3> QED
      BY <2>3, Locals DEF AwaitManifest
  <2>4. CASE FileFails(p)
    <3> WITNESS "failed", index[p]
    <3> QED
      BY <2>4, Locals DEF FileFails
  <2> QED
    BY <2>1, <2>2, <2>3, <2>4
<1>3. PlacesInv' /\ Known' = Known
  BY <1>1, PlacesUnchanged DEF TicketInv
<1>4. pc'[p] = l /\ pending'[p] = pending[p] /\ pending' = [pending EXCEPT ![p] = pending[p]]
  BY <1>1, <1>2, Locals
<1>5. FileTickets(p)'
  <2>1. FileTickets(p)
    BY DEF TicketInv
  <2> QED
    BY <1>2, <1>3, <1>4, <2>1 DEF FileTickets
<1>6. PICK new : new = {}
  OBVIOUS
<1>7. Known' = Known \cup new /\ \A x \in new : InUse(x)'
  BY <1>3, <1>6
<1> QED
  BY <1>2, <1>3, <1>4, <1>5, <1>7, FileTicketStep

LEMMA NextTickets == IInv /\ TicketInv /\ [Next]_vars => TicketInv'
<1> SUFFICES ASSUME IInv, TicketInv, [Next]_vars PROVE TicketInv'
  OBVIOUS
<1>1. CASE AlreadyComplete \/ ChangeDirectory \/ UploadFails \/ DirectoryRefused
  BY <1>1, TicketsUnchanged
     DEF AlreadyComplete, ChangeDirectory, UploadFails, DirectoryRefused, submitterVars
<1>2. CASE DirectoryStored \/ DirectoryAnswerLost
  BY <1>2, TicketsUnchanged DEF DirectoryStored, DirectoryAnswerLost
<1>3. CASE UploadDirectory
  <2>1. /\ main = "down" /\ pc' = [p \in Paths |-> "start"]
        /\ UNCHANGED <<queue, priorityQueue, batch, held, answers, pending>>
    BY <1>3 DEF UploadDirectory, submitterVars, queueVars, runVars
  <2>2. /\ queue = <<>> /\ priorityQueue = <<>> /\ batch = <<>> /\ held = <<>>
        /\ answers = <<>> /\ \A p \in Paths : pending[p] = {}
    BY <2>1 DEF IInv, MainInv
  <2>3. \A p \in Paths : pc'[p] \in {"none", "start"} /\ pending'[p] = {}
    BY <2>1, <2>2
  <2> QED
    BY <2>1, <2>2, <2>3, NothingKnown
<1>4. CASE \E p \in Paths : FileSteps(p)
  BY <1>4, SubmitChunkTickets, SubmitManifestTickets, OtherFileTickets DEF FileSteps
<1>5. CASE Exit \/ Kill
  <2>1. /\ queue' = <<>> /\ priorityQueue' = <<>> /\ batch' = <<>> /\ held' = <<>>
        /\ answers' = <<>>
        /\ pc' = [p \in Paths |-> "none"] /\ pending' = [p \in Paths |-> {}]
    BY <1>5 DEF Exit, Kill, ProcessEnds, SubmitterGone
  <2>2. \A p \in Paths : pc'[p] \in {"none", "start"} /\ pending'[p] = {}
    BY <2>1
  <2> QED
    BY <2>1, <2>2, NothingKnown
<1>6. CASE RunSteps \/ (main # "down" /\ BatchAnswerLost
                        /\ UNCHANGED <<version, records, mainVars, fileVars>>)
  <2>1. (SubmitterSteps \/ BatchAnswerLost) /\ UNCHANGED <<pc, index, pending>>
    BY <1>6 DEF RunSteps, fileVars
  <2>2. SubmitterTypeOK /\ PlacesInv
    BY DEF IInv, TypeOK, TicketInv
  <2>3. PlacesInv' /\ Known' = Known
    BY <2>1, <2>2, SubmitterPlaces
  <2>4. \A t : InUse(t)' <=> InUse(t)
    BY <2>1 DEF InUse
  <2> QED
    BY <2>1, <2>3, <2>4 DEF TicketInv, FileTickets
<1>7. CASE UNCHANGED vars
  BY <1>7, TicketsUnchanged DEF vars, submitterVars
<1> QED
  BY <1>1, <1>2, <1>3, <1>4, <1>5, <1>6, <1>7 DEF Next, MainSteps

(* No submitted item is lost or answered twice: ItemsKept for every directory, every *)
(* queue and transaction size, and every pattern of failures. *)
THEOREM ItemsTheorem == Spec => []ItemsKept
<1>1. ASSUME IInv, TicketInv PROVE ItemsKept
  <2>1. /\ queue \in Seq(SubmitItems) /\ priorityQueue \in Seq(SubmitItems)
        /\ batch \in Seq(SubmitItems) /\ held \in Seq(SubmitItems) /\ PlacesInv
    BY <1>1 DEF IInv, TypeOK, SubmitterTypeOK, TicketInv
  <2>2. PICK a : a = queue \o priorityQueue
    OBVIOUS
  <2>3. PICK b : b = a \o batch
    OBVIOUS
  <2>4. PICK all : all = b \o held
    OBVIOUS
  <2>5. /\ a \in Seq(SubmitItems) /\ Distinct(a)
        /\ TicketsOf(a) = TicketsOf(queue) \cup TicketsOf(priorityQueue)
    BY <2>1, <2>2, TicketsConcat DEF PlacesInv
  <2>6. TicketsOf(a) \cap (TicketsOf(batch) \cup TicketsOf(held)) = {}
    BY <2>1, <2>5 DEF PlacesInv
  <2>7. /\ b \in Seq(SubmitItems) /\ Distinct(b)
        /\ TicketsOf(b) = TicketsOf(a) \cup TicketsOf(batch)
    <3>1. Distinct(batch) /\ TicketsOf(a) \cap TicketsOf(batch) = {}
      BY <2>1, <2>6 DEF PlacesInv
    <3> QED
      BY <2>1, <2>3, <2>5, <3>1, TicketsConcat
  <2>8. Distinct(all) /\ TicketsOf(all) = TicketsOf(b) \cup TicketsOf(held)
    <3>1. Distinct(held) /\ TicketsOf(b) \cap TicketsOf(held) = {}
      BY <2>1, <2>6, <2>7 DEF PlacesInv
    <3> QED
      BY <2>1, <2>4, <2>7, <3>1, TicketsConcat
  <2>9. TicketsOf(all) = Waiting
    BY <2>5, <2>7, <2>8 DEF Waiting
  <2>10. all = queue \o priorityQueue \o batch \o held
    BY <2>2, <2>3, <2>4
  <2>11. {all[i].ticket : i \in DOMAIN all} = Waiting
    BY <2>9 DEF TicketsOf
  <2>12. \A i, j \in DOMAIN all : i # j => all[i].ticket # all[j].ticket
    BY <2>8 DEF Distinct
  <2>13. Waiting \cap DOMAIN answers = {}
    BY <2>1 DEF PlacesInv
  <2>14. \A p \in Paths : /\ \A i \in pending[p] : Ticket(p, i) \in Waiting \cup DOMAIN answers
                          /\ pc[p] = "await" => Ticket(p, 0) \in Waiting \cup DOMAIN answers
    BY <1>1 DEF TicketInv, FileTickets, Known
  <2> QED
    BY <2>10, <2>11, <2>12, <2>13, <2>14, Zenon DEF ItemsKept
<1> QED
  BY <1>1, Invariance, InitTickets, NextTickets, PTL DEF Spec
-----------------------------------------------------------------------------
(* The size of the batch. *)

(* The sizes the code estimates are len(payload) + 100. *)
Sized == \A blob \in ChunkBlobs \cup FileBlobs : Size(blob) \in Nat

(* currentBatchSize is the number of bytes in currentBatch, and only a batch of *)
(* one item may exceed the limit. *)
BatchInv ==
    /\ IsFiniteSet(Bytes(batch)) /\ batchSize = Cardinality(Bytes(batch))
    /\ Len(batch) > 1 => batchSize <= MaxTxSize
    /\ Len(held) <= 1

LEMMA BytesEmpty == IsFiniteSet(Bytes(<<>>)) /\ Cardinality(Bytes(<<>>)) = 0
<1>1. Bytes(<<>>) = {}
  BY DEF Bytes
<1> QED
  BY <1>1, FS_EmptySet

(* An item adds its own bytes. *)
LEMMA BytesAppend ==
    ASSUME NEW S, NEW s \in Seq(S), NEW x, Size(x.payload) \in Nat, IsFiniteSet(Bytes(s))
    PROVE  /\ IsFiniteSet(Bytes(Append(s, x)))
           /\ Cardinality(Bytes(Append(s, x))) = Cardinality(Bytes(s)) + Size(x.payload)
<1>1. PICK n, a, k : n = Len(s) /\ a = Append(s, x) /\ k = Size(x.payload)
  OBVIOUS
<1>2. /\ n \in Nat /\ DOMAIN s = 1..n /\ DOMAIN a = 1..(n + 1) /\ a[n + 1] = x
      /\ \A i \in 1..n : a[i] = s[i]
  BY <1>1
<1>3. 1..(n + 1) = 1..n \cup {n + 1} /\ n + 1 \notin 1..n
  BY <1>2
<1>4. PICK T : T = {n + 1} \X (1..k)
  OBVIOUS
<1>5. IsFiniteSet(T) /\ Cardinality(T) = k
  <2>1. k \in Nat /\ IsFiniteSet(1..k) /\ Cardinality(1..k) = k
    <3>1. k \in Int /\ 1 \in Int /\ k >= 0
      BY <1>1
    <3>2. IsFiniteSet(1..k) /\ Cardinality(1..k) = IF 1 > k THEN 0 ELSE k - 1 + 1
      BY <3>1, FS_Interval
    <3> QED
      BY <3>1, <3>2
  <2>2. IsFiniteSet({n + 1}) /\ Cardinality({n + 1}) = 1
    BY FS_Singleton
  <2>3. IsFiniteSet(T) /\ Cardinality(T) = 1 * k
    BY <1>4, <2>1, <2>2, FS_Product
  <2> QED
    BY <2>1, <2>3
<1>6. Bytes(s) = UNION {{i} \X (1..Size(s[i].payload)) : i \in 1..n}
  BY <1>2 DEF Bytes
<1>7. Bytes(a) = UNION {{i} \X (1..Size(a[i].payload)) : i \in 1..(n + 1)}
  BY <1>2 DEF Bytes
<1>8. Bytes(a) = Bytes(s) \cup T
  <2>2. ASSUME NEW e \in Bytes(a) PROVE e \in Bytes(s) \cup T
    <3>1. PICK i \in 1..(n + 1) : e \in {i} \X (1..Size(a[i].payload))
      BY <1>7, <2>2
    <3>2. CASE i \in 1..n
      BY <1>2, <1>6, <3>1, <3>2
    <3>3. CASE i = n + 1
      BY <1>1, <1>2, <1>4, <3>1, <3>3
    <3> QED
      BY <1>3, <3>2, <3>3
  <2>3. ASSUME NEW e \in Bytes(s) PROVE e \in Bytes(a)
    <3>1. PICK i \in 1..n : e \in {i} \X (1..Size(s[i].payload))
      BY <1>6, <2>3
    <3> QED
      BY <1>2, <1>3, <1>7, <3>1
  <2>4. ASSUME NEW e \in T PROVE e \in Bytes(a)
    BY <1>1, <1>2, <1>3, <1>4, <1>7, <2>4
  <2> QED
    BY <2>2, <2>3, <2>4
<1>9. Bytes(s) \cap T = {}
  <2>1. SUFFICES ASSUME NEW e \in Bytes(s), e \in T PROVE FALSE
    OBVIOUS
  <2>2. PICK i \in 1..n : e \in {i} \X (1..Size(s[i].payload))
    BY <1>6, <2>1
  <2>3. e[1] = i /\ e[1] = n + 1
    BY <1>4, <2>1, <2>2
  <2> QED
    BY <1>3, <2>3
<1>10. Cardinality(Bytes(s) \cap T) = 0
  BY <1>9, FS_EmptySet
<1>11. PICK m \in Nat : m = Cardinality(Bytes(s))
  BY FS_CardinalityType
<1>12. IsFiniteSet(Bytes(a)) /\ Cardinality(Bytes(a)) = m + k
  <2>1. PICK B : B = Bytes(s)
    OBVIOUS
  <2>2. IsFiniteSet(B \cup T) /\ Cardinality(B \cup T) = Cardinality(B) + Cardinality(T) - Cardinality(B \cap T)
    BY <1>5, <2>1, FS_Union
  <2>3. k \in Nat
    BY <1>1
  <2> QED
    BY <1>5, <1>8, <1>10, <1>11, <2>1, <2>2, <2>3
<1> QED
  BY <1>1, <1>11, <1>12

(* The bytes of a single item. *)
LEMMA BytesSingle ==
    ASSUME NEW S, NEW s \in Seq(S), Len(s) = 1, Size(s[1].payload) \in Nat
    PROVE  IsFiniteSet(Bytes(s)) /\ Cardinality(Bytes(s)) = Size(s[1].payload)
<1>1. s = Append(<<>>, s[1]) /\ <<>> \in Seq(S)
  OBVIOUS
<1>2. PICK x : x = s[1]
  OBVIOUS
<1>3. IsFiniteSet(Bytes(Append(<<>>, x))) /\ Cardinality(Bytes(Append(<<>>, x))) = 0 + Size(x.payload)
  BY <1>1, <1>2, BytesEmpty, BytesAppend
<1>4. Size(x.payload) \in Nat
  BY <1>2
<1> QED
  BY <1>1, <1>2, <1>3, <1>4

LEMMA InitBatch == Init => BatchInv
BY BytesEmpty DEF Init, SubmitterInit, BatchInv

LEMMA GoneBatch ==
    ASSUME batch' = <<>>, batchSize' = 0, held' = <<>>
    PROVE  BatchInv'
<1>1. Bytes(batch)' = Bytes(<<>>)
  BY DEF Bytes
<1> QED
  BY <1>1, BytesEmpty DEF BatchInv

LEMMA SameBatch ==
    ASSUME BatchInv, UNCHANGED <<batch, batchSize, held>>
    PROVE  BatchInv'
BY DEF BatchInv, Bytes

LEMMA AddItemBatch ==
    ASSUME Sized, SubmitterTypeOK, BatchInv, NEW item \in SubmitItems, AddItem(item)
    PROVE  BatchInv'
<1>1. CASE batchSize + Size(item.payload) <= MaxTxSize /\ batch' = Append(batch, item)
           /\ batchSize' = batchSize + Size(item.payload) /\ held' = held
  <2>1. batch \in Seq(SubmitItems) /\ Size(item.payload) \in Nat
    BY DEF SubmitterTypeOK, SubmitItems, Sized
  <2>2. PICK b : b = Append(batch, item)
    OBVIOUS
  <2>3. IsFiniteSet(Bytes(b)) /\ Cardinality(Bytes(b)) = batchSize + Size(item.payload)
    BY <2>1, <2>2, BytesAppend DEF BatchInv
  <2>4. Bytes(batch)' = Bytes(b)
    BY <1>1, <2>2 DEF Bytes
  <2> QED
    BY <1>1, <2>3, <2>4 DEF BatchInv
<1>2. CASE held' = <<item>> /\ UNCHANGED <<batch, batchSize>>
  BY <1>2 DEF BatchInv, Bytes
<1> QED
  BY <1>1, <1>2 DEF AddItem

LEMMA SingleElement ==
    ASSUME NEW S, NEW s \in Seq(S), s # <<>>, Len(s) <= 1
    PROVE  Len(s) = 1 /\ s[1] \in S
<1>1. PICK m \in Nat : m = Len(s)
  OBVIOUS
<1>2. m # 0
  BY <1>1
<1>3. m = 1
  BY <1>1, <1>2
<1>4. DOMAIN s = 1 .. m
  BY <1>1
<1>5. 1 \in DOMAIN s
  BY <1>3, <1>4
<1> QED
  BY <1>1, <1>3, <1>5

LEMMA ReplyBatch ==
    ASSUME Sized, SubmitterTypeOK, BatchInv, NEW results, Reply(results)
    PROVE  BatchInv'
<1>1. PICK h : h = held
  OBVIOUS
<1>2. /\ h \in Seq(SubmitItems) /\ Len(h) <= 1 /\ batch' = h /\ held' = <<>>
      /\ batchSize' = IF h = <<>> THEN 0 ELSE Size(h[1].payload)
  BY <1>1 DEF SubmitterTypeOK, BatchInv, Reply
<1>3. Bytes(batch)' = Bytes(h)
  BY <1>2 DEF Bytes
<1>4. IsFiniteSet(Bytes(h)) /\ batchSize' = Cardinality(Bytes(h))
  <2>1. CASE h = <<>>
    BY <1>2, <2>1, BytesEmpty
  <2>2. CASE h # <<>>
    <3>1. Len(h) = 1 /\ h[1] \in SubmitItems
      BY <1>2, <2>2, SingleElement
    <3>2. Size(h[1].payload) \in Nat
      BY <3>1 DEF Sized, SubmitItems
    <3> QED
      BY <1>2, <2>2, <3>1, <3>2, BytesSingle
  <2> QED
    BY <2>1, <2>2
<1>5. ~(Len(batch') > 1) /\ Len(held') <= 1
  BY <1>2
<1> QED
  BY <1>3, <1>4, <1>5 DEF BatchInv

LEMMA SubmitterBatch ==
    ASSUME Sized, SubmitterTypeOK, BatchInv, SubmitterSteps
    PROVE  BatchInv'
<1>1. CASE ReceivePriority
  <2>1. Head(priorityQueue) \in SubmitItems /\ AddItem(Head(priorityQueue))
    BY <1>1, RangeTail DEF ReceivePriority, SubmitterTypeOK
  <2> QED
    BY <2>1, AddItemBatch
<1>2. CASE Receive
  <2>1. Head(queue) \in SubmitItems /\ AddItem(Head(queue))
    BY <1>2, RangeTail DEF Receive, SubmitterTypeOK
  <2> QED
    BY <2>1, AddItemBatch
<1>3. CASE BatchTimeout
  BY <1>3, SameBatch DEF BatchTimeout
<1>4. CASE BatchStored
  BY <1>4, ReplyBatch DEF BatchStored
<1>5. CASE BatchRefused
  BY <1>5, ReplyBatch DEF BatchRefused
<1> QED
  BY <1>1, <1>2, <1>3, <1>4, <1>5 DEF SubmitterSteps

LEMMA NextBatch == Sized /\ IInv /\ BatchInv /\ [Next]_vars => BatchInv'
<1> SUFFICES ASSUME Sized, IInv, BatchInv, [Next]_vars PROVE BatchInv'
  OBVIOUS
<1>1. SubmitterTypeOK
  BY DEF IInv, TypeOK
<1>2. CASE \E p \in Paths : FileSteps(p)
  <2>1. UNCHANGED runVars
    BY <1>2 DEF FileSteps, UploadFile, SubmitChunk, AwaitChunk, SubmitManifest, AwaitManifest,
                FileFails, submitterVars
  <2> QED
    BY <2>1, SameBatch DEF runVars
<1>3. CASE RunSteps
  BY <1>1, <1>3, SubmitterBatch DEF RunSteps
<1>4. CASE ProcessEnds
  BY <1>4, GoneBatch DEF ProcessEnds, SubmitterGone
<1>5. CASE \/ AlreadyComplete \/ UploadDirectory \/ ChangeDirectory
           \/ UploadFails \/ DirectoryStored \/ DirectoryRefused \/ DirectoryAnswerLost
           \/ BatchAnswerLost \/ UNCHANGED vars
  <2>1. UNCHANGED runVars
    BY <1>5 DEF AlreadyComplete, UploadDirectory, ChangeDirectory, UploadFails, DirectoryStored,
                DirectoryRefused, DirectoryAnswerLost, BatchAnswerLost, vars, submitterVars
  <2> QED
    BY <2>1, SameBatch DEF runVars
<1> QED
  BY <1>2, <1>3, <1>4, <1>5 DEF Next, MainSteps, Exit, Kill

(* No transaction exceeds MaxTxSize but for a single blob that does by itself, for blobs *)
(* of any sizes: what run adds up in currentBatchSize, over all the batches it starts *)
(* and the items it holds back, is the size of currentBatch. *)
THEOREM BatchTheorem ==
    ASSUME \A blob \in ChunkBlobs \cup FileBlobs : Size(blob) \in Nat
    PROVE  Spec => []BatchFits
<1>1. Sized
  BY DEF Sized
<1>2. BatchInv => BatchFits
  BY DEF BatchInv, BatchFits
<1>3. IInv /\ BatchInv /\ [Next]_vars => BatchInv'
  BY <1>1, NextBatch
<1> QED
  BY <1>2, <1>3, Invariance, InitBatch, PTL DEF Spec
=============================================================================
