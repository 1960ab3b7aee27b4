------------------------------ MODULE Submitter ------------------------------
(***************************************************************************)
(* The Submitter (pkg/sync/submit.go): one goroutine that collects what    *)
(* the uploads of a process hand it into transactions, and answers each    *)
(* item on a channel of its own; with Celestia as CelestiaDA uses it       *)
(* (pkg/celestia/celestia.go, pkg/util/retry.go).                          *)
(*                                                                         *)
(* A blob's commitment is the blob itself.  An answer channel is named by  *)
(* the ticket its caller chose; it has room for the one answer it gets, so *)
(* answering never blocks.  Close is not modelled: nothing calls it, and   *)
(* the goroutine ends with the process.                                    *)
(***************************************************************************)
EXTENDS Integers, Sequences, FiniteSets, Functions

CONSTANTS
    QueueSize,   \* capacity of each queue, 1000 in the code
    MaxTxSize,
    Size(_),     \* the estimated size of a blob
    MaxHeight,   \* bound on Celestia heights that contain blobs of ours
    Failures     \* which happen: "lost" answers, "refused" submissions, "kill"

ASSUME QueueAssumption == QueueSize \in Nat \ {0} /\ MaxTxSize \in Nat
ASSUME HeightAssumption == MaxHeight \in Nat
ASSUME FailuresAssumption == Failures \subseteq {"lost", "refused", "kill"}

VARIABLES
    queue, priorityQueue,
    run,         \* "select", or "storing" while in submitBatch
    batch,       \* currentBatch
    batchSize,   \* currentBatchSize
    held,        \* the item, if any, whose size made run submit the batch
    answers,     \* what was put on the answer channels, by ticket
    height,      \* the last Celestia height with a blob of ours
    published    \* the identifiers of all blobs on Celestia

queueVars == <<queue, priorityQueue>>
runVars == <<run, batch, batchSize, held>>
celestiaVars == <<height, published>>
submitterVars == <<queueVars, runVars, answers, celestiaVars>>

(* The answer of a submission that failed. *)
Error == [height |-> 0]

(* An item on a queue: its payload and its answer channel. *)
Item(ticket, payload) == [ticket |-> ticket, payload |-> payload]

(* NewSubmitter. *)
SubmitterInit ==
    /\ queue = <<>> /\ priorityQueue = <<>>
    /\ run = "select" /\ batch = <<>> /\ batchSize = 0 /\ held = <<>>
    /\ answers = <<>>

(* The process ends; Celestia remains. *)
SubmitterGone ==
    /\ queue' = <<>> /\ priorityQueue' = <<>>
    /\ run' = "select" /\ batch' = <<>> /\ batchSize' = 0 /\ held' = <<>>
    /\ answers' = <<>>
    /\ UNCHANGED celestiaVars

-----------------------------------------------------------------------------
(***************************************************************************)
(* The calls of other goroutines; each blocks while its queue is full.     *)
(***************************************************************************)
(* Mutant of Submit: an unbounded queue. *)
SubmitUnbounded(ticket, payload) ==
    queue' = Append(queue, Item(ticket, payload))

Submit(ticket, payload) ==
    /\ Len(queue) < QueueSize
    /\ queue' = Append(queue, Item(ticket, payload))

SubmitWithPriority(ticket, payload) ==
    /\ Len(priorityQueue) < QueueSize
    /\ priorityQueue' = Append(priorityQueue, Item(ticket, payload))

-----------------------------------------------------------------------------
(* Mutant of AddItem: the batch is extended although it is full. *)
AddItemAlways(item) ==
    /\ batch' = Append(batch, item)
    /\ batchSize' = batchSize + Size(item.payload)
    /\ UNCHANGED <<run, held>>

(* An item joins the batch, or waits until the batch before it is submitted. *)
AddItem(item) ==
    \/ /\ batchSize + Size(item.payload) <= MaxTxSize
       /\ batch' = Append(batch, item)
       /\ batchSize' = batchSize + Size(item.payload)
       /\ UNCHANGED <<run, held>>
    \/ /\ batchSize + Size(item.payload) > MaxTxSize
       /\ run' = "storing" /\ held' = <<item>>
       /\ UNCHANGED <<batch, batchSize>>

(* The cases of run's select, of which Go picks any that is ready. *)
ReceivePriority ==
    /\ run = "select"
    /\ priorityQueue # <<>>
    /\ priorityQueue' = Tail(priorityQueue)
    /\ AddItem(Head(priorityQueue))
    /\ UNCHANGED <<queue, answers, celestiaVars>>

Receive ==
    /\ run = "select"
    /\ queue # <<>>
    /\ queue' = Tail(queue)
    /\ AddItem(Head(queue))
    /\ UNCHANGED <<priorityQueue, answers, celestiaVars>>

(* Mutant of BatchTimeout: the timer is not set while the batch is small. *)
BatchTimeoutFull ==
    /\ run = "select"
    /\ batch # <<>> /\ batchSize >= MaxTxSize
    /\ run' = "storing"
    /\ UNCHANGED <<queueVars, batch, batchSize, held, answers, celestiaVars>>

(* The timer is set exactly when there is a batch: each item resets it. *)
BatchTimeout ==
    /\ run = "select"
    /\ batch # <<>>
    /\ run' = "storing"
    /\ UNCHANGED <<queueVars, batch, batchSize, held, answers, celestiaVars>>

-----------------------------------------------------------------------------
(***************************************************************************)
(* A transaction with these blobs is included, above all that were         *)
(* answered before.  One whose submission has failed may still be included *)
(* later; for the process, which does not read Celestia, that is the same  *)
(* as before the error.                                                    *)
(***************************************************************************)
Include(blobs) ==
    /\ height < MaxHeight
    /\ height' = height + 1
    /\ published' = published \cup {[height |-> height + 1, commitment |-> b] : b \in blobs}

Payloads == {batch[i].payload : i \in DOMAIN batch}

(* The answers with those of the batch added, of which item i gets results[i]. *)
Answered(results) ==
    LET tickets == {batch[i].ticket : i \in DOMAIN batch} IN
    [t \in DOMAIN answers \cup tickets |->
        IF t \in tickets THEN results[CHOOSE i \in DOMAIN batch : batch[i].ticket = t]
        ELSE answers[t]]

(* Mutant of Reply: the held item is dropped with the batch before it. *)
ReplyDropsHeld(results) ==
    /\ answers' = Answered(results)
    /\ batch' = <<>> /\ batchSize' = 0
    /\ held' = <<>> /\ run' = "select"

(* submitBatch answers every item of the batch, and the held item starts the next. *)
Reply(results) ==
    /\ answers' = Answered(results)
    /\ batch' = held
    /\ batchSize' = IF held = <<>> THEN 0 ELSE Size(held[1].payload)
    /\ held' = <<>> /\ run' = "select"

(* Mutant of BatchStored: all items get the first blob's commitment. *)
BatchStoredFirst ==
    /\ run = "storing" /\ batch # <<>>
    /\ Include(Payloads)
    /\ Reply([i \in DOMAIN batch |-> [height |-> height + 1, commitment |-> batch[1].payload]])
    /\ UNCHANGED queueVars

(* StoreBatch: all blobs of the transaction are at the height Celestia answers. *)
BatchStored ==
    /\ run = "storing" /\ batch # <<>>
    /\ Include(Payloads)
    /\ Reply([i \in DOMAIN batch |-> [height |-> height + 1, commitment |-> batch[i].payload]])
    /\ UNCHANGED queueVars

(* The transaction is included, but a network error is returned: Retry submits again. *)
BatchAnswerLost ==
    /\ "lost" \in Failures
    /\ run = "storing" /\ batch # <<>>
    /\ Include(Payloads)
    /\ UNCHANGED <<queueVars, runVars, answers>>

(* StoreBatch fails: at once if the batch is empty, else when the error is not one to *)
(* retry, or after 30 seconds. *)
BatchRefused ==
    /\ run = "storing"
    /\ batch = <<>> \/ "refused" \in Failures
    /\ Reply([i \in DOMAIN batch |-> Error])
    /\ UNCHANGED <<queueVars, celestiaVars>>

SubmitterSteps == ReceivePriority \/ Receive \/ BatchTimeout \/ BatchStored \/ BatchRefused
=============================================================================
