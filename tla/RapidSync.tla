------------------------------ MODULE RapidSync ------------------------------
(***************************************************************************)
(* `blobcast node sync' (pkg/sync/grpc.go): a node copies the chain of a   *)
(* trusted remote through the goroutines of syncWithStream.                *)
(*                                                                         *)
(*    receiver --jobs--> workers --results--> committer --> chain state    *)
(*                                                                         *)
(* A block is named by its height: the remote's blocks are those of        *)
(* BlobcastChain, which never change once finalized, and are copied with   *)
(* all they list.  What depends on the order of arrival is which heights   *)
(* are stored, which of them have an MMR snapshot, and the height recorded *)
(* as finalized.  No server runs, so publishNewHeader has no subscriber.   *)
(***************************************************************************)
EXTENDS Integers, Sequences, FiniteSets, Functions

CONSTANTS
    Workers,     \* the worker pool; both channels have this capacity
    BatchSize,   \* blocks per transaction, 1000 in the code
    MaxHeight,   \* bound on the remote's finalized height
    NonEmpty,    \* the heights whose block records something
    Failures     \* which failures happen: "kill", "stream", "block", "store"

ASSUME WorkersAssumption == IsFiniteSet(Workers) /\ Workers # {}
ASSUME BatchAssumption == BatchSize \in Nat \ {0}
ASSUME HeightAssumption == MaxHeight \in Nat \ {0}
ASSUME NonEmptyAssumption == NonEmpty \subseteq 1 .. MaxHeight
ASSUME FailuresAssumption == Failures \subseteq {"kill", "stream", "block", "store"}

Heights == 0 .. MaxHeight

(* The capacity of blockJobs and of results. *)
Capacity == Cardinality(Workers)

(* A worker between two jobs, and one that has returned. *)
Idle == -1
Exited == -2

VARIABLES
    remoteHeight,    \* the remote's finalized height
    \* the local chain state
    stored,          \* heights with a block
    snapshots,       \* heights with an MMR snapshot
    finalizedHeight,
    \* the process
    main,            \* where the command is
    outcome,         \* what SyncChainFromGrpc returned
    startHeight, endHeight,
    nextHeight,      \* the next height StreamBlocks sends
    jobs, jobsClosed,
    worker,          \* the height each worker holds
    results, resultsClosed,
    batch,           \* processedBlocks: heights not yet committed
    committer,       \* batchCommitter
    disturbed        \* history: some failure has happened, in any process so far

remoteVars == remoteHeight
storeVars == <<stored, snapshots, finalizedHeight>>
spanVars == <<startHeight, endHeight>>
receiverVars == <<nextHeight, jobs, jobsClosed>>
resultVars == <<results, resultsClosed>>
committerVars == <<batch, committer>>
vars == <<remoteVars, storeVars, main, outcome, spanVars, receiverVars, worker,
          resultVars, committerVars, disturbed>>

(* The goroutines exist from the start of syncWithStream until the process ends, *)
(* also after the command has returned an error. *)
Running == main \in {"awaitStream", "awaitWorkers", "awaitCommit", "returned"}
           /\ outcome # "upToDate"

TypeOK ==
    /\ remoteHeight \in Heights
    /\ stored \in SUBSET Heights
    /\ snapshots \in SUBSET Heights
    /\ finalizedHeight \in Heights
    /\ main \in {"down", "awaitStream", "awaitWorkers", "awaitCommit", "returned"}
    /\ outcome \in {"none", "upToDate", "ok", "error"}
    /\ startHeight \in Heights /\ endHeight \in Heights
    /\ nextHeight \in 0 .. MaxHeight + 1
    /\ jobs \in Seq(Heights) /\ Len(jobs) <= Capacity
    /\ jobsClosed \in BOOLEAN /\ resultsClosed \in BOOLEAN
    /\ worker \in [Workers -> Heights \cup {Idle, Exited}]
    /\ results \in Seq([height : Heights, ok : BOOLEAN]) /\ Len(results) <= Capacity
    /\ batch \in SUBSET Heights
    /\ committer \in {"collect", "done", "failed"}
    /\ disturbed \in BOOLEAN

(***************************************************************************)
(* An empty chain state; the remote has finalized some height already.     *)
(***************************************************************************)
NoGoroutines ==
    /\ outcome = "none"
    /\ startHeight = 0 /\ endHeight = 0 /\ nextHeight = 0
    /\ jobs = <<>> /\ jobsClosed = FALSE
    /\ worker = [w \in Workers |-> Exited]
    /\ results = <<>> /\ resultsClosed = FALSE
    /\ batch = {} /\ committer = "done"

Init ==
    /\ remoteHeight \in Heights
    /\ stored = {} /\ snapshots = {} /\ finalizedHeight = 0
    /\ main = "down"
    /\ NoGoroutines
    /\ disturbed = FALSE

(* The remote finalizes another block. *)
RemoteBlock ==
    /\ remoteHeight < MaxHeight
    /\ remoteHeight' = remoteHeight + 1
    /\ UNCHANGED <<storeVars, main, outcome, spanVars, receiverVars, worker,
                   resultVars, committerVars, disturbed>>

-----------------------------------------------------------------------------
(* Mutant of ResumeHeight: a fresh node starts at block 1. *)
ResumeHeightNext == finalizedHeight + 1

(* Where the copy goes on: after the finalized height, or at genesis. *)
ResumeHeight == IF finalizedHeight > 0 THEN finalizedHeight + 1 ELSE 0

(* "chain is up to date": also when the remote is exactly one block ahead. *)
UpToDate ==
    /\ main = "down"
    /\ ResumeHeight >= remoteHeight
    /\ main' = "returned" /\ outcome' = "upToDate"
    /\ UNCHANGED <<remoteVars, storeVars, spanVars, receiverVars, worker,
                   resultVars, committerVars, disturbed>>

(* SyncChainFromGrpc reads both heights and syncWithStream starts its goroutines. *)
SyncChainFromGrpc ==
    /\ main = "down"
    /\ ResumeHeight < remoteHeight
    /\ main' = "awaitStream" /\ outcome' = "none"
    /\ startHeight' = ResumeHeight /\ endHeight' = remoteHeight
    /\ nextHeight' = ResumeHeight
    /\ jobs' = <<>> /\ jobsClosed' = FALSE
    /\ worker' = [w \in Workers |-> Idle]
    /\ results' = <<>> /\ resultsClosed' = FALSE
    /\ batch' = {} /\ committer' = "collect"
    /\ UNCHANGED <<remoteVars, storeVars, disturbed>>

(* Mutant of StreamBlocks: an unbounded job queue. *)
StreamBlocksUnbounded ==
    /\ main = "awaitStream" /\ ~jobsClosed
    /\ nextHeight <= endHeight
    /\ jobs' = Append(jobs, nextHeight)
    /\ nextHeight' = nextHeight + 1
    /\ UNCHANGED <<remoteVars, storeVars, main, outcome, spanVars, jobsClosed,
                   worker, resultVars, committerVars, disturbed>>

(***************************************************************************)
(* The receiver.  StreamBlocks sends the heights in order; a block it has  *)
(* sent is received when there is room in blockJobs.  Its end, or its      *)
(* error, closes blockJobs.                                                *)
(***************************************************************************)
StreamBlocks ==
    /\ main = "awaitStream" /\ ~jobsClosed
    /\ nextHeight <= endHeight
    /\ Len(jobs) < Capacity
    /\ jobs' = Append(jobs, nextHeight)
    /\ nextHeight' = nextHeight + 1
    /\ UNCHANGED <<remoteVars, storeVars, main, outcome, spanVars, jobsClosed,
                   worker, resultVars, committerVars, disturbed>>

(* io.EOF: streamDone gets nil and the command goes on to wait for the workers. *)
StreamEnds ==
    /\ main = "awaitStream" /\ ~jobsClosed
    /\ nextHeight = endHeight + 1
    /\ jobsClosed' = TRUE
    /\ main' = "awaitWorkers"
    /\ UNCHANGED <<remoteVars, storeVars, outcome, spanVars, nextHeight, jobs,
                   worker, resultVars, committerVars, disturbed>>

(* The command returns at once and leaves results open: the other goroutines run *)
(* on until the process exits. *)
StreamFails ==
    /\ "stream" \in Failures
    /\ main = "awaitStream" /\ ~jobsClosed
    /\ jobsClosed' = TRUE
    /\ main' = "returned" /\ outcome' = "error"
    /\ disturbed' = TRUE
    /\ UNCHANGED <<remoteVars, storeVars, spanVars, nextHeight, jobs, worker,
                   resultVars, committerVars>>

-----------------------------------------------------------------------------
(* blockWorker takes the next job ... *)
TakeJob(w) ==
    /\ Running
    /\ worker[w] = Idle
    /\ jobs # <<>>
    /\ worker' = [worker EXCEPT ![w] = Head(jobs)]
    /\ jobs' = Tail(jobs)
    /\ UNCHANGED <<remoteVars, storeVars, main, outcome, spanVars, nextHeight,
                   jobsClosed, resultVars, committerVars, disturbed>>

(* ... and hands over what processStreamedBlock made of it, an error if the *)
(* response does not have as many chunks or manifests as its block lists. *)
SendResult(w, ok) ==
    /\ Running
    /\ worker[w] \in Heights
    /\ ok \/ "block" \in Failures
    /\ Len(results) < Capacity
    /\ results' = Append(results, [height |-> worker[w], ok |-> ok])
    /\ worker' = [worker EXCEPT ![w] = Idle]
    /\ disturbed' = (disturbed \/ ~ok)
    /\ UNCHANGED <<remoteVars, storeVars, main, outcome, spanVars, receiverVars,
                   resultsClosed, committerVars>>

WorkerExits(w) ==
    /\ Running
    /\ worker[w] = Idle
    /\ jobs = <<>> /\ jobsClosed
    /\ worker' = [worker EXCEPT ![w] = Exited]
    /\ UNCHANGED <<remoteVars, storeVars, main, outcome, spanVars, receiverVars,
                   resultVars, committerVars, disturbed>>

(* wg.Wait and close(results). *)
CloseResults ==
    /\ main = "awaitWorkers"
    /\ \A w \in Workers : worker[w] = Exited
    /\ resultsClosed' = TRUE
    /\ main' = "awaitCommit"
    /\ UNCHANGED <<remoteVars, storeVars, outcome, spanVars, receiverVars, worker,
                   results, committerVars, disturbed>>

-----------------------------------------------------------------------------
(* Mutant of Collect: a failed result is skipped and the loop goes on. *)
CollectSkipsErrors ==
    /\ Running /\ committer = "collect"
    /\ Cardinality(batch) < BatchSize
    /\ results # <<>>
    /\ results' = Tail(results)
    /\ batch' = batch \cup {r.height : r \in {q \in {Head(results)} : q.ok}}
    /\ UNCHANGED <<remoteVars, storeVars, main, outcome, spanVars, receiverVars,
                   worker, resultsClosed, committer, disturbed>>

(* batchCommitter adds a result to the open batch, or returns its error. *)
Collect ==
    /\ Running /\ committer = "collect"
    /\ Cardinality(batch) < BatchSize
    /\ results # <<>>
    /\ results' = Tail(results)
    /\ \/ /\ Head(results).ok
          /\ batch' = batch \cup {Head(results).height}
          /\ UNCHANGED committer
       \/ /\ ~Head(results).ok
          /\ committer' = "failed"
          /\ UNCHANGED batch
    /\ UNCHANGED <<remoteVars, storeVars, main, outcome, spanVars, receiverVars,
                   worker, resultsClosed, disturbed>>

(* A batch is due when it is full, and at the end of the results. *)
BatchDue ==
    /\ Running /\ committer = "collect"
    /\ batch # {}
    /\ Cardinality(batch) >= BatchSize \/ (results = <<>> /\ resultsClosed)

(* commitBatch: one transaction for the blocks, the snapshots the remote had at *)
(* exactly these heights, and the greatest of them as the finalized height. *)
CommitBatch ==
    /\ BatchDue
    /\ stored' = stored \cup batch
    /\ snapshots' = snapshots \cup (batch \cap NonEmpty)
    /\ \E h \in batch : (\A g \in batch : g <= h) /\ finalizedHeight' = h
    /\ batch' = {}
    /\ UNCHANGED <<remoteVars, main, outcome, spanVars, receiverVars, worker,
                   resultVars, committer, disturbed>>

(* The transaction is aborted and nobody reads results any more. *)
CommitFails ==
    /\ "store" \in Failures
    /\ BatchDue
    /\ committer' = "failed"
    /\ disturbed' = TRUE
    /\ UNCHANGED <<remoteVars, storeVars, main, outcome, spanVars, receiverVars,
                   worker, resultVars, batch>>

(* Mutants of CommitterEnds: the last partial batch is forgotten; the loop spins *)
(* on the closed channel. *)
CommitterForgets ==
    /\ Running /\ committer = "collect"
    /\ results = <<>> /\ resultsClosed
    /\ committer' = "done"
    /\ UNCHANGED <<remoteVars, storeVars, main, outcome, spanVars, receiverVars,
                   worker, resultVars, batch, disturbed>>

CommitterSpins ==
    /\ Running /\ committer = "collect"
    /\ results = <<>> /\ resultsClosed /\ batch = {}
    /\ UNCHANGED vars

(* The results are drained and closed: batchCommitter returns nil. *)
CommitterEnds ==
    /\ Running /\ committer = "collect"
    /\ results = <<>> /\ resultsClosed /\ batch = {}
    /\ committer' = "done"
    /\ UNCHANGED <<remoteVars, storeVars, main, outcome, spanVars, receiverVars,
                   worker, resultVars, batch, disturbed>>

(* <-commitDone *)
Return ==
    /\ main = "awaitCommit"
    /\ committer # "collect"
    /\ main' = "returned"
    /\ outcome' = IF committer = "done" THEN "ok" ELSE "error"
    /\ UNCHANGED <<remoteVars, storeVars, spanVars, receiverVars, worker, resultVars,
                   committerVars, disturbed>>

-----------------------------------------------------------------------------
(* The process ends, at the end of the command or killed: only the store remains. *)
ProcessEnds ==
    /\ main' = "down" /\ outcome' = "none"
    /\ startHeight' = 0 /\ endHeight' = 0 /\ nextHeight' = 0
    /\ jobs' = <<>> /\ jobsClosed' = FALSE
    /\ worker' = [w \in Workers |-> Exited]
    /\ results' = <<>> /\ resultsClosed' = FALSE
    /\ batch' = {} /\ committer' = "done"
    /\ UNCHANGED <<remoteVars, storeVars>>

Exit == main = "returned" /\ ProcessEnds /\ UNCHANGED disturbed

Kill == "kill" \in Failures /\ main # "down" /\ ProcessEnds /\ disturbed' = TRUE

Command == SyncChainFromGrpc \/ UpToDate

Goroutines ==
    \/ StreamBlocks \/ StreamEnds \/ CloseResults \/ Return \/ Exit
    \/ Collect \/ CommitBatch \/ CommitterEnds
    \/ \E w \in Workers : TakeJob(w) \/ SendResult(w, TRUE) \/ WorkerExits(w)

Next ==
    \/ RemoteBlock
    \/ Command
    \/ Goroutines
    \/ \E w \in Workers : SendResult(w, FALSE)
    \/ StreamFails \/ CommitFails \/ Kill

Spec == Init /\ [][Next]_vars

(* Go's scheduler runs every goroutine that can go on; the remote answers. *)
FairSpec ==
    /\ Spec
    /\ WF_vars(StreamBlocks \/ StreamEnds)
    /\ WF_vars(CloseResults \/ Return \/ Exit)
    /\ WF_vars(Collect \/ CommitBatch \/ CommitterEnds)
    /\ \A w \in Workers : WF_vars(TakeJob(w) \/ SendResult(w, TRUE) \/ WorkerExits(w))

-----------------------------------------------------------------------------
(***************************************************************************)
(* Properties.                                                             *)
(***************************************************************************)

(* The heights in the hands of some goroutine. *)
InFlight ==
    Range(jobs) \cup Range(worker) \cup {r.height : r \in Range(results)} \cup batch

(* No block is dropped between the stream and the store: until the committer *)
(* gives up, every height received is held by a channel, a worker or the open *)
(* batch, or is stored (the hand-overs of syncWithStream, blockWorker and *)
(* batchCommitter). *)
NoLoss ==
    Running /\ committer # "failed" =>
        startHeight .. nextHeight - 1 \subseteq InFlight \cup stored

(* If the command reports success after streaming, every height it asked for is *)
(* stored, the last partial batch included (lines 125-135 and 264-270 of grpc.go). *)
CompleteOnSuccess ==
    outcome = "ok" => startHeight .. endHeight \subseteq stored

(* GetStateMMR's choice: the latest snapshot at or before a height, 0 if none. *)
LatestSnapshot(S, h) ==
    LET upTo == {0} \cup {g \in S : g <= h}
    IN  CHOOSE g \in upTo : \A k \in upTo : k <= g

(* The blocks up to the finalized height are there, and GetStateMMR finds the snapshot *)
(* the remote would find: a node started on the copy extends the same MMR. *)
Usable ==
    finalizedHeight > 0 =>
        /\ 0 .. finalizedHeight \subseteq stored
        /\ LatestSnapshot(snapshots, finalizedHeight) = LatestSnapshot(NonEmpty, finalizedHeight)

(* As long as nothing failed, the store is usable whenever no copy is running, although *)
(* commitBatch stores blocks out of order and may set the finalized height back. *)
SameState == main = "down" /\ ~disturbed => Usable

(* "Every node derives the same state": the store is usable whenever no copy is *)
(* running, also after commitBatch stored a batch and the process was killed. *)
SameStateAlways == main = "down" => Usable

(* As long as nothing fails, the command returns: the waits of syncWithStream end and *)
(* no goroutine blocks another. *)
SyncReturns == main = "awaitStream" ~> (main = "returned" \/ disturbed)

(* "Wait for all processing to finish": the command returns, with an error if the *)
(* committer met one. *)
SyncAlwaysReturns == main = "awaitStream" ~> main = "returned"

-----------------------------------------------------------------------------
(***************************************************************************)
(* The inductive invariant behind NoLoss and CompleteOnSuccess: what each  *)
(* wait of syncWithStream has established about the goroutines before it.  *)
(***************************************************************************)

(* While the stream is read the channels' far ends are open; an error may end it early. *)
StreamInv ==
    /\ Running => startHeight <= nextHeight /\ nextHeight <= endHeight + 1
    /\ main = "awaitStream" => outcome = "none" /\ ~resultsClosed
    /\ main \in {"awaitWorkers", "awaitCommit"} =>
         outcome = "none" /\ jobsClosed /\ nextHeight = endHeight + 1
    /\ main = "awaitWorkers" => ~resultsClosed

(* A worker returns only when there will be no more jobs, and results is closed only *)
(* when all have returned. *)
WorkerInv ==
    Running =>
      /\ (\E w \in Workers : worker[w] = Exited) => jobsClosed /\ jobs = <<>>
      /\ resultsClosed => \A w \in Workers : worker[w] = Exited

(* The committer ends well only after committing all that was ever on results. *)
CommitterInv ==
    Running /\ committer = "done" => resultsClosed /\ results = <<>> /\ batch = {}

(* A success is reported only after all three. *)
OutcomeInv ==
    /\ outcome = "ok" => main = "returned" /\ committer = "done"
                        /\ nextHeight = endHeight + 1
    /\ main = "down" => outcome = "none"
    /\ main = "awaitCommit" => resultsClosed

IInv ==
    /\ TypeOK /\ NoLoss
    /\ StreamInv /\ WorkerInv /\ CommitterInv /\ OutcomeInv

(***************************************************************************)
(* What SameState needs besides: as long as nothing failed, a copy began   *)
(* on a store without holes, handles no height above the one it asked for, *)
(* and no goroutine has met an error, so that it returns only when it is   *)
(* complete.                                                               *)
(***************************************************************************)
NoHoles(h) == 0 .. h \subseteq stored

SnapshotInv == snapshots = stored \cap NonEmpty

IdleInv == ~disturbed /\ ~Running /\ finalizedHeight > 0 => NoHoles(finalizedHeight)

CopyInv ==
    ~disturbed /\ Running =>
      /\ NoHoles(startHeight - 1)
      /\ finalizedHeight <= endHeight
      /\ \A h \in InFlight : h <= endHeight
      /\ \A r \in Range(results) : r.ok
      /\ committer # "failed"
      /\ main = "returned" => outcome = "ok"

StateInv == SnapshotInv /\ IdleInv /\ CopyInv
=============================================================================
