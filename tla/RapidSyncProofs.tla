--------------------------- MODULE RapidSyncProofs ---------------------------
(***************************************************************************)
(* The copy loses no block and reports success only if it is complete, for *)
(* any number of workers, batch size, length of the chain and combination  *)
(* of failures.                                                            *)
(***************************************************************************)
EXTENDS RapidSync, FiniteSetTheorems, TLAPS

USE WorkersAssumption, BatchAssumption, HeightAssumption, NonEmptyAssumption

(* What a channel holds after a send. *)
LEMMA RangeAppend ==
    ASSUME NEW S, NEW s \in Seq(S), NEW x \in S
    PROVE  Range(Append(s, x)) = Range(s) \cup {x}
<1>1. DOMAIN s = 1 .. Len(s) /\ DOMAIN Append(s, x) = 1 .. Len(s) + 1 /\ Len(s) \in Nat
  OBVIOUS
<1>2. \A i \in 1 .. Len(s) : Append(s, x)[i] = s[i]
  OBVIOUS
<1>3. Append(s, x)[Len(s) + 1] = x
  OBVIOUS
<1>. QED  BY <1>1, <1>2, <1>3 DEF Range

(* What a channel held is its head or still in it after a receive. *)
LEMMA RangeTail ==
    ASSUME NEW S, NEW s \in Seq(S), s # <<>>
    PROVE  /\ Head(s) \in Range(s)
           /\ Head(s) \in S
           /\ Tail(s) \in Seq(S)
           /\ Len(Tail(s)) = Len(s) - 1
           /\ Range(s) = {Head(s)} \cup Range(Tail(s))
<1>1. /\ Len(s) \in Nat \ {0} /\ DOMAIN s = 1 .. Len(s)
      /\ Head(s) = s[1] /\ Tail(s) \in Seq(S) /\ Len(Tail(s)) = Len(s) - 1
  OBVIOUS
<1>2. DOMAIN Tail(s) = 1 .. Len(s) - 1 /\ \A i \in 1 .. Len(s) - 1 : Tail(s)[i] = s[i + 1]
  OBVIOUS
<1>3. \A i \in 1 .. Len(s) : i = 1 \/ (i - 1 \in 1 .. Len(s) - 1 /\ s[i] = Tail(s)[i - 1])
  BY <1>1, <1>2
<1>4. \A i \in 1 .. Len(s) - 1 : i + 1 \in 1 .. Len(s)
  BY <1>1
<1>5. ASSUME NEW v \in Range(s) PROVE v = Head(s) \/ v \in Range(Tail(s))
  <2>1. PICK i \in 1 .. Len(s) : v = s[i]
    BY <1>1 DEF Range
  <2>2. CASE i = 1
    BY <1>1, <2>1, <2>2
  <2>3. CASE i - 1 \in 1 .. Len(s) - 1 /\ s[i] = Tail(s)[i - 1]
    BY <1>2, <2>1, <2>3 DEF Range
  <2>. QED  BY <1>3, <2>2, <2>3
<1>6. ASSUME NEW v \in Range(Tail(s)) PROVE v \in Range(s)
  BY <1>1, <1>2, <1>4, <1>6 DEF Range
<1>7. Head(s) \in Range(s)
  BY <1>1 DEF Range
<1>. QED  BY <1>1, <1>5, <1>6, <1>7

(* A worker that changes what it holds lets go of nothing else. *)
LEMMA RangeWorker ==
    ASSUME NEW f \in [Workers -> Int], NEW w \in Workers, NEW v \in Int
    PROVE  /\ Range(f) \subseteq {f[w]} \cup Range([f EXCEPT ![w] = v])
           /\ v \in Range([f EXCEPT ![w] = v])
BY DEF Range

LEMMA CapacityType == Capacity \in Nat
BY FS_CardinalityType DEF Capacity

(* The state of the goroutines before they run and after the process ended. *)
LEMMA EmptyTypes ==
    /\ <<>> \in Seq(Heights) /\ <<>> \in Seq([height : Heights, ok : BOOLEAN])
    /\ Len(<<>>) <= Capacity
    /\ {} \in SUBSET Heights
    /\ [w \in Workers |-> Idle] \in [Workers -> Heights \cup {Idle, Exited}]
    /\ [w \in Workers |-> Exited] \in [Workers -> Heights \cup {Idle, Exited}]
    /\ 0 \in Heights /\ 0 \in 0 .. MaxHeight + 1
<1>1. <<>> \in Seq(Heights) /\ <<>> \in Seq([height : Heights, ok : BOOLEAN])
  OBVIOUS
<1>2. Len(<<>>) <= Capacity
  BY CapacityType
<1>3. /\ [w \in Workers |-> Idle] \in [Workers -> Heights \cup {Idle, Exited}]
      /\ [w \in Workers |-> Exited] \in [Workers -> Heights \cup {Idle, Exited}]
  OBVIOUS
<1>4. 0 \in Heights /\ 0 \in 0 .. MaxHeight + 1
  BY DEF Heights
<1>. QED  BY <1>1, <1>2, <1>3, <1>4

-----------------------------------------------------------------------------
LEMMA InitInv == Init => IInv
<1>. SUFFICES ASSUME Init PROVE IInv
  OBVIOUS
<1>. USE DEF Init, NoGoroutines
<1>1. TypeOK
  BY EmptyTypes DEF TypeOK
<1>2. NoLoss /\ StreamInv /\ WorkerInv /\ CommitterInv /\ OutcomeInv
  BY DEF NoLoss, StreamInv, WorkerInv, CommitterInv, OutcomeInv, Running
<1>. QED  BY <1>1, <1>2 DEF IInv

(* The steps that touch no channel, worker or batch. *)
LEMMA QuietStep ==
    ASSUME IInv, RemoteBlock \/ UpToDate \/ SyncChainFromGrpc \/ Exit \/ Kill \/ UNCHANGED vars
    PROVE  IInv'
<1>. USE DEF IInv
<1>1. CASE RemoteBlock
  <2>. USE <1>1 DEF RemoteBlock, storeVars, spanVars, receiverVars, resultVars, committerVars
  <2>1. TypeOK'
    BY DEF TypeOK, Heights
  <2>2. NoLoss'
    BY DEF NoLoss, InFlight, Running
  <2>3. (StreamInv /\ WorkerInv /\ CommitterInv /\ OutcomeInv)'
    BY DEF StreamInv, WorkerInv, CommitterInv, OutcomeInv, Running
  <2>. QED  BY <2>1, <2>2, <2>3
<1>2. CASE UpToDate
  <2>. USE <1>2 DEF UpToDate, remoteVars, storeVars, spanVars, receiverVars, resultVars, committerVars
  <2>1. TypeOK'
    BY DEF TypeOK
  <2>2. ~Running'
    BY DEF Running
  <2>3. (StreamInv /\ WorkerInv /\ CommitterInv /\ OutcomeInv /\ NoLoss)'
    BY <2>2 DEF NoLoss, StreamInv, WorkerInv, CommitterInv, OutcomeInv
  <2>. QED  BY <2>1, <2>3
<1>3. CASE SyncChainFromGrpc
  <2>. USE <1>3 DEF SyncChainFromGrpc, remoteVars, storeVars
  <2>1. finalizedHeight \in Nat /\ remoteHeight \in Heights /\ ResumeHeight \in Heights
        /\ ResumeHeight < remoteHeight
    BY DEF TypeOK, ResumeHeight, Heights
  <2>2. ResumeHeight \in 0 .. MaxHeight + 1
    BY <2>1 DEF Heights
  <2>2a. TypeOK'
    BY <2>1, <2>2, EmptyTypes DEF TypeOK
  <2>3. startHeight' .. nextHeight' - 1 = {}
    BY <2>1 DEF Heights
  <2>4. NoLoss'
    BY <2>3 DEF NoLoss
  <2>5. (StreamInv /\ WorkerInv /\ CommitterInv /\ OutcomeInv)'
    BY <2>1 DEF StreamInv, WorkerInv, CommitterInv, OutcomeInv, Heights, Idle, Exited
  <2>. QED  BY <2>2a, <2>4, <2>5
<1>4. CASE Exit \/ Kill
  <2>. USE <1>4 DEF Exit, Kill, ProcessEnds, remoteVars, storeVars
  <2>1. TypeOK'
    BY EmptyTypes DEF TypeOK
  <2>2. ~Running'
    BY DEF Running
  <2>3. (StreamInv /\ WorkerInv /\ CommitterInv /\ OutcomeInv /\ NoLoss)'
    BY <2>2 DEF NoLoss, StreamInv, WorkerInv, CommitterInv, OutcomeInv
  <2>. QED  BY <2>1, <2>3
<1>5. CASE UNCHANGED vars
  <2>. USE <1>5 DEF vars, remoteVars, storeVars, spanVars, receiverVars, resultVars, committerVars
  <2>1. TypeOK'
    BY DEF TypeOK
  <2>2. NoLoss'
    BY DEF NoLoss, InFlight, Running
  <2>3. (StreamInv /\ WorkerInv /\ CommitterInv /\ OutcomeInv)'
    BY DEF StreamInv, WorkerInv, CommitterInv, OutcomeInv, Running
  <2>. QED  BY <2>1, <2>2, <2>3
<1>. QED  BY <1>1, <1>2, <1>3, <1>4, <1>5

-----------------------------------------------------------------------------
(* The receiver puts the next height on jobs, and only there. *)
LEMMA StreamStep ==
    ASSUME IInv, StreamBlocks \/ StreamEnds \/ StreamFails
    PROVE  IInv'
<1>. USE DEF IInv, remoteVars, storeVars, spanVars, resultVars, committerVars
<1>1. CASE StreamBlocks
  <2>. USE <1>1 DEF StreamBlocks
  <2>1. nextHeight \in Heights /\ nextHeight + 1 \in 0 .. MaxHeight + 1
        /\ startHeight \in Int /\ endHeight \in Int
    BY DEF TypeOK, Heights
  <2>2. jobs \in Seq(Heights) /\ Range(jobs') = Range(jobs) \cup {nextHeight}
    BY <2>1, RangeAppend DEF TypeOK
  <2>3. jobs' \in Seq(Heights) /\ Len(jobs') <= Capacity
    BY <2>1, <2>2, CapacityType
  <2>4. TypeOK'
    BY <2>1, <2>3 DEF TypeOK
  <2>5. startHeight .. nextHeight' - 1 \subseteq (startHeight .. nextHeight - 1) \cup {nextHeight}
    BY <2>1 DEF Heights
  <2>6. NoLoss'
    BY <2>2, <2>5 DEF NoLoss, InFlight, Running
  <2>7. (StreamInv /\ CommitterInv /\ OutcomeInv)'
    BY <2>1 DEF StreamInv, CommitterInv, OutcomeInv, Running, Heights
  <2>8. WorkerInv'
    BY DEF StreamInv, WorkerInv, Running
  <2>. QED  BY <2>4, <2>6, <2>7, <2>8
<1>2. CASE StreamEnds
  <2>. USE <1>2 DEF StreamEnds
  <2>1. TypeOK' /\ NoLoss'
    BY DEF TypeOK, NoLoss, InFlight, Running, StreamInv
  <2>2. (StreamInv /\ WorkerInv /\ CommitterInv /\ OutcomeInv)'
    BY DEF StreamInv, WorkerInv, CommitterInv, OutcomeInv, Running
  <2>. QED  BY <2>1, <2>2
<1>3. CASE StreamFails
  <2>. USE <1>3 DEF StreamFails
  <2>1. TypeOK' /\ NoLoss'
    BY DEF TypeOK, NoLoss, InFlight, Running, StreamInv
  <2>2. (StreamInv /\ WorkerInv /\ CommitterInv /\ OutcomeInv)'
    BY DEF StreamInv, WorkerInv, CommitterInv, OutcomeInv, Running
  <2>. QED  BY <2>1, <2>2
<1>. QED  BY <1>1, <1>2, <1>3

(* A worker moves one height from jobs to its hands and from there to results. *)
LEMMA WorkerStep ==
    ASSUME IInv, NEW w \in Workers,
           TakeJob(w) \/ (\E ok \in BOOLEAN : SendResult(w, ok)) \/ WorkerExits(w)
    PROVE  IInv'
<1>. USE DEF IInv, remoteVars, storeVars, spanVars, receiverVars, resultVars, committerVars
<1>0. worker \in [Workers -> Int] /\ worker \in [Workers -> Heights \cup {Idle, Exited}]
  BY DEF TypeOK, Heights, Idle, Exited
<1>1. CASE TakeJob(w)
  <2>. USE <1>1 DEF TakeJob
  <2>1. /\ jobs \in Seq(Heights) /\ Head(jobs) \in Heights /\ Tail(jobs) \in Seq(Heights)
        /\ Len(Tail(jobs)) = Len(jobs) - 1 /\ Len(jobs) \in Nat
        /\ Range(jobs) = {Head(jobs)} \cup Range(jobs')
    BY RangeTail DEF TypeOK
  <2>2. worker' \in [Workers -> Heights \cup {Idle, Exited}] /\ Head(jobs) \in Int
    BY <1>0, <2>1 DEF Heights
  <2>3. TypeOK'
    BY <2>1, <2>2, CapacityType DEF TypeOK
  <2>4. Range(worker) \subseteq {Idle} \cup Range(worker') /\ Head(jobs) \in Range(worker')
    BY <1>0, <2>2, RangeWorker
  <2>5. Idle \notin startHeight .. nextHeight - 1
    BY DEF TypeOK, Heights, Idle
  <2>6. NoLoss'
    <3>1. InFlight \subseteq {Idle} \cup InFlight'
      BY <2>1, <2>4 DEF InFlight
    <3>. QED  BY <2>5, <3>1 DEF NoLoss, Running
  <2>7. (StreamInv /\ CommitterInv /\ OutcomeInv)'
    BY DEF StreamInv, CommitterInv, OutcomeInv, Running
  <2>8. WorkerInv'
    <3>1. \A v \in Workers : worker[v] # Exited
      BY DEF WorkerInv
    <3>2. ~resultsClosed
      BY <3>1 DEF WorkerInv
    <3>3. Head(jobs) # Exited
      BY <2>1 DEF Heights, Exited
    <3>4. \A v \in Workers : worker'[v] # Exited
      BY <1>0, <3>1, <3>3
    <3>. QED  BY <3>2, <3>4 DEF WorkerInv
  <2>. QED  BY <2>3, <2>6, <2>7, <2>8
<1>2. ASSUME NEW ok \in BOOLEAN, SendResult(w, ok) PROVE IInv'
  <2>. USE <1>2 DEF SendResult
  <2>. DEFINE Result == [height : Heights, ok : BOOLEAN]
              r == [height |-> worker[w], ok |-> ok]
  <2>1. r \in Result /\ results \in Seq(Result) /\ results' = Append(results, r)
    BY DEF TypeOK
  <2>2. results' \in Seq(Result) /\ Len(results') <= Capacity
        /\ Range(results') = Range(results) \cup {r}
    <3>. HIDE DEF Result, r
    <3>. QED  BY <2>1, CapacityType, RangeAppend
  <2>3. worker' \in [Workers -> Heights \cup {Idle, Exited}] /\ Idle \in Int
    BY <1>0 DEF Idle
  <2>4. TypeOK'
    BY <2>2, <2>3 DEF TypeOK
  <2>5. Range(worker) \subseteq {worker[w]} \cup Range(worker')
    BY <1>0, <2>3, RangeWorker
  <2>6. r.height = worker[w] /\ r \in Range(results')
    BY <2>2
  <2>7. {q.height : q \in Range(results)} \cup {worker[w]}
          \subseteq {q.height : q \in Range(results')}
    <3>. HIDE DEF r
    <3>. QED  BY <2>2, <2>6
  <2>8. NoLoss'
    <3>. HIDE DEF r
    <3>. QED  BY <2>5, <2>7 DEF NoLoss, InFlight, Running
  <2>9. (StreamInv /\ OutcomeInv)'
    BY DEF StreamInv, OutcomeInv, Running
  <2>10. worker[w] # Exited /\ ~resultsClosed
    BY DEF WorkerInv, Exited, Heights
  <2>11. WorkerInv'
    BY <1>0, <2>10 DEF WorkerInv, Running, Idle, Exited
  <2>12. CommitterInv'
    BY <2>10 DEF CommitterInv, Running
  <2>. QED  BY <2>4, <2>8, <2>9, <2>11, <2>12
<1>3. CASE WorkerExits(w)
  <2>. USE <1>3 DEF WorkerExits
  <2>1. worker' \in [Workers -> Heights \cup {Idle, Exited}] /\ Exited \in Int
    BY <1>0 DEF Exited
  <2>2. TypeOK'
    BY <2>1 DEF TypeOK
  <2>3. Range(worker) \subseteq {Idle} \cup Range(worker')
    BY <1>0, <2>1, RangeWorker
  <2>4. Idle \notin startHeight .. nextHeight - 1
    BY DEF TypeOK, Heights, Idle
  <2>5. NoLoss'
    <3>1. InFlight \subseteq {Idle} \cup InFlight'
      BY <2>3 DEF InFlight
    <3>. QED  BY <2>4, <3>1 DEF NoLoss, Running
  <2>6. (StreamInv /\ CommitterInv /\ OutcomeInv)'
    BY DEF StreamInv, CommitterInv, OutcomeInv, Running
  <2>7. WorkerInv'
    BY <1>0 DEF WorkerInv, Running, Idle, Exited
  <2>. QED  BY <2>2, <2>5, <2>6, <2>7
<1>. QED  BY <1>1, <1>2, <1>3

(* The committer moves a height from results to the batch and from there to the store. *)
LEMMA CommitterStep ==
    ASSUME IInv, Collect \/ CommitBatch \/ CommitFails \/ CommitterEnds
    PROVE  IInv'
<1>. USE DEF IInv, remoteVars, storeVars, spanVars, receiverVars, resultVars, committerVars
<1>1. CASE Collect
  <2>. USE <1>1 DEF Collect
  <2>. DEFINE Result == [height : Heights, ok : BOOLEAN]
  <2>1. /\ Head(results) \in Result /\ results' \in Seq(Result)
        /\ Len(results') = Len(results) - 1 /\ Len(results) \in Nat
        /\ Range(results) = {Head(results)} \cup Range(results')
    <3>1. results \in Seq(Result)
      BY DEF TypeOK
    <3>. HIDE DEF Result
    <3>. QED  BY <3>1, RangeTail
  <2>2. Head(results).height \in Heights
    BY <2>1
  <2>3. TypeOK'
    BY <2>1, <2>2, CapacityType DEF TypeOK
  <2>4. committer' # "failed" => Head(results).height \in batch' /\ batch \subseteq batch'
    OBVIOUS
  <2>5. {q.height : q \in Range(results)}
          = {Head(results).height} \cup {q.height : q \in Range(results')}
    BY <2>1
  <2>6. NoLoss'
    BY <2>4, <2>5 DEF NoLoss, InFlight, Running
  <2>7. (StreamInv /\ OutcomeInv /\ WorkerInv /\ CommitterInv)'
    BY DEF StreamInv, OutcomeInv, WorkerInv, CommitterInv, Running
  <2>. QED  BY <2>3, <2>6, <2>7
<1>2. CASE CommitBatch
  <2>. USE <1>2 DEF CommitBatch, BatchDue
  <2>1. batch \subseteq Heights /\ finalizedHeight' \in batch
    BY DEF TypeOK
  <2>2. TypeOK'
    BY <2>1 DEF TypeOK
  <2>3. NoLoss'
    BY DEF NoLoss, InFlight, Running
  <2>4. (StreamInv /\ OutcomeInv /\ WorkerInv /\ CommitterInv)'
    BY DEF StreamInv, OutcomeInv, WorkerInv, CommitterInv, Running
  <2>. QED  BY <2>2, <2>3, <2>4
<1>3. CASE CommitFails
  <2>. USE <1>3 DEF CommitFails, BatchDue
  <2>1. TypeOK' /\ NoLoss'
    BY DEF TypeOK, NoLoss
  <2>2. (StreamInv /\ OutcomeInv /\ WorkerInv /\ CommitterInv)'
    BY DEF StreamInv, OutcomeInv, WorkerInv, CommitterInv, Running
  <2>. QED  BY <2>1, <2>2
<1>4. CASE CommitterEnds
  <2>. USE <1>4 DEF CommitterEnds
  <2>1. TypeOK' /\ NoLoss'
    BY DEF TypeOK, NoLoss, InFlight, Running
  <2>2. (StreamInv /\ OutcomeInv /\ WorkerInv /\ CommitterInv)'
    BY DEF StreamInv, OutcomeInv, WorkerInv, CommitterInv, Running
  <2>. QED  BY <2>1, <2>2
<1>. QED  BY <1>1, <1>2, <1>3, <1>4

(* The command's own waits. *)
LEMMA MainStep ==
    ASSUME IInv, CloseResults \/ Return
    PROVE  IInv'
<1>. USE DEF IInv, remoteVars, storeVars, spanVars, receiverVars, resultVars, committerVars
<1>1. CASE CloseResults
  <2>. USE <1>1 DEF CloseResults
  <2>1. TypeOK' /\ NoLoss'
    BY DEF TypeOK, NoLoss, InFlight, Running, StreamInv
  <2>2. (StreamInv /\ OutcomeInv /\ WorkerInv /\ CommitterInv)'
    BY DEF StreamInv, OutcomeInv, WorkerInv, CommitterInv, Running
  <2>. QED  BY <2>1, <2>2
<1>2. CASE Return
  <2>. USE <1>2 DEF Return
  <2>1. TypeOK' /\ NoLoss'
    BY DEF TypeOK, NoLoss, InFlight, Running, StreamInv
  <2>2. (StreamInv /\ OutcomeInv /\ WorkerInv /\ CommitterInv)'
    BY DEF StreamInv, OutcomeInv, WorkerInv, CommitterInv, Running, TypeOK
  <2>. QED  BY <2>1, <2>2
<1>. QED  BY <1>1, <1>2

-----------------------------------------------------------------------------
LEMMA NextInv == IInv /\ [Next]_vars => IInv'
<1>. SUFFICES ASSUME IInv, [Next]_vars PROVE IInv'
  OBVIOUS
<1>1. CASE RemoteBlock \/ Command \/ Exit \/ Kill \/ UNCHANGED vars
  BY <1>1, QuietStep DEF Command
<1>2. CASE StreamBlocks \/ StreamEnds \/ StreamFails
  BY <1>2, StreamStep
<1>3. ASSUME NEW w \in Workers, TakeJob(w) \/ SendResult(w, TRUE) \/ SendResult(w, FALSE)
                               \/ WorkerExits(w)
      PROVE  IInv'
  BY <1>3, WorkerStep
<1>4. CASE Collect \/ CommitBatch \/ CommitFails \/ CommitterEnds
  BY <1>4, CommitterStep
<1>5. CASE CloseResults \/ Return
  BY <1>5, MainStep
<1>. QED  BY <1>1, <1>2, <1>3, <1>4, <1>5 DEF Next, Goroutines

LEMMA Invariance == Spec => []IInv
BY InitInv, NextInv, PTL DEF Spec

(* At the end of a successful copy nothing is in flight, so what NoLoss accounts for *)
(* is in the store. *)
LEMMA CompleteFromInv == IInv => CompleteOnSuccess
<1>. SUFFICES ASSUME IInv, outcome = "ok" PROVE startHeight .. endHeight \subseteq stored
  BY DEF CompleteOnSuccess
<1>1. Running /\ committer = "done" /\ nextHeight = endHeight + 1
  BY DEF IInv, OutcomeInv, Running
<1>2. results = <<>> /\ batch = {} /\ \A w \in Workers : worker[w] = Exited
  BY <1>1 DEF IInv, CommitterInv, WorkerInv
<1>3. jobs = <<>>
  BY <1>1, <1>2 DEF IInv, WorkerInv
<1>4. InFlight \subseteq {Exited}
  BY <1>2, <1>3 DEF InFlight, Range, IInv, TypeOK
<1>5. startHeight .. nextHeight - 1 = startHeight .. endHeight
      /\ Exited \notin startHeight .. endHeight
  BY <1>1 DEF IInv, TypeOK, Heights, Exited
<1>6. startHeight .. endHeight \subseteq InFlight \cup stored
  BY <1>1, <1>5 DEF IInv, NoLoss
<1>. QED  BY <1>4, <1>5, <1>6

(* The type invariant of the copy: in particular neither channel ever holds more than *)
(* its capacity and the finalized height is always one of the remote's. *)
THEOREM TypeCorrect == Spec => []TypeOK
<1>1. IInv => TypeOK
  BY DEF IInv
<1>. QED  BY <1>1, Invariance, PTL

(* No goroutine of syncWithStream drops a block, whatever fails (property NoLoss). *)
THEOREM NoLossTheorem == Spec => []NoLoss
<1>1. IInv => NoLoss
  BY DEF IInv
<1>. QED  BY <1>1, Invariance, PTL

(* A nil error of SyncChainFromGrpc means that every height it asked for is stored *)
(* (property CompleteOnSuccess). *)
THEOREM CompleteTheorem == Spec => []CompleteOnSuccess
BY CompleteFromInv, Invariance, PTL

-----------------------------------------------------------------------------
LEMMA InitState == Init => StateInv
BY DEF Init, NoGoroutines, StateInv, SnapshotInv, IdleInv, CopyInv, Running

(* The steps that leave the store, the finalized height and the copy's span alone. *)
LEMMA StoreKept ==
    ASSUME StateInv, UNCHANGED storeVars
    PROVE  SnapshotInv' /\ \A h : NoHoles(h)' = NoHoles(h)
BY DEF StateInv, SnapshotInv, NoHoles, storeVars

(* A copy begins after the finalized height, below which nothing is missing, and with *)
(* empty hands. *)
LEMMA StartState == IInv /\ StateInv /\ SyncChainFromGrpc => StateInv'
<1>. SUFFICES ASSUME IInv, StateInv, SyncChainFromGrpc PROVE StateInv'
  OBVIOUS
<1>. USE DEF SyncChainFromGrpc
<1>1. SnapshotInv' /\ Running' /\ ~Running
  BY StoreKept DEF Running
<1>2. /\ finalizedHeight \in Nat /\ remoteHeight \in Nat
      /\ finalizedHeight' = finalizedHeight /\ stored' = stored
  BY DEF IInv, TypeOK, Heights, storeVars
<1>3. finalizedHeight <= endHeight'
  BY <1>2 DEF ResumeHeight
<1>4. ~disturbed => 0 .. startHeight' - 1 \subseteq stored
  BY <1>1, <1>2 DEF ResumeHeight, StateInv, IdleInv, NoHoles
<1>5. InFlight' \subseteq {Idle} /\ Range(results') = {}
  BY DEF InFlight, Range
<1>6. \A h \in InFlight' : h <= endHeight'
  BY <1>2, <1>5 DEF Idle
<1>. QED  BY <1>1, <1>2, <1>3, <1>4, <1>5, <1>6 DEF StateInv, IdleInv, CopyInv, NoHoles

(* An undisturbed copy ends when all it asked for is stored. *)
LEMMA ExitState == IInv /\ StateInv /\ (Exit \/ Kill \/ UpToDate) => StateInv'
<1>. SUFFICES ASSUME IInv, StateInv, Exit \/ Kill \/ UpToDate PROVE StateInv'
  OBVIOUS
<1>1. SnapshotInv' /\ ~Running' /\ UNCHANGED storeVars
  BY StoreKept DEF Exit, Kill, UpToDate, ProcessEnds, Running
<1>2. CASE UpToDate
  BY <1>1, <1>2 DEF UpToDate, StateInv, IdleInv, CopyInv, NoHoles, Running, storeVars
<1>3. CASE Kill
  BY <1>1, <1>3 DEF Kill, StateInv, IdleInv, CopyInv
<1>4. CASE Exit /\ ~Running
  BY <1>1, <1>4 DEF Exit, StateInv, IdleInv, CopyInv, NoHoles, storeVars
<1>5. CASE Exit /\ Running /\ ~disturbed
  <2>1. outcome = "ok" /\ finalizedHeight <= endHeight /\ NoHoles(startHeight - 1)
    BY <1>5 DEF Exit, StateInv, CopyInv
  <2>2. startHeight .. endHeight \subseteq stored
    BY <2>1, CompleteFromInv DEF CompleteOnSuccess
  <2>3. 0 .. finalizedHeight \subseteq stored
    BY <2>1, <2>2 DEF NoHoles, IInv, TypeOK, Heights
  <2>. QED  BY <1>1, <2>3 DEF StateInv, IdleInv, CopyInv, NoHoles, storeVars
<1>6. CASE Exit /\ disturbed
  BY <1>1, <1>6 DEF Exit, StateInv, IdleInv, CopyInv
<1>. QED  BY <1>2, <1>3, <1>4, <1>5, <1>6

(* The hand-overs between goroutines, none of which touches the store. *)
LEMMA HandOverState ==
    ASSUME IInv, StateInv, Running, Running',
           UNCHANGED <<storeVars, spanVars>>,
           ~disturbed' => ~disturbed,
           ~disturbed' => \A h \in InFlight' : h <= endHeight,
           ~disturbed' => \A r \in Range(results') : r.ok,
           ~disturbed' => committer' # "failed",
           ~disturbed' /\ main' = "returned" => outcome' = "ok"
    PROVE  StateInv'
BY StoreKept DEF StateInv, IdleInv, CopyInv, NoHoles, storeVars, spanVars

LEMMA StreamState ==
    IInv /\ StateInv /\ (StreamBlocks \/ StreamEnds \/ StreamFails) => StateInv'
<1>. SUFFICES ASSUME IInv, StateInv, StreamBlocks \/ StreamEnds \/ StreamFails
              PROVE  StateInv'
  OBVIOUS
<1>. USE DEF remoteVars, resultVars, committerVars
<1>0. Running
  BY DEF StreamBlocks, StreamEnds, StreamFails, IInv, StreamInv, Running
<1>1. CASE StreamBlocks
  <2>. USE <1>1 DEF StreamBlocks
  <2>1. nextHeight \in Heights /\ jobs \in Seq(Heights)
    BY DEF IInv, TypeOK, Heights
  <2>2. Range(jobs') = Range(jobs) \cup {nextHeight}
    BY <2>1, RangeAppend
  <2>3. InFlight' = InFlight \cup {nextHeight}
    BY <2>2 DEF InFlight
  <2>4. Running' /\ main' # "returned"
    BY <1>0 DEF Running
  <2>. QED  BY <1>0, <2>3, <2>4, HandOverState DEF StateInv, CopyInv
<1>2. CASE StreamEnds
  <2>1. Running' /\ InFlight' = InFlight /\ main' # "returned"
    BY <1>0, <1>2 DEF StreamEnds, InFlight, Running
  <2>. QED  BY <1>0, <1>2, <2>1, HandOverState DEF StreamEnds, StateInv, CopyInv
<1>3. CASE StreamFails
  <2>1. Running' /\ InFlight' = InFlight
    BY <1>0, <1>3 DEF StreamFails, InFlight, Running
  <2>. QED  BY <1>0, <1>3, <2>1, HandOverState DEF StreamFails, StateInv, CopyInv
<1>. QED  BY <1>1, <1>2, <1>3

LEMMA WorkerState ==
    ASSUME IInv, StateInv, NEW w \in Workers,
           TakeJob(w) \/ (\E ok \in BOOLEAN : SendResult(w, ok)) \/ WorkerExits(w)
    PROVE  StateInv'
<1>. USE DEF remoteVars, receiverVars, resultVars, committerVars
<1>0. /\ worker \in [Workers -> Int] /\ endHeight \in Nat
      /\ Idle \in Int /\ Idle <= endHeight /\ Exited \in Int /\ Exited <= endHeight
  BY DEF IInv, TypeOK, Heights, Idle, Exited
<1>1. ASSUME NEW v PROVE Range([worker EXCEPT ![w] = v]) \subseteq Range(worker) \cup {v}
  BY <1>0 DEF Range
<1>2. CASE TakeJob(w)
  <2>. USE <1>2 DEF TakeJob
  <2>1. Range(jobs) = {Head(jobs)} \cup Range(jobs')
    BY RangeTail DEF IInv, TypeOK
  <2>2. InFlight' \subseteq InFlight
    BY <1>1, <2>1 DEF InFlight
  <2>3. Running /\ Running'
    BY DEF Running
  <2>. QED  BY <2>2, <2>3, HandOverState DEF StateInv, CopyInv
<1>3. ASSUME NEW ok \in BOOLEAN, SendResult(w, ok) PROVE StateInv'
  <2>. USE <1>3 DEF SendResult
  <2>. DEFINE Result == [height : Heights, ok : BOOLEAN]
              r == [height |-> worker[w], ok |-> ok]
  <2>1. r \in Result /\ results \in Seq(Result) /\ results' = Append(results, r)
    BY DEF IInv, TypeOK
  <2>2. Range(results') = Range(results) \cup {r}
    <3>. HIDE DEF Result, r
    <3>. QED  BY <2>1, RangeAppend
  <2>3. worker[w] \in Range(worker)
    BY <1>0 DEF Range
  <2>4. InFlight' \subseteq InFlight \cup {Idle}
    <3>1. r.height = worker[w]
      OBVIOUS
    <3>. HIDE DEF r
    <3>2. {q.height : q \in Range(results')} \subseteq
            {q.height : q \in Range(results)} \cup {worker[w]}
      BY <2>2, <3>1
    <3>. QED  BY <1>1, <2>3, <3>2 DEF InFlight
  <2>5. ~disturbed' => ~disturbed /\ \A q \in Range(results') : q.ok
    <3>1. r.ok = ok
      OBVIOUS
    <3>2. ~disturbed' => ~disturbed /\ ok
      BY DEF IInv, TypeOK
    <3>3. Running
      OBVIOUS
    <3>. HIDE DEF r
    <3>. QED  BY <2>2, <3>1, <3>2, <3>3 DEF StateInv, CopyInv
  <2>6. Running /\ Running'
    BY DEF Running
  <2>7. ~disturbed' => \A h \in InFlight' : h <= endHeight
    BY <1>0, <2>4, <2>5, <2>6 DEF StateInv, CopyInv
  <2>. HIDE DEF r
  <2>. QED  BY <2>5, <2>6, <2>7, HandOverState DEF StateInv, CopyInv
<1>4. CASE WorkerExits(w)
  <2>. USE <1>4 DEF WorkerExits
  <2>1. InFlight' \subseteq InFlight \cup {Exited}
    BY <1>1 DEF InFlight
  <2>2. Running /\ Running'
    BY DEF Running
  <2>. QED  BY <1>0, <2>1, <2>2, HandOverState DEF StateInv, CopyInv
<1>. QED  BY <1>2, <1>3, <1>4

LEMMA CommitterState ==
    IInv /\ StateInv /\ (Collect \/ CommitBatch \/ CommitFails \/ CommitterEnds) => StateInv'
<1>. SUFFICES ASSUME IInv, StateInv, Collect \/ CommitBatch \/ CommitFails \/ CommitterEnds
              PROVE  StateInv'
  OBVIOUS
<1>. USE DEF remoteVars, receiverVars, resultVars, committerVars, BatchDue
<1>0. Running
  BY DEF Collect, CommitBatch, CommitFails, CommitterEnds
<1>1. CASE Collect
  <2>. USE <1>1 DEF Collect
  <2>. DEFINE Result == [height : Heights, ok : BOOLEAN]
  <2>1. Range(results) = {Head(results)} \cup Range(results')
    <3>1. results \in Seq(Result)
      BY DEF IInv, TypeOK
    <3>. HIDE DEF Result
    <3>. QED  BY <3>1, RangeTail
  <2>2. InFlight' \subseteq InFlight
    BY <2>1 DEF InFlight
  <2>3. ~disturbed => committer' # "failed"
    BY <1>0, <2>1 DEF StateInv, CopyInv
  <2>4. Running'
    BY <1>0 DEF Running
  <2>. QED  BY <1>0, <2>1, <2>2, <2>3, <2>4, HandOverState DEF StateInv, CopyInv
<1>2. CASE CommitBatch
  <2>. USE <1>2 DEF CommitBatch
  <2>1. SnapshotInv'
    BY DEF StateInv, SnapshotInv
  <2>2. finalizedHeight' \in batch /\ stored \subseteq stored'
    OBVIOUS
  <2>3. InFlight' \subseteq InFlight /\ batch \subseteq InFlight
    BY DEF InFlight
  <2>4. Running'
    BY <1>0 DEF Running
  <2>. QED  BY <1>0, <2>1, <2>2, <2>3, <2>4 DEF StateInv, IdleInv, CopyInv, NoHoles, spanVars
<1>3. CASE CommitFails
  <2>1. Running'
    BY <1>0, <1>3 DEF CommitFails, Running
  <2>. QED  BY <1>0, <1>3, <2>1, HandOverState DEF CommitFails
<1>4. CASE CommitterEnds
  <2>1. Running' /\ InFlight' = InFlight
    BY <1>0, <1>4 DEF CommitterEnds, Running, InFlight
  <2>. QED  BY <1>0, <1>4, <2>1, HandOverState DEF CommitterEnds, StateInv, CopyInv
<1>. QED  BY <1>1, <1>2, <1>3, <1>4

LEMMA MainState == IInv /\ StateInv /\ (CloseResults \/ Return) => StateInv'
<1>. SUFFICES ASSUME IInv, StateInv, CloseResults \/ Return PROVE StateInv'
  OBVIOUS
<1>. USE DEF remoteVars, receiverVars, committerVars, resultVars
<1>0. Running
  BY DEF CloseResults, Return, Running, IInv, StreamInv
<1>1. CASE CloseResults
  <2>1. Running' /\ InFlight' = InFlight /\ main' # "returned"
    BY <1>0, <1>1 DEF CloseResults, Running, InFlight
  <2>. QED  BY <1>0, <1>1, <2>1, HandOverState DEF CloseResults, StateInv, CopyInv
<1>2. CASE Return
  <2>1. Running' /\ InFlight' = InFlight
    BY <1>0, <1>2 DEF Return, Running, InFlight
  <2>2. ~disturbed => committer = "done" /\ outcome' = "ok"
    BY <1>0, <1>2 DEF Return, StateInv, CopyInv, IInv, TypeOK
  <2>. QED  BY <1>0, <1>2, <2>1, <2>2, HandOverState DEF Return, StateInv, CopyInv
<1>. QED  BY <1>1, <1>2

LEMMA NextState == IInv /\ StateInv /\ [Next]_vars => StateInv'
<1>. SUFFICES ASSUME IInv, StateInv, [Next]_vars PROVE StateInv'
  OBVIOUS
<1>1. CASE RemoteBlock \/ UNCHANGED vars
  BY <1>1 DEF RemoteBlock, vars, remoteVars, storeVars, spanVars, receiverVars, resultVars,
              committerVars, StateInv, SnapshotInv, IdleInv, CopyInv, NoHoles, InFlight, Running
<1>2. CASE SyncChainFromGrpc
  BY <1>2, StartState
<1>3. CASE Exit \/ Kill \/ UpToDate
  BY <1>3, ExitState
<1>4. CASE StreamBlocks \/ StreamEnds \/ StreamFails
  BY <1>4, StreamState
<1>5. ASSUME NEW w \in Workers, TakeJob(w) \/ SendResult(w, TRUE) \/ SendResult(w, FALSE)
                               \/ WorkerExits(w)
      PROVE  StateInv'
  BY <1>5, WorkerState
<1>6. CASE Collect \/ CommitBatch \/ CommitFails \/ CommitterEnds
  BY <1>6, CommitterState
<1>7. CASE CloseResults \/ Return
  BY <1>7, MainState
<1>. QED  BY <1>1, <1>2, <1>3, <1>4, <1>5, <1>6, <1>7 DEF Next, Command, Goroutines

(* Without holes below the finalized height, the snapshots up to it are the remote's. *)
LEMMA StateFromInv == IInv /\ StateInv => SameState
<1>. SUFFICES ASSUME IInv, StateInv, main = "down", ~disturbed, finalizedHeight > 0
              PROVE  /\ 0 .. finalizedHeight \subseteq stored
                     /\ LatestSnapshot(snapshots, finalizedHeight)
                          = LatestSnapshot(NonEmpty, finalizedHeight)
  BY DEF SameState, Usable
<1>1. 0 .. finalizedHeight \subseteq stored
  BY DEF StateInv, IdleInv, NoHoles, Running
<1>2. {g \in snapshots : g <= finalizedHeight} = {g \in NonEmpty : g <= finalizedHeight}
  <2>1. finalizedHeight \in Nat /\ \A g \in NonEmpty : g \in Nat
    BY DEF IInv, TypeOK, Heights
  <2>2. \A g \in NonEmpty : g <= finalizedHeight => g \in stored
    BY <1>1, <2>1
  <2>. QED  BY <2>2 DEF StateInv, SnapshotInv
<1>. QED  BY <1>1, <1>2 DEF LatestSnapshot

(* A node started on an undisturbed copy finds every block up to its finalized height and *)
(* extends the snapshot the remote would extend, although batches are committed out of *)
(* order and the finalized height may go back (property SameState). *)
THEOREM SameStateTheorem == Spec => []SameState
<1>1. Spec => []StateInv
  BY InitState, NextState, Invariance, PTL DEF Spec
<1>. QED  BY <1>1, StateFromInv, Invariance, PTL
=============================================================================
