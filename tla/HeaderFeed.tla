------------------------------ MODULE HeaderFeed ------------------------------
(***************************************************************************)
(* How finalized headers reach their subscribers.  After each commit       *)
(* SyncChain calls publishNewHeader, which puts the header on one bounded  *)
(* channel per subscription; the gRPC handler SubscribeToHeaders sends a   *)
(* client the history it asked for and then what its channel delivers; an  *)
(* indexer indexes each block it is told of and subscribes again after any *)
(* error.  A header is named by its height.                                *)
(*                                                                         *)
(* The chain itself is BlobcastChain, of which only the finalized height   *)
(* matters here: the blocks up to it are stored (FinalizedPrefix there).   *)
(* Indexing one block is a single step; its parts are in Indexer.          *)
(***************************************************************************)
EXTENDS Integers, Sequences, FiniteSets

CONSTANTS
    Clients,     \* the indexers
    Streams,     \* bound on the gRPC streams open at a time
    Buffer,      \* capacity of a subscription's channel, 100 in the code
    Window,      \* messages gRPC's flow control lets through unread
    MaxHeight,   \* bound on the finalized height
    MaxLosses,   \* bound on lost connections and restarts of indexers
    Failures     \* which others happen: "node", "kill", "index"

ASSUME BufferAssumption == Buffer \in Nat \ {0} /\ Window \in Nat \ {0}
ASSUME BoundAssumption == MaxHeight \in Nat /\ MaxLosses \in Nat
ASSUME FailuresAssumption == Failures \subseteq {"node", "kill", "index"}

(* A client without a stream. *)
None == "none"

Heights == 1 .. MaxHeight

VARIABLES
    node,            \* where the node's SyncChain goroutine is
    finalizedHeight,
    subscribers,     \* bc.subscribers: the streams whose channel is registered
    snapshot,        \* publishNewHeader: channels still to be sent to
    slow,            \* slowSubscribers
    stream,          \* the gRPC streams, with their channel and their handler
    client,          \* the stream each indexer reads and its lastIndexed
    indexed,         \* the blocks in each indexer's database
    losses           \* how many connections and indexers were lost so far

publisherVars == <<node, finalizedHeight, snapshot, slow>>
clientVars == <<client, indexed, losses>>
vars == <<publisherVars, subscribers, stream, clientVars>>

(* A stream nobody has opened. *)
NewStream == [state |-> "none", owner |-> None, next |-> 0, upTo |-> 0,
              ch |-> <<>>, closed |-> FALSE, wire |-> <<>>, cancelled |-> FALSE]

(* What a stream may hold; the headers in it are of finalized blocks. *)
StreamType ==
    [state : {"none", "subscribed", "history", "live"}, owner : Clients \cup {None},
     next : Nat, upTo : 0 .. finalizedHeight, ch : Seq(1 .. finalizedHeight),
     closed : BOOLEAN, wire : Seq(1 .. finalizedHeight), cancelled : BOOLEAN]

TypeOK ==
    /\ node \in {"down", "sync", "committed", "publish", "stopping"}
    /\ finalizedHeight \in 0 .. MaxHeight
    /\ subscribers \in SUBSET Streams
    /\ snapshot \in SUBSET Streams /\ slow \in SUBSET Streams
    /\ stream \in [Streams -> StreamType]
    /\ \A s \in Streams : Len(stream[s].ch) <= Buffer /\ Len(stream[s].wire) <= Window
    /\ client \in [Clients -> [stream : Streams \cup {None}, lastIndexed : 0 .. MaxHeight]]
    /\ indexed \in [Clients -> SUBSET Heights]
    /\ losses \in 0 .. MaxLosses

Init ==
    /\ node = "down"
    /\ finalizedHeight = 0
    /\ subscribers = {} /\ snapshot = {} /\ slow = {}
    /\ stream = [s \in Streams |-> NewStream]
    /\ client = [c \in Clients |-> [stream |-> None, lastIndexed |-> 0]]
    /\ indexed = [c \in Clients |-> {}]
    /\ losses = 0

-----------------------------------------------------------------------------
(***************************************************************************)
(* The node.                                                               *)
(***************************************************************************)
StartNode ==
    /\ node = "down"
    /\ node' = "sync"
    /\ subscribers' = {} /\ snapshot' = {} /\ slow' = {}
    /\ UNCHANGED <<finalizedHeight, stream, clientVars>>

(* A block is committed; from here on history includes it. *)
Commit ==
    /\ node = "sync"
    /\ finalizedHeight < MaxHeight
    /\ finalizedHeight' = finalizedHeight + 1
    /\ node' = "committed"
    /\ UNCHANGED <<snapshot, slow, subscribers, stream, clientVars>>

(* publishNewHeader copies the subscriber map under the read lock ... *)
TakeSnapshot ==
    /\ node = "committed"
    /\ node' = "publish"
    /\ snapshot' = subscribers /\ slow' = {}
    /\ UNCHANGED <<finalizedHeight, subscribers, stream, clientVars>>

(* Mutant of Send: an unbounded channel. *)
SendUnbounded(s) ==
    /\ node = "publish" /\ s \in snapshot
    /\ stream' = [stream EXCEPT ![s].ch = Append(@, finalizedHeight)]
    /\ snapshot' = snapshot \ {s}
    /\ UNCHANGED <<node, finalizedHeight, slow, subscribers, clientVars>>

(* ... and sends to each channel in turn, in no particular order.  A send on a *)
(* channel that was closed meanwhile panics, and the panic is recovered. *)
Send(s) ==
    /\ node = "publish" /\ s \in snapshot
    /\ \/ /\ ~stream[s].closed /\ Len(stream[s].ch) < Buffer
          /\ stream' = [stream EXCEPT ![s].ch = Append(@, finalizedHeight)]
       \/ /\ stream[s].closed
          /\ UNCHANGED stream
    /\ snapshot' = snapshot \ {s}
    /\ UNCHANGED <<node, finalizedHeight, slow, subscribers, clientVars>>

(* Mutant of SendTimeout: a plain blocking send. *)
SendBlocks(s) ==
    /\ node = "publish" /\ s \in snapshot
    /\ ~stream[s].closed /\ Len(stream[s].ch) = Buffer
    /\ UNCHANGED vars

(* Five seconds pass and the channel is still full. *)
SendTimeout(s) ==
    /\ node = "publish" /\ s \in snapshot
    /\ ~stream[s].closed /\ Len(stream[s].ch) = Buffer
    /\ snapshot' = snapshot \ {s}
    /\ slow' = slow \cup {s}
    /\ UNCHANGED <<node, finalizedHeight, subscribers, stream, clientVars>>

(* Mutants of DisconnectSlow: the header is dropped and the subscriber kept; the *)
(* channel is closed but stays registered. *)
DropForSlow ==
    /\ node = "publish" /\ snapshot = {}
    /\ slow' = {}
    /\ node' = "sync"
    /\ UNCHANGED <<finalizedHeight, snapshot, subscribers, stream, clientVars>>

CloseSlowRegistered ==
    /\ node = "publish" /\ snapshot = {}
    /\ stream' = [s \in Streams |-> IF s \in slow \cap subscribers
                                    THEN [stream[s] EXCEPT !.closed = TRUE]
                                    ELSE stream[s]]
    /\ slow' = {}
    /\ node' = "sync"
    /\ UNCHANGED <<finalizedHeight, snapshot, subscribers, clientVars>>

(* The slow subscribers that are still registered are disconnected, under the lock. *)
DisconnectSlow ==
    /\ node = "publish" /\ snapshot = {}
    /\ stream' = [s \in Streams |-> IF s \in slow \cap subscribers
                                    THEN [stream[s] EXCEPT !.closed = TRUE]
                                    ELSE stream[s]]
    /\ subscribers' = subscribers \ slow
    /\ slow' = {}
    /\ node' = "sync"
    /\ UNCHANGED <<finalizedHeight, snapshot, clientVars>>

(* SyncChain returns an error: GracefulStop refuses new calls and waits for the *)
(* handlers of the open ones. *)
SyncChainFails ==
    /\ "node" \in Failures
    /\ node = "sync"
    /\ node' = "stopping"
    /\ UNCHANGED <<finalizedHeight, snapshot, slow, subscribers, stream, clientVars>>

GracefulStop ==
    /\ node = "stopping"
    /\ \A s \in Streams : stream[s].state = "none"
    /\ node' = "down"
    /\ UNCHANGED <<finalizedHeight, snapshot, slow, subscribers, stream, clientVars>>

(* The node is killed: its handlers are gone, what is on the wire may arrive. *)
Kill ==
    /\ "kill" \in Failures
    /\ node # "down"
    /\ node' = "down"
    /\ subscribers' = {} /\ snapshot' = {} /\ slow' = {}
    /\ stream' = [s \in Streams |-> [stream[s] EXCEPT !.state = "none", !.ch = <<>>]]
    /\ UNCHANGED <<finalizedHeight, clientVars>>

-----------------------------------------------------------------------------
(***************************************************************************)
(* SubscribeToHeaders, one handler per stream.                             *)
(***************************************************************************)

(* The finalized height is read after the channel was registered. *)
ReadFinalizedHeight(s) ==
    /\ stream[s].state = "subscribed"
    /\ stream' = [stream EXCEPT ![s].state = "history", ![s].upTo = finalizedHeight]
    /\ UNCHANGED <<publisherVars, subscribers, clientVars>>

SendHistory(s) ==
    /\ stream[s].state = "history" /\ ~stream[s].cancelled
    /\ stream[s].next <= stream[s].upTo
    /\ Len(stream[s].wire) < Window
    /\ stream' = [stream EXCEPT ![s].wire = Append(@, stream[s].next), ![s].next = @ + 1]
    /\ UNCHANGED <<publisherVars, subscribers, clientVars>>

GoLive(s) ==
    /\ stream[s].state = "history"
    /\ stream[s].next > stream[s].upTo
    /\ stream' = [stream EXCEPT ![s].state = "live"]
    /\ UNCHANGED <<publisherVars, subscribers, clientVars>>

SendLive(s) ==
    /\ stream[s].state = "live" /\ ~stream[s].cancelled
    /\ stream[s].ch # <<>>
    /\ Len(stream[s].wire) < Window
    /\ stream' = [stream EXCEPT ![s].wire = Append(@, Head(stream[s].ch)),
                                ![s].ch = Tail(@)]
    /\ UNCHANGED <<publisherVars, subscribers, clientVars>>

(* The deferred Unsubscribe of a handler that returns: it closes the channel unless *)
(* the publisher has done so. *)
Unsubscribe(s) ==
    /\ stream' = [stream EXCEPT ![s].state = "none", ![s].ch = <<>>,
                                ![s].closed = @ \/ s \in subscribers]
    /\ subscribers' = subscribers \ {s}
    /\ UNCHANGED <<publisherVars, clientVars>>

(* Mutant of HandlerReturns: a closed channel is not noticed. *)
HandlerIgnoresClose(s) ==
    /\ stream[s].state \in {"history", "live"} /\ stream[s].cancelled
    /\ Unsubscribe(s)

(* The handler returns when its channel is closed and drained, or when the client's *)
(* context is done. *)
HandlerReturns(s) ==
    /\ \/ stream[s].state = "live" /\ stream[s].closed /\ stream[s].ch = <<>>
       \/ stream[s].state \in {"history", "live"} /\ stream[s].cancelled
    /\ Unsubscribe(s)

Handler(s) ==
    \/ ReadFinalizedHeight(s) \/ SendHistory(s) \/ GoLive(s)
    \/ SendLive(s) \/ HandlerReturns(s)

-----------------------------------------------------------------------------
(***************************************************************************)
(* An indexer.                                                             *)
(***************************************************************************)
Unused(s) ==
    /\ stream[s].state = "none"
    /\ \A c \in Clients : client[c].stream # s
    /\ s \notin snapshot \cup slow

(* The call reaches the node and the handler registers its channel. *)
SubscribeToHeaders(c, s) ==
    /\ client[c].stream = None
    /\ node \in {"sync", "committed", "publish"}
    /\ Unused(s)
    /\ stream' = [stream EXCEPT ![s] = [NewStream EXCEPT !.state = "subscribed",
                                          !.owner = c,
                                          !.next = client[c].lastIndexed + 1]]
    /\ subscribers' = subscribers \cup {s}
    /\ client' = [client EXCEPT ![c].stream = s]
    /\ UNCHANGED <<publisherVars, indexed, losses>>

(* Recv returns a header and indexBlock succeeds. *)
IndexNext(c) ==
    /\ client[c].stream # None
    /\ LET s == client[c].stream IN
         /\ stream[s].wire # <<>>
         /\ stream' = [stream EXCEPT ![s].wire = Tail(@)]
         /\ client' = [client EXCEPT ![c].lastIndexed = Head(stream[s].wire)]
         /\ indexed' = [indexed EXCEPT ![c] = @ \cup {Head(stream[s].wire)}]
    /\ UNCHANGED <<publisherVars, subscribers, losses>>

(* indexBlock fails: the indexer goes back to subscribe, without cancelling the *)
(* stream it was reading. *)
IndexFails(c) ==
    /\ "index" \in Failures
    /\ client[c].stream # None
    /\ stream[client[c].stream].wire # <<>>
    /\ \E s \in Streams : Unused(s)
    /\ stream' = [stream EXCEPT ![client[c].stream].wire = Tail(@)]
    /\ client' = [client EXCEPT ![c].stream = None]
    /\ UNCHANGED <<publisherVars, subscribers, indexed, losses>>

(* Recv returns the error the handler ended with. *)
RecvError(c) ==
    /\ client[c].stream # None
    /\ LET s == client[c].stream IN stream[s].state = "none" /\ stream[s].wire = <<>>
    /\ client' = [client EXCEPT ![c].stream = None]
    /\ UNCHANGED <<publisherVars, subscribers, stream, indexed, losses>>

(* All streams of a client are cancelled, and what was on the wire is lost. *)
Disconnected(c) ==
    [s \in Streams |-> IF stream[s].owner = c
                       THEN [stream[s] EXCEPT !.wire = <<>>, !.cancelled = TRUE]
                       ELSE stream[s]]

ConnectionLost(c) ==
    /\ losses < MaxLosses
    /\ losses' = losses + 1
    /\ client[c].stream # None
    /\ stream' = Disconnected(c)
    /\ client' = [client EXCEPT ![c].stream = None]
    /\ UNCHANGED <<publisherVars, subscribers, indexed>>

(* The greatest height in the database, 0 if there is none. *)
GetLastIndexedHeight(c) ==
    CHOOSE h \in {0} \cup indexed[c] : \A g \in indexed[c] : g <= h

(* The indexer is killed and started again: it goes on from its database. *)
RestartIndexer(c) ==
    /\ losses < MaxLosses
    /\ losses' = losses + 1
    /\ stream' = Disconnected(c)
    /\ client' = [client EXCEPT ![c] = [stream |-> None,
                                        lastIndexed |-> GetLastIndexedHeight(c)]]
    /\ UNCHANGED <<publisherVars, subscribers, indexed>>

IndexerSteps(c) == (\E s \in Streams : SubscribeToHeaders(c, s)) \/ IndexNext(c) \/ RecvError(c)

-----------------------------------------------------------------------------
Publish == TakeSnapshot \/ (\E s \in Streams : Send(s) \/ SendTimeout(s)) \/ DisconnectSlow

Next ==
    \/ StartNode \/ Commit \/ Publish \/ SyncChainFails \/ GracefulStop \/ Kill
    \/ \E s \in Streams : Handler(s)
    \/ \E c \in Clients : IndexerSteps(c) \/ IndexFails(c) \/ ConnectionLost(c)
                          \/ RestartIndexer(c)

Spec == Init /\ [][Next]_vars

(* The node's goroutine and its handlers run while they can, and so does an indexer; *)
(* nobody need start a node and Celestia need not go on. *)
FairSpec ==
    /\ Spec
    /\ WF_vars(Publish) /\ WF_vars(GracefulStop)
    /\ \A s \in Streams : WF_vars(Handler(s))
    /\ \A c \in Clients : WF_vars(IndexerSteps(c))

-----------------------------------------------------------------------------
(***************************************************************************)
(* Properties.                                                             *)
(***************************************************************************)

(* No finalized block is skipped: what an indexer has indexed is always a prefix *)
(* of the chain, whatever headers were published while it was reading history, *)
(* was being disconnected for slowness, or was away (SubscribeToHeaders registers *)
(* before it reads the finalized height; publishNewHeader closes a channel it could *)
(* not send to). *)
NoGap == \A c \in Clients : indexed[c] = 1 .. Cardinality(indexed[c])

(* A registered channel is open: Unsubscribe and publishNewHeader never close one *)
(* twice, which would panic outside any recover. *)
ClosedOnce == \A s \in subscribers : ~stream[s].closed

(* A subscriber that reads slowly, died or was abandoned delays the chain but never *)
(* stops it: publishNewHeader returns (unless the process ends). *)
PublishReturns == node = "committed" ~> node \in {"sync", "down"}

(* While the node is up, every finalized block is eventually indexed, also by an *)
(* indexer that is disconnected for being slow or that failed to index a block. *)
EventuallyIndexed ==
    \A c \in Clients, h \in Heights :
        h <= finalizedHeight ~> (h \in indexed[c] \/ node \in {"down", "stopping"})

(* When the chain stops with an error the server shuts down (the deferred *)
(* GracefulStop of runStart). *)
ShutdownCompletes == node = "stopping" ~> node = "down"

-----------------------------------------------------------------------------
(***************************************************************************)
(* The inductive invariant behind NoGap.  What an indexer has been sent,   *)
(* what is on the wire, the rest of the history and what is in the channel *)
(* follow one another without a gap, and the last of these headers is the  *)
(* newest one unless the publisher still has it to send or is about to     *)
(* disconnect the subscriber.                                              *)
(***************************************************************************)

(* Each of the headers q is at most one above the one before it, m for the first. *)
Follows(m, q) == \A i \in DOMAIN q : q[i] <= (IF i = 1 THEN m ELSE q[i - 1]) + 1

LastOf(m, q) == IF q = <<>> THEN m ELSE q[Len(q)]

(* What the headers in the channel of stream st follow, for an indexer that has read m *)
(* and the finalized height fh. *)
Base(m, st, fh) ==
    CASE st.state = "subscribed" -> fh
      [] st.state = "history"    -> st.upTo
      [] OTHER                   -> LastOf(m, st.wire)

Tip(m, st, fh) == LastOf(Base(m, st, fh), st.ch)

Gapless(m, st, fh) ==
    /\ Follows(m, st.wire)
    /\ st.state = "subscribed" => st.wire = <<>> /\ st.next = m + 1
    /\ st.state = "history" => st.next = LastOf(m, st.wire) + 1 /\ st.next <= st.upTo + 1
    /\ st.state # "none" => Follows(Base(m, st, fh), st.ch)

(* The header up to which a registered channel must have been served. *)
Due(s) ==
    IF node = "committed" \/ s \in snapshot THEN finalizedHeight - 1
    ELSE IF s \in slow THEN 0 ELSE finalizedHeight

ReaderInv(c, s) ==
    /\ stream[s].owner = c /\ ~stream[s].cancelled
    /\ Gapless(client[c].lastIndexed, stream[s], finalizedHeight)
    /\ s \in subscribers => Due(s) <= Tip(client[c].lastIndexed, stream[s], finalizedHeight)

PublisherInv ==
    /\ node # "publish" => snapshot = {} /\ slow = {}
    /\ node \in {"committed", "publish"} => finalizedHeight > 0

(* A registered channel is open and has a handler, a channel that is to be sent to and *)
(* no longer registered is closed, and a handler knows where to begin. *)
RegisteredInv ==
    /\ \A s \in subscribers : stream[s].state # "none" /\ ~stream[s].closed
    /\ \A s \in snapshot \ subscribers : stream[s].closed
    /\ \A s \in Streams : stream[s].state # "none" => stream[s].next > 0

PrefixInv ==
    \A c \in Clients : \E n \in 0 .. finalizedHeight :
        indexed[c] = 1 .. n /\ client[c].lastIndexed \in 0 .. n

IInv ==
    /\ TypeOK /\ PublisherInv /\ RegisteredInv /\ PrefixInv
    /\ \A c \in Clients : client[c].stream # None => ReaderInv(c, client[c].stream)
=============================================================================
