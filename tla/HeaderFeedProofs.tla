-------------------------- MODULE HeaderFeedProofs --------------------------
(***************************************************************************)
(* Indexers skip no block and no channel is closed twice, for any number   *)
(* of indexers and streams, any buffers and any combination of failures.   *)
(***************************************************************************)
EXTENDS HeaderFeed, FiniteSetTheorems, TLAPS

USE BufferAssumption, BoundAssumption

(* Sequences of headers. *)
LEMMA EmptySeq ==
    ASSUME NEW S, NEW q \in Seq(S) PROVE q = <<>> <=> Len(q) = 0
OBVIOUS

LEMMA NoHeaders ==
    ASSUME NEW S PROVE <<>> \in Seq(S) /\ Len(<<>>) = 0
OBVIOUS

LEMMA HeadTail ==
    ASSUME NEW S, NEW q \in Seq(S), q # <<>>, NEW n \in Nat, Len(q) <= n
    PROVE  Head(q) \in S /\ Tail(q) \in Seq(S) /\ Len(Tail(q)) <= n
<1>1. Len(q) \in Nat \ {0} /\ Len(Tail(q)) = Len(q) - 1
  BY EmptySeq
<1>. QED  BY <1>1

LEMMA FollowsAppend ==
    ASSUME NEW q \in Seq(Int), NEW m \in Int, NEW h \in Int, h <= LastOf(m, q) + 1
    PROVE  /\ Append(q, h) # <<>> /\ LastOf(m, Append(q, h)) = h
           /\ Follows(m, q) => Follows(m, Append(q, h))
<1>1. /\ Len(q) \in Nat /\ DOMAIN q = 1 .. Len(q) /\ DOMAIN Append(q, h) = 1 .. Len(q) + 1
      /\ Len(Append(q, h)) = Len(q) + 1 /\ Append(q, h)[Len(q) + 1] = h
      /\ \A i \in 1 .. Len(q) : Append(q, h)[i] = q[i]
  OBVIOUS
<1>2. (q = <<>> <=> Len(q) = 0) /\ Append(q, h) # <<>>
  BY <1>1, EmptySeq
<1>3. LastOf(m, Append(q, h)) = h
  BY <1>1, <1>2 DEF LastOf
<1>4. ASSUME Follows(m, q), NEW i \in 1 .. Len(q) + 1
      PROVE  Append(q, h)[i] <= (IF i = 1 THEN m ELSE Append(q, h)[i - 1]) + 1
  <2>1. CASE i \in 1 .. Len(q)
    <3>1. i = 1 \/ i - 1 \in 1 .. Len(q)
      BY <1>1, <2>1
    <3>. QED  BY <1>1, <1>4, <2>1, <3>1 DEF Follows
  <2>2. CASE i = Len(q) + 1
    <3>1. CASE Len(q) = 0
      BY <1>1, <1>2, <2>2, <3>1 DEF LastOf
    <3>2. CASE Len(q) # 0
      <4>1. i # 1 /\ i - 1 = Len(q) /\ Len(q) \in 1 .. Len(q)
        BY <1>1, <2>2, <3>2
      <4>. QED  BY <1>1, <1>2, <2>2, <3>2, <4>1 DEF LastOf
    <3>. QED  BY <3>1, <3>2
  <2>. QED  BY <1>1, <2>1, <2>2
<1>. QED  BY <1>1, <1>2, <1>3, <1>4 DEF Follows

LEMMA FollowsTail ==
    ASSUME NEW q \in Seq(Int), NEW m \in Int, q # <<>>
    PROVE  /\ Head(q) \in Int /\ Tail(q) \in Seq(Int)
           /\ LastOf(Head(q), Tail(q)) = LastOf(m, q)
           /\ Follows(m, q) => Head(q) <= m + 1 /\ Follows(Head(q), Tail(q))
<1>1. /\ Len(q) \in Nat \ {0} /\ DOMAIN q = 1 .. Len(q) /\ Head(q) = q[1]
      /\ Tail(q) \in Seq(Int) /\ Len(Tail(q)) = Len(q) - 1
      /\ DOMAIN Tail(q) = 1 .. Len(q) - 1
      /\ \A i \in 1 .. Len(q) - 1 : Tail(q)[i] = q[i + 1]
  OBVIOUS
<1>2. Tail(q) = <<>> <=> Len(q) = 1
  <2>1. \A r \in Seq(Int) : r = <<>> <=> Len(r) = 0
    BY EmptySeq
  <2>2. Tail(q) = <<>> <=> Len(q) - 1 = 0
    BY <1>1, <2>1
  <2>3. Len(q) - 1 = 0 <=> Len(q) = 1
    BY <1>1
  <2>. QED  BY <2>2, <2>3
<1>3. LastOf(Head(q), Tail(q)) = LastOf(m, q)
  <2>1. CASE Len(q) = 1
    BY <1>1, <1>2, <2>1 DEF LastOf
  <2>2. CASE Len(q) # 1
    <3>1. Len(q) - 1 \in 1 .. Len(q) - 1
      BY <1>1, <2>2
    <3>. QED  BY <1>1, <1>2, <2>2, <3>1 DEF LastOf
  <2>. QED  BY <2>1, <2>2
<1>4. ASSUME Follows(m, q) PROVE Head(q) <= m + 1
  BY <1>1, <1>4 DEF Follows
<1>5. ASSUME Follows(m, q), NEW i \in 1 .. Len(q) - 1
      PROVE  Tail(q)[i] <= (IF i = 1 THEN Head(q) ELSE Tail(q)[i - 1]) + 1
  <2>1. i + 1 \in 1 .. Len(q) /\ i + 1 # 1 /\ (i + 1) - 1 = i
    BY <1>1
  <2>2. q[i + 1] <= q[i] + 1
    BY <1>1, <1>5, <2>1 DEF Follows
  <2>3. CASE i = 1
    BY <1>1, <2>2, <2>3
  <2>4. CASE i # 1
    <3>1. i - 1 \in 1 .. Len(q) - 1 /\ (i - 1) + 1 = i
      BY <1>1, <2>4
    <3>2. Tail(q)[i - 1] = q[i] /\ Tail(q)[i] = q[i + 1]
      BY <1>1, <3>1
    <3>. QED  BY <2>2, <2>4, <3>2
  <2>. QED  BY <2>3, <2>4
<1>6. ASSUME Follows(m, q) PROVE Follows(Head(q), Tail(q))
  <2>1. \A i \in 1 .. Len(q) - 1 :
          Tail(q)[i] <= (IF i = 1 THEN Head(q) ELSE Tail(q)[i - 1]) + 1
    BY <1>5, <1>6
  <2>. QED  BY <1>1, <2>1 DEF Follows
<1>. QED  BY <1>1, <1>3, <1>4, <1>6

LEMMA FollowsWeaken ==
    ASSUME NEW q \in Seq(Int), NEW m \in Int, NEW n \in Int, m <= n, Follows(m, q)
    PROVE  Follows(n, q)
<1>. SUFFICES ASSUME NEW i \in DOMAIN q
              PROVE  q[i] <= (IF i = 1 THEN n ELSE q[i - 1]) + 1
  BY DEF Follows
<1>1. q[i] \in Int /\ q[i] <= (IF i = 1 THEN m ELSE q[i - 1]) + 1
  BY DEF Follows
<1>. QED  BY <1>1

LEMMA LastOfType ==
    ASSUME NEW S, NEW q \in Seq(S), NEW m
    PROVE  q # <<>> => LastOf(m, q) \in S
BY DEF LastOf

LEMMA SeqMono ==
    ASSUME NEW S, NEW T, S \subseteq T, NEW q \in Seq(S)
    PROVE  q \in Seq(T)
OBVIOUS

LEMMA SeqGrow ==
    ASSUME NEW n \in Nat, NEW q \in Seq(1 .. n)
    PROVE  q \in Seq(1 .. n + 1)
<1>. DEFINE S == 1 .. n
            T == 1 .. n + 1
<1>1. S \subseteq T /\ q \in Seq(S)
  OBVIOUS
<1>. HIDE DEF S, T
<1>2. q \in Seq(T)
  BY <1>1, SeqMono
<1>. QED  BY <1>2 DEF T

-----------------------------------------------------------------------------
(* The fields of a stream. *)
LEMMA StreamFields ==
    ASSUME TypeOK, NEW s \in Streams
    PROVE  /\ finalizedHeight \in Nat
           /\ stream[s] \in StreamType
           /\ stream[s].state \in {"none", "subscribed", "history", "live"}
           /\ stream[s].next \in Nat
           /\ stream[s].upTo \in 0 .. finalizedHeight
           /\ stream[s].ch \in Seq(1 .. finalizedHeight) /\ stream[s].ch \in Seq(Int)
           /\ stream[s].wire \in Seq(1 .. finalizedHeight) /\ stream[s].wire \in Seq(Int)
           /\ stream[s].closed \in BOOLEAN /\ stream[s].cancelled \in BOOLEAN
           /\ Len(stream[s].ch) <= Buffer /\ Len(stream[s].wire) <= Window
<1>1. finalizedHeight \in Nat /\ stream[s] \in StreamType
      /\ Len(stream[s].ch) <= Buffer /\ Len(stream[s].wire) <= Window
  BY DEF TypeOK
<1>2. /\ stream[s].state \in {"none", "subscribed", "history", "live"}
      /\ stream[s].next \in Nat /\ stream[s].upTo \in 0 .. finalizedHeight
      /\ stream[s].ch \in Seq(1 .. finalizedHeight)
      /\ stream[s].wire \in Seq(1 .. finalizedHeight)
      /\ stream[s].closed \in BOOLEAN /\ stream[s].cancelled \in BOOLEAN
  BY <1>1 DEF StreamType
<1>3. stream[s].ch \in Seq(Int) /\ stream[s].wire \in Seq(Int)
  <2>1. 1 .. finalizedHeight \subseteq Int
    BY <1>1
  <2>. QED  BY <1>2, <2>1, SeqMono
<1>. QED  BY <1>1, <1>2, <1>3

LEMMA NewStreamType ==
    ASSUME finalizedHeight \in Nat PROVE NewStream \in StreamType
BY DEF NewStream, StreamType

LEMMA InitInv == Init => IInv
<1>. SUFFICES ASSUME Init PROVE IInv
  OBVIOUS
<1>. USE DEF Init
<1>1. TypeOK
  <2>1. stream \in [Streams -> StreamType]
    BY NewStreamType
  <2>2. \A s \in Streams : Len(stream[s].ch) <= Buffer /\ Len(stream[s].wire) <= Window
    BY DEF NewStream
  <2>. QED  BY <2>1, <2>2 DEF TypeOK
<1>2. PublisherInv /\ RegisteredInv
  BY DEF PublisherInv, RegisteredInv, NewStream
<1>3. PrefixInv
  <2>1. 1 .. 0 = {} /\ 0 \in 0 .. 0
    OBVIOUS
  <2>. QED  BY <2>1 DEF PrefixInv
<1>. QED  BY <1>1, <1>2, <1>3 DEF IInv

(* What the indexer that reads a stream knows of it. *)
LEMMA ReaderFacts ==
    ASSUME IInv, NEW c \in Clients
    PROVE  /\ client[c].lastIndexed \in 0 .. finalizedHeight
           /\ client[c].stream \in Streams \cup {None}
           /\ client[c].stream # None =>
                client[c].stream \in Streams /\ ReaderInv(c, client[c].stream)
BY DEF IInv, TypeOK, PrefixInv

(* Tip and Base are heights. *)
LEMMA TipType ==
    ASSUME NEW fh \in Nat, NEW m \in 0 .. fh, NEW st, st.upTo \in 0 .. fh,
           st.ch \in Seq(1 .. fh), st.wire \in Seq(1 .. fh)
    PROVE  /\ Base(m, st, fh) \in 0 .. fh
           /\ Tip(m, st, fh) \in 0 .. fh
           /\ LastOf(m, st.wire) \in 0 .. fh
<1>1. LastOf(m, st.wire) \in 0 .. fh
  BY LastOfType DEF LastOf
<1>2. Base(m, st, fh) \in 0 .. fh
  BY <1>1 DEF Base
<1>3. Tip(m, st, fh) \in 0 .. fh
  BY <1>2, LastOfType DEF Tip, LastOf
<1>. QED  BY <1>1, <1>2, <1>3

-----------------------------------------------------------------------------
(***************************************************************************)
(* Steps of one stream's handler: the publisher and the indexers stand     *)
(* still, and the stream remains without a gap for whoever reads it.       *)
(***************************************************************************)
LEMMA HandlerStep ==
    ASSUME IInv, NEW s \in Streams, NEW st \in StreamType,
           stream' = [stream EXCEPT ![s] = st],
           UNCHANGED <<publisherVars, clientVars>>,
           subscribers' = subscribers \/ (subscribers' = subscribers \ {s}),
           st.owner = stream[s].owner, st.cancelled = stream[s].cancelled,
           Len(st.ch) <= Buffer, Len(st.wire) <= Window,
           st.state # "none" => st.next > 0,
           s \in subscribers' => st.state # "none" /\ ~st.closed,
           s \in snapshot /\ s \notin subscribers' => st.closed,
           \A m \in 0 .. finalizedHeight :
             Gapless(m, stream[s], finalizedHeight) =>
               Gapless(m, st, finalizedHeight) /\ (s \in subscribers' => Tip(m, stream[s], finalizedHeight) <= Tip(m, st, finalizedHeight))
    PROVE  IInv'
<1>0. /\ UNCHANGED <<node, finalizedHeight, snapshot, slow, client, indexed, losses>>
      /\ subscribers' \subseteq subscribers
  BY DEF publisherVars, clientVars
<1>1. stream \in [Streams -> StreamType] /\ stream'[s] = st
      /\ \A t \in Streams \ {s} : stream'[t] = stream[t]
  BY DEF IInv, TypeOK
<1>2. TypeOK'
  <2>1. StreamType' = StreamType
    BY <1>0 DEF StreamType
  <2>2. stream' \in [Streams -> StreamType]
    BY <1>1
  <2>3. \A t \in Streams : Len(stream'[t].ch) <= Buffer /\ Len(stream'[t].wire) <= Window
    BY <1>1 DEF IInv, TypeOK
  <2>. QED  BY <1>0, <2>1, <2>2, <2>3 DEF IInv, TypeOK
<1>3. PublisherInv' /\ PrefixInv'
  BY <1>0 DEF IInv, PublisherInv, PrefixInv
<1>4. RegisteredInv'
  BY <1>0, <1>1 DEF IInv, RegisteredInv, TypeOK
<1>5. ASSUME NEW c \in Clients, (client[c].stream # None)'
      PROVE  ReaderInv(c, client[c].stream)'
  <2>1. PICK t \in Streams : t = client[c].stream /\ ReaderInv(c, t)
    BY <1>0, <1>5, ReaderFacts
  <2>2. PICK m \in 0 .. finalizedHeight : m = client[c].lastIndexed
    BY ReaderFacts
  <2>3. client'[c].stream = t /\ client'[c].lastIndexed = m /\ Due(t)' = Due(t)
    BY <1>0, <2>1, <2>2 DEF Due
  <2>4. /\ stream[t].owner = c /\ ~stream[t].cancelled /\ Gapless(m, stream[t], finalizedHeight)
        /\ t \in subscribers => Due(t) <= Tip(m, stream[t], finalizedHeight)
    BY <2>1, <2>2 DEF ReaderInv
  <2>5. SUFFICES /\ stream'[t].owner = c /\ ~stream'[t].cancelled
                 /\ Gapless(m, stream'[t], finalizedHeight)
                 /\ t \in subscribers' => Due(t) <= Tip(m, stream'[t], finalizedHeight)
    BY <1>0, <2>3 DEF ReaderInv
  <2>6. CASE t # s
    BY <1>0, <1>1, <2>4, <2>6
  <2>7. CASE t = s
    <3>1. Gapless(m, st, finalizedHeight)
      BY <2>4, <2>7
    <3>2. ASSUME s \in subscribers' PROVE Due(s) <= Tip(m, st, finalizedHeight)
      <4>1. /\ Due(s) <= Tip(m, stream[s], finalizedHeight)
            /\ Tip(m, stream[s], finalizedHeight) <= Tip(m, st, finalizedHeight)
        BY <1>0, <2>4, <2>7, <3>2
      <4>2. Tip(m, stream[s], finalizedHeight) \in Int /\ Due(s) \in Int
        <5>1. TypeOK /\ finalizedHeight \in Nat
          BY DEF IInv, TypeOK
        <5>2. Tip(m, stream[s], finalizedHeight) \in 0 .. finalizedHeight
          BY <5>1, StreamFields, TipType
        <5>. QED  BY <5>1, <5>2 DEF Due
      <4>3. Tip(m, st, finalizedHeight) \in Int
        <5>1. finalizedHeight \in Nat
          BY DEF IInv, TypeOK
        <5>2. /\ st.upTo \in 0 .. finalizedHeight /\ st.ch \in Seq(1 .. finalizedHeight)
              /\ st.wire \in Seq(1 .. finalizedHeight)
          BY DEF StreamType
        <5>3. Tip(m, st, finalizedHeight) \in 0 .. finalizedHeight
          BY <5>1, <5>2, TipType
        <5>. QED  BY <5>1, <5>3
      <4>. QED  BY <4>1, <4>2, <4>3
    <3>. QED  BY <1>1, <2>4, <2>7, <3>1, <3>2
  <2>. QED  BY <2>6, <2>7
<1>. QED  BY <1>2, <1>3, <1>4, <1>5 DEF IInv

LEMMA ReadFinalizedHeightStep ==
    ASSUME IInv, NEW s \in Streams, ReadFinalizedHeight(s)
    PROVE  IInv'
<1>. DEFINE st == [stream[s] EXCEPT !.state = "history", !.upTo = finalizedHeight]
<1>g. /\ stream[s].state = "subscribed"
  BY DEF ReadFinalizedHeight
<1>0. TypeOK /\ finalizedHeight \in Nat /\ RegisteredInv
  BY DEF IInv, TypeOK
<1>1. /\ stream[s] \in StreamType /\ stream[s].next \in Nat /\ stream[s].upTo \in Nat
      /\ stream[s].upTo <= finalizedHeight /\ finalizedHeight \in 0 .. finalizedHeight
      /\ stream[s].upTo \in 0 .. finalizedHeight
  <2>1. stream[s].upTo \in 0 .. finalizedHeight
    BY <1>0, StreamFields
  <2>. QED  BY <1>0, <2>1, StreamFields
<1>s. /\ stream[s].ch \in Seq(1 .. finalizedHeight) /\ stream[s].ch \in Seq(Int)
      /\ stream[s].wire \in Seq(1 .. finalizedHeight) /\ stream[s].wire \in Seq(Int)
      /\ Len(stream[s].ch) <= Buffer /\ Len(stream[s].wire) <= Window
  BY <1>0, StreamFields
<1>2. /\ st \in StreamType /\ st.state = "history" /\ st.upTo = finalizedHeight
      /\ st.owner = stream[s].owner /\ st.cancelled = stream[s].cancelled
      /\ st.closed = stream[s].closed /\ st.next = stream[s].next
      /\ st.ch = stream[s].ch /\ st.wire = stream[s].wire
  BY <1>0, <1>1 DEF StreamType
<1>3. stream' = [stream EXCEPT ![s] = st]
  BY <1>0 DEF TypeOK, ReadFinalizedHeight
<1>. HIDE DEF st
<1>4. /\ st.next > 0 /\ (s \in subscribers => ~st.closed)
      /\ s \in snapshot /\ s \notin subscribers => st.closed
  BY <1>g, <1>0, <1>1, <1>2 DEF RegisteredInv
<1>5. ASSUME NEW m \in 0 .. finalizedHeight
      PROVE  Tip(m, stream[s], finalizedHeight) \in Int
             /\ LastOf(m, stream[s].wire) \in 0 .. finalizedHeight
  <2>1. Tip(m, stream[s], finalizedHeight) \in 0 .. finalizedHeight
        /\ LastOf(m, stream[s].wire) \in 0 .. finalizedHeight
    BY <1>0, <1>1, <1>s, TipType
  <2>. QED  BY <1>0, <2>1
<1>6. ASSUME NEW m \in 0 .. finalizedHeight, Gapless(m, stream[s], finalizedHeight)
      PROVE  /\ Gapless(m, st, finalizedHeight)
             /\ Tip(m, st, finalizedHeight) = Tip(m, stream[s], finalizedHeight)
  <2>1. stream[s].wire = <<>> /\ stream[s].next = m + 1
        /\ Base(m, stream[s], finalizedHeight) = finalizedHeight
        /\ Base(m, st, finalizedHeight) = finalizedHeight
    BY <1>g, <1>2, <1>6 DEF Gapless, Base
  <2>2. LastOf(m, st.wire) = m /\ m + 1 <= finalizedHeight + 1
    BY <1>0, <1>2, <2>1 DEF LastOf
  <2>. QED  BY <1>g, <1>2, <1>6, <2>1, <2>2 DEF Gapless, Tip
<1>7. \A m \in 0 .. finalizedHeight :
        Gapless(m, stream[s], finalizedHeight) =>
          /\ Gapless(m, st, finalizedHeight)
          /\ s \in subscribers' =>
               Tip(m, stream[s], finalizedHeight) <= Tip(m, st, finalizedHeight)
  BY <1>5, <1>6
<1>8. UNCHANGED <<publisherVars, clientVars>> /\ subscribers' = subscribers
  BY DEF ReadFinalizedHeight
<1>9. /\ st.state # "none" => st.next > 0
      /\ s \in subscribers' => st.state # "none" /\ ~st.closed
      /\ s \in snapshot /\ s \notin subscribers' => st.closed
  BY <1>2, <1>4, <1>8
<1>. QED  BY <1>1, <1>s, <1>2, <1>3, <1>7, <1>8, <1>9, HandlerStep

LEMMA SendHistoryStep ==
    ASSUME IInv, NEW s \in Streams, SendHistory(s)
    PROVE  IInv'
<1>. DEFINE h == stream[s].next
            st == [stream[s] EXCEPT !.wire = Append(@, h), !.next = h + 1]
<1>g. /\ stream[s].state = "history" /\ stream[s].next <= stream[s].upTo
      /\ Len(stream[s].wire) < Window
  BY DEF SendHistory
<1>0. TypeOK /\ finalizedHeight \in Nat /\ RegisteredInv
  BY DEF IInv, TypeOK
<1>1. /\ stream[s] \in StreamType /\ stream[s].next \in Nat /\ stream[s].upTo \in Nat
      /\ stream[s].upTo <= finalizedHeight /\ finalizedHeight \in 0 .. finalizedHeight
      /\ stream[s].upTo \in 0 .. finalizedHeight
  <2>1. stream[s].upTo \in 0 .. finalizedHeight
    BY <1>0, StreamFields
  <2>. QED  BY <1>0, <2>1, StreamFields
<1>s. /\ stream[s].ch \in Seq(1 .. finalizedHeight) /\ stream[s].ch \in Seq(Int)
      /\ stream[s].wire \in Seq(1 .. finalizedHeight) /\ stream[s].wire \in Seq(Int)
      /\ Len(stream[s].ch) <= Buffer /\ Len(stream[s].wire) <= Window
  BY <1>0, StreamFields
<1>n. h > 0
  BY <1>g, <1>0 DEF RegisteredInv
<1>h. h \in 1 .. finalizedHeight /\ h + 1 \in Nat /\ h + 1 > 0
  BY <1>g, <1>n, <1>0, <1>1
<1>a. /\ Append(stream[s].wire, h) \in Seq(1 .. finalizedHeight)
      /\ Len(Append(stream[s].wire, h)) <= Window
  BY <1>g, <1>0, <1>s, <1>h
<1>2. /\ st \in StreamType /\ st.state = "history" /\ st.upTo = stream[s].upTo
      /\ st.owner = stream[s].owner /\ st.cancelled = stream[s].cancelled
      /\ st.closed = stream[s].closed /\ st.next = h + 1
      /\ st.ch = stream[s].ch /\ st.wire = Append(stream[s].wire, h)
  BY <1>g, <1>1, <1>h, <1>a DEF StreamType
<1>3. stream' = [stream EXCEPT ![s] = st]
  BY <1>0 DEF TypeOK, SendHistory
<1>. HIDE DEF st
<1>4. /\ st.next > 0 /\ (s \in subscribers => ~st.closed)
      /\ s \in snapshot /\ s \notin subscribers => st.closed
  BY <1>g, <1>0, <1>1, <1>2 DEF RegisteredInv
<1>5. ASSUME NEW m \in 0 .. finalizedHeight
      PROVE  Tip(m, stream[s], finalizedHeight) \in Int
             /\ LastOf(m, stream[s].wire) \in 0 .. finalizedHeight
  <2>1. Tip(m, stream[s], finalizedHeight) \in 0 .. finalizedHeight
        /\ LastOf(m, stream[s].wire) \in 0 .. finalizedHeight
    BY <1>0, <1>1, <1>s, TipType
  <2>. QED  BY <1>0, <2>1
<1>6. ASSUME NEW m \in 0 .. finalizedHeight, Gapless(m, stream[s], finalizedHeight)
      PROVE  /\ Gapless(m, st, finalizedHeight)
             /\ Tip(m, st, finalizedHeight) = Tip(m, stream[s], finalizedHeight)
  <2>1. /\ Follows(m, stream[s].wire) /\ h = LastOf(m, stream[s].wire) + 1
        /\ Follows(stream[s].upTo, stream[s].ch)
    BY <1>g, <1>h, <1>6 DEF Gapless, Base
  <2>2. m \in Int /\ h \in Int /\ LastOf(m, stream[s].wire) \in Int
    BY <1>0, <1>1, <1>5
  <2>3. Follows(m, st.wire) /\ LastOf(m, st.wire) = h
    BY <1>s, <1>2, <2>1, <2>2, FollowsAppend
  <2>4. Base(m, st, finalizedHeight) = stream[s].upTo
        /\ Base(m, stream[s], finalizedHeight) = stream[s].upTo
    BY <1>g, <1>h, <1>2 DEF Base
  <2>5. st.next <= st.upTo + 1
    BY <1>g, <1>0, <1>1, <1>h, <1>2
  <2>. QED  BY <1>2, <2>1, <2>3, <2>4, <2>5 DEF Gapless, Tip
<1>7. \A m \in 0 .. finalizedHeight :
        Gapless(m, stream[s], finalizedHeight) =>
          /\ Gapless(m, st, finalizedHeight)
          /\ s \in subscribers' =>
               Tip(m, stream[s], finalizedHeight) <= Tip(m, st, finalizedHeight)
  BY <1>5, <1>6
<1>8. UNCHANGED <<publisherVars, clientVars>> /\ subscribers' = subscribers
  BY DEF SendHistory
<1>9. /\ st.state # "none" => st.next > 0
      /\ s \in subscribers' => st.state # "none" /\ ~st.closed
      /\ s \in snapshot /\ s \notin subscribers' => st.closed
  BY <1>2, <1>4, <1>8
<1>. QED  BY <1>1, <1>s, <1>a, <1>2, <1>3, <1>7, <1>8, <1>9, HandlerStep

LEMMA GoLiveStep ==
    ASSUME IInv, NEW s \in Streams, GoLive(s)
    PROVE  IInv'
<1>. DEFINE st == [stream[s] EXCEPT !.state = "live"]
<1>g. /\ stream[s].state = "history" /\ stream[s].next > stream[s].upTo
  BY DEF GoLive
<1>0. TypeOK /\ finalizedHeight \in Nat /\ RegisteredInv
  BY DEF IInv, TypeOK
<1>1. /\ stream[s] \in StreamType /\ stream[s].next \in Nat /\ stream[s].upTo \in Nat
      /\ stream[s].upTo <= finalizedHeight /\ finalizedHeight \in 0 .. finalizedHeight
      /\ stream[s].upTo \in 0 .. finalizedHeight
  <2>1. stream[s].upTo \in 0 .. finalizedHeight
    BY <1>0, StreamFields
  <2>. QED  BY <1>0, <2>1, StreamFields
<1>s. /\ stream[s].ch \in Seq(1 .. finalizedHeight) /\ stream[s].ch \in Seq(Int)
      /\ stream[s].wire \in Seq(1 .. finalizedHeight) /\ stream[s].wire \in Seq(Int)
      /\ Len(stream[s].ch) <= Buffer /\ Len(stream[s].wire) <= Window
  BY <1>0, StreamFields
<1>2. /\ st \in StreamType /\ st.state = "live" /\ st.upTo = stream[s].upTo
      /\ st.owner = stream[s].owner /\ st.cancelled = stream[s].cancelled
      /\ st.closed = stream[s].closed /\ st.next = stream[s].next
      /\ st.ch = stream[s].ch /\ st.wire = stream[s].wire
  BY <1>0, <1>1 DEF StreamType
<1>3. stream' = [stream EXCEPT ![s] = st]
  BY <1>0 DEF TypeOK, GoLive
<1>. HIDE DEF st
<1>4. /\ st.next > 0 /\ (s \in subscribers => ~st.closed)
      /\ s \in snapshot /\ s \notin subscribers => st.closed
  BY <1>g, <1>0, <1>1, <1>2 DEF RegisteredInv
<1>5. ASSUME NEW m \in 0 .. finalizedHeight
      PROVE  Tip(m, stream[s], finalizedHeight) \in Int
             /\ LastOf(m, stream[s].wire) \in 0 .. finalizedHeight
  <2>1. Tip(m, stream[s], finalizedHeight) \in 0 .. finalizedHeight
        /\ LastOf(m, stream[s].wire) \in 0 .. finalizedHeight
    BY <1>0, <1>1, <1>s, TipType
  <2>. QED  BY <1>0, <2>1
<1>6. ASSUME NEW m \in 0 .. finalizedHeight, Gapless(m, stream[s], finalizedHeight)
      PROVE  /\ Gapless(m, st, finalizedHeight)
             /\ Tip(m, st, finalizedHeight) = Tip(m, stream[s], finalizedHeight)
  <2>1. LastOf(m, stream[s].wire) = stream[s].upTo
    <3>1. stream[s].next = LastOf(m, stream[s].wire) + 1 /\ stream[s].next <= stream[s].upTo + 1
      BY <1>g, <1>6 DEF Gapless
    <3>2. LastOf(m, stream[s].wire) \in 0 .. finalizedHeight
      BY <1>5
    <3>. QED  BY <1>g, <1>0, <1>1, <3>1, <3>2
  <2>2. Base(m, st, finalizedHeight) = stream[s].upTo
        /\ Base(m, stream[s], finalizedHeight) = stream[s].upTo
    BY <1>g, <1>2, <2>1 DEF Base
  <2>. QED  BY <1>g, <1>2, <1>6, <2>2 DEF Gapless, Tip
<1>7. \A m \in 0 .. finalizedHeight :
        Gapless(m, stream[s], finalizedHeight) =>
          /\ Gapless(m, st, finalizedHeight)
          /\ s \in subscribers' =>
               Tip(m, stream[s], finalizedHeight) <= Tip(m, st, finalizedHeight)
  BY <1>5, <1>6
<1>8. UNCHANGED <<publisherVars, clientVars>> /\ subscribers' = subscribers
  BY DEF GoLive
<1>9. /\ st.state # "none" => st.next > 0
      /\ s \in subscribers' => st.state # "none" /\ ~st.closed
      /\ s \in snapshot /\ s \notin subscribers' => st.closed
  BY <1>2, <1>4, <1>8
<1>. QED  BY <1>1, <1>s, <1>2, <1>3, <1>7, <1>8, <1>9, HandlerStep

LEMMA SendLiveStep ==
    ASSUME IInv, NEW s \in Streams, SendLive(s)
    PROVE  IInv'
<1>. DEFINE h == Head(stream[s].ch)
            st == [stream[s] EXCEPT !.wire = Append(@, h), !.ch = Tail(@)]
<1>g. /\ stream[s].state = "live" /\ stream[s].ch # <<>> /\ Len(stream[s].wire) < Window
  BY DEF SendLive
<1>0. TypeOK /\ finalizedHeight \in Nat /\ RegisteredInv
  BY DEF IInv, TypeOK
<1>1. /\ stream[s] \in StreamType /\ stream[s].next \in Nat /\ stream[s].upTo \in Nat
      /\ stream[s].upTo <= finalizedHeight /\ finalizedHeight \in 0 .. finalizedHeight
      /\ stream[s].upTo \in 0 .. finalizedHeight
  <2>1. stream[s].upTo \in 0 .. finalizedHeight
    BY <1>0, StreamFields
  <2>. QED  BY <1>0, <2>1, StreamFields
<1>s. /\ stream[s].ch \in Seq(1 .. finalizedHeight) /\ stream[s].ch \in Seq(Int)
      /\ stream[s].wire \in Seq(1 .. finalizedHeight) /\ stream[s].wire \in Seq(Int)
      /\ Len(stream[s].ch) <= Buffer /\ Len(stream[s].wire) <= Window
  BY <1>0, StreamFields
<1>h. /\ h \in 1 .. finalizedHeight
      /\ Tail(stream[s].ch) \in Seq(1 .. finalizedHeight) /\ Len(Tail(stream[s].ch)) <= Buffer
  BY <1>g, <1>s, HeadTail
<1>a. /\ Append(stream[s].wire, h) \in Seq(1 .. finalizedHeight)
      /\ Len(Append(stream[s].wire, h)) <= Window
  BY <1>g, <1>0, <1>s, <1>h
<1>2. /\ st \in StreamType /\ st.state = "live" /\ st.upTo = stream[s].upTo
      /\ st.owner = stream[s].owner /\ st.cancelled = stream[s].cancelled
      /\ st.closed = stream[s].closed /\ st.next = stream[s].next
      /\ st.ch = Tail(stream[s].ch) /\ st.wire = Append(stream[s].wire, h)
  BY <1>g, <1>1, <1>h, <1>a DEF StreamType
<1>3. stream' = [stream EXCEPT ![s] = st]
  BY <1>0 DEF TypeOK, SendLive
<1>. HIDE DEF st
<1>4. /\ st.next > 0 /\ (s \in subscribers => ~st.closed)
      /\ s \in snapshot /\ s \notin subscribers => st.closed
  BY <1>g, <1>0, <1>1, <1>2 DEF RegisteredInv
<1>5. ASSUME NEW m \in 0 .. finalizedHeight
      PROVE  Tip(m, stream[s], finalizedHeight) \in Int
             /\ LastOf(m, stream[s].wire) \in 0 .. finalizedHeight
  <2>1. Tip(m, stream[s], finalizedHeight) \in 0 .. finalizedHeight
        /\ LastOf(m, stream[s].wire) \in 0 .. finalizedHeight
    BY <1>0, <1>1, <1>s, TipType
  <2>. QED  BY <1>0, <2>1
<1>6. ASSUME NEW m \in 0 .. finalizedHeight, Gapless(m, stream[s], finalizedHeight)
      PROVE  /\ Gapless(m, st, finalizedHeight)
             /\ Tip(m, st, finalizedHeight) = Tip(m, stream[s], finalizedHeight)
  <2>. DEFINE l == LastOf(m, stream[s].wire)
  <2>1. Follows(m, stream[s].wire) /\ Follows(l, stream[s].ch)
    BY <1>g, <1>6 DEF Gapless, Base
  <2>2. m \in Int /\ l \in Int /\ h \in Int /\ stream[s].ch # <<>>
    <3>. HIDE DEF h
    <3>1. l \in 0 .. finalizedHeight
      BY <1>5
    <3>. QED  BY <1>g, <1>0, <1>h, <3>1
  <2>3. Base(m, stream[s], finalizedHeight) = l
    BY <1>g DEF Base
  <2>l. l = LastOf(m, stream[s].wire)
    OBVIOUS
  <2>. HIDE DEF l
  <2>4. h <= l + 1 /\ Follows(h, st.ch) /\ LastOf(h, st.ch) = LastOf(l, stream[s].ch)
    BY <1>s, <1>2, <2>1, <2>2, FollowsTail
  <2>5. Follows(m, st.wire) /\ LastOf(m, st.wire) = h
    <3>. HIDE DEF h
    <3>. QED  BY <1>s, <1>2, <2>1, <2>2, <2>l, <2>4, FollowsAppend
  <2>6. Base(m, st, finalizedHeight) = h
    BY <1>2, <2>5 DEF Base
  <2>. QED  BY <1>2, <2>3, <2>4, <2>5, <2>6 DEF Gapless, Tip
<1>7. \A m \in 0 .. finalizedHeight :
        Gapless(m, stream[s], finalizedHeight) =>
          /\ Gapless(m, st, finalizedHeight)
          /\ s \in subscribers' =>
               Tip(m, stream[s], finalizedHeight) <= Tip(m, st, finalizedHeight)
  BY <1>5, <1>6
<1>8. UNCHANGED <<publisherVars, clientVars>> /\ subscribers' = subscribers
  BY DEF SendLive
<1>9. /\ st.state # "none" => st.next > 0
      /\ s \in subscribers' => st.state # "none" /\ ~st.closed
      /\ s \in snapshot /\ s \notin subscribers' => st.closed
  BY <1>2, <1>4, <1>8
<1>. QED  BY <1>1, <1>s, <1>h, <1>a, <1>2, <1>3, <1>7, <1>8, <1>9, HandlerStep

LEMMA HandlerReturnsStep ==
    ASSUME IInv, NEW s \in Streams, HandlerReturns(s)
    PROVE  IInv'
<1>. DEFINE st == [stream[s] EXCEPT !.state = "none", !.ch = <<>>,
                                    !.closed = @ \/ s \in subscribers]
<1>0. TypeOK /\ finalizedHeight \in Nat /\ RegisteredInv
  BY DEF IInv, TypeOK
<1>1. /\ stream[s] \in StreamType /\ stream[s].next \in Nat /\ stream[s].upTo \in Nat
      /\ stream[s].upTo <= finalizedHeight /\ finalizedHeight \in 0 .. finalizedHeight
      /\ stream[s].upTo \in 0 .. finalizedHeight
  <2>1. stream[s].upTo \in 0 .. finalizedHeight
    BY <1>0, StreamFields
  <2>. QED  BY <1>0, <2>1, StreamFields
<1>s. /\ stream[s].ch \in Seq(1 .. finalizedHeight) /\ stream[s].ch \in Seq(Int)
      /\ stream[s].wire \in Seq(1 .. finalizedHeight) /\ stream[s].wire \in Seq(Int)
      /\ Len(stream[s].ch) <= Buffer /\ Len(stream[s].wire) <= Window
  BY <1>0, StreamFields
<1>b. (stream[s].closed \/ s \in subscribers) \in BOOLEAN /\ <<>> \in Seq(1 .. finalizedHeight)
  OBVIOUS
<1>2. /\ st \in StreamType /\ st.state = "none"
      /\ st.owner = stream[s].owner /\ st.cancelled = stream[s].cancelled
      /\ st.ch = <<>> /\ st.wire = stream[s].wire
      /\ st.closed = (stream[s].closed \/ s \in subscribers)
  BY <1>1, <1>b DEF StreamType
<1>3. stream' = [stream EXCEPT ![s] = st]
  BY <1>0 DEF TypeOK, HandlerReturns, Unsubscribe
<1>. HIDE DEF st
<1>4. Len(st.ch) <= Buffer /\ (s \in snapshot => st.closed)
  <2>1. s \in snapshot => stream[s].closed \/ s \in subscribers
    BY <1>0 DEF RegisteredInv
  <2>2. s \in snapshot => st.closed
    BY <1>2, <2>1, Zenon
  <2>. QED  BY <1>2, <2>2
<1>7. \A m \in 0 .. finalizedHeight :
        Gapless(m, stream[s], finalizedHeight) => Gapless(m, st, finalizedHeight)
  BY <1>2 DEF Gapless
<1>8. /\ UNCHANGED <<publisherVars, clientVars>>
      /\ subscribers' = subscribers \ {s} /\ s \notin subscribers'
  BY DEF HandlerReturns, Unsubscribe
<1>. QED  BY <1>1, <1>s, <1>2, <1>3, <1>4, <1>7, <1>8, HandlerStep

LEMMA HandlerSteps ==
    ASSUME IInv, NEW s \in Streams, Handler(s)
    PROVE  IInv'
BY ReadFinalizedHeightStep, SendHistoryStep, GoLiveStep, SendLiveStep, HandlerReturnsStep
   DEF Handler

-----------------------------------------------------------------------------
(***************************************************************************)
(* The publisher's steps.                                                  *)
(***************************************************************************)

(* A step that leaves the streams and the indexers alone and asks no more of a channel *)
(* than was asked before. *)
LEMMA PublisherStep ==
    ASSUME IInv, UNCHANGED <<finalizedHeight, stream, clientVars>>,
           node' \in {"down", "sync", "committed", "publish", "stopping"},
           subscribers' \subseteq subscribers,
           \/ snapshot' \subseteq subscribers'
           \/ snapshot' \subseteq snapshot /\ subscribers' = subscribers,
           slow' \in SUBSET Streams,
           PublisherInv',
           \A s \in subscribers' : Due(s)' <= Due(s) \/ Due(s)' <= 0
    PROVE  IInv'
<1>0. UNCHANGED <<finalizedHeight, stream, client, indexed, losses>>
  BY DEF clientVars
<1>1. TypeOK'
  <2>1. StreamType' = StreamType
    BY <1>0 DEF StreamType
  <2>. QED  BY <1>0, <2>1 DEF IInv, TypeOK
<1>2. RegisteredInv' /\ PrefixInv'
  BY <1>0 DEF IInv, RegisteredInv, PrefixInv
<1>3. ASSUME NEW c \in Clients, (client[c].stream # None)'
      PROVE  ReaderInv(c, client[c].stream)'
  <2>1. PICK t \in Streams : t = client[c].stream /\ ReaderInv(c, t)
    BY <1>0, <1>3, ReaderFacts
  <2>2. PICK m \in 0 .. finalizedHeight : m = client[c].lastIndexed
    BY ReaderFacts
  <2>3. client'[c].stream = t /\ client'[c].lastIndexed = m /\ stream' = stream
    BY <1>0, <2>1, <2>2
  <2>4. /\ stream[t].owner = c /\ ~stream[t].cancelled /\ Gapless(m, stream[t], finalizedHeight)
        /\ t \in subscribers => Due(t) <= Tip(m, stream[t], finalizedHeight)
    BY <2>1, <2>2 DEF ReaderInv
  <2>5. Tip(m, stream[t], finalizedHeight) \in Nat /\ Due(t) \in Int /\ Due(t)' \in Int
    <3>1. TypeOK /\ finalizedHeight \in Nat
      BY DEF IInv, TypeOK
    <3>2. Tip(m, stream[t], finalizedHeight) \in 0 .. finalizedHeight
      BY <3>1, StreamFields, TipType
    <3>. QED  BY <1>0, <3>1, <3>2 DEF Due
  <2>6. t \in subscribers' => Due(t)' <= Tip(m, stream[t], finalizedHeight)
    BY <2>4, <2>5
  <2>. QED  BY <1>0, <2>3, <2>4, <2>6 DEF ReaderInv
<1>. QED  BY <1>1, <1>2, <1>3 DEF IInv

LEMMA QuietPublisherSteps ==
    ASSUME IInv,
           StartNode \/ TakeSnapshot \/ SyncChainFails \/ GracefulStop
             \/ \E s \in Streams : SendTimeout(s)
    PROVE  IInv'
<1>0. PublisherInv /\ finalizedHeight \in Nat
      /\ subscribers \subseteq Streams /\ slow \subseteq Streams
  BY DEF IInv, TypeOK
<1>1. CASE StartNode
  <2>1. PublisherInv'
    BY <1>1 DEF StartNode, PublisherInv
  <2>2. \A s \in subscribers' : Due(s)' <= Due(s) \/ Due(s)' <= 0
    BY <1>1 DEF StartNode
  <2>3. subscribers' \subseteq subscribers /\ snapshot' \subseteq subscribers'
        /\ slow' \in SUBSET Streams
        /\ node' \in {"down", "sync", "committed", "publish", "stopping"}
        /\ UNCHANGED <<finalizedHeight, stream, clientVars>>
    BY <1>1 DEF StartNode
  <2>. QED  BY <2>1, <2>2, <2>3, PublisherStep
<1>2. CASE TakeSnapshot
  <2>1. PublisherInv'
    BY <1>0, <1>2 DEF TakeSnapshot, PublisherInv
  <2>2. \A s \in subscribers' : Due(s)' = finalizedHeight - 1 /\ Due(s) = finalizedHeight - 1
    BY <1>2 DEF TakeSnapshot, Due
  <2>3. \A s \in subscribers' : Due(s)' <= Due(s)
    BY <1>0, <2>2
  <2>. QED  BY <1>0, <1>2, <2>1, <2>3, PublisherStep DEF TakeSnapshot
<1>3. CASE SyncChainFails
  <2>1. PublisherInv'
    BY <1>0, <1>3 DEF SyncChainFails, PublisherInv
  <2>2. \A s \in subscribers' : Due(s)' = finalizedHeight /\ Due(s) = finalizedHeight
    BY <1>0, <1>3 DEF SyncChainFails, PublisherInv, Due
  <2>3. \A s \in subscribers' : Due(s)' <= Due(s)
    BY <1>0, <2>2
  <2>. QED  BY <1>0, <1>3, <2>1, <2>3, PublisherStep DEF SyncChainFails
<1>4. CASE GracefulStop
  <2>1. PublisherInv'
    BY <1>0, <1>4 DEF GracefulStop, PublisherInv
  <2>2. \A s \in subscribers' : Due(s)' = finalizedHeight /\ Due(s) = finalizedHeight
    BY <1>0, <1>4 DEF GracefulStop, PublisherInv, Due
  <2>3. \A s \in subscribers' : Due(s)' <= Due(s)
    BY <1>0, <2>2
  <2>. QED  BY <1>0, <1>4, <2>1, <2>3, PublisherStep DEF GracefulStop
<1>5. CASE \E s \in Streams : SendTimeout(s)
  <2>. PICK s \in Streams : SendTimeout(s)
    BY <1>5
  <2>1. PublisherInv'
    BY <1>0 DEF SendTimeout, PublisherInv
  <2>2. Due(s)' = 0
    BY DEF SendTimeout, Due
  <2>3. \A t \in subscribers' \ {s} : Due(t)' = Due(t) /\ Due(t) \in Int
    BY <1>0 DEF SendTimeout, Due
  <2>4. \A t \in subscribers' : Due(t)' <= Due(t) \/ Due(t)' <= 0
    BY <2>2, <2>3
  <2>5. slow' \in SUBSET Streams /\ snapshot' \subseteq snapshot
    BY <1>0 DEF SendTimeout
  <2>. QED  BY <1>0, <2>1, <2>4, <2>5, PublisherStep DEF SendTimeout
<1>. QED  BY <1>1, <1>2, <1>3, <1>4, <1>5

(* A step that leaves the indexers alone and every stream without a gap. *)
LEMMA ServingStep ==
    ASSUME IInv, UNCHANGED clientVars, TypeOK', PublisherInv', RegisteredInv',
           finalizedHeight' \in {finalizedHeight, finalizedHeight + 1},
           \A t \in Streams : stream'[t].owner = stream[t].owner
                               /\ stream'[t].cancelled = stream[t].cancelled,
           \A t \in Streams, m \in 0 .. finalizedHeight :
             /\ Gapless(m, stream[t], finalizedHeight)
             /\ t \in subscribers => Due(t) <= Tip(m, stream[t], finalizedHeight)
             => /\ Gapless(m, stream'[t], finalizedHeight')
                /\ t \in subscribers' => Due(t)' <= Tip(m, stream'[t], finalizedHeight')
    PROVE  IInv'
<1>0. UNCHANGED <<client, indexed, losses>>
  BY DEF clientVars
<1>1. PrefixInv'
  <2>. SUFFICES ASSUME NEW c \in Clients
                PROVE  \E n \in 0 .. finalizedHeight' :
                         indexed[c] = 1 .. n /\ client[c].lastIndexed \in 0 .. n
    BY <1>0 DEF PrefixInv
  <2>1. PICK n \in 0 .. finalizedHeight :
           indexed[c] = 1 .. n /\ client[c].lastIndexed \in 0 .. n
    BY DEF IInv, PrefixInv
  <2>2. finalizedHeight \in Nat
    BY DEF IInv, TypeOK
  <2>3. n \in 0 .. finalizedHeight'
    BY <2>2
  <2>. QED  BY <2>1, <2>3
<1>2. ASSUME NEW c \in Clients, (client[c].stream # None)'
      PROVE  ReaderInv(c, client[c].stream)'
  <2>1. PICK t \in Streams : t = client[c].stream /\ ReaderInv(c, t)
    BY <1>0, <1>2, ReaderFacts
  <2>2. PICK m \in 0 .. finalizedHeight : m = client[c].lastIndexed
    BY ReaderFacts
  <2>3. client'[c].stream = t /\ client'[c].lastIndexed = m
    BY <1>0, <2>1, <2>2
  <2>4. /\ stream[t].owner = c /\ ~stream[t].cancelled /\ Gapless(m, stream[t], finalizedHeight)
        /\ t \in subscribers => Due(t) <= Tip(m, stream[t], finalizedHeight)
    BY <2>1, <2>2 DEF ReaderInv
  <2>5. /\ stream'[t].owner = c /\ ~stream'[t].cancelled
        /\ Gapless(m, stream'[t], finalizedHeight')
        /\ t \in subscribers' => Due(t)' <= Tip(m, stream'[t], finalizedHeight')
    BY <2>4
  <2>. QED  BY <2>3, <2>5 DEF ReaderInv
<1>. QED  BY <1>1, <1>2 DEF IInv

LEMMA KillStep ==
    ASSUME IInv, Kill
    PROVE  IInv'
<1>. USE DEF Kill
<1>0. /\ TypeOK /\ finalizedHeight' = finalizedHeight /\ UNCHANGED <<client, indexed, losses>>
      /\ stream \in [Streams -> StreamType]
  BY DEF IInv, TypeOK, clientVars
<1>1. \A t \in Streams :
        /\ stream'[t] \in StreamType /\ stream'[t].state = "none" /\ stream'[t].ch = <<>>
        /\ stream'[t].wire = stream[t].wire /\ stream'[t].owner = stream[t].owner
        /\ stream'[t].cancelled = stream[t].cancelled
  <2>. SUFFICES ASSUME NEW t \in Streams, NEW st, st = [stream[t] EXCEPT !.state = "none", !.ch = <<>>]
                PROVE  /\ st \in StreamType /\ st.state = "none" /\ st.ch = <<>>
                       /\ st.wire = stream[t].wire /\ st.owner = stream[t].owner
                       /\ st.cancelled = stream[t].cancelled
    BY <1>0
  <2>1. stream[t] \in StreamType /\ <<>> \in Seq(1 .. finalizedHeight)
    BY <1>0, NoHeaders
  <2>. QED  BY <2>1 DEF StreamType
<1>2. TypeOK'
  <2>1. StreamType' = StreamType
    BY <1>0 DEF StreamType
  <2>2. stream' \in [Streams -> StreamType]
    BY <1>1
  <2>3. \A t \in Streams : Len(stream'[t].ch) <= Buffer /\ Len(stream'[t].wire) <= Window
    <3>1. \A t \in Streams : Len(stream'[t].ch) <= Buffer
      <4>. HIDE DEF Kill
      <4>. QED  BY <1>1
    <3>. QED  BY <1>0, <1>1, <3>1 DEF TypeOK
  <2>. QED  BY <1>0, <2>1, <2>2, <2>3 DEF TypeOK
<1>3. PublisherInv' /\ RegisteredInv'
  BY <1>1 DEF PublisherInv, RegisteredInv
<1>4. \A t \in Streams, m \in 0 .. finalizedHeight :
        Gapless(m, stream[t], finalizedHeight) => Gapless(m, stream'[t], finalizedHeight')
  BY <1>1 DEF Gapless
<1>. QED  BY <1>0, <1>1, <1>2, <1>3, <1>4, ServingStep

LEMMA DisconnectSlowStep ==
    ASSUME IInv, DisconnectSlow
    PROVE  IInv'
<1>. USE DEF DisconnectSlow
<1>0. /\ TypeOK /\ finalizedHeight' = finalizedHeight /\ UNCHANGED <<client, indexed, losses>>
      /\ stream \in [Streams -> StreamType] /\ RegisteredInv /\ finalizedHeight \in Nat
      /\ subscribers \subseteq Streams
  BY DEF IInv, TypeOK, clientVars
<1>1. \A t \in Streams :
        /\ stream'[t] \in StreamType /\ stream'[t].state = stream[t].state
        /\ stream'[t].ch = stream[t].ch /\ stream'[t].next = stream[t].next
        /\ stream'[t].upTo = stream[t].upTo
        /\ stream'[t].wire = stream[t].wire /\ stream'[t].owner = stream[t].owner
        /\ stream'[t].cancelled = stream[t].cancelled
        /\ t \notin slow => stream'[t] = stream[t]
  <2>. SUFFICES ASSUME NEW t \in Streams, NEW st,
                       st = [stream[t] EXCEPT !.closed = TRUE] \/ st = stream[t]
                PROVE  /\ st \in StreamType /\ st.state = stream[t].state
                       /\ st.ch = stream[t].ch /\ st.next = stream[t].next
                       /\ st.upTo = stream[t].upTo
                       /\ st.wire = stream[t].wire /\ st.owner = stream[t].owner
                       /\ st.cancelled = stream[t].cancelled
    BY <1>0
  <2>1. stream[t] \in StreamType
    BY <1>0
  <2>. QED  BY <2>1 DEF StreamType
<1>2. TypeOK'
  <2>1. StreamType' = StreamType
    BY <1>0 DEF StreamType
  <2>2. stream' \in [Streams -> StreamType]
    BY <1>1
  <2>3. \A t \in Streams : Len(stream'[t].ch) <= Buffer /\ Len(stream'[t].wire) <= Window
    BY <1>0, <1>1 DEF TypeOK
  <2>. QED  BY <1>0, <2>1, <2>2, <2>3 DEF TypeOK
<1>3. PublisherInv' /\ RegisteredInv'
  BY <1>0, <1>1 DEF PublisherInv, RegisteredInv
<1>4. \A t \in subscribers' : t \in subscribers /\ Due(t)' = Due(t)
  BY <1>0 DEF Due
<1>5. \A t \in Streams, m \in 0 .. finalizedHeight :
        /\ Gapless(m, stream[t], finalizedHeight) => Gapless(m, stream'[t], finalizedHeight')
        /\ Tip(m, stream'[t], finalizedHeight') = Tip(m, stream[t], finalizedHeight)
  BY <1>0, <1>1 DEF Gapless, Tip, Base
<1>. QED  BY <1>0, <1>1, <1>2, <1>3, <1>4, <1>5, ServingStep

LEMMA CommitStep ==
    ASSUME IInv, Commit
    PROVE  IInv'
<1>. DEFINE f == finalizedHeight
<1>0. /\ TypeOK /\ f \in Nat /\ f < MaxHeight /\ finalizedHeight' = f + 1 /\ f + 1 \in Nat
      /\ node = "sync" /\ node' = "committed"
      /\ UNCHANGED <<snapshot, slow, subscribers, stream, client, indexed, losses>>
      /\ snapshot = {} /\ slow = {} /\ RegisteredInv
  BY DEF IInv, TypeOK, clientVars, PublisherInv, Commit
<1>1. 1 .. f \subseteq 1 .. f + 1 /\ 0 .. f \subseteq 0 .. f + 1 /\ f + 1 \in 0 .. MaxHeight
  BY <1>0
<1>2. TypeOK'
  <2>1. ASSUME NEW t \in Streams PROVE stream[t] \in StreamType'
    <3>1. /\ stream[t] \in StreamType /\ stream[t].upTo \in 0 .. f
          /\ stream[t].ch \in Seq(1 .. f) /\ stream[t].wire \in Seq(1 .. f)
      BY <1>0, StreamFields
    <3>2. /\ stream[t].upTo \in 0 .. f + 1
          /\ stream[t].ch \in Seq(1 .. f + 1) /\ stream[t].wire \in Seq(1 .. f + 1)
      <4>. HIDE DEF f
      <4>1. stream[t].ch \in Seq(1 .. f + 1) /\ stream[t].wire \in Seq(1 .. f + 1)
        BY <1>0, <3>1, SeqGrow
      <4>. QED  BY <1>1, <3>1, <4>1
    <3>3. StreamType' = [state : {"none", "subscribed", "history", "live"},
                         owner : Clients \cup {None}, next : Nat, upTo : 0 .. f + 1,
                         ch : Seq(1 .. f + 1), closed : BOOLEAN,
                         wire : Seq(1 .. f + 1), cancelled : BOOLEAN]
      BY <1>0 DEF StreamType
    <3>. HIDE DEF f
    <3>. QED  BY <3>1, <3>2, <3>3 DEF StreamType
  <2>2. stream' \in [Streams -> StreamType']
    BY <1>0, <2>1 DEF TypeOK
  <2>. QED  BY <1>0, <1>1, <2>2 DEF TypeOK
<1>3. PublisherInv' /\ RegisteredInv'
  <2>1. finalizedHeight' > 0
    BY <1>0
  <2>. QED  BY <1>0, <2>1 DEF PublisherInv, RegisteredInv
<1>4. ASSUME NEW t \in Streams, NEW m \in 0 .. f, Gapless(m, stream[t], f),
             t \in subscribers => Due(t) <= Tip(m, stream[t], f)
      PROVE  /\ Gapless(m, stream[t], f + 1)
             /\ t \in subscribers => Due(t)' <= Tip(m, stream[t], f + 1)
  <2>1. /\ stream[t].ch \in Seq(Int) /\ stream[t].upTo \in 0 .. f
        /\ stream[t].ch \in Seq(1 .. f) /\ stream[t].wire \in Seq(1 .. f)
    BY <1>0, StreamFields
  <2>2. Base(m, stream[t], f) \in 0 .. f /\ Tip(m, stream[t], f) \in 0 .. f
    BY <1>0, <2>1, TipType
  <2>3. \/ Base(m, stream[t], f + 1) = Base(m, stream[t], f)
        \/ Base(m, stream[t], f) = f /\ Base(m, stream[t], f + 1) = f + 1
    BY DEF Base
  <2>4. Base(m, stream[t], f + 1) \in Int /\ Base(m, stream[t], f) \in Int
        /\ Base(m, stream[t], f) <= Base(m, stream[t], f + 1)
    BY <1>0, <2>2, <2>3
  <2>5. stream[t].state # "none" => Follows(Base(m, stream[t], f + 1), stream[t].ch)
    BY <1>4, <2>1, <2>4, FollowsWeaken DEF Gapless
  <2>6. Tip(m, stream[t], f) <= Tip(m, stream[t], f + 1) /\ Tip(m, stream[t], f + 1) \in Int
    <3>1. CASE stream[t].ch = <<>>
      BY <2>4, <3>1 DEF Tip, LastOf
    <3>2. CASE stream[t].ch # <<>>
      <4>1. Tip(m, stream[t], f) = Tip(m, stream[t], f + 1)
        BY <3>2 DEF Tip, LastOf
      <4>. QED  BY <1>0, <2>2, <4>1
    <3>. QED  BY <3>1, <3>2
  <2>7. Due(t) = f /\ Due(t)' = f
    BY <1>0 DEF Due
  <2>8. t \in subscribers => f <= Tip(m, stream[t], f + 1)
    BY <1>0, <1>4, <2>2, <2>6, <2>7
  <2>. QED  BY <1>4, <2>5, <2>7, <2>8 DEF Gapless
<1>5. \A t \in Streams, m \in 0 .. finalizedHeight :
        /\ Gapless(m, stream[t], finalizedHeight)
        /\ t \in subscribers => Due(t) <= Tip(m, stream[t], finalizedHeight)
        => /\ Gapless(m, stream'[t], finalizedHeight')
           /\ t \in subscribers' => Due(t)' <= Tip(m, stream'[t], finalizedHeight')
  BY <1>0, <1>4
<1>6. UNCHANGED clientVars /\ finalizedHeight' \in {finalizedHeight, finalizedHeight + 1}
      /\ \A t \in Streams : stream'[t].owner = stream[t].owner
                            /\ stream'[t].cancelled = stream[t].cancelled
  BY <1>0 DEF clientVars
<1>. QED  BY <1>2, <1>3, <1>5, <1>6, ServingStep

LEMMA SendStep ==
    ASSUME IInv, NEW s \in Streams, Send(s)
    PROVE  IInv'
<1>. DEFINE f == finalizedHeight
            st == [stream[s] EXCEPT !.ch = Append(@, f)]
<1>0. /\ TypeOK /\ f \in Nat /\ finalizedHeight' = f /\ node = "publish" /\ node' = node
      /\ s \in snapshot /\ snapshot' = snapshot \ {s}
      /\ UNCHANGED <<slow, subscribers, client, indexed, losses>>
      /\ PublisherInv /\ RegisteredInv /\ stream \in [Streams -> StreamType]
      /\ UNCHANGED clientVars
  BY DEF IInv, TypeOK, clientVars, Send
<1>1. f \in 1 .. f
  BY <1>0 DEF PublisherInv
<1>2. StreamType' = StreamType /\ PublisherInv'
  BY <1>0 DEF StreamType, PublisherInv
<1>3. CASE stream[s].closed /\ UNCHANGED stream
  <2>1. TypeOK' /\ RegisteredInv'
    BY <1>0, <1>2, <1>3 DEF TypeOK, RegisteredInv
  <2>2. s \notin subscribers
    BY <1>0, <1>3 DEF RegisteredInv
  <2>3. \A t \in subscribers : Due(t)' = Due(t)
    BY <1>0, <2>2 DEF Due
  <2>. QED  BY <1>0, <1>2, <1>3, <2>1, <2>3, ServingStep
<1>4. CASE ~stream[s].closed /\ Len(stream[s].ch) < Buffer /\ stream' = [stream EXCEPT ![s] = st]
  <2>1. /\ stream[s] \in StreamType /\ stream[s].upTo \in 0 .. f
        /\ stream[s].ch \in Seq(1 .. f) /\ stream[s].ch \in Seq(Int)
        /\ stream[s].wire \in Seq(1 .. f)
    BY <1>0, StreamFields
  <2>2. Append(stream[s].ch, f) \in Seq(1 .. f) /\ Len(Append(stream[s].ch, f)) <= Buffer
    <3>. HIDE DEF f
    <3>. QED  BY <1>1, <1>4, <2>1
  <2>3. /\ st \in StreamType /\ st.state = stream[s].state /\ st.upTo = stream[s].upTo
        /\ st.owner = stream[s].owner /\ st.cancelled = stream[s].cancelled
        /\ st.closed = stream[s].closed /\ st.next = stream[s].next
        /\ st.ch = Append(stream[s].ch, f) /\ st.wire = stream[s].wire
    BY <2>1, <2>2 DEF StreamType
  <2>4. stream'[s] = st /\ \A t \in Streams \ {s} : stream'[t] = stream[t]
    BY <1>0, <1>4
  <2>. HIDE DEF st
  <2>5. TypeOK'
    <3>1. stream' \in [Streams -> StreamType]
      BY <1>0, <1>4, <2>3
    <3>2. \A t \in Streams : Len(stream'[t].ch) <= Buffer /\ Len(stream'[t].wire) <= Window
      BY <1>0, <2>2, <2>3, <2>4 DEF TypeOK
    <3>. QED  BY <1>0, <1>2, <3>1, <3>2 DEF TypeOK
  <2>6. RegisteredInv'
    <3>1. subscribers \subseteq Streams /\ snapshot \subseteq Streams
      BY <1>0 DEF TypeOK
    <3>2. \A t \in Streams : /\ stream'[t].state = stream[t].state
                             /\ stream'[t].closed = stream[t].closed
                             /\ stream'[t].next = stream[t].next
      BY <2>3, <2>4
    <3>. QED  BY <1>0, <3>1, <3>2 DEF RegisteredInv
  <2>7. s \in subscribers /\ stream[s].state # "none"
    BY <1>0, <1>4 DEF RegisteredInv
  <2>8. ASSUME NEW m \in 0 .. f, Gapless(m, stream[s], f), Due(s) <= Tip(m, stream[s], f)
        PROVE  Gapless(m, st, f) /\ Due(s)' <= Tip(m, st, f)
    <3>. DEFINE b == Base(m, stream[s], f)
    <3>1. Base(m, st, f) = b
      BY <2>3 DEF Base
    <3>2. b \in 0 .. f /\ Tip(m, stream[s], f) \in 0 .. f
      BY <1>0, <2>1, TipType
    <3>3. f - 1 <= LastOf(b, stream[s].ch) /\ LastOf(b, stream[s].ch) \in 0 .. f
      BY <1>0, <2>8, <3>2 DEF Due, Tip
    <3>4. Follows(b, stream[s].ch)
      BY <2>7, <2>8 DEF Gapless
    <3>5. b \in Int /\ f \in Int /\ f <= LastOf(b, stream[s].ch) + 1
      BY <1>0, <3>2, <3>3
    <3>. HIDE DEF b
    <3>6. LastOf(b, st.ch) = f /\ Follows(b, st.ch)
      <4>. HIDE DEF f
      <4>. QED  BY <2>1, <2>3, <3>4, <3>5, FollowsAppend
    <3>7. Gapless(m, st, f)
      BY <2>3, <2>8, <3>1, <3>6 DEF Gapless
    <3>8. Due(s)' <= f
      BY <1>0 DEF Due
    <3>. QED  BY <3>1, <3>6, <3>7, <3>8 DEF Tip
  <2>9. \A t \in Streams \ {s} : Due(t)' = Due(t)
    BY <1>0 DEF Due
  <2>10. \A t \in Streams, m \in 0 .. f :
           /\ Gapless(m, stream[t], f)
           /\ t \in subscribers => Due(t) <= Tip(m, stream[t], f)
           => /\ Gapless(m, stream'[t], f)
              /\ t \in subscribers' => Due(t)' <= Tip(m, stream'[t], f)
    BY <1>0, <2>4, <2>7, <2>8, <2>9
  <2>11. \A t \in Streams : stream'[t].owner = stream[t].owner
                             /\ stream'[t].cancelled = stream[t].cancelled
    BY <2>3, <2>4
  <2>. QED  BY <1>0, <1>2, <2>5, <2>6, <2>10, <2>11, ServingStep
<1>5. \/ ~stream[s].closed /\ Len(stream[s].ch) < Buffer /\ stream' = [stream EXCEPT ![s] = st]
      \/ stream[s].closed /\ UNCHANGED stream
  BY <1>0 DEF Send
<1>. QED  BY <1>3, <1>4, <1>5

-----------------------------------------------------------------------------
(***************************************************************************)
(* The steps of an indexer, which touch no stream another indexer reads.   *)
(***************************************************************************)
LEMMA IndexerStep ==
    ASSUME IInv, NEW c \in Clients, UNCHANGED publisherVars,
           TypeOK', RegisteredInv', PrefixInv',
           \A d \in Clients \ {c} : client'[d] = client[d],
           \A t \in Streams : (\E d \in Clients \ {c} : client[d].stream = t /\ t # None) =>
              stream'[t] = stream[t] /\ (t \in subscribers' => t \in subscribers),
           (client[c].stream # None)' => ReaderInv(c, client[c].stream)'
    PROVE  IInv'
<1>0. UNCHANGED <<node, finalizedHeight, snapshot, slow>>
  BY DEF publisherVars
<1>1. PublisherInv'
  BY <1>0 DEF IInv, PublisherInv
<1>2. ASSUME NEW d \in Clients, (client[d].stream # None)'
      PROVE  ReaderInv(d, client[d].stream)'
  <2>1. CASE d = c
    BY <1>2, <2>1
  <2>2. CASE d # c
    <3>1. client'[d] = client[d]
      BY <2>2
    <3>2. PICK t \in Streams : t = client[d].stream /\ t # None /\ ReaderInv(d, t)
      BY <1>2, <3>1, ReaderFacts
    <3>3. stream'[t] = stream[t] /\ (t \in subscribers' => t \in subscribers) /\ Due(t)' = Due(t)
      BY <1>0, <2>2, <3>2 DEF Due
    <3>. QED  BY <1>0, <3>1, <3>2, <3>3 DEF ReaderInv
  <2>. QED  BY <2>1, <2>2
<1>. QED  BY <1>1, <1>2 DEF IInv

(* Only the owner reads a stream. *)
LEMMA Owners ==
    ASSUME IInv, NEW c \in Clients, client[c].stream # None
    PROVE  stream[client[c].stream].owner = c
BY ReaderFacts DEF ReaderInv

LEMMA SubscribeStep ==
    ASSUME IInv, NEW c \in Clients, NEW s \in Streams, SubscribeToHeaders(c, s)
    PROVE  IInv'
<1>. DEFINE m == client[c].lastIndexed
            st == [NewStream EXCEPT !.state = "subscribed", !.owner = c, !.next = m + 1]
<1>0. /\ TypeOK /\ RegisteredInv /\ PrefixInv /\ finalizedHeight \in Nat
      /\ UNCHANGED <<node, finalizedHeight, snapshot, slow, indexed, losses>>
      /\ UNCHANGED publisherVars
      /\ stream' = [stream EXCEPT ![s] = st] /\ subscribers' = subscribers \cup {s}
      /\ client' = [client EXCEPT ![c].stream = s]
      /\ Unused(s)
  BY DEF IInv, TypeOK, publisherVars, SubscribeToHeaders
<1>1. m \in 0 .. finalizedHeight /\ m + 1 \in Nat /\ m + 1 > 0
  <2>1. m \in 0 .. finalizedHeight
    BY ReaderFacts
  <2>. QED  BY <1>0, <2>1
<1>2. /\ st.state = "subscribed" /\ st.owner = c /\ st.next = m + 1 /\ st.upTo = 0
      /\ st.ch = <<>> /\ st.wire = <<>> /\ st.closed = FALSE /\ st.cancelled = FALSE
  BY DEF NewStream
<1>3. st \in StreamType
  BY <1>0, <1>1, NewStreamType DEF StreamType
<1>4. /\ stream'[s] = st /\ \A t \in Streams \ {s} : stream'[t] = stream[t]
      /\ client'[c] = [client[c] EXCEPT !.stream = s]
      /\ \A d \in Clients \ {c} : client'[d] = client[d]
  BY <1>0 DEF TypeOK
<1>. HIDE DEF st
<1>5. client'[c].stream = s /\ client'[c].lastIndexed = m
  BY <1>0, <1>4 DEF TypeOK
<1>6. TypeOK'
  <2>1. StreamType' = StreamType
    BY <1>0 DEF StreamType
  <2>2. stream' \in [Streams -> StreamType]
    BY <1>0, <1>3 DEF TypeOK
  <2>3. \A t \in Streams : Len(stream'[t].ch) <= Buffer /\ Len(stream'[t].wire) <= Window
    BY <1>0, <1>2, <1>4 DEF TypeOK
  <2>4. client' \in [Clients -> [stream : Streams \cup {None}, lastIndexed : 0 .. MaxHeight]]
    BY <1>0 DEF TypeOK
  <2>. QED  BY <1>0, <2>1, <2>2, <2>3, <2>4 DEF TypeOK
<1>7. RegisteredInv'
  <2>1. subscribers \subseteq Streams /\ snapshot \subseteq Streams
    BY <1>0 DEF TypeOK
  <2>2. stream'[s].state # "none" /\ ~stream'[s].closed /\ stream'[s].next > 0
    BY <1>1, <1>2, <1>4
  <2>. QED  BY <1>0, <1>4, <2>1, <2>2 DEF RegisteredInv
<1>8. PrefixInv'
  <2>1. \A d \in Clients : client'[d].lastIndexed = client[d].lastIndexed
    BY <1>4, <1>5
  <2>. QED  BY <1>0, <2>1 DEF PrefixInv
<1>9. ReaderInv(c, client[c].stream)'
  <2>1. Gapless(m, st, finalizedHeight) /\ Tip(m, st, finalizedHeight) = finalizedHeight
    BY <1>2 DEF Gapless, Tip, Base, LastOf, Follows
  <2>2. Due(s)' <= finalizedHeight
    BY <1>0 DEF Due, Unused
  <2>. QED  BY <1>0, <1>2, <1>4, <1>5, <2>1, <2>2 DEF ReaderInv
<1>10. \A t \in Streams : (\E d \in Clients \ {c} : client[d].stream = t /\ t # None) =>
          stream'[t] = stream[t] /\ (t \in subscribers' => t \in subscribers)
  BY <1>0, <1>4 DEF Unused
<1>. QED  BY <1>0, <1>4, <1>6, <1>7, <1>8, <1>9, <1>10, IndexerStep

(* An indexer takes the next header from the stream it reads. *)
LEMMA PopWire ==
    ASSUME IInv, NEW c \in Clients, NEW s \in Streams, s = client[c].stream, s # None,
           stream[s].wire # <<>>, stream' = [stream EXCEPT ![s].wire = Tail(@)],
           UNCHANGED <<finalizedHeight, snapshot, subscribers>>
    PROVE  /\ stream' \in [Streams -> StreamType']
           /\ \A t \in Streams : Len(stream'[t].ch) <= Buffer /\ Len(stream'[t].wire) <= Window
           /\ RegisteredInv'
           /\ Head(stream[s].wire) \in 1 .. finalizedHeight
           /\ stream'[s] = [stream[s] EXCEPT !.wire = Tail(@)]
           /\ \A d \in Clients \ {c} : client[d].stream # s
           /\ \A t \in Streams \ {s} : stream'[t] = stream[t]
<1>. DEFINE st == [stream[s] EXCEPT !.wire = Tail(@)]
<1>0. TypeOK /\ RegisteredInv /\ stream \in [Streams -> StreamType]
  BY DEF IInv, TypeOK
<1>1. stream' = [stream EXCEPT ![s] = st]
  BY <1>0
<1>2. /\ stream[s] \in StreamType /\ stream[s].wire \in Seq(1 .. finalizedHeight)
      /\ Len(stream[s].wire) <= Window
  BY <1>0, StreamFields
<1>3. /\ Head(stream[s].wire) \in 1 .. finalizedHeight
      /\ Tail(stream[s].wire) \in Seq(1 .. finalizedHeight)
      /\ Len(Tail(stream[s].wire)) <= Window
  BY <1>2, HeadTail
<1>4. /\ st \in StreamType /\ st.state = stream[s].state /\ st.next = stream[s].next
      /\ st.closed = stream[s].closed /\ st.ch = stream[s].ch /\ st.wire = Tail(stream[s].wire)
  BY <1>2, <1>3 DEF StreamType
<1>5. stream'[s] = st /\ \A t \in Streams \ {s} : stream'[t] = stream[t]
  BY <1>0, <1>1
<1>6. stream' \in [Streams -> StreamType']
  <2>1. StreamType' = StreamType
    BY DEF StreamType
  <2>. HIDE DEF st
  <2>. QED  BY <1>0, <1>1, <1>4, <2>1
<1>7. \A d \in Clients \ {c} : client[d].stream # s
  BY Owners
<1>8. st = [stream[s] EXCEPT !.wire = Tail(@)]
  OBVIOUS
<1>. HIDE DEF st
<1>9. \A t \in Streams : Len(stream'[t].ch) <= Buffer /\ Len(stream'[t].wire) <= Window
  BY <1>0, <1>3, <1>4, <1>5 DEF TypeOK
<1>10. RegisteredInv'
  <2>1. subscribers \subseteq Streams /\ snapshot \subseteq Streams
    BY <1>0 DEF TypeOK
  <2>2. \A t \in Streams : /\ stream'[t].state = stream[t].state
                           /\ stream'[t].closed = stream[t].closed
                           /\ stream'[t].next = stream[t].next
    BY <1>4, <1>5
  <2>. QED  BY <1>0, <2>1, <2>2 DEF RegisteredInv
<1>. QED  BY <1>3, <1>5, <1>6, <1>7, <1>8, <1>9, <1>10

LEMMA IndexNextStep ==
    ASSUME IInv, NEW c \in Clients, IndexNext(c)
    PROVE  IInv'
<1>. DEFINE s == client[c].stream
            x == Head(stream[s].wire)
            m == client[c].lastIndexed
            st == [stream[s] EXCEPT !.wire = Tail(@)]
<1>0. /\ TypeOK /\ PrefixInv /\ finalizedHeight \in 0 .. MaxHeight
      /\ UNCHANGED <<node, finalizedHeight, snapshot, slow, subscribers, losses>>
      /\ UNCHANGED publisherVars
      /\ s # None /\ stream[s].wire # <<>>
      /\ stream' = [stream EXCEPT ![s].wire = Tail(@)]
      /\ client' = [client EXCEPT ![c].lastIndexed = x]
      /\ indexed' = [indexed EXCEPT ![c] = @ \cup {x}]
  BY DEF IInv, TypeOK, publisherVars, IndexNext
<1>1. s \in Streams /\ m \in 0 .. finalizedHeight /\ ReaderInv(c, s)
  BY <1>0, ReaderFacts
<1>. HIDE DEF s, x, m
<1>2. /\ stream' \in [Streams -> StreamType']
      /\ \A t \in Streams : Len(stream'[t].ch) <= Buffer /\ Len(stream'[t].wire) <= Window
      /\ RegisteredInv' /\ x \in 1 .. finalizedHeight /\ stream'[s] = st
      /\ \A d \in Clients \ {c} : client[d].stream # s
      /\ \A t \in Streams \ {s} : stream'[t] = stream[t]
  <2>1. s = client[c].stream /\ x = Head(stream[s].wire)
    BY DEF s, x
  <2>. QED  BY <1>0, <1>1, <2>1, PopWire
<1>3. /\ client'[c].stream = s /\ client'[c].lastIndexed = x
      /\ \A d \in Clients \ {c} : client'[d] = client[d] /\ indexed'[d] = indexed[d]
      /\ indexed'[c] = indexed[c] \cup {x}
  BY <1>0 DEF TypeOK, s
<1>4. /\ stream[s] \in StreamType /\ stream[s].wire \in Seq(Int)
      /\ stream[s].owner = c /\ ~stream[s].cancelled /\ Gapless(m, stream[s], finalizedHeight)
      /\ s \in subscribers => Due(s) <= Tip(m, stream[s], finalizedHeight)
  BY <1>0, <1>1, StreamFields DEF ReaderInv, m
<1>5. /\ st.state = stream[s].state /\ st.upTo = stream[s].upTo
      /\ st.owner = c /\ st.cancelled = stream[s].cancelled
      /\ st.next = stream[s].next
      /\ st.ch = stream[s].ch /\ st.wire = Tail(stream[s].wire)
  BY <1>4 DEF StreamType
<1>. HIDE DEF st
<1>6. m \in Int /\ m <= finalizedHeight
  BY <1>0, <1>1
<1>7. /\ x <= m + 1 /\ Follows(x, st.wire)
      /\ LastOf(x, st.wire) = LastOf(m, stream[s].wire)
  BY <1>0, <1>4, <1>5, <1>6, FollowsTail DEF Gapless, x
<1>8. PrefixInv'
  <2>1. ASSUME NEW d \in Clients
        PROVE  \E n \in 0 .. finalizedHeight :
                 indexed'[d] = 1 .. n /\ client'[d].lastIndexed \in 0 .. n
    <3>1. PICK n \in 0 .. finalizedHeight :
             indexed[d] = 1 .. n /\ client[d].lastIndexed \in 0 .. n
      BY <1>0 DEF PrefixInv
    <3>2. CASE d # c
      BY <1>3, <3>1, <3>2
    <3>3. CASE d = c
      <4>0. x \in Nat /\ x \in 0 .. finalizedHeight
        BY <1>0, <1>2
      <4>1. indexed'[c] = (1 .. n) \cup {x} /\ m <= n /\ n \in Nat
        BY <1>0, <1>1, <1>3, <3>1, <3>3 DEF m
      <4>2. CASE x <= n
        <5>1. indexed'[c] = 1 .. n /\ x \in 0 .. n
          BY <1>2, <4>1, <4>2
        <5>. QED  BY <1>3, <3>1, <3>3, <5>1
      <4>3. CASE x > n
        <5>1. x = n + 1
          BY <1>0, <1>2, <1>6, <1>7, <4>1, <4>3
        <5>2. indexed'[c] = 1 .. x /\ x \in 0 .. x /\ x \in 0 .. finalizedHeight
          <6>1. indexed'[c] = (1 .. n) \cup {n + 1} /\ (1 .. n) \cup {n + 1} = 1 .. n + 1
            BY <4>1, <5>1
          <6>. QED  BY <4>0, <5>1, <6>1
        <5>. QED  BY <1>3, <3>3, <5>2
      <4>. QED  BY <4>0, <4>1, <4>2, <4>3
    <3>. QED  BY <3>2, <3>3
  <2>. QED  BY <1>0, <2>1 DEF PrefixInv
<1>9. TypeOK'
  <2>1. x \in 0 .. MaxHeight /\ x \in Heights
    BY <1>0, <1>2 DEF Heights
  <2>2. client' \in [Clients -> [stream : Streams \cup {None}, lastIndexed : 0 .. MaxHeight]]
    BY <1>0, <2>1 DEF TypeOK
  <2>3. indexed' \in [Clients -> SUBSET Heights]
    BY <1>0, <2>1 DEF TypeOK
  <2>. QED  BY <1>0, <1>2, <2>2, <2>3 DEF TypeOK
<1>10. ReaderInv(c, client[c].stream)'
  <2>1. stream[s].state # "subscribed"
    BY <1>0, <1>4 DEF Gapless
  <2>2. Base(x, st, finalizedHeight) = Base(m, stream[s], finalizedHeight)
    BY <1>5, <1>7, <2>1 DEF Base
  <2>3. Gapless(x, st, finalizedHeight) /\ Tip(x, st, finalizedHeight) = Tip(m, stream[s], finalizedHeight)
    BY <1>4, <1>5, <1>7, <2>1, <2>2 DEF Gapless, Tip
  <2>4. PICK t \in Streams : t = s
    BY <1>1
  <2>5. Due(t)' = Due(t) /\ client'[c].stream = t /\ stream'[t] = st
    BY <1>0, <1>2, <1>3, <2>4 DEF Due
  <2>6. /\ stream'[t].owner = c /\ ~stream'[t].cancelled
        /\ Gapless(x, stream'[t], finalizedHeight)
        /\ t \in subscribers => Due(t)' <= Tip(x, stream'[t], finalizedHeight)
    BY <1>4, <1>5, <2>3, <2>4, <2>5
  <2>. QED  BY <1>0, <1>3, <2>5, <2>6 DEF ReaderInv
<1>. QED  BY <1>0, <1>2, <1>3, <1>8, <1>9, <1>10, IndexerStep

LEMMA IndexFailsStep ==
    ASSUME IInv, NEW c \in Clients, IndexFails(c)
    PROVE  IInv'
<1>. DEFINE s == client[c].stream
<1>0. /\ TypeOK /\ PrefixInv
      /\ UNCHANGED <<node, finalizedHeight, snapshot, slow, subscribers, indexed, losses>>
      /\ UNCHANGED publisherVars
      /\ s # None /\ stream[s].wire # <<>>
      /\ stream' = [stream EXCEPT ![s].wire = Tail(@)]
      /\ client' = [client EXCEPT ![c].stream = None]
  BY DEF IInv, TypeOK, publisherVars, IndexFails
<1>1. s \in Streams
  BY <1>0, ReaderFacts
<1>. HIDE DEF s
<1>2. /\ stream' \in [Streams -> StreamType']
      /\ \A t \in Streams : Len(stream'[t].ch) <= Buffer /\ Len(stream'[t].wire) <= Window
      /\ RegisteredInv'
      /\ \A d \in Clients \ {c} : client[d].stream # s
      /\ \A t \in Streams \ {s} : stream'[t] = stream[t]
  <2>1. s = client[c].stream
    BY DEF s
  <2>. QED  BY <1>0, <1>1, <2>1, PopWire
<1>3. /\ client'[c].stream = None
      /\ \A d \in Clients : client'[d].lastIndexed = client[d].lastIndexed
      /\ \A d \in Clients \ {c} : client'[d] = client[d]
      /\ client' \in [Clients -> [stream : Streams \cup {None}, lastIndexed : 0 .. MaxHeight]]
  BY <1>0 DEF TypeOK
<1>4. TypeOK' /\ PrefixInv'
  BY <1>0, <1>2, <1>3 DEF TypeOK, PrefixInv
<1>. QED  BY <1>0, <1>2, <1>3, <1>4, IndexerStep

LEMMA RecvErrorStep ==
    ASSUME IInv, NEW c \in Clients, RecvError(c)
    PROVE  IInv'
<1>0. /\ TypeOK /\ PrefixInv /\ RegisteredInv
      /\ UNCHANGED <<node, finalizedHeight, snapshot, slow, subscribers, stream, indexed, losses>>
      /\ UNCHANGED publisherVars
      /\ client' = [client EXCEPT ![c].stream = None]
  BY DEF IInv, TypeOK, publisherVars, RecvError
<1>1. /\ client'[c].stream = None
      /\ \A d \in Clients : client'[d].lastIndexed = client[d].lastIndexed
      /\ \A d \in Clients \ {c} : client'[d] = client[d]
      /\ client' \in [Clients -> [stream : Streams \cup {None}, lastIndexed : 0 .. MaxHeight]]
  BY <1>0 DEF TypeOK
<1>2. TypeOK' /\ PrefixInv' /\ RegisteredInv'
  <2>1. StreamType' = StreamType
    BY <1>0 DEF StreamType
  <2>. QED  BY <1>0, <1>1, <2>1 DEF TypeOK, PrefixInv, RegisteredInv
<1>. QED  BY <1>0, <1>1, <1>2, IndexerStep

(* All streams of an indexer are cancelled; it reads none and knows a height its *)
(* database allows. *)
LEMMA DisconnectedStep ==
    ASSUME IInv, NEW c \in Clients, UNCHANGED <<publisherVars, subscribers, indexed>>,
           losses' \in 0 .. MaxLosses, stream' = Disconnected(c),
           client' \in [Clients -> [stream : Streams \cup {None}, lastIndexed : 0 .. MaxHeight]],
           \A d \in Clients \ {c} : client'[d] = client[d],
           client'[c].stream = None,
           \A n \in 0 .. finalizedHeight :
             indexed[c] = 1 .. n /\ client[c].lastIndexed \in 0 .. n => client'[c].lastIndexed \in 0 .. n
    PROVE  IInv'
<1>0. /\ TypeOK /\ PrefixInv /\ RegisteredInv /\ stream \in [Streams -> StreamType]
      /\ UNCHANGED <<node, finalizedHeight, snapshot, slow, subscribers, indexed>>
      /\ UNCHANGED publisherVars
  BY DEF IInv, TypeOK, publisherVars
<1>1. ASSUME NEW t \in Streams
      PROVE  /\ stream'[t] \in StreamType /\ stream'[t].state = stream[t].state
             /\ stream'[t].closed = stream[t].closed /\ stream'[t].next = stream[t].next
             /\ Len(stream'[t].ch) <= Buffer /\ Len(stream'[t].wire) <= Window
             /\ stream[t].owner # c => stream'[t] = stream[t]
  <2>. DEFINE st == [stream[t] EXCEPT !.wire = <<>>, !.cancelled = TRUE]
  <2>1. /\ stream[t].owner # c => stream'[t] = stream[t]
        /\ stream[t].owner = c => stream'[t] = st
    BY <1>0 DEF Disconnected
  <2>2. /\ stream[t] \in StreamType /\ Len(stream[t].ch) <= Buffer /\ Len(stream[t].wire) <= Window
        /\ <<>> \in Seq(1 .. finalizedHeight) /\ Len(<<>>) = 0
    BY <1>0, NoHeaders, StreamFields
  <2>3. /\ st \in StreamType /\ st.state = stream[t].state /\ st.closed = stream[t].closed
        /\ st.next = stream[t].next /\ st.ch = stream[t].ch /\ st.wire = <<>>
    BY <2>2 DEF StreamType
  <2>. HIDE DEF st
  <2>. QED  BY <2>1, <2>2, <2>3
<1>2. TypeOK'
  <2>1. StreamType' = StreamType
    BY <1>0 DEF StreamType
  <2>2. stream' \in [Streams -> StreamType]
    BY <1>1 DEF Disconnected
  <2>. QED  BY <1>0, <1>1, <2>1, <2>2 DEF TypeOK
<1>3. RegisteredInv'
  <2>1. subscribers \subseteq Streams /\ snapshot \subseteq Streams
    BY <1>0 DEF TypeOK
  <2>. QED  BY <1>0, <1>1, <2>1 DEF RegisteredInv
<1>4. PrefixInv'
  <2>1. ASSUME NEW d \in Clients
        PROVE  \E n \in 0 .. finalizedHeight :
                 indexed[d] = 1 .. n /\ client'[d].lastIndexed \in 0 .. n
    BY <1>0 DEF PrefixInv
  <2>. QED  BY <1>0, <2>1 DEF PrefixInv
<1>5. \A t \in Streams : (\E d \in Clients \ {c} : client[d].stream = t /\ t # None) => stream'[t] = stream[t]
  BY <1>1, Owners
<1>. QED  BY <1>0, <1>2, <1>3, <1>4, <1>5, IndexerStep

LEMMA LossSteps ==
    ASSUME IInv, NEW c \in Clients, ConnectionLost(c) \/ RestartIndexer(c)
    PROVE  IInv'
<1>0. TypeOK /\ PrefixInv /\ finalizedHeight \in 0 .. MaxHeight
  BY DEF IInv, TypeOK
<1>1. CASE ConnectionLost(c)
  <2>1. losses' \in 0 .. MaxLosses
    BY <1>0, <1>1 DEF ConnectionLost, TypeOK
  <2>2. /\ client' \in [Clients -> [stream : Streams \cup {None}, lastIndexed : 0 .. MaxHeight]]
        /\ \A d \in Clients \ {c} : client'[d] = client[d]
        /\ client'[c].stream = None /\ client'[c].lastIndexed = client[c].lastIndexed
    BY <1>0, <1>1 DEF ConnectionLost, TypeOK
  <2>. QED  BY <1>1, <2>1, <2>2, DisconnectedStep DEF ConnectionLost
<1>2. CASE RestartIndexer(c)
  <2>1. losses' \in 0 .. MaxLosses
    BY <1>0, <1>2 DEF RestartIndexer, TypeOK
  <2>2. ASSUME NEW n \in 0 .. finalizedHeight, indexed[c] = 1 .. n
        PROVE  GetLastIndexedHeight(c) = n
    <3>1. n \in {0} \cup indexed[c] /\ \A g \in indexed[c] : g <= n
      BY <1>0, <2>2
    <3>2. \A h \in {0} \cup indexed[c] : (\A g \in indexed[c] : g <= h) => h = n
      <4>. SUFFICES ASSUME NEW h \in {0} \cup 1 .. n, \A g \in 1 .. n : g <= h PROVE h = n
        BY <2>2
      <4>1. n \in Nat /\ h \in Nat /\ h <= n
        BY <1>0
      <4>2. n = 0 \/ n \in 1 .. n
        BY <4>1
      <4>. QED  BY <4>1, <4>2
    <3>. QED  BY <3>1, <3>2 DEF GetLastIndexedHeight
  <2>3. GetLastIndexedHeight(c) \in 0 .. MaxHeight
    <3>1. PICK n \in 0 .. finalizedHeight : indexed[c] = 1 .. n
      BY <1>0 DEF PrefixInv
    <3>2. GetLastIndexedHeight(c) = n
      BY <2>2, <3>1
    <3>. QED  BY <1>0, <3>2
  <2>4. /\ client' \in [Clients -> [stream : Streams \cup {None}, lastIndexed : 0 .. MaxHeight]]
        /\ \A d \in Clients \ {c} : client'[d] = client[d]
        /\ client'[c].stream = None /\ client'[c].lastIndexed = GetLastIndexedHeight(c)
    BY <1>0, <1>2, <2>3 DEF RestartIndexer, TypeOK
  <2>5. \A n \in 0 .. finalizedHeight : indexed[c] = 1 .. n => client'[c].lastIndexed \in 0 .. n
    BY <1>0, <2>2, <2>4
  <2>. QED  BY <1>2, <2>1, <2>4, <2>5, DisconnectedStep DEF RestartIndexer
<1>. QED  BY <1>1, <1>2

-----------------------------------------------------------------------------
LEMMA Stuttering ==
    ASSUME IInv, UNCHANGED vars
    PROVE  IInv'
<1>0. /\ UNCHANGED <<node, finalizedHeight, snapshot, slow, subscribers, stream, clientVars>>
      /\ PublisherInv /\ finalizedHeight \in Nat /\ subscribers \subseteq Streams
      /\ node \in {"down", "sync", "committed", "publish", "stopping"} /\ slow \in SUBSET Streams
  BY DEF IInv, TypeOK, vars, publisherVars
<1>1. PublisherInv' /\ \A s \in subscribers : Due(s)' = Due(s) /\ Due(s) \in Int
  BY <1>0 DEF PublisherInv, Due
<1>. QED  BY <1>0, <1>1, PublisherStep

LEMMA NextInv == IInv /\ [Next]_vars => IInv'
<1>. SUFFICES ASSUME IInv, [Next]_vars PROVE IInv'
  OBVIOUS
<1>1. CASE StartNode \/ Commit \/ Publish \/ SyncChainFails \/ GracefulStop \/ Kill
  BY <1>1, QuietPublisherSteps, CommitStep, SendStep, DisconnectSlowStep, KillStep DEF Publish
<1>2. CASE \E s \in Streams : Handler(s)
  BY <1>2, HandlerSteps
<1>3. ASSUME NEW c \in Clients,
             IndexerSteps(c) \/ IndexFails(c) \/ ConnectionLost(c) \/ RestartIndexer(c)
      PROVE  IInv'
  BY <1>3, SubscribeStep, IndexNextStep, RecvErrorStep, IndexFailsStep, LossSteps DEF IndexerSteps
<1>4. CASE UNCHANGED vars
  BY <1>4, Stuttering
<1>. QED  BY <1>1, <1>2, <1>3, <1>4 DEF Next

LEMMA Invariance == Spec => []IInv
BY InitInv, NextInv, PTL DEF Spec

(* Headers on the wire and in the channels are of finalized blocks, no channel holds more *)
(* than its buffer and no stream more than flow control lets through. *)
THEOREM TypeCorrect == Spec => []TypeOK
<1>1. IInv => TypeOK
  BY DEF IInv
<1>. QED  BY <1>1, Invariance, PTL

(* No indexer ever skips a finalized block, whatever the interleaving of commits, publishing, *)
(* slow-subscriber disconnections, history reads, failed indexing and lost connections: the *)
(* registration before the read of the finalized height and the close after a timed-out send *)
(* (SubscribeToHeaders, publishNewHeader) suffice. *)
THEOREM NoGapTheorem == Spec => []NoGap
<1>1. IInv => NoGap
  <2>. SUFFICES ASSUME IInv, NEW c \in Clients PROVE indexed[c] = 1 .. Cardinality(indexed[c])
    BY DEF NoGap
  <2>1. PICK n \in 0 .. finalizedHeight : indexed[c] = 1 .. n
    BY DEF IInv, PrefixInv
  <2>2. n \in Nat
    BY DEF IInv, TypeOK
  <2>3. Cardinality(1 .. n) = n
    BY <2>2, FS_Interval
  <2>. QED  BY <2>1, <2>3
<1>. QED  BY <1>1, Invariance, PTL

(* A registered channel is open: neither the deferred Unsubscribe of a handler nor the *)
(* publisher's disconnection of slow subscribers closes a channel the other has closed. *)
THEOREM ClosedOnceTheorem == Spec => []ClosedOnce
<1>1. IInv => ClosedOnce
  BY DEF IInv, RegisteredInv, ClosedOnce
<1>. QED  BY <1>1, Invariance, PTL
=============================================================================
