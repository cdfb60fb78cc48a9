--------------------------- MODULE KlineConnProofs ---------------------------
(***************************************************************************)
(* Proofs about the feed of the kline service, for any number of           *)
(* connections, subscriptions and messages, every capacity of the channel  *)
(* and every back-off.                                                     *)
(***************************************************************************)
EXTENDS KlineConn, SequenceTheorems, TLAPS

(* TypeOK, by what the actions on connections and on messages change.      *)

ConnType ==
  /\ cancelled \in BOOLEAN
  /\ nextClose \in 1..NumConns + 1
  /\ pc \in [Conns -> {"unstarted", "top", "dial", "wait", "returned"}
                        \cup Session]
  /\ after \in [Conns -> {"wait", "returned"}]
  /\ conn \subseteq Conns
  /\ sock \in [Conns -> {"none", "open", "dropped", "closed"}]
  /\ left \in [Conns -> 0..NumSubs]
  /\ ping \in [Conns -> {"off", "on", "lock", "write", "close"}]
  /\ backoff \in [Conns -> 1..MaxBackoff]
  /\ hadMessage \subseteq Conns

FeedType ==
  /\ hand \in [Conns -> Seq(Message)]
  /\ msgChan \in Seq(Message) /\ Len(msgChan) <= ChanSize
  /\ handler \in {"running", "stopped"}
  /\ received \in [Conns -> Nat]
  /\ handled \in [Conns -> Nat]

LEMMA TypeOKParts == TypeOK <=> ConnType /\ FeedType
BY Zenon DEF TypeOK, ConnType, FeedType

(* The strengthening, where the connections are.                           *)

\* A socket that can be reached by c.conn is not closed, and one that cannot
\* be is, but between its dial and the assignment.
ConnIsSocket ==
  \A c \in Conns :
    /\ c \in conn => sock[c] \in {"open", "dropped"}
    /\ pc[c] # "assign" /\ c \notin conn => sock[c] \in {"none", "closed"}
    /\ pc[c] = "assign" => c \notin conn /\ sock[c] \in {"open", "dropped"}

\* sendJSON is under way for a subscription that is still to send.
Sending == \A c \in Conns : pc[c] \in {"lock", "write"} => left[c] > 0

Control ==
  /\ ConnType
  /\ OneWriter
  /\ NoSocketLeak
  /\ PingWithinSession
  /\ ConnIsSocket
  /\ Sending

-----------------------------------------------------------------------------
(* The strengthening, where the messages are.                              *)

\* The loop holds the message it read last, until it sends it.
HandIsLast ==
  \A c \in Conns :
    /\ hand[c] = IF pc[c] = "forward"
                 THEN <<[from |-> c, rank |-> received[c]]>> ELSE <<>>
    /\ pc[c] = "forward" => handled[c] < received[c]
    /\ handled[c] <= received[c]

\* The channel holds messages of a connection in the order they were read,
\* none that was handled, and none that is still in hand.
ChannelInOrder ==
  /\ \A i, j \in 1..Len(msgChan) :
       i < j /\ msgChan[i].from = msgChan[j].from
         => msgChan[i].rank < msgChan[j].rank
  /\ \A i \in 1..Len(msgChan) :
       /\ handled[msgChan[i].from] < msgChan[i].rank
       /\ msgChan[i].rank <= received[msgChan[i].from]
       /\ pc[msgChan[i].from] = "forward"
            => msgChan[i].rank < received[msgChan[i].from]

InChannel(c, r) ==
  \E i \in 1..Len(msgChan) : msgChan[i] = [from |-> c, rank |-> r]

\* A loop that has left readLoop by ctx.Done, and may have dropped the message
\* it held.
MayHaveDropped(c) ==
  after[c] = "returned" /\ pc[c] \in {"join", "close", "returned"}

\* All that was read and not handled is in the channel, but for the last
\* message, which may be in hand or dropped.
NoneLost ==
  /\ \A c \in Conns : ~cancelled => after[c] = "wait"
  /\ \A c \in Conns : \A r \in handled[c] + 1..received[c] :
       \/ InChannel(c, r)
       \/ r = received[c] /\ (pc[c] = "forward" \/ MayHaveDropped(c))

Feed ==
  /\ FeedType
  /\ HandIsLast
  /\ ChannelInOrder
  /\ NoneLost

IInv == Control /\ Feed
-----------------------------------------------------------------------------
\* The initial states satisfy the invariant.
LEMMA InitIInv == Init => IInv
<1> SUFFICES ASSUME Init PROVE IInv
  OBVIOUS
<1> USE ConnAssumption DEF Init
<1>1. ConnType
  <2>1. 1 \in 1..NumConns + 1 /\ 0 \in 0..NumSubs /\ 1 \in 1..MaxBackoff
    OBVIOUS
  <2> QED BY <2>1, Zenon DEF ConnType
<1>6. FeedType
  BY SMT DEF FeedType
<1>2. OneWriter /\ NoSocketLeak /\ PingWithinSession
  BY SMT DEF OneWriter, NoSocketLeak, PingWithinSession
<1>3. ConnIsSocket /\ Sending
  BY SMT DEF ConnIsSocket, Sending
<1>4. HandIsLast /\ ChannelInOrder
  BY SMT DEF HandIsLast, ChannelInOrder
<1>5. NoneLost
  BY SMT DEF NoneLost
<1> QED BY <1>1, <1>2, <1>3, <1>4, <1>5, <1>6 DEF IInv, Control, Feed

-----------------------------------------------------------------------------
(* The connections.                                                        *)

\* A step of a loop up to its session leaves the connections in order.
LEMMA ConnectControl ==
  ASSUME Control, NEW c \in Conns,
         \/ Launch(c) \/ CheckContext(c) \/ DialSucceeds(c) \/ DialFails(c)
         \/ AssignConn(c) \/ BackoffElapsed(c) \/ BackoffCancelled(c)
  PROVE  Control'
<1> USE ConnAssumption
    DEF Control, ConnType, OneWriter, NoSocketLeak, PingWithinSession,
        ConnIsSocket, Sending, Session, Pinging, Message,
        Go, Move, MovePing, EndSession, WriteMuFree, CloseConn,
        mainVars, runVars, feedVars
<1>1. CASE Launch(c)
  BY <1>1, SMT DEF Launch
<1>2. CASE CheckContext(c)
  BY <1>2, SMT DEF CheckContext
<1>3. CASE DialSucceeds(c)
  BY <1>3, SMT DEF DialSucceeds
<1>4. CASE DialFails(c)
  BY <1>4, SMT DEF DialFails
<1>5. CASE AssignConn(c)
  BY <1>5, SMT DEF AssignConn
<1>6. CASE BackoffElapsed(c)
  BY <1>6, SMT DEF BackoffElapsed
<1>7. CASE BackoffCancelled(c)
  BY <1>7, SMT DEF BackoffCancelled
<1> QED BY <1>1, <1>2, <1>3, <1>4, <1>5, <1>6, <1>7

\* A step of subscribeAll does.
LEMMA SubscribeControl ==
  ASSUME Control, NEW c \in Conns,
         \/ Subscribed(c) \/ SubscribeNext(c) \/ SubscribeUnconnected(c)
         \/ SubscribeLock(c) \/ SubscribeWritten(c) \/ SubscribeWriteFails(c)
  PROVE  Control'
<1> USE ConnAssumption
    DEF Control, ConnType, OneWriter, NoSocketLeak, PingWithinSession,
        ConnIsSocket, Sending, Session, Pinging, Message,
        Go, Move, MovePing, EndSession, WriteMuFree, CloseConn,
        mainVars, runVars, feedVars
<1>1. CASE Subscribed(c)
  BY <1>1, SMT DEF Subscribed
<1>2. CASE SubscribeNext(c)
  BY <1>2, SMT DEF SubscribeNext
<1>3. CASE SubscribeUnconnected(c)
  BY <1>3, SMT DEF SubscribeUnconnected
<1>4. CASE SubscribeLock(c)
  BY <1>4, SMT DEF SubscribeLock
<1>5. CASE SubscribeWritten(c)
  BY <1>5, SMT DEF SubscribeWritten
<1>6. CASE SubscribeWriteFails(c)
  BY <1>6, SMT DEF SubscribeWriteFails
<1> QED BY <1>1, <1>2, <1>3, <1>4, <1>5, <1>6

\* A step of readLoop does.
LEMMA ReadControl ==
  ASSUME Control, NEW c \in Conns,
         \/ ReadProceeds(c) \/ ReadCancelled(c) \/ ReadConnected(c)
         \/ ReadUnconnected(c) \/ Receive(c) \/ ReceiveFails(c)
         \/ ForwardCancelled(c) \/ Forward(c)
  PROVE  Control'
<1> USE ConnAssumption
    DEF Control, ConnType, OneWriter, NoSocketLeak, PingWithinSession,
        ConnIsSocket, Sending, Session, Pinging, Message,
        Go, Move, MovePing, EndSession, WriteMuFree, CloseConn,
        mainVars, runVars, feedVars
<1>1. CASE ReadProceeds(c)
  BY <1>1, SMT DEF ReadProceeds
<1>2. CASE ReadCancelled(c)
  BY <1>2, SMT DEF ReadCancelled
<1>3. CASE ReadConnected(c)
  BY <1>3, SMT DEF ReadConnected
<1>4. CASE ReadUnconnected(c)
  BY <1>4, SMT DEF ReadUnconnected
<1>5. CASE Receive(c)
  BY <1>5, SMT DEF Receive
<1>6. CASE ReceiveFails(c)
  BY <1>6, SMT DEF ReceiveFails
<1>7. CASE ForwardCancelled(c)
  BY <1>7, SMT DEF ForwardCancelled
<1>8. CASE Forward(c)
  BY <1>8, SMT DEF Forward
<1> QED BY <1>1, <1>2, <1>3, <1>4, <1>5, <1>6, <1>7, <1>8

\* The end of a session does, a step of its ping goroutine and a dropped
\* socket too.
LEMMA LeaveControl ==
  ASSUME Control, NEW c \in Conns,
         \/ Join(c) \/ Leave(c) \/ PingTick(c) \/ PingLock(c)
         \/ PingWritten(c) \/ PingWriteFails(c) \/ PingCloses(c)
         \/ PingStops(c) \/ Drop(c)
  PROVE  Control'
<1> USE ConnAssumption
    DEF Control, ConnType, OneWriter, NoSocketLeak, PingWithinSession,
        ConnIsSocket, Sending, Session, Pinging, Message,
        Go, Move, MovePing, EndSession, WriteMuFree, CloseConn,
        mainVars, runVars, feedVars
<1>1. CASE Join(c)
  BY <1>1, SMT DEF Join
<1>2. CASE Leave(c)
  BY <1>2, SMT DEF Leave
<1>3. CASE PingTick(c)
  BY <1>3, SMT DEF PingTick
<1>4. CASE PingLock(c)
  BY <1>4, SMT DEF PingLock
<1>5. CASE PingWritten(c)
  BY <1>5, SMT DEF PingWritten
<1>6. CASE PingWriteFails(c)
  BY <1>6, SMT DEF PingWriteFails
<1>7. CASE PingCloses(c)
  BY <1>7, SMT DEF PingCloses
<1>8. CASE PingStops(c)
  BY <1>8, SMT DEF PingStops
<1>9. CASE Drop(c)
  BY <1>9, SMT DEF Drop
<1> QED BY <1>1, <1>2, <1>3, <1>4, <1>5, <1>6, <1>7, <1>8, <1>9

\* The steps of main, and of the handler, do.
LEMMA MainControl ==
  Control /\ (Cancel \/ ManagerClose \/ Handle \/ HandlerDone) => Control'
<1> SUFFICES ASSUME Control, Cancel \/ ManagerClose \/ Handle \/ HandlerDone
             PROVE  Control'
  OBVIOUS
<1> USE DEF Control, ConnType, OneWriter, NoSocketLeak, PingWithinSession,
            ConnIsSocket, Sending, Session, Pinging, WriteMuFree, CloseConn,
            mainVars, runVars, feedVars
<1>1. CASE Cancel
  BY <1>1, SMT DEF Cancel
<1>2. CASE ManagerClose
  <2>1. nextClose \in Conns /\ nextClose' \in 1..NumConns + 1
    BY <1>2, ConnAssumption, SMT DEF ManagerClose, Conns
  <2> QED BY <1>2, <2>1, SMT DEF ManagerClose
<1>3. CASE Handle
  BY <1>3, SMT DEF Handle
<1>4. CASE HandlerDone
  BY <1>4, SMT DEF HandlerDone
<1> QED BY <1>1, <1>2, <1>3, <1>4

-----------------------------------------------------------------------------
(* The messages.                                                           *)

\* A step that neither takes nor brings a message, and no loop into or out of
\* its send.
Quiet ==
  /\ UNCHANGED <<hand, msgChan, received, handled>>
  /\ handler' \in {"running", "stopped"}
  /\ \A c \in Conns :
       /\ pc'[c] = "forward" <=> pc[c] = "forward"
       /\ MayHaveDropped(c) => MayHaveDropped(c)'
       /\ ~cancelled' => after'[c] = "wait"

\* What typing says of the channel.
LEMMA ChannelType ==
  ASSUME FeedType
  PROVE  /\ Len(msgChan) \in Nat /\ DOMAIN msgChan = 1..Len(msgChan)
         /\ \A i \in 1..Len(msgChan) :
              /\ msgChan[i] \in Message
              /\ msgChan[i].from \in Conns /\ msgChan[i].rank \in Nat \ {0}
<1>1. msgChan \in Seq(Message)
  BY DEF FeedType
<1>2. Len(msgChan) \in Nat /\ DOMAIN msgChan = 1..Len(msgChan)
  BY <1>1, LenProperties
<1>3. \A i \in 1..Len(msgChan) : msgChan[i] \in Message
  BY <1>1, ElementOfSeq
<1> QED BY <1>2, <1>3 DEF Message

LEMMA QuietFeed == Feed /\ Quiet => Feed'
<1> SUFFICES ASSUME Feed, Quiet PROVE Feed'
  OBVIOUS
<1> USE DEF Feed, Quiet
<1>1. FeedType'
  BY SMT DEF FeedType
<1>2. HandIsLast'
  BY SMT DEF HandIsLast
<1>3. ChannelInOrder'
  <2>1. \A i \in 1..Len(msgChan) : msgChan[i].from \in Conns
    BY ChannelType
  <2> QED BY <2>1, SMT DEF ChannelInOrder
<1>4. NoneLost'
  BY SMT DEF NoneLost, InChannel
<1> QED BY <1>1, <1>2, <1>3, <1>4

\* The steps of a loop up to its session do not touch the messages.
LEMMA ConnectFeed ==
  ASSUME Control, Feed, NEW c \in Conns,
         \/ Launch(c) \/ CheckContext(c) \/ DialSucceeds(c) \/ DialFails(c)
         \/ AssignConn(c) \/ BackoffElapsed(c) \/ BackoffCancelled(c)
  PROVE  Quiet
<1> USE DEF Control, ConnType, Feed, FeedType, NoneLost, Quiet,
            MayHaveDropped, Session, Go, Move, MovePing, EndSession,
            WriteMuFree, CloseConn, mainVars, runVars, feedVars
<1>1. CASE Launch(c)
  BY <1>1, SMT DEF Launch
<1>2. CASE CheckContext(c)
  BY <1>2, SMT DEF CheckContext
<1>3. CASE DialSucceeds(c)
  BY <1>3, SMT DEF DialSucceeds
<1>4. CASE DialFails(c)
  BY <1>4, SMT DEF DialFails
<1>5. CASE AssignConn(c)
  BY <1>5, SMT DEF AssignConn
<1>6. CASE BackoffElapsed(c)
  BY <1>6, SMT DEF BackoffElapsed
<1>7. CASE BackoffCancelled(c)
  BY <1>7, SMT DEF BackoffCancelled
<1> QED BY <1>1, <1>2, <1>3, <1>4, <1>5, <1>6, <1>7

\* Nor do those of subscribeAll,
LEMMA SubscribeFeed ==
  ASSUME Control, Feed, NEW c \in Conns,
         \/ Subscribed(c) \/ SubscribeNext(c) \/ SubscribeUnconnected(c)
         \/ SubscribeLock(c) \/ SubscribeWritten(c) \/ SubscribeWriteFails(c)
  PROVE  Quiet
<1> USE DEF Control, ConnType, Feed, FeedType, NoneLost, Quiet,
            MayHaveDropped, Session, Go, Move, MovePing, EndSession,
            WriteMuFree, CloseConn, mainVars, runVars, feedVars
<1>1. CASE Subscribed(c)
  BY <1>1, SMT DEF Subscribed
<1>2. CASE SubscribeNext(c)
  BY <1>2, SMT DEF SubscribeNext
<1>3. CASE SubscribeUnconnected(c)
  BY <1>3, SMT DEF SubscribeUnconnected
<1>4. CASE SubscribeLock(c)
  BY <1>4, SMT DEF SubscribeLock
<1>5. CASE SubscribeWritten(c)
  BY <1>5, SMT DEF SubscribeWritten
<1>6. CASE SubscribeWriteFails(c)
  BY <1>6, SMT DEF SubscribeWriteFails
<1> QED BY <1>1, <1>2, <1>3, <1>4, <1>5, <1>6

\* those of readLoop before and after a message,
LEMMA ReadFeed ==
  ASSUME Control, Feed, NEW c \in Conns,
         \/ ReadProceeds(c) \/ ReadCancelled(c) \/ ReadConnected(c)
         \/ ReadUnconnected(c) \/ ReceiveFails(c)
  PROVE  Quiet
<1> USE DEF Control, ConnType, Feed, FeedType, NoneLost, Quiet,
            MayHaveDropped, Session, Go, Move, MovePing, EndSession,
            WriteMuFree, CloseConn, mainVars, runVars, feedVars
<1>1. CASE ReadProceeds(c)
  BY <1>1, SMT DEF ReadProceeds
<1>2. CASE ReadCancelled(c)
  BY <1>2, SMT DEF ReadCancelled
<1>3. CASE ReadConnected(c)
  BY <1>3, SMT DEF ReadConnected
<1>4. CASE ReadUnconnected(c)
  BY <1>4, SMT DEF ReadUnconnected
<1>5. CASE ReceiveFails(c)
  BY <1>5, SMT DEF ReceiveFails
<1> QED BY <1>1, <1>2, <1>3, <1>4, <1>5

\* the end of a session, its ping goroutine and a dropped socket.
LEMMA LeaveFeed ==
  ASSUME Control, Feed, NEW c \in Conns,
         \/ Join(c) \/ Leave(c) \/ PingTick(c) \/ PingLock(c)
         \/ PingWritten(c) \/ PingWriteFails(c) \/ PingCloses(c)
         \/ PingStops(c) \/ Drop(c)
  PROVE  Quiet
<1> USE DEF Control, ConnType, Feed, FeedType, NoneLost, Quiet,
            MayHaveDropped, Session, Go, Move, MovePing, EndSession,
            WriteMuFree, CloseConn, mainVars, runVars, feedVars
<1>1. CASE Join(c)
  BY <1>1, SMT DEF Join
<1>2. CASE Leave(c)
  BY <1>2, SMT DEF Leave
<1>3. CASE PingTick(c)
  BY <1>3, SMT DEF PingTick
<1>4. CASE PingLock(c)
  BY <1>4, SMT DEF PingLock
<1>5. CASE PingWritten(c)
  BY <1>5, SMT DEF PingWritten
<1>6. CASE PingWriteFails(c)
  BY <1>6, SMT DEF PingWriteFails
<1>7. CASE PingCloses(c)
  BY <1>7, SMT DEF PingCloses
<1>8. CASE PingStops(c)
  BY <1>8, SMT DEF PingStops
<1>9. CASE Drop(c)
  BY <1>9, SMT DEF Drop
<1> QED BY <1>1, <1>2, <1>3, <1>4, <1>5, <1>6, <1>7, <1>8, <1>9

\* A message that is read goes in hand, behind all that is in the channel.
LEMMA ReceiveFeed ==
  ASSUME Control, Feed, NEW c \in Conns, Receive(c)
  PROVE  Feed'
<1> DEFINE m == [from |-> c, rank |-> received[c] + 1]
<1> USE DEF Control, ConnType, Feed, Receive, Go, mainVars
<1>1. received[c] \in Nat /\ received[c] + 1 \in Nat \ {0} /\ m \in Message
  BY ConnAssumption, SMT DEF FeedType, Message
<1>2. \A d \in Conns :
        /\ received[d] \in Nat /\ handled[d] \in Nat /\ handled' = handled
        /\ pc'[d] = IF d = c THEN "forward" ELSE pc[d]
        /\ received'[d] = IF d = c THEN received[c] + 1 ELSE received[d]
  BY ConnAssumption, SMT DEF FeedType
<1>3. FeedType'
  <2>1. <<m>> \in Seq(Message)
    BY <1>1
  <2>2. hand' \in [Conns -> Seq(Message)]
    BY <2>1, Zenon DEF FeedType
  <2>3. received' \in [Conns -> Nat]
    BY <1>1, ConnAssumption, SMT DEF FeedType
  <2> QED BY <2>2, <2>3, Zenon DEF FeedType
<1>4. HandIsLast'
  <2>1. ASSUME NEW d \in Conns
        PROVE  hand'[d] = IF pc'[d] = "forward"
                 THEN <<[from |-> d, rank |-> received'[d]]>> ELSE <<>>
    <3>1. CASE d = c
      BY <1>2, <3>1, Zenon DEF FeedType
    <3>2. CASE d # c
      BY <1>2, <3>2, Zenon DEF FeedType, HandIsLast
    <3> QED BY <3>1, <3>2
  <2>2. ASSUME NEW d \in Conns
        PROVE  /\ pc'[d] = "forward" => handled'[d] < received'[d]
               /\ handled'[d] <= received'[d]
    <3>1. handled[d] <= received[d]
      BY Zenon DEF HandIsLast
    <3>2. pc[d] = "forward" => handled[d] < received[d]
      BY Zenon DEF HandIsLast
    <3> HIDE DEF Control, Feed, Receive
    <3> QED BY <1>2, <3>1, <3>2, SMT
  <2> QED BY <2>1, <2>2, Zenon DEF HandIsLast
<1>5. ChannelInOrder'
  <2>1. \A i \in 1..Len(msgChan) :
          msgChan[i].from \in Conns /\ msgChan[i].rank \in Nat
    BY ChannelType, ConnAssumption
  <2> QED BY <1>2, <2>1, SMT DEF ChannelInOrder
<1>6. NoneLost'
  <2>1. \A d \in Conns : ~cancelled' => after'[d] = "wait"
    BY SMT DEF NoneLost
  <2>2. ASSUME NEW d \in Conns, NEW r \in handled'[d] + 1..received'[d]
        PROVE  \/ InChannel(d, r)
               \/ r = received'[d] /\ (pc'[d] = "forward" \/ MayHaveDropped(d)')
    <3>1. CASE d = c
      BY <1>2, <3>1, SMT DEF NoneLost, MayHaveDropped
    <3>2. CASE d # c
      BY <1>2, <3>2, SMT DEF NoneLost, MayHaveDropped
    <3> QED BY <3>1, <3>2
  <2>3. \A d, r : InChannel(d, r)' <=> InChannel(d, r)
    BY DEF InChannel
  <2> QED BY <2>1, <2>2, <2>3, Zenon DEF NoneLost
<1> QED BY <1>3, <1>4, <1>5, <1>6

\* A message that is sent leaves the hand for the end of the channel.
LEMMA ForwardFeed ==
  ASSUME Control, Feed, NEW c \in Conns, Forward(c)
  PROVE  Feed'
<1> DEFINE m == [from |-> c, rank |-> received[c]]
           n == Len(msgChan)
<1>1. /\ n \in Nat /\ msgChan \in Seq(Message)
      /\ \A i \in 1..n : /\ msgChan[i] \in Message
                         /\ msgChan[i].from \in Conns
                         /\ msgChan[i].rank \in Nat
  BY ChannelType, ConnAssumption DEF Feed, FeedType
<1>2. /\ n < ChanSize /\ pc[c] = "forward" /\ hand[c] = <<m>>
      /\ after' = after /\ cancelled' = cancelled
      /\ received' = received /\ handled' = handled /\ handler' = handler
      /\ hand' = [hand EXCEPT ![c] = <<>>] /\ msgChan' = msgChan \o hand[c]
      /\ pc' = [pc EXCEPT ![c] = "read"]
  BY Zenon DEF Forward, Go, Feed, HandIsLast, mainVars
<1>3. \A d \in Conns :
        /\ received[d] \in Nat /\ handled[d] \in Nat
        /\ handled[d] <= received[d]
        /\ pc[d] = "forward" => handled[d] < received[d]
        /\ pc'[d] = IF d = c THEN "read" ELSE pc[d]
  BY <1>2, ConnAssumption, SMT
  DEF Control, ConnType, Feed, FeedType, HandIsLast
<1>4. m \in Message
  BY <1>2, <1>3, ConnAssumption, SMT DEF Message
<1>5. <<m>> \in Seq(Message) /\ Len(<<m>>) = 1 /\ <<m>>[1] = m
  BY <1>4
<1> HIDE DEF m
<1>6. /\ msgChan' \in Seq(Message) /\ Len(msgChan') = n + 1
      /\ \A i \in 1..n + 1 : msgChan'[i] = IF i <= n THEN msgChan[i] ELSE m
  <2>1. /\ msgChan \o <<m>> \in Seq(Message)
        /\ Len(msgChan \o <<m>>) = n + 1
        /\ \A i \in 1..n + 1 : (msgChan \o <<m>>)[i] =
             IF i <= n THEN msgChan[i] ELSE <<m>>[i - n]
    BY <1>1, <1>5, ConcatProperties
  <2> QED BY <1>1, <1>2, <1>5, <2>1
<1>7. m.from = c /\ m.rank = received[c]
  BY DEF m
<1> HIDE DEF n
<1>8. FeedType'
  <2>1. hand' \in [Conns -> Seq(Message)]
    <3>1. <<>> \in Seq(Message)
      BY EmptySeq
    <3> QED BY <1>2, <3>1, Zenon DEF Feed, FeedType
  <2>2. Len(msgChan') <= ChanSize
    BY <1>1, <1>2, <1>6, ConnAssumption
  <2> QED BY <1>2, <1>6, <2>1, <2>2, Zenon DEF Feed, FeedType
<1>9. HandIsLast'
  <2>1. ASSUME NEW d \in Conns
        PROVE  hand'[d] = IF pc'[d] = "forward"
                 THEN <<[from |-> d, rank |-> received'[d]]>> ELSE <<>>
    <3>1. CASE d = c
      <4>1. hand'[c] = <<>>
        BY <1>2, Zenon DEF Feed, FeedType
      <4>2. pc'[c] # "forward"
        BY <1>3, SMT
      <4> QED BY <3>1, <4>1, <4>2
    <3>2. CASE d # c
      BY <1>2, <1>3, <3>2, Zenon DEF Feed, FeedType, HandIsLast
    <3> QED BY <3>1, <3>2
  <2>2. \A d \in Conns :
          /\ pc'[d] = "forward" => handled'[d] < received'[d]
          /\ handled'[d] <= received'[d]
    BY <1>2, <1>3, Zenon
  <2> QED BY <2>1, <2>2, Zenon DEF HandIsLast
<1>10. \A i \in 1..n :
         /\ handled[msgChan[i].from] < msgChan[i].rank
         /\ msgChan[i].rank <= received[msgChan[i].from]
         /\ pc[msgChan[i].from] = "forward"
              => msgChan[i].rank < received[msgChan[i].from]
  BY Zenon DEF Feed, ChannelInOrder, n
<1>11. \A i, j \in 1..n :
         i < j /\ msgChan[i].from = msgChan[j].from
           => msgChan[i].rank < msgChan[j].rank
  BY Zenon DEF Feed, ChannelInOrder, n
<1>12. ChannelInOrder'
  <2>1. ASSUME NEW i \in 1..n + 1, NEW j \in 1..n + 1, i < j,
               msgChan'[i].from = msgChan'[j].from
        PROVE  msgChan'[i].rank < msgChan'[j].rank
    <3>1. i \in 1..n /\ msgChan'[i] = msgChan[i]
      BY <1>1, <1>6, <2>1
    <3>2. CASE j \in 1..n
      BY <1>1, <1>6, <1>11, <2>1, <3>1, <3>2
    <3>3. CASE j = n + 1
      <4>1. msgChan'[j] = m
        BY <1>1, <1>6, <3>3
      <4> QED BY <1>2, <1>7, <1>10, <2>1, <3>1, <4>1
    <3> QED BY <1>1, <3>2, <3>3
  <2>2. ASSUME NEW i \in 1..n + 1
        PROVE  /\ handled'[msgChan'[i].from] < msgChan'[i].rank
               /\ msgChan'[i].rank <= received'[msgChan'[i].from]
               /\ pc'[msgChan'[i].from] = "forward"
                    => msgChan'[i].rank < received'[msgChan'[i].from]
    <3>1. CASE i \in 1..n
      <4>1. msgChan'[i] = msgChan[i] /\ msgChan[i].from \in Conns
        BY <1>1, <1>6, <3>1
      <4>2. pc'[msgChan[i].from] = "forward" => pc[msgChan[i].from] = "forward"
        BY <1>3, <4>1
      <4> QED BY <1>2, <1>10, <3>1, <4>1, <4>2, Zenon
    <3>2. CASE i = n + 1
      <4>1. msgChan'[i] = m
        BY <1>1, <1>6, <3>2
      <4>2. /\ handled[c] < received[c] /\ received[c] \in Nat
            /\ pc'[c] # "forward" /\ received[c] <= received[c]
        BY <1>2, <1>3, ConnAssumption
      <4>3. msgChan'[i].from = c /\ msgChan'[i].rank = received[c]
        BY <1>7, <4>1
      <4> QED BY <1>2, <4>2, <4>3, Zenon
    <3> QED BY <1>1, <3>1, <3>2
  <2> QED BY <1>6, <2>1, <2>2, Zenon DEF ChannelInOrder
<1>13. NoneLost'
  <2>1. \A d \in Conns : ~cancelled' => after'[d] = "wait"
    BY <1>2, Zenon DEF Feed, NoneLost
  <2>2. \A d, r : InChannel(d, r) => InChannel(d, r)'
    BY <1>1, <1>6, SMT DEF InChannel, n
  <2>3. InChannel(c, received[c])'
    <3>1. n + 1 \in 1..Len(msgChan') /\ msgChan'[n + 1] = m
      BY <1>1, <1>6
    <3> QED BY <1>2, <3>1, Zenon DEF InChannel, m
  <2>4. ASSUME NEW d \in Conns, NEW r \in handled'[d] + 1..received'[d]
        PROVE  \/ InChannel(d, r)'
               \/ r = received'[d] /\ (pc'[d] = "forward" \/ MayHaveDropped(d)')
    <3>1. \/ InChannel(d, r)
          \/ r = received[d] /\ (pc[d] = "forward" \/ MayHaveDropped(d))
      BY <1>2, Zenon DEF Feed, NoneLost
    <3>2. CASE d = c
      <4>1. ~MayHaveDropped(c)
        BY <1>2, Zenon DEF MayHaveDropped
      <4> QED BY <1>2, <2>2, <2>3, <3>1, <3>2, <4>1, Zenon
    <3>3. CASE d # c
      <4>1. pc'[d] = pc[d] /\ MayHaveDropped(d)' = MayHaveDropped(d)
        BY <1>2, <1>3, <3>3, Zenon DEF MayHaveDropped
      <4> QED BY <1>2, <2>2, <3>1, <4>1, Zenon
    <3> QED BY <3>2, <3>3
  <2> QED BY <2>1, <2>4, Zenon DEF NoneLost
<1> QED BY <1>8, <1>9, <1>12, <1>13 DEF Feed

\* A send that is given up drops the message, the last one of its connection.
LEMMA ForwardCancelledFeed ==
  ASSUME Control, Feed, NEW c \in Conns, ForwardCancelled(c)
  PROVE  Feed'
<1>1. /\ cancelled /\ cancelled' /\ pc[c] = "forward"
      /\ received' = received /\ handled' = handled /\ handler' = handler
      /\ msgChan' = msgChan
      /\ hand' = [hand EXCEPT ![c] = <<>>]
      /\ pc' = [pc EXCEPT ![c] = "join"]
      /\ after' = [after EXCEPT ![c] = "returned"]
  BY Zenon DEF ForwardCancelled, EndSession, Go, mainVars
<1>2. \A d \in Conns : /\ pc'[d] = IF d = c THEN "join" ELSE pc[d]
                       /\ after'[d] = IF d = c THEN "returned" ELSE after[d]
  BY <1>1, SMT DEF Control, ConnType
<1>3. FeedType'
  <2>1. <<>> \in Seq(Message)
    BY EmptySeq
  <2> QED BY <1>1, <2>1, Zenon DEF Feed, FeedType
<1>4. HandIsLast'
  <2>1. ASSUME NEW d \in Conns
        PROVE  hand'[d] = IF pc'[d] = "forward"
                 THEN <<[from |-> d, rank |-> received'[d]]>> ELSE <<>>
    <3>1. CASE d = c
      <4>1. hand'[c] = <<>>
        BY <1>1, Zenon DEF Feed, FeedType
      <4>2. pc'[c] # "forward"
        BY <1>2, SMT
      <4> QED BY <3>1, <4>1, <4>2
    <3>2. CASE d # c
      BY <1>1, <1>2, <3>2, Zenon DEF Feed, FeedType, HandIsLast
    <3> QED BY <3>1, <3>2
  <2>2. \A d \in Conns :
          /\ pc'[d] = "forward" => handled'[d] < received'[d]
          /\ handled'[d] <= received'[d]
    <3>1. \A d \in Conns : /\ pc[d] = "forward" => handled[d] < received[d]
                           /\ handled[d] <= received[d]
      BY Zenon DEF Feed, HandIsLast
    <3>2. \A d \in Conns : pc'[d] = "forward" => pc[d] = "forward"
      BY <1>2, SMT
    <3> QED BY <1>1, <3>1, <3>2, Zenon
  <2> QED BY <2>1, <2>2, Zenon DEF HandIsLast
<1>5. ChannelInOrder'
  <2>1. \A i \in 1..Len(msgChan) :
          /\ msgChan[i].from \in Conns
          /\ pc'[msgChan[i].from] = "forward" => pc[msgChan[i].from] = "forward"
    BY <1>2, ChannelType, SMT DEF Feed
  <2> QED BY <1>1, <2>1, Zenon DEF Feed, ChannelInOrder
<1>6. NoneLost'
  <2>1. \A d, r : InChannel(d, r)' <=> InChannel(d, r)
    BY <1>1 DEF InChannel
  <2>2. \A d \in Conns : pc[d] = "forward" \/ MayHaveDropped(d)
                          => pc'[d] = "forward" \/ MayHaveDropped(d)'
    BY <1>2, SMT DEF MayHaveDropped
  <2> QED BY <1>1, <2>1, <2>2, Zenon DEF Feed, NoneLost
<1> QED BY <1>3, <1>4, <1>5, <1>6 DEF Feed

\* The message taken from the head of the channel is the next one of its
\* connection.
LEMMA HandleFeed ==
  ASSUME Control, Feed, Handle
  PROVE  Feed'
<1> DEFINE n == Len(msgChan)
           m == msgChan[1]
           c == m.from
<1>1. /\ n \in Nat /\ msgChan \in Seq(Message)
      /\ \A i \in 1..n : /\ msgChan[i] \in Message
                         /\ msgChan[i].from \in Conns
                         /\ msgChan[i].rank \in Nat \ {0}
  BY ChannelType DEF Feed, FeedType
<1>2. /\ msgChan # <<>>
      /\ handled' = [handled EXCEPT ![Head(msgChan).from] = Head(msgChan).rank]
      /\ msgChan' = Tail(msgChan) /\ hand' = hand /\ received' = received
      /\ handler' = handler /\ pc' = pc /\ after' = after
      /\ cancelled' = cancelled
  BY Zenon DEF Handle, mainVars, runVars
<1>3. /\ Head(msgChan) = m /\ n >= 1 /\ Tail(msgChan) \in Seq(Message)
      /\ Len(Tail(msgChan)) = n - 1
      /\ \A i \in 1..n - 1 : Tail(msgChan)[i] = msgChan[i + 1]
  <2>1. n # 0
    BY <1>1, <1>2, EmptySeq
  <2> QED BY <1>1, <1>2, <2>1, HeadTailProperties
<1>4. c \in Conns /\ m.rank \in Nat \ {0}
  BY <1>1, <1>3
<1> HIDE DEF n, m, c
<1>5. \A d \in Conns :
        /\ received[d] \in Nat /\ handled[d] \in Nat
        /\ handled[d] <= received[d]
        /\ pc[d] = "forward" => handled[d] < received[d]
        /\ handled'[d] = IF d = c THEN m.rank ELSE handled[d]
  BY <1>2, <1>3, <1>4, SMT DEF Feed, FeedType, HandIsLast, c
<1>6. /\ \A i \in 1..n :
           /\ handled[msgChan[i].from] < msgChan[i].rank
           /\ msgChan[i].rank <= received[msgChan[i].from]
           /\ pc[msgChan[i].from] = "forward"
                => msgChan[i].rank < received[msgChan[i].from]
      /\ \A i, j \in 1..n :
           i < j /\ msgChan[i].from = msgChan[j].from
             => msgChan[i].rank < msgChan[j].rank
  BY Zenon DEF Feed, ChannelInOrder, n
<1>7. \A i \in 2..n : msgChan[i].from = c => m.rank < msgChan[i].rank
  BY <1>1, <1>3, <1>6 DEF m, c
<1>8. /\ handled[c] < m.rank /\ m.rank <= received[c]
      /\ pc[c] = "forward" => m.rank < received[c]
  BY <1>1, <1>3, <1>6 DEF m, c
<1>9. FeedType'
  <2>1. handled' \in [Conns -> Nat]
    BY <1>2, <1>3, <1>4, ConnAssumption, SMT DEF Feed, FeedType, c
  <2>2. Len(msgChan') <= ChanSize
    BY <1>1, <1>2, <1>3, ConnAssumption, SMT DEF Feed, FeedType, n
  <2> QED BY <1>2, <1>3, <2>1, <2>2, Zenon DEF Feed, FeedType
<1>10. HandIsLast'
  <2>1. \A d \in Conns :
          /\ pc'[d] = "forward" => handled'[d] < received'[d]
          /\ handled'[d] <= received'[d]
    BY <1>2, <1>5, <1>8, SMT
  <2>2. \A d \in Conns :
          hand'[d] = IF pc'[d] = "forward"
            THEN <<[from |-> d, rank |-> received'[d]]>> ELSE <<>>
    BY <1>2, Zenon DEF Feed, HandIsLast
  <2> QED BY <2>1, <2>2, Zenon DEF HandIsLast
<1>11. Len(msgChan') = n - 1
       /\ \A i \in 1..n - 1 : i + 1 \in 2..n /\ msgChan'[i] = msgChan[i + 1]
  BY <1>1, <1>2, <1>3
<1>12. ChannelInOrder'
  <2>1. ASSUME NEW i \in 1..n - 1, NEW j \in 1..n - 1, i < j,
               msgChan'[i].from = msgChan'[j].from
        PROVE  msgChan'[i].rank < msgChan'[j].rank
    <3>1. /\ i + 1 \in 1..n /\ j + 1 \in 1..n /\ i + 1 < j + 1
          /\ msgChan'[i] = msgChan[i + 1] /\ msgChan'[j] = msgChan[j + 1]
      BY <1>1, <1>11, <2>1
    <3> QED BY <1>6, <2>1, <3>1, Zenon
  <2>2. ASSUME NEW i \in 1..n - 1
        PROVE  /\ handled'[msgChan'[i].from] < msgChan'[i].rank
               /\ msgChan'[i].rank <= received'[msgChan'[i].from]
               /\ pc'[msgChan'[i].from] = "forward"
                    => msgChan'[i].rank < received'[msgChan'[i].from]
    <3>1. /\ i + 1 \in 1..n /\ i + 1 \in 2..n /\ msgChan'[i] = msgChan[i + 1]
          /\ msgChan[i + 1].from \in Conns
      BY <1>1, <1>11
    <3>2. handled'[msgChan[i + 1].from] < msgChan[i + 1].rank
      BY <1>5, <1>6, <1>7, <3>1
    <3> QED BY <1>2, <1>6, <3>1, <3>2, Zenon
  <2> QED BY <1>11, <2>1, <2>2, Zenon DEF ChannelInOrder
<1>13. NoneLost'
  <2>1. \A d \in Conns : ~cancelled' => after'[d] = "wait"
    BY <1>2, Zenon DEF Feed, NoneLost
  <2>2. ASSUME NEW d \in Conns, NEW r \in handled'[d] + 1..received'[d]
        PROVE  \/ InChannel(d, r)'
               \/ r = received'[d] /\ (pc'[d] = "forward" \/ MayHaveDropped(d)')
    <3>1. r \in handled[d] + 1..received[d]
      <4>1. /\ received' = received /\ handled[d] \in Nat
            /\ received[d] \in Nat /\ handled[d] <= handled'[d]
            /\ handled'[d] \in Nat
        BY <1>2, <1>4, <1>5, <1>8, ConnAssumption
      <4> QED BY <4>1
    <3>2. CASE InChannel(d, r)
      <4>1. PICK i \in 1..n : msgChan[i] = [from |-> d, rank |-> r]
        BY <3>2 DEF InChannel, n
      <4>2. i # 1
        <5> SUFFICES ASSUME i = 1 PROVE FALSE
          OBVIOUS
        <5>1. c = d /\ m.rank = r
          BY <4>1 DEF m, c
        <5> QED BY <1>4, <1>5, <5>1
      <4>3. i - 1 \in 1..n - 1 /\ (i - 1) + 1 = i
        BY <1>1, <4>1, <4>2
      <4>4. msgChan'[i - 1] = [from |-> d, rank |-> r]
        BY <1>11, <4>1, <4>3
      <4>5. i - 1 \in 1..Len(msgChan')
        BY <1>11, <4>3
      <4> QED BY <4>4, <4>5, Zenon DEF InChannel
    <3>3. CASE ~InChannel(d, r)
      <4>1. r = received[d] /\ (pc[d] = "forward" \/ MayHaveDropped(d))
        BY <3>1, <3>3, Zenon DEF Feed, NoneLost
      <4> QED BY <1>2, <4>1, Zenon DEF MayHaveDropped
    <3> QED BY <3>2, <3>3
  <2> QED BY <2>1, <2>2, Zenon DEF NoneLost
<1> QED BY <1>9, <1>10, <1>12, <1>13 DEF Feed

-----------------------------------------------------------------------------
\* Every step preserves the invariant.
LEMMA NextIInv == IInv /\ [Next]_vars => IInv'
<1> SUFFICES ASSUME Control, Feed, [Next]_vars PROVE Control' /\ Feed'
  BY DEF IInv
<1>1. CASE Cancel \/ HandlerDone
  <2>1. Control'
    BY <1>1, MainControl
  <2>2. Quiet
    BY <1>1, SMT
    DEF Cancel, HandlerDone, Feed, FeedType, NoneLost, Quiet, MayHaveDropped,
        mainVars, runVars, feedVars
  <2> QED BY <2>1, <2>2, QuietFeed
<1>2. CASE ManagerClose
  <2>1. Control'
    BY <1>2, MainControl
  <2>2. Quiet
    BY <1>2, SMT
    DEF ManagerClose, Feed, FeedType, NoneLost, Quiet, MayHaveDropped,
        runVars, feedVars
  <2> QED BY <2>1, <2>2, QuietFeed
<1>3. CASE Handle
  BY <1>3, MainControl, HandleFeed
<1>4. CASE UNCHANGED vars
  <2>1. Control'
    BY <1>4, SMT
    DEF vars, mainVars, runVars, Control, ConnType, OneWriter, NoSocketLeak,
        PingWithinSession, ConnIsSocket, Sending
  <2>2. Quiet
    BY <1>4, SMT
    DEF vars, mainVars, runVars, feedVars, Feed, FeedType, NoneLost, Quiet,
        MayHaveDropped
  <2> QED BY <2>1, <2>2, QuietFeed
<1>5. ASSUME NEW c \in Conns,
             \/ Launch(c) \/ CheckContext(c) \/ DialSucceeds(c)
             \/ DialFails(c) \/ AssignConn(c) \/ BackoffElapsed(c)
             \/ BackoffCancelled(c)
      PROVE  Control' /\ Feed'
  BY <1>5, ConnectControl, ConnectFeed, QuietFeed
<1>6. ASSUME NEW c \in Conns,
             \/ Subscribed(c) \/ SubscribeNext(c) \/ SubscribeUnconnected(c)
             \/ SubscribeLock(c) \/ SubscribeWritten(c)
             \/ SubscribeWriteFails(c)
      PROVE  Control' /\ Feed'
  BY <1>6, SubscribeControl, SubscribeFeed, QuietFeed
<1>7. ASSUME NEW c \in Conns,
             \/ ReadProceeds(c) \/ ReadCancelled(c) \/ ReadConnected(c)
             \/ ReadUnconnected(c) \/ ReceiveFails(c)
      PROVE  Control' /\ Feed'
  BY <1>7, ReadControl, ReadFeed, QuietFeed
<1>8. ASSUME NEW c \in Conns, Receive(c)
      PROVE  Control' /\ Feed'
  BY <1>8, ReadControl, ReceiveFeed
<1>9. ASSUME NEW c \in Conns, Forward(c)
      PROVE  Control' /\ Feed'
  BY <1>9, ReadControl, ForwardFeed
<1>10. ASSUME NEW c \in Conns, ForwardCancelled(c)
       PROVE  Control' /\ Feed'
  BY <1>10, ReadControl, ForwardCancelledFeed
<1>11. ASSUME NEW c \in Conns,
              \/ Join(c) \/ Leave(c) \/ PingTick(c) \/ PingSend(c)
              \/ PingStops(c) \/ Drop(c)
       PROVE  Control' /\ Feed'
  BY <1>11, LeaveControl, LeaveFeed, QuietFeed DEF PingSend
<1> QED
  BY <1>1, <1>2, <1>3, <1>4, <1>5, <1>6, <1>7, <1>8, <1>9, <1>10, <1>11, Zenon
  DEF Next, Loop, Finished

\* The conjunction of all of them is an invariant of the feed.
THEOREM Invariance == Spec => []IInv
BY InitIInv, NextIInv, PTL DEF Spec

-----------------------------------------------------------------------------
\* Type correctness; in particular the channel never holds more than its
\* capacity and no back-off exceeds its cap.
THEOREM TypeCorrect == Spec => []TypeOK
<1>1. IInv => TypeOK
  BY TypeOKParts DEF IInv, Control, Feed
<1> QED BY <1>1, Invariance, PTL

\* A connection never has two writers at a time.
THEOREM WritersExclude == Spec => []OneWriter
<1>1. IInv => OneWriter
  BY DEF IInv, Control
<1> QED BY <1>1, Invariance, PTL

\* No way out of a session, and no Close of another goroutine, leaves a socket
\* open.
THEOREM SocketsAreClosed == Spec => []NoSocketLeak
<1>1. IInv => NoSocketLeak
  BY DEF IInv, Control
<1> QED BY <1>1, Invariance, PTL

\* A ping goroutine ends with its session.
THEOREM PingsEndWithSession == Spec => []PingWithinSession
<1>1. IInv => PingWithinSession
  BY DEF IInv, Control
<1> QED BY <1>1, Invariance, PTL

\* What is between a connection and the handler is what was read and not yet
\* handled, in order: the places of the invariant, seen from one connection.
LEMMA FeedGivesCompleteness == IInv => FeedIsComplete
<1> SUFFICES ASSUME IInv, NEW c \in Conns
             PROVE  /\ \A i, j \in OnTheWay(c) :
                         i < j => Queue(c)[i].rank < Queue(c)[j].rank
                    /\ \E last \in handled[c]..received[c] :
                         /\ {Queue(c)[i].rank : i \in OnTheWay(c)}
                              = handled[c] + 1..last
                         /\ ~cancelled => last = received[c]
  BY DEF FeedIsComplete
<1> DEFINE n == Len(msgChan)
           q == Queue(c)
           h == Len(hand[c])
           m == [from |-> c, rank |-> received[c]]
<1>1. /\ n \in Nat /\ msgChan \in Seq(Message)
      /\ \A i \in 1..n : msgChan[i].from \in Conns /\ msgChan[i].rank \in Nat
  BY ChannelType, ConnAssumption DEF IInv, Feed, FeedType
<1>2. /\ handled[c] \in Nat /\ received[c] \in Nat
      /\ handled[c] <= received[c]
      /\ pc[c] = "forward" => handled[c] < received[c]
      /\ hand[c] = IF pc[c] = "forward" THEN <<m>> ELSE <<>>
      /\ hand[c] \in Seq(Message)
  BY ConnAssumption, SMT DEF IInv, Feed, FeedType, HandIsLast
<1>3. /\ h = IF pc[c] = "forward" THEN 1 ELSE 0
      /\ pc[c] = "forward" => hand[c][1] = m
  <2>1. CASE pc[c] = "forward"
    BY <1>2, <2>1
  <2>2. CASE pc[c] # "forward"
    <3>1. hand[c] = <<>>
      BY <1>2, <2>2
    <3> QED BY <2>2, <3>1, EmptySeq
  <2> QED BY <2>1, <2>2
<1> HIDE DEF m
<1>4. m.from = c /\ m.rank = received[c]
  BY DEF m
<1>5. /\ DOMAIN q = 1..n + h
      /\ \A i \in 1..n : q[i] = msgChan[i]
      /\ \A i \in n + 1..n + h : i = n + 1 /\ q[i] = m /\ pc[c] = "forward"
      /\ pc[c] = "forward" => n + 1 \in DOMAIN q /\ q[n + 1] = m
  <2>1. /\ q \in Seq(Message) /\ Len(q) = n + h
        /\ \A i \in 1..n + h :
             q[i] = IF i <= n THEN msgChan[i] ELSE hand[c][i - n]
    BY <1>1, <1>2, ConcatProperties DEF Queue
  <2>2. DOMAIN q = 1..n + h
    BY <2>1, LenProperties
  <2> HIDE DEF q, h, n
  <2> QED BY <1>1, <1>3, <2>1, <2>2
<1> HIDE DEF q, h, n
<1>6. \A i : i \in OnTheWay(c) <=> i \in DOMAIN q /\ q[i].from = c
  BY DEF OnTheWay, q
<1>7. /\ \A i, j \in 1..n : i < j /\ msgChan[i].from = msgChan[j].from
                          => msgChan[i].rank < msgChan[j].rank
      /\ \A i \in 1..n : msgChan[i].from = c =>
           /\ handled[c] < msgChan[i].rank /\ msgChan[i].rank <= received[c]
           /\ pc[c] = "forward" => msgChan[i].rank < received[c]
  BY Zenon DEF IInv, Feed, ChannelInOrder, n
<1>8. ASSUME NEW i \in OnTheWay(c), NEW j \in OnTheWay(c), i < j
      PROVE  q[i].rank < q[j].rank
  <2>1. /\ i \in 1..n + h /\ j \in 1..n + h
        /\ q[i].from = c /\ q[j].from = c /\ h \in 0..1
    BY <1>3, <1>5, <1>6
  <2>2. i \in 1..n
    BY <1>1, <1>5, <1>8, <2>1
  <2>3. CASE j \in 1..n
    BY <1>5, <1>7, <1>8, <2>1, <2>2, <2>3
  <2>4. CASE j = n + 1
    BY <1>1, <1>4, <1>5, <1>7, <2>1, <2>2, <2>4
  <2> QED BY <1>1, <2>1, <2>3, <2>4
<1> DEFINE Ranks == {q[i].rank : i \in OnTheWay(c)}
<1>9. \A x \in Ranks : x \in handled[c] + 1..received[c]
  <2> SUFFICES ASSUME NEW i \in OnTheWay(c)
               PROVE  q[i].rank \in handled[c] + 1..received[c]
    OBVIOUS
  <2>1. i \in 1..n + h /\ q[i].from = c /\ h \in 0..1
    BY <1>3, <1>5, <1>6
  <2>2. CASE i \in 1..n
    BY <1>1, <1>2, <1>5, <1>7, <2>1, <2>2
  <2>3. CASE i \in n + 1..n + h
    BY <1>2, <1>4, <1>5, <2>3
  <2> QED BY <1>1, <2>1, <2>2, <2>3
<1>10. ASSUME NEW r \in handled[c] + 1..received[c]
       PROVE  r \in Ranks \/ (r = received[c] /\ MayHaveDropped(c))
  <2>1. \/ InChannel(c, r)
        \/ r = received[c] /\ (pc[c] = "forward" \/ MayHaveDropped(c))
    BY DEF IInv, Feed, NoneLost
  <2>2. CASE InChannel(c, r)
    <3>1. PICK i \in 1..n : msgChan[i] = [from |-> c, rank |-> r]
      BY <2>2 DEF InChannel, n
    <3>2. i \in DOMAIN q /\ q[i].from = c /\ q[i].rank = r
      BY <1>1, <1>3, <1>5, <3>1
    <3>3. i \in OnTheWay(c)
      BY <1>6, <3>2, Zenon
    <3> QED BY <3>2, <3>3, Zenon
  <2>3. CASE r = received[c] /\ pc[c] = "forward"
    <3>1. n + 1 \in DOMAIN q /\ q[n + 1].from = c /\ q[n + 1].rank = r
      BY <1>4, <1>5, <2>3
    <3>2. n + 1 \in OnTheWay(c)
      BY <1>6, <3>1, Zenon
    <3> QED BY <3>1, <3>2, Zenon
  <2> QED BY <2>1, <2>2, <2>3
<1> HIDE DEF Ranks
<1>11. \E last \in handled[c]..received[c] :
         Ranks = handled[c] + 1..last /\ (~cancelled => last = received[c])
  <2>1. CASE received[c] \in Ranks \/ handled[c] = received[c] \/ ~cancelled
    <3>1. ~cancelled => ~MayHaveDropped(c)
      BY SMT DEF IInv, Feed, NoneLost, MayHaveDropped
    <3>2. \A r \in handled[c] + 1..received[c] : r \in Ranks
      BY <1>2, <1>10, <2>1, <3>1
    <3>3. Ranks = handled[c] + 1..received[c]
      BY <1>9, <3>2
    <3> QED BY <1>2, <3>3
  <2>2. CASE received[c] \notin Ranks /\ handled[c] # received[c] /\ cancelled
    <3>1. received[c] - 1 \in handled[c]..received[c]
      BY <1>2, <2>2
    <3>2. \A r \in handled[c] + 1..received[c] - 1 : r \in Ranks
      BY <1>2, <1>10
    <3>3. \A x \in Ranks : x \in handled[c] + 1..received[c] - 1
      BY <1>2, <1>9, <2>2
    <3>4. Ranks = handled[c] + 1..received[c] - 1
      BY <3>2, <3>3
    <3> QED BY <2>2, <3>1, <3>4
  <2> QED BY <2>1, <2>2
<1> QED BY <1>8, <1>11, Zenon DEF Ranks, q

\* The handler gets the messages of every connection in order, none twice,
\* and before the shutdown all of them.
THEOREM FeedCompleteness == Spec => []FeedIsComplete
BY FeedGivesCompleteness, Invariance, PTL
=============================================================================
