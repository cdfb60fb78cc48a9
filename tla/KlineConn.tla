------------------------------ MODULE KlineConn ------------------------------
(***************************************************************************)
(* The feed of the kline service: the shard connections (type Conn of      *)
(* internal/ws/conn.go), the manager that runs and closes them             *)
(* (internal/ws/manager.go), the message channel and the handler goroutine *)
(* that empties it (internal/ws/handler.go).                               *)
(*                                                                         *)
(* Three goroutines close or write one connection: its loop, the ping      *)
(* goroutine of the session and main, through manager.Close.  The mutex    *)
(* writeMu orders them; it is held across a write, and no step inside the  *)
(* short sections of connMu blocks, so each of those is atomic.            *)
(*                                                                         *)
(* A message is its connection and its rank on that connection.            *)
(***************************************************************************)
EXTENDS Integers, SequencesExt

CONSTANTS
  NumConns,                 \* len(m.conns)
  NumSubs,                  \* subscriptions of a connection
  ChanSize,                 \* capacity of msgChan
  MaxBackoff,               \* the cap of nextBackoff; the first is 1
  MaxMsgs                   \* bound: conn -> messages received on it

ASSUME ConnAssumption ==
  /\ NumConns \in Nat \ {0} /\ NumSubs \in Nat \ {0}
  /\ ChanSize \in Nat \ {0} /\ MaxBackoff \in Nat \ {0}

Conns == 1..NumConns

ASSUME MessagesAssumption == MaxMsgs \in [Conns -> Nat]

VARIABLES
  cancelled,                \* ctx is done
  nextClose,                \* manager.Close: the connection it is at
  pc,                       \* conn -> where its Run is
  after,                    \* conn -> what Run does after Close
  conn,                     \* the connections whose c.conn is not nil
  sock,                     \* conn -> the socket it dialled last
  left,                     \* conn -> subscriptions still to send
  ping,                     \* conn -> the ping goroutine of its session
  backoff,                  \* conn -> its back-off, in seconds
  hadMessage,               \* the connections whose session had a message
  hand,                     \* conn -> the message it read and not yet sent
  msgChan,                  \* the channel
  handler,                  \* the handler goroutine: running, stopped
  received,                 \* conn -> messages read from its sockets
  handled                   \* conn -> messages taken by the handler

runVars == <<after, left, backoff, hadMessage>>
feedVars == <<hand, msgChan, handler, received, handled>>
mainVars == <<cancelled, nextClose>>
vars == <<mainVars, conn, sock, ping, pc, runVars, feedVars>>

\* Between the dial and the Close of the loop.
Session ==
  {"assign", "subscribe", "lock", "write", "read", "getConn",
   "receive", "forward", "join", "close"}
\* The session has its ping goroutine.
Pinging == Session \ {"assign", "close"}

Message == [from : Conns, rank : Nat \ {0}]

TypeOK ==
  /\ cancelled \in BOOLEAN
  /\ nextClose \in 1..NumConns + 1
  /\ pc \in [Conns -> {"unstarted", "top", "dial", "wait", "returned"}
                        \cup Session]
  /\ after \in [Conns -> {"wait", "returned"}]
  /\ conn \subseteq Conns
  /\ sock \in [Conns -> {"none", "open", "dropped", "closed"}]
  /\ left \in [Conns -> 0..NumSubs]
  /\ ping \in [Conns -> {"off", "on", "lock", "write", "close"}]
  /\ backoff \in [Conns -> 1..MaxBackoff]
  /\ hadMessage \subseteq Conns
  /\ hand \in [Conns -> Seq(Message)]
  /\ msgChan \in Seq(Message) /\ Len(msgChan) <= ChanSize
  /\ handler \in {"running", "stopped"}
  /\ received \in [Conns -> Nat]
  /\ handled \in [Conns -> Nat]

Init ==
  /\ cancelled = FALSE /\ nextClose = 1
  /\ pc = [c \in Conns |-> "unstarted"]
  /\ after = [c \in Conns |-> "wait"]
  /\ conn = {}
  /\ sock = [c \in Conns |-> "none"]
  /\ left = [c \in Conns |-> 0]
  /\ ping = [c \in Conns |-> "off"]
  /\ backoff = [c \in Conns |-> 1]
  /\ hadMessage = {}
  /\ hand = [c \in Conns |-> <<>>]
  /\ msgChan = <<>> /\ handler = "running"
  /\ received = [c \in Conns |-> 0] /\ handled = [c \in Conns |-> 0]

Go(c, from, to) == pc[c] = from /\ pc' = [pc EXCEPT ![c] = to]

\* Steps that move one program counter and nothing else.
Move(c, from, to) ==
  /\ Go(c, from, to)
  /\ UNCHANGED <<mainVars, conn, sock, ping, runVars, feedVars>>

MovePing(c, from, to) ==
  /\ ping[c] = from /\ ping' = [ping EXCEPT ![c] = to]
  /\ UNCHANGED <<mainVars, conn, sock, pc, runVars, feedVars>>

\* The session is over: cancel connCtx and wait for the ping goroutine.
EndSession(c, from, next) ==
  /\ Go(c, from, "join")
  /\ after' = [after EXCEPT ![c] = next]
  /\ UNCHANGED <<mainVars, conn, sock, ping, left, backoff, hadMessage>>

\* Nobody holds writeMu: it is held across a write only.
WriteMuFree(c) == pc[c] # "write" /\ ping[c] # "write"

\* Conn.Close, once it has writeMu.
CloseConn(c) ==
  /\ WriteMuFree(c)
  /\ sock' = IF c \in conn THEN [sock EXCEPT ![c] = "closed"] ELSE sock
  /\ conn' = conn \ {c}

-----------------------------------------------------------------------------
(* main and Manager.                                                       *)

Cancel ==
  /\ ~cancelled
  /\ cancelled' = TRUE
  /\ UNCHANGED <<nextClose, conn, sock, ping, pc, runVars, feedVars>>

\* The go statement of Manager.Run, which main does not wait for.
Launch(c) == Move(c, "unstarted", "top")

\* Manager.Close, after <-ctx.Done: one connection after the other.
ManagerClose ==
  /\ cancelled /\ nextClose <= NumConns
  /\ CloseConn(nextClose)
  /\ nextClose' = nextClose + 1
  /\ UNCHANGED <<cancelled, ping, pc, runVars, feedVars>>

-----------------------------------------------------------------------------
(* Conn.Run up to the session.                                             *)

\* The head of the loop.
CheckContext(c) ==
  /\ Go(c, "top", IF cancelled THEN "close" ELSE "dial")
  /\ after' = [after EXCEPT ![c] = IF cancelled THEN "returned" ELSE @]
  /\ UNCHANGED <<mainVars, conn, sock, ping, left, backoff, hadMessage,
                 feedVars>>

DialSucceeds(c) ==
  /\ ~cancelled
  /\ Go(c, "dial", "assign")
  /\ sock' = [sock EXCEPT ![c] = "open"]
  /\ UNCHANGED <<mainVars, conn, ping, runVars, feedVars>>

DialFails(c) == Move(c, "dial", "wait")

\* c.conn is set, the ping goroutine starts, subscribeAll begins.
AssignConn(c) ==
  /\ Go(c, "assign", "subscribe")
  /\ conn' = conn \cup {c}
  /\ ping' = [ping EXCEPT ![c] = "on"]
  /\ left' = [left EXCEPT ![c] = NumSubs]
  /\ UNCHANGED <<mainVars, sock, after, backoff, hadMessage, feedVars>>

\* A doubling without the cap.
BackoffUncapped(c) ==
  /\ Go(c, "wait", "top")
  /\ backoff' = [backoff EXCEPT ![c] = 2 * @]
  /\ UNCHANGED <<mainVars, conn, sock, ping, after, left, hadMessage,
                 feedVars>>

\* waitBackoff: the timer, or ctx.Done.
BackoffElapsed(c) ==
  /\ Go(c, "wait", "top")
  /\ backoff' = [backoff EXCEPT ![c] =
       IF 2 * @ > MaxBackoff THEN MaxBackoff ELSE 2 * @]
  /\ UNCHANGED <<mainVars, conn, sock, ping, after, left, hadMessage,
                 feedVars>>

BackoffCancelled(c) ==
  /\ cancelled
  /\ Move(c, "wait", "returned")

-----------------------------------------------------------------------------
(* subscribeAll: sendJSON by the loop, one subscription after the other.   *)

\* The loop of subscribeAll is done.
Subscribed(c) ==
  /\ left[c] = 0
  /\ Move(c, "subscribe", "read")

\* sendJSON finds c.conn, and goes for writeMu, ...
SubscribeNext(c) ==
  /\ left[c] > 0 /\ c \in conn
  /\ Move(c, "subscribe", "lock")

\* ... or finds it nil, closed by a failed ping or by the manager.
SubscribeUnconnected(c) ==
  /\ left[c] > 0 /\ c \notin conn
  /\ EndSession(c, "subscribe", "wait")
  /\ UNCHANGED feedVars

\* A sendJSON that does not take writeMu.
SubscribeLockUnguarded(c) == Move(c, "lock", "write")

SubscribeLock(c) ==
  /\ WriteMuFree(c)
  /\ Move(c, "lock", "write")

\* A write to the socket, which others may have closed since sendJSON read
\* c.conn, ends within its deadline.
SubscribeWritten(c) ==
  /\ sock[c] # "closed"
  /\ Go(c, "write", "subscribe")
  /\ left' = [left EXCEPT ![c] = @ - 1]
  /\ UNCHANGED <<mainVars, conn, sock, ping, after, backoff, hadMessage,
                 feedVars>>

SubscribeWriteFails(c) ==
  /\ EndSession(c, "write", "wait")
  /\ UNCHANGED feedVars

-----------------------------------------------------------------------------
(* readLoop.                                                               *)

\* A readLoop without the first select.
ReadUnchecked(c) == Move(c, "read", "getConn")

\* The first select ...
ReadProceeds(c) ==
  /\ ~cancelled
  /\ Move(c, "read", "getConn")

ReadCancelled(c) ==
  /\ cancelled
  /\ EndSession(c, "read", "returned")
  /\ UNCHANGED feedVars

\* ... and getConn.
ReadConnected(c) ==
  /\ c \in conn
  /\ Move(c, "getConn", "receive")

ReadUnconnected(c) ==
  /\ c \notin conn
  /\ EndSession(c, "getConn", "wait")
  /\ UNCHANGED feedVars

\* ReadMessage returns a message, or fails once the socket is broken.  What
\* was buffered is still read from a socket that is dropped or closed.
Receive(c) ==
  /\ received[c] < MaxMsgs[c]
  /\ Go(c, "receive", "forward")
  /\ received' = [received EXCEPT ![c] = @ + 1]
  /\ hand' = [hand EXCEPT ![c] = <<[from |-> c, rank |-> received[c] + 1]>>]
  /\ hadMessage' = hadMessage \cup {c}
  /\ UNCHANGED <<mainVars, conn, sock, ping, after, left, backoff, msgChan,
                 handler, handled>>

ReceiveFails(c) ==
  /\ sock[c] \in {"dropped", "closed"}
  /\ EndSession(c, "receive", "wait")
  /\ UNCHANGED feedVars

\* A send that gives up when the channel is full.
ForwardOrDrop(c) ==
  /\ Go(c, "forward", "read")
  /\ msgChan' = IF Len(msgChan) < ChanSize THEN msgChan \o hand[c] ELSE msgChan
  /\ hand' = [hand EXCEPT ![c] = <<>>]
  /\ UNCHANGED <<mainVars, conn, sock, ping, after, left, backoff,
                 hadMessage, handler, received, handled>>

\* The second select: the send when there is room, or ctx.Done, which drops
\* the message.
Forward(c) ==
  /\ Len(msgChan) < ChanSize
  /\ Go(c, "forward", "read")
  /\ msgChan' = msgChan \o hand[c]
  /\ hand' = [hand EXCEPT ![c] = <<>>]
  /\ UNCHANGED <<mainVars, conn, sock, ping, after, left, backoff,
                 hadMessage, handler, received, handled>>

ForwardCancelled(c) ==
  /\ cancelled
  /\ EndSession(c, "forward", "returned")
  /\ hand' = [hand EXCEPT ![c] = <<>>]
  /\ UNCHANGED <<msgChan, handler, received, handled>>

-----------------------------------------------------------------------------
(* The end of a session.                                                   *)

\* A Run that does not wait for pingDone.
JoinUnawaited(c) == Move(c, "join", "close")

\* <-pingDone.
Join(c) ==
  /\ ping[c] = "off"
  /\ Move(c, "join", "close")

\* A Run that goes on without its own Close.
LeaveUnclosed(c) == Move(c, "close", after[c])

\* c.Close(); a session that had a message resets the back-off.
Leave(c) ==
  /\ CloseConn(c)
  /\ Go(c, "close", after[c])
  /\ backoff' = [backoff EXCEPT ![c] =
       IF after[c] = "wait" /\ c \in hadMessage THEN 1 ELSE @]
  /\ hadMessage' = hadMessage \ {c}
  /\ UNCHANGED <<mainVars, ping, after, left, feedVars>>

-----------------------------------------------------------------------------
(* pingLoop: sendJSON, and Close when it fails.                            *)

PingTick(c) == MovePing(c, "on", IF c \in conn THEN "lock" ELSE "close")

PingLock(c) ==
  /\ WriteMuFree(c)
  /\ MovePing(c, "lock", "write")

PingWritten(c) ==
  /\ sock[c] # "closed"
  /\ MovePing(c, "write", "on")

PingWriteFails(c) == MovePing(c, "write", "close")

PingCloses(c) ==
  /\ CloseConn(c)
  /\ ping[c] = "close" /\ ping' = [ping EXCEPT ![c] = "off"]
  /\ UNCHANGED <<mainVars, pc, runVars, feedVars>>

\* A ping goroutine given ctx in place of connCtx.
PingStopsLate(c) ==
  /\ cancelled
  /\ MovePing(c, "on", "off")

\* connCtx is done.
PingStops(c) ==
  /\ cancelled \/ pc[c] = "join"
  /\ MovePing(c, "on", "off")

-----------------------------------------------------------------------------
(* Handler.Run, and the exchange.                                          *)

Handle ==
  /\ handler = "running" /\ msgChan # <<>>
  /\ handled' = [handled EXCEPT ![Head(msgChan).from] = Head(msgChan).rank]
  /\ msgChan' = Tail(msgChan)
  /\ UNCHANGED <<mainVars, conn, sock, ping, pc, runVars, hand, handler,
                 received>>

HandlerDone ==
  /\ cancelled /\ handler = "running"
  /\ handler' = "stopped"
  /\ UNCHANGED <<mainVars, conn, sock, ping, pc, runVars, hand, msgChan,
                 received, handled>>

\* The exchange or the network drops a socket.
Drop(c) ==
  /\ sock[c] = "open"
  /\ sock' = [sock EXCEPT ![c] = "dropped"]
  /\ UNCHANGED <<mainVars, conn, ping, pc, runVars, feedVars>>

-----------------------------------------------------------------------------
\* Everything has returned; main has closed every connection.
Finished ==
  /\ nextClose > NumConns /\ handler = "stopped"
  /\ \A c \in Conns : pc[c] = "returned"
  /\ UNCHANGED vars

\* The steps of Run but for Receive, which waits for the exchange.
Loop(c) ==
  \/ CheckContext(c) \/ DialSucceeds(c) \/ DialFails(c) \/ AssignConn(c)
  \/ BackoffElapsed(c) \/ BackoffCancelled(c)
  \/ Subscribed(c) \/ SubscribeNext(c) \/ SubscribeUnconnected(c)
  \/ SubscribeLock(c) \/ SubscribeWritten(c) \/ SubscribeWriteFails(c)
  \/ ReadProceeds(c) \/ ReadCancelled(c) \/ ReadConnected(c)
  \/ ReadUnconnected(c) \/ ReceiveFails(c) \/ Forward(c)
  \/ ForwardCancelled(c) \/ Join(c) \/ Leave(c)

PingSend(c) ==
  PingLock(c) \/ PingWritten(c) \/ PingWriteFails(c) \/ PingCloses(c)

Next ==
  \/ Cancel \/ ManagerClose \/ Handle \/ HandlerDone \/ Finished
  \/ \E c \in Conns :
       \/ Launch(c) \/ Loop(c) \/ Receive(c) \/ Drop(c)
       \/ PingTick(c) \/ PingSend(c) \/ PingStops(c)

Spec == Init /\ [][Next]_vars

\* Goroutines that can run do, a Mutex is handed to whoever waits for it, a
\* select takes every case that stays ready, dials and writes end within
\* their deadlines, and TCP keepalive reports a dropped socket to its reader.
\* The exchange owes nothing: it may keep a socket open and silent for ever.
Fairness ==
  /\ SF_vars(ManagerClose) /\ WF_vars(Handle \/ HandlerDone)
  /\ \A c \in Conns :
       /\ WF_vars(Launch(c)) /\ SF_vars(Loop(c))
       /\ WF_vars(PingTick(c)) /\ SF_vars(PingSend(c)) /\ SF_vars(PingStops(c))

FairSpec == Spec /\ Fairness

-----------------------------------------------------------------------------
(* Safety.                                                                 *)

\* The websocket library allows one writer at a time: a subscription and a
\* ping, which starts before subscribeAll does, never write together.
OneWriter == \A c \in Conns : ~(pc[c] = "write" /\ ping[c] = "write")

\* Outside a session there is no socket to close: every way out of it, the
\* failed subscription and the shutdown included, goes through Close, and
\* no Close of another goroutine comes between to be undone.
NoSocketLeak ==
  \A c \in Conns :
    pc[c] \notin Session => c \notin conn /\ sock[c] \in {"none", "closed"}

\* A ping goroutine never outlives its session: none pings, or closes, the
\* connection of the next one.
PingWithinSession == \A c \in Conns : ping[c] # "off" => pc[c] \in Pinging

\* What a connection has before the handler: the channel and the message it
\* holds, and the places of its own messages in it.
Queue(c) == msgChan \o hand[c]

OnTheWay(c) == {i \in DOMAIN Queue(c) : Queue(c)[i].from = c}

\* The handler gets the messages of a connection in the order they were
\* read, none twice, and until the shutdown none is lost, across sessions
\* and however full the channel is.
FeedIsComplete ==
  \A c \in Conns :
    /\ \A i, j \in OnTheWay(c) :
         i < j => Queue(c)[i].rank < Queue(c)[j].rank
    /\ \E last \in handled[c]..received[c] :
         /\ {Queue(c)[i].rank : i \in OnTheWay(c)} = handled[c] + 1..last
         /\ ~cancelled => last = received[c]

-----------------------------------------------------------------------------
(* Liveness.                                                               *)

\* Once manager.Close is through, every loop returns, though it may have
\* been dialling, or waiting for room in a channel nobody empties any more.
ManagerCloseStopsLoops ==
  \A c \in Conns : nextClose > NumConns ~> pc[c] = "returned"

\* A session whose socket is dropped ends, whatever its loop and its ping
\* goroutine were waiting for.
DropEndsSession ==
  \A c \in Conns : sock[c] = "dropped" ~> pc[c] \notin Session
=============================================================================
