----------------------------- MODULE ObWSClient -----------------------------
(***************************************************************************)
(* The depth stream of the orderbook service: type WSClient of             *)
(* internal/exchange/websocket.go.                                         *)
(*                                                                         *)
(* Start launches one loop per group of symbols; each loop dials,          *)
(* subscribes, registers its socket in the shared map c.conns, reads until *)
(* an error, and starts over.  While it reads, a ping goroutine writes to  *)
(* the same socket.  Close, called from another goroutine, cancels the     *)
(* context and then closes the sockets it finds in the map.                *)
(*                                                                         *)
(* Payloads are left out: an event is one step.  The order book managers   *)
(* behind onEvent and onReconnect are outside the repository; all that is  *)
(* kept of them is whether the stream of a loop has a gap they were not    *)
(* told of.                                                                *)
(***************************************************************************)
EXTENDS Integers

CONSTANTS
  Conns,                    \* the connection loops, one per symbol group
  ReconnectDelay,           \* cfg.ReconnectDelaySec
  MaxReconnectDelay         \* cfg.MaxReconnectDelaySec

ASSUME DelayAssumption ==
  /\ ReconnectDelay \in Nat \ {0}
  /\ MaxReconnectDelay \in Nat
  /\ MaxReconnectDelay >= ReconnectDelay

VARIABLES
  started,                  \* c.started
  cancelled,                \* runCtx is done
  closer,                   \* Close: idle, sweeping (past cancel), done
  conns,                    \* the loops whose socket is in c.conns
  pc,                       \* loop -> where it is
  sock,                     \* loop -> its latest socket
  ping,                     \* loop -> the ping goroutine of its session
  connectedOnce,            \* the loops that had a session before
  delay,                    \* loop -> the next back-off, in seconds
  book                      \* loop -> what its managers make of the stream

callerVars == <<started, cancelled, closer>>
streamVars == <<connectedOnce, delay, book>>
vars == <<callerVars, conns, pc, sock, ping, streamVars>>

\* A loop holds a socket from the end of dial to its own Close of it, ...
Connected ==
  {"subscribe", "register", "connected", "read", "join", "unregister", "close"}
\* ... and Close can find the socket in c.conns for part of that time.
Listed == {"connected", "read", "join", "unregister"}

TypeOK ==
  /\ started \in BOOLEAN /\ cancelled \in BOOLEAN
  /\ closer \in {"idle", "sweeping", "done"}
  /\ conns \subseteq Conns
  /\ pc \in [Conns -> {"unstarted", "dial", "wait", "returned"} \cup Connected]
  /\ sock \in [Conns -> {"none", "open", "dropped", "closed"}]
  /\ ping \in [Conns -> {"off", "on", "writing"}]
  /\ connectedOnce \subseteq Conns
  /\ delay \in [Conns -> ReconnectDelay..MaxReconnectDelay]
  /\ book \in [Conns -> {"synced", "gapped", "wrong"}]

Init ==
  /\ started = FALSE /\ cancelled = FALSE /\ closer = "idle"
  /\ conns = {}
  /\ pc = [c \in Conns |-> "unstarted"]
  /\ sock = [c \in Conns |-> "none"]
  /\ ping = [c \in Conns |-> "off"]
  /\ connectedOnce = {}
  /\ delay = [c \in Conns |-> ReconnectDelay]
  /\ book = [c \in Conns |-> "synced"]

Go(c, from, to) == pc[c] = from /\ pc' = [pc EXCEPT ![c] = to]
SetSock(c, s) == sock' = [sock EXCEPT ![c] = s]
SetPing(c, p) == ping' = [ping EXCEPT ![c] = p]

\* Steps that move one program counter and nothing else.
Move(c, from, to) ==
  /\ Go(c, from, to)
  /\ UNCHANGED <<callerVars, conns, sock, ping, streamVars>>

MovePing(c, from, to) ==
  /\ ping[c] = from /\ SetPing(c, to)
  /\ UNCHANGED <<callerVars, conns, pc, sock, streamVars>>

-----------------------------------------------------------------------------
(* Start and Close, called by goroutines of the caller.                    *)

\* The locked part of Start; a second call returns at once.
Start ==
  /\ ~started
  /\ started' = TRUE
  /\ UNCHANGED <<cancelled, closer, conns, pc, sock, ping, streamVars>>

\* The go statement for one group, whatever Close did meanwhile.
Launch(c) ==
  /\ started
  /\ Move(c, "unstarted", "dial")

\* The context given to Start is done.
ParentDone ==
  /\ started /\ ~cancelled
  /\ cancelled' = TRUE
  /\ UNCHANGED <<started, closer, conns, pc, sock, ping, streamVars>>

\* Close up to cancel().  (Before Start there is no cancel to call.)
Close ==
  /\ started /\ closer = "idle"
  /\ closer' = "sweeping"
  /\ cancelled' = TRUE
  /\ UNCHANGED <<started, conns, pc, sock, ping, streamVars>>

\* A Close that empties the map without closing what it holds.
SweepForgets ==
  /\ closer = "sweeping"
  /\ closer' = "done"
  /\ conns' = {}
  /\ UNCHANGED <<started, cancelled, pc, sock, ping, streamVars>>

\* The second locked part of Close.
Sweep ==
  /\ closer = "sweeping"
  /\ closer' = "done"
  /\ sock' = [c \in Conns |-> IF c \in conns THEN "closed" ELSE sock[c]]
  /\ conns' = {}
  /\ UNCHANGED <<started, cancelled, pc, ping, streamVars>>

-----------------------------------------------------------------------------
(* connectWithBackoff and connectOnce.                                     *)

\* An attempt failed: leave if the context is done, else back off.
AttemptFailed(c, from) ==
  Go(c, from, IF cancelled THEN "returned" ELSE "wait")

\* DialContext fails whenever the context is done.
DialSucceeds(c) ==
  /\ ~cancelled
  /\ Go(c, "dial", "subscribe")
  /\ SetSock(c, "open")
  /\ UNCHANGED <<callerVars, conns, ping, streamVars>>

DialFails(c) ==
  /\ AttemptFailed(c, "dial")
  /\ UNCHANGED <<callerVars, conns, sock, ping, streamVars>>

\* A doubling without the cap.
BackoffUncapped(c) ==
  /\ Go(c, "wait", "dial")
  /\ delay' = [delay EXCEPT ![c] = 2 * @]
  /\ UNCHANGED <<callerVars, conns, sock, ping, connectedOnce, book>>

\* The timer of waitFor fires, or ctx.Done is taken; after the cancel both
\* may be ready.
BackoffElapsed(c) ==
  /\ Go(c, "wait", "dial")
  /\ delay' = [delay EXCEPT ![c] =
       IF 2 * @ <= MaxReconnectDelay THEN 2 * @ ELSE MaxReconnectDelay]
  /\ UNCHANGED <<callerVars, conns, sock, ping, connectedOnce, book>>

BackoffCancelled(c) ==
  /\ cancelled
  /\ Move(c, "wait", "returned")

\* WriteJSON of the subscription.  It may succeed on a dropped socket.
Subscribe(c) == Move(c, "subscribe", "register")

\* A connectOnce that returns the error and leaves the socket open.
SubscribeFailsOpen(c) ==
  /\ sock[c] = "dropped"
  /\ AttemptFailed(c, "subscribe")
  /\ UNCHANGED <<callerVars, conns, sock, ping, streamVars>>

SubscribeFails(c) ==
  /\ sock[c] = "dropped"
  /\ AttemptFailed(c, "subscribe")
  /\ SetSock(c, "closed")
  /\ UNCHANGED <<callerVars, conns, ping, streamVars>>

\* registerConnection does not look whether Close has been here.
Register(c) ==
  /\ Go(c, "register", "connected")
  /\ conns' = conns \cup {c}
  /\ UNCHANGED <<callerVars, sock, ping, streamVars>>

-----------------------------------------------------------------------------
(* runConnection and readLoop.                                             *)

\* A loop that never sets connectedOnce.
BeginReadForgetful(c) ==
  /\ Go(c, "connected", "read")
  /\ book' = [book EXCEPT ![c] =
       IF c \in connectedOnce THEN "synced" ELSE @]
  /\ SetPing(c, "on")
  /\ UNCHANGED <<callerVars, conns, sock, connectedOnce, delay>>

\* Call onReconnect unless this is the first session, and enter readLoop.
BeginRead(c) ==
  /\ Go(c, "connected", "read")
  /\ book' = [book EXCEPT ![c] =
       IF c \in connectedOnce THEN "synced" ELSE @]
  /\ connectedOnce' = connectedOnce \cup {c}
  /\ SetPing(c, "on")
  /\ UNCHANGED <<callerVars, conns, sock, delay>>

\* ReadMessage returns a depth message and onEvent is called.  What was
\* buffered is still read from a socket that is dropped or closed.
Deliver(c) ==
  /\ pc[c] = "read"
  /\ book' = [book EXCEPT ![c] = IF @ = "gapped" THEN "wrong" ELSE @]
  /\ UNCHANGED <<callerVars, conns, pc, sock, ping, connectedOnce, delay>>

\* ReadMessage fails; the deferred close(pingDone) runs.  Whatever the
\* exchange sends until the next session is missed.
ReadFails(c) ==
  /\ sock[c] \in {"dropped", "closed"}
  /\ Go(c, "read", "join")
  /\ book' = [book EXCEPT ![c] = IF @ = "synced" THEN "gapped" ELSE @]
  /\ UNCHANGED <<callerVars, conns, sock, ping, connectedOnce, delay>>

\* The deferred function without pingWG.Wait.
JoinUnawaited(c) == Move(c, "join", "unregister")

\* pingWG.Wait.
Join(c) ==
  /\ ping[c] = "off"
  /\ Move(c, "join", "unregister")

\* A loop that leaves the entry for the next session to overwrite.
UnregisterSkipped(c) == Move(c, "unregister", "close")

Unregister(c) ==
  /\ Go(c, "unregister", "close")
  /\ conns' = conns \ {c}
  /\ UNCHANGED <<callerVars, sock, ping, streamVars>>

\* connection.Close, then leave or dial again at once: only attempts that
\* fail are followed by a wait, which starts from the base delay.
CloseSession(c) ==
  /\ Go(c, "close", IF cancelled THEN "returned" ELSE "dial")
  /\ SetSock(c, "closed")
  /\ delay' = [delay EXCEPT ![c] = ReconnectDelay]
  /\ UNCHANGED <<callerVars, conns, ping, connectedOnce, book>>

-----------------------------------------------------------------------------
(* pingLoop.                                                               *)

PingTick(c) == MovePing(c, "on", "writing")

\* WriteMessage has no deadline: while the peer keeps the socket open and
\* does not read, it may take for ever.
PingSent(c) ==
  sock[c] # "closed" /\ MovePing(c, "writing", "on")

PingFails(c) ==
  /\ ping[c] = "writing" /\ sock[c] # "open"
  /\ SetPing(c, "off")
  /\ SetSock(c, "closed")
  /\ UNCHANGED <<callerVars, conns, pc, streamVars>>

\* A ping loop that listens to the context alone.
PingStopsUnheard(c) ==
  cancelled /\ MovePing(c, "on", "off")

\* ctx.Done, or the done channel of this session.
PingStops(c) ==
  (cancelled \/ pc[c] = "join") /\ MovePing(c, "on", "off")

-----------------------------------------------------------------------------
\* The exchange or the network drops a socket.
Drop(c) ==
  /\ sock[c] = "open"
  /\ SetSock(c, "dropped")
  /\ UNCHANGED <<callerVars, conns, pc, ping, streamVars>>

\* Close is through and every loop has returned: Wait returns.
Finished ==
  /\ started /\ closer = "done"
  /\ \A c \in Conns : pc[c] = "returned"
  /\ UNCHANGED vars

Attempt(c) == DialSucceeds(c) \/ DialFails(c)
Backoff(c) == BackoffElapsed(c) \/ BackoffCancelled(c)
Subscription(c) == Subscribe(c) \/ SubscribeFails(c)
PingSettles(c) == PingSent(c) \/ PingFails(c)

Loop(c) ==
  \/ Attempt(c) \/ Backoff(c) \/ Subscription(c) \/ Register(c)
  \/ BeginRead(c) \/ ReadFails(c) \/ Join(c) \/ Unregister(c)
  \/ CloseSession(c)

Next ==
  \/ Start \/ ParentDone \/ Close \/ Sweep \/ Finished
  \/ \E c \in Conns :
       \/ Launch(c) \/ Loop(c) \/ Deliver(c) \/ Drop(c)
       \/ PingTick(c) \/ PingSettles(c) \/ PingStops(c)

Spec == Init /\ [][Next]_vars

\* Goroutines that can run do, dials and back-off timers end, a select takes
\* every case that stays ready, and the kernel settles a write to a socket
\* that is no longer open; the subscription, first on a new socket, fits in
\* its buffer.  The exchange owes nothing: it may keep a socket open, and a
\* ping to it pending, for ever.
Fairness ==
  /\ WF_vars(Sweep)
  /\ \A c \in Conns :
       /\ WF_vars(Launch(c)) /\ WF_vars(Loop(c))
       /\ WF_vars(PingTick(c)) /\ SF_vars(PingStops(c))
       /\ WF_vars(sock[c] # "open" /\ PingSettles(c))

FairSpec == Spec /\ Fairness

-----------------------------------------------------------------------------
(* Safety.                                                                 *)

\* No path out of a session, failed subscriptions and shutdown included,
\* leaves a socket behind that nobody closes.
NoSocketLeak ==
  \A c \in Conns : pc[c] \notin Connected => sock[c] \in {"none", "closed"}

\* The map is exact: a socket in it belongs to a session that is going on,
\* and a session a loop reads is in it unless Close has closed its socket.
MapIsExact ==
  \A c \in Conns :
    /\ c \in conns => pc[c] \in Listed
    /\ pc[c] \in Listed => c \in conns \/ sock[c] = "closed"

\* A ping goroutine never outlives the session it was started for, so no
\* ping goes to, and no failed ping closes, the socket of a later one.
PingWithinSession ==
  \A c \in Conns : ping[c] # "off" => pc[c] \in {"read", "join"}

\* Managers never apply an event that follows a gap they were not told of:
\* the reconnect handler runs before the first event of the new session.
NoEventAcrossGap == \A c \in Conns : book[c] # "wrong"

(* Action properties.                                                      *)

\* Close misses a socket only if its loop is between the dial and the
\* registration at that moment; after the cancel no new one is opened.
OnlyUnregisteredSurvive ==
  [][\A c \in Conns :
       /\ closer # "done" /\ closer' = "done" /\ sock'[c] = "open"
            => pc[c] \in {"subscribe", "register"}
       /\ cancelled /\ sock'[c] = "open" => sock[c] = "open"]_vars

-----------------------------------------------------------------------------
(* Liveness.                                                               *)

\* A session Close can see ends, and its loop returns.
ListedLoopsStop ==
  \A c \in Conns :
    c \in conns /\ closer = "sweeping" ~> pc[c] = "returned"

\* A dropped socket is noticed, closed and replaced by a new attempt.
DropIsNoticed ==
  \A c \in Conns : sock[c] = "dropped" ~> pc[c] \in {"dial", "wait", "returned"}

(* What the documents say.                                                 *)

\* websocket.go: Close stops all connection loops.
CloseStopsLoops ==
  \A c \in Conns : closer = "done" ~> pc[c] \in {"unstarted", "returned"}

\* prd.md: any read error is followed by a reconnect with back-off; a loop
\* whose sessions end again and again waits again and again.
RepeatedLossBacksOff ==
  \A c \in Conns : []<>(pc[c] = "join") => []<>(pc[c] = "wait")
=============================================================================
