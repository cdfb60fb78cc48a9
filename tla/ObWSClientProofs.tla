-------------------------- MODULE ObWSClientProofs --------------------------
(***************************************************************************)
(* Proofs about the depth websocket client, for every set of connection    *)
(* loops and all delays.                                                   *)
(***************************************************************************)
EXTENDS ObWSClient, TLAPS

(* The strengthening.                                                      *)

\* A loop past its read loop has a broken socket.
BrokenAfterRead ==
  \A c \in Conns : pc[c] \in {"join", "unregister", "close"} => sock[c] # "open"

\* Only a loop that had a session can have missed events, and never while it
\* reads.
GapsAnnounced ==
  \A c \in Conns :
    /\ pc[c] = "read" => c \in connectedOnce
    /\ book[c] = "gapped" => c \in connectedOnce /\ pc[c] # "read"

IInv ==
  /\ TypeOK
  /\ NoSocketLeak
  /\ MapIsExact
  /\ PingWithinSession
  /\ NoEventAcrossGap
  /\ BrokenAfterRead
  /\ GapsAnnounced

-----------------------------------------------------------------------------
\* The initial states satisfy the invariant.
LEMMA InitIInv == Init => IInv
<1> SUFFICES ASSUME Init PROVE IInv
  OBVIOUS
<1>1. ReconnectDelay \in ReconnectDelay..MaxReconnectDelay
  BY DelayAssumption, SMT
<1>2. TypeOK
  BY <1>1, Zenon DEF Init, TypeOK, Connected
<1>3. NoSocketLeak /\ MapIsExact /\ PingWithinSession
  BY SMT DEF Init, NoSocketLeak, MapIsExact, PingWithinSession, Listed
<1>4. NoEventAcrossGap /\ BrokenAfterRead /\ GapsAnnounced
  BY SMT DEF Init, NoEventAcrossGap, BrokenAfterRead, GapsAnnounced
<1> QED BY <1>2, <1>3, <1>4 DEF IInv

\* The steps of the caller: Start, a done context and the two halves of Close.
LEMMA CallerIInv ==
  IInv /\ (Start \/ ParentDone \/ Close \/ Sweep) => IInv'
<1> SUFFICES ASSUME IInv, Start \/ ParentDone \/ Close \/ Sweep
             PROVE  IInv'
  OBVIOUS
<1> USE DEF IInv, TypeOK, NoSocketLeak, MapIsExact, PingWithinSession,
            NoEventAcrossGap, BrokenAfterRead, GapsAnnounced, Connected, Listed,
            streamVars
<1>1. CASE Start
  BY <1>1, SMT DEF Start
<1>2. CASE ParentDone
  BY <1>2, SMT DEF ParentDone
<1>3. CASE Close
  BY <1>3, SMT DEF Close
<1>4. CASE Sweep
  <2>1. TypeOK'
    BY <1>4, SMT DEF Sweep
  <2>2. NoSocketLeak' /\ MapIsExact'
    BY <1>4, SMT DEF Sweep
  <2>3. PingWithinSession' /\ NoEventAcrossGap'
    BY <1>4, SMT DEF Sweep
  <2>4. BrokenAfterRead' /\ GapsAnnounced'
    BY <1>4, SMT DEF Sweep
  <2> QED BY <2>1, <2>2, <2>3, <2>4
<1> QED BY <1>1, <1>2, <1>3, <1>4

\* A step of a loop up to its registration.
LEMMA ConnectIInv ==
  ASSUME IInv, NEW c \in Conns,
         \/ Launch(c) \/ Attempt(c) \/ Backoff(c) \/ Subscription(c)
         \/ Register(c)
  PROVE  IInv'
<1> USE DelayAssumption
    DEF IInv, TypeOK, NoSocketLeak, MapIsExact, PingWithinSession,
        NoEventAcrossGap, BrokenAfterRead, GapsAnnounced, Connected, Listed,
        Go, Move, SetSock, SetPing, AttemptFailed, callerVars, streamVars
<1>1. CASE Launch(c)
  BY <1>1, SMT DEF Launch
<1>2. CASE DialSucceeds(c)
  BY <1>2, SMT DEF DialSucceeds
<1>3. CASE DialFails(c)
  BY <1>3, SMT DEF DialFails
<1>4. CASE BackoffElapsed(c)
  BY <1>4, SMT DEF BackoffElapsed
<1>5. CASE BackoffCancelled(c)
  BY <1>5, SMT DEF BackoffCancelled
<1>6. CASE Subscribe(c)
  BY <1>6, SMT DEF Subscribe
<1>7. CASE SubscribeFails(c)
  BY <1>7, SMT DEF SubscribeFails
<1>8. CASE Register(c)
  BY <1>8, SMT DEF Register
<1> QED
  BY <1>1, <1>2, <1>3, <1>4, <1>5, <1>6, <1>7, <1>8, Zenon
  DEF Attempt, Backoff, Subscription

\* A step of a loop from its registration to the end of the session.
LEMMA SessionIInv ==
  ASSUME IInv, NEW c \in Conns,
         \/ BeginRead(c) \/ Deliver(c) \/ ReadFails(c) \/ Join(c)
         \/ Unregister(c) \/ CloseSession(c)
  PROVE  IInv'
<1> USE DelayAssumption
    DEF IInv, TypeOK, NoSocketLeak, MapIsExact, PingWithinSession,
        NoEventAcrossGap, BrokenAfterRead, GapsAnnounced, Connected, Listed,
        Go, Move, SetSock, SetPing, callerVars, streamVars
<1>1. CASE BeginRead(c)
  BY <1>1, SMT DEF BeginRead
<1>2. CASE Deliver(c)
  BY <1>2, SMT DEF Deliver
<1>3. CASE ReadFails(c)
  BY <1>3, SMT DEF ReadFails
<1>4. CASE Join(c)
  BY <1>4, SMT DEF Join
<1>5. CASE Unregister(c)
  BY <1>5, SMT DEF Unregister
<1>6. CASE CloseSession(c)
  BY <1>6, SMT DEF CloseSession
<1> QED BY <1>1, <1>2, <1>3, <1>4, <1>5, <1>6

\* A step of a ping goroutine, or a dropped socket.
LEMMA SocketIInv ==
  ASSUME IInv, NEW c \in Conns,
         PingTick(c) \/ PingSettles(c) \/ PingStops(c) \/ Drop(c)
  PROVE  IInv'
<1> USE DEF IInv, TypeOK, NoSocketLeak, MapIsExact, PingWithinSession,
            NoEventAcrossGap, BrokenAfterRead, GapsAnnounced, Connected, Listed,
            SetSock, SetPing, MovePing, callerVars, streamVars
<1>1. CASE PingTick(c)
  BY <1>1, SMT DEF PingTick
<1>2. CASE PingSent(c)
  BY <1>2, SMT DEF PingSent
<1>3. CASE PingFails(c)
  BY <1>3, SMT DEF PingFails
<1>4. CASE PingStops(c)
  BY <1>4, SMT DEF PingStops
<1>5. CASE Drop(c)
  BY <1>5, SMT DEF Drop
<1> QED
  BY <1>1, <1>2, <1>3, <1>4, <1>5, Zenon DEF PingSettles

\* Every step preserves the invariant.
LEMMA NextIInv == IInv /\ [Next]_vars => IInv'
<1> SUFFICES ASSUME IInv, [Next]_vars PROVE IInv'
  OBVIOUS
<1>1. CASE Start \/ ParentDone \/ Close \/ Sweep
  BY <1>1, CallerIInv
<1>2. CASE UNCHANGED vars
  BY <1>2, SMT
  DEF vars, callerVars, streamVars, IInv, TypeOK, NoSocketLeak, MapIsExact,
      PingWithinSession, NoEventAcrossGap, BrokenAfterRead, GapsAnnounced
<1>3. ASSUME NEW c \in Conns,
             \/ Launch(c) \/ Attempt(c) \/ Backoff(c) \/ Subscription(c)
             \/ Register(c)
      PROVE  IInv'
  BY <1>3, ConnectIInv
<1>4. ASSUME NEW c \in Conns,
             \/ BeginRead(c) \/ Deliver(c) \/ ReadFails(c) \/ Join(c)
             \/ Unregister(c) \/ CloseSession(c)
      PROVE  IInv'
  BY <1>4, SessionIInv
<1>5. ASSUME NEW c \in Conns,
             PingTick(c) \/ PingSettles(c) \/ PingStops(c) \/ Drop(c)
      PROVE  IInv'
  BY <1>5, SocketIInv
<1> QED
  BY <1>1, <1>2, <1>3, <1>4, <1>5, Zenon DEF Next, Loop, Finished

\* The conjunction of all of them is an invariant of the client.
THEOREM Invariance == Spec => []IInv
  BY InitIInv, NextIInv, PTL DEF Spec

-----------------------------------------------------------------------------
\* Type correctness; in particular no delay exceeds the configured maximum.
THEOREM TypeCorrect == Spec => []TypeOK
<1>1. IInv => TypeOK
  BY DEF IInv
<1> QED BY <1>1, Invariance, PTL

\* No path out of a session leaves its socket open.
THEOREM SocketsAreClosed == Spec => []NoSocketLeak
<1>1. IInv => NoSocketLeak
  BY DEF IInv
<1> QED BY <1>1, Invariance, PTL

\* c.conns holds the sockets of the sessions going on, and no others.
THEOREM SocketsAreListed == Spec => []MapIsExact
<1>1. IInv => MapIsExact
  BY DEF IInv
<1> QED BY <1>1, Invariance, PTL

\* A ping goroutine ends with its session.
THEOREM PingsEndWithSession == Spec => []PingWithinSession
<1>1. IInv => PingWithinSession
  BY DEF IInv
<1> QED BY <1>1, Invariance, PTL

\* Managers hear of a gap before the first event that follows it.
THEOREM GapsAreAnnounced == Spec => []NoEventAcrossGap
<1>1. IInv => NoEventAcrossGap
  BY DEF IInv
<1> QED BY <1>1, Invariance, PTL

\* Close misses a socket only between its dial and its registration, and no
\* socket is opened after the cancel.
THEOREM CloseMissesUnregistered == Spec => OnlyUnregisteredSurvive
<1> DEFINE Survivors(c) ==
      /\ closer # "done" /\ closer' = "done" /\ sock'[c] = "open"
           => pc[c] \in {"subscribe", "register"}
      /\ cancelled /\ sock'[c] = "open" => sock[c] = "open"
<1>1. IInv /\ [Next]_vars => [\A c \in Conns : Survivors(c)]_vars
  <2> SUFFICES ASSUME IInv, Next, NEW c \in Conns
               PROVE  Survivors(c)
    OBVIOUS
  <2>1. CASE Sweep
    BY <2>1, SMT
    DEF Sweep, IInv, TypeOK, NoSocketLeak, MapIsExact, BrokenAfterRead,
        Connected, Listed
  <2>2. CASE Start \/ ParentDone \/ Close \/ Finished
    BY <2>2, SMT
    DEF Start, ParentDone, Close, Finished, vars, callerVars, streamVars
  <2>3. ASSUME NEW d \in Conns, Launch(d) \/ Loop(d)
        PROVE  Survivors(c)
    BY <2>3, SMT
    DEF Launch, Loop, Attempt, Backoff, Subscription, DialSucceeds, DialFails,
        BackoffElapsed, BackoffCancelled, Subscribe, SubscribeFails, Register,
        BeginRead, ReadFails, Join, Unregister, CloseSession, Go, Move,
        SetSock, SetPing, AttemptFailed, callerVars, streamVars, IInv, TypeOK
  <2>4. ASSUME NEW d \in Conns,
               \/ Deliver(d) \/ Drop(d) \/ PingTick(d) \/ PingSettles(d)
               \/ PingStops(d)
        PROVE  Survivors(c)
    BY <2>4, SMT
    DEF Deliver, Drop, PingTick, PingSettles, PingSent, PingFails, PingStops,
        SetSock, SetPing, MovePing, callerVars, streamVars, IInv, TypeOK
  <2> QED BY <2>1, <2>2, <2>3, <2>4, Zenon DEF Next
<1> QED
  BY <1>1, Invariance, PTL DEF Spec, OnlyUnregisteredSurvive
=============================================================================
