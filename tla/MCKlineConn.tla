----------------------------- MODULE MCKlineConn -----------------------------
(***************************************************************************)
(* Instances of KlineConn for TLC: how many messages each connection       *)
(* brings; the other constants are numbers, given in the configurations.   *)
(***************************************************************************)
EXTENDS KlineConn

\* KlineConnSession: one connection.
SessionMsgs == <<4>>

\* KlineConnFeed: a connection with a predecessor for its last message, and
\* another that takes the place in the channel from it.
FeedMsgs == <<2, 1>>
=============================================================================
