--------------------------- MODULE MCKlineBootstrap ---------------------------
(***************************************************************************)
(* Instance of KlineBootstrap for TLC: two intervals of a symbol that the  *)
(* exchange does not know and one of a symbol that it does.                *)
(***************************************************************************)
EXTENDS KlineBootstrap

CONSTANTS a1, a2, b1, A, B

MCOrder == <<a1, a2, b1>>
MCSymbolOf == (a1 :> A @@ a2 :> A @@ b1 :> B)

One == <<[t |-> 2, v |-> 1]>>
Two == <<[t |-> 2, v |-> 2], [t |-> 4, v |-> 3]>>

\* A first start; a corrupt file beside whole ones; files of one candle and of
\* two, the last of each still open when it was written.
MCInitialFiles ==
  {[k \in AllKeys |-> NoFile],
   (a1 :> WholeFile(Two) @@ a2 :> WholeFile(Two) @@ b1 :> TornFile),
   (a1 :> NoFile @@ a2 :> WholeFile(Two) @@ b1 :> WholeFile(One)),
   (a1 :> NoFile @@ a2 :> NoFile @@ b1 :> WholeFile(Two))}

\* A table that lags behind the files, and has never heard of a1.
MCInitialRows == {(a1 :> <<>> @@ a2 :> One @@ b1 :> One)}
=============================================================================
