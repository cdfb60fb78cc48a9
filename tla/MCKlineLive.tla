----------------------------- MODULE MCKlineLive -----------------------------
(***************************************************************************)
(* Instance of KlineLive for TLC: its constants are model values and       *)
(* numbers, given in the configurations.                                   *)
(***************************************************************************)
EXTENDS KlineLive
=============================================================================
