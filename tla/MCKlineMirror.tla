---------------------------- MODULE MCKlineMirror -----------------------------
(***************************************************************************)
(* Instance of KlineMirror for TLC: a candle is pushed twice, then the     *)
(* next one.                                                               *)
(***************************************************************************)
EXTENDS KlineMirror

MCOpenTimes == <<1, 1, 2>>
=============================================================================
