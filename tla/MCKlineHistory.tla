---------------------------- MODULE MCKlineHistory ----------------------------
(***************************************************************************)
(* Instance of KlineHistory for TLC: its constants are numbers and sets of *)
(* them, given in the configuration.                                       *)
(***************************************************************************)
EXTENDS KlineHistory
=============================================================================
