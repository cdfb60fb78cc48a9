---------------------------- MODULE MCObWSClient ----------------------------
(***************************************************************************)
(* Instance of ObWSClient for TLC: its constants are given in the          *)
(* configurations.                                                         *)
(***************************************************************************)
EXTENDS ObWSClient
=============================================================================
