----------------------------- MODULE MCObWriter -----------------------------
(***************************************************************************)
(* Instance of ObWriter for TLC: its constant is given in the              *)
(* configuration.                                                          *)
(***************************************************************************)
EXTENDS ObWriter
=============================================================================
