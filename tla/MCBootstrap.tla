---------------------------- MODULE MCBootstrap ----------------------------
(***************************************************************************)
(* A small instance of Bootstrap for TLC.                                  *)
(***************************************************************************)
EXTENDS Bootstrap

CONSTANTS a1, a2
=============================================================================
