-------------------------- MODULE MCEngineProcess --------------------------
(***************************************************************************)
(* Two roots, one of which cannot be opened, and two requests.             *)
(***************************************************************************)
EXTENDS EngineProcess
CONSTANTS r1, r2, c1, c2
=============================================================================
