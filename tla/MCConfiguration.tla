-------------------------- MODULE MCConfiguration --------------------------
(***************************************************************************)
(* The root of the drive, which is watched when nothing else is, and one   *)
(* directory with two names to move between.                               *)
(***************************************************************************)
EXTENDS Configuration, TLC
CONSTANTS a, drive, d1
MCHome == drive :> Default @@ d1 :> a
=============================================================================
