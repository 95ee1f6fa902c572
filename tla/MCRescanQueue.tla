--------------------------- MODULE MCRescanQueue ----------------------------
(***************************************************************************)
(* A watched root and a directory in it, below a parent that is not        *)
(* watched.                                                                *)
(***************************************************************************)
EXTENDS RescanQueue, TLC

CONSTANTS above, root, sub

MCParentOf == (above :> NoDir) @@ (root :> above) @@ (sub :> root)
MCIsUnder ==
  {<<above, above>>, <<root, root>>, <<sub, sub>>,
   <<root, above>>, <<sub, above>>, <<sub, root>>}
=============================================================================
