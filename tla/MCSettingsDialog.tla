-------------------------- MODULE MCSettingsDialog -------------------------
(***************************************************************************)
(* One folder, at most three requests; a ring, a text and a history of two.*)
(***************************************************************************)
EXTENDS SettingsDialog
CONSTANT f1
=============================================================================
