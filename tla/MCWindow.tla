------------------------------ MODULE MCWindow ------------------------------
(***************************************************************************)
(* Small instances of the main window for TLC.                             *)
(***************************************************************************)
EXTENDS WindowProperties
=============================================================================
