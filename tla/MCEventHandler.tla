--------------------------- MODULE MCEventHandler ---------------------------
(***************************************************************************)
(* EventHandler on small sets for TLC.                                      *)
(***************************************************************************)
EXTENDS EventHandler
=============================================================================
