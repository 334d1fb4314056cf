------------------------- MODULE MCWebsocketProducer -------------------------
(***************************************************************************)
(* WebsocketProducer on small sets for TLC.                                 *)
(***************************************************************************)
EXTENDS WebsocketProducer
=============================================================================
