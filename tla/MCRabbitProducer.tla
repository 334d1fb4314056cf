-------------------------- MODULE MCRabbitProducer --------------------------
(***************************************************************************)
(* RabbitProducer on small sets for TLC.                                    *)
(***************************************************************************)
EXTENDS RabbitProducer

CONSTANTS c1, c2   \* model values for Call
=============================================================================
