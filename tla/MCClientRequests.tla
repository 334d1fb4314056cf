-------------------------- MODULE MCClientRequests --------------------------
(***************************************************************************)
(* ClientRequests on small sets for TLC. The calls meet in messageSendLock  *)
(* alone, which an info query does not take.                                *)
(***************************************************************************)
EXTENDS ClientRequests

CONSTANTS c1, c2

MCCall == {c1, c2}

\* Two messages, or one info query.
MCMixes == {[c \in MCCall |-> "send"], [c \in MCCall |-> IF c = c1 THEN "iq" ELSE "none"]}
=============================================================================
