------------------------------ MODULE Requests ------------------------------
(***************************************************************************)
(* What sendIQ and SendMessage promise (whatsmeow-lib/request.go, send.go), *)
(* without the sockets, the map of waiters and the readers: whatever a call *)
(* does, it hears one thing about each of its frames, an answer only to a   *)
(* frame that was written, and it writes a second frame, the last, only     *)
(* when it was told that the connection of the first has ended.             *)
(***************************************************************************)
EXTENDS Naturals

CONSTANT Call

VARIABLES
  phase,   \* of each call: "idle", "first" or "second" (frame), "over"
  frames,  \* how often its request was written
  news,    \* what it has heard about the frame of its phase, "empty" before
  alive    \* the process has not panicked

vars == <<phase, frames, news, alive>>

Init ==
  /\ phase = [c \in Call |-> "idle"]
  /\ frames = [c \in Call |-> 0]
  /\ news = [c \in Call |-> "none"]
  /\ alive = TRUE

Turn(c, from, to, hears) ==
  /\ alive /\ phase[c] = from
  /\ phase' = [phase EXCEPT ![c] = to]
  /\ news' = [news EXCEPT ![c] = hears]
  /\ UNCHANGED <<frames, alive>>

Ask(c) == Turn(c, "idle", "first", "empty")

\* The request may have been lost with its connection before WhatsApp saw it.
AskAgain(c) == frames[c] = 1 /\ news[c] = "end" /\ Turn(c, "first", "second", "empty")

\* Answered, told to give up, timed out or failed.
Return(c) == (\E from \in {"first", "second"} : Turn(c, from, "over", "none"))

Write(c) ==
  /\ alive
  /\ \/ phase[c] = "first" /\ frames[c] = 0
     \/ phase[c] = "second" /\ frames[c] = 1
  /\ frames' = [frames EXCEPT ![c] = @ + 1]
  /\ UNCHANGED <<phase, news, alive>>

Answer(c) ==
  /\ alive /\ news[c] = "empty" /\ frames[c] > 0
  /\ news' = [news EXCEPT ![c] = "answer"]
  /\ UNCHANGED <<phase, frames, alive>>

\* The connection has ended, or WhatsApp has ended the session.
Tell(S, node) ==
  /\ alive /\ \A c \in S : news[c] = "empty"
  /\ news' = [c \in Call |-> IF c \in S THEN node ELSE news[c]]
  /\ UNCHANGED <<phase, frames, alive>>

Die ==
  /\ alive /\ alive' = FALSE
  /\ UNCHANGED <<phase, frames, news>>

Next ==
  \/ \E c \in Call : Ask(c) \/ Write(c) \/ Answer(c) \/ AskAgain(c) \/ Return(c)
  \/ \E S \in SUBSET Call, node \in {"end", "auth"} : Tell(S, node)
  \/ Die

Spec == Init /\ [][Next]_vars
=============================================================================
