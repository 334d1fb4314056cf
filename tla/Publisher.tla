------------------------------ MODULE Publisher ------------------------------
(***************************************************************************)
(* What a call of Producer.Produce promises its caller                      *)
(* (pkg/events/interfaces), as the RabbitMQ producer keeps it: the payload  *)
(* reaches the broker at most once, and an error is returned only for a     *)
(* payload that was never handed over. Nil promises nothing.                *)
(***************************************************************************)
EXTENDS Naturals

CONSTANT Call   \* the calls of Produce, one payload each

VARIABLES
  status,  \* of each call: "idle", "busy", "ok" (nil was returned), "error"
  handed,  \* how often the call's payload was handed to the broker
  queue,   \* how many copies of it the broker has queued
  alive    \* the process has not panicked

vars == <<status, handed, queue, alive>>

Init ==
  /\ status = [c \in Call |-> "idle"]
  /\ handed = [c \in Call |-> 0]
  /\ queue = [c \in Call |-> 0]
  /\ alive = TRUE

Begin(c) ==
  /\ alive /\ status[c] = "idle"
  /\ status' = [status EXCEPT ![c] = "busy"]
  /\ UNCHANGED <<handed, queue, alive>>

Hand(c) ==
  /\ alive /\ status[c] = "busy" /\ handed[c] = 0
  /\ handed' = [handed EXCEPT ![c] = 1]
  /\ UNCHANGED <<status, queue, alive>>

\* The broker enqueues a payload it was handed, or loses it with the connection
\* and never does.
Enqueue(c) ==
  /\ alive /\ handed[c] = 1 /\ queue[c] = 0
  /\ queue' = [queue EXCEPT ![c] = 1]
  /\ UNCHANGED <<status, handed, alive>>

Return(c, result) ==
  /\ alive /\ status[c] = "busy"
  /\ result = "error" => handed[c] = 0
  /\ status' = [status EXCEPT ![c] = result]
  /\ UNCHANGED <<handed, queue, alive>>

Die ==
  /\ alive /\ alive' = FALSE
  /\ UNCHANGED <<status, handed, queue>>

Next ==
  \/ \E c \in Call :
       Begin(c) \/ Hand(c) \/ Enqueue(c) \/ (\E r \in {"ok", "error"} : Return(c, r))
  \/ Die

Spec == Init /\ [][Next]_vars
=============================================================================
