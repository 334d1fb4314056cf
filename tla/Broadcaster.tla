----------------------------- MODULE Broadcaster -----------------------------
(***************************************************************************)
(* What the websocket producer promises (pkg/events/websocket): a call of   *)
(* Produce serves a registry that stands still while the call is in it,     *)
(* the connection of its instance first and then every listener, each one   *)
(* once. An error means that the instance's own connection failed and that  *)
(* no listener was served.                                                  *)
(***************************************************************************)
CONSTANTS Instance, All, Sock, NoSock, Call

VARIABLES
  own,        \* the connection of each instance, or NoSock
  listeners,  \* the connections that receive the events of all instances
  inst,       \* the instance of each call, All before it has one
  status,     \* of each call: "idle", "waiting", "busy", "ok", "error"
  todo,       \* the connections a busy call has still to serve
  alive       \* the process has not panicked

registry == <<own, listeners>>
calls == <<inst, status, todo>>
vars == <<registry, calls, alive>>

Init ==
  /\ own = [i \in Instance |-> NoSock]
  /\ listeners = {}
  /\ inst = [c \in Call |-> All]
  /\ status = [c \in Call |-> "idle"]
  /\ todo = [c \in Call |-> {}]
  /\ alive = TRUE

Begin(c, i) ==
  /\ alive /\ status[c] = "idle"
  /\ inst' = [inst EXCEPT ![c] = i]
  /\ status' = [status EXCEPT ![c] = "waiting"]
  /\ UNCHANGED <<registry, todo, alive>>

Enter(c) ==
  /\ alive /\ status[c] = "waiting"
  /\ status' = [status EXCEPT ![c] = "busy"]
  /\ todo' = [todo EXCEPT ![c] = ({own[inst[c]]} \ {NoSock}) \cup listeners]
  /\ UNCHANGED <<registry, inst, alive>>

\* The write to s is over, whether it failed or not.
Visit(c, s) ==
  /\ alive /\ status[c] = "busy" /\ s \in todo[c]
  /\ own[inst[c]] \in todo[c] => s = own[inst[c]]
  /\ todo' = [todo EXCEPT ![c] = @ \ {s}]
  /\ UNCHANGED <<registry, inst, status, alive>>

Finish(c) ==
  /\ alive /\ status[c] = "busy" /\ todo[c] = {}
  /\ status' = [status EXCEPT ![c] = "ok"]
  /\ UNCHANGED <<registry, inst, todo, alive>>

Fail(c) ==
  /\ alive /\ status[c] = "busy"
  /\ own[inst[c]] \in todo[c] /\ listeners \subseteq todo[c]
  /\ status' = [status EXCEPT ![c] = "error"]
  /\ todo' = [todo EXCEPT ![c] = {}]
  /\ UNCHANGED <<registry, inst, alive>>

\* Connections come and go while no call is busy.
Change ==
  /\ alive /\ \A c \in Call : status[c] # "busy"
  /\ \/ \E i \in Instance, s \in Sock \cup {NoSock} :
          own' = [own EXCEPT ![i] = s] /\ UNCHANGED listeners
     \/ \E s \in Sock \ listeners : listeners' = listeners \cup {s} /\ UNCHANGED own
     \/ \E s \in listeners : listeners' = listeners \ {s} /\ UNCHANGED own
  /\ UNCHANGED <<calls, alive>>

Die ==
  /\ alive /\ alive' = FALSE
  /\ UNCHANGED <<registry, calls>>

Next ==
  \/ \E c \in Call, i \in Instance : Begin(c, i)
  \/ \E c \in Call : Enter(c) \/ (\E s \in Sock : Visit(c, s)) \/ Finish(c) \/ Fail(c)
  \/ Change
  \/ Die

Spec == Init /\ [][Next]_vars
=============================================================================
