--------------------------- MODULE RabbitProducer ---------------------------
(***************************************************************************)
(* The RabbitMQ producer (pkg/events/rabbitmq/rabbitmq_producer.go): every  *)
(* event of every instance calls Produce in a goroutine of its own, and all *)
(* of them use, and replace, the one connection p.conn without a lock.      *)
(*                                                                         *)
(* Granularity: a statement that reads or assigns p.conn is a step, and so  *)
(* is a request to the broker. Goroutines that panic have no recover: a nil *)
(* dereference ends the process.                                           *)
(***************************************************************************)
EXTENDS Naturals, FiniteSets

CONSTANTS
  Call,       \* the calls of Produce, one event each
  Conn,       \* slots for connections made by amqp.DialConfig
  Dials,      \* attempts of one reconnect(): 3
  MaxRetries, \* p.maxRetries: 3
  MaxFaults   \* bound: outages and lost connections in one behaviour

ASSUME ProducerAssumption ==
  /\ Conn \subseteq Nat \ {0}
  /\ Dials \in Nat \ {0}
  /\ MaxRetries \in Nat \ {0}
  /\ MaxFaults \in Nat

NoConn == 0   \* a nil *amqp.Connection, and the connection of a nil *amqp.Channel

VARIABLES
  conn,    \* p.conn
  open,    \* the connections that are not closed
  up,      \* the broker accepts connections
  call,    \* each call of Produce
  wire,    \* payloads written to a connection and not yet read by the broker
  queue,   \* how many copies of each call's payload are queued
  handed,  \* how often channel.Publish returned nil for it (history)
  watch,   \* each connection's handleConnectionClose goroutine
  alive,   \* no goroutine has panicked
  faults   \* outages and lost connections so far

vars == <<conn, open, up, call, wire, queue, handed, watch, alive, faults>>
broker == <<up, queue, faults>>

\* What callers pass as rabbitmqEnable; "enabled" stands for "global" too. A call with "true"
\* is also CreateGlobalQueues, which main calls at startup: it ensures the connection and
\* opens a channel, declares queues and publishes nothing.
Modes == {"enabled", "true"}
CallPC == {"idle", "ensure", "dial", "channel", "prepare", "publish", "close",
           "ok", "error"}
IdleCall == [pc |-> "idle", mode |-> "true", chan |-> NoConn, tries |-> 0, dials |-> 0]

At(c, pc) == alive /\ call[c].pc = pc

\* The call goes on at pc with a channel of connection k; one that has returned
\* keeps its mode only.
Resume(c, k, pc) ==
  call' = [call EXCEPT ![c] =
             IF pc \in {"ok", "error"}
               THEN [IdleCall EXCEPT !.pc = pc, !.mode = call[c].mode]
               ELSE [call[c] EXCEPT !.pc = pc, !.chan = k, !.dials = 0]]
Goto(c, pc) == Resume(c, call[c].chan, pc)

Die == alive' = FALSE

-----------------------------------------------------------------------------
(***************************************************************************)
(* Produce and, from the first failed Publish on (tries > 0),              *)
(* publishWithRetry; both go through ensureConnection and p.conn.Channel().*)
(***************************************************************************)
\* (mutant) The loop runs once more.
OneMoreAttempt(c, result) == IF call[c].tries <= MaxRetries THEN "publish" ELSE result

\* The end of the loop's body: the next attempt, or the value of err after the last.
NextAttempt(c, result) == IF call[c].tries < MaxRetries THEN "publish" ELSE result

\* ensureConnection or p.conn.Channel() failed: Produce returns, the loop continues.
AfterFailure(c) == IF call[c].tries = 0 THEN "error" ELSE NextAttempt(c, "error")

Begin(c, m) ==
  /\ At(c, "idle")
  /\ call' = [call EXCEPT ![c].pc = "ensure", ![c].mode = m]
  /\ UNCHANGED <<conn, open, wire, handed, watch, alive, broker>>

\* (mutant) A producer that never connected counts as switched off.
EnsureSkipsNil(c) ==
  /\ At(c, "ensure")
  /\ IF conn \in open \cup {NoConn} THEN Goto(c, "channel")
       ELSE Goto(c, "dial")
  /\ UNCHANGED <<conn, open, wire, handed, watch, alive, broker>>

\* (mutant) IsClosed is not asked.
EnsureOnlyNil(c) ==
  /\ At(c, "ensure")
  /\ IF conn # NoConn THEN Goto(c, "channel")
       ELSE Goto(c, "dial")
  /\ UNCHANGED <<conn, open, wire, handed, watch, alive, broker>>

\* (mutant) ensureConnection reconnects whatever it finds.
EnsureReconnects(c) ==
  /\ At(c, "ensure")
  /\ Goto(c, "dial")
  /\ UNCHANGED <<conn, open, wire, handed, watch, alive, broker>>

\* ensureConnection: p.conn == nil || p.conn.IsClosed().
Ensure(c) ==
  /\ At(c, "ensure")
  /\ IF conn \in open THEN Goto(c, "channel")
       ELSE Goto(c, "dial")
  /\ UNCHANGED <<conn, open, wire, handed, watch, alive, broker>>

\* A slot that nothing refers to.
FreeConn == {k \in Conn \ (open \cup {conn}) :
               /\ watch[k] = "off"
               /\ \A c \in Call : call[c].chan # k}

\* One round of reconnect(): the result is assigned to p.conn, nil included. The
\* caller that fails returns the error, or tries its old channel again.
Dial(c) ==
  /\ At(c, "dial")
  /\ IF up
       THEN \E k \in FreeConn :
              /\ \A l \in FreeConn : k <= l
              /\ conn' = k
              /\ open' = open \cup {k}
              /\ watch' = [watch EXCEPT ![k] = "started"]
              /\ Goto(c, "channel")
       ELSE /\ conn' = NoConn
            /\ IF call[c].dials + 1 < Dials
                 THEN call' = [call EXCEPT ![c].dials = @ + 1]
                 ELSE Goto(c, AfterFailure(c))
            /\ UNCHANGED <<open, watch>>
  /\ UNCHANGED <<wire, handed, alive, broker>>

\* p.conn.Channel(). In the retry loop its error is assigned to err and its nil
\* channel is what the next attempt publishes on; nil ends the loop without error.
OpenChannel(c) ==
  /\ At(c, "channel")
  /\ CASE conn = NoConn ->
            Die /\ UNCHANGED call
       [] conn # NoConn /\ conn \notin open ->
            /\ Resume(c, NoConn, AfterFailure(c))
            /\ UNCHANGED alive
       [] conn \in open ->
            /\ Resume(c, conn, IF call[c].tries = 0 THEN "prepare" ELSE NextAttempt(c, "ok"))
            /\ UNCHANGED alive
  /\ UNCHANGED <<conn, open, wire, handed, watch, broker>>

\* channel.Confirm and QueueDeclare; with "true" nothing is declared or published.
Prepare(c) ==
  /\ At(c, "prepare")
  /\ Goto(c, IF call[c].chan \notin open THEN "error"
               ELSE IF call[c].mode = "true" THEN "ok" ELSE "publish")
  /\ UNCHANGED <<conn, open, wire, handed, watch, alive, broker>>

\* (mutant) Success does not leave the loop.
PublishEveryAttempt(c) ==
  /\ At(c, "publish")
  /\ call[c].chan \in open
  /\ call' = [call EXCEPT ![c].tries = @ + 1,
                ![c].pc = IF call[c].tries + 1 < MaxRetries THEN "publish" ELSE "close"]
  /\ wire' = wire \cup {<<c, call[c].chan>>}
  /\ handed' = [handed EXCEPT ![c] = @ + 1]
  /\ UNCHANGED <<conn, open, watch, alive, broker>>

\* channel.Publish on a nil channel, a closed one (error 504) or an open one.
Publish(c) ==
  /\ At(c, "publish")
  /\ CASE call[c].chan = NoConn ->
            Die /\ UNCHANGED <<call, wire, handed>>
       [] call[c].chan # NoConn /\ call[c].chan \notin open ->
            /\ call' = [call EXCEPT ![c].pc = "ensure", ![c].tries = @ + 1]
            /\ UNCHANGED <<wire, handed, alive>>
       [] call[c].chan \in open ->
            /\ call' = [call EXCEPT ![c].pc = "close", ![c].tries = @ + 1]
            /\ wire' = wire \cup {<<c, call[c].chan>>}
            /\ handed' = [handed EXCEPT ![c] = @ + 1]
            /\ UNCHANGED alive
  /\ UNCHANGED <<conn, open, watch, broker>>

\* The write fails and the library closes the connection: another error than 504,
\* so the next attempt publishes on the closed channel.
PublishFails(c) ==
  /\ At(c, "publish")
  /\ call[c].chan \in open
  /\ faults < MaxFaults /\ faults' = faults + 1
  /\ open' = open \ {call[c].chan}
  /\ wire' = {w \in wire : w[2] # call[c].chan}
  /\ IF call[c].tries + 1 < MaxRetries
       THEN call' = [call EXCEPT ![c].tries = @ + 1]
       ELSE Goto(c, "error")
  /\ UNCHANGED <<conn, handed, watch, alive, up, queue>>

\* (mutant) Produce waits for the confirmation of the publish, with no timer.
CloseAwaitsConfirm(c) ==
  /\ At(c, "close")
  /\ queue[c] > 0
  /\ Goto(c, "ok")
  /\ UNCHANGED <<conn, open, wire, handed, watch, alive, broker>>

\* The deferred channel.Close of the channel Produce opened waits for the broker,
\* which has then read what was published on it. A later channel is not closed.
Close(c) ==
  /\ At(c, "close")
  /\ call[c].tries = 1 => <<c, call[c].chan>> \notin wire
  /\ Goto(c, "ok")
  /\ UNCHANGED <<conn, open, wire, handed, watch, alive, broker>>

CallStep(c) ==
  \/ Ensure(c) \/ Dial(c) \/ OpenChannel(c) \/ Prepare(c) \/ Publish(c)
  \/ PublishFails(c) \/ Close(c)

-----------------------------------------------------------------------------
(***************************************************************************)
(* handleConnectionClose, started by every successful dial: it tests p.conn *)
(* for nil, and the next statement dereferences it to register the handler. *)
(***************************************************************************)
WatchTests(k) ==
  /\ alive /\ watch[k] = "started"
  /\ watch' = [watch EXCEPT ![k] = IF conn = NoConn THEN "off" ELSE "tested"]
  /\ UNCHANGED <<conn, open, call, wire, handed, alive, broker>>

WatchRegisters(k) ==
  /\ alive /\ watch[k] = "tested"
  /\ IF conn = NoConn THEN Die /\ UNCHANGED watch
       ELSE watch' = [watch EXCEPT ![k] = "off"] /\ UNCHANGED alive
  /\ UNCHANGED <<conn, open, call, wire, handed, broker>>

-----------------------------------------------------------------------------
(***************************************************************************)
(* The broker and the network. What a lost connection had not delivered is  *)
(* lost with it.                                                            *)
(***************************************************************************)
Take(c, k) ==
  /\ alive
  /\ <<c, k>> \in wire
  /\ wire' = wire \ {<<c, k>>}
  /\ queue' = [queue EXCEPT ![c] = @ + 1]
  /\ UNCHANGED <<conn, open, call, handed, watch, alive, up, faults>>

Fault == alive /\ faults < MaxFaults /\ faults' = faults + 1

Drop(k) ==
  /\ Fault
  /\ k \in open
  /\ open' = open \ {k}
  /\ wire' = {w \in wire : w[2] # k}
  /\ UNCHANGED <<conn, up, call, queue, handed, watch, alive>>

BrokerDown ==
  /\ Fault
  /\ up
  /\ up' = FALSE
  /\ open' = {}
  /\ wire' = {}
  /\ UNCHANGED <<conn, call, queue, handed, watch, alive>>

BrokerUp ==
  /\ alive
  /\ ~up
  /\ up' = TRUE
  /\ UNCHANGED <<conn, open, call, wire, queue, handed, watch, alive, faults>>

\* main dials once before it builds the producer, which gets nil if that failed;
\* CreateGlobalQueues, alone at startup, may then have made the first connection.
Init ==
  /\ up \in BOOLEAN
  /\ \/ conn = NoConn
     \/ up /\ conn \in Conn /\ \A k \in Conn : conn <= k
  /\ open = {conn} \ {NoConn}
  /\ call = [c \in Call |-> IdleCall]
  /\ wire = {}
  /\ queue = [c \in Call |-> 0]
  /\ handed = [c \in Call |-> 0]
  /\ \E w \in {"off", "started"} : watch = [k \in Conn |-> IF k = conn THEN w ELSE "off"]
  /\ alive = TRUE
  /\ faults = 0

Next ==
  \/ \E c \in Call, m \in Modes : Begin(c, m)
  \/ \E c \in Call : CallStep(c)
  \/ \E k \in Conn : WatchTests(k) \/ WatchRegisters(k)
  \/ \E c \in Call, k \in Conn : Take(c, k)
  \/ \E k \in Conn : Drop(k)
  \/ BrokerDown
  \/ BrokerUp

Spec == Init /\ [][Next]_vars

\* Goroutines run, and a broker reads the connections it has.
Fairness ==
  /\ \A c \in Call : WF_vars(CallStep(c))
  /\ \A c \in Call, k \in Conn : WF_vars(Take(c, k))

FairSpec == Spec /\ Fairness

-----------------------------------------------------------------------------
(***************************************************************************)
(* Properties                                                              *)
(***************************************************************************)
CallRec == [pc : CallPC, mode : Modes, chan : Conn \cup {NoConn},
            tries : 0..MaxRetries, dials : 0..Dials]

\* The retry loop makes at most maxRetries attempts and a reconnection at most
\* Dials; a payload travels on the connection of its call's channel, which is open.
TypeOK ==
  /\ conn \in Conn \cup {NoConn}
  /\ open \subseteq Conn
  /\ up \in BOOLEAN
  /\ call \in [Call -> CallRec]
  /\ wire \subseteq Call \X open
  /\ \A w \in wire : call[w[1]].pc = "ok" \/ w[2] = call[w[1]].chan
  /\ queue \in [Call -> Nat]
  /\ handed \in [Call -> Nat]
  /\ watch \in [Conn -> {"off", "started", "tested"}]
  /\ alive \in BOOLEAN
  /\ faults \in Nat

\* Retries and reconnections never put two copies of an event on its queue.
AtMostOnce == \A c \in Call : queue[c] <= 1

\* An error is returned only for an event that was never written: nothing that
\* was delivered is reported as failed. Like AtMostOnce, Publishes says so of every step.
ErrorUnsent ==
  \A c \in Call :
    call[c].pc = "error" => handed[c] = 0 /\ queue[c] = 0

\* As long as every connection holds, also after a first dial that failed, no
\* call and no watcher dereferences a nil connection or channel.
SafeWhileUp == ~alive => faults > 0 \/ ~up

OneDials == \A c, d \in Call : call[c].pc = "dial" /\ call[d].pc = "dial" => c = d

\* A connection is left open without a reference, never to be closed, only by
\* reconnections that overlap (reconnect assigns p.conn without a look at it): while
\* at most one call is in reconnect at a time, p.conn is the only open connection,
\* whatever is lost and however often it is made again.
LeakNeedsOverlap == []OneDials => [](open \subseteq {conn})

\* Every call of Produce returns, whatever the broker does, if the process lives.
CallsReturn ==
  \A c \in Call :
    call[c].pc \notin {"idle", "ok", "error"} ~> (~alive \/ call[c].pc \in {"ok", "error"})

\* Once the broker is back for good, an event that comes next reaches its queue
\* without a restart of the process.
Recovers ==
  \A c \in Call :
    (At(c, "ensure") /\ call[c].tries = 0 /\ call[c].mode # "true" /\ up /\ faults = MaxFaults)
      ~> (~alive \/ queue[c] = 1)

\* An event whose Produce returned nil is received by the broker.
OkReceived ==
  \A c \in Call :
    (call[c].pc = "ok" /\ call[c].mode # "true") ~> (~alive \/ queue[c] = 1)

\* The producer keeps the promise of the abstract publisher.
Status == [c \in Call |-> CASE call[c].pc \in {"idle", "ok", "error"} -> call[c].pc
                           [] OTHER -> "busy"]

Abstract == INSTANCE Publisher WITH status <- Status

Publishes == Abstract!Spec
=============================================================================
