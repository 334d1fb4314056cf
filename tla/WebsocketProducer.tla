-------------------------- MODULE WebsocketProducer --------------------------
(***************************************************************************)
(* The websocket producer (pkg/events/websocket/websocket_producer.go): a   *)
(* registry of connections, at most one for each instance and a list of     *)
(* those that receive the events of all instances. Each connection has a    *)
(* goroutine that reads it and unregisters it; each event calls Produce in  *)
(* a goroutine of its own, which writes while it holds the read lock.       *)
(*                                                                         *)
(* Granularity: waiting for clientsMux and each WriteJSON are where a       *)
(* goroutine can block; a step goes from one of these points to the next.   *)
(***************************************************************************)
EXTENDS Naturals, Sequences, FiniteSets

CONSTANTS
  Instance,  \* instance ids
  All,       \* the empty instanceId of a broadcast connection
  Sock,      \* websocket connections, each made once
  NoSock,    \* an absent entry of p.clients
  Call       \* calls of Produce, one event each

ASSUME WebsocketAssumption == All \notin Instance /\ NoSock \notin Sock

VARIABLES
  clients,    \* p.clients
  broadcast,  \* p.broadcast
  sock,       \* each connection's instanceId and reader
  up,         \* the connections whose peer is there
  stalled,    \* those whose peer has stopped reading
  pending,    \* the connection whose goroutine is in clientsMux.Lock(), or NoSock
  call,       \* each call of Produce
  got,        \* <<call, connection>>: the message was written while the peer was there
  owed,       \* the broadcast list each call found (history)
  torn,       \* <<call, connection>>: the write overlapped with another (history)
  alive       \* no goroutine has panicked

registry == <<clients, broadcast, sock, pending>>
peers == <<up, stalled>>
calls == <<call, got, owed, torn>>
vars == <<registry, peers, calls, alive>>

SockPC == {"new", "add", "reading", "remove", "gone"}
CallPC == {"idle", "rlock", "lookup", "client", "loop", "write", "ok", "error"}

NewSock == [pc |-> "new", inst |-> All]

Listed == {broadcast[j] : j \in DOMAIN broadcast}
Registered(s) == s \in Listed \/ \E i \in Instance : clients[i] = s

-----------------------------------------------------------------------------
(***************************************************************************)
(* clientsMux, a sync.RWMutex. A writer that has called Lock waits for the  *)
(* readers and keeps new ones out; when it unlocks, all readers that waited *)
(* get in before the next writer.                                           *)
(***************************************************************************)
HoldsRead(c) == call[c].pc \in {"lookup", "client", "loop", "write"}

\* (mutant) The registry changes while readers hold the lock.
LocksAtOnce(s) == pending = s

Locks(s) == pending = s /\ \A c \in Call : ~HoldsRead(c)

Unlock ==
  /\ pending' = NoSock
  /\ call' = [c \in Call |-> IF call[c].pc = "rlock" THEN [call[c] EXCEPT !.pc = "lookup"]
                               ELSE call[c]]

-----------------------------------------------------------------------------
(***************************************************************************)
(* ServeWs and the reader it starts                                        *)
(***************************************************************************)
ServeWs(s, i) ==
  /\ alive
  /\ sock[s].pc = "new"
  /\ sock' = [sock EXCEPT ![s] = [pc |-> "add", inst |-> i]]
  /\ up' = up \cup {s}
  /\ UNCHANGED <<clients, broadcast, pending, stalled, calls, alive>>

\* conn.ReadMessage returns an error.
ReadFails(s) ==
  /\ alive
  /\ sock[s].pc = "reading" /\ s \notin up
  /\ sock' = [sock EXCEPT ![s].pc = "remove"]
  /\ UNCHANGED <<clients, broadcast, pending, peers, calls, alive>>

\* AddClient, RemoveClient and their broadcast forms call clientsMux.Lock().
WantsLock(s) ==
  /\ alive
  /\ sock[s].pc \in {"add", "remove"} /\ pending = NoSock
  /\ pending' = s
  /\ UNCHANGED <<clients, broadcast, sock, peers, calls, alive>>

\* (mutant) The lock is not released.
AddStaysLocked(s) ==
  /\ alive
  /\ sock[s].pc = "add" /\ Locks(s)
  /\ IF sock[s].inst = All
       THEN broadcast' = Append(broadcast, s) /\ UNCHANGED clients
       ELSE clients' = [clients EXCEPT ![sock[s].inst] = s] /\ UNCHANGED broadcast
  /\ sock' = [sock EXCEPT ![s].pc = "reading"]
  /\ UNCHANGED <<pending, peers, calls, alive>>

\* AddBroadcastClient appends; AddClient replaces the connection of the instance.
Add(s) ==
  /\ alive
  /\ sock[s].pc = "add" /\ Locks(s)
  /\ IF sock[s].inst = All
       THEN broadcast' = Append(broadcast, s) /\ UNCHANGED clients
       ELSE clients' = [clients EXCEPT ![sock[s].inst] = s] /\ UNCHANGED broadcast
  /\ sock' = [sock EXCEPT ![s].pc = "reading"]
  /\ Unlock
  /\ UNCHANGED <<peers, got, owed, torn, alive>>

\* append(p.broadcast[:i], p.broadcast[i+1:]...), for the first i that has s.
Place(s) == {i \in DOMAIN broadcast :
               broadcast[i] = s /\ \A j \in 1 .. i - 1 : broadcast[j] # s}
Without(i) == SubSeq(broadcast, 1, i - 1) \o SubSeq(broadcast, i + 1, Len(broadcast))

\* (mutant) RemoveClient is called for broadcast connections too.
RemoveFromMap(s) ==
  /\ alive
  /\ sock[s].pc = "remove" /\ Locks(s)
  /\ clients' = [i \in Instance |-> IF i = sock[s].inst THEN NoSock ELSE clients[i]]
  /\ sock' = [sock EXCEPT ![s].pc = "gone"]
  /\ Unlock
  /\ UNCHANGED <<broadcast, peers, got, owed, torn, alive>>

\* (mutant) RemoveBroadcastClient takes the connection that was added last.
RemoveLast(s) ==
  /\ alive
  /\ sock[s].pc = "remove" /\ Locks(s)
  /\ IF sock[s].inst = All
       THEN broadcast' = SubSeq(broadcast, 1, Len(broadcast) - 1) /\ UNCHANGED clients
       ELSE clients' = [clients EXCEPT ![sock[s].inst] = NoSock] /\ UNCHANGED broadcast
  /\ sock' = [sock EXCEPT ![s].pc = "gone"]
  /\ Unlock
  /\ UNCHANGED <<peers, got, owed, torn, alive>>

\* RemoveBroadcastClient removes the connection, RemoveClient whatever the map has
\* for its instance. The connection is closed after that.
Remove(s) ==
  /\ alive
  /\ sock[s].pc = "remove" /\ Locks(s)
  /\ IF sock[s].inst = All
       THEN /\ IF Place(s) = {} THEN UNCHANGED broadcast
                 ELSE \E i \in Place(s) : broadcast' = Without(i)
            /\ UNCHANGED clients
       ELSE clients' = [clients EXCEPT ![sock[s].inst] = NoSock] /\ UNCHANGED broadcast
  /\ sock' = [sock EXCEPT ![s].pc = "gone"]
  /\ Unlock
  /\ UNCHANGED <<peers, got, owed, torn, alive>>

SockStep(s) == ReadFails(s) \/ WantsLock(s) \/ Add(s) \/ Remove(s)

-----------------------------------------------------------------------------
(***************************************************************************)
(* Produce                                                                 *)
(***************************************************************************)
Move(c, pc) == call' = [call EXCEPT ![c].pc = pc]

\* clientsMux.RLock()
Begin(c, i) ==
  /\ alive
  /\ call[c].pc = "idle"
  /\ call' = [call EXCEPT ![c].inst = i, ![c].pc = IF pending = NoSock THEN "lookup" ELSE "rlock"]
  /\ UNCHANGED <<registry, peers, got, owed, torn, alive>>

Return(c, result) ==
  call' = [call EXCEPT ![c].pc = result, ![c].to = NoSock, ![c].next = 1]

Writing(s) == {c \in Call : call[c].pc \in {"client", "write"} /\ call[c].to = s}

\* WriteJSON starts. The library allows one writer at a time: a second one makes it
\* panic, or ends and mixes up the frames of both.
StartWrite(c, s, pc) ==
  \/ /\ call' = [call EXCEPT ![c].pc = pc, ![c].to = s]
     /\ torn' = IF Writing(s) = {} THEN torn ELSE torn \cup ((Writing(s) \cup {c}) \X {s})
     /\ UNCHANGED alive
  \/ /\ Writing(s) # {}
     /\ alive' = FALSE
     /\ UNCHANGED <<call, torn>>

\* The instance's own connection comes first.
Lookup(c) ==
  /\ alive
  /\ call[c].pc = "lookup"
  /\ owed' = [owed EXCEPT ![c] = Listed]
  /\ IF clients[call[c].inst] # NoSock
       THEN StartWrite(c, clients[call[c].inst], "client")
       ELSE Move(c, "loop") /\ UNCHANGED <<torn, alive>>
  /\ UNCHANGED <<registry, peers, got>>

\* The next round of the loop over p.broadcast, or its end.
Loop(c) ==
  /\ alive
  /\ call[c].pc = "loop"
  /\ IF call[c].next \in DOMAIN broadcast
       THEN StartWrite(c, broadcast[call[c].next], "write")
       ELSE Return(c, "ok") /\ UNCHANGED <<torn, alive>>
  /\ UNCHANGED <<registry, peers, got, owed>>

\* The peer has gone, or the frame was mixed up with another.
CanFail(c) == call[c].to \notin up \/ <<c, call[c].to>> \in torn

\* The write to the instance's connection fails: Produce returns the error.
ClientFails(c) ==
  /\ alive
  /\ call[c].pc = "client" /\ CanFail(c)
  /\ Return(c, "error")
  /\ UNCHANGED <<registry, peers, got, owed, torn, alive>>

\* (mutant) The write is tried again.
BroadcastRetries(c) ==
  /\ alive
  /\ call[c].pc = "write" /\ CanFail(c)
  /\ Move(c, "loop")
  /\ UNCHANGED <<registry, peers, got, owed, torn, alive>>

\* (mutant) A broadcast connection that fails ends the call, as the instance's own does.
BroadcastAborts(c) ==
  /\ alive
  /\ call[c].pc = "write" /\ CanFail(c)
  /\ Return(c, "error")
  /\ UNCHANGED <<registry, peers, got, owed, torn, alive>>

\* A write to a broadcast connection fails: the loop continues with the next.
BroadcastFails(c) ==
  /\ alive
  /\ call[c].pc = "write" /\ CanFail(c)
  /\ call' = [call EXCEPT ![c].pc = "loop", ![c].next = @ + 1]
  /\ UNCHANGED <<registry, peers, got, owed, torn, alive>>

\* WriteJSON returns nil, which it also does for a peer that has just gone. There is
\* no write deadline: with a peer that does not read it waits.
Written(c) ==
  /\ alive
  /\ call[c].pc \in {"client", "write"}
  /\ call[c].to \notin up \cap stalled
  /\ got' = IF call[c].to \in up /\ <<c, call[c].to>> \notin torn
               THEN got \cup {<<c, call[c].to>>} ELSE got
  /\ call' = [call EXCEPT ![c].pc = "loop",
                ![c].next = IF call[c].pc = "write" THEN @ + 1 ELSE @]
  /\ UNCHANGED <<registry, peers, owed, torn, alive>>

CallStep(c) ==
  Lookup(c) \/ Loop(c) \/ ClientFails(c) \/ BroadcastFails(c) \/ Written(c)

-----------------------------------------------------------------------------
\* The peer or the network closes the connection.
Drop(s) ==
  /\ alive
  /\ s \in up
  /\ up' = up \ {s}
  /\ UNCHANGED <<registry, stalled, calls, alive>>

\* The peer stops reading, and its window and buffers are full.
Stall(s) ==
  /\ alive
  /\ s \in up \ stalled
  /\ stalled' = stalled \cup {s}
  /\ UNCHANGED <<registry, up, calls, alive>>

Init ==
  /\ clients = [i \in Instance |-> NoSock]
  /\ broadcast = <<>>
  /\ sock = [s \in Sock |-> NewSock]
  /\ up = {} /\ stalled = {}
  /\ pending = NoSock
  /\ call = [c \in Call |-> [pc |-> "idle", inst |-> All, to |-> NoSock, next |-> 1]]
  /\ got = {} /\ torn = {}
  /\ owed = [c \in Call |-> {}]
  /\ alive = TRUE

Next ==
  \/ \E s \in Sock, i \in Instance \cup {All} : ServeWs(s, i)
  \/ \E s \in Sock : SockStep(s) \/ Drop(s) \/ Stall(s)
  \/ \E c \in Call, i \in Instance : Begin(c, i)
  \/ \E c \in Call : CallStep(c)

Spec == Init /\ [][Next]_vars

\* Goroutines run, and a mutex that is free for one is handed to it.
Fairness ==
  /\ \A s \in Sock : WF_vars(SockStep(s))
  /\ \A c \in Call : WF_vars(CallStep(c))

FairSpec == Spec /\ Fairness

-----------------------------------------------------------------------------
(***************************************************************************)
(* Properties                                                              *)
(***************************************************************************)
SockRec == [pc : SockPC, inst : Instance \cup {All}]
CallRec == [pc : CallPC, inst : Instance \cup {All}, to : Sock \cup {NoSock}, next : Nat \ {0}]

\* The goroutine in clientsMux.Lock() is one that registers or unregisters, and only
\* calls for an instance use the registry.
TypeOK ==
  /\ clients \in [Instance -> Sock \cup {NoSock}]
  /\ broadcast \in Seq(Sock)
  /\ sock \in [Sock -> SockRec]
  /\ up \subseteq Sock
  /\ stalled \subseteq Sock
  /\ pending \in Sock \cup {NoSock}
  /\ pending # NoSock => sock[pending].pc \in {"add", "remove"}
  /\ call \in [Call -> CallRec]
  /\ \A c \in Call : call[c].pc # "idle" => call[c].inst \in Instance
  /\ got \subseteq Call \X Sock
  /\ owed \in [Call -> SUBSET Sock]
  /\ torn \subseteq Call \X Sock
  /\ alive \in BOOLEAN

\* A registered connection has a reader that will unregister it, and is registered
\* under its own instanceId once: the registry leaks no connection, in whatever
\* order connections of one instance replace each other and close.
NoDeadRegistration ==
  /\ \A i \in Instance :
       clients[i] # NoSock =>
         sock[clients[i]].pc \in {"reading", "remove"} /\ sock[clients[i]].inst = i
  /\ \A j \in DOMAIN broadcast :
       /\ sock[broadcast[j]].pc \in {"reading", "remove"} /\ sock[broadcast[j]].inst = All
       /\ \A k \in DOMAIN broadcast : broadcast[j] = broadcast[k] => j = k

\* A connection that is being read is registered, whatever else comes and goes. Only
\* a connection of an instance that has had another one can have lost its place.
ReadersRegistered ==
  \A s \in Sock :
    sock[s].pc = "reading" =>
      \/ Registered(s)
      \/ sock[s].inst # All /\ \E t \in Sock \ {s} : sock[t].inst = sock[s].inst

\* A call that returned nil has written to every broadcast connection it found when
\* it got the lock: none is skipped or written twice because others come or go, or
\* because a write to another failed.
BroadcastComplete ==
  \A c \in Call :
    call[c].pc = "ok" => \A s \in owed[c] : <<c, s>> \in got \cup torn \/ s \notin up

\* A peer that is there, does not read and keeps a writer waiting.
Stuck == \E s \in up \cap stalled : Writing(s) # {}

\* A connection whose peer has gone is unregistered in the end, unless a peer that
\* does not read keeps a reader of the registry waiting.
ClosedUnregistered ==
  \A s \in Sock :
    (Registered(s) /\ s \notin up) ~> (~Registered(s) \/ Stuck \/ ~alive)

\* Produce returns, unless a peer that does not read keeps some call waiting.
ProduceReturns ==
  \A c \in Call :
    call[c].pc \notin {"idle", "ok", "error"}
      ~> (call[c].pc \in {"ok", "error"} \/ Stuck \/ ~alive)

\* What the write in progress and the rounds of the loop after it will have served.
LeftFrom(n) == {broadcast[j] : j \in {k \in DOMAIN broadcast : k >= n}}

Todo == [c \in Call |->
  CASE call[c].pc = "client" -> {call[c].to} \cup LeftFrom(call[c].next)
    [] call[c].pc = "loop" -> LeftFrom(call[c].next)
    [] call[c].pc = "write" -> {call[c].to} \cup LeftFrom(call[c].next + 1)
    [] OTHER -> {}]

Status == [c \in Call |->
  CASE call[c].pc \in {"rlock", "lookup"} -> "waiting"
    [] call[c].pc \in {"client", "loop", "write"} -> "busy"
    [] OTHER -> call[c].pc]

Abstract == INSTANCE Broadcaster WITH
  own <- clients, listeners <- Listed, inst <- [c \in Call |-> call[c].inst],
  status <- Status, todo <- Todo

\* The producer keeps the promise of the abstract broadcaster: a call serves the
\* registry of one moment, its own connection first and every listener once, and
\* fails only at its own connection, before any listener (websocket_producer.go:113-133).
Broadcasts == Abstract!Spec
=============================================================================
