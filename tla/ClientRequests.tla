--------------------------- MODULE ClientRequests ---------------------------
(***************************************************************************)
(* The requests of a whatsmeow client and the answers to them               *)
(* (whatsmeow-lib/request.go, send.go, client.go, connectionevents.go).     *)
(* Whoever wants an answer puts a channel into a map under the id of its    *)
(* request, writes a frame and waits; the reader of the socket takes the    *)
(* channel out again and sends the answer, and whatever ends the connection *)
(* sends all waiters a disconnect node, upon which they write once more.    *)
(*                                                                         *)
(* The service switches automatic reconnection off (StartClient), so that   *)
(* a client is connected again only by Connect, or after stream error 515.  *)
(***************************************************************************)
EXTENDS Naturals

CONSTANTS
  Call,   \* calls of sendIQ and SendMessage
  Mixes,  \* what each call may be, taken together
  Socks   \* bound: connections in one behaviour

ASSUME SocksAssumption == Socks \in Nat
ASSUME MixesAssumption == Mixes \subseteq [Call -> {"iq", "send", "none"}]

VARIABLES
  socket,   \* cli.socket, 0 for nil
  link,     \* the websocket of each connection
  loggedIn, \* isLoggedIn
  call,     \* each call
  waiter,   \* responseWaiters: the channel under the id of each call
  chan,     \* what was put into the two channels a call may make
  net,      \* requests that WhatsApp may answer
  hand,     \* the answers that readers have in hand
  sent,     \* how often the frame of a call was written (history)
  dead      \* the process has died of a panic

conns == <<socket, link, loggedIn>>
vars == <<conns, call, waiter, chan, net, hand, sent, dead>>

Sock == 1..Socks
NoSock == 0

\* A websocket is lost in two steps: Close has found OnDisconnect ("closing") and starts it
\* as a goroutine ("telling").
Links == {"unused", "open", "closing", "telling", "gone"}
Up(s) == s \in Sock /\ link[s] = "open"

\* Nodes that clearResponseWaiters sends: xmlstreamend or a stream error, and a stream error
\* that isAuthErrorDisconnect knows.
DisconnectNodes == {"end", "auth"}

\* Channels of a call: 1 of its first frame, 2 of retryFrame.
NoWaiter == 0

\* "none" is a call that nobody makes.
Kinds == {"iq", "send", "none"}
NewCall(kind) == [pc |-> "idle", kind |-> kind, sock |-> NoSock]

Moves(c, pc) == call' = [call EXCEPT ![c].pc = pc]
Returns(c) == call' = [call EXCEPT ![c].pc = "done", ![c].sock = NoSock]
At(c, pc) == call[c].pc = pc /\ ~dead

\* messageSendLock.
SendLocked == \E c \in Call : call[c].kind = "send" /\ call[c].pc \notin {"idle", "lock", "done"}

-----------------------------------------------------------------------------
(***************************************************************************)
(* The map of waiters                                                      *)
(***************************************************************************)
WaitResponse(c, k) ==
  /\ waiter' = [waiter EXCEPT ![c] = k]
  /\ chan' = [chan EXCEPT ![c][k] = "empty"]

\* (mutant) The entry stays in the map.
CancelKeepsEntry(c, k) ==
  /\ chan' = [chan EXCEPT ![c][k] = "closed"]
  /\ UNCHANGED waiter

CancelResponse(c, k) ==
  /\ chan' = [chan EXCEPT ![c][k] = "closed"]
  /\ waiter' = [waiter EXCEPT ![c] = NoWaiter]

ClearResponseWaiters(node) ==
  /\ chan' = [c \in Call |-> [k \in {1, 2} |->
       IF waiter[c] # k THEN chan[c][k]
       ELSE IF chan[c][k] = "empty" THEN node ELSE "closed"]]
  /\ waiter' = [c \in Call |-> NoWaiter]

KeepWaiters == UNCHANGED <<waiter, chan>>

-----------------------------------------------------------------------------
(***************************************************************************)
(* The connection                                                          *)
(***************************************************************************)
others == <<call, hand, sent, dead>>

\* Stop ends the reader of connection s: what it has not taken is lost.
Stop(s) == net' = {x \in net : x[2] # s}

\* The reader of the websocket has failed: Close closes it, and finds OnDisconnect,
Drop(s) ==
  /\ Up(s) /\ ~dead
  /\ link' = [link EXCEPT ![s] = "closing"]
  /\ KeepWaiters
  /\ UNCHANGED <<socket, loggedIn, net, others>>

\* which Stop may have set to nil when it starts the goroutine: whether the build reads it
\* again is open, and a nil function ends the process.
StartTelling(s) ==
  /\ link[s] = "closing" /\ ~dead
  /\ \/ link' = [link EXCEPT ![s] = "telling"] /\ UNCHANGED dead
     \/ socket # s /\ dead' = TRUE /\ UNCHANGED link
  /\ KeepWaiters
  /\ UNCHANGED <<socket, loggedIn, call, net, hand, sent>>

\* (mutant) Nobody is told.
OnDisconnectSilent(s) ==
  /\ link[s] = "telling" /\ ~dead
  /\ Stop(s)
  /\ link' = [link EXCEPT ![s] = "gone"]
  /\ socket' = IF socket = s THEN NoSock ELSE socket
  /\ KeepWaiters
  /\ UNCHANGED <<loggedIn, others>>

OnDisconnect(s) ==
  /\ link[s] = "telling" /\ ~dead
  /\ Stop(s)
  /\ link' = [link EXCEPT ![s] = "gone"]
  /\ IF socket = s THEN socket' = NoSock /\ ClearResponseWaiters("end")
     ELSE UNCHANGED socket /\ KeepWaiters
  /\ UNCHANGED <<loggedIn, others>>

\* Stop keeps OnDisconnect from being called.
Disconnect ==
  /\ ~dead /\ socket # NoSock
  /\ Stop(socket)
  /\ link' = [link EXCEPT ![socket] = IF Up(socket) THEN "gone" ELSE @]
  /\ socket' = NoSock
  /\ ClearResponseWaiters("end")
  /\ UNCHANGED <<loggedIn, others>>

\* (mutant) A dead connection is replaced as it is.
ConnectReplaces(s) ==
  /\ ~Up(socket) /\ link[s] = "unused" /\ ~dead
  /\ socket' = s
  /\ link' = [link EXCEPT ![s] = "open"]
  /\ KeepWaiters
  /\ UNCHANGED <<loggedIn, net, others>>

\* A dead connection is disconnected first; the dial or the handshake may fail.
Connect(s) ==
  /\ ~Up(socket) /\ link[s] = "unused" /\ ~dead
  /\ Stop(socket)
  /\ IF socket # NoSock THEN ClearResponseWaiters("end") ELSE KeepWaiters
  /\ \/ socket' = s /\ link' = [link EXCEPT ![s] = "open"]
     \/ socket' = NoSock /\ link' = [link EXCEPT ![s] = "gone"]
  /\ UNCHANGED <<loggedIn, others>>

ServerNodes == {"success", "stream", "auth"}

\* A success node or a stream error. It waits in the handler queue as long as it likes: the
\* connection that it came from may be another one by now.
HandleNode(node) ==
  /\ (\E s \in Sock : link[s] # "unused") /\ ~dead
  /\ loggedIn' = (node = "success")
  /\ IF node = "success" THEN KeepWaiters
     ELSE ClearResponseWaiters(IF node = "auth" THEN node ELSE "end")
  /\ UNCHANGED <<socket, link, net, others>>

-----------------------------------------------------------------------------
(***************************************************************************)
(* The answers: consumeFrames of connection s and receiveResponse           *)
(***************************************************************************)
\* WhatsApp answers a request, and the reader takes the frame, which may have been read from
\* the websocket before it was lost.
TakeAnswer(s, c) ==
  /\ <<c, s>> \in net /\ (\A h \in hand : h.sock # s) /\ ~dead
  /\ net' = net \ {<<c, s>>}
  /\ hand' = hand \cup {[sock |-> s, call |-> c, chan |-> NoWaiter]}
  /\ KeepWaiters
  /\ UNCHANGED <<conns, call, sent, dead>>

\* (mutant) The entry stays in the map.
LookUpKeepsEntry(s) ==
  /\ ~dead
  /\ \E h \in hand :
       /\ h.sock = s /\ h.chan = NoWaiter
       /\ hand' = (hand \ {h}) \cup
                     (IF waiter[h.call] = NoWaiter THEN {} ELSE {[h EXCEPT !.chan = waiter[h.call]]})
  /\ KeepWaiters
  /\ UNCHANGED <<conns, call, net, sent, dead>>

\* Under the lock of the map; the connection may have gone meanwhile.
LookUp(s) ==
  /\ ~dead
  /\ \E h \in hand :
       /\ h.sock = s /\ h.chan = NoWaiter
       /\ \/ /\ waiter[h.call] = NoWaiter
             /\ hand' = hand \ {h}
             /\ UNCHANGED waiter
          \/ /\ waiter[h.call] # NoWaiter
             /\ hand' = (hand \ {h}) \cup {[h EXCEPT !.chan = waiter[h.call]]}
             /\ waiter' = [waiter EXCEPT ![h.call] = NoWaiter]
  /\ UNCHANGED <<conns, call, chan, net, sent, dead>>

\* After the unlock: a send on a channel that has been closed panics, and nothing recovers
\* it in this goroutine.
Deliver(s) ==
  /\ ~dead
  /\ \E h \in hand :
       /\ h.sock = s /\ h.chan # NoWaiter
       /\ \/ /\ chan[h.call][h.chan] = "empty"
             /\ chan' = [chan EXCEPT ![h.call][h.chan] = "answer"]
             /\ hand' = hand \ {h}
             /\ UNCHANGED dead
          \/ /\ chan[h.call][h.chan] = "closed"
             /\ dead' = TRUE
             /\ UNCHANGED <<chan, hand>>
  /\ UNCHANGED <<conns, call, waiter, net, sent>>

-----------------------------------------------------------------------------
(***************************************************************************)
(* The calls                                                               *)
(***************************************************************************)
otherThanCalls == <<conns, hand, dead>>

\* The first frame: the waiter is registered before the socket is read. SendMessage waits
\* for messageSendLock before.
Begin(c) ==
  /\ At(c, "idle")
  /\ \/ call[c].kind = "send" /\ Moves(c, "lock") /\ KeepWaiters
     \/ call[c].kind = "iq" /\ Moves(c, "read") /\ WaitResponse(c, 1)
  /\ UNCHANGED <<net, sent, otherThanCalls>>

Acquire(c) ==
  /\ At(c, "lock") /\ ~SendLocked
  /\ Moves(c, "read")
  /\ WaitResponse(c, 1)
  /\ UNCHANGED <<net, sent, otherThanCalls>>

ReadSocket(c) ==
  /\ At(c, "read")
  /\ IF socket = NoSock
       THEN CancelResponse(c, 1) /\ Returns(c)
       ELSE call' = [call EXCEPT ![c].sock = socket, ![c].pc = "write"] /\ KeepWaiters
  /\ UNCHANGED <<net, sent, otherThanCalls>>

\* SendFrame on the socket that was read; it fails when the websocket is closed, if not
\* before.
WriteFrame(c, k, next) ==
  LET s == call[c].sock IN
    \/ /\ Up(s)
       /\ net' = net \cup {<<c, s>>}
       /\ sent' = [sent EXCEPT ![c] = @ + 1]
       /\ Moves(c, next)
       /\ KeepWaiters
    \/ /\ CancelResponse(c, k)
       /\ Returns(c)
       /\ UNCHANGED <<net, sent>>

Write(c) == At(c, "write") /\ WriteFrame(c, 1, "wait") /\ UNCHANGED otherThanCalls

\* Call c takes from its channel what was put there.
Reads(c, k, nodes) == chan[c][k] \in nodes /\ UNCHANGED <<waiter, chan, net, sent>>

Answered(c) ==
  /\ At(c, "wait")
  /\ Reads(c, 1, {"answer"})
  /\ Returns(c)
  /\ UNCHANGED otherThanCalls

\* retryFrame gives up at once if the session has ended.
Disconnected(c) ==
  /\ At(c, "wait")
  /\ Reads(c, 1, DisconnectNodes)
  /\ IF chan[c][1] = "auth" THEN Returns(c) ELSE Moves(c, "await")
  /\ UNCHANGED otherThanCalls

\* SendMessage cancels its waiter, sendIQ leaves it in the map.
Timeout(c) ==
  /\ At(c, "wait")
  /\ IF call[c].kind = "send" THEN CancelResponse(c, 1) ELSE KeepWaiters
  /\ Returns(c)
  /\ UNCHANGED <<net, sent, otherThanCalls>>

\* WaitForConnection: five seconds, or until a disconnect is expected; the second frame goes
\* to the socket that is read then.
Await(c) ==
  /\ At(c, "await")
  /\ \/ /\ Up(socket) /\ loggedIn
        /\ call' = [call EXCEPT ![c].sock = socket, ![c].pc = "reregister"]
     \/ Returns(c)
  /\ KeepWaiters
  /\ UNCHANGED <<net, sent, otherThanCalls>>

RegisterAgain(c) ==
  /\ At(c, "reregister")
  /\ WaitResponse(c, 2)
  /\ Moves(c, "rewrite")
  /\ UNCHANGED <<net, sent, otherThanCalls>>

WriteAgain(c) == At(c, "rewrite") /\ WriteFrame(c, 2, "rewait") /\ UNCHANGED otherThanCalls

\* (mutant) A retry may be interrupted and tried again.
RetryAnsweredLoops(c) ==
  /\ At(c, "rewait")
  /\ Reads(c, 2, {"answer"} \cup DisconnectNodes)
  /\ IF chan[c][2] = "answer" THEN Returns(c) ELSE Moves(c, "await")
  /\ UNCHANGED otherThanCalls

RetryAnswered(c) ==
  /\ At(c, "rewait")
  /\ Reads(c, 2, {"answer"} \cup DisconnectNodes)
  /\ Returns(c)
  /\ UNCHANGED otherThanCalls

\* SendMessage passes a timeout of 0: its retry waits without one.
RetryTimeout(c) ==
  /\ At(c, "rewait") /\ call[c].kind = "iq"
  /\ Returns(c)
  /\ KeepWaiters
  /\ UNCHANGED <<net, sent, otherThanCalls>>

CallStep(c) ==
  \/ Acquire(c) \/ ReadSocket(c) \/ Write(c) \/ Answered(c) \/ Disconnected(c) \/ Timeout(c)
  \/ Await(c) \/ RegisterAgain(c) \/ WriteAgain(c) \/ RetryAnswered(c) \/ RetryTimeout(c)

-----------------------------------------------------------------------------
Init ==
  /\ socket = NoSock
  /\ link = [s \in Sock |-> "unused"]
  /\ loggedIn = FALSE
  /\ \E kinds \in Mixes : call = [c \in Call |-> NewCall(kinds[c])]
  /\ waiter = [c \in Call |-> NoWaiter]
  /\ chan = [c \in Call |-> [k \in {1, 2} |-> "none"]]
  /\ net = {}
  /\ hand = {}
  /\ sent = [c \in Call |-> 0]
  /\ dead = FALSE

ReaderStep(s) == LookUp(s) \/ Deliver(s)
TellStep(s) == StartTelling(s) \/ OnDisconnect(s)

Next ==
  \/ Disconnect
  \/ \E node \in ServerNodes : HandleNode(node)
  \/ \E s \in Sock :
       \/ Drop(s) \/ TellStep(s) \/ Connect(s) \/ ReaderStep(s)
       \/ \E c \in Call : TakeAnswer(s, c)
  \/ \E c \in Call : Begin(c) \/ CallStep(c)

Spec == Init /\ [][Next]_vars

\* Goroutines run, and timers fire; nobody has to answer, to connect or to call.
Fairness ==
  /\ \A s \in Sock : WF_vars(TellStep(s)) /\ WF_vars(ReaderStep(s))
  /\ \A c \in Call : WF_vars(CallStep(c))

FairSpec == Spec /\ Fairness

-----------------------------------------------------------------------------
(***************************************************************************)
(* Properties                                                              *)
(***************************************************************************)
PCs == {"idle", "lock", "read", "write", "wait", "await", "reregister", "rewrite", "rewait", "done"}

TypeOK ==
  /\ socket \in Sock \cup {NoSock}
  /\ link \in [Sock -> Links]
  /\ loggedIn \in BOOLEAN /\ dead \in BOOLEAN
  /\ call \in [Call -> [pc : PCs, kind : Kinds, sock : Sock \cup {NoSock}]]
  /\ waiter \in [Call -> {NoWaiter, 1, 2}]
  /\ chan \in [Call -> [{1, 2} -> {"none", "empty", "answer", "closed"} \cup DisconnectNodes]]
  /\ net \subseteq Call \X Sock
  /\ hand \subseteq [sock : Sock, call : Call, chan : {NoWaiter, 1, 2}]
  /\ sent \in [Call -> 0..2]

\* The channel that a call waits on.
WaitsOn(c) == IF call[c].pc = "rewait" THEN 2 ELSE 1

\* Nobody who waits is forgotten: its channel is in the map while the connection that its
\* frame was written on is the client's, or else a reader has it in hand, or something has
\* been put into it. And what the map holds, some call is about to wait for, or an info
\* query has timed out on (clearResponseWaiters, receiveResponse, sendIQ).
NooneForgotten ==
  /\ \A c \in Call : call[c].pc \in {"wait", "rewait"} =>
       \/ waiter[c] = WaitsOn(c) /\ call[c].sock = socket
       \/ \E h \in hand : h.call = c /\ h.chan = WaitsOn(c)
       \/ chan[c][WaitsOn(c)] \in {"answer"} \cup DisconnectNodes
  /\ \A c \in Call : waiter[c] # NoWaiter =>
       \/ call[c].pc \in {"read", "write", "wait"} /\ waiter[c] = 1
       \/ call[c].pc \in {"rewrite", "rewait"} /\ waiter[c] = 2
       \/ call[c].pc = "done" /\ call[c].kind = "iq"

\* Every channel in the map is open and empty, and so is one that a reader has taken out of
\* it, unless its call has cancelled it since and returned: neither clearResponseWaiters nor
\* a reader finds one full, and no call reads from a closed one. Only such an answer, or a
\* Disconnect while its connection is lost, can end the process (cancelResponse,
\* receiveResponse, FrameSocket.Close).
ChannelsOpen ==
  /\ \A c \in Call : waiter[c] # NoWaiter => chan[c][waiter[c]] = "empty"
  /\ \A h \in hand : h.chan # NoWaiter =>
       \/ chan[h.call][h.chan] = "empty"
       \/ chan[h.call][h.chan] = "closed" /\ call[h.call].pc = "done"
  /\ \A c \in Call : call[c].pc \in {"wait", "rewait"} => chan[c][WaitsOn(c)] # "closed"
  /\ dead =>
       \/ \E s \in Sock : link[s] = "closing" /\ socket # s
       \/ \E h \in hand : h.chan # NoWaiter /\ chan[h.call][h.chan] = "closed"

\* A request is written a second time only after the first was answered by a disconnect,
\* never after one that ends the session, and never a third time (retryFrame). KeepsPromise
\* says so of every step.
WrittenAgain ==
  \A c \in Call :
    /\ sent[c] <= 2
    /\ sent[c] = 2 => chan[c][1] = "end" /\ chan[c][2] # "none"

\* A call seen from outside.
Phase(c) ==
  CASE call[c].pc \in {"idle", "lock"}      -> "idle"
    [] call[c].pc \in {"rewrite", "rewait"} -> "second"
    [] call[c].pc = "done"                  -> "over"
    [] OTHER                                -> "first"
News(c) ==
  CASE Phase(c) = "first"  -> chan[c][1]
    [] Phase(c) = "second" -> chan[c][2]
    [] OTHER               -> "none"

Promise == INSTANCE Requests WITH
  phase <- [c \in Call |-> Phase(c)], frames <- sent, news <- [c \in Call |-> News(c)],
  alive <- ~dead

\* Sockets, map and readers together keep the promise of Requests: however late an answer
\* is, whichever connection it comes from and whatever the disconnects and the readers do to
\* the map meanwhile, a call hears one thing about each of its frames, an answer to none
\* that was not written, and writes again only when told that the connection has ended.
KeepsPromise == Promise!Spec

\* A SendMessage whose retry was written and that nobody answers holds messageSendLock as
\* long as its connection stays up.
Unanswered == \E c \in Call : call[c].kind = "send" /\ call[c].pc = "rewait" /\ Up(call[c].sock)

\* But for that, every call returns, whatever becomes of its connections (sendIQ,
\* SendMessage, onDisconnect).
CallsReturn == \A c \in Call : call[c].pc # "idle" ~> (call[c].pc = "done" \/ dead \/ Unanswered)
=============================================================================
