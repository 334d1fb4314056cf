------------------------ MODULE ClientRequestsProofs ------------------------
(***************************************************************************)
(* Proofs about ClientRequests, for every set of calls, every mix of their  *)
(* kinds and every number of connections: the invariant of the waiters and  *)
(* their channels, and on top of it the refinement of Requests.             *)
(***************************************************************************)
EXTENDS ClientRequests, TLAPS

-----------------------------------------------------------------------------
(***************************************************************************)
(* The inductive invariant                                                 *)
(***************************************************************************)
Rec == [pc : PCs, kind : Kinds, sock : Sock \cup {NoSock}]
Contents == {"none", "empty", "answer", "closed"} \cup DisconnectNodes

\* Somebody will put, or has put, something into channel k of call c.
Served(c, k) ==
  \/ waiter[c] = k
  \/ \E h \in hand : h.call = c /\ h.chan = k
  \/ chan[c][k] \in {"answer"} \cup DisconnectNodes

\* What is in the map is empty, and someone waits for it or has given up.
InMap(c) ==
  /\ waiter[c] # NoWaiter => chan[c][waiter[c]] = "empty"
  /\ waiter[c] = 1 => call[c].pc \in {"read", "write", "wait"} \/ (call[c].pc = "done" /\ call[c].kind = "iq")
  /\ waiter[c] = 2 => call[c].pc \in {"rewrite", "rewait"} \/ (call[c].pc = "done" /\ call[c].kind = "iq")
  /\ call[c].pc \in {"wait", "rewait"} /\ waiter[c] # NoWaiter => call[c].sock = socket

\* The channels of a call, as far as it has come.
OnItsWay(c) ==
  /\ call[c].kind = "none" => call[c].pc = "idle"
  /\ call[c].pc \in {"idle", "lock"} => chan[c][1] = "none"
  /\ call[c].pc \in {"idle", "lock", "read", "write", "wait", "await", "reregister"} => chan[c][2] = "none"
  /\ call[c].pc \in {"read", "write", "wait"} => Served(c, 1)
  /\ call[c].pc \in {"rewrite", "rewait"} => Served(c, 2)
  /\ call[c].pc \in {"write", "wait", "reregister", "rewrite", "rewait"} => call[c].sock \in Sock

\* How often it has been written.
Counted(c) ==
  /\ call[c].pc \in {"idle", "lock", "read", "write"} => sent[c] = 0
  /\ call[c].pc \in {"wait", "await", "reregister", "rewrite"} => sent[c] = 1
  /\ call[c].pc \in {"await", "reregister", "rewrite", "rewait"} => chan[c][1] = "end"
  /\ call[c].pc \in {"rewrite", "rewait"} => chan[c][2] # "none"
  /\ sent[c] = 2 => chan[c][1] = "end" /\ chan[c][2] # "none"

CallInv(c) == InMap(c) /\ OnItsWay(c) /\ Counted(c)

\* A channel that a reader has taken out of the map is in no other hand and not in the map.
HandOpen(h) ==
  h.chan # NoWaiter =>
    /\ waiter[h.call] # h.chan
    /\ \/ chan[h.call][h.chan] = "empty"
       \/ chan[h.call][h.chan] = "closed" /\ call[h.call].pc = "done"
HandAlone ==
  \A g, h \in hand : g.chan # NoWaiter /\ g.call = h.call /\ g.chan = h.chan => g = h

\* No connection but the client's is open.
OneUp == \A s \in Sock : link[s] = "open" => socket = s

Death ==
  dead =>
    \/ \E s \in Sock : link[s] = "closing" /\ socket # s
    \/ \E h \in hand : h.chan # NoWaiter /\ chan[h.call][h.chan] = "closed"

IInv ==
  /\ TypeOK
  /\ \A c \in Call : CallInv(c)
  /\ \A h \in hand : HandOpen(h)
  /\ HandAlone
  /\ OneUp
  /\ Death

-----------------------------------------------------------------------------
(***************************************************************************)
(* Updates of the functions                                                *)
(***************************************************************************)
LEMMA MovesType ==
  ASSUME call \in [Call -> Rec], NEW c \in Call, NEW pc \in PCs, Moves(c, pc)
  PROVE  /\ call' \in [Call -> Rec]
         /\ call'[c].pc = pc /\ call'[c].kind = call[c].kind /\ call'[c].sock = call[c].sock
         /\ \A d \in Call \ {c} : call'[d] = call[d]
BY DEF Moves, Rec

LEMMA GoesType ==
  ASSUME call \in [Call -> Rec], NEW c \in Call, NEW pc \in PCs, NEW s \in Sock \cup {NoSock},
         call' = [call EXCEPT ![c].sock = s, ![c].pc = pc]
  PROVE  /\ call' \in [Call -> Rec]
         /\ call'[c].pc = pc /\ call'[c].kind = call[c].kind /\ call'[c].sock = s
         /\ \A d \in Call \ {c} : call'[d] = call[d]
BY DEF Rec

LEMMA ReturnsType ==
  ASSUME call \in [Call -> Rec], NEW c \in Call, Returns(c)
  PROVE  /\ call' \in [Call -> Rec]
         /\ call'[c].pc = "done" /\ call'[c].kind = call[c].kind /\ call'[c].sock = NoSock
         /\ \A d \in Call \ {c} : call'[d] = call[d]
BY DEF Returns, Rec, PCs

\* One channel of one call is written.
LEMMA ChanType ==
  ASSUME chan \in [Call -> [{1, 2} -> Contents]], NEW c \in Call, NEW k \in {1, 2},
         NEW x \in Contents, chan' = [chan EXCEPT ![c][k] = x]
  PROVE  /\ chan' \in [Call -> [{1, 2} -> Contents]]
         /\ chan'[c][k] = x
         /\ \A j \in {1, 2} \ {k} : chan'[c][j] = chan[c][j]
         /\ \A d \in Call \ {c} : chan'[d] = chan[d]
OBVIOUS

LEMMA WaiterType ==
  ASSUME waiter \in [Call -> {NoWaiter, 1, 2}], NEW c \in Call, NEW k \in {NoWaiter, 1, 2},
         waiter' = [waiter EXCEPT ![c] = k]
  PROVE  /\ waiter' \in [Call -> {NoWaiter, 1, 2}]
         /\ waiter'[c] = k
         /\ \A d \in Call \ {c} : waiter'[d] = waiter[d]
OBVIOUS

LEMMA WaitResponseType ==
  ASSUME chan \in [Call -> [{1, 2} -> Contents]], waiter \in [Call -> {NoWaiter, 1, 2}],
         NEW c \in Call, NEW k \in {1, 2}, WaitResponse(c, k)
  PROVE  /\ chan' \in [Call -> [{1, 2} -> Contents]] /\ waiter' \in [Call -> {NoWaiter, 1, 2}]
         /\ chan'[c][k] = "empty" /\ waiter'[c] = k
         /\ \A j \in {1, 2} \ {k} : chan'[c][j] = chan[c][j]
         /\ \A d \in Call \ {c} : chan'[d] = chan[d] /\ waiter'[d] = waiter[d]
<1>1. waiter' = [waiter EXCEPT ![c] = k] /\ chan' = [chan EXCEPT ![c][k] = "empty"]
  BY DEF WaitResponse
<1>2. "empty" \in Contents
  BY DEF Contents
<1> QED
  BY <1>1, <1>2, ChanType, WaiterType

LEMMA CancelResponseType ==
  ASSUME chan \in [Call -> [{1, 2} -> Contents]], waiter \in [Call -> {NoWaiter, 1, 2}],
         NEW c \in Call, NEW k \in {1, 2}, CancelResponse(c, k)
  PROVE  /\ chan' \in [Call -> [{1, 2} -> Contents]] /\ waiter' \in [Call -> {NoWaiter, 1, 2}]
         /\ chan'[c][k] = "closed" /\ waiter'[c] = NoWaiter
         /\ \A j \in {1, 2} \ {k} : chan'[c][j] = chan[c][j]
         /\ \A d \in Call \ {c} : chan'[d] = chan[d] /\ waiter'[d] = waiter[d]
<1>1. waiter' = [waiter EXCEPT ![c] = NoWaiter] /\ chan' = [chan EXCEPT ![c][k] = "closed"]
  BY DEF CancelResponse
<1>2. "closed" \in Contents
  BY DEF Contents
<1> QED
  BY <1>1, <1>2, ChanType, WaiterType

\* A map whose entries are all empty is emptied into its channels.
LEMMA ClearType ==
  ASSUME chan \in [Call -> [{1, 2} -> Contents]], waiter \in [Call -> {NoWaiter, 1, 2}],
         NEW node \in DisconnectNodes, ClearResponseWaiters(node),
         \A c \in Call : waiter[c] # NoWaiter => chan[c][waiter[c]] = "empty"
  PROVE  /\ chan' \in [Call -> [{1, 2} -> Contents]]
         /\ waiter' \in [Call -> {NoWaiter, 1, 2}]
         /\ \A c \in Call : waiter'[c] = NoWaiter
         /\ \A c \in Call, k \in {1, 2} : chan'[c][k] = IF waiter[c] = k THEN node ELSE chan[c][k]
<1>1. /\ waiter' = [c \in Call |-> NoWaiter]
      /\ chan' = [c \in Call |-> [k \in {1, 2} |->
                    IF waiter[c] # k THEN chan[c][k]
                    ELSE IF chan[c][k] = "empty" THEN node ELSE "closed"]]
  BY DEF ClearResponseWaiters
<1>2. \A c \in Call, k \in {1, 2} : chan'[c][k] = IF waiter[c] = k THEN node ELSE chan[c][k]
  BY <1>1 DEF NoWaiter
<1>3. node \in Contents
  BY DEF Contents
<1> QED
  BY <1>1, <1>2, <1>3

-----------------------------------------------------------------------------
(***************************************************************************)
(* What kinds of steps keep of the invariant                               *)
(***************************************************************************)
LEMMA InitIInv == Init => IInv
<1> SUFFICES ASSUME Init PROVE IInv
  OBVIOUS
<1>0. PICK kinds \in Mixes : call = [c \in Call |-> NewCall(kinds[c])]
  BY DEF Init
<1>1. \A c \in Call : kinds[c] \in Kinds
  BY MixesAssumption DEF Kinds
<1>2. \A c \in Call : call[c] \in Rec /\ call[c].pc = "idle"
  BY <1>0, <1>1 DEF NewCall, Rec, PCs
<1>3. call \in [Call -> Rec]
  BY <1>0, <1>2
<1>4. /\ socket = NoSock /\ link = [s \in Sock |-> "unused"] /\ loggedIn = FALSE
      /\ waiter = [c \in Call |-> NoWaiter]
      /\ chan = [c \in Call |-> [k \in {1, 2} |-> "none"]]
      /\ net = {} /\ hand = {} /\ sent = [c \in Call |-> 0] /\ dead = FALSE
  BY DEF Init
<1>5. TypeOK
  <2>1. call \in [Call -> [pc : PCs, kind : Kinds, sock : Sock \cup {NoSock}]]
    BY <1>3 DEF Rec
  <2>2. sent \in [Call -> 0..2]
    BY <1>4
  <2> QED
    BY <1>4, <2>1, <2>2 DEF TypeOK, Links
<1>6. \A c \in Call : CallInv(c)
  <2> SUFFICES ASSUME NEW c \in Call PROVE CallInv(c)
    OBVIOUS
  <2>1. waiter[c] = 0 /\ chan[c][1] = "none" /\ chan[c][2] = "none" /\ sent[c] = 0 /\ call[c].pc = "idle"
    BY <1>2, <1>4 DEF NoWaiter
  <2> QED
    BY <2>1 DEF CallInv, InMap, OnItsWay, Counted, NoWaiter
<1> QED
  BY <1>4, <1>5, <1>6 DEF IInv, HandAlone, OneUp, Death

\* A call depends on what it finds under its own name, on the hands and on the socket.
LEMMA SameCall ==
  ASSUME NEW d \in Call, CallInv(d),
         call'[d] = call[d], waiter'[d] = waiter[d], chan'[d] = chan[d], sent'[d] = sent[d],
         hand' = hand, socket' = socket
  PROVE  CallInv(d)'
<1>1. Served(d, 1)' = Served(d, 1) /\ Served(d, 2)' = Served(d, 2)
  BY DEF Served
<1> QED
  BY <1>1 DEF CallInv, InMap, OnItsWay, Counted

\* A step of call c that touches nothing of the others.
LEMMA OwnStep ==
  ASSUME IInv, TypeOK', NEW c \in Call, call[c].pc # "done",
         UNCHANGED <<socket, link, hand, dead>>, dead = FALSE,
         \A d \in Call \ {c} : /\ call'[d] = call[d] /\ waiter'[d] = waiter[d]
                               /\ chan'[d] = chan[d] /\ sent'[d] = sent[d],
         CallInv(c)',
         \A h \in hand : h.call = c => HandOpen(h)'
  PROVE  IInv'
<1>1. \A d \in Call : CallInv(d)'
  <2> SUFFICES ASSUME NEW d \in Call \ {c} PROVE CallInv(d)'
    OBVIOUS
  <2>1. CallInv(d)
    BY DEF IInv
  <2> QED
    BY <2>1, SameCall
<1>2. \A h \in hand' : HandOpen(h)'
  <2> SUFFICES ASSUME NEW h \in hand, h.call # c PROVE HandOpen(h)'
    OBVIOUS
  <2>1. HandOpen(h) /\ h.call \in Call
    BY DEF IInv, TypeOK
  <2> QED
    BY <2>1 DEF HandOpen
<1>3. HandAlone' /\ OneUp' /\ Death'
  BY DEF IInv, HandAlone, OneUp, Death
<1> QED
  BY <1>1, <1>2, <1>3 DEF IInv

\* A step of the connection that leaves the waiters alone.
LEMMA QuietStep ==
  ASSUME IInv, TypeOK', UNCHANGED <<call, waiter, chan, hand, sent>>,
         \A c \in Call : call[c].pc \in {"wait", "rewait"} /\ waiter[c] # NoWaiter
                            => call[c].sock = socket',
         OneUp', Death'
  PROVE  IInv'
<1>1. \A c \in Call : CallInv(c)'
  <2> SUFFICES ASSUME NEW c \in Call PROVE CallInv(c)'
    OBVIOUS
  <2>1. CallInv(c)
    BY DEF IInv
  <2>2. Served(c, 1)' = Served(c, 1) /\ Served(c, 2)' = Served(c, 2)
    BY DEF Served
  <2> QED
    BY <2>1, <2>2 DEF CallInv, InMap, OnItsWay, Counted
<1>2. (\A h \in hand' : HandOpen(h)') /\ HandAlone'
  BY DEF IInv, HandOpen, HandAlone
<1> QED
  BY <1>1, <1>2 DEF IInv

\* A step of the connection that sends all waiters a node.
LEMMA ClearingStep ==
  ASSUME IInv, TypeOK', UNCHANGED <<call, hand, sent>>,
         NEW node \in DisconnectNodes, ClearResponseWaiters(node),
         OneUp', dead' = FALSE
  PROVE  IInv'
<1>0. /\ \A c \in Call : waiter'[c] = NoWaiter
      /\ \A c \in Call, k \in {1, 2} : chan'[c][k] = IF waiter[c] = k THEN node ELSE chan[c][k]
      /\ \A c \in Call : waiter[c] \in {NoWaiter, 1, 2}
  <2>1. chan \in [Call -> [{1, 2} -> Contents]] /\ waiter \in [Call -> {NoWaiter, 1, 2}]
    BY DEF IInv, TypeOK, Contents
  <2>2. \A c \in Call : waiter[c] # NoWaiter => chan[c][waiter[c]] = "empty"
    BY DEF IInv, CallInv, InMap
  <2> QED
    BY <2>1, <2>2, ClearType
<1>1. \A c \in Call : CallInv(c)'
  <2> SUFFICES ASSUME NEW c \in Call PROVE CallInv(c)'
    OBVIOUS
  <2>0. CallInv(c)
    BY DEF IInv
  <2>1. InMap(c)'
    BY <1>0 DEF InMap, NoWaiter
  <2>2. \A k \in {1, 2} : Served(c, k) => Served(c, k)'
    BY <1>0 DEF Served, NoWaiter
  <2>3. \A k \in {1, 2} : chan[c][k] # "empty" => chan'[c][k] = chan[c][k]
    BY <1>0, <2>0 DEF CallInv, InMap, NoWaiter
  <2>4. node # "none"
    BY DEF DisconnectNodes
  <2>5. \A k \in {1, 2} : chan[c][k] # "none" => chan'[c][k] # "none"
    BY <1>0, <2>4
  <2>6. OnItsWay(c)'
    BY <2>0, <2>2, <2>3 DEF CallInv, OnItsWay
  <2>7. Counted(c)'
    BY <2>0, <2>3, <2>5 DEF CallInv, Counted
  <2> QED
    BY <2>1, <2>6, <2>7 DEF CallInv
<1>2. \A h \in hand' : HandOpen(h)'
  <2> SUFFICES ASSUME NEW h \in hand, h.chan # NoWaiter PROVE HandOpen(h)'
    BY DEF HandOpen
  <2>1. HandOpen(h) /\ h.call \in Call /\ h.chan \in {1, 2}
    BY DEF IInv, TypeOK
  <2>2. chan'[h.call][h.chan] = chan[h.call][h.chan]
    BY <1>0, <2>1 DEF HandOpen
  <2> QED
    BY <1>0, <2>1, <2>2 DEF HandOpen
<1>3. HandAlone' /\ Death'
  BY DEF IInv, HandAlone, Death
<1> QED
  BY <1>1, <1>2, <1>3 DEF IInv

-----------------------------------------------------------------------------
(***************************************************************************)
(* The steps of a call                                                     *)
(***************************************************************************)
LEMMA Types ==
  ASSUME IInv
  PROVE  /\ call \in [Call -> Rec]
         /\ waiter \in [Call -> {NoWaiter, 1, 2}]
         /\ chan \in [Call -> [{1, 2} -> Contents]]
         /\ sent \in [Call -> 0..2]
         /\ net \subseteq Call \X Sock
         /\ hand \subseteq [sock : Sock, call : Call, chan : {NoWaiter, 1, 2}]
         /\ socket \in Sock \cup {NoSock} /\ link \in [Sock -> Links]
         /\ loggedIn \in BOOLEAN /\ dead \in BOOLEAN
BY DEF IInv, TypeOK, Rec, Contents

LEMMA TypesBack ==
  ASSUME call' \in [Call -> Rec], waiter' \in [Call -> {NoWaiter, 1, 2}],
         chan' \in [Call -> [{1, 2} -> Contents]], sent' \in [Call -> 0..2],
         net' \subseteq Call \X Sock,
         hand' \subseteq [sock : Sock, call : Call, chan : {NoWaiter, 1, 2}],
         socket' \in Sock \cup {NoSock}, link' \in [Sock -> Links],
         loggedIn' \in BOOLEAN, dead' \in BOOLEAN
  PROVE  TypeOK'
BY DEF TypeOK, Rec, Contents

\* The call moves on and nothing else changes.
LEMMA MoveStep ==
  ASSUME IInv, NEW c \in Call, ~dead, call[c].pc # "done",
         call' \in [Call -> Rec], \A d \in Call \ {c} : call'[d] = call[d],
         UNCHANGED <<waiter, chan, net, sent, otherThanCalls>>,
         CallInv(c)'
  PROVE  IInv'
<1>1. UNCHANGED <<socket, link, loggedIn, hand, dead>>
  BY DEF otherThanCalls, conns
<1>2. TypeOK'
  BY <1>1, Types, TypesBack
<1>3. \A h \in hand : h.call = c => HandOpen(h)'
  BY DEF IInv, HandOpen
<1>4. dead = FALSE
  BY Types
<1> QED
  BY <1>1, <1>2, <1>3, <1>4, OwnStep

\* The call registers channel k.
LEMMA WaitStep ==
  ASSUME IInv, NEW c \in Call, ~dead, NEW k \in {1, 2}, NEW pc \in {"read", "rewrite"},
         call[c].kind # "none",
         \/ k = 1 /\ pc = "read" /\ call[c].pc \in {"idle", "lock"}
         \/ k = 2 /\ pc = "rewrite" /\ call[c].pc = "reregister",
         WaitResponse(c, k), Moves(c, pc),
         UNCHANGED <<net, sent, otherThanCalls>>
  PROVE  IInv'
<1>1. UNCHANGED <<socket, link, loggedIn, hand, dead>>
  BY DEF otherThanCalls, conns
<1>2. /\ call' \in [Call -> Rec]
      /\ call'[c].pc = pc /\ call'[c].kind = call[c].kind /\ call'[c].sock = call[c].sock
      /\ \A d \in Call \ {c} : call'[d] = call[d]
  BY Types, MovesType DEF PCs
<1>3. /\ chan' \in [Call -> [{1, 2} -> Contents]] /\ waiter' \in [Call -> {NoWaiter, 1, 2}]
      /\ chan'[c][k] = "empty" /\ waiter'[c] = k
      /\ \A j \in {1, 2} \ {k} : chan'[c][j] = chan[c][j]
      /\ \A d \in Call \ {c} : chan'[d] = chan[d] /\ waiter'[d] = waiter[d]
  BY Types, WaitResponseType
<1>4. TypeOK'
  BY <1>1, <1>2, <1>3, Types, TypesBack
<1>5. CallInv(c)
  BY DEF IInv
<1>6. CallInv(c)'
  <2>1. InMap(c)'
    BY <1>2, <1>3 DEF InMap
  <2>2. Served(c, k)'
    BY <1>3 DEF Served
  <2>3. OnItsWay(c)'
    BY <1>2, <1>3, <1>5, <2>2 DEF CallInv, OnItsWay
  <2>4. Counted(c)'
    BY <1>2, <1>3, <1>5 DEF CallInv, Counted
  <2> QED
    BY <2>1, <2>3, <2>4 DEF CallInv
<1>7. \A h \in hand : h.call = c => HandOpen(h)'
  <2> SUFFICES ASSUME NEW h \in hand, h.call = c, h.chan # NoWaiter PROVE HandOpen(h)'
    BY DEF HandOpen
  <2>1. HandOpen(h) /\ h.chan \in {1, 2}
    BY Types DEF IInv
  <2>2. chan[c][h.chan] = "empty"
    BY <2>1 DEF HandOpen
  <2>3. chan[c][k] = "none"
    BY <1>5 DEF CallInv, OnItsWay
  <2> QED
    BY <1>3, <2>1, <2>2, <2>3 DEF HandOpen
<1>8. dead = FALSE
  BY Types
<1> QED
  BY <1>1, <1>2, <1>3, <1>4, <1>6, <1>7, <1>8, OwnStep

\* The call cancels channel k and returns.
LEMMA CancelStep ==
  ASSUME IInv, NEW c \in Call, ~dead, NEW k \in {1, 2},
         call[c].pc \in {"read", "write", "wait", "rewrite"},
         CancelResponse(c, k), Returns(c),
         UNCHANGED <<net, sent, otherThanCalls>>
  PROVE  IInv'
<1>1. UNCHANGED <<socket, link, loggedIn, hand, dead>>
  BY DEF otherThanCalls, conns
<1>2. /\ call' \in [Call -> Rec] /\ call'[c].pc = "done" /\ call'[c].kind = call[c].kind
      /\ \A d \in Call \ {c} : call'[d] = call[d]
  BY Types, ReturnsType
<1>3. /\ chan' \in [Call -> [{1, 2} -> Contents]] /\ waiter' \in [Call -> {NoWaiter, 1, 2}]
      /\ chan'[c][k] = "closed" /\ waiter'[c] = NoWaiter
      /\ \A j \in {1, 2} \ {k} : chan'[c][j] = chan[c][j]
      /\ \A d \in Call \ {c} : chan'[d] = chan[d] /\ waiter'[d] = waiter[d]
  BY Types, CancelResponseType
<1>4. TypeOK'
  BY <1>1, <1>2, <1>3, Types, TypesBack
<1>5. CallInv(c)
  BY DEF IInv
<1>6. CallInv(c)'
  <2>1. InMap(c)'
    BY <1>2, <1>3 DEF InMap, NoWaiter
  <2>2. sent'[c] \in {0, 1}
    BY <1>5 DEF CallInv, Counted
  <2>3. call'[c].kind # "none"
    BY <1>2, <1>5 DEF CallInv, OnItsWay
  <2>4. OnItsWay(c)'
    BY <1>2, <2>3 DEF OnItsWay
  <2>5. Counted(c)'
    BY <1>2, <2>2 DEF Counted
  <2> QED
    BY <2>1, <2>4, <2>5 DEF CallInv
<1>7. \A h \in hand : h.call = c => HandOpen(h)'
  <2> SUFFICES ASSUME NEW h \in hand, h.call = c, h.chan # NoWaiter PROVE HandOpen(h)'
    BY DEF HandOpen
  <2>1. HandOpen(h) /\ h.chan \in {1, 2}
    BY Types DEF IInv
  <2>2. chan[c][h.chan] = "empty"
    BY <2>1 DEF HandOpen
  <2>3. chan'[c][h.chan] \in {"empty", "closed"}
    BY <1>3, <2>1, <2>2
  <2> QED
    BY <1>2, <1>3, <2>3 DEF HandOpen
<1>8. dead = FALSE
  BY Types
<1> QED
  BY <1>1, <1>2, <1>3, <1>4, <1>6, <1>7, <1>8, OwnStep

\* The call goes on to pc, or returns, having found its channels as they are.
LEMMA GoOn ==
  ASSUME IInv, NEW c \in Call, ~dead, NEW pc \in PCs,
         call' \in [Call -> Rec], call'[c].pc = pc, call'[c].kind = call[c].kind,
         \A d \in Call \ {c} : call'[d] = call[d],
         UNCHANGED <<waiter, chan, net, sent, otherThanCalls>>,
         \/ call[c].pc = "idle" /\ pc = "lock" /\ call[c].kind = "send"
         \/ call[c].pc = "read" /\ pc = "write" /\ call'[c].sock \in Sock
         \/ call[c].pc = "wait" /\ pc = "await" /\ chan[c][1] = "end"
         \/ call[c].pc = "await" /\ pc = "reregister" /\ call'[c].sock \in Sock
         \/ /\ pc = "done" /\ call[c].pc \in {"wait", "await", "rewait"}
            /\ waiter[c] = NoWaiter \/ call[c].kind = "iq"
  PROVE  IInv'
<1>1. CallInv(c)
  BY DEF IInv
<1>2. call[c].pc # "done"
  OBVIOUS
<1>3. waiter' = waiter /\ chan' = chan /\ sent' = sent /\ socket' = socket /\ hand' = hand
  BY DEF otherThanCalls, conns
<1>4. Served(c, 1)' = Served(c, 1) /\ Served(c, 2)' = Served(c, 2)
  BY <1>3 DEF Served
<1>5. waiter[c] \in {0, 1, 2}
  BY Types DEF NoWaiter
<1>6. InMap(c)'
  <2>1. CASE pc = "done"
    BY <1>1, <1>3, <1>5, <2>1 DEF CallInv, InMap, NoWaiter
  <2>2. CASE pc = "await"
    BY <1>1, <1>3, <1>5, <2>2 DEF CallInv, InMap, NoWaiter
  <2>3. CASE pc \notin {"done", "await"}
    BY <1>1, <1>3, <1>5, <2>3 DEF CallInv, InMap, NoWaiter
  <2> QED
    BY <2>1, <2>2, <2>3
<1>7. OnItsWay(c)'
  BY <1>1, <1>3, <1>4 DEF CallInv, OnItsWay
<1>8. Counted(c)'
  BY <1>1, <1>3 DEF CallInv, Counted
<1>9. CallInv(c)'
  BY <1>6, <1>7, <1>8 DEF CallInv
<1> QED
  BY <1>2, <1>9, MoveStep

\* The frame is written on a socket that is up.
LEMMA WriteStep ==
  ASSUME IInv, NEW c \in Call, ~dead, NEW pc \in {"wait", "rewait"},
         \/ call[c].pc = "write" /\ pc = "wait"
         \/ call[c].pc = "rewrite" /\ pc = "rewait",
         Up(call[c].sock),
         net' = net \cup {<<c, call[c].sock>>},
         sent' = [sent EXCEPT ![c] = @ + 1],
         Moves(c, pc), KeepWaiters, UNCHANGED otherThanCalls
  PROVE  IInv'
<1>1. UNCHANGED <<socket, link, loggedIn, hand, dead>> /\ waiter' = waiter /\ chan' = chan
  BY DEF otherThanCalls, conns, KeepWaiters
<1>2. /\ call' \in [Call -> Rec]
      /\ call'[c].pc = pc /\ call'[c].kind = call[c].kind /\ call'[c].sock = call[c].sock
      /\ \A d \in Call \ {c} : call'[d] = call[d]
  BY Types, MovesType DEF PCs
<1>3. CallInv(c)
  BY DEF IInv
<1>4. sent[c] = IF pc = "wait" THEN 0 ELSE 1
  BY <1>3 DEF CallInv, Counted
<1>5. /\ sent' \in [Call -> 0..2]
      /\ sent'[c] = IF pc = "wait" THEN 1 ELSE 2
      /\ \A d \in Call \ {c} : sent'[d] = sent[d]
  BY <1>4, Types
<1>6. call[c].sock \in Sock /\ call[c].sock = socket
  BY DEF Up, IInv, OneUp
<1>7. net' \subseteq Call \X Sock
  BY <1>6, Types
<1>8. TypeOK'
  BY <1>1, <1>2, <1>5, <1>7, Types, TypesBack
<1>9. Served(c, 1)' = Served(c, 1) /\ Served(c, 2)' = Served(c, 2)
  BY <1>1 DEF Served
<1>10. CallInv(c)'
  <2>1. InMap(c)'
    BY <1>1, <1>2, <1>3, <1>6 DEF CallInv, InMap
  <2>2. OnItsWay(c)'
    BY <1>1, <1>2, <1>3, <1>9 DEF CallInv, OnItsWay
  <2>3. Counted(c)'
    BY <1>1, <1>2, <1>3, <1>5 DEF CallInv, Counted
  <2> QED
    BY <2>1, <2>2, <2>3 DEF CallInv
<1>11. \A h \in hand : h.call = c => HandOpen(h)'
  BY <1>1 DEF IInv, HandOpen
<1>12. dead = FALSE
  BY Types
<1> QED
  BY <1>1, <1>2, <1>5, <1>8, <1>10, <1>11, <1>12, OwnStep

LEMMA CallKeeps == ASSUME IInv, NEW c \in Call, Begin(c) \/ CallStep(c) PROVE IInv'
<1>0. CallInv(c) /\ waiter[c] \in {0, 1, 2}
  BY Types DEF IInv, NoWaiter
<1>a. call[c].pc # "idle" => call[c].kind \in {"iq", "send"}
  BY <1>0, Types DEF CallInv, OnItsWay, Rec, Kinds
<1>1. ASSUME Begin(c) PROVE IInv'
  <2>1. CASE call[c].kind = "send" /\ Moves(c, "lock") /\ KeepWaiters
    BY <1>1, <2>1, Types, MovesType, GoOn DEF Begin, At, KeepWaiters, PCs
  <2>2. CASE call[c].kind = "iq" /\ Moves(c, "read") /\ WaitResponse(c, 1)
    BY <1>1, <2>2, WaitStep DEF Begin, At
  <2> QED
    BY <1>1, <2>1, <2>2 DEF Begin
<1>2. ASSUME Acquire(c) PROVE IInv'
  BY <1>2, <1>a, WaitStep DEF Acquire, At
<1>3. ASSUME ReadSocket(c) PROVE IInv'
  <2>1. CASE socket = NoSock
    BY <1>3, <2>1, CancelStep DEF ReadSocket, At
  <2>2. CASE socket # NoSock
    <3>1. call' = [call EXCEPT ![c].sock = socket, ![c].pc = "write"] /\ KeepWaiters
      BY <1>3, <2>2 DEF ReadSocket
    <3>2. socket \in Sock
      BY <2>2, Types
    <3>3. /\ call' \in [Call -> Rec]
          /\ call'[c].pc = "write" /\ call'[c].kind = call[c].kind /\ call'[c].sock = socket
          /\ \A d \in Call \ {c} : call'[d] = call[d]
      BY <3>1, <3>2, Types, GoesType DEF PCs
    <3> QED
      BY <1>3, <3>1, <3>2, <3>3, GoOn DEF ReadSocket, At, KeepWaiters, PCs
  <2> QED
    BY <2>1, <2>2
<1>4. ASSUME Write(c) PROVE IInv'
  <2>1. At(c, "write") /\ UNCHANGED otherThanCalls
    BY <1>4 DEF Write
  <2>2. CASE /\ Up(call[c].sock)
             /\ net' = net \cup {<<c, call[c].sock>>}
             /\ sent' = [sent EXCEPT ![c] = @ + 1]
             /\ Moves(c, "wait")
             /\ KeepWaiters
    BY <2>1, <2>2, WriteStep DEF At
  <2>3. CASE CancelResponse(c, 1) /\ Returns(c) /\ UNCHANGED <<net, sent>>
    BY <2>1, <2>3, CancelStep DEF At
  <2> QED
    BY <1>4, <2>2, <2>3 DEF Write, WriteFrame
<1>5. ASSUME Answered(c) PROVE IInv'
  <2>1. waiter[c] = NoWaiter
    BY <1>0, <1>5 DEF Answered, At, Reads, CallInv, InMap, NoWaiter
  <2> QED
    BY <1>5, <2>1, Types, ReturnsType, GoOn DEF Answered, At, Reads, PCs
<1>6. ASSUME Disconnected(c) PROVE IInv'
  <2>1. /\ At(c, "wait") /\ chan[c][1] \in DisconnectNodes
        /\ UNCHANGED <<waiter, chan, net, sent, otherThanCalls>>
    BY <1>6 DEF Disconnected, Reads
  <2>2. waiter[c] = NoWaiter
    BY <1>0, <2>1 DEF At, CallInv, InMap, NoWaiter, DisconnectNodes
  <2>3. CASE Returns(c)
    BY <2>1, <2>2, <2>3, Types, ReturnsType, GoOn DEF At, PCs
  <2>4. CASE chan[c][1] # "auth" /\ Moves(c, "await")
    <3>1. chan[c][1] = "end"
      BY <2>1, <2>4 DEF DisconnectNodes
    <3> QED
      BY <2>1, <2>4, <3>1, Types, MovesType, GoOn DEF At, PCs
  <2> QED
    BY <1>6, <2>3, <2>4 DEF Disconnected
<1>7. ASSUME Timeout(c) PROVE IInv'
  <2>1. At(c, "wait") /\ Returns(c) /\ UNCHANGED <<net, sent, otherThanCalls>>
    BY <1>7 DEF Timeout
  <2>2. CASE CancelResponse(c, 1)
    BY <2>1, <2>2, CancelStep DEF At
  <2>3. CASE call[c].kind # "send" /\ KeepWaiters
    <3>1. call[c].kind = "iq"
      BY <1>a, <2>1, <2>3 DEF At
    <3> QED
      BY <2>1, <2>3, <3>1, Types, ReturnsType, GoOn DEF At, KeepWaiters, PCs
  <2> QED
    BY <1>7, <2>2, <2>3 DEF Timeout
<1>8. ASSUME Await(c) PROVE IInv'
  <2>1. At(c, "await") /\ UNCHANGED <<waiter, chan, net, sent, otherThanCalls>>
    BY <1>8 DEF Await, KeepWaiters
  <2>2. waiter[c] = NoWaiter
    BY <1>0, <2>1 DEF At, CallInv, InMap, NoWaiter
  <2>3. CASE Returns(c)
    BY <2>1, <2>2, <2>3, Types, ReturnsType, GoOn DEF At, PCs
  <2>4. CASE Up(socket) /\ call' = [call EXCEPT ![c].sock = socket, ![c].pc = "reregister"]
    <3>1. socket \in Sock
      BY <2>4 DEF Up
    <3>2. /\ call' \in [Call -> Rec]
          /\ call'[c].pc = "reregister" /\ call'[c].kind = call[c].kind /\ call'[c].sock = socket
          /\ \A d \in Call \ {c} : call'[d] = call[d]
      BY <2>4, <3>1, Types, GoesType DEF PCs
    <3> QED
      BY <2>1, <3>1, <3>2, GoOn DEF At, PCs
  <2> QED
    BY <1>8, <2>3, <2>4 DEF Await
<1>9. ASSUME RegisterAgain(c) PROVE IInv'
  BY <1>9, <1>a, WaitStep DEF RegisterAgain, At
<1>10. ASSUME WriteAgain(c) PROVE IInv'
  <2>1. At(c, "rewrite") /\ UNCHANGED otherThanCalls
    BY <1>10 DEF WriteAgain
  <2>2. CASE /\ Up(call[c].sock)
             /\ net' = net \cup {<<c, call[c].sock>>}
             /\ sent' = [sent EXCEPT ![c] = @ + 1]
             /\ Moves(c, "rewait")
             /\ KeepWaiters
    BY <2>1, <2>2, WriteStep DEF At
  <2>3. CASE CancelResponse(c, 2) /\ Returns(c) /\ UNCHANGED <<net, sent>>
    BY <2>1, <2>3, CancelStep DEF At
  <2> QED
    BY <1>10, <2>2, <2>3 DEF WriteAgain, WriteFrame
<1>11. ASSUME RetryAnswered(c) PROVE IInv'
  <2>1. /\ At(c, "rewait") /\ Returns(c) /\ chan[c][2] # "empty"
        /\ UNCHANGED <<waiter, chan, net, sent, otherThanCalls>>
    BY <1>11 DEF RetryAnswered, Reads, DisconnectNodes
  <2>2. waiter[c] = NoWaiter
    BY <1>0, <2>1 DEF At, CallInv, InMap, NoWaiter
  <2> QED
    BY <2>1, <2>2, Types, ReturnsType, GoOn DEF At, PCs
<1>12. ASSUME RetryTimeout(c) PROVE IInv'
  BY <1>12, Types, ReturnsType, GoOn DEF RetryTimeout, At, KeepWaiters, PCs
<1> QED
  BY <1>1, <1>2, <1>3, <1>4, <1>5, <1>6, <1>7, <1>8, <1>9, <1>10, <1>11, <1>12 DEF CallStep

-----------------------------------------------------------------------------
(***************************************************************************)
(* The steps of the connection                                             *)
(***************************************************************************)
LEMMA Living ==
  ASSUME IInv, ~dead, dead' = dead
  PROVE  dead' = FALSE /\ Death'
BY Types DEF Death

LEMMA LinkType ==
  ASSUME IInv, NEW s \in Sock, NEW x \in Links, link' = [link EXCEPT ![s] = x]
  PROVE  /\ link' \in [Sock -> Links] /\ link'[s] = x
         /\ \A t \in Sock \ {s} : link'[t] = link[t]
BY Types

\* With the socket unchanged, whoever waits goes on waiting for it.
LEMMA StillWaiting ==
  ASSUME IInv, socket' = socket
  PROVE  \A c \in Call : call[c].pc \in {"wait", "rewait"} /\ waiter[c] # NoWaiter
                            => call[c].sock = socket'
BY DEF IInv, CallInv, InMap

LEMMA DropKeeps == ASSUME IInv, NEW s \in Sock, Drop(s) PROVE IInv'
<1>1. /\ ~dead /\ link' = [link EXCEPT ![s] = "closing"]
      /\ UNCHANGED <<socket, loggedIn, call, waiter, chan, net, hand, sent, dead>>
  BY DEF Drop, KeepWaiters, others
<1>2. /\ link' \in [Sock -> Links] /\ link'[s] = "closing"
      /\ \A t \in Sock \ {s} : link'[t] = link[t]
  BY <1>1, LinkType DEF Links
<1>3. TypeOK'
  BY <1>1, <1>2, Types, TypesBack
<1>4. OneUp'
  BY <1>1, <1>2 DEF IInv, OneUp
<1> QED
  BY <1>1, <1>3, <1>4, Living, StillWaiting, QuietStep

LEMMA StartTellingKeeps == ASSUME IInv, NEW s \in Sock, StartTelling(s) PROVE IInv'
<1>1. /\ ~dead /\ link[s] = "closing"
      /\ UNCHANGED <<socket, loggedIn, call, waiter, chan, net, hand, sent>>
  BY DEF StartTelling, KeepWaiters
<1>2. CASE link' = [link EXCEPT ![s] = "telling"] /\ UNCHANGED dead
  <2>1. /\ link' \in [Sock -> Links] /\ link'[s] = "telling"
        /\ \A t \in Sock \ {s} : link'[t] = link[t]
    BY <1>2, LinkType DEF Links
  <2>2. TypeOK'
    BY <1>1, <1>2, <2>1, Types, TypesBack
  <2>3. OneUp'
    BY <1>1, <2>1 DEF IInv, OneUp
  <2> QED
    BY <1>1, <1>2, <2>2, <2>3, Living, StillWaiting, QuietStep
<1>3. CASE socket # s /\ dead' = TRUE /\ UNCHANGED link
  <2>1. TypeOK'
    BY <1>1, <1>3, Types, TypesBack
  <2>2. OneUp' /\ Death'
    BY <1>1, <1>3 DEF IInv, OneUp, Death
  <2> QED
    BY <1>1, <2>1, <2>2, StillWaiting, QuietStep
<1> QED
  BY <1>2, <1>3 DEF StartTelling

LEMMA OnDisconnectKeeps == ASSUME IInv, NEW s \in Sock, OnDisconnect(s) PROVE IInv'
<1>1. /\ ~dead /\ Stop(s) /\ link' = [link EXCEPT ![s] = "gone"] /\ link[s] = "telling"
      /\ UNCHANGED <<loggedIn, call, hand, sent, dead>>
  BY DEF OnDisconnect, others
<1>2. /\ link' \in [Sock -> Links] /\ link'[s] = "gone"
      /\ \A t \in Sock \ {s} : link'[t] = link[t]
  BY <1>1, LinkType DEF Links
<1>3. net' \subseteq Call \X Sock
  BY <1>1, Types DEF Stop
<1>4. CASE socket = s
  <2>1. socket' = NoSock /\ ClearResponseWaiters("end")
    BY <1>4 DEF OnDisconnect
  <2>2. chan' \in [Call -> [{1, 2} -> Contents]] /\ waiter' \in [Call -> {NoWaiter, 1, 2}]
    BY <2>1, Types, ClearType DEF IInv, CallInv, InMap, DisconnectNodes
  <2>3. TypeOK'
    BY <1>1, <1>2, <1>3, <2>1, <2>2, Types, TypesBack
  <2>4. OneUp'
    BY <1>2, <1>4 DEF IInv, OneUp
  <2> QED
    BY <1>1, <2>1, <2>3, <2>4, Living, ClearingStep DEF DisconnectNodes
<1>5. CASE socket # s
  <2>1. socket' = socket /\ waiter' = waiter /\ chan' = chan
    BY <1>5 DEF OnDisconnect, KeepWaiters
  <2>2. TypeOK'
    BY <1>1, <1>2, <1>3, <2>1, Types, TypesBack
  <2>3. OneUp'
    BY <1>2, <2>1 DEF IInv, OneUp
  <2> QED
    BY <1>1, <2>1, <2>2, <2>3, Living, StillWaiting, QuietStep
<1> QED
  BY <1>4, <1>5

LEMMA DisconnectKeeps == ASSUME IInv, Disconnect PROVE IInv'
<1>1. /\ ~dead /\ socket # NoSock /\ Stop(socket) /\ socket' = NoSock
      /\ link' = [link EXCEPT ![socket] = IF Up(socket) THEN "gone" ELSE @]
      /\ ClearResponseWaiters("end")
      /\ UNCHANGED <<loggedIn, call, hand, sent, dead>>
  BY DEF Disconnect, others
<1>2. socket \in Sock
  BY <1>1, Types
<1>3. /\ link' \in [Sock -> Links] /\ link'[socket] # "open"
      /\ \A t \in Sock \ {socket} : link'[t] = link[t]
  BY <1>1, <1>2, Types DEF Up, Links
<1>4. net' \subseteq Call \X Sock
  BY <1>1, Types DEF Stop
<1>5. chan' \in [Call -> [{1, 2} -> Contents]] /\ waiter' \in [Call -> {NoWaiter, 1, 2}]
  BY <1>1, Types, ClearType DEF IInv, CallInv, InMap, DisconnectNodes
<1>6. TypeOK'
  BY <1>1, <1>3, <1>4, <1>5, Types, TypesBack
<1>7. OneUp'
  BY <1>3 DEF IInv, OneUp
<1> QED
  BY <1>1, <1>6, <1>7, Living, ClearingStep DEF DisconnectNodes

LEMMA ConnectKeeps == ASSUME IInv, NEW s \in Sock, Connect(s) PROVE IInv'
<1>1. /\ ~dead /\ ~Up(socket) /\ Stop(socket)
      /\ UNCHANGED <<loggedIn, call, hand, sent, dead>>
  BY DEF Connect, others
<1>2. \A t \in Sock : link[t] # "open"
  BY <1>1 DEF IInv, OneUp, Up
<1>3. PICK x \in {"open", "gone"} :
        /\ link' = [link EXCEPT ![s] = x]
        /\ socket' = IF x = "open" THEN s ELSE NoSock
  BY DEF Connect
<1>4. /\ link' \in [Sock -> Links] /\ link'[s] = x
      /\ \A t \in Sock \ {s} : link'[t] = link[t]
  BY <1>3, LinkType DEF Links
<1>5. OneUp'
  BY <1>2, <1>3, <1>4 DEF OneUp
<1>6. net' \subseteq Call \X Sock
  BY <1>1, Types DEF Stop
<1>7. socket' \in Sock \cup {NoSock}
  BY <1>3
<1>8. CASE socket # NoSock
  <2>1. ClearResponseWaiters("end")
    BY <1>8 DEF Connect
  <2>2. chan' \in [Call -> [{1, 2} -> Contents]] /\ waiter' \in [Call -> {NoWaiter, 1, 2}]
    BY <2>1, Types, ClearType DEF IInv, CallInv, InMap, DisconnectNodes
  <2>3. TypeOK'
    BY <1>1, <1>4, <1>6, <1>7, <2>2, Types, TypesBack
  <2> QED
    BY <1>1, <1>5, <2>1, <2>3, Living, ClearingStep DEF DisconnectNodes
<1>9. CASE socket = NoSock
  <2>1. waiter' = waiter /\ chan' = chan
    BY <1>9 DEF Connect, KeepWaiters
  <2>2. TypeOK'
    BY <1>1, <1>4, <1>6, <1>7, <2>1, Types, TypesBack
  <2>3. \A c \in Call : ~(call[c].pc \in {"wait", "rewait"} /\ waiter[c] # NoWaiter)
    <3> SUFFICES ASSUME NEW c \in Call, call[c].pc \in {"wait", "rewait"}, waiter[c] # NoWaiter
                 PROVE FALSE
      OBVIOUS
    <3>1. CallInv(c)
      BY DEF IInv
    <3>2. call[c].sock = socket /\ call[c].sock \in Sock
      BY <3>1 DEF CallInv, InMap, OnItsWay
    <3> QED
      BY <1>9, <3>2 DEF Sock, NoSock
  <2> QED
    BY <1>1, <1>5, <2>1, <2>2, <2>3, Living, QuietStep
<1> QED
  BY <1>8, <1>9

LEMMA HandleNodeKeeps == ASSUME IInv, NEW node \in ServerNodes, HandleNode(node) PROVE IInv'
<1>1. ~dead /\ UNCHANGED <<socket, link, net, call, hand, sent, dead>>
  BY DEF HandleNode, others
<1>2. loggedIn' \in BOOLEAN
  BY DEF HandleNode
<1>3. OneUp'
  BY <1>1 DEF IInv, OneUp
<1>4. CASE node = "success"
  <2>1. waiter' = waiter /\ chan' = chan
    BY <1>4 DEF HandleNode, KeepWaiters
  <2>2. TypeOK'
    BY <1>1, <1>2, <2>1, Types, TypesBack
  <2> QED
    BY <1>1, <1>3, <2>1, <2>2, Living, StillWaiting, QuietStep
<1>5. CASE node # "success"
  <2>1. PICK n \in DisconnectNodes : ClearResponseWaiters(n)
    BY <1>5 DEF HandleNode, DisconnectNodes
  <2>2. chan' \in [Call -> [{1, 2} -> Contents]] /\ waiter' \in [Call -> {NoWaiter, 1, 2}]
    BY <2>1, Types, ClearType DEF IInv, CallInv, InMap
  <2>3. TypeOK'
    BY <1>1, <1>2, <2>2, Types, TypesBack
  <2> QED
    BY <1>1, <1>3, <2>1, <2>3, Living, ClearingStep
<1> QED
  BY <1>4, <1>5

-----------------------------------------------------------------------------
(***************************************************************************)
(* The steps of the readers                                                *)
(***************************************************************************)
\* A step of a reader moves nobody: what is left is who is served.
LEMMA ReaderCall ==
  ASSUME NEW c \in Call, CallInv(c), UNCHANGED <<call, sent, socket>>,
         waiter'[c] = waiter[c] \/ waiter'[c] = NoWaiter,
         waiter[c] \in {NoWaiter, 1, 2},
         \A k \in {1, 2} : \/ chan'[c][k] = chan[c][k]
                           \/ waiter[c] # k /\ chan[c][k] = "empty" /\ chan'[c][k] = "answer",
         \A k \in {1, 2} : Served(c, k) => Served(c, k)'
  PROVE  CallInv(c)'
<1>1. InMap(c)'
  <2>1. CASE waiter'[c] = NoWaiter
    BY <2>1 DEF InMap, NoWaiter
  <2>2. CASE waiter'[c] = waiter[c] /\ waiter[c] # NoWaiter
    <3>1. chan'[c][waiter[c]] = chan[c][waiter[c]]
      BY <2>2
    <3> QED
      BY <2>2, <3>1 DEF CallInv, InMap
  <2> QED
    BY <2>1, <2>2
<1>2. OnItsWay(c)'
  BY DEF CallInv, OnItsWay
<1>3. Counted(c)'
  BY DEF CallInv, Counted
<1> QED
  BY <1>1, <1>2, <1>3 DEF CallInv

LEMMA TakeAnswerKeeps ==
  ASSUME IInv, NEW s \in Sock, NEW c \in Call, TakeAnswer(s, c)
  PROVE  IInv'
<1> DEFINE new == [sock |-> s, call |-> c, chan |-> NoWaiter]
<1>1. /\ ~dead /\ net' = net \ {<<c, s>>} /\ hand' = hand \cup {new}
      /\ UNCHANGED <<socket, link, loggedIn, call, waiter, chan, sent, dead>>
  BY DEF TakeAnswer, KeepWaiters, conns
<1>2. TypeOK'
  <2>1. hand' \subseteq [sock : Sock, call : Call, chan : {NoWaiter, 1, 2}]
    BY <1>1, Types
  <2>2. net' \subseteq Call \X Sock
    BY <1>1, Types
  <2> QED
    BY <1>1, <2>1, <2>2, Types, TypesBack
<1>3. \A d \in Call : CallInv(d)'
  <2> SUFFICES ASSUME NEW d \in Call PROVE CallInv(d)'
    OBVIOUS
  <2>1. CallInv(d) /\ waiter[d] \in {NoWaiter, 1, 2}
    BY Types DEF IInv
  <2>2. \A k \in {1, 2} : Served(d, k) => Served(d, k)'
    BY <1>1 DEF Served
  <2> QED
    BY <1>1, <2>1, <2>2, ReaderCall
<1>4. \A h \in hand' : HandOpen(h)'
  BY <1>1 DEF IInv, HandOpen
<1>5. HandAlone'
  <2>1. new.chan = NoWaiter
    OBVIOUS
  <2> HIDE DEF new
  <2> QED
    BY <1>1, <2>1 DEF IInv, HandAlone
<1>6. OneUp'
  BY <1>1 DEF IInv, OneUp
<1> QED
  BY <1>1, <1>2, <1>3, <1>4, <1>5, <1>6, Living DEF IInv

LEMMA LookUpKeeps == ASSUME IInv, NEW s \in Sock, LookUp(s) PROVE IInv'
<1>1. ~dead /\ UNCHANGED <<socket, link, loggedIn, call, chan, net, sent, dead>>
  BY DEF LookUp, conns
<1>2. PICK h \in hand :
        /\ h.chan = NoWaiter
        /\ \/ /\ waiter[h.call] = NoWaiter
              /\ hand' = hand \ {h}
              /\ waiter' = waiter
           \/ /\ waiter[h.call] # NoWaiter
              /\ hand' = (hand \ {h}) \cup {[h EXCEPT !.chan = waiter[h.call]]}
              /\ waiter' = [waiter EXCEPT ![h.call] = NoWaiter]
  BY DEF LookUp
<1>3. h.call \in Call /\ h \in [sock : Sock, call : Call, chan : {NoWaiter, 1, 2}]
  BY Types
<1>4. OneUp'
  BY <1>1 DEF IInv, OneUp
<1>5. \A d \in Call : CallInv(d) /\ waiter[d] \in {NoWaiter, 1, 2}
  BY Types DEF IInv
<1>6. CASE waiter[h.call] = NoWaiter /\ hand' = hand \ {h} /\ waiter' = waiter
  <2>1. TypeOK'
    BY <1>1, <1>6, Types, TypesBack
  <2>2. \A d \in Call : CallInv(d)'
    <3> SUFFICES ASSUME NEW d \in Call PROVE CallInv(d)'
      OBVIOUS
    <3>1. \A k \in {1, 2} : Served(d, k) => Served(d, k)'
      BY <1>1, <1>2, <1>6 DEF Served, NoWaiter
    <3> QED
      BY <1>1, <1>5, <1>6, <3>1, ReaderCall
  <2>3. (\A g \in hand' : HandOpen(g)') /\ HandAlone'
    BY <1>1, <1>6 DEF IInv, HandOpen, HandAlone
  <2> QED
    BY <1>1, <1>4, <2>1, <2>2, <2>3, Living DEF IInv
<1>7. CASE /\ waiter[h.call] # NoWaiter
           /\ hand' = (hand \ {h}) \cup {[h EXCEPT !.chan = waiter[h.call]]}
           /\ waiter' = [waiter EXCEPT ![h.call] = NoWaiter]
  <2>0. PICK new : new = [h EXCEPT !.chan = waiter[h.call]]
    OBVIOUS
  <2>1. /\ new.chan = waiter[h.call] /\ new.call = h.call /\ new.chan \in {1, 2}
        /\ new \in [sock : Sock, call : Call, chan : {NoWaiter, 1, 2}]
    BY <1>3, <1>5, <1>7, <2>0
  <2>2. hand' = (hand \ {h}) \cup {new}
    BY <1>7, <2>0
  <2>3. /\ waiter' \in [Call -> {NoWaiter, 1, 2}]
        /\ waiter'[h.call] = NoWaiter
        /\ \A d \in Call \ {h.call} : waiter'[d] = waiter[d]
    BY <1>3, <1>7, Types
  <2>4. TypeOK'
    <3>1. hand' \subseteq [sock : Sock, call : Call, chan : {NoWaiter, 1, 2}]
      BY <2>1, <2>2, Types
    <3> QED
      BY <1>1, <2>3, <3>1, Types, TypesBack
  <2>5. chan[h.call][new.chan] = "empty"
    BY <1>3, <1>5, <1>7, <2>1 DEF CallInv, InMap
  <2>6. \A g \in hand : ~(g.chan = new.chan /\ g.call = new.call)
    BY <2>1 DEF IInv, HandOpen, NoWaiter
  <2>7. \A d \in Call : CallInv(d)'
    <3> SUFFICES ASSUME NEW d \in Call PROVE CallInv(d)'
      OBVIOUS
    <3>1. \A k \in {1, 2} : Served(d, k) => Served(d, k)'
      <4> SUFFICES ASSUME NEW k \in {1, 2}, Served(d, k) PROVE Served(d, k)'
        OBVIOUS
      <4>1. CASE waiter[d] = k
        BY <1>3, <2>1, <2>2, <2>3, <4>1 DEF Served
      <4>2. CASE \E g \in hand : g.call = d /\ g.chan = k
        BY <1>2, <2>2, <4>2 DEF Served, NoWaiter
      <4>3. CASE chan[d][k] \in {"answer"} \cup DisconnectNodes
        BY <1>1, <4>3 DEF Served
      <4> QED
        BY <4>1, <4>2, <4>3 DEF Served
    <3>2. waiter'[d] = waiter[d] \/ waiter'[d] = NoWaiter
      BY <2>3
    <3> QED
      BY <1>1, <1>5, <3>1, <3>2, ReaderCall
  <2>8. \A g \in hand' : HandOpen(g)'
    <3>1. ASSUME NEW g \in hand PROVE HandOpen(g)'
      <4>1. HandOpen(g) /\ g.call \in Call
        BY Types DEF IInv
      <4> QED
        BY <1>1, <2>3, <4>1 DEF HandOpen
    <3>2. HandOpen(new)'
      BY <1>1, <2>1, <2>3, <2>5 DEF HandOpen
    <3> QED
      BY <2>2, <3>1, <3>2
  <2>9. HandAlone'
    BY <2>2, <2>6 DEF IInv, HandAlone
  <2> QED
    BY <1>1, <1>4, <2>4, <2>7, <2>8, <2>9, Living DEF IInv
<1> QED
  BY <1>2, <1>6, <1>7

LEMMA DeliverKeeps == ASSUME IInv, NEW s \in Sock, Deliver(s) PROVE IInv'
<1>1. ~dead /\ UNCHANGED <<socket, link, loggedIn, call, waiter, net, sent>>
  BY DEF Deliver, conns
<1>2. PICK h \in hand :
        /\ h.chan # NoWaiter
        /\ \/ /\ chan[h.call][h.chan] = "empty"
              /\ chan' = [chan EXCEPT ![h.call][h.chan] = "answer"]
              /\ hand' = hand \ {h}
              /\ dead' = dead
           \/ /\ chan[h.call][h.chan] = "closed"
              /\ dead' = TRUE
              /\ chan' = chan /\ hand' = hand
  BY DEF Deliver
<1>3. h.call \in Call /\ h.chan \in {1, 2} /\ HandOpen(h)
  BY <1>2, Types DEF IInv
<1>4. OneUp'
  BY <1>1 DEF IInv, OneUp
<1>5. CASE /\ chan[h.call][h.chan] = "empty"
           /\ chan' = [chan EXCEPT ![h.call][h.chan] = "answer"]
           /\ hand' = hand \ {h}
           /\ dead' = dead
  <2>1. /\ chan' \in [Call -> [{1, 2} -> Contents]]
        /\ chan'[h.call][h.chan] = "answer"
        /\ \A j \in {1, 2} \ {h.chan} : chan'[h.call][j] = chan[h.call][j]
        /\ \A d \in Call \ {h.call} : chan'[d] = chan[d]
    BY <1>3, <1>5, Types, ChanType DEF Contents
  <2>2. TypeOK'
    BY <1>1, <1>5, <2>1, Types, TypesBack
  <2>3. waiter[h.call] # h.chan
    BY <1>2, <1>3 DEF HandOpen
  <2>4. \A d \in Call : CallInv(d)'
    <3> SUFFICES ASSUME NEW d \in Call PROVE CallInv(d)'
      OBVIOUS
    <3>1. CallInv(d) /\ waiter[d] \in {NoWaiter, 1, 2}
      BY Types DEF IInv
    <3>2. \A k \in {1, 2} : \/ chan'[d][k] = chan[d][k]
                            \/ waiter[d] # k /\ chan[d][k] = "empty" /\ chan'[d][k] = "answer"
      BY <1>5, <2>1, <2>3
    <3>3. \A k \in {1, 2} : Served(d, k) => Served(d, k)'
      <4> SUFFICES ASSUME NEW k \in {1, 2}, Served(d, k) PROVE Served(d, k)'
        OBVIOUS
      <4>1. CASE d = h.call /\ k = h.chan
        BY <2>1, <4>1 DEF Served
      <4>2. CASE ~(d = h.call /\ k = h.chan)
        <5>1. chan'[d][k] = chan[d][k]
          BY <2>1, <4>2
        <5> QED
          BY <1>1, <1>5, <4>2, <5>1 DEF Served
      <4> QED
        BY <4>1, <4>2
    <3> QED
      BY <1>1, <3>1, <3>2, <3>3, ReaderCall
  <2>5. \A g \in hand' : HandOpen(g)'
    <3> SUFFICES ASSUME NEW g \in hand, g # h, g.chan # NoWaiter PROVE HandOpen(g)'
      BY <1>5 DEF HandOpen
    <3>1. g.call \in Call /\ g.chan \in {1, 2} /\ HandOpen(g)
      BY Types DEF IInv
    <3>2. ~(g.call = h.call /\ g.chan = h.chan)
      BY DEF IInv, HandAlone
    <3>3. chan'[g.call][g.chan] = chan[g.call][g.chan]
      BY <2>1, <3>1, <3>2
    <3> QED
      BY <1>1, <3>1, <3>3 DEF HandOpen
  <2>6. HandAlone'
    BY <1>5 DEF IInv, HandAlone
  <2> QED
    BY <1>1, <1>4, <1>5, <2>2, <2>4, <2>5, <2>6, Living DEF IInv
<1>6. CASE chan[h.call][h.chan] = "closed" /\ dead' = TRUE /\ chan' = chan /\ hand' = hand
  <2>1. TypeOK'
    BY <1>1, <1>6, Types, TypesBack
  <2>2. Death'
    BY <1>2, <1>6 DEF Death
  <2> QED
    BY <1>1, <1>4, <1>6, <2>1, <2>2, StillWaiting, QuietStep
<1> QED
  BY <1>2, <1>5, <1>6

-----------------------------------------------------------------------------
(***************************************************************************)
(* The theorems                                                            *)
(***************************************************************************)
LEMMA NextIInv == IInv /\ [Next]_vars => IInv'
<1> SUFFICES ASSUME IInv, [Next]_vars PROVE IInv'
  OBVIOUS
<1>1. CASE UNCHANGED vars
  <2>1. UNCHANGED <<socket, link, loggedIn, call, waiter, chan, net, hand, sent, dead>>
    BY <1>1 DEF vars, conns
  <2>2. TypeOK'
    BY <2>1, Types, TypesBack
  <2>3. OneUp' /\ Death'
    BY <2>1 DEF IInv, OneUp, Death
  <2> QED
    BY <2>1, <2>2, <2>3, StillWaiting, QuietStep
<1>2. ASSUME Disconnect PROVE IInv'
  BY <1>2, DisconnectKeeps
<1>3. ASSUME NEW node \in ServerNodes, HandleNode(node) PROVE IInv'
  BY <1>3, HandleNodeKeeps
<1>4. ASSUME NEW s \in Sock, Drop(s) \/ TellStep(s) \/ Connect(s) \/ ReaderStep(s) PROVE IInv'
  <2>1. CASE Drop(s)
    BY <2>1, DropKeeps
  <2>2. CASE StartTelling(s)
    BY <2>2, StartTellingKeeps
  <2>3. CASE OnDisconnect(s)
    BY <2>3, OnDisconnectKeeps
  <2>4. CASE Connect(s)
    BY <2>4, ConnectKeeps
  <2>5. CASE LookUp(s)
    BY <2>5, LookUpKeeps
  <2>6. CASE Deliver(s)
    BY <2>6, DeliverKeeps
  <2> QED
    BY <1>4, <2>1, <2>2, <2>3, <2>4, <2>5, <2>6 DEF TellStep, ReaderStep
<1>5. ASSUME NEW s \in Sock, NEW c \in Call, TakeAnswer(s, c) PROVE IInv'
  BY <1>5, TakeAnswerKeeps
<1>6. ASSUME NEW c \in Call, Begin(c) \/ CallStep(c) PROVE IInv'
  BY <1>6, CallKeeps
<1> QED
  BY <1>1, <1>2, <1>3, <1>4, <1>5, <1>6 DEF Next

LEMMA Invariance == Spec => []IInv
<1> QED
  BY InitIInv, NextIInv, PTL DEF Spec

\* Every variable has its type; no frame is written more than twice.
THEOREM TypeCorrect == Spec => []TypeOK
<1>1. IInv => TypeOK
  BY DEF IInv
<1> QED
  BY <1>1, Invariance, PTL

\* No call that waits for an answer is forgotten, by whichever step its connection ends:
\* a connection that is up is the client's, and a waiter is in the map, in a hand or served.
THEOREM WaitersRemembered == Spec => []NooneForgotten
<1>1. ASSUME IInv PROVE NooneForgotten
  <2>1. ASSUME NEW c \in Call PROVE CallInv(c) /\ waiter[c] \in {NoWaiter, 1, 2}
    BY <1>1, Types DEF IInv
  <2>2. ASSUME NEW c \in Call, call[c].pc \in {"wait", "rewait"}
        PROVE  \/ waiter[c] = WaitsOn(c) /\ call[c].sock = socket
               \/ \E h \in hand : h.call = c /\ h.chan = WaitsOn(c)
               \/ chan[c][WaitsOn(c)] \in {"answer"} \cup DisconnectNodes
    <3>1. Served(c, WaitsOn(c)) /\ WaitsOn(c) \in {1, 2}
      BY <2>1, <2>2 DEF CallInv, OnItsWay, WaitsOn
    <3>2. waiter[c] # NoWaiter => call[c].sock = socket
      BY <2>1, <2>2 DEF CallInv, InMap
    <3> QED
      BY <3>1, <3>2 DEF Served, NoWaiter
  <2>3. ASSUME NEW c \in Call, waiter[c] # NoWaiter
        PROVE  \/ call[c].pc \in {"read", "write", "wait"} /\ waiter[c] = 1
               \/ call[c].pc \in {"rewrite", "rewait"} /\ waiter[c] = 2
               \/ call[c].pc = "done" /\ call[c].kind = "iq"
    BY <2>1, <2>3 DEF CallInv, InMap
  <2> QED
    BY <2>2, <2>3 DEF NooneForgotten
<1> QED
  BY <1>1, Invariance, PTL

\* Channels in the map are open and empty, and a channel that was closed is sent to by a
\* reader only after its call has returned.
THEOREM NoSendOnClosed == Spec => []ChannelsOpen
<1>1. ASSUME IInv PROVE ChannelsOpen
  <2>1. ASSUME NEW c \in Call PROVE CallInv(c)
    BY <1>1 DEF IInv
  <2>2. \A h \in hand : HandOpen(h) /\ h.call \in Call
    BY <1>1, Types DEF IInv
  <2>3. \A c \in Call : waiter[c] # NoWaiter => chan[c][waiter[c]] = "empty"
    BY <2>1 DEF CallInv, InMap
  <2>4. \A h \in hand : h.chan # NoWaiter =>
          \/ chan[h.call][h.chan] = "empty"
          \/ chan[h.call][h.chan] = "closed" /\ call[h.call].pc = "done"
    BY <2>2 DEF HandOpen
  <2>5. ASSUME NEW c \in Call, call[c].pc \in {"wait", "rewait"}, chan[c][WaitsOn(c)] = "closed"
        PROVE  FALSE
    <3>1. Served(c, WaitsOn(c)) /\ WaitsOn(c) \in {1, 2}
      BY <2>1, <2>5 DEF CallInv, OnItsWay, WaitsOn
    <3>2. waiter[c] # WaitsOn(c)
      BY <2>3, <2>5, <3>1 DEF NoWaiter
    <3>3. ~ \E h \in hand : h.call = c /\ h.chan = WaitsOn(c)
      BY <2>4, <2>5, <3>1 DEF NoWaiter
    <3> QED
      BY <2>5, <3>1, <3>2, <3>3 DEF Served, DisconnectNodes
  <2>6. Death
    BY <1>1 DEF IInv
  <2> QED
    BY <2>3, <2>4, <2>5, <2>6 DEF ChannelsOpen, Death
<1> QED
  BY <1>1, Invariance, PTL

\* A frame is written again only after a disconnect that is not the end of the session.
THEOREM RetriedOnce == Spec => []WrittenAgain
<1>1. ASSUME IInv PROVE WrittenAgain
  <2>1. ASSUME NEW c \in Call
        PROVE  sent[c] <= 2 /\ (sent[c] = 2 => chan[c][1] = "end" /\ chan[c][2] # "none")
    <3>1. CallInv(c) /\ sent[c] \in 0..2
      BY <1>1, Types DEF IInv
    <3> QED
      BY <3>1 DEF CallInv, Counted
  <2> QED
    BY <2>1 DEF WrittenAgain
<1> QED
  BY <1>1, Invariance, PTL

-----------------------------------------------------------------------------
(***************************************************************************)
(* The promise to the callers                                              *)
(***************************************************************************)
Phases == [c \in Call |-> Phase(c)]
Newses == [c \in Call |-> News(c)]

\* Besides IInv: nobody answers a request that was not written.
AskedBefore ==
  /\ \A x \in net : sent[x[1]] > 0
  /\ \A h \in hand : sent[h.call] > 0

LEMMA AskedKept ==
  ASSUME IInv, AskedBefore, net' \subseteq net, hand' = hand, sent' = sent
  PROVE  AskedBefore'
BY DEF AskedBefore

LEMMA CallAsked ==
  ASSUME IInv, AskedBefore, NEW c \in Call, Begin(c) \/ CallStep(c)
  PROVE  AskedBefore'
<1>1. CASE net' = net /\ sent' = sent
  BY <1>1, AskedKept DEF Begin, CallStep, Acquire, ReadSocket, Write, Answered, Disconnected,
     Timeout, Await, RegisterAgain, WriteAgain, RetryAnswered, RetryTimeout, otherThanCalls
<1>2. CASE net' = net \cup {<<c, call[c].sock>>} /\ sent' = [sent EXCEPT ![c] = @ + 1]
  <2>1. hand' = hand
    BY DEF Begin, CallStep, Acquire, ReadSocket, Write, Answered, Disconnected, Timeout, Await,
       RegisterAgain, WriteAgain, RetryAnswered, RetryTimeout, otherThanCalls
  <2>2. \A d \in Call : sent'[d] \in Nat /\ (sent[d] > 0 \/ d = c => sent'[d] > 0)
    BY <1>2, Types
  <2>3. \A x \in net : x[1] \in Call
    BY Types
  <2>4. \A h \in hand : h.call \in Call
    BY Types
  <2>5. \A x \in net' : sent'[x[1]] > 0
    <3> SUFFICES ASSUME NEW x \in net' PROVE sent'[x[1]] > 0
      OBVIOUS
    <3>1. CASE x \in net
      BY <2>2, <2>3, <3>1 DEF AskedBefore
    <3>2. CASE x = <<c, call[c].sock>>
      BY <2>2, <3>2
    <3> QED
      BY <1>2, <3>1, <3>2
  <2>6. \A h \in hand' : sent'[h.call] > 0
    BY <2>1, <2>2, <2>4 DEF AskedBefore
  <2> QED
    BY <2>5, <2>6 DEF AskedBefore
<1> QED
  BY <1>1, <1>2 DEF Begin, CallStep, Acquire, ReadSocket, Write, WriteFrame, Answered, Reads,
     Disconnected, Timeout, Await, RegisterAgain, WriteAgain, RetryAnswered, RetryTimeout

LEMMA NextAsked == IInv /\ AskedBefore /\ [Next]_vars => AskedBefore'
<1> SUFFICES ASSUME IInv, AskedBefore, [Next]_vars PROVE AskedBefore'
  OBVIOUS
<1>1. CASE UNCHANGED vars \/ Disconnect \/ \E node \in ServerNodes : HandleNode(node)
  BY <1>1, AskedKept DEF vars, Disconnect, HandleNode, others, Stop
<1>2. ASSUME NEW s \in Sock, Drop(s) \/ TellStep(s) \/ Connect(s) PROVE AskedBefore'
  BY <1>2, AskedKept DEF Drop, TellStep, StartTelling, OnDisconnect, Connect, others, Stop
<1>3. ASSUME NEW s \in Sock, LookUp(s) PROVE AskedBefore'
  <2>1. PICK h \in hand :
          \A g \in hand' : g \in hand \/ g = [h EXCEPT !.chan = waiter[h.call]]
    BY <1>3 DEF LookUp
  <2>2. h \in [sock : Sock, call : Call, chan : {NoWaiter, 1, 2}]
    BY Types
  <2>3. [h EXCEPT !.chan = waiter[h.call]].call = h.call
    BY <2>2
  <2>4. net' = net /\ sent' = sent
    BY <1>3 DEF LookUp
  <2> QED
    BY <2>1, <2>3, <2>4 DEF AskedBefore
<1>4. ASSUME NEW s \in Sock, Deliver(s) PROVE AskedBefore'
  <2>1. hand' \subseteq hand /\ net' = net /\ sent' = sent
    BY <1>4 DEF Deliver
  <2> QED
    BY <2>1 DEF AskedBefore
<1>5. ASSUME NEW s \in Sock, NEW c \in Call, TakeAnswer(s, c) PROVE AskedBefore'
  <2>1. /\ <<c, s>> \in net /\ net' \subseteq net /\ sent' = sent
        /\ hand' = hand \cup {[sock |-> s, call |-> c, chan |-> NoWaiter]}
    BY <1>5 DEF TakeAnswer
  <2>2. sent[c] > 0
    BY <2>1 DEF AskedBefore
  <2> QED
    BY <2>1, <2>2 DEF AskedBefore
<1>6. ASSUME NEW c \in Call, Begin(c) \/ CallStep(c) PROVE AskedBefore'
  BY <1>6, CallAsked
<1> QED
  BY <1>1, <1>2, <1>3, <1>4, <1>5, <1>6 DEF Next, ReaderStep

\* A step of call c changes nothing that the others see.
LEMMA OneView ==
  ASSUME NEW c \in Call, NEW p, NEW n, Phase(c)' = p, News(c)' = n,
         \A d \in Call \ {c} : call'[d] = call[d] /\ chan'[d] = chan[d]
  PROVE  Phases' = [Phases EXCEPT ![c] = p] /\ Newses' = [Newses EXCEPT ![c] = n]
<1>1. \A d \in Call \ {c} : Phase(d)' = Phase(d) /\ News(d)' = News(d)
  BY DEF Phase, News
<1> QED
  BY <1>1 DEF Phases, Newses

LEMMA SameView ==
  ASSUME \A c \in Call : Phase(c)' = Phase(c) /\ News(c)' = News(c), sent' = sent, dead' = dead
  PROVE  UNCHANGED Promise!vars
BY DEF Promise!vars

LEMMA ReturnView ==
  ASSUME IInv, NEW c \in Call, ~dead, dead' = dead, sent' = sent, Returns(c),
         call[c].pc \notin {"idle", "lock", "done"},
         \A d \in Call \ {c} : chan'[d] = chan[d]
  PROVE  [Promise!Next]_(Promise!vars)
<1>1. call'[c].pc = "done" /\ \A d \in Call \ {c} : call'[d] = call[d]
  BY Types, ReturnsType
<1>2. Phase(c)' = "over" /\ News(c)' = "none"
  BY <1>1 DEF Phase, News
<1>3. Phases' = [Phases EXCEPT ![c] = "over"] /\ Newses' = [Newses EXCEPT ![c] = "none"]
  BY <1>1, <1>2, OneView
<1>4. Phases[c] \in {"first", "second"}
  BY DEF Phases, Phase
<1>5. Promise!Return(c)
  BY <1>3, <1>4 DEF Promise!Return, Promise!Turn, Phases, Newses
<1> QED
  BY <1>5 DEF Promise!Next

\* The call goes on within its phase, with its channels as they are.
LEMMA MoveView ==
  ASSUME NEW c \in Call, dead' = dead, sent' = sent, chan' = chan,
         \A d \in Call \ {c} : call'[d] = call[d], Phase(c)' = Phase(c)
  PROVE  [Promise!Next]_(Promise!vars)
<1>1. \A d \in Call : Phase(d)' = Phase(d)
  BY DEF Phase
<1>2. \A d \in Call : News(d)' = News(d)
  BY <1>1 DEF News
<1> QED
  BY <1>1, <1>2, SameView

LEMMA AskView ==
  ASSUME IInv, NEW c \in Call, ~dead, dead' = dead, sent' = sent,
         call[c].pc \in {"idle", "lock"}, WaitResponse(c, 1), Moves(c, "read")
  PROVE  [Promise!Next]_(Promise!vars)
<1>1. call'[c].pc = "read" /\ \A d \in Call \ {c} : call'[d] = call[d]
  BY Types, MovesType DEF PCs
<1>2. chan'[c][1] = "empty" /\ \A d \in Call \ {c} : chan'[d] = chan[d]
  BY Types, WaitResponseType
<1>3. Phase(c)' = "first" /\ News(c)' = "empty"
  BY <1>1, <1>2 DEF Phase, News
<1>4. Phases' = [Phases EXCEPT ![c] = "first"] /\ Newses' = [Newses EXCEPT ![c] = "empty"]
  BY <1>1, <1>2, <1>3, OneView
<1>5. Phases[c] = "idle"
  BY DEF Phases, Phase
<1>6. Promise!Ask(c)
  BY <1>4, <1>5 DEF Promise!Ask, Promise!Turn, Phases, Newses
<1> QED
  BY <1>6 DEF Promise!Next

LEMMA AgainView ==
  ASSUME IInv, NEW c \in Call, RegisterAgain(c)
  PROVE  [Promise!Next]_(Promise!vars)
<1>1. /\ ~dead /\ dead' = dead /\ sent' = sent /\ call[c].pc = "reregister"
      /\ WaitResponse(c, 2) /\ Moves(c, "rewrite")
  BY DEF RegisterAgain, At, otherThanCalls
<1>2. call'[c].pc = "rewrite" /\ \A d \in Call \ {c} : call'[d] = call[d]
  BY <1>1, Types, MovesType DEF PCs
<1>3. chan'[c][2] = "empty" /\ \A d \in Call \ {c} : chan'[d] = chan[d]
  BY <1>1, Types, WaitResponseType
<1>4. Phase(c)' = "second" /\ News(c)' = "empty"
  BY <1>2, <1>3 DEF Phase, News
<1>5. Phases' = [Phases EXCEPT ![c] = "second"] /\ Newses' = [Newses EXCEPT ![c] = "empty"]
  BY <1>2, <1>3, <1>4, OneView
<1>6. sent[c] = 1 /\ chan[c][1] = "end"
  BY <1>1 DEF IInv, CallInv, Counted
<1>7. Phases[c] = "first" /\ Newses[c] = "end"
  BY <1>1, <1>6 DEF Phases, Newses, Phase, News
<1>8. Promise!AskAgain(c)
  BY <1>1, <1>5, <1>6, <1>7 DEF Promise!AskAgain, Promise!Turn, Phases, Newses
<1> QED
  BY <1>8 DEF Promise!Next

LEMMA WriteView ==
  ASSUME IInv, NEW c \in Call, NEW k \in {1, 2}, NEW pc \in {"wait", "rewait"},
         \/ call[c].pc = "write" /\ pc = "wait"
         \/ call[c].pc = "rewrite" /\ pc = "rewait",
         ~dead, dead' = dead, WriteFrame(c, k, pc)
  PROVE  [Promise!Next]_(Promise!vars)
<1>1. CASE CancelResponse(c, k) /\ Returns(c) /\ UNCHANGED <<net, sent>>
  BY <1>1, Types, CancelResponseType, ReturnView
<1>2. CASE sent' = [sent EXCEPT ![c] = @ + 1] /\ Moves(c, pc) /\ KeepWaiters
  <2>1. call'[c].pc = pc /\ \A d \in Call \ {c} : call'[d] = call[d]
    BY <1>2, Types, MovesType DEF PCs
  <2>2. \A d \in Call : Phase(d)' = Phase(d)
    BY <2>1 DEF Phase
  <2>3. \A d \in Call : News(d)' = News(d)
    BY <1>2, <2>2 DEF News, KeepWaiters
  <2>4. Phases' = Phases /\ Newses' = Newses
    BY <2>2, <2>3 DEF Phases, Newses
  <2>5. \/ Phases[c] = "first" /\ sent[c] = 0
        \/ Phases[c] = "second" /\ sent[c] = 1
    BY DEF Phases, Phase, IInv, CallInv, Counted
  <2>6. Promise!Write(c)
    BY <1>2, <2>4, <2>5 DEF Promise!Write, Phases, Newses
  <2> QED
    BY <2>6 DEF Promise!Next
<1> QED
  BY <1>1, <1>2 DEF WriteFrame

LEMMA CallView ==
  ASSUME IInv, NEW c \in Call, Begin(c) \/ CallStep(c)
  PROVE  [Promise!Next]_(Promise!vars)
<1>0. /\ ~dead /\ dead' = dead
      /\ call \in [Call -> Rec]
  BY Types DEF Begin, CallStep, Acquire, ReadSocket, Write, Answered, Disconnected, Timeout, Await,
     RegisterAgain, WriteAgain, RetryAnswered, RetryTimeout, otherThanCalls, At
<1>1. CASE Begin(c)
  <2>1. CASE call[c].kind = "send" /\ Moves(c, "lock") /\ KeepWaiters
    <3>1. call'[c].pc = "lock" /\ \A d \in Call \ {c} : call'[d] = call[d]
      BY <1>0, <2>1, MovesType DEF PCs
    <3> QED
      BY <1>0, <1>1, <2>1, <3>1, MoveView DEF Begin, At, Phase, KeepWaiters
  <2>2. CASE Moves(c, "read") /\ WaitResponse(c, 1)
    BY <1>0, <1>1, <2>2, AskView DEF Begin, At
  <2> QED
    BY <1>1, <2>1, <2>2 DEF Begin
<1>2. CASE Acquire(c)
  BY <1>0, <1>2, AskView DEF Acquire, At
<1>3. CASE ReadSocket(c)
  <2>1. CASE socket = NoSock
    <3>1. CancelResponse(c, 1) /\ Returns(c) /\ call[c].pc = "read" /\ sent' = sent
      BY <1>3, <2>1 DEF ReadSocket, At
    <3> QED
      BY <1>0, <3>1, Types, CancelResponseType, ReturnView
  <2>2. CASE socket # NoSock
    <3>1. call' = [call EXCEPT ![c].sock = socket, ![c].pc = "write"] /\ chan' = chan /\ sent' = sent
      BY <1>3, <2>2 DEF ReadSocket, KeepWaiters
    <3>2. call'[c].pc = "write" /\ \A d \in Call \ {c} : call'[d] = call[d]
      BY <3>1, Types, GoesType DEF PCs
    <3> QED
      BY <1>0, <1>3, <3>1, <3>2, MoveView DEF ReadSocket, At, Phase
  <2> QED
    BY <2>1, <2>2
<1>4. CASE Write(c)
  BY <1>0, <1>4, WriteView DEF Write, At
<1>5. CASE Answered(c)
  BY <1>0, <1>5, ReturnView DEF Answered, At, Reads
<1>6. CASE Disconnected(c)
  <2>1. chan' = chan /\ sent' = sent /\ call[c].pc = "wait"
    BY <1>6 DEF Disconnected, Reads, At
  <2>2. CASE Returns(c)
    BY <1>0, <2>1, <2>2, ReturnView
  <2>3. CASE Moves(c, "await")
    <3>1. call'[c].pc = "await" /\ \A d \in Call \ {c} : call'[d] = call[d]
      BY <1>0, <2>3, MovesType DEF PCs
    <3> QED
      BY <1>0, <2>1, <3>1, MoveView DEF Phase
  <2> QED
    BY <1>6, <2>2, <2>3 DEF Disconnected
<1>7. CASE Timeout(c)
  <2>1. \A d \in Call \ {c} : chan'[d] = chan[d]
    <3>1. CASE CancelResponse(c, 1)
      BY <3>1, Types, CancelResponseType
    <3> QED
      BY <1>7, <3>1 DEF Timeout, KeepWaiters
  <2> QED
    BY <1>0, <1>7, <2>1, ReturnView DEF Timeout, At
<1>8. CASE Await(c)
  <2>1. chan' = chan /\ sent' = sent /\ call[c].pc = "await"
    BY <1>8 DEF Await, KeepWaiters, At
  <2>2. CASE Returns(c)
    BY <1>0, <2>1, <2>2, ReturnView
  <2>3. CASE Up(socket) /\ call' = [call EXCEPT ![c].sock = socket, ![c].pc = "reregister"]
    <3>1. call'[c].pc = "reregister" /\ \A d \in Call \ {c} : call'[d] = call[d]
      BY <2>3, Types, GoesType DEF PCs
    <3> QED
      BY <1>0, <2>1, <3>1, MoveView DEF Phase
  <2> QED
    BY <1>8, <2>2, <2>3 DEF Await
<1>9. CASE RegisterAgain(c)
  BY <1>9, AgainView
<1>10. CASE WriteAgain(c)
  BY <1>0, <1>10, WriteView DEF WriteAgain, At
<1>11. CASE RetryAnswered(c)
  BY <1>0, <1>11, ReturnView DEF RetryAnswered, At, Reads
<1>12. CASE RetryTimeout(c)
  BY <1>0, <1>12, ReturnView DEF RetryTimeout, At, KeepWaiters
<1> QED
  BY <1>1, <1>2, <1>3, <1>4, <1>5, <1>6, <1>7, <1>8, <1>9, <1>10, <1>11, <1>12 DEF CallStep

\* What the map holds is the channel of the phase of its call, or of a call that is over.
LEMMA MapView ==
  ASSUME IInv, NEW c \in Call
  PROVE  /\ waiter[c] = 1 => Phase(c) \in {"first", "over"}
         /\ waiter[c] = 2 => Phase(c) \in {"second", "over"}
         /\ waiter[c] # NoWaiter => chan[c][waiter[c]] = "empty"
         /\ waiter[c] \in {NoWaiter, 1, 2}
BY Types DEF IInv, CallInv, InMap, Phase

LEMMA ClearView ==
  ASSUME IInv, NEW node \in DisconnectNodes, ClearResponseWaiters(node),
         ~dead, dead' = dead, sent' = sent, call' = call
  PROVE  [Promise!Next]_(Promise!vars)
<1> DEFINE S == {c \in Call : waiter[c] # NoWaiter /\ Phase(c) # "over"}
<1>1. \A c \in Call : waiter[c] # NoWaiter => chan[c][waiter[c]] = "empty"
  BY MapView
<1>2. \A c \in Call, k \in {1, 2} : chan'[c][k] = IF waiter[c] = k THEN node ELSE chan[c][k]
  BY <1>1, Types, ClearType
<1>3. \A c \in Call : Phase(c)' = Phase(c)
  BY DEF Phase
<1>4. Phases' = Phases
  BY <1>3 DEF Phases
<1>5. ASSUME NEW c \in Call PROVE News(c)' = IF c \in S THEN node ELSE News(c)
  <2>1. CASE c \in S
    <3>1. \/ waiter[c] = 1 /\ Phase(c) = "first"
          \/ waiter[c] = 2 /\ Phase(c) = "second"
      BY <2>1, MapView
    <3> QED
      BY <1>2, <1>3, <2>1, <3>1 DEF News
  <2>2. CASE c \notin S
    <3>1. CASE Phase(c) = "over"
      BY <1>3, <2>2, <3>1 DEF News
    <3>2. CASE waiter[c] = NoWaiter
      <4>1. chan'[c][1] = chan[c][1] /\ chan'[c][2] = chan[c][2]
        BY <1>2, <3>2 DEF NoWaiter
      <4> QED
        BY <1>3, <2>2, <4>1 DEF News
    <3> QED
      BY <2>2, <3>1, <3>2
  <2> QED
    BY <2>1, <2>2
<1>6. ASSUME NEW c \in S PROVE Newses[c] = "empty"
  <2>1. \/ waiter[c] = 1 /\ Phase(c) = "first"
        \/ waiter[c] = 2 /\ Phase(c) = "second"
    BY MapView
  <2> QED
    BY <1>1, <2>1 DEF Newses, News, NoWaiter
<1>7. Newses' = [c \in Call |-> IF c \in S THEN node ELSE Newses[c]]
  BY <1>5 DEF Newses
<1>8. S \in SUBSET Call /\ node \in {"end", "auth"}
  BY DEF DisconnectNodes
<1> HIDE DEF S
<1>9. Promise!Tell(S, node)
  BY <1>4, <1>6, <1>7 DEF Promise!Tell, Phases, Newses
<1> QED
  BY <1>8, <1>9 DEF Promise!Next

\* A step that neither a call nor its channels notice, unless the process dies of it.
LEMMA QuietView ==
  ASSUME sent' = sent, call' = call, chan' = chan, dead' = dead \/ (~dead /\ dead' = TRUE)
  PROVE  [Promise!Next]_(Promise!vars)
<1>1. \A c \in Call : Phase(c)' = Phase(c) /\ News(c)' = News(c)
  BY DEF Phase, News
<1>2. CASE dead' = dead
  BY <1>1, <1>2, SameView
<1>3. CASE ~dead /\ dead' = TRUE
  <2>1. Phases' = Phases /\ Newses' = Newses
    BY <1>1 DEF Phases, Newses
  <2>2. Promise!Die
    BY <1>3, <2>1 DEF Promise!Die, Phases, Newses
  <2> QED
    BY <2>2 DEF Promise!Next
<1> QED
  BY <1>2, <1>3

LEMMA DeliverView ==
  ASSUME IInv, AskedBefore, NEW s \in Sock, Deliver(s)
  PROVE  [Promise!Next]_(Promise!vars)
<1>1. ~dead /\ UNCHANGED <<call, sent>>
  BY DEF Deliver
<1>2. PICK h \in hand :
        /\ h.chan # NoWaiter
        /\ \/ /\ chan[h.call][h.chan] = "empty"
              /\ chan' = [chan EXCEPT ![h.call][h.chan] = "answer"]
              /\ dead' = dead
           \/ dead' = TRUE /\ chan' = chan
  BY DEF Deliver
<1>3. CASE dead' = TRUE /\ chan' = chan
  BY <1>1, <1>3, QuietView
<1>4. CASE /\ chan[h.call][h.chan] = "empty"
           /\ chan' = [chan EXCEPT ![h.call][h.chan] = "answer"]
           /\ dead' = dead
  <2> DEFINE c == h.call
  <2>1. c \in Call /\ h.chan \in {1, 2}
    BY <1>2, Types
  <2> HIDE DEF c
  <2>2. /\ chan'[c][h.chan] = "answer"
        /\ \A j \in {1, 2} \ {h.chan} : chan'[c][j] = chan[c][j]
        /\ \A d \in Call \ {c} : chan'[d] = chan[d]
    BY <1>4, <2>1, Types, ChanType DEF Contents, c
  <2>3. \A d \in Call : Phase(d)' = Phase(d)
    BY <1>1 DEF Phase
  <2>4. CallInv(c) /\ chan[c][h.chan] = "empty"
    BY <1>4, <2>1 DEF IInv, c
  <2>5. CASE Phase(c) = "over"
    <3>1. \A d \in Call : News(d)' = News(d)
      BY <2>2, <2>3, <2>5 DEF News
    <3> QED
      BY <1>1, <1>4, <2>3, <3>1, SameView
  <2>6. CASE Phase(c) # "over"
    <3>1. \/ Phase(c) = "first" /\ h.chan = 1
          \/ Phase(c) = "second" /\ h.chan = 2
      <4>1. call[c].pc \in PCs \ {"done"}
        BY <2>1, <2>6, Types DEF Phase, Rec
      <4>2. CASE h.chan = 1
        BY <2>4, <4>1, <4>2 DEF CallInv, OnItsWay, Counted, Phase, PCs
      <4>3. CASE h.chan = 2
        BY <2>4, <4>1, <4>3 DEF CallInv, OnItsWay, Counted, Phase, PCs
      <4> QED
        BY <2>1, <4>2, <4>3
    <3>2. News(c) = "empty" /\ News(c)' = "answer"
      BY <2>1, <2>2, <2>3, <2>4, <3>1 DEF News
    <3>a. Phases' = Phases
      BY <2>3 DEF Phases
    <3>b. \A d \in Call \ {c} : News(d)' = News(d)
      BY <2>2, <2>3 DEF News
    <3>c. Newses' = [Newses EXCEPT ![c] = "answer"]
      BY <2>1, <3>2, <3>b DEF Newses
    <3>3. Newses' = [Newses EXCEPT ![c] = "answer"] /\ Phases' = Phases
      BY <3>a, <3>c
    <3>4. sent[c] > 0
      BY DEF AskedBefore, c
    <3>5. Promise!Answer(c)
      BY <1>1, <1>4, <2>1, <3>2, <3>3, <3>4 DEF Promise!Answer, Phases, Newses
    <3> QED
      BY <2>1, <3>5 DEF Promise!Next
  <2> QED
    BY <2>5, <2>6
<1> QED
  BY <1>2, <1>3, <1>4

LEMMA NextView == IInv /\ AskedBefore /\ [Next]_vars => [Promise!Next]_(Promise!vars)
<1> SUFFICES ASSUME IInv, AskedBefore, [Next]_vars PROVE [Promise!Next]_(Promise!vars)
  OBVIOUS
<1>1. CASE UNCHANGED vars
  BY <1>1, QuietView DEF vars
<1>2. CASE Disconnect
  BY <1>2, ClearView DEF Disconnect, others, DisconnectNodes
<1>3. ASSUME NEW node \in ServerNodes, HandleNode(node) PROVE [Promise!Next]_(Promise!vars)
  <2>1. CASE node = "success"
    BY <1>3, <2>1, QuietView DEF HandleNode, others, KeepWaiters
  <2>2. CASE node # "success"
    BY <1>3, <2>2, ClearView DEF HandleNode, others, DisconnectNodes
  <2> QED
    BY <2>1, <2>2
<1>4. ASSUME NEW s \in Sock, Drop(s) \/ StartTelling(s) PROVE [Promise!Next]_(Promise!vars)
  BY <1>4, QuietView DEF Drop, StartTelling, others, KeepWaiters
<1>5. ASSUME NEW s \in Sock, OnDisconnect(s) \/ Connect(s) PROVE [Promise!Next]_(Promise!vars)
  <2>1. ~dead /\ UNCHANGED <<call, sent, dead>>
    BY <1>5 DEF OnDisconnect, Connect, others
  <2>2. CASE chan' = chan
    BY <2>1, <2>2, QuietView
  <2>3. CASE ClearResponseWaiters("end")
    BY <2>1, <2>3, ClearView DEF DisconnectNodes
  <2> QED
    BY <1>5, <2>2, <2>3 DEF OnDisconnect, Connect, KeepWaiters
<1>6. ASSUME NEW s \in Sock, LookUp(s) PROVE [Promise!Next]_(Promise!vars)
  BY <1>6, QuietView DEF LookUp
<1>7. ASSUME NEW s \in Sock, Deliver(s) PROVE [Promise!Next]_(Promise!vars)
  BY <1>7, DeliverView
<1>8. ASSUME NEW s \in Sock, NEW c \in Call, TakeAnswer(s, c)
      PROVE  [Promise!Next]_(Promise!vars)
  BY <1>8, QuietView DEF TakeAnswer, KeepWaiters
<1>9. ASSUME NEW c \in Call, Begin(c) \/ CallStep(c) PROVE [Promise!Next]_(Promise!vars)
  BY <1>9, CallView
<1> QED
  BY <1>1, <1>2, <1>3, <1>4, <1>5, <1>6, <1>7, <1>8, <1>9 DEF Next, TellStep, ReaderStep

LEMMA InitView == Init => AskedBefore /\ Promise!Init
<1> SUFFICES ASSUME Init PROVE AskedBefore /\ Promise!Init
  OBVIOUS
<1>1. AskedBefore
  BY DEF Init, AskedBefore
<1>2. PICK kinds \in Mixes : call = [c \in Call |-> NewCall(kinds[c])]
  BY DEF Init
<1>3. \A c \in Call : call[c].pc = "idle"
  BY <1>2 DEF NewCall
<1>4. \A c \in Call : Phase(c) = "idle" /\ News(c) = "none"
  BY <1>3 DEF Phase, News
<1> QED
  BY <1>1, <1>4 DEF Init, Promise!Init

\* The sockets, the map of waiters and the readers of ClientRequests implement Requests: a
\* call hears one thing about each frame, an answer to none that was not written, and writes
\* a second one, the last, only after it was told that the connection has ended.
THEOREM Refinement == Spec => KeepsPromise
<1>1. Spec => []AskedBefore
  BY InitIInv, InitView, NextIInv, NextAsked, PTL DEF Spec
<1>2. Spec => [][Promise!Next]_(Promise!vars)
  BY <1>1, Invariance, NextView, PTL DEF Spec
<1>3. Init => Promise!Init
  BY InitView
<1> QED
  BY <1>2, <1>3, PTL DEF Spec, KeepsPromise, Promise!Spec
=============================================================================
