----------------------- MODULE WebsocketProducerProofs -----------------------
(***************************************************************************)
(* Proofs about WebsocketProducer, for every set of instances, connections  *)
(* and calls.                                                               *)
(*                                                                         *)
(* TypeOK, NoDeadRegistration and ReadersRegistered are inductive together, *)
(* once it is known that an unused connection has no instance. What a call  *)
(* has written is described by LoopProgress: while it holds the read lock   *)
(* the list it found is the list there is, and everything before its        *)
(* position has been served. The refinement of Broadcaster rests on both.   *)
(***************************************************************************)
EXTENDS WebsocketProducer, SequenceTheorems, TLAPS

NewBlank == \A s \in Sock : sock[s].pc = "new" => sock[s].inst = All

Served(c, s) == <<c, s>> \in got \cup torn \/ s \notin up

Progress(c) ==
  /\ call[c].pc \in {"idle", "rlock", "lookup", "client"} => call[c].next = 1
  /\ call[c].pc \in {"client", "loop", "write"} =>
       /\ owed[c] = Listed
       /\ \A j \in DOMAIN broadcast : j < call[c].next => Served(c, broadcast[j])
  /\ call[c].pc = "write" =>
       call[c].next \in DOMAIN broadcast /\ call[c].to = broadcast[call[c].next]
  /\ call[c].pc = "ok" => \A s \in owed[c] : Served(c, s)
  /\ \A s \in owed[c] : sock[s].pc # "new"

LoopProgress == \A c \in Call : Progress(c)

RegistryInv == TypeOK /\ NoDeadRegistration /\ ReadersRegistered /\ NewBlank
Inv == RegistryInv /\ LoopProgress

-----------------------------------------------------------------------------
(***************************************************************************)
(* The list of broadcast connections                                       *)
(***************************************************************************)
LEMMA BroadcastSeq ==
  ASSUME TypeOK
  PROVE  /\ broadcast \in Seq(Sock)
         /\ DOMAIN broadcast = 1 .. Len(broadcast) /\ Len(broadcast) \in Nat
         /\ \A j \in DOMAIN broadcast : broadcast[j] \in Sock
         /\ Listed \subseteq Sock
  <1>1. broadcast \in Seq(Sock)
    BY DEF TypeOK
  <1> QED
    BY <1>1 DEF Listed

\* append(p.broadcast[:i], p.broadcast[i+1:]...) closes the gap at i.
LEMMA WithoutProperties ==
  ASSUME TypeOK, NEW i \in DOMAIN broadcast
  PROVE  /\ Without(i) \in Seq(Sock)
         /\ Len(Without(i)) = Len(broadcast) - 1
         /\ \A j \in 1 .. Len(broadcast) - 1 :
              Without(i)[j] = IF j < i THEN broadcast[j] ELSE broadcast[j + 1]
  <1> DEFINE n == Len(broadcast)
             left == SubSeq(broadcast, 1, i - 1)
             right == SubSeq(broadcast, i + 1, n)
  <1>1. n \in Nat /\ i \in 1 .. n /\ \A j \in 1 .. n : broadcast[j] \in Sock
    BY BroadcastSeq
  <1> HIDE DEF n
  <1>2. /\ left \in Seq(Sock) /\ Len(left) = i - 1
        /\ \A j \in 1 .. i - 1 : left[j] = broadcast[j]
    <2>1. 1 \in Int /\ i - 1 \in Int /\ \A j \in 1 .. i - 1 : broadcast[j] \in Sock
      BY <1>1
    <2>2. /\ left \in Seq(Sock) /\ Len(left) = IF 1 <= i - 1 THEN (i - 1) - 1 + 1 ELSE 0
          /\ \A j \in 1 .. (i - 1) - 1 + 1 : left[j] = broadcast[1 + j - 1]
      BY <2>1, SubSeqProperties
    <2> QED
      BY <1>1, <2>2
  <1>3. /\ right \in Seq(Sock) /\ Len(right) = n - i
        /\ \A j \in 1 .. n - i : right[j] = broadcast[i + j]
    <2>1. i + 1 \in Int /\ n \in Int /\ \A j \in i + 1 .. n : broadcast[j] \in Sock
      BY <1>1
    <2>2. /\ right \in Seq(Sock) /\ Len(right) = IF i + 1 <= n THEN n - (i + 1) + 1 ELSE 0
          /\ \A j \in 1 .. n - (i + 1) + 1 : right[j] = broadcast[(i + 1) + j - 1]
      BY <2>1, SubSeqProperties
    <2> QED
      BY <1>1, <2>2
  <1>4. Without(i) = left \o right
    BY DEF Without, n
  <1> HIDE DEF left, right
  <1>5. /\ left \o right \in Seq(Sock)
        /\ Len(left \o right) = Len(left) + Len(right)
        /\ \A j \in 1 .. Len(left) + Len(right) :
             (left \o right)[j] = IF j <= Len(left) THEN left[j] ELSE right[j - Len(left)]
    BY <1>2, <1>3, ConcatProperties
  <1>6. ASSUME NEW j \in 1 .. n - 1
        PROVE  Without(i)[j] = IF j < i THEN broadcast[j] ELSE broadcast[j + 1]
    <2>1. CASE j < i
      BY <2>1, <1>1, <1>2, <1>3, <1>4, <1>5, <1>6
    <2>2. CASE ~(j < i)
      <3>1. j - (i - 1) \in 1 .. n - i /\ i + (j - (i - 1)) = j + 1
        BY <2>2, <1>1, <1>6
      <3>2. (left \o right)[j] = right[j - (i - 1)]
        BY <2>2, <1>1, <1>2, <1>3, <1>5, <1>6
      <3> QED
        BY <3>1, <3>2, <2>2, <1>3, <1>4
    <2> QED
      BY <2>1, <2>2
  <1> QED
    BY <1>1, <1>2, <1>3, <1>4, <1>5, <1>6 DEF n

-----------------------------------------------------------------------------
(***************************************************************************)
(* The operators that change calls                                         *)
(***************************************************************************)
LEMMA CallFields ==
  ASSUME NEW r \in CallRec, NEW pc \in CallPC, NEW i \in Instance \cup {All},
         NEW s \in Sock \cup {NoSock}, NEW n \in Nat \ {0}
  PROVE  /\ [r EXCEPT !.pc = pc] \in CallRec
         /\ [r EXCEPT !.pc = pc, !.next = n] \in CallRec
         /\ [r EXCEPT !.pc = pc, !.to = s] \in CallRec
         /\ [r EXCEPT !.inst = i, !.pc = pc] \in CallRec
         /\ [r EXCEPT !.pc = pc, !.to = s, !.next = n] \in CallRec
  BY DEF CallRec

LEMMA CallType == TypeOK => \A c \in Call : call[c] \in CallRec /\ call[c].next \in Nat \ {0}
  BY DEF TypeOK, CallRec

LEMMA Moved ==
  ASSUME TypeOK, NEW c \in Call, NEW pc \in CallPC, Move(c, pc)
  PROVE  /\ call' \in [Call -> CallRec]
         /\ \A d \in Call \ {c} : call'[d] = call[d]
         /\ call'[c].pc = pc /\ call'[c].inst = call[c].inst
         /\ call'[c].to = call[c].to /\ call'[c].next = call[c].next
  <1>1. call' = [call EXCEPT ![c] = [call[c] EXCEPT !.pc = pc]]
    BY DEF Move
  <1>2. [call[c] EXCEPT !.pc = pc] \in CallRec
    BY CallType, CallFields
  <1>3. call \in [Call -> CallRec] /\ call[c] \in CallRec
    BY DEF TypeOK
  <1>4. call' \in [Call -> CallRec] /\ \A d \in Call \ {c} : call'[d] = call[d]
    BY <1>1, <1>2, <1>3
  <1>5. call'[c] = [call[c] EXCEPT !.pc = pc]
    BY <1>1, <1>3
  <1> QED
    BY <1>3, <1>4, <1>5 DEF CallRec

LEMMA Returned ==
  ASSUME TypeOK, NEW c \in Call, NEW pc \in {"ok", "error"}, Return(c, pc)
  PROVE  /\ call' \in [Call -> CallRec]
         /\ \A d \in Call \ {c} : call'[d] = call[d]
         /\ call'[c].pc = pc /\ call'[c].inst = call[c].inst
  <1> DEFINE r == [call[c] EXCEPT !.pc = pc, !.to = NoSock, !.next = 1]
  <1>1. call' = [call EXCEPT ![c] = r]
    BY DEF Return
  <1>2. r \in CallRec
    <2>1. pc \in CallPC /\ NoSock \in Sock \cup {NoSock} /\ 1 \in Nat \ {0}
      BY DEF CallPC
    <2>2. call[c] \in CallRec
      BY CallType
    <2> HIDE DEF r
    <2>3. \A q \in CallRec : [q EXCEPT !.pc = pc, !.to = NoSock, !.next = 1] \in CallRec
      BY <2>1, CallFields
    <2> QED
      BY <2>2, <2>3 DEF r
  <1>3. call \in [Call -> CallRec] /\ call[c] \in CallRec
    BY DEF TypeOK
  <1>4. call' \in [Call -> CallRec] /\ (\A d \in Call \ {c} : call'[d] = call[d]) /\ call'[c] = r
    BY <1>1, <1>2, <1>3
  <1> QED
    BY <1>3, <1>4 DEF CallRec

LEMMA StartedWrite ==
  ASSUME TypeOK, NEW c \in Call, NEW s \in Sock, NEW pc \in CallPC, StartWrite(c, s, pc)
  PROVE  \/ /\ call' \in [Call -> CallRec]
            /\ \A d \in Call \ {c} : call'[d] = call[d]
            /\ call'[c].pc = pc /\ call'[c].inst = call[c].inst
            /\ call'[c].to = s /\ call'[c].next = call[c].next
            /\ torn \subseteq torn' /\ torn' \subseteq Call \X Sock
            /\ alive' = alive
         \/ call' = call /\ torn' = torn /\ alive' = FALSE
  <1> DEFINE r == [call[c] EXCEPT !.pc = pc, !.to = s]
  <1>1. CASE UNCHANGED alive /\ call' = [call EXCEPT ![c].pc = pc, ![c].to = s]
             /\ torn' = IF Writing(s) = {} THEN torn ELSE torn \cup ((Writing(s) \cup {c}) \X {s})
    <2>1. call' = [call EXCEPT ![c] = r]
      BY <1>1
    <2>2. r \in CallRec
      BY CallType, CallFields
    <2>3. call \in [Call -> CallRec] /\ call[c] \in CallRec
      BY DEF TypeOK
    <2>4. call' \in [Call -> CallRec] /\ (\A d \in Call \ {c} : call'[d] = call[d]) /\ call'[c] = r
      BY <2>1, <2>2, <2>3
    <2>5. Writing(s) \subseteq Call
      BY DEF Writing
    <2>6. torn \subseteq torn' /\ torn' \subseteq Call \X Sock
      BY <1>1, <2>5 DEF TypeOK
    <2> QED
      BY <1>1, <2>3, <2>4, <2>6 DEF CallRec
  <1>2. CASE alive' = FALSE /\ UNCHANGED <<call, torn>>
    BY <1>2
  <1> QED
    BY <1>1, <1>2 DEF StartWrite

LEMMA Advanced ==
  ASSUME TypeOK, NEW c \in Call, NEW n \in Nat \ {0},
         call' = [call EXCEPT ![c].pc = "loop", ![c].next = n]
  PROVE  /\ call' \in [Call -> CallRec]
         /\ \A d \in Call \ {c} : call'[d] = call[d]
         /\ call'[c].pc = "loop" /\ call'[c].inst = call[c].inst
         /\ call'[c].next = n
  <1> DEFINE r == [call[c] EXCEPT !.pc = "loop", !.next = n]
  <1>1. call' = [call EXCEPT ![c] = r]
    OBVIOUS
  <1>2. r \in CallRec
    BY CallType, CallFields DEF CallPC
  <1>3. call \in [Call -> CallRec] /\ call[c] \in CallRec
    BY DEF TypeOK
  <1>4. call' \in [Call -> CallRec] /\ (\A d \in Call \ {c} : call'[d] = call[d]) /\ call'[c] = r
    BY <1>1, <1>2, <1>3
  <1> QED
    BY <1>3, <1>4 DEF CallRec

\* Unlock lets the waiting readers in and changes nothing else of a call.
LEMMA Unlocked ==
  ASSUME TypeOK, Unlock
  PROVE  /\ pending' = NoSock
         /\ call' \in [Call -> CallRec]
         /\ \A c \in Call :
              \/ call'[c] = call[c] /\ call[c].pc # "rlock"
              \/ /\ call[c].pc = "rlock" /\ call'[c].pc = "lookup"
                 /\ call'[c].inst = call[c].inst /\ call'[c].next = call[c].next
  <1>1. pending' = NoSock
    BY DEF Unlock
  <1>2. \A c \in Call : [call[c] EXCEPT !.pc = "lookup"] \in CallRec
    BY CallType, CallFields DEF CallPC
  <1>3. call' = [c \in Call |-> IF call[c].pc = "rlock" THEN [call[c] EXCEPT !.pc = "lookup"]
                                  ELSE call[c]]
    BY DEF Unlock
  <1>4. call' \in [Call -> CallRec]
    BY <1>2, <1>3, CallType
  <1>5. ASSUME NEW c \in Call
        PROVE  \/ call'[c] = call[c] /\ call[c].pc # "rlock"
               \/ /\ call[c].pc = "rlock" /\ call'[c].pc = "lookup"
                  /\ call'[c].inst = call[c].inst /\ call'[c].next = call[c].next
    <2>1. CASE call[c].pc = "rlock"
      <3>1. call'[c] = [call[c] EXCEPT !.pc = "lookup"]
        BY <2>1, <1>3
      <3>2. call[c] \in CallRec
        BY CallType
      <3> QED
        BY <2>1, <3>1, <3>2 DEF CallRec
    <2>2. CASE call[c].pc # "rlock"
      BY <2>2, <1>3
    <2> QED
      BY <2>1, <2>2
  <1> QED
    BY <1>1, <1>4, <1>5

LEMMA SockMoved ==
  ASSUME TypeOK, NEW s \in Sock, NEW pc \in SockPC, sock' = [sock EXCEPT ![s].pc = pc]
  PROVE  /\ sock' \in [Sock -> SockRec]
         /\ \A t \in Sock \ {s} : sock'[t] = sock[t]
         /\ sock'[s].pc = pc /\ sock'[s].inst = sock[s].inst
  <1> DEFINE r == [sock[s] EXCEPT !.pc = pc]
  <1>1. sock' = [sock EXCEPT ![s] = r]
    OBVIOUS
  <1>2. sock \in [Sock -> SockRec] /\ sock[s] \in SockRec
    BY DEF TypeOK
  <1>3. r \in SockRec /\ r.pc = pc /\ r.inst = sock[s].inst
    BY <1>2 DEF SockRec
  <1> HIDE DEF r
  <1> QED
    BY <1>1, <1>2, <1>3

-----------------------------------------------------------------------------
(***************************************************************************)
(* Types                                                                   *)
(***************************************************************************)
\* What a step that leaves the registry and the peers alone has to show.
LEMMA CallsType ==
  ASSUME TypeOK, UNCHANGED <<registry, peers>>,
         call' \in [Call -> CallRec], \A c \in Call : call'[c].pc # "idle" => call'[c].inst \in Instance,
         got' \subseteq Call \X Sock, owed' \in [Call -> SUBSET Sock], torn' \subseteq Call \X Sock,
         alive' \in BOOLEAN
  PROVE  TypeOK'
  BY DEF TypeOK, registry, peers

LEMMA SockStepTypes ==
  ASSUME TypeOK, NEW s \in Sock,
         SockStep(s) \/ Drop(s) \/ Stall(s) \/ \E i \in Instance \cup {All} : ServeWs(s, i)
  PROVE  TypeOK'
  <1>1. ASSUME NEW i \in Instance \cup {All}, ServeWs(s, i) PROVE TypeOK'
    <2>1. [pc |-> "add", inst |-> i] \in SockRec
      BY DEF SockRec, SockPC
    <2>2. sock' = [sock EXCEPT ![s] = [pc |-> "add", inst |-> i]]
      BY <1>1 DEF ServeWs
    <2>3. /\ sock' \in [Sock -> SockRec] /\ sock'[s].pc = "add"
          /\ \A t \in Sock \ {s} : sock'[t] = sock[t]
      BY <2>1, <2>2 DEF TypeOK
    <2>4. pending' # NoSock => sock'[pending'].pc \in {"add", "remove"}
      BY <1>1, <2>3 DEF TypeOK, ServeWs
    <2> QED
      BY <1>1, <2>3, <2>4 DEF TypeOK, ServeWs, calls
  <1>2. CASE ReadFails(s)
    <2>1. "remove" \in SockPC /\ sock' = [sock EXCEPT ![s].pc = "remove"]
      BY <1>2 DEF ReadFails, SockPC
    <2>2. /\ sock' \in [Sock -> SockRec] /\ sock'[s].pc = "remove"
          /\ \A t \in Sock \ {s} : sock'[t] = sock[t]
      BY <2>1, SockMoved
    <2>3. pending' # NoSock => sock'[pending'].pc \in {"add", "remove"}
      BY <1>2, <2>2 DEF TypeOK, ReadFails
    <2> QED
      BY <1>2, <2>2, <2>3 DEF TypeOK, ReadFails, calls, peers
  <1>3. CASE WantsLock(s)
    BY <1>3 DEF TypeOK, WantsLock, calls, peers
  <1>4. CASE Add(s)
    <2>1. "reading" \in SockPC /\ sock' = [sock EXCEPT ![s].pc = "reading"]
      BY <1>4 DEF Add, SockPC
    <2>2. sock' \in [Sock -> SockRec]
      BY <2>1, SockMoved
    <2>3. sock[s].inst \in Instance \cup {All}
      BY DEF TypeOK, SockRec
    <2>4. broadcast' \in Seq(Sock) /\ clients' \in [Instance -> Sock \cup {NoSock}]
      <3>1. CASE sock[s].inst = All
        <4>1. broadcast' = Append(broadcast, s) /\ clients' = clients
          BY <3>1, <1>4 DEF Add
        <4> QED
          BY <4>1, AppendProperties DEF TypeOK
      <3>2. CASE sock[s].inst # All
        BY <3>2, <1>4 DEF Add, TypeOK
      <3> QED
        BY <3>1, <3>2
    <2>5. Unlock
      BY <1>4 DEF Add
    <2>6. /\ pending' = NoSock /\ call' \in [Call -> CallRec]
          /\ \A c \in Call : call'[c].pc # "idle" => call'[c].inst \in Instance
      BY <2>5, Unlocked DEF TypeOK
    <2> QED
      BY <1>4, <2>2, <2>4, <2>6 DEF TypeOK, Add, peers
  <1>5. CASE Remove(s)
    <2>1. "gone" \in SockPC /\ sock' = [sock EXCEPT ![s].pc = "gone"]
      BY <1>5 DEF Remove, SockPC
    <2>2. sock' \in [Sock -> SockRec]
      BY <2>1, SockMoved
    <2>3. broadcast' \in Seq(Sock) /\ clients' \in [Instance -> Sock \cup {NoSock}]
      <3>1. CASE sock[s].inst = All
        <4>1. clients' = clients
          BY <3>1, <1>5 DEF Remove
        <4>2. broadcast' = broadcast \/ \E i \in Place(s) : broadcast' = Without(i)
          BY <3>1, <1>5 DEF Remove
        <4> QED
          BY <4>1, <4>2, WithoutProperties DEF TypeOK, Place
      <3>2. CASE sock[s].inst # All
        BY <3>2, <1>5 DEF Remove, TypeOK
      <3> QED
        BY <3>1, <3>2
    <2>4. Unlock
      BY <1>5 DEF Remove
    <2>5. /\ pending' = NoSock /\ call' \in [Call -> CallRec]
          /\ \A c \in Call : call'[c].pc # "idle" => call'[c].inst \in Instance
      BY <2>4, Unlocked DEF TypeOK
    <2> QED
      BY <1>5, <2>2, <2>3, <2>5 DEF TypeOK, Remove, peers
  <1>6. CASE Drop(s)
    BY <1>6 DEF TypeOK, Drop, registry, calls
  <1>7. CASE Stall(s)
    BY <1>7 DEF TypeOK, Stall, registry, calls
  <1> QED
    BY <1>1, <1>2, <1>3, <1>4, <1>5, <1>6, <1>7 DEF SockStep

\* Begin, and what each step of a call does to its own record. A step that makes the
\* process panic changes nothing else.
LEMMA CallStepMoves ==
  ASSUME TypeOK, NEW c \in Call, CallStep(c) \/ \E i \in Instance : Begin(c, i)
  PROVE  /\ UNCHANGED <<registry, peers>>
         /\ call' \in [Call -> CallRec]
         /\ \A d \in Call \ {c} : call'[d] = call[d] /\ owed'[d] = owed[d]
         /\ call'[c].pc # "idle" => call'[c].inst \in Instance
         /\ got \subseteq got' /\ got' \subseteq Call \X Sock
         /\ torn \subseteq torn' /\ torn' \subseteq Call \X Sock
         /\ owed' \in [Call -> SUBSET Sock]
         /\ alive' \in BOOLEAN
  <1>1. ASSUME NEW i \in Instance, Begin(c, i)
        PROVE  /\ call' \in [Call -> CallRec]
               /\ \A d \in Call \ {c} : call'[d] = call[d]
               /\ call'[c].inst \in Instance
    <2> DEFINE pc == IF pending = NoSock THEN "lookup" ELSE "rlock"
               r == [call[c] EXCEPT !.inst = i, !.pc = pc]
    <2>1. call' = [call EXCEPT ![c] = r]
      BY <1>1 DEF Begin
    <2>2. pc \in CallPC /\ i \in Instance \cup {All}
      BY DEF CallPC
    <2> HIDE DEF pc
    <2>3. r \in CallRec
      BY <2>2, CallType, CallFields
    <2>4. call \in [Call -> CallRec] /\ call[c] \in CallRec
      BY DEF TypeOK
    <2>5. r.inst = i
      BY <2>4 DEF CallRec
    <2> HIDE DEF r
    <2> QED
      BY <2>1, <2>3, <2>4, <2>5
  <1>2. ASSUME NEW i \in Instance, Begin(c, i)
        PROVE  UNCHANGED <<registry, peers, got, owed, torn, alive>>
    BY <1>2 DEF Begin
  <1>3. ASSUME CallStep(c) PROVE call[c].inst \in Instance /\ c \in Call
    BY <1>3 DEF CallStep, Lookup, Loop, ClientFails, BroadcastFails, Written, TypeOK
  <1>4. CASE Lookup(c)
    <2>1. clients[call[c].inst] \in Sock \cup {NoSock}
      BY <1>3, <1>4 DEF CallStep, TypeOK
    <2>2. owed' \in [Call -> SUBSET Sock] /\ \A d \in Call \ {c} : owed'[d] = owed[d]
      BY <1>4, BroadcastSeq DEF Lookup, TypeOK
    <2>3. CASE clients[call[c].inst] # NoSock
      <3>1. StartWrite(c, clients[call[c].inst], "client") /\ "client" \in CallPC
        BY <2>3, <1>4 DEF Lookup, CallPC
      <3> QED
        BY <2>1, <2>2, <2>3, <3>1, <1>3, <1>4, StartedWrite DEF Lookup, TypeOK, CallStep
    <2>4. CASE clients[call[c].inst] = NoSock
      <3>1. Move(c, "loop") /\ "loop" \in CallPC
        BY <2>4, <1>4 DEF Lookup, CallPC
      <3> QED
        BY <2>2, <2>4, <3>1, <1>3, <1>4, Moved DEF Lookup, TypeOK, CallStep
    <2> QED
      BY <2>3, <2>4
  <1>5. CASE Loop(c)
    <2>1. CASE call[c].next \in DOMAIN broadcast
      <3>1. StartWrite(c, broadcast[call[c].next], "write") /\ "write" \in CallPC
        BY <2>1, <1>5 DEF Loop, CallPC
      <3>2. broadcast[call[c].next] \in Sock
        BY <2>1, BroadcastSeq
      <3> QED
        BY <3>1, <3>2, <1>3, <1>5, StartedWrite DEF Loop, TypeOK, CallStep
    <2>2. CASE call[c].next \notin DOMAIN broadcast
      <3>1. Return(c, "ok")
        BY <2>2, <1>5 DEF Loop
      <3> QED
        BY <2>2, <3>1, <1>3, <1>5, Returned DEF Loop, TypeOK, CallStep
    <2> QED
      BY <2>1, <2>2
  <1>6. CASE ClientFails(c)
    BY <1>3, <1>6, Returned DEF ClientFails, TypeOK, CallStep
  <1>7. CASE BroadcastFails(c)
    <2>1. call[c].next + 1 \in Nat \ {0}
      BY CallType
    <2>2. call' = [call EXCEPT ![c].pc = "loop", ![c].next = call[c].next + 1]
      BY <1>7 DEF BroadcastFails
    <2>3. /\ call' \in [Call -> CallRec] /\ \A d \in Call \ {c} : call'[d] = call[d]
          /\ call'[c].inst = call[c].inst
      BY <2>1, <2>2, Advanced
    <2> QED
      BY <2>3, <1>3, <1>7 DEF BroadcastFails, TypeOK, CallStep
  <1>8. CASE Written(c)
    <2> DEFINE n == IF call[c].pc = "write" THEN call[c].next + 1 ELSE call[c].next
    <2>1. n \in Nat \ {0}
      BY CallType
    <2>2. call' = [call EXCEPT ![c].pc = "loop", ![c].next = n]
      BY <1>8 DEF Written
    <2> HIDE DEF n
    <2>3. /\ call' \in [Call -> CallRec] /\ \A d \in Call \ {c} : call'[d] = call[d]
          /\ call'[c].inst = call[c].inst
      BY <2>1, <2>2, Advanced
    <2>4. got \subseteq got' /\ got' \subseteq Call \X Sock
      BY <1>8 DEF Written, TypeOK
    <2> QED
      BY <2>3, <2>4, <1>3, <1>8 DEF Written, TypeOK, CallStep
  <1> QED
    BY <1>1, <1>2, <1>4, <1>5, <1>6, <1>7, <1>8 DEF CallStep, TypeOK

LEMMA CallStepTypes ==
  ASSUME TypeOK, NEW c \in Call, CallStep(c) \/ \E i \in Instance : Begin(c, i)
  PROVE  TypeOK'
  <1>1. \A d \in Call : call'[d].pc # "idle" => call'[d].inst \in Instance
    BY CallStepMoves DEF TypeOK
  <1> QED
    BY <1>1, CallStepMoves, CallsType

LEMMA InitTypes == Init => TypeOK
  <1> SUFFICES ASSUME Init PROVE TypeOK
    OBVIOUS
  <1>1. sock \in [Sock -> SockRec]
    BY DEF Init, NewSock, SockRec, SockPC
  <1>2. call \in [Call -> CallRec] /\ \A c \in Call : call[c].pc = "idle"
    BY DEF Init, CallRec, CallPC
  <1>3. broadcast \in Seq(Sock)
    BY DEF Init
  <1> QED
    BY <1>1, <1>2, <1>3 DEF Init, TypeOK

LEMMA StutterTypes == TypeOK /\ UNCHANGED vars => TypeOK'
  BY DEF TypeOK, vars, registry, peers, calls

LEMMA NextTypes == TypeOK /\ [Next]_vars => TypeOK'
  BY SockStepTypes, CallStepTypes, StutterTypes DEF Next

\* Type correctness, and that the goroutine that is in clientsMux.Lock() is one that
\* registers or unregisters (websocket_producer.go:72-103).
THEOREM TypeCorrect == Spec => []TypeOK
  <1>1. Init => TypeOK
    BY InitTypes
  <1>2. TypeOK /\ [Next]_vars => TypeOK'
    BY NextTypes
  <1> QED
    BY <1>1, <1>2, PTL DEF Spec

-----------------------------------------------------------------------------
(***************************************************************************)
(* The registry                                                            *)
(***************************************************************************)
LEMMA InitRegistry == Init => RegistryInv
  <1> SUFFICES ASSUME Init PROVE RegistryInv
    OBVIOUS
  <1>1. \A s \in Sock : sock[s].pc = "new" /\ sock[s].inst = All
    BY DEF Init, NewSock
  <1>2. DOMAIN broadcast = {} /\ \A i \in Instance : clients[i] = NoSock
    BY DEF Init
  <1> QED
    BY <1>1, <1>2, InitTypes DEF RegistryInv, NoDeadRegistration, ReadersRegistered, NewBlank

LEMMA RegistryKept ==
  ASSUME RegistryInv, UNCHANGED <<clients, broadcast, sock>>, TypeOK'
  PROVE  RegistryInv'
  BY DEF RegistryInv, NoDeadRegistration, ReadersRegistered, NewBlank, Registered, Listed

LEMMA ServeWsRegistry ==
  ASSUME RegistryInv, NEW s \in Sock, NEW i \in Instance \cup {All}, ServeWs(s, i), TypeOK'
  PROVE  RegistryInv'
  <1>1. /\ sock[s].pc = "new" /\ sock'[s].pc = "add" /\ UNCHANGED <<clients, broadcast>>
        /\ \A t \in Sock \ {s} : sock'[t] = sock[t]
    BY DEF ServeWs, RegistryInv, TypeOK
  <1>2. NoDeadRegistration'
    <2>1. \A j \in Instance : clients[j] \in Sock \cup {NoSock}
      BY DEF RegistryInv, TypeOK
    <2>2. \A j \in DOMAIN broadcast : broadcast[j] \in Sock
      BY BroadcastSeq DEF RegistryInv
    <2> QED
      BY <1>1, <2>1, <2>2 DEF RegistryInv, NoDeadRegistration
  <1>3. ReadersRegistered'
    <2> SUFFICES ASSUME NEW t \in Sock, sock'[t].pc = "reading"
                 PROVE  \/ Registered(t)'
                        \/ sock'[t].inst # All /\ \E u \in Sock \ {t} : sock'[u].inst = sock'[t].inst
      BY DEF ReadersRegistered
    <2>1. t # s /\ sock[t].pc = "reading" /\ sock'[t] = sock[t]
      BY <1>1
    <2>2. Registered(t)' <=> Registered(t)
      BY <1>1 DEF Registered, Listed
    <2>3. ASSUME sock[t].inst # All, NEW u \in Sock \ {t}, sock[u].inst = sock[t].inst
          PROVE  sock'[u].inst = sock'[t].inst
      <3>1. u # s
        BY <2>3, <1>1 DEF RegistryInv, NewBlank
      <3> QED
        BY <2>1, <2>3, <3>1, <1>1
    <2> QED
      BY <2>1, <2>2, <2>3 DEF RegistryInv, ReadersRegistered
  <1>4. NewBlank'
    BY <1>1 DEF RegistryInv, NewBlank
  <1> QED
    BY <1>2, <1>3, <1>4 DEF RegistryInv

LEMMA ReadFailsRegistry ==
  ASSUME RegistryInv, NEW s \in Sock, ReadFails(s), TypeOK'
  PROVE  RegistryInv'
  <1>1. /\ sock[s].pc = "reading" /\ UNCHANGED <<clients, broadcast>>
        /\ sock' = [sock EXCEPT ![s].pc = "remove"] /\ "remove" \in SockPC
    BY DEF ReadFails, SockPC
  <1>2. /\ sock'[s].pc = "remove" /\ sock'[s].inst = sock[s].inst
        /\ \A t \in Sock \ {s} : sock'[t] = sock[t]
    BY <1>1, SockMoved DEF RegistryInv
  <1>3. /\ \A i \in Instance : clients[i] \in Sock \cup {NoSock}
        /\ \A j \in DOMAIN broadcast : broadcast[j] \in Sock
    BY BroadcastSeq DEF RegistryInv, TypeOK
  <1>4. NoDeadRegistration'
    BY <1>1, <1>2, <1>3 DEF RegistryInv, NoDeadRegistration
  <1>5. ReadersRegistered'
    <2>1. \A t \in Sock : Registered(t)' <=> Registered(t)
      BY <1>1 DEF Registered, Listed
    <2>2. \A t \in Sock : sock'[t].inst = sock[t].inst /\ (sock'[t].pc = "reading" => sock[t].pc = "reading")
      BY <1>2
    <2> QED
      BY <2>1, <2>2 DEF RegistryInv, ReadersRegistered
  <1>6. NewBlank'
    BY <1>2 DEF RegistryInv, NewBlank
  <1> QED
    BY <1>4, <1>5, <1>6 DEF RegistryInv

LEMMA AddRegistry ==
  ASSUME RegistryInv, NEW s \in Sock, Add(s), TypeOK'
  PROVE  RegistryInv'
  <1>1. /\ sock[s].pc = "add"
        /\ sock' = [sock EXCEPT ![s].pc = "reading"] /\ "reading" \in SockPC
    BY DEF Add, SockPC
  <1>2. /\ sock'[s].pc = "reading" /\ sock'[s].inst = sock[s].inst
        /\ \A t \in Sock \ {s} : sock'[t] = sock[t]
    BY <1>1, SockMoved DEF RegistryInv
  <1>3. /\ \A i \in Instance : clients[i] \in Sock \cup {NoSock}
        /\ \A j \in DOMAIN broadcast : broadcast[j] \in Sock
        /\ DOMAIN broadcast = 1 .. Len(broadcast) /\ Len(broadcast) \in Nat
    BY BroadcastSeq DEF RegistryInv, TypeOK
  <1>4. /\ \A i \in Instance : clients[i] # s
        /\ \A j \in DOMAIN broadcast : broadcast[j] # s
        /\ s # NoSock
    BY <1>1, <1>3, WebsocketAssumption DEF RegistryInv, NoDeadRegistration, WebsocketAssumption
  <1>5. NewBlank'
    BY <1>2 DEF RegistryInv, NewBlank
  <1>6. CASE sock[s].inst = All
    <2>1. broadcast' = Append(broadcast, s) /\ clients' = clients
      BY <1>6 DEF Add
    <2>2. /\ DOMAIN broadcast' = 1 .. Len(broadcast) + 1
          /\ \A j \in 1 .. Len(broadcast) : broadcast'[j] = broadcast[j]
          /\ broadcast'[Len(broadcast) + 1] = s
      BY <2>1, <1>3, AppendProperties DEF RegistryInv, TypeOK
    <2>3. \A i \in Instance : clients'[i] # NoSock =>
             sock'[clients'[i]].pc \in {"reading", "remove"} /\ sock'[clients'[i]].inst = i
      BY <2>1, <1>2, <1>3, <1>4 DEF RegistryInv, NoDeadRegistration
    <2>4. ASSUME NEW j \in DOMAIN broadcast'
          PROVE  /\ sock'[broadcast'[j]].pc \in {"reading", "remove"}
                 /\ sock'[broadcast'[j]].inst = All
      <3>1. CASE j = Len(broadcast) + 1
        BY <3>1, <2>2, <1>2, <1>6
      <3>2. CASE j # Len(broadcast) + 1
        <4>1. j \in DOMAIN broadcast /\ broadcast'[j] = broadcast[j]
          BY <3>2, <2>2, <2>4, <1>3
        <4> QED
          BY <4>1, <1>2, <1>3, <1>4 DEF RegistryInv, NoDeadRegistration
      <3> QED
        BY <3>1, <3>2
    <2>5. ASSUME NEW j \in DOMAIN broadcast', NEW k \in DOMAIN broadcast', broadcast'[j] = broadcast'[k]
          PROVE  j = k
      <3>1. \A m \in DOMAIN broadcast' : m # Len(broadcast) + 1 => m \in DOMAIN broadcast
        BY <2>2, <1>3
      <3>2. \A m \in DOMAIN broadcast : broadcast'[m] = broadcast[m] /\ broadcast[m] # s
        BY <2>2, <1>3, <1>4
      <3>3. CASE j \in DOMAIN broadcast /\ k \in DOMAIN broadcast
        BY <3>2, <3>3, <2>5 DEF RegistryInv, NoDeadRegistration
      <3>4. CASE j \notin DOMAIN broadcast \/ k \notin DOMAIN broadcast
        BY <3>1, <3>2, <3>4, <2>2, <2>5
      <3> QED
        BY <3>3, <3>4
    <2>6. NoDeadRegistration'
      BY <2>3, <2>4, <2>5 DEF NoDeadRegistration
    <2>7. Registered(s)'
      BY <2>2, <1>3 DEF Registered, Listed
    <2>8. ASSUME NEW t \in Sock, Registered(t) PROVE Registered(t)'
      <3>1. CASE \E i \in Instance : clients[i] = t
        BY <3>1, <2>1 DEF Registered
      <3>2. CASE t \in Listed
        <4>1. PICK j \in DOMAIN broadcast : broadcast[j] = t
          BY <3>2 DEF Listed
        <4>2. j \in DOMAIN broadcast' /\ broadcast'[j] = t
          BY <4>1, <2>2, <1>3
        <4> QED
          BY <4>2 DEF Registered, Listed
      <3> QED
        BY <2>8, <3>1, <3>2 DEF Registered
    <2>9. ReadersRegistered'
      <3>1. \A t \in Sock : sock'[t].inst = sock[t].inst /\ (t # s => sock'[t].pc = sock[t].pc)
        BY <1>2
      <3> QED
        BY <2>7, <2>8, <3>1 DEF RegistryInv, ReadersRegistered
    <2> QED
      BY <1>5, <2>6, <2>9 DEF RegistryInv
  <1>7. CASE sock[s].inst # All
    <2> DEFINE i == sock[s].inst
    <2>1. i \in Instance
      BY <1>7 DEF RegistryInv, TypeOK, SockRec
    <2>2. clients' = [clients EXCEPT ![i] = s] /\ broadcast' = broadcast
      BY <1>7 DEF Add
    <2>3. clients'[i] = s /\ \A k \in Instance \ {i} : clients'[k] = clients[k]
      BY <2>1, <2>2 DEF RegistryInv, TypeOK
    <2>4. NoDeadRegistration'
      BY <2>2, <2>3, <1>2, <1>3, <1>4 DEF RegistryInv, NoDeadRegistration
    <2>5. ReadersRegistered'
      <3> SUFFICES ASSUME NEW t \in Sock, sock'[t].pc = "reading"
                   PROVE  \/ Registered(t)'
                          \/ sock'[t].inst # All /\ \E u \in Sock \ {t} : sock'[u].inst = sock'[t].inst
        BY DEF ReadersRegistered
      <3>1. \A u \in Sock : sock'[u].inst = sock[u].inst
        BY <1>2
      <3>2. CASE t = s
        BY <3>2, <2>1, <2>3 DEF Registered
      <3>3. CASE t # s /\ t \in Listed
        BY <3>3, <2>2 DEF Registered, Listed
      <3>4. CASE t # s /\ \E k \in Instance : clients[k] = t
        <4>1. PICK k \in Instance : clients[k] = t
          BY <3>4
        <4>2. CASE k # i
          BY <4>1, <4>2, <2>3 DEF Registered
        <4>3. CASE k = i
          <5>1. t # NoSock /\ sock[t].inst = i
            BY <4>1, <4>3, WebsocketAssumption DEF RegistryInv, NoDeadRegistration, WebsocketAssumption
          <5> QED
            BY <5>1, <3>1, <3>4, <1>7
        <4> QED
          BY <4>2, <4>3
      <3>5. CASE t # s /\ ~Registered(t)
        <4>1. sock[t].pc = "reading"
          BY <3>5, <1>2
        <4>2. sock[t].inst # All /\ \E u \in Sock \ {t} : sock[u].inst = sock[t].inst
          BY <3>5, <4>1 DEF RegistryInv, ReadersRegistered
        <4> QED
          BY <4>2, <3>1
      <3> QED
        BY <3>2, <3>3, <3>4, <3>5 DEF Registered
    <2> QED
      BY <1>5, <2>4, <2>5 DEF RegistryInv
  <1> QED
    BY <1>6, <1>7

\* The place that is taken out of the list is the only one s has.
LEMMA RemovedFromList ==
  ASSUME RegistryInv, NEW s \in Sock, NEW i \in Place(s), broadcast' = Without(i)
  PROVE  /\ \A j \in DOMAIN broadcast' :
              \E k \in DOMAIN broadcast : broadcast'[j] = broadcast[k] /\ k # i
         /\ \A k \in DOMAIN broadcast : broadcast[k] # s =>
              \E j \in DOMAIN broadcast' : broadcast'[j] = broadcast[k]
         /\ \A j, k \in DOMAIN broadcast' : broadcast'[j] = broadcast'[k] => j = k
         /\ \A j \in DOMAIN broadcast' : broadcast'[j] # s
  <1> DEFINE n == Len(broadcast)
             old(j) == IF j < i THEN j ELSE j + 1
  <1>1. n \in Nat /\ DOMAIN broadcast = 1 .. n /\ i \in 1 .. n /\ broadcast[i] = s
    BY BroadcastSeq DEF RegistryInv, Place
  <1>2. /\ DOMAIN broadcast' = 1 .. n - 1
        /\ \A j \in 1 .. n - 1 : broadcast'[j] = broadcast[old(j)]
    <2>1. /\ Without(i) \in Seq(Sock) /\ Len(Without(i)) = n - 1
          /\ \A j \in 1 .. n - 1 : Without(i)[j] = IF j < i THEN broadcast[j] ELSE broadcast[j + 1]
      BY <1>1, WithoutProperties DEF RegistryInv
    <2>2. DOMAIN Without(i) = 1 .. n - 1
      BY <2>1
    <2> QED
      BY <2>1, <2>2
  <1>3. \A j, k \in 1 .. n : broadcast[j] = broadcast[k] => j = k
    BY <1>1 DEF RegistryInv, NoDeadRegistration
  <1> HIDE DEF n
  <1>4. \A j \in 1 .. n - 1 : old(j) \in 1 .. n /\ old(j) # i
    BY <1>1
  <1>5. \A k \in 1 .. n : k # i => \E j \in 1 .. n - 1 : old(j) = k
    <2> SUFFICES ASSUME NEW k \in 1 .. n, k # i PROVE \E j \in 1 .. n - 1 : old(j) = k
      OBVIOUS
    <2>1. CASE k < i
      <3>1. k \in 1 .. n - 1 /\ old(k) = k
        BY <2>1, <1>1
      <3> QED
        BY <3>1
    <2>2. CASE k > i
      <3>1. k - 1 \in 1 .. n - 1 /\ old(k - 1) = k
        BY <2>2, <1>1
      <3> QED
        BY <3>1
    <2> QED
      BY <2>1, <2>2, <1>1
  <1>6. \A j, k \in 1 .. n - 1 : old(j) = old(k) => j = k
    BY <1>1
  <1> HIDE DEF old
  <1>7. \A j, k \in 1 .. n - 1 : broadcast'[j] = broadcast'[k] => j = k
    BY <1>2, <1>3, <1>4, <1>6
  <1>8. \A j \in 1 .. n - 1 : broadcast'[j] # s
    BY <1>1, <1>2, <1>3, <1>4
  <1>9. \A k \in 1 .. n : broadcast[k] # s => \E j \in 1 .. n - 1 : broadcast'[j] = broadcast[k]
    BY <1>1, <1>2, <1>5
  <1> QED
    BY <1>1, <1>2, <1>4, <1>7, <1>8, <1>9

LEMMA RemoveRegistry ==
  ASSUME RegistryInv, NEW s \in Sock, Remove(s), TypeOK'
  PROVE  RegistryInv'
  <1>1. /\ sock[s].pc = "remove"
        /\ sock' = [sock EXCEPT ![s].pc = "gone"] /\ "gone" \in SockPC
    BY DEF Remove, SockPC
  <1>2. /\ sock'[s].pc = "gone" /\ sock'[s].inst = sock[s].inst
        /\ \A t \in Sock \ {s} : sock'[t] = sock[t]
    BY <1>1, SockMoved DEF RegistryInv
  <1>3. /\ \A i \in Instance : clients[i] \in Sock \cup {NoSock}
        /\ \A j \in DOMAIN broadcast : broadcast[j] \in Sock
        /\ NoSock \notin Sock
    BY BroadcastSeq, WebsocketAssumption DEF RegistryInv, TypeOK, WebsocketAssumption
  <1>4. NewBlank'
    BY <1>2 DEF RegistryInv, NewBlank
  <1>5. CASE sock[s].inst = All
    <2>1. clients' = clients
      BY <1>5 DEF Remove
    <2>2. \A i \in Instance : clients[i] # s
      BY <1>3, <1>5, WebsocketAssumption DEF RegistryInv, NoDeadRegistration, WebsocketAssumption
    <2>3. CASE Place(s) = {}
      <3>1. broadcast' = broadcast
        BY <2>3, <1>5 DEF Remove
      <3>2. \A j \in DOMAIN broadcast : broadcast[j] # s
        <4> SUFFICES ASSUME NEW j \in DOMAIN broadcast, broadcast[j] = s PROVE FALSE
          OBVIOUS
        <4>1. DOMAIN broadcast = 1 .. Len(broadcast) /\ Len(broadcast) \in Nat
          BY BroadcastSeq DEF RegistryInv
        <4>2. \A k \in DOMAIN broadcast : broadcast[j] = broadcast[k] => j = k
          BY DEF RegistryInv, NoDeadRegistration
        <4>3. j \in Place(s)
          BY <4>1, <4>2 DEF Place
        <4> QED
          BY <4>3, <2>3
      <3>3. NoDeadRegistration'
        BY <2>1, <2>2, <3>1, <3>2, <1>2, <1>3 DEF RegistryInv, NoDeadRegistration
      <3>4. \A t \in Sock : Registered(t)' <=> Registered(t)
        BY <2>1, <3>1 DEF Registered, Listed
      <3>5. ReadersRegistered'
        BY <3>4, <1>2 DEF RegistryInv, ReadersRegistered
      <3> QED
        BY <3>3, <3>5, <1>4 DEF RegistryInv
    <2>4. CASE Place(s) # {}
      <3>1. PICK i \in Place(s) : broadcast' = Without(i)
        BY <2>4, <1>5 DEF Remove
      <3>2. /\ \A j \in DOMAIN broadcast' :
                 \E k \in DOMAIN broadcast : broadcast'[j] = broadcast[k] /\ k # i
            /\ \A k \in DOMAIN broadcast : broadcast[k] # s =>
                 \E j \in DOMAIN broadcast' : broadcast'[j] = broadcast[k]
            /\ \A j, k \in DOMAIN broadcast' : broadcast'[j] = broadcast'[k] => j = k
            /\ \A j \in DOMAIN broadcast' : broadcast'[j] # s
        BY <3>1, RemovedFromList
      <3>3. \A i0 \in Instance : clients'[i0] # NoSock =>
               sock'[clients'[i0]].pc \in {"reading", "remove"} /\ sock'[clients'[i0]].inst = i0
        BY <2>1, <2>2, <1>2, <1>3 DEF RegistryInv, NoDeadRegistration
      <3>4. ASSUME NEW j \in DOMAIN broadcast'
            PROVE  /\ sock'[broadcast'[j]].pc \in {"reading", "remove"}
                   /\ sock'[broadcast'[j]].inst = All
        <4>1. PICK k \in DOMAIN broadcast : broadcast'[j] = broadcast[k]
          BY <3>2
        <4>2. broadcast[k] \in Sock \ {s}
          BY <4>1, <3>2, <1>3
        <4> QED
          BY <4>1, <4>2, <1>2 DEF RegistryInv, NoDeadRegistration
      <3>5. NoDeadRegistration'
        BY <3>2, <3>3, <3>4 DEF NoDeadRegistration
      <3>6. ASSUME NEW t \in Sock \ {s}, Registered(t) PROVE Registered(t)'
        <4>1. CASE \E k \in Instance : clients[k] = t
          BY <4>1, <2>1 DEF Registered
        <4>2. CASE t \in Listed
          <5>1. PICK k \in DOMAIN broadcast : broadcast[k] = t
            BY <4>2 DEF Listed
          <5>2. PICK j \in DOMAIN broadcast' : broadcast'[j] = t
            BY <5>1, <3>2
          <5> QED
            BY <5>2 DEF Registered, Listed
        <4> QED
          BY <3>6, <4>1, <4>2 DEF Registered
      <3>7. ReadersRegistered'
        BY <3>6, <1>2 DEF RegistryInv, ReadersRegistered
      <3> QED
        BY <3>5, <3>7, <1>4 DEF RegistryInv
    <2> QED
      BY <2>3, <2>4
  <1>6. CASE sock[s].inst # All
    <2> DEFINE i == sock[s].inst
    <2>1. i \in Instance
      BY <1>6 DEF RegistryInv, TypeOK, SockRec
    <2>2. clients' = [clients EXCEPT ![i] = NoSock] /\ broadcast' = broadcast
      BY <1>6 DEF Remove
    <2>3. clients'[i] = NoSock /\ \A k \in Instance \ {i} : clients'[k] = clients[k]
      BY <2>1, <2>2 DEF RegistryInv, TypeOK
    <2>4. \A j \in DOMAIN broadcast : broadcast[j] # s
      BY <1>6 DEF RegistryInv, NoDeadRegistration
    <2>5. \A k \in Instance \ {i} : clients[k] # s
      BY <1>3 DEF RegistryInv, NoDeadRegistration
    <2>6. NoDeadRegistration'
      BY <2>2, <2>3, <2>4, <2>5, <1>2, <1>3 DEF RegistryInv, NoDeadRegistration
    <2>7. ReadersRegistered'
      <3> SUFFICES ASSUME NEW t \in Sock, sock'[t].pc = "reading"
                   PROVE  \/ Registered(t)'
                          \/ sock'[t].inst # All /\ \E u \in Sock \ {t} : sock'[u].inst = sock'[t].inst
        BY DEF ReadersRegistered
      <3>1. t # s /\ sock[t].pc = "reading" /\ \A u \in Sock : sock'[u].inst = sock[u].inst
        BY <1>2
      <3>2. CASE t \in Listed
        BY <3>2, <2>2 DEF Registered, Listed
      <3>3. CASE \E k \in Instance : clients[k] = t
        <4>1. PICK k \in Instance : clients[k] = t
          BY <3>3
        <4>2. CASE k # i
          BY <4>1, <4>2, <2>3 DEF Registered
        <4>3. CASE k = i
          <5>1. sock[t].inst = i
            BY <4>1, <4>3, <1>3 DEF RegistryInv, NoDeadRegistration
          <5> QED
            BY <5>1, <3>1, <1>6
        <4> QED
          BY <4>2, <4>3
      <3>4. CASE ~Registered(t)
        <4>1. sock[t].inst # All /\ \E u \in Sock \ {t} : sock[u].inst = sock[t].inst
          BY <3>1, <3>4 DEF RegistryInv, ReadersRegistered
        <4> QED
          BY <4>1, <3>1
      <3> QED
        BY <3>2, <3>3, <3>4 DEF Registered
    <2> QED
      BY <2>6, <2>7, <1>4 DEF RegistryInv
  <1> QED
    BY <1>5, <1>6

LEMMA NextRegistry == RegistryInv /\ [Next]_vars => RegistryInv'
  <1> SUFFICES ASSUME RegistryInv, [Next]_vars PROVE RegistryInv'
    OBVIOUS
  <1>1. TypeOK'
    BY NextTypes DEF RegistryInv
  <1>2. ASSUME NEW s \in Sock, NEW i \in Instance \cup {All}, ServeWs(s, i) PROVE RegistryInv'
    BY <1>1, <1>2, ServeWsRegistry
  <1>3. ASSUME NEW s \in Sock, SockStep(s) PROVE RegistryInv'
    <2>1. CASE ReadFails(s)
      BY <2>1, <1>1, ReadFailsRegistry
    <2>2. CASE WantsLock(s)
      BY <2>2, <1>1, RegistryKept DEF WantsLock
    <2>3. CASE Add(s)
      BY <2>3, <1>1, AddRegistry
    <2>4. CASE Remove(s)
      BY <2>4, <1>1, RemoveRegistry
    <2> QED
      BY <1>3, <2>1, <2>2, <2>3, <2>4 DEF SockStep
  <1>4. ASSUME NEW s \in Sock, Drop(s) \/ Stall(s) PROVE RegistryInv'
    BY <1>1, <1>4, RegistryKept DEF Drop, Stall, registry
  <1>5. ASSUME NEW c \in Call, CallStep(c) \/ \E i \in Instance : Begin(c, i) PROVE RegistryInv'
    <2>1. UNCHANGED <<clients, broadcast, sock>>
      BY <1>5, CallStepMoves DEF RegistryInv, registry
    <2> QED
      BY <2>1, <1>1, RegistryKept
  <1>6. CASE UNCHANGED vars
    BY <1>6, <1>1, RegistryKept DEF vars, registry
  <1> QED
    BY <1>2, <1>3, <1>4, <1>5, <1>6 DEF Next

LEMMA RegistryAlways == Spec => []RegistryInv
  BY InitRegistry, NextRegistry, PTL DEF Spec

\* The registry leaks no connection: whatever it holds has a reader that will remove it,
\* under its own instanceId and once (ServeWs, websocket_producer.go:39-70).
THEOREM NoLeak == Spec => []NoDeadRegistration
  <1>1. RegistryInv => NoDeadRegistration
    BY DEF RegistryInv
  <1> QED
    BY <1>1, RegistryAlways, PTL

\* A connection that is read is registered, unless another connection of the same
\* instance replaced it or took its place in the map away (RemoveClient, line 91).
THEOREM ReadersServed == Spec => []ReadersRegistered
  <1>1. RegistryInv => ReadersRegistered
    BY DEF RegistryInv
  <1> QED
    BY <1>1, RegistryAlways, PTL

-----------------------------------------------------------------------------
(***************************************************************************)
(* The loop over the broadcast connections                                 *)
(***************************************************************************)
LEMMA InitProgress == Init => LoopProgress
  BY DEF Init, LoopProgress, Progress

\* A listed connection is in use.
LEMMA ListedInUse == RegistryInv => \A j \in DOMAIN broadcast : sock[broadcast[j]].pc # "new"
  BY DEF RegistryInv, NoDeadRegistration

\* What a call has achieved survives every step that leaves its record and the list alone.
LEMMA ProgressKept ==
  ASSUME Inv, NEW c \in Call, call'[c] = call[c], owed'[c] = owed[c],
         broadcast' = broadcast \/ call[c].pc \in {"idle", "rlock", "ok", "error"},
         got \subseteq got', torn \subseteq torn',
         \A s \in Sock : sock[s].pc # "new" => sock'[s].pc # "new" /\ (s \in up' => s \in up)
  PROVE  Progress(c)'
  <1>1. Progress(c)
    BY DEF Inv, LoopProgress
  <1>2. owed[c] \subseteq Sock
    BY DEF Inv, RegistryInv, TypeOK
  <1>3. \A s \in Sock : sock[s].pc # "new" /\ Served(c, s) => Served(c, s)'
    BY DEF Served
  <1>4. \A j \in DOMAIN broadcast : broadcast[j] \in Sock /\ sock[broadcast[j]].pc # "new"
    BY BroadcastSeq, ListedInUse DEF Inv, RegistryInv
  <1>5. \A s \in owed'[c] : sock'[s].pc # "new"
    BY <1>1, <1>2 DEF Progress
  <1>6. call'[c].pc = "ok" => \A s \in owed'[c] : Served(c, s)'
    BY <1>1, <1>2, <1>3 DEF Progress
  <1>7. CASE call[c].pc \in {"idle", "rlock", "ok", "error"}
    BY <1>1, <1>5, <1>6, <1>7 DEF Progress
  <1>8. CASE broadcast' = broadcast
    <2>1. Listed' = Listed
      BY <1>8 DEF Listed
    <2>2. ASSUME call[c].pc \in {"client", "loop", "write"},
                 NEW j \in DOMAIN broadcast, j < call[c].next
          PROVE  Served(c, broadcast[j])'
      <3>1. Served(c, broadcast[j])
        BY <2>2, <1>1 DEF Progress
      <3>2. Served(c, broadcast[j]) => <<c, broadcast[j]>> \in got' \cup torn' \/ broadcast[j] \notin up'
        BY <1>4 DEF Served
      <3> QED
        BY <3>1, <3>2, <1>8 DEF Served
    <2> QED
      BY <1>1, <1>5, <1>6, <1>8, <2>1, <2>2 DEF Progress
  <1> QED
    BY <1>7, <1>8

LEMMA SockStepProgress ==
  ASSUME Inv, NEW s \in Sock,
         SockStep(s) \/ Drop(s) \/ Stall(s) \/ \E i \in Instance \cup {All} : ServeWs(s, i)
  PROVE  LoopProgress'
  <1>1. ASSUME NEW i \in Instance \cup {All}, ServeWs(s, i) PROVE LoopProgress'
    <2>1. \A t \in Sock : sock[t].pc # "new" => t # s
      BY <1>1 DEF ServeWs
    <2>2. \A t \in Sock \ {s} : sock'[t] = sock[t] /\ (t \in up' => t \in up)
      BY <1>1 DEF ServeWs, Inv, RegistryInv, TypeOK
    <2>3. UNCHANGED <<broadcast, call, owed, got, torn>>
      BY <1>1 DEF ServeWs, calls
    <2> QED
      BY <2>1, <2>2, <2>3, ProgressKept DEF LoopProgress
  <1>2. CASE ReadFails(s)
    <2>1. sock' = [sock EXCEPT ![s].pc = "remove"] /\ "remove" \in SockPC
      BY <1>2 DEF ReadFails, SockPC
    <2>2. \A t \in Sock : sock[t].pc # "new" => sock'[t].pc # "new"
      BY <2>1, SockMoved DEF Inv, RegistryInv
    <2>3. UNCHANGED <<broadcast, call, owed, got, torn, up>>
      BY <1>2 DEF ReadFails, calls, peers
    <2> QED
      BY <2>2, <2>3, ProgressKept DEF LoopProgress
  <1>3. CASE WantsLock(s)
    <2>1. UNCHANGED <<broadcast, sock, call, owed, got, torn, up>>
      BY <1>3 DEF WantsLock, calls, peers
    <2> QED
      BY <2>1, ProgressKept DEF LoopProgress
  <1>4. ASSUME NEW pc \in {"reading", "gone"}, sock' = [sock EXCEPT ![s].pc = pc],
               Unlock, Locks(s), UNCHANGED <<peers, got, owed, torn>>
        PROVE  LoopProgress'
    <2>1. pc \in SockPC
      BY DEF SockPC
    <2>2. \A t \in Sock : sock[t].pc # "new" => sock'[t].pc # "new"
      BY <2>1, <1>4, SockMoved DEF Inv, RegistryInv
    <2> SUFFICES ASSUME NEW c \in Call PROVE Progress(c)'
      BY DEF LoopProgress
    <2>3. call[c].pc \notin {"lookup", "client", "loop", "write"}
      BY <1>4 DEF Locks, HoldsRead
    <2>4. \/ call'[c] = call[c] /\ call[c].pc # "rlock"
          \/ /\ call[c].pc = "rlock" /\ call'[c].pc = "lookup"
             /\ call'[c].inst = call[c].inst /\ call'[c].next = call[c].next
      BY <1>4, Unlocked DEF Inv, RegistryInv
    <2>5. CASE call'[c] = call[c]
      <3>1. call[c].pc \in {"idle", "rlock", "ok", "error"}
        BY <2>3 DEF Inv, RegistryInv, TypeOK, CallRec, CallPC
      <3> QED
        BY <2>2, <2>5, <3>1, <1>4, ProgressKept DEF peers
    <2>6. CASE call[c].pc = "rlock" /\ call'[c].pc = "lookup" /\ call'[c].next = call[c].next
      <3>1. Progress(c) /\ owed[c] \subseteq Sock
        BY DEF Inv, LoopProgress, RegistryInv, TypeOK
      <3>2. call'[c].next = 1 /\ \A t \in owed'[c] : sock'[t].pc # "new"
        BY <3>1, <2>2, <2>6, <1>4 DEF Progress
      <3> QED
        BY <3>2, <2>6 DEF Progress
    <2> QED
      BY <2>4, <2>5, <2>6
  <1>5. CASE Add(s)
    BY <1>4, <1>5 DEF Add
  <1>6. CASE Remove(s)
    BY <1>4, <1>6 DEF Remove
  <1>7. CASE Drop(s) \/ Stall(s)
    <2>1. UNCHANGED <<broadcast, sock, call, owed, got, torn>> /\ up' \subseteq up
      BY <1>7 DEF Drop, Stall, registry, calls
    <2> QED
      BY <2>1, ProgressKept DEF LoopProgress
  <1> QED
    BY <1>1, <1>2, <1>3, <1>5, <1>6, <1>7 DEF SockStep

\* What a step of the call itself has to establish; the registry does not move.
ServedAfter(c, s) == <<c, s>> \in got' \cup torn' \/ s \notin up'

LEMMA ProgressAfter ==
  ASSUME NEW c \in Call, UNCHANGED <<broadcast, sock, up>>,
         call'[c].pc \in {"idle", "rlock", "lookup", "client"} => call'[c].next = 1,
         call'[c].pc \in {"client", "loop", "write"} => owed'[c] = Listed,
         call'[c].pc \in {"client", "loop", "write"} =>
           \A j \in DOMAIN broadcast : j < call'[c].next => ServedAfter(c, broadcast[j]),
         call'[c].pc = "write" =>
           call'[c].next \in DOMAIN broadcast /\ call'[c].to = broadcast[call'[c].next],
         call'[c].pc = "ok" => \A s \in owed'[c] : ServedAfter(c, s),
         \A s \in owed'[c] : sock[s].pc # "new"
  PROVE  Progress(c)'
  <1>1. Listed' = Listed
    BY DEF Listed
  <1>2. call'[c].pc \in {"client", "loop", "write"} =>
          \A j \in DOMAIN broadcast' : j < call'[c].next => Served(c, broadcast[j])'
    BY DEF Served, ServedAfter
  <1>3. call'[c].pc = "ok" => \A s \in owed'[c] : Served(c, s)'
    BY DEF Served, ServedAfter
  <1>4. call'[c].pc = "write" =>
          call'[c].next \in DOMAIN broadcast' /\ call'[c].to = broadcast'[call'[c].next]
    OBVIOUS
  <1>5. \A s \in owed'[c] : sock'[s].pc # "new"
    OBVIOUS
  <1> QED
    BY <1>1, <1>2, <1>3, <1>4, <1>5 DEF Progress

LEMMA CallFacts ==
  ASSUME Inv, NEW c \in Call, CallStep(c) \/ \E i \in Instance : Begin(c, i)
  PROVE  /\ TypeOK /\ call[c] \in CallRec /\ call[c].next \in Nat \ {0}
         /\ UNCHANGED <<broadcast, sock, up>>
         /\ DOMAIN broadcast = 1 .. Len(broadcast) /\ Len(broadcast) \in Nat
         /\ \A j \in DOMAIN broadcast : broadcast[j] \in Sock
         /\ \A s \in Listed : sock[s].pc # "new"
         /\ \A s \in owed[c] : sock[s].pc # "new"
         /\ call[c].pc \in {"idle", "rlock", "lookup", "client"} => call[c].next = 1
         /\ call[c].pc \in {"client", "loop", "write"} => owed[c] = Listed
         /\ call[c].pc \in {"client", "loop", "write"} =>
              \A j \in DOMAIN broadcast : j < call[c].next => ServedAfter(c, broadcast[j])
         /\ call[c].pc = "write" =>
              call[c].next \in DOMAIN broadcast /\ call[c].to = broadcast[call[c].next]
  <1>1. TypeOK /\ RegistryInv /\ Progress(c)
    BY DEF Inv, RegistryInv, LoopProgress
  <1>2. call[c] \in CallRec /\ call[c].next \in Nat \ {0}
    BY <1>1, CallType
  <1>3. UNCHANGED <<broadcast, sock, up>> /\ got \subseteq got' /\ torn \subseteq torn'
    BY <1>1, CallStepMoves DEF registry, peers
  <1>4. /\ DOMAIN broadcast = 1 .. Len(broadcast) /\ Len(broadcast) \in Nat
        /\ \A j \in DOMAIN broadcast : broadcast[j] \in Sock
    BY <1>1, BroadcastSeq
  <1>5. \A s \in Listed : sock[s].pc # "new"
    BY <1>1, ListedInUse DEF Listed
  <1>6. \A s \in Sock : Served(c, s) => ServedAfter(c, s)
    BY <1>3 DEF Served, ServedAfter
  <1>7. call[c].pc \in {"client", "loop", "write"} =>
          \A j \in DOMAIN broadcast : j < call[c].next => ServedAfter(c, broadcast[j])
    BY <1>1, <1>4, <1>6 DEF Progress
  <1> QED
    BY <1>1, <1>2, <1>3, <1>4, <1>5, <1>7 DEF Progress

LEMMA BeginProgress ==
  ASSUME Inv, NEW c \in Call, NEW i \in Instance, Begin(c, i)
  PROVE  Progress(c)'
  <1> DEFINE pc == IF pending = NoSock THEN "lookup" ELSE "rlock"
             r == [call[c] EXCEPT !.inst = i, !.pc = pc]
  <1>1. call[c].pc = "idle" /\ call' = [call EXCEPT ![c] = r] /\ owed' = owed
    BY DEF Begin
  <1>2. call[c] \in CallRec /\ call \in [Call -> CallRec]
    BY CallFacts DEF TypeOK
  <1>3. r.pc \in {"lookup", "rlock"} /\ r.next = call[c].next
    BY <1>2 DEF CallRec
  <1> HIDE DEF r
  <1>4. call'[c] = r
    BY <1>1, <1>2
  <1>5. call'[c].pc \in {"lookup", "rlock"} /\ call'[c].next = 1
    BY <1>1, <1>3, <1>4, CallFacts
  <1> QED
    BY <1>1, <1>5, CallFacts, ProgressAfter

LEMMA LookupProgress ==
  ASSUME Inv, NEW c \in Call, Lookup(c)
  PROVE  Progress(c)'
  <1>1. CallStep(c)
    BY DEF CallStep
  <1>2. call[c].pc = "lookup" /\ call[c].next = 1
    BY <1>1, CallFacts DEF Lookup
  <1>3. owed'[c] = Listed
    BY <1>1, CallFacts DEF Lookup, TypeOK
  <1>4. \/ call'[c].pc \in {"client", "loop"} /\ call'[c].next = 1
        \/ call' = call
    <2>1. CASE clients[call[c].inst] # NoSock
      <3>1. StartWrite(c, clients[call[c].inst], "client") /\ "client" \in CallPC
        BY <2>1 DEF Lookup, CallPC
      <3>2. clients[call[c].inst] \in Sock
        BY <2>1, <1>1, <1>2, CallFacts DEF TypeOK
      <3> QED
        BY <1>1, <1>2, <3>1, <3>2, CallFacts, StartedWrite
    <2>2. CASE clients[call[c].inst] = NoSock
      <3>1. Move(c, "loop") /\ "loop" \in CallPC
        BY <2>2 DEF Lookup, CallPC
      <3> QED
        BY <1>1, <1>2, <3>1, CallFacts, Moved
    <2> QED
      BY <2>1, <2>2
  <1>5. CASE call'[c].pc \in {"client", "loop"} /\ call'[c].next = 1
    <2>1. \A j \in DOMAIN broadcast : ~(j < call'[c].next)
      BY <1>5, <1>1, CallFacts
    <2> QED
      BY <1>1, <1>3, <1>5, <2>1, CallFacts, ProgressAfter
  <1>6. CASE call' = call
    BY <1>1, <1>2, <1>3, <1>6, CallFacts, ProgressAfter
  <1> QED
    BY <1>4, <1>5, <1>6

LEMMA LoopStepProgress ==
  ASSUME Inv, NEW c \in Call, Loop(c)
  PROVE  Progress(c)'
  <1>1. CallStep(c)
    BY DEF CallStep
  <1>2. call[c].pc = "loop" /\ owed'[c] = owed[c] /\ owed[c] = Listed
    BY <1>1, CallFacts DEF Loop
  <1>3. \A j \in DOMAIN broadcast : j < call[c].next => ServedAfter(c, broadcast[j])
    BY <1>1, <1>2, CallFacts
  <1>4. CASE call[c].next \in DOMAIN broadcast
    <2>1. StartWrite(c, broadcast[call[c].next], "write") /\ "write" \in CallPC
      BY <1>4 DEF Loop, CallPC
    <2>2. broadcast[call[c].next] \in Sock /\ TypeOK
      BY <1>1, <1>4, CallFacts
    <2>3. \/ /\ call'[c].pc = "write" /\ call'[c].next = call[c].next
             /\ call'[c].to = broadcast[call[c].next]
          \/ call' = call
      BY <2>1, <2>2, StartedWrite
    <2>4. CASE /\ call'[c].pc = "write" /\ call'[c].next = call[c].next
               /\ call'[c].to = broadcast[call[c].next]
      BY <1>1, <1>2, <1>3, <1>4, <2>4, CallFacts, ProgressAfter
    <2>5. CASE call' = call
      BY <1>1, <1>2, <1>3, <2>5, CallFacts, ProgressAfter
    <2> QED
      BY <2>3, <2>4, <2>5
  <1>5. CASE call[c].next \notin DOMAIN broadcast
    <2>1. Return(c, "ok")
      BY <1>5 DEF Loop
    <2>2. call'[c].pc = "ok"
      BY <2>1, <1>1, CallFacts, Returned
    <2>3. \A j \in DOMAIN broadcast : j < call[c].next
      BY <1>1, <1>5, CallFacts
    <2>4. \A s \in Listed : ServedAfter(c, s)
      BY <1>3, <2>3 DEF Listed
    <2> QED
      BY <1>1, <1>2, <2>2, <2>4, CallFacts, ProgressAfter
  <1> QED
    BY <1>4, <1>5

LEMMA ClientFailsProgress ==
  ASSUME Inv, NEW c \in Call, ClientFails(c)
  PROVE  Progress(c)'
  <1>1. CallStep(c) /\ owed' = owed /\ Return(c, "error")
    BY DEF CallStep, ClientFails
  <1>2. call'[c].pc = "error"
    BY <1>1, CallFacts, Returned
  <1> QED
    BY <1>1, <1>2, CallFacts, ProgressAfter

\* The write at the position of the loop is over, whether it failed or not.
LEMMA NextPosition ==
  ASSUME Inv, NEW c \in Call, CallStep(c), call[c].pc = "write", owed' = owed,
         call' = [call EXCEPT ![c].pc = "loop", ![c].next = call[c].next + 1],
         ServedAfter(c, call[c].to)
  PROVE  Progress(c)'
  <1>1. call[c].next + 1 \in Nat \ {0}
    BY CallFacts
  <1>2. call'[c].pc = "loop" /\ call'[c].next = call[c].next + 1
    BY <1>1, CallFacts, Advanced
  <1>3. \A j \in DOMAIN broadcast : j < call[c].next => ServedAfter(c, broadcast[j])
    BY CallFacts
  <1>4. \A j \in DOMAIN broadcast :
          j < call[c].next + 1 => j < call[c].next \/ j = call[c].next
    BY CallFacts
  <1>5. ServedAfter(c, broadcast[call[c].next])
    BY CallFacts
  <1>6. \A j \in DOMAIN broadcast : j < call'[c].next => ServedAfter(c, broadcast[j])
    BY <1>2, <1>3, <1>4, <1>5
  <1> QED
    BY <1>2, <1>6, CallFacts, ProgressAfter

LEMMA BroadcastFailsProgress ==
  ASSUME Inv, NEW c \in Call, BroadcastFails(c)
  PROVE  Progress(c)'
  <1>1. /\ CallStep(c) /\ call[c].pc = "write" /\ owed' = owed
        /\ call' = [call EXCEPT ![c].pc = "loop", ![c].next = call[c].next + 1]
    BY DEF CallStep, BroadcastFails
  <1>2. call[c].to \notin up' \/ <<c, call[c].to>> \in torn'
    BY DEF BroadcastFails, CanFail, peers
  <1>3. ServedAfter(c, call[c].to)
    BY <1>2 DEF ServedAfter
  <1> QED
    BY <1>1, <1>3, NextPosition

LEMMA WrittenProgress ==
  ASSUME Inv, NEW c \in Call, Written(c)
  PROVE  Progress(c)'
  <1>1. CallStep(c) /\ owed' = owed /\ call[c].pc \in {"client", "write"}
    BY DEF CallStep, Written
  <1>2. CASE call[c].pc = "client"
    <2>1. call' = [call EXCEPT ![c].pc = "loop", ![c].next = call[c].next]
      BY <1>2 DEF Written
    <2>2. call'[c].pc = "loop" /\ call'[c].next = call[c].next
      BY <2>1, <1>1, CallFacts, Advanced
    <2> QED
      BY <1>1, <1>2, <2>2, CallFacts, ProgressAfter
  <1>3. CASE call[c].pc = "write"
    <2>1. call' = [call EXCEPT ![c].pc = "loop", ![c].next = call[c].next + 1]
      BY <1>3 DEF Written
    <2>2. <<c, call[c].to>> \in got' \cup torn' \/ call[c].to \notin up'
      BY DEF Written, peers
    <2>3. ServedAfter(c, call[c].to)
      BY <2>2 DEF ServedAfter
    <2> QED
      BY <1>1, <1>3, <2>1, <2>3, NextPosition
  <1> QED
    BY <1>1, <1>2, <1>3

LEMMA CallStepProgress ==
  ASSUME Inv, NEW c \in Call, CallStep(c) \/ \E i \in Instance : Begin(c, i)
  PROVE  LoopProgress'
  <1>1. TypeOK
    BY DEF Inv, RegistryInv
  <1>2. /\ UNCHANGED <<broadcast, sock, up>>
        /\ got \subseteq got' /\ torn \subseteq torn'
        /\ \A d \in Call \ {c} : call'[d] = call[d] /\ owed'[d] = owed[d]
    BY <1>1, CallStepMoves DEF registry, peers
  <1>3. \A d \in Call \ {c} : Progress(d)'
    BY <1>2, ProgressKept
  <1>4. \A d \in Call : (\E i \in Instance : Begin(d, i)) => Progress(d)'
    BY BeginProgress
  <1>5. \A d \in Call : CallStep(d) => Progress(d)'
    BY LookupProgress, LoopStepProgress, ClientFailsProgress, BroadcastFailsProgress,
       WrittenProgress DEF CallStep
  <1> QED
    BY <1>3, <1>4, <1>5 DEF LoopProgress

LEMMA NextProgress == Inv /\ [Next]_vars => LoopProgress'
  <1> SUFFICES ASSUME Inv, [Next]_vars PROVE LoopProgress'
    OBVIOUS
  <1>1. CASE UNCHANGED vars
    BY <1>1, ProgressKept DEF vars, registry, peers, calls, LoopProgress
  <1>2. CASE Next
    BY <1>2, SockStepProgress, CallStepProgress DEF Next
  <1> QED
    BY <1>1, <1>2

\* Produce skips no broadcast connection and stops at none that fails, whatever other
\* goroutines register or unregister in the meantime (websocket_producer.go:125-132):
\* they wait for the read lock, so the list under the loop does not move.
THEOREM AllBroadcastsServed == Spec => []BroadcastComplete
  <1>1. Init => Inv
    BY InitRegistry, InitProgress DEF Inv
  <1>2. Inv /\ [Next]_vars => Inv'
    BY NextRegistry, NextProgress DEF Inv
  <1>3. Inv => BroadcastComplete
    BY DEF Inv, LoopProgress, Progress, BroadcastComplete, Served
  <1> QED
    BY <1>1, <1>2, <1>3, PTL DEF Spec

-----------------------------------------------------------------------------
(***************************************************************************)
(* The producer implements Broadcaster                                     *)
(***************************************************************************)
\* A call writes to the connection its instance still has: the map stands still
\* under the read lock.
ClientTarget ==
  \A c \in Call : call[c].pc = "client" => call[c].to = clients[call[c].inst] /\ call[c].to \in Sock

RefInv == Inv /\ ClientTarget

\* What a step of Produce does to its call.
Started(c) ==
  /\ call[c].pc = "lookup"
  /\ IF clients[call[c].inst] # NoSock
       THEN call'[c].pc = "client" /\ call'[c].to = clients[call[c].inst]
       ELSE call'[c].pc = "loop"
  /\ call'[c].next = call[c].next

Rounds(c) ==
  /\ call[c].pc = "loop"
  /\ IF call[c].next \in DOMAIN broadcast
       THEN /\ call'[c].pc = "write" /\ call'[c].to = broadcast[call[c].next]
            /\ call'[c].next = call[c].next
       ELSE call'[c].pc = "ok"

Wrote(c) ==
  \/ call[c].pc = "client" /\ call'[c].pc = "loop" /\ call'[c].next = call[c].next
  \/ call[c].pc = "write" /\ call'[c].pc = "loop" /\ call'[c].next = call[c].next + 1

Failed(c) == call[c].pc = "client" /\ call'[c].pc = "error"

LEMMA CallStepEffect ==
  ASSUME Inv, NEW c \in Call, CallStep(c)
  PROVE  \/ call' = call /\ alive' = FALSE
         \/ /\ alive' = alive /\ call'[c].inst = call[c].inst
            /\ Started(c) \/ Rounds(c) \/ Wrote(c) \/ Failed(c)
  <1>1. TypeOK /\ call[c] \in CallRec /\ call[c].next \in Nat \ {0}
    BY CallFacts
  <1>2. CASE Lookup(c)
    <2>1. call[c].pc = "lookup"
      BY <1>2 DEF Lookup
    <2>2. CASE clients[call[c].inst] # NoSock
      <3>1. StartWrite(c, clients[call[c].inst], "client") /\ "client" \in CallPC
        BY <1>2, <2>2 DEF Lookup, CallPC
      <3>2. clients[call[c].inst] \in Sock
        BY <1>1, <2>1, <2>2 DEF TypeOK
      <3> QED
        BY <1>1, <2>1, <2>2, <3>1, <3>2, StartedWrite DEF Started
    <2>3. CASE clients[call[c].inst] = NoSock
      <3>1. Move(c, "loop") /\ alive' = alive /\ "loop" \in CallPC
        BY <1>2, <2>3 DEF Lookup, CallPC
      <3> QED
        BY <1>1, <2>1, <2>3, <3>1, Moved DEF Started
    <2> QED
      BY <2>2, <2>3
  <1>3. CASE Loop(c)
    <2>1. call[c].pc = "loop"
      BY <1>3 DEF Loop
    <2>2. CASE call[c].next \in DOMAIN broadcast
      <3>1. StartWrite(c, broadcast[call[c].next], "write") /\ "write" \in CallPC
        BY <1>3, <2>2 DEF Loop, CallPC
      <3>2. broadcast[call[c].next] \in Sock
        BY <2>2, CallFacts
      <3> QED
        BY <1>1, <2>1, <2>2, <3>1, <3>2, StartedWrite DEF Rounds
    <2>3. CASE call[c].next \notin DOMAIN broadcast
      <3>1. Return(c, "ok") /\ alive' = alive
        BY <1>3, <2>3 DEF Loop
      <3> QED
        BY <1>1, <2>1, <2>3, <3>1, Returned DEF Rounds
    <2> QED
      BY <2>2, <2>3
  <1>4. CASE ClientFails(c)
    BY <1>1, <1>4, Returned DEF ClientFails, Failed
  <1>5. CASE BroadcastFails(c)
    <2>1. /\ call[c].pc = "write" /\ alive' = alive /\ call[c].next + 1 \in Nat \ {0}
          /\ call' = [call EXCEPT ![c].pc = "loop", ![c].next = call[c].next + 1]
      BY <1>1, <1>5 DEF BroadcastFails
    <2> QED
      BY <1>1, <2>1, Advanced DEF Wrote
  <1>6. CASE Written(c)
    <2> DEFINE n == IF call[c].pc = "write" THEN call[c].next + 1 ELSE call[c].next
    <2>1. /\ call[c].pc \in {"client", "write"} /\ alive' = alive /\ n \in Nat \ {0}
          /\ call' = [call EXCEPT ![c].pc = "loop", ![c].next = n]
      BY <1>1, <1>6 DEF Written
    <2>2. call'[c].pc = "loop" /\ call'[c].inst = call[c].inst /\ call'[c].next = n
      BY <1>1, <2>1, Advanced
    <2> QED
      BY <2>1, <2>2 DEF Wrote
  <1> QED
    BY <1>2, <1>3, <1>4, <1>5, <1>6 DEF CallStep

\* A connection's step leaves a call in Produce alone, and while there is one it
\* leaves the registry alone too.
LEMMA SockSideStep ==
  ASSUME TypeOK, NEW s \in Sock,
         SockStep(s) \/ Drop(s) \/ Stall(s) \/ \E i \in Instance \cup {All} : ServeWs(s, i)
  PROVE  /\ alive /\ alive' = alive
         /\ \/ UNCHANGED <<clients, broadcast, call>>
            \/ /\ Add(s) \/ Remove(s)
               /\ \A c \in Call :
                    /\ ~HoldsRead(c) /\ call'[c].inst = call[c].inst
                    /\ call'[c] = call[c] \/ (call[c].pc = "rlock" /\ call'[c].pc = "lookup")
  <1>1. CASE Add(s) \/ Remove(s)
    <2>1. alive /\ alive' = alive /\ Unlock /\ \A c \in Call : ~HoldsRead(c)
      BY <1>1 DEF Add, Remove, Locks
    <2> QED
      BY <1>1, <2>1, Unlocked
  <1>2. CASE ~(Add(s) \/ Remove(s))
    BY <1>2 DEF SockStep, ServeWs, ReadFails, WantsLock, Drop, Stall, registry, calls
  <1> QED
    BY <1>1, <1>2

LEMMA NextTarget == RefInv /\ [Next]_vars => ClientTarget'
  <1> SUFFICES ASSUME RefInv, [Next]_vars, NEW d \in Call, call'[d].pc = "client"
               PROVE  call'[d].to = clients'[call'[d].inst] /\ call'[d].to \in Sock
    BY DEF ClientTarget
  <1>1. TypeOK /\ Inv /\ ClientTarget
    BY DEF RefInv, Inv, RegistryInv
  <1>2. CASE UNCHANGED vars
    BY <1>1, <1>2 DEF ClientTarget, vars, registry, calls
  <1>3. ASSUME NEW s \in Sock,
               SockStep(s) \/ Drop(s) \/ Stall(s) \/ \E i \in Instance \cup {All} : ServeWs(s, i)
        PROVE  call'[d].to = clients'[call'[d].inst] /\ call'[d].to \in Sock
    <2>1. CASE UNCHANGED <<clients, broadcast, call>>
      BY <1>1, <2>1 DEF ClientTarget
    <2>2. CASE ~UNCHANGED <<clients, broadcast, call>>
      BY <1>1, <1>3, <2>2, SockSideStep DEF HoldsRead
    <2> QED
      BY <2>1, <2>2
  <1>4. ASSUME NEW c \in Call, CallStep(c) \/ \E i \in Instance : Begin(c, i)
        PROVE  call'[d].to = clients'[call'[d].inst] /\ call'[d].to \in Sock
    <2>1. clients' = clients /\ (d # c => call'[d] = call[d])
      BY <1>1, <1>4, CallStepMoves DEF registry
    <2>2. CASE d # c \/ call' = call
      BY <1>1, <2>1, <2>2 DEF ClientTarget
    <2>3. CASE d = c /\ call' # call
      <3>1. CASE CallStep(c)
        <4>1. Started(c) /\ call'[c].inst = call[c].inst
          BY <1>1, <2>3, <3>1, CallStepEffect DEF Rounds, Wrote, Failed
        <4>2. call'[c].to = clients[call[c].inst] /\ clients[call[c].inst] # NoSock
              /\ call[c].pc = "lookup"
          BY <2>3, <4>1 DEF Started
        <4> QED
          BY <1>1, <2>1, <2>3, <4>1, <4>2 DEF TypeOK
      <3>2. ASSUME NEW i \in Instance, Begin(c, i) PROVE FALSE
        <4>1. call'[c].pc \in {"lookup", "rlock"}
          BY <1>1, <3>2 DEF Begin, TypeOK, CallRec
        <4> QED
          BY <2>3, <4>1
      <3> QED
        BY <1>4, <3>1, <3>2
    <2> QED
      BY <2>2, <2>3
  <1> QED
    BY <1>2, <1>3, <1>4 DEF Next

\* The part of the list that is left shrinks by one connection in each round.
LEMMA LeftShrinks ==
  ASSUME RegistryInv, NEW n \in Nat \ {0}
  PROVE  /\ LeftFrom(1) = Listed /\ LeftFrom(n) \subseteq Listed
         /\ n \in DOMAIN broadcast =>
              LeftFrom(n) = {broadcast[n]} \cup LeftFrom(n + 1) /\ broadcast[n] \notin LeftFrom(n + 1)
         /\ n \notin DOMAIN broadcast => LeftFrom(n) = {}
  <1>1. /\ DOMAIN broadcast = 1 .. Len(broadcast) /\ Len(broadcast) \in Nat
        /\ \A j, k \in DOMAIN broadcast : broadcast[j] = broadcast[k] => j = k
    BY BroadcastSeq DEF RegistryInv, NoDeadRegistration
  <1>2. LeftFrom(1) = Listed /\ LeftFrom(n) \subseteq Listed
    BY <1>1 DEF LeftFrom, Listed
  <1>3. ASSUME n \in DOMAIN broadcast
        PROVE  LeftFrom(n) = {broadcast[n]} \cup LeftFrom(n + 1) /\ broadcast[n] \notin LeftFrom(n + 1)
    <2>1. \A k \in DOMAIN broadcast : (k >= n <=> k = n \/ k >= n + 1) /\ (k >= n + 1 => k # n)
      BY <1>1
    <2> QED
      BY <1>1, <1>3, <2>1 DEF LeftFrom
  <1>4. ASSUME n \notin DOMAIN broadcast PROVE LeftFrom(n) = {}
    <2>1. \A k \in DOMAIN broadcast : ~(k >= n)
      BY <1>1, <1>4
    <2> QED
      BY <2>1 DEF LeftFrom
  <1> QED
    BY <1>2, <1>3, <1>4

\* No connection is both an instance's own and in the list.
LEMMA OwnUnlisted ==
  ASSUME RegistryInv, NEW i \in Instance
  PROVE  clients[i] \notin Listed
  <1>1. ASSUME NEW j \in DOMAIN broadcast, clients[i] = broadcast[j] PROVE FALSE
    <2>1. broadcast[j] \in Sock /\ clients[i] # NoSock
      BY <1>1, BroadcastSeq, WebsocketAssumption DEF RegistryInv
    <2>2. sock[clients[i]].inst = i /\ sock[broadcast[j]].inst = All
      BY <2>1 DEF RegistryInv, NoDeadRegistration
    <2> QED
      BY <1>1, <2>2, WebsocketAssumption
  <1> QED
    BY <1>1 DEF Listed

LEMMA StatusIs ==
  ASSUME NEW c \in Call
  PROVE  /\ call[c].pc \in {"rlock", "lookup"} => Status[c] = "waiting"
         /\ call[c].pc \in {"client", "loop", "write"} => Status[c] = "busy"
         /\ call[c].pc \in {"idle", "ok", "error"} => Status[c] = call[c].pc
  BY DEF Status

LEMMA TodoIs ==
  ASSUME NEW c \in Call
  PROVE  /\ call[c].pc = "client" => Todo[c] = {call[c].to} \cup LeftFrom(call[c].next)
         /\ call[c].pc = "loop" => Todo[c] = LeftFrom(call[c].next)
         /\ call[c].pc = "write" => Todo[c] = {call[c].to} \cup LeftFrom(call[c].next + 1)
         /\ call[c].pc \in {"idle", "rlock", "lookup", "ok", "error"} => Todo[c] = {}
  BY DEF Todo

Insts == [c \in Call |-> call[c].inst]

\* A step of one call changes the abstract state of that call only.
LEMMA OneCall ==
  ASSUME NEW c \in Call, \A d \in Call \ {c} : call'[d] = call[d], broadcast' = broadcast
  PROVE  /\ Status' = [Status EXCEPT ![c] = Status'[c]]
         /\ Todo' = [Todo EXCEPT ![c] = Todo'[c]]
         /\ Insts' = [Insts EXCEPT ![c] = call'[c].inst]
  <1>1. \A d \in Call \ {c} : Status'[d] = Status[d] /\ Todo'[d] = Todo[d]
    BY DEF Status, Todo, LeftFrom
  <1>2. /\ Status = [d \in Call |-> Status[d]] /\ Status' = [d \in Call |-> Status'[d]]
        /\ Todo = [d \in Call |-> Todo[d]] /\ Todo' = [d \in Call |-> Todo'[d]]
    BY DEF Status, Todo
  <1>3. Insts = [d \in Call |-> call[d].inst] /\ Insts' = [d \in Call |-> call'[d].inst]
    BY DEF Insts
  <1> QED
    BY <1>1, <1>2, <1>3

\* With no call's abstract state changed.
LEMMA SameCalls ==
  ASSUME \A d \in Call : /\ call'[d].inst = call[d].inst
                         /\ Status'[d] = Status[d] /\ Todo'[d] = Todo[d]
  PROVE  Status' = Status /\ Todo' = Todo /\ Insts' = Insts
  <1>1. /\ Status = [d \in Call |-> Status[d]] /\ Status' = [d \in Call |-> Status'[d]]
        /\ Todo = [d \in Call |-> Todo[d]] /\ Todo' = [d \in Call |-> Todo'[d]]
    BY DEF Status, Todo
  <1> QED
    BY <1>1 DEF Insts

LEMMA CallStepAbstract ==
  ASSUME RefInv, NEW c \in Call, CallStep(c), Inv'
  PROVE  [Abstract!Next]_(Abstract!vars)
  <1> DEFINE own == clients[call[c].inst]
  <1>1. /\ Inv /\ RegistryInv /\ TypeOK /\ ClientTarget
        /\ call[c].next \in Nat \ {0} /\ call[c].next + 1 \in Nat \ {0}
    BY CallFacts DEF RefInv, Inv, RegistryInv
  <1>2. alive = TRUE
    BY <1>1 DEF CallStep, Lookup, Loop, ClientFails, BroadcastFails, Written, TypeOK
  <1>3. /\ clients' = clients /\ broadcast' = broadcast /\ Listed' = Listed
        /\ \A n : LeftFrom(n)' = LeftFrom(n)
        /\ \A d \in Call \ {c} : call'[d] = call[d]
    BY <1>1, CallStepMoves DEF registry, Listed, LeftFrom
  <1>4. /\ Status' = [Status EXCEPT ![c] = Status'[c]]
        /\ Todo' = [Todo EXCEPT ![c] = Todo'[c]]
        /\ Insts' = [Insts EXCEPT ![c] = call'[c].inst]
    BY <1>3, OneCall
  <1>5. call[c].pc # "idle" /\ call[c].inst \in Instance
    BY <1>1 DEF CallStep, Lookup, Loop, ClientFails, BroadcastFails, Written, TypeOK
  <1>6. own \notin Listed /\ Insts[c] = call[c].inst
    BY <1>1, <1>5, OwnUnlisted DEF Insts
  <1>7. /\ Todo = [d \in Call |-> Todo[d]] /\ Status = [d \in Call |-> Status[d]]
        /\ Insts = [d \in Call |-> Insts[d]]
    BY DEF Todo, Status, Insts
  <1> HIDE DEF own
  <1>8. CASE call' = call /\ alive' = FALSE
    <2>1. Status' = Status /\ Todo' = Todo /\ Insts' = Insts
      BY <1>3, <1>8 DEF Status, Todo, LeftFrom, Insts
    <2> QED
      BY <1>2, <1>3, <1>8, <2>1 DEF Abstract!Next, Abstract!Die, Abstract!registry,
         Abstract!calls, Insts
  <1>9. ASSUME alive' = alive, call'[c].inst = call[c].inst,
               Started(c) \/ Rounds(c) \/ Wrote(c) \/ Failed(c)
        PROVE  [Abstract!Next]_(Abstract!vars)
    <2>1. Insts' = Insts
      BY <1>4, <1>6, <1>7, <1>9
    <2>2. /\ LeftFrom(1) = Listed /\ LeftFrom(call[c].next) \subseteq Listed
          /\ LeftFrom(call[c].next + 1) \subseteq Listed
      BY <1>1, LeftShrinks
    <2>3. /\ call[c].pc \in {"lookup", "client"} => call[c].next = 1
          /\ call[c].pc = "client" => call[c].to = own /\ own \in Sock
          /\ call[c].pc = "write" =>
               /\ call[c].next \in DOMAIN broadcast /\ call[c].to = broadcast[call[c].next]
               /\ call[c].to \in Sock
      BY <1>1, CallFacts DEF ClientTarget, own
    <2>4. CASE Started(c)
      <3>1. Status[c] = "waiting" /\ Status'[c] = "busy"
        BY <2>4, StatusIs DEF Started, Status
      <3>2. Todo'[c] = ({own} \ {NoSock}) \cup Listed
        <4>1. call'[c].next = 1
          BY <2>3, <2>4 DEF Started
        <4>2. CASE own # NoSock
          <5>1. call'[c].pc = "client" /\ call'[c].to = own
            BY <2>4, <4>2 DEF Started, own
          <5>2. Todo'[c] = {call'[c].to} \cup LeftFrom(call'[c].next)
            BY <1>3, <5>1 DEF Todo
          <5> QED
            BY <1>3, <2>2, <4>1, <4>2, <5>1, <5>2
        <4>3. CASE own = NoSock
          <5>1. call'[c].pc = "loop"
            BY <2>4, <4>3 DEF Started, own
          <5>2. Todo'[c] = LeftFrom(call'[c].next)
            BY <1>3, <5>1 DEF Todo
          <5> QED
            BY <1>3, <2>2, <4>1, <4>3, <5>2
        <4> QED
          BY <4>2, <4>3
      <3>3. Abstract!Enter(c)
        BY <1>2, <1>3, <1>4, <1>6, <1>9, <2>1, <3>1, <3>2
           DEF Abstract!Enter, Abstract!registry, Insts, own
      <3> QED
        BY <3>3 DEF Abstract!Next
    <2>5. CASE Rounds(c)
      <3>1. Status[c] = "busy" /\ Todo[c] = LeftFrom(call[c].next)
        BY <2>5, StatusIs, TodoIs DEF Rounds
      <3>2. CASE call[c].next \in DOMAIN broadcast
        <4>1. /\ call'[c].pc = "write" /\ call'[c].to = broadcast[call[c].next]
              /\ call'[c].next = call[c].next
          BY <2>5, <3>2 DEF Rounds
        <4>2. Status'[c] = "busy" /\ Todo'[c] = {call'[c].to} \cup LeftFrom(call'[c].next + 1)
          BY <1>3, <4>1 DEF Status, Todo
        <4>3. LeftFrom(call[c].next) = {broadcast[call[c].next]} \cup LeftFrom(call[c].next + 1)
          BY <1>1, <3>2, LeftShrinks
        <4>4. Status'[c] = Status[c] /\ Todo'[c] = Todo[c]
          BY <3>1, <4>1, <4>2, <4>3
        <4>5. Status' = Status /\ Todo' = Todo
          BY <1>4, <1>7, <4>4
        <4> QED
          BY <1>3, <1>9, <2>1, <4>5 DEF Abstract!vars, Abstract!registry, Abstract!calls, Insts
      <3>3. CASE call[c].next \notin DOMAIN broadcast
        <4>1. call'[c].pc = "ok"
          BY <2>5, <3>3 DEF Rounds
        <4>2. Status'[c] = "ok" /\ Todo'[c] = {}
          BY <4>1 DEF Status, Todo
        <4>3. Todo[c] = {}
          BY <1>1, <3>1, <3>3, LeftShrinks
        <4>4. Todo' = Todo
          BY <1>4, <1>7, <4>2, <4>3
        <4>5. Abstract!Finish(c)
          BY <1>2, <1>3, <1>4, <1>9, <2>1, <3>1, <4>2, <4>3, <4>4
             DEF Abstract!Finish, Abstract!registry, Insts
        <4> QED
          BY <4>5 DEF Abstract!Next
      <3> QED
        BY <3>2, <3>3
    <2>6. CASE Wrote(c)
      <3>1. Status[c] = "busy" /\ Status'[c] = "busy"
        BY <2>6, StatusIs DEF Wrote, Status
      <3>2. Status' = Status
        BY <1>4, <1>7, <3>1
      <3>3. /\ call[c].to \in Sock /\ call[c].to \in Todo[c]
            /\ own \in Todo[c] => call[c].to = own
            /\ Todo'[c] = Todo[c] \ {call[c].to}
        <4>1. Todo'[c] = LeftFrom(call'[c].next)
          BY <1>3, <2>6 DEF Wrote, Todo
        <4>2. CASE call[c].pc = "client"
          <5>1. Todo[c] = {call[c].to} \cup Listed /\ Todo'[c] = Listed
            BY <2>2, <2>3, <2>6, <4>1, <4>2, TodoIs DEF Wrote
          <5> QED
            BY <1>6, <2>3, <4>2, <5>1
        <4>3. CASE call[c].pc = "write"
          <5>1. /\ Todo[c] = {call[c].to} \cup LeftFrom(call[c].next + 1)
                /\ Todo'[c] = LeftFrom(call[c].next + 1)
            BY <2>6, <4>1, <4>3, TodoIs DEF Wrote
          <5>2. call[c].next \in DOMAIN broadcast /\ call[c].to = broadcast[call[c].next]
            BY <2>3, <4>3
          <5>3. call[c].to \notin LeftFrom(call[c].next + 1)
            BY <1>1, <5>2, LeftShrinks
          <5> QED
            BY <1>6, <2>2, <2>3, <4>3, <5>1, <5>3
        <4> QED
          BY <2>6, <4>2, <4>3 DEF Wrote
      <3>4. Abstract!Visit(c, call[c].to)
        BY <1>2, <1>3, <1>4, <1>6, <1>9, <2>1, <3>1, <3>2, <3>3
           DEF Abstract!Visit, Abstract!registry, Insts, own
      <3> QED
        BY <3>3, <3>4 DEF Abstract!Next
    <2>7. CASE Failed(c)
      <3>1. Status[c] = "busy" /\ Status'[c] = "error" /\ Todo'[c] = {}
        BY <2>7, StatusIs DEF Failed, Status, Todo
      <3>2. Todo[c] = {own} \cup Listed
        BY <2>2, <2>3, <2>7, TodoIs DEF Failed
      <3>3. Abstract!Fail(c)
        BY <1>2, <1>3, <1>4, <1>6, <1>9, <2>1, <3>1, <3>2
           DEF Abstract!Fail, Abstract!registry, Insts, own
      <3> QED
        BY <3>3 DEF Abstract!Next
    <2> QED
      BY <1>9, <2>4, <2>5, <2>6, <2>7
  <1> QED
    BY <1>1, <1>8, <1>9, CallStepEffect

LEMMA BeginAbstract ==
  ASSUME RefInv, NEW c \in Call, NEW i \in Instance, Begin(c, i)
  PROVE  [Abstract!Next]_(Abstract!vars)
  <1>1. /\ alive /\ alive' = alive /\ call[c].pc = "idle"
        /\ call'[c].pc \in {"lookup", "rlock"} /\ call'[c].inst = i
    BY DEF Begin, RefInv, Inv, RegistryInv, TypeOK, CallRec
  <1>2. /\ clients' = clients /\ broadcast' = broadcast /\ Listed' = Listed
        /\ \A d \in Call \ {c} : call'[d] = call[d]
    BY CallStepMoves DEF registry, Listed, RefInv, Inv, RegistryInv
  <1>3. /\ Status' = [Status EXCEPT ![c] = Status'[c]]
        /\ Todo' = [Todo EXCEPT ![c] = Todo'[c]]
        /\ Insts' = [Insts EXCEPT ![c] = call'[c].inst]
    BY <1>2, OneCall
  <1>4. Status[c] = "idle" /\ Status'[c] = "waiting" /\ Todo'[c] = {} /\ Todo[c] = {}
    BY <1>1 DEF Status, Todo
  <1>5. Todo = [d \in Call |-> Todo[d]]
    BY DEF Todo
  <1>6. Todo' = Todo
    BY <1>3, <1>4, <1>5
  <1>7. Abstract!Begin(c, i)
    BY <1>1, <1>2, <1>3, <1>4, <1>6 DEF Abstract!Begin, Abstract!registry, Insts
  <1> QED
    BY <1>7 DEF Abstract!Next

\* AddClient and RemoveClient change the map, their broadcast forms the list.
LEMMA RegistryChange ==
  ASSUME RegistryInv, NEW s \in Sock, Add(s) \/ Remove(s)
  PROVE  \/ clients' = clients /\ Listed' = Listed
         \/ /\ \E i \in Instance, t \in Sock \cup {NoSock} : clients' = [clients EXCEPT ![i] = t]
            /\ Listed' = Listed
         \/ clients' = clients /\ s \notin Listed /\ Listed' = Listed \cup {s}
         \/ clients' = clients /\ s \in Listed /\ Listed' = Listed \ {s}
  <1>1. TypeOK /\ NoDeadRegistration
    BY DEF RegistryInv
  <1>2. sock[s].inst \in Instance \cup {All}
    BY <1>1 DEF TypeOK, SockRec
  <1>3. CASE sock[s].inst # All
    <2>1. \E t \in Sock \cup {NoSock} : clients' = [clients EXCEPT ![sock[s].inst] = t]
      BY <1>3 DEF Add, Remove
    <2>2. broadcast' = broadcast
      BY <1>3 DEF Add, Remove
    <2> QED
      BY <1>2, <1>3, <2>1, <2>2 DEF Listed
  <1>4. CASE sock[s].inst = All /\ Add(s)
    <2>1. clients' = clients /\ broadcast' = Append(broadcast, s) /\ sock[s].pc = "add"
      BY <1>4 DEF Add
    <2>2. s \notin Listed
      BY <1>1, <2>1 DEF NoDeadRegistration, Listed
    <2>3. /\ DOMAIN broadcast = 1 .. Len(broadcast) /\ Len(broadcast) \in Nat
          /\ broadcast \in Seq(Sock)
      BY <1>1, BroadcastSeq
    <2>4. /\ DOMAIN broadcast' = 1 .. Len(broadcast) + 1
          /\ \A j \in 1 .. Len(broadcast) : broadcast'[j] = broadcast[j]
          /\ broadcast'[Len(broadcast) + 1] = s
      BY <2>1, <2>3, AppendProperties
    <2>5. DOMAIN broadcast' = DOMAIN broadcast \cup {Len(broadcast) + 1}
      BY <2>3, <2>4
    <2>6. Listed' = Listed \cup {s}
      BY <2>3, <2>4, <2>5 DEF Listed
    <2> QED
      BY <2>1, <2>2, <2>6
  <1>5. CASE sock[s].inst = All /\ Remove(s)
    <2>1. /\ clients' = clients
          /\ IF Place(s) = {} THEN UNCHANGED broadcast
               ELSE \E i \in Place(s) : broadcast' = Without(i)
      BY <1>5 DEF Remove
    <2>2. CASE Place(s) = {}
      BY <2>1, <2>2 DEF Listed
    <2>3. ASSUME NEW i \in Place(s), broadcast' = Without(i)
          PROVE  s \in Listed /\ Listed' = Listed \ {s}
      <3>1. s \in Listed
        BY DEF Place, Listed
      <3>2. \A t \in Listed' : t \in Listed /\ t # s
        BY <2>3, RemovedFromList DEF Listed
      <3>3. \A t \in Listed : t # s => t \in Listed'
        BY <2>3, RemovedFromList DEF Listed
      <3> QED
        BY <3>1, <3>2, <3>3
    <2> QED
      BY <2>1, <2>2, <2>3
  <1> QED
    BY <1>3, <1>4, <1>5

LEMMA SockStepAbstract ==
  ASSUME RefInv, NEW s \in Sock,
         SockStep(s) \/ Drop(s) \/ Stall(s) \/ \E i \in Instance \cup {All} : ServeWs(s, i)
  PROVE  [Abstract!Next]_(Abstract!vars)
  <1>1. TypeOK /\ RegistryInv
    BY DEF RefInv, Inv, RegistryInv
  <1>2. alive /\ alive' = alive
    BY <1>1, SockSideStep
  <1>3. CASE UNCHANGED <<clients, broadcast, call>>
    <2>1. Status' = Status /\ Todo' = Todo /\ Insts' = Insts /\ Listed' = Listed
      BY <1>3 DEF Status, Todo, LeftFrom, Insts, Listed
    <2> QED
      BY <1>2, <1>3, <2>1 DEF Abstract!vars, Abstract!registry, Abstract!calls, Insts
  <1>4. CASE ~UNCHANGED <<clients, broadcast, call>>
    <2>1. /\ Add(s) \/ Remove(s)
          /\ \A c \in Call :
               /\ ~HoldsRead(c) /\ call'[c].inst = call[c].inst
               /\ call'[c] = call[c] \/ (call[c].pc = "rlock" /\ call'[c].pc = "lookup")
      BY <1>1, <1>4, SockSideStep
    <2>2. ASSUME NEW c \in Call
          PROVE  Status'[c] = Status[c] /\ Todo'[c] = Todo[c] /\ Status[c] # "busy"
      <3>1. call[c].pc \in {"idle", "rlock", "ok", "error"}
        BY <1>1, <2>1 DEF HoldsRead, TypeOK, CallRec, CallPC
      <3>2. CASE call'[c] = call[c]
        BY <3>1, <3>2 DEF Status, Todo
      <3>3. CASE call[c].pc = "rlock" /\ call'[c].pc = "lookup"
        BY <3>3 DEF Status, Todo
      <3> QED
        BY <2>1, <3>2, <3>3
    <2>3. Status' = Status /\ Todo' = Todo /\ Insts' = Insts
      BY <2>1, <2>2, SameCalls
    <2>4. CASE clients' = clients /\ Listed' = Listed
      BY <1>2, <2>3, <2>4 DEF Abstract!vars, Abstract!registry, Abstract!calls, Insts
    <2>5. CASE ~(clients' = clients /\ Listed' = Listed)
      <3>1. Abstract!Change
        BY <1>1, <1>2, <2>1, <2>2, <2>3, <2>5, RegistryChange
           DEF Abstract!Change, Abstract!calls, Insts
      <3> QED
        BY <3>1 DEF Abstract!Next
    <2> QED
      BY <2>4, <2>5
  <1> QED
    BY <1>3, <1>4

\* Produce serves a registry that stands still, its instance's own connection first
\* and each listener once, and reports only the failure of the own connection
\* (websocket_producer.go:105-134), in every interleaving with connections that
\* register, replace each other and close.
THEOREM Refinement == Spec => Broadcasts
  <1>1. Init => RefInv /\ Abstract!Init
    <2>1. Init => Listed = {}
      BY DEF Init, Listed
    <2>2. Init => Abstract!Init
      BY <2>1 DEF Init, Abstract!Init, Status, Todo
    <2> QED
      BY <2>2, InitRegistry, InitProgress DEF RefInv, Inv, ClientTarget, Init
  <1>2. RefInv /\ [Next]_vars => RefInv'
    BY NextRegistry, NextProgress, NextTarget DEF RefInv, Inv
  <1>3. RefInv /\ RefInv' /\ [Next]_vars => [Abstract!Next]_(Abstract!vars)
    <2> SUFFICES ASSUME RefInv, RefInv', [Next]_vars PROVE [Abstract!Next]_(Abstract!vars)
      OBVIOUS
    <2>1. CASE UNCHANGED vars
      BY <2>1 DEF vars, registry, calls, Abstract!vars, Abstract!registry, Abstract!calls,
         Status, Todo, LeftFrom, Listed
    <2>2. CASE Next
      <3>1. Inv'
        BY DEF RefInv
      <3> QED
        BY <2>2, <3>1, CallStepAbstract, BeginAbstract, SockStepAbstract DEF Next
    <2> QED
      BY <2>1, <2>2
  <1> QED
    BY <1>1, <1>2, <1>3, PTL DEF Spec, Broadcasts, Abstract!Spec
=============================================================================
