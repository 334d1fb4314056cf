------------------------ MODULE RabbitProducerProofs ------------------------
(***************************************************************************)
(* Proofs about RabbitProducer, for every set of calls and connections and  *)
(* every number of dials, attempts and faults.                              *)
(*                                                                         *)
(* The inductive invariant adds to TypeOK what the program counter says of  *)
(* the loop counters (Counters) and of the payload (Copies): a payload is   *)
(* in at most one place, and only calls that are past their loop have one.  *)
(* For SafeWhileUp, Calm says what the connections are before any is lost,  *)
(* and for LeakNeedsOverlap NoLeak what they are while dials do not overlap.*)
(***************************************************************************)
EXTENDS RabbitProducer, TLAPS

\* The loop counters, where a call uses them, leave room for one more round.
Counters ==
  \A c \in Call :
    /\ call[c].pc = "publish" => call[c].tries < MaxRetries
    /\ call[c].pc = "prepare" => call[c].tries = 0
    /\ call[c].pc = "dial" => call[c].dials < Dials

\* A payload was handed over by calls that left the loop, once, and is then on one
\* wire or in the queue or lost.
Copies ==
  \A c \in Call :
    /\ handed[c] # 0 => handed[c] = 1 /\ call[c].pc \in {"close", "ok"}
    /\ queue[c] # 0 => queue[c] = 1 /\ handed[c] = 1
    /\ \A k \in Conn : <<c, k>> \in wire => handed[c] = 1 /\ queue[c] = 0
    /\ \A k, l \in Conn : <<c, k>> \in wire /\ <<c, l>> \in wire => k = l

Inv == TypeOK /\ Counters /\ Copies

-----------------------------------------------------------------------------
(***************************************************************************)
(* The operators the actions share                                         *)
(***************************************************************************)
\* A nil connection is no connection.
LEMMA NilIsNoConn == NoConn \notin Conn
  BY ProducerAssumption DEF ProducerAssumption, NoConn

LEMMA IdleType == IdleCall \in CallRec
  BY ProducerAssumption DEF ProducerAssumption, IdleCall, CallRec, CallPC, Modes, NoConn

\* Resume changes one call: its pc, and its channel unless it returns.
LEMMA Resumed ==
  ASSUME TypeOK, NEW c \in Call, NEW k \in Conn \cup {NoConn}, NEW pc \in CallPC, Resume(c, k, pc)
  PROVE  /\ call' \in [Call -> CallRec]
         /\ \A d \in Call : d # c => call'[d] = call[d]
         /\ call'[c].pc = pc /\ call'[c].mode = call[c].mode
         /\ call'[c].dials = 0
         /\ pc \notin {"ok", "error"} => call'[c].chan = k /\ call'[c].tries = call[c].tries
  <1>1. call[c] \in CallRec
    BY DEF TypeOK
  <1>2. CASE pc \in {"ok", "error"}
    <2>1. [IdleCall EXCEPT !.pc = pc, !.mode = call[c].mode] \in CallRec
      BY <1>1, IdleType DEF CallRec
    <2>2. call' = [call EXCEPT ![c] = [IdleCall EXCEPT !.pc = pc, !.mode = call[c].mode]]
      BY <1>2 DEF Resume
    <2> QED
      BY <2>1, <2>2, <1>2 DEF TypeOK, IdleCall
  <1>3. CASE pc \notin {"ok", "error"}
    <2>1. [call[c] EXCEPT !.pc = pc, !.chan = k, !.dials = 0] \in CallRec
      <3>1. ASSUME NEW r \in CallRec
            PROVE  [r EXCEPT !.pc = pc, !.chan = k, !.dials = 0] \in CallRec
        <4>1. 0 \in 0..Dials
          BY ProducerAssumption DEF ProducerAssumption
        <4> QED
          BY <4>1 DEF CallRec
      <3> QED
        BY <3>1, <1>1
    <2>2. call' = [call EXCEPT ![c] = [call[c] EXCEPT !.pc = pc, !.chan = k, !.dials = 0]]
      BY <1>3 DEF Resume
    <2>3. /\ [call[c] EXCEPT !.pc = pc, !.chan = k, !.dials = 0].pc = pc
          /\ [call[c] EXCEPT !.pc = pc, !.chan = k, !.dials = 0].mode = call[c].mode
          /\ [call[c] EXCEPT !.pc = pc, !.chan = k, !.dials = 0].dials = 0
          /\ [call[c] EXCEPT !.pc = pc, !.chan = k, !.dials = 0].chan = k
          /\ [call[c] EXCEPT !.pc = pc, !.chan = k, !.dials = 0].tries = call[c].tries
      BY <1>1 DEF CallRec
    <2> QED
      BY <2>1, <2>2, <2>3 DEF TypeOK
  <1> QED
    BY <1>2, <1>3

LEMMA WentTo ==
  ASSUME TypeOK, NEW c \in Call, NEW pc \in CallPC, Goto(c, pc)
  PROVE  /\ call' \in [Call -> CallRec]
         /\ \A d \in Call : d # c => call'[d] = call[d]
         /\ call'[c].pc = pc /\ call'[c].mode = call[c].mode
         /\ call'[c].dials = 0
         /\ pc \notin {"ok", "error"} => call'[c].chan = call[c].chan /\ call'[c].tries = call[c].tries
  <1>1. call[c].chan \in Conn \cup {NoConn}
    BY DEF TypeOK, CallRec
  <1> QED
    BY <1>1, Resumed DEF Goto

\* Writing fields of one call keeps the types.
LEMMA CallFields ==
  ASSUME TypeOK, NEW c \in Call
  PROVE  /\ call[c].tries \in 0..MaxRetries /\ call[c].dials \in 0..Dials
         /\ call[c].chan \in Conn \cup {NoConn}
         /\ \A v \in 0..MaxRetries : [call EXCEPT ![c].tries = v] \in [Call -> CallRec]
         /\ \A v \in 0..Dials : [call EXCEPT ![c].dials = v] \in [Call -> CallRec]
         /\ \A v \in CallPC, m \in Modes : [call EXCEPT ![c].pc = v, ![c].mode = m] \in [Call -> CallRec]
         /\ \A v \in CallPC, n \in 0..MaxRetries :
              [call EXCEPT ![c].pc = v, ![c].tries = n] \in [Call -> CallRec]
  <1>1. call \in [Call -> CallRec]
    BY DEF TypeOK
  <1>2. /\ call[c].tries \in 0..MaxRetries /\ call[c].dials \in 0..Dials
        /\ call[c].chan \in Conn \cup {NoConn}
    BY <1>1 DEF CallRec
  <1>3. \A v \in 0..MaxRetries : [call EXCEPT ![c].tries = v] \in [Call -> CallRec]
    BY <1>1 DEF CallRec
  <1>4. \A v \in 0..Dials : [call EXCEPT ![c].dials = v] \in [Call -> CallRec]
    BY <1>1 DEF CallRec
  <1>5. \A v \in CallPC, m \in Modes : [call EXCEPT ![c].pc = v, ![c].mode = m] \in [Call -> CallRec]
    BY <1>1 DEF CallRec
  <1>6. \A v \in CallPC, n \in 0..MaxRetries :
          [call EXCEPT ![c].pc = v, ![c].tries = n] \in [Call -> CallRec]
    BY <1>1 DEF CallRec
  <1> QED
    BY <1>2, <1>3, <1>4, <1>5, <1>6

\* Where a failure leads: out of Produce, or to an attempt that is still allowed.
LEMMA Failure ==
  ASSUME TypeOK, NEW c \in Call
  PROVE  /\ AfterFailure(c) \in {"publish", "error"}
         /\ NextAttempt(c, "ok") \in {"publish", "ok"}
         /\ AfterFailure(c) = "publish" => call[c].tries < MaxRetries
         /\ NextAttempt(c, "ok") = "publish" => call[c].tries < MaxRetries
  BY DEF AfterFailure, NextAttempt

-----------------------------------------------------------------------------
(***************************************************************************)
(* What a step of a call does to the calls                                 *)
(***************************************************************************)
\* The counters of call c allow what its pc allows.
CounterOf(r) ==
  /\ r.pc = "publish" => r.tries < MaxRetries
  /\ r.pc = "prepare" => r.tries = 0
  /\ r.pc = "dial" => r.dials < Dials

\* The step of a call leaves the other calls alone, keeps the types and the
\* counters, and leaves "close" only to return nil.
LEMMA CallStepEffect ==
  ASSUME Inv, NEW c \in Call, CallStep(c)
  PROVE  /\ call' \in [Call -> CallRec]
         /\ \A d \in Call : d # c => call'[d] = call[d]
         /\ CounterOf(call'[c])
         /\ call[c].pc \notin {"idle", "ok", "error"}
         /\ call'[c].pc # "idle"
         /\ call[c].pc = "close" => call'[c].pc = "ok"
         /\ call'[c].pc = "close" => call[c].pc = "publish" /\ handed' = [handed EXCEPT ![c] = @ + 1]
         /\ call'[c].pc = "ok" => call[c].pc \in {"channel", "prepare", "close"}
  <1> USE DEF Inv
  <1>a. CounterOf(call[c]) /\ call \in [Call -> CallRec]
    BY DEF Counters, CounterOf, TypeOK
  <1>b. 0 < Dials /\ 0 < MaxRetries
    BY ProducerAssumption DEF ProducerAssumption
  <1>c. CallPC = {"idle", "ensure", "dial", "channel", "prepare", "publish", "close", "ok", "error"}
    BY DEF CallPC
  <1>1. CASE Ensure(c)
    <2>1. PICK pc \in {"channel", "dial"} : Goto(c, pc)
      BY <1>1 DEF Ensure
    <2> QED
      BY <1>1, <2>1, <1>b, <1>c, WentTo DEF Ensure, At, CounterOf
  <1>2. CASE Dial(c)
    <2>1. CASE Goto(c, "channel")
      BY <1>2, <2>1, <1>b, <1>c, WentTo DEF Dial, At, CounterOf
    <2>2. CASE Goto(c, AfterFailure(c))
      BY <1>2, <2>2, <1>b, <1>c, WentTo, Failure DEF Dial, At, CounterOf
    <2>3. CASE call[c].dials + 1 < Dials /\ call' = [call EXCEPT ![c].dials = @ + 1]
      <3>1. call[c].dials + 1 \in 0..Dials
        BY <2>3, CallFields, ProducerAssumption DEF ProducerAssumption
      <3>2. call' = [call EXCEPT ![c].dials = call[c].dials + 1]
        BY <2>3
      <3>3. call' \in [Call -> CallRec]
        BY <3>1, <3>2, CallFields
      <3>4. call'[c].pc = "dial" /\ call'[c].dials < Dials
        BY <1>2, <2>3, <1>a DEF Dial, At, CallRec
      <3> QED
        BY <1>2, <2>3, <3>3, <3>4 DEF Dial, At, CounterOf
    <2> QED
      BY <1>2, <2>1, <2>2, <2>3 DEF Dial
  <1>3. CASE OpenChannel(c)
    <2>1. CASE call' = call
      BY <1>3, <2>1, <1>a DEF OpenChannel, At
    <2>2. CASE Resume(c, NoConn, AfterFailure(c))
      BY <1>3, <2>2, <1>b, <1>c, Resumed, Failure DEF OpenChannel, At, CounterOf
    <2>3. CASE conn \in open /\ Resume(c, conn, IF call[c].tries = 0 THEN "prepare" ELSE NextAttempt(c, "ok"))
      <3>1. PICK pc \in {"prepare", "publish", "ok"} :
              /\ Resume(c, conn, pc)
              /\ pc = "prepare" => call[c].tries = 0
              /\ pc = "publish" => call[c].tries < MaxRetries
        BY <2>3, Failure
      <3> QED
        BY <1>3, <2>3, <3>1, <1>b, <1>c, Resumed DEF OpenChannel, At, CounterOf, TypeOK
    <2> QED
      BY <1>3, <2>1, <2>2, <2>3 DEF OpenChannel
  <1>4. CASE Prepare(c)
    <2>1. PICK pc \in {"error", "ok", "publish"} : Goto(c, pc)
      BY <1>4 DEF Prepare
    <2> QED
      BY <1>4, <2>1, <1>a, <1>b, <1>c, WentTo DEF Prepare, At, CounterOf
  <1>5. CASE Publish(c)
    <2>1. CASE call' = call
      BY <1>5, <2>1, <1>a DEF Publish, At
    <2>2. ASSUME NEW pc \in {"ensure", "close"},
                 call' = [call EXCEPT ![c].pc = pc, ![c].tries = @ + 1]
          PROVE  /\ call' \in [Call -> CallRec]
                 /\ \A d \in Call : d # c => call'[d] = call[d]
                 /\ call'[c].pc = pc
      <3>0. call[c].tries < MaxRetries
        BY <1>5, <1>a DEF Publish, At, CounterOf
      <3>1. call[c].tries + 1 \in 0..MaxRetries
        BY <3>0, CallFields, ProducerAssumption DEF ProducerAssumption
      <3>2. call' = [call EXCEPT ![c].pc = pc, ![c].tries = call[c].tries + 1]
        BY <2>2
      <3>3. call' \in [Call -> CallRec]
        BY <3>1, <3>2, <1>c, CallFields
      <3> QED
        BY <3>2, <3>3, <1>a DEF CallRec
    <2> QED
      BY <1>5, <2>1, <2>2 DEF Publish, At, CounterOf
  <1>6. CASE PublishFails(c)
    <2>1. CASE Goto(c, "error")
      BY <1>6, <2>1, <1>c, WentTo DEF PublishFails, At, CounterOf
    <2>2. CASE call[c].tries + 1 < MaxRetries /\ call' = [call EXCEPT ![c].tries = @ + 1]
      <3>1. call[c].tries + 1 \in 0..MaxRetries
        BY <2>2, CallFields, ProducerAssumption DEF ProducerAssumption
      <3>2. call' = [call EXCEPT ![c].tries = call[c].tries + 1]
        BY <2>2
      <3>3. call' \in [Call -> CallRec]
        BY <3>1, <3>2, CallFields
      <3>4. call'[c].pc = "publish" /\ call'[c].tries < MaxRetries
        BY <1>6, <2>2, <1>a DEF PublishFails, At, CallRec
      <3> QED
        BY <1>6, <2>2, <3>3, <3>4 DEF PublishFails, At, CounterOf
    <2> QED
      BY <1>6, <2>1, <2>2 DEF PublishFails
  <1>7. CASE Close(c)
    BY <1>7, <1>c, WentTo DEF Close, At, CounterOf
  <1> QED
    BY <1>1, <1>2, <1>3, <1>4, <1>5, <1>6, <1>7 DEF CallStep

-----------------------------------------------------------------------------
(***************************************************************************)
(* The invariant                                                           *)
(***************************************************************************)
LEMMA InitInv ==
  ASSUME Init
  PROVE  Inv
  <1>1. TypeOK
    BY IdleType, NilIsNoConn DEF Init, TypeOK
  <1>2. Counters /\ Copies
    BY DEF Init, Counters, Copies, IdleCall
  <1> QED
    BY <1>1, <1>2 DEF Inv

\* What a step of a call does to the connections and the payloads.
LEMMA PublishSends ==
  ASSUME Inv, NEW c \in Call, Publish(c), call[c].chan \in open
  PROVE  /\ handed' = [handed EXCEPT ![c] = @ + 1]
         /\ wire' = wire \cup {<<c, call[c].chan>>}
         /\ UNCHANGED <<conn, open, watch, alive, broker>>
         /\ call'[c].pc = "close" /\ call'[c].chan = call[c].chan
  <1>1. call[c].chan # NoConn
    BY NilIsNoConn DEF Inv, TypeOK
  <1>2. /\ handed' = [handed EXCEPT ![c] = @ + 1]
        /\ wire' = wire \cup {<<c, call[c].chan>>}
        /\ UNCHANGED <<conn, open, watch, alive, broker>>
        /\ call' = [call EXCEPT ![c].pc = "close", ![c].tries = @ + 1]
    BY <1>1 DEF Publish
  <1>3. call \in [Call -> CallRec]
    BY DEF Inv, TypeOK
  <1>4. call'[c] = [call[c] EXCEPT !.pc = "close", !.tries = @ + 1] /\ call[c] \in CallRec
    BY <1>2, <1>3
  <1>5. call'[c].pc = "close" /\ call'[c].chan = call[c].chan
    BY <1>4 DEF CallRec
  <1> QED
    BY <1>2, <1>5

LEMMA CallStepTypes ==
  ASSUME Inv, NEW c \in Call, CallStep(c)
  PROVE  TypeOK'
  <1>1. /\ call' \in [Call -> CallRec]
        /\ \A d \in Call : d # c => call'[d] = call[d]
    BY CallStepEffect
  <1>2. \A w \in wire : call'[w[1]].pc = "ok" \/ w[2] = call'[w[1]].chan
    <2>1. \A w \in wire : w[1] = c => call[c].pc \in {"close", "ok"}
      BY DEF Inv, TypeOK, Copies
    <2>2. \A w \in wire : w[1] = c => call'[c].pc = "ok"
      BY <2>1, CallStepEffect
    <2> QED
      BY <1>1, <2>2 DEF Inv, TypeOK
  <1>3. CASE UNCHANGED <<conn, open, wire, handed, watch, alive, broker>> \/ OpenChannel(c)
    BY <1>1, <1>2, <1>3 DEF Inv, TypeOK, OpenChannel, Die, broker
  <1>4. CASE Dial(c)
    <2>1. conn' \in Conn \cup {NoConn} /\ open' \subseteq Conn /\ open \subseteq open'
      BY <1>4 DEF Dial, FreeConn, Inv, TypeOK
    <2>2. watch' \in [Conn -> {"off", "started", "tested"}]
      BY <1>4 DEF Dial, FreeConn, Inv, TypeOK
    <2> QED
      BY <1>4, <1>1, <1>2, <2>1, <2>2 DEF Dial, Inv, TypeOK, broker
  <1>5. CASE Publish(c)
    <2>1. CASE call[c].chan \in open
      <3>2. wire' \subseteq Call \X open'
        BY <1>5, <2>1, PublishSends DEF Inv, TypeOK
      <3>4. \A w \in wire' : call'[w[1]].pc = "ok" \/ w[2] = call'[w[1]].chan
        BY <1>5, <2>1, PublishSends, <1>2
      <3>5. handed' \in [Call -> Nat]
        BY <1>5, <2>1, PublishSends DEF Inv, TypeOK
      <3> QED
        BY <1>5, <1>1, <2>1, <3>2, <3>4, <3>5, PublishSends DEF Inv, TypeOK, broker
    <2>2. CASE call[c].chan \notin open
      BY <1>5, <1>1, <1>2, <2>2 DEF Publish, Inv, TypeOK, broker, Die
    <2> QED
      BY <2>1, <2>2
  <1>6. CASE PublishFails(c)
    <2>1. wire' \subseteq Call \X open' /\ wire' \subseteq wire /\ open' \subseteq Conn
      BY <1>6 DEF PublishFails, Inv, TypeOK
    <2>2. faults' \in Nat
      BY <1>6 DEF PublishFails, Inv, TypeOK
    <2> QED
      BY <1>6, <1>1, <1>2, <2>1, <2>2 DEF PublishFails, Inv, TypeOK
  <1> QED
    BY <1>3, <1>4, <1>5, <1>6 DEF CallStep, Ensure, Prepare, Close

\* Each step of a call keeps the payloads in one place.
LEMMA CallStepCopies ==
  ASSUME Inv, NEW c \in Call, CallStep(c)
  PROVE  Copies'
  <1>1. \A d \in Call : d # c => call'[d] = call[d]
    BY CallStepEffect
  <1>2. handed[c] # 0 => call[c].pc = "close" /\ call'[c].pc = "ok"
    BY CallStepEffect DEF Inv, Copies
  <1>3. queue' = queue
    BY DEF CallStep, Ensure, Dial, OpenChannel, Prepare, Publish, PublishFails, Close, broker
  <1>4. CASE Publish(c) /\ call[c].chan \in open
    <2>1. /\ handed' = [handed EXCEPT ![c] = @ + 1]
          /\ wire' = wire \cup {<<c, call[c].chan>>}
          /\ call'[c].pc = "close"
      BY <1>4, PublishSends
    <2>2. call[c].pc = "publish"
      BY <1>4 DEF Publish, At
    <2>3. handed[c] = 0 /\ queue[c] = 0 /\ \A k \in Conn : <<c, k>> \notin wire
      BY <2>2 DEF Inv, Copies
    <2>4. handed'[c] = 1 /\ \A d \in Call : d # c => handed'[d] = handed[d]
      BY <2>1, <2>3 DEF Inv, TypeOK
    <2>5. \A d \in Call, k \in Conn : <<d, k>> \in wire' =>
            <<d, k>> \in wire \/ (d = c /\ k = call[c].chan)
      BY <2>1
    <2> QED
      BY <1>1, <1>3, <2>1, <2>3, <2>4, <2>5 DEF Inv, Copies
  <1>5. CASE ~(Publish(c) /\ call[c].chan \in open)
    <2>1. handed' = handed /\ wire' \subseteq wire
      BY <1>5 DEF CallStep, Ensure, Dial, OpenChannel, Prepare, Publish, PublishFails, Close
    <2> QED
      BY <1>1, <1>2, <1>3, <2>1 DEF Inv, Copies
  <1> QED
    BY <1>4, <1>5

LEMMA StepInv ==
  ASSUME Inv, [Next]_vars
  PROVE  Inv'
  <1>1. ASSUME NEW c \in Call, CallStep(c)
        PROVE  Inv'
    <2>1. Counters'
      BY <1>1, CallStepEffect DEF Counters, CounterOf, Inv
    <2> QED
      BY <1>1, <2>1, CallStepTypes, CallStepCopies DEF Inv
  <1>2. ASSUME NEW c \in Call, NEW m \in Modes, Begin(c, m)
        PROVE  Inv'
    <2>1. call' = [call EXCEPT ![c].pc = "ensure", ![c].mode = m] /\ call[c].pc = "idle"
      BY <1>2 DEF Begin, At
    <2>2. call' \in [Call -> CallRec]
      BY <2>1, CallFields DEF Inv, CallPC
    <2>3. call'[c].pc = "ensure" /\ \A d \in Call : d # c => call'[d] = call[d]
      BY <2>1, <2>2 DEF Inv, TypeOK, CallRec
    <2>4. \A w \in wire : w[1] # c
      BY <2>1 DEF Inv, TypeOK, Copies
    <2>5. TypeOK'
      BY <1>2, <2>2, <2>3, <2>4 DEF Begin, Inv, TypeOK, broker
    <2>6. Counters' /\ Copies'
      BY <1>2, <2>1, <2>3 DEF Begin, Inv, Counters, Copies, broker
    <2> QED
      BY <2>5, <2>6 DEF Inv
  <1>3. ASSUME NEW k \in Conn, WatchTests(k) \/ WatchRegisters(k)
        PROVE  Inv'
    <2>1. UNCHANGED <<conn, open, call, wire, handed, broker>>
      BY <1>3 DEF WatchTests, WatchRegisters
    <2>2. watch' \in [Conn -> {"off", "started", "tested"}] /\ alive' \in BOOLEAN
      BY <1>3 DEF WatchTests, WatchRegisters, Die, Inv, TypeOK
    <2> QED
      BY <2>1, <2>2 DEF Inv, TypeOK, Counters, Copies, broker
  <1>4. ASSUME NEW c \in Call, NEW k \in Conn, Take(c, k)
        PROVE  Inv'
    <2>1. handed[c] = 1 /\ queue[c] = 0 /\ \A l \in Conn : <<c, l>> \in wire => l = k
      BY <1>4 DEF Take, Inv, Copies
    <2>2. queue'[c] = 1 /\ (\A d \in Call : d # c => queue'[d] = queue[d]) /\ queue' \in [Call -> Nat]
      BY <1>4, <2>1 DEF Take, Inv, TypeOK
    <2>3. wire' \subseteq wire /\ \A l \in Conn : <<c, l>> \notin wire'
      BY <1>4, <2>1 DEF Take
    <2>4. TypeOK'
      BY <1>4, <2>2, <2>3 DEF Take, Inv, TypeOK
    <2>5. Counters' /\ Copies'
      BY <1>4, <2>1, <2>2, <2>3 DEF Take, Inv, Counters, Copies
    <2> QED
      BY <2>4, <2>5 DEF Inv
  <1>5. ASSUME NEW k \in Conn, Drop(k)
        PROVE  Inv'
    <2>1. wire' \subseteq wire /\ wire' \subseteq Call \X open' /\ faults' \in Nat
      BY <1>5 DEF Drop, Fault, Inv, TypeOK
    <2> QED
      BY <1>5, <2>1 DEF Drop, Inv, TypeOK, Counters, Copies
  <1>6. CASE BrokerDown
    <2>1. wire' = {} /\ open' = {} /\ up' = FALSE
      BY <1>6 DEF BrokerDown
    <2>2. UNCHANGED <<conn, call, queue, handed, watch, alive>>
      BY <1>6 DEF BrokerDown
    <2>3. faults' \in Nat
      BY <1>6 DEF BrokerDown, Fault, Inv, TypeOK
    <2> QED
      BY <2>1, <2>2, <2>3 DEF Inv, TypeOK, Counters, Copies
  <1>7. CASE BrokerUp
    BY <1>7 DEF BrokerUp, Inv, TypeOK, Counters, Copies
  <1>8. CASE UNCHANGED vars
    BY <1>8 DEF vars, Inv, TypeOK, Counters, Copies
  <1> QED
    BY <1>1, <1>2, <1>3, <1>4, <1>5, <1>6, <1>7, <1>8 DEF Next

LEMMA Invariant == Spec => []Inv
  BY InitInv, StepInv, PTL DEF Spec

\* Type correctness, with the bounds of the two loops: for every number of
\* attempts and dials no call makes more of them.
THEOREM TypeCorrect == Spec => []TypeOK
  <1>1. Inv => TypeOK
    BY DEF Inv
  <1> QED
    BY <1>1, Invariant, PTL

\* No event has two copies on its queue, whatever the broker, the connections and
\* the other calls do.
THEOREM QueuedOnce == Spec => []AtMostOnce
  <1>1. Inv => AtMostOnce
    BY DEF Inv, Copies, AtMostOnce, TypeOK
  <1> QED
    BY <1>1, Invariant, PTL

\* Produce returns an error only for an event it never wrote.
THEOREM ErrorsAreUnsent == Spec => []ErrorUnsent
  <1>1. Inv => ErrorUnsent
    BY DEF Inv, Copies, ErrorUnsent, TypeOK
  <1> QED
    BY <1>1, Invariant, PTL

-----------------------------------------------------------------------------
(***************************************************************************)
(* RabbitProducer implements Publisher                                     *)
(***************************************************************************)
\* A step of call c changes the status of c only.
LEMMA StatusOf ==
  ASSUME NEW c \in Call, \A d \in Call : d # c => call'[d] = call[d]
  PROVE  /\ Status[c] = IF call[c].pc \in {"idle", "ok", "error"} THEN call[c].pc ELSE "busy"
         /\ Status' = [Status EXCEPT ![c] = IF call'[c].pc \in {"idle", "ok", "error"}
                                               THEN call'[c].pc ELSE "busy"]
  BY DEF Status

LEMMA CallStepAbstract ==
  ASSUME Inv, NEW c \in Call, CallStep(c)
  PROVE  [Abstract!Next]_(Abstract!vars)
  <1>1. \A d \in Call : d # c => call'[d] = call[d]
    BY CallStepEffect
  <1>2. alive /\ Status[c] = "busy"
    BY <1>1, CallStepEffect, StatusOf
       DEF CallStep, Ensure, Dial, OpenChannel, Prepare, Publish, PublishFails, Close, At
  <1>3. queue' = queue
    BY DEF CallStep, Ensure, Dial, OpenChannel, Prepare, Publish, PublishFails, Close, broker
  <1>4. CASE handed' # handed
    <2>1. Publish(c) /\ call[c].chan \in open
      BY <1>4, NilIsNoConn DEF CallStep, Ensure, Dial, OpenChannel, Prepare, Publish, PublishFails, Close
    <2>2. /\ handed' = [handed EXCEPT ![c] = @ + 1]
          /\ alive' = alive /\ call'[c].pc = "close"
      BY <2>1, PublishSends
    <2>3. handed[c] = 0
      BY <2>1 DEF Publish, At, Inv, Copies
    <2>4. handed' = [handed EXCEPT ![c] = 1]
      BY <2>2, <2>3 DEF Inv, TypeOK
    <2>5. Status' = Status
      BY <1>1, <1>2, <2>2, StatusOf DEF Status
    <2>6. Abstract!Hand(c)
      BY <1>2, <1>3, <2>2, <2>3, <2>4, <2>5 DEF Abstract!Hand
    <2> QED
      BY <2>6 DEF Abstract!Next
  <1>5. CASE handed' = handed /\ alive' # alive
    <2>1. alive' = FALSE /\ call' = call
      BY <1>5 DEF CallStep, Ensure, Dial, OpenChannel, Prepare, Publish, PublishFails, Close, Die
    <2>2. Status' = Status
      BY <2>1 DEF Status
    <2>3. Abstract!Die
      BY <1>2, <1>3, <1>5, <2>1, <2>2 DEF Abstract!Die
    <2> QED
      BY <2>3 DEF Abstract!Next
  <1>6. CASE handed' = handed /\ alive' = alive
    <2>1. CASE call'[c].pc \in {"ok", "error"}
      <3>1. Status' = [Status EXCEPT ![c] = call'[c].pc]
        BY <1>1, <2>1, StatusOf
      <3>2. call'[c].pc = "error" => handed[c] = 0
        <4>1. handed[c] # 0 => call[c].pc = "close"
          BY CallStepEffect DEF Inv, Copies
        <4>2. handed[c] # 0 => call'[c].pc = "ok"
          BY <4>1, CallStepEffect
        <4> QED
          BY <4>2
      <3>3. Abstract!Return(c, call'[c].pc)
        BY <1>2, <1>3, <1>6, <3>1, <3>2 DEF Abstract!Return
      <3> QED
        BY <2>1, <3>3 DEF Abstract!Next
    <2>2. CASE call'[c].pc \notin {"ok", "error"}
      <3>1. Status' = Status
        BY <1>1, <1>2, <2>2, StatusOf, CallStepEffect DEF Status
      <3> QED
        BY <1>3, <1>6, <3>1 DEF Abstract!vars
    <2> QED
      BY <2>1, <2>2
  <1> QED
    BY <1>4, <1>5, <1>6

LEMMA StepAbstract ==
  ASSUME Inv, [Next]_vars
  PROVE  [Abstract!Next]_(Abstract!vars)
  <1>1. ASSUME NEW c \in Call, CallStep(c)
        PROVE  [Abstract!Next]_(Abstract!vars)
    BY <1>1, CallStepAbstract
  <1>2. ASSUME NEW c \in Call, NEW m \in Modes, Begin(c, m)
        PROVE  [Abstract!Next]_(Abstract!vars)
    <2>1. call' = [call EXCEPT ![c].pc = "ensure", ![c].mode = m] /\ call[c].pc = "idle"
      BY <1>2 DEF Begin, At
    <2>2. call'[c].pc = "ensure" /\ \A d \in Call : d # c => call'[d] = call[d]
      BY <2>1 DEF Inv, TypeOK, CallRec
    <2>3. Status[c] = "idle" /\ Status' = [Status EXCEPT ![c] = "busy"]
      BY <2>1, <2>2, StatusOf
    <2>4. Abstract!Begin(c)
      BY <1>2, <2>3 DEF Begin, At, broker, Abstract!Begin
    <2> QED
      BY <2>4 DEF Abstract!Next
  <1>3. ASSUME NEW k \in Conn, WatchTests(k) \/ WatchRegisters(k)
        PROVE  [Abstract!Next]_(Abstract!vars)
    <2>1. call' = call /\ handed' = handed /\ queue' = queue /\ alive
      BY <1>3 DEF WatchTests, WatchRegisters, broker
    <2>2. Status' = Status
      BY <2>1 DEF Status
    <2>3. alive' = alive \/ alive' = FALSE
      BY <1>3 DEF WatchTests, WatchRegisters, Die
    <2>4. CASE alive' = FALSE
      BY <2>1, <2>2, <2>4 DEF Abstract!Next, Abstract!Die
    <2> QED
      BY <2>1, <2>2, <2>3, <2>4 DEF Abstract!vars
  <1>4. ASSUME NEW c \in Call, NEW k \in Conn, Take(c, k)
        PROVE  [Abstract!Next]_(Abstract!vars)
    <2>1. handed[c] = 1 /\ queue[c] = 0
      BY <1>4 DEF Take, Inv, Copies
    <2>2. queue' = [queue EXCEPT ![c] = 1]
      BY <1>4, <2>1 DEF Take, Inv, TypeOK
    <2>3. Status' = Status
      BY <1>4 DEF Take, Status
    <2>4. Abstract!Enqueue(c)
      BY <1>4, <2>1, <2>2, <2>3 DEF Take, Abstract!Enqueue
    <2> QED
      BY <2>4 DEF Abstract!Next
  <1>5. CASE (\E k \in Conn : Drop(k)) \/ BrokerDown \/ BrokerUp \/ UNCHANGED vars
    <2>1. call' = call /\ handed' = handed /\ queue' = queue /\ alive' = alive
      BY <1>5 DEF Drop, BrokerDown, BrokerUp, vars
    <2> QED
      BY <2>1 DEF Status, Abstract!vars
  <1> QED
    BY <1>1, <1>2, <1>3, <1>4, <1>5 DEF Next

\* Whatever the broker does, the producer keeps the promise of Publisher: it hands
\* an event over at most once and reports an error only for one it did not hand over.
THEOREM Refinement == Spec => Publishes
  <1>1. Init => Abstract!Init
    BY DEF Init, Abstract!Init, Status, IdleCall
  <1> QED
    BY <1>1, Invariant, StepAbstract, PTL DEF Spec, Publishes, Abstract!Spec

-----------------------------------------------------------------------------
(***************************************************************************)
(* While no connection is lost, none is nil where it is used: p.conn, once  *)
(* set, stays a connection that is open, and so does the one of a channel.  *)
(***************************************************************************)
BeforeConn == {"idle", "ensure", "dial", "ok", "error"}

\* Of a call, with p.conn at k and the connections o open.
CalmCall(r, k, o) ==
  /\ r.pc \notin {"close", "ok", "error"} => r.tries = 0
  /\ r.pc \in {"prepare", "publish", "close"} => r.chan \in o
  /\ k = NoConn => r.pc \in BeforeConn

Calm ==
  faults = 0 =>
    /\ alive
    /\ conn \in open \cup {NoConn}
    /\ ~up => conn = NoConn
    /\ conn = NoConn => \A k \in Conn : watch[k] = "off"
    /\ \A c \in Call : CalmCall(call[c], conn, open)

\* More connections, and one instead of nil, leave the other calls as they were.
LEMMA CalmGrows ==
  ASSUME NEW r, NEW k, NEW l, NEW o, NEW q, CalmCall(r, k, o), o \subseteq q, l = NoConn => k = NoConn
  PROVE  CalmCall(r, l, q)
  BY DEF CalmCall

\* A step of one call that keeps the connections.
LEMMA CalmStep ==
  ASSUME Inv, Calm, NEW c \in Call, faults = 0, faults' = 0, UNCHANGED <<conn, open, up, watch, alive>>,
         \A d \in Call : d # c => call'[d] = call[d],
         CalmCall(call'[c], conn, open)
  PROVE  Calm'
  BY DEF Calm

LEMMA CalmCallStep ==
  ASSUME Inv, Calm, NEW c \in Call, CallStep(c)
  PROVE  Calm'
  <1> SUFFICES ASSUME faults' = 0
        PROVE  Calm'
    BY DEF Calm
  <1>1. faults \in Nat /\ TypeOK
    BY DEF Inv, TypeOK
  <1>2. ~PublishFails(c)
    BY <1>1 DEF PublishFails
  <1>3. faults = 0 /\ UNCHANGED <<up, faults>>
    BY <1>2 DEF CallStep, Ensure, Dial, OpenChannel, Prepare, Publish, Close, broker
  <1>4. /\ alive /\ conn \in open \cup {NoConn} /\ (~up => conn = NoConn)
        /\ conn = NoConn => \A k \in Conn : watch[k] = "off"
        /\ CalmCall(call[c], conn, open)
        /\ \A d \in Call : CalmCall(call[d], conn, open)
    BY <1>3 DEF Calm
  <1>5. \A d \in Call : d # c => call'[d] = call[d]
    BY CallStepEffect
  <1>6. CallPC = {"idle", "ensure", "dial", "channel", "prepare", "publish", "close", "ok", "error"}
    BY DEF CallPC
  <1>7. CASE Ensure(c)
    <2>1. UNCHANGED <<conn, open, watch, alive>> /\ call[c].pc = "ensure"
      BY <1>7 DEF Ensure, At
    <2>2. call[c].tries = 0
      BY <1>4, <2>1 DEF CalmCall
    <2>3. CASE conn \in open /\ Goto(c, "channel")
      <3>1. conn # NoConn
        BY <1>1, <2>3, NilIsNoConn DEF TypeOK
      <3>2. call'[c].pc = "channel" /\ call'[c].tries = 0
        BY <1>1, <1>6, <2>2, <2>3, WentTo
      <3>3. CalmCall(call'[c], conn, open)
        BY <3>1, <3>2 DEF CalmCall
      <3> QED
        BY <1>3, <1>5, <2>1, <3>3, CalmStep
    <2>4. CASE Goto(c, "dial")
      <3>1. call'[c].pc = "dial" /\ call'[c].tries = 0
        BY <1>1, <1>6, <2>2, <2>4, WentTo
      <3>2. CalmCall(call'[c], conn, open)
        BY <3>1 DEF CalmCall, BeforeConn
      <3> QED
        BY <1>3, <1>5, <2>1, <3>2, CalmStep
    <2> QED
      BY <1>7, <2>3, <2>4 DEF Ensure
  <1>8. CASE Dial(c)
    <2>1. call[c].pc = "dial" /\ call[c].tries = 0 /\ alive'
      BY <1>4, <1>8 DEF Dial, At, CalmCall
    <2>2. CASE up
      <3>1. PICK k \in FreeConn : conn' = k /\ open' = open \cup {k} /\ Goto(c, "channel")
        BY <1>8, <2>2 DEF Dial
      <3>2. conn' # NoConn /\ conn' \in open' /\ open \subseteq open' /\ up'
        BY <1>3, <2>2, <3>1, NilIsNoConn DEF FreeConn
      <3>3. call'[c].pc = "channel" /\ call'[c].tries = 0
        BY <1>1, <1>6, <2>1, <3>1, WentTo
      <3>4. CalmCall(call'[c], conn', open')
        BY <3>2, <3>3 DEF CalmCall
      <3>5. \A d \in Call : CalmCall(call'[d], conn', open')
        BY <1>4, <1>5, <3>2, <3>4, CalmGrows
      <3> QED
        BY <2>1, <3>2, <3>5 DEF Calm
    <2>3. CASE ~up
      <3>1. conn' = NoConn /\ conn = NoConn /\ UNCHANGED <<open, watch, alive>>
        BY <1>4, <1>8, <2>3 DEF Dial
      <3>2. CASE call' = [call EXCEPT ![c].dials = @ + 1]
        <4>1. call'[c].pc = "dial" /\ call'[c].tries = 0
          BY <1>1, <2>1, <3>2 DEF TypeOK, CallRec
        <4>2. CalmCall(call'[c], conn, open)
          BY <4>1 DEF CalmCall, BeforeConn
        <4> QED
          BY <1>3, <1>5, <3>1, <4>2, CalmStep
      <3>3. CASE Goto(c, AfterFailure(c))
        <4>1. AfterFailure(c) = "error"
          BY <2>1 DEF AfterFailure
        <4>2. call'[c].pc = "error"
          BY <1>1, <1>6, <3>3, <4>1, WentTo
        <4>3. CalmCall(call'[c], conn, open)
          BY <4>2 DEF CalmCall, BeforeConn
        <4> QED
          BY <1>3, <1>5, <3>1, <4>3, CalmStep
      <3> QED
        BY <1>8, <2>3, <3>2, <3>3 DEF Dial
    <2> QED
      BY <2>2, <2>3
  <1>9. CASE OpenChannel(c)
    <2>1. call[c].pc = "channel" /\ call[c].tries = 0 /\ UNCHANGED <<conn, open, watch>>
      BY <1>4, <1>9 DEF OpenChannel, At, CalmCall
    <2>2. conn \in open /\ conn # NoConn
      BY <1>4, <2>1 DEF CalmCall, BeforeConn
    <2>3. Resume(c, conn, "prepare") /\ UNCHANGED alive
      BY <1>9, <2>1, <2>2 DEF OpenChannel
    <2>4. call'[c].pc = "prepare" /\ call'[c].chan = conn /\ call'[c].tries = 0
      BY <1>1, <1>6, <2>1, <2>3, Resumed DEF TypeOK
    <2>5. CalmCall(call'[c], conn, open)
      BY <2>2, <2>4 DEF CalmCall
    <2> QED
      BY <1>3, <1>5, <2>1, <2>3, <2>5, CalmStep
  <1>10. CASE Prepare(c)
    <2>1. call[c].pc = "prepare" /\ call[c].tries = 0 /\ UNCHANGED <<conn, open, watch, alive>>
      BY <1>4, <1>10 DEF Prepare, At, CalmCall
    <2>2. call[c].chan \in open /\ conn # NoConn
      BY <1>4, <2>1 DEF CalmCall, BeforeConn
    <2>3. CASE Goto(c, "ok")
      <3>1. call'[c].pc = "ok"
        BY <1>1, <1>6, <2>3, WentTo
      <3>2. CalmCall(call'[c], conn, open)
        BY <3>1 DEF CalmCall, BeforeConn
      <3> QED
        BY <1>3, <1>5, <2>1, <3>2, CalmStep
    <2>4. CASE Goto(c, "publish")
      <3>1. call'[c].pc = "publish" /\ call'[c].tries = 0 /\ call'[c].chan = call[c].chan
        BY <1>1, <1>6, <2>1, <2>4, WentTo
      <3>2. CalmCall(call'[c], conn, open)
        BY <2>2, <3>1 DEF CalmCall
      <3> QED
        BY <1>3, <1>5, <2>1, <3>2, CalmStep
    <2> QED
      BY <1>10, <2>2, <2>3, <2>4 DEF Prepare
  <1>11. CASE Publish(c)
    <2>1. call[c].pc = "publish" /\ UNCHANGED <<conn, open, watch>>
      BY <1>11 DEF Publish, At
    <2>2. call[c].chan \in open /\ conn # NoConn
      BY <1>4, <2>1 DEF CalmCall, BeforeConn
    <2>3. call[c].chan # NoConn
      BY <1>1, <2>2, NilIsNoConn DEF TypeOK
    <2>4. call' = [call EXCEPT ![c].pc = "close", ![c].tries = @ + 1] /\ UNCHANGED alive
      BY <1>11, <2>2, <2>3 DEF Publish
    <2>5. call'[c].pc = "close" /\ call'[c].chan = call[c].chan
      BY <1>1, <2>4 DEF TypeOK, CallRec
    <2>6. CalmCall(call'[c], conn, open)
      BY <2>2, <2>5 DEF CalmCall
    <2> QED
      BY <1>3, <1>5, <2>1, <2>4, <2>6, CalmStep
  <1>12. CASE Close(c)
    <2>1. Goto(c, "ok") /\ UNCHANGED <<conn, open, watch, alive>>
      BY <1>12 DEF Close
    <2>2. call'[c].pc = "ok"
      BY <1>1, <1>6, <2>1, WentTo
    <2>3. CalmCall(call'[c], conn, open)
      BY <2>2 DEF CalmCall, BeforeConn
    <2> QED
      BY <1>3, <1>5, <2>1, <2>3, CalmStep
  <1> QED
    BY <1>2, <1>7, <1>8, <1>9, <1>10, <1>11, <1>12 DEF CallStep

LEMMA CalmNext ==
  ASSUME Inv, Calm, [Next]_vars
  PROVE  Calm'
  <1>1. faults \in Nat
    BY DEF Inv, TypeOK
  <1>2. ASSUME NEW c \in Call, NEW m \in Modes, Begin(c, m)
        PROVE  Calm'
    <2>1. /\ UNCHANGED <<conn, open, up, watch, alive, faults>>
          /\ \A d \in Call : d # c => call'[d] = call[d]
      BY <1>2 DEF Begin, broker, Inv, TypeOK
    <2>2. call[c].pc = "idle" /\ call'[c].pc = "ensure" /\ call'[c].tries = call[c].tries
      BY <1>2 DEF Begin, At, Inv, TypeOK, CallRec
    <2>3. faults = 0 => CalmCall(call'[c], conn, open)
      BY <2>2 DEF Calm, CalmCall, BeforeConn
    <2>4. CASE faults = 0
      BY <2>1, <2>3, <2>4, CalmStep
    <2>5. CASE faults # 0
      BY <2>1, <2>5 DEF Calm
    <2> QED
      BY <2>4, <2>5
  <1>3. ASSUME NEW k \in Conn, WatchTests(k) \/ WatchRegisters(k)
        PROVE  Calm'
    <2>1. UNCHANGED <<conn, open, up, call, faults>>
      BY <1>3 DEF WatchTests, WatchRegisters, broker
    <2>2. watch[k] # "off" /\ (conn # NoConn => alive' = alive)
      BY <1>3 DEF WatchTests, WatchRegisters
    <2> SUFFICES ASSUME faults' = 0
          PROVE  Calm'
      BY DEF Calm
    <2>3. conn # NoConn /\ alive /\ alive'
      BY <2>1, <2>2 DEF Calm
    <2>4. conn \in open /\ \A c \in Call : CalmCall(call[c], conn, open)
      BY <2>1, <2>3 DEF Calm
    <2>5. \A c \in Call : CalmCall(call'[c], conn', open')
      BY <2>1, <2>4
    <2> QED
      BY <2>1, <2>3, <2>4, <2>5 DEF Calm
  <1>4. ASSUME (\E c \in Call, k \in Conn : Take(c, k)) \/ UNCHANGED vars
        PROVE  Calm'
    BY <1>4 DEF Take, vars, Calm
  <1>5. ASSUME (\E k \in Conn : Drop(k)) \/ BrokerDown
        PROVE  Calm'
    BY <1>1, <1>5 DEF Drop, BrokerDown, Fault, Calm
  <1>6. ASSUME BrokerUp
        PROVE  Calm'
    BY <1>6 DEF BrokerUp, Calm
  <1> QED
    BY <1>2, <1>3, <1>4, <1>5, <1>6, CalmCallStep DEF Next

\* As long as no connection was lost, no call and no watcher dereferences a nil
\* connection or channel (ensureConnection, handleConnectionClose).
THEOREM NoPanicWhileUp == Spec => []SafeWhileUp
  <1>1. Init => Calm
    BY NilIsNoConn DEF Init, Calm, CalmCall, IdleCall, BeforeConn
  <1>2. Calm /\ Inv => SafeWhileUp
    BY DEF Calm, SafeWhileUp, Inv, TypeOK
  <1> QED
    BY <1>1, <1>2, CalmNext, Invariant, PTL DEF Spec

-----------------------------------------------------------------------------
(***************************************************************************)
(* Connections that nothing refers to                                      *)
(***************************************************************************)
\* A call is in reconnect only for a connection that is gone.
NoLeak ==
  /\ open \subseteq {conn}
  /\ \A c \in Call : call[c].pc = "dial" => conn \notin open

LEMMA CallStepNoLeak ==
  ASSUME Inv, NoLeak, OneDials, NEW c \in Call, CallStep(c)
  PROVE  NoLeak'
  <1>1. TypeOK /\ \A d \in Call : d # c => call'[d] = call[d]
    BY CallStepEffect DEF Inv
  <1>2. CallPC = {"idle", "ensure", "dial", "channel", "prepare", "publish", "close", "ok", "error"}
    BY DEF CallPC
  <1>3. CASE Ensure(c)
    <2>1. UNCHANGED <<conn, open>>
      BY <1>3 DEF Ensure
    <2>2. call'[c].pc = "dial" => conn \notin open
      BY <1>1, <1>2, <1>3, WentTo DEF Ensure
    <2> QED
      BY <1>1, <2>1, <2>2 DEF NoLeak
  <1>4. CASE Dial(c)
    <2>1. call[c].pc = "dial" /\ open = {}
      BY <1>4 DEF Dial, At, NoLeak
    <2>2. \A d \in Call : d # c => call'[d].pc # "dial"
      BY <1>1, <2>1 DEF OneDials
    <2>3. CASE up
      <3>1. PICK k \in FreeConn : conn' = k /\ open' = open \cup {k} /\ Goto(c, "channel")
        BY <1>4, <2>3 DEF Dial
      <3>2. call'[c].pc = "channel"
        BY <1>1, <1>2, <3>1, WentTo
      <3> QED
        BY <2>1, <2>2, <3>1, <3>2 DEF NoLeak
    <2>4. CASE ~up
      <3>1. open' = {}
        BY <1>4, <2>1, <2>4 DEF Dial
      <3> QED
        BY <3>1 DEF NoLeak
    <2> QED
      BY <2>3, <2>4
  <1>5. CASE OpenChannel(c) \/ Prepare(c) \/ Publish(c) \/ PublishFails(c) \/ Close(c)
    <2>1. conn' = conn /\ open' \subseteq open
      BY <1>5 DEF OpenChannel, Prepare, Publish, PublishFails, Close
    <2>2. call'[c].pc # "dial"
      <3>1. CASE OpenChannel(c) /\ call' # call
        <4>1. \E k \in Conn \cup {NoConn}, pc \in {"prepare", "publish", "ok", "error"} : Resume(c, k, pc)
          BY <1>1, <3>1, Failure DEF OpenChannel, TypeOK
        <4> QED
          BY <1>1, <1>2, <4>1, Resumed
      <3>2. CASE Prepare(c)
        BY <1>1, <1>2, <3>2, WentTo DEF Prepare
      <3>3. CASE (Publish(c) \/ PublishFails(c)) /\ call' # call
        <4>1. call[c].pc = "publish"
          BY <3>3 DEF Publish, PublishFails, At
        <4>2. \/ \E pc \in {"ensure", "close", "publish"} :
                   call' = [call EXCEPT ![c].pc = pc, ![c].tries = @ + 1]
              \/ call' = [call EXCEPT ![c].tries = @ + 1]
              \/ Goto(c, "error")
          BY <3>3 DEF Publish, PublishFails
        <4>3. call[c] \in CallRec
          BY <1>1 DEF TypeOK
        <4> QED
          BY <1>1, <1>2, <4>1, <4>2, <4>3, WentTo DEF CallRec, TypeOK
      <3>4. CASE Close(c)
        BY <1>1, <1>2, <3>4, WentTo DEF Close
      <3>5. CASE call' = call
        BY <1>5, <3>5 DEF OpenChannel, Prepare, Publish, PublishFails, Close, At
      <3> QED
        BY <1>5, <3>1, <3>2, <3>3, <3>4, <3>5
    <2> QED
      BY <1>1, <2>1, <2>2 DEF NoLeak
  <1> QED
    BY <1>3, <1>4, <1>5 DEF CallStep

LEMMA NextNoLeak ==
  ASSUME Inv, NoLeak, OneDials, [Next]_vars
  PROVE  NoLeak'
  <1>1. ASSUME NEW c \in Call, NEW m \in Modes, Begin(c, m) PROVE NoLeak'
    <2>1. call'[c].pc = "ensure" /\ \A d \in Call : d # c => call'[d] = call[d]
      BY <1>1 DEF Begin, Inv, TypeOK, CallRec
    <2> QED
      BY <1>1, <2>1 DEF Begin, NoLeak
  <1>2. ASSUME \/ \E k \in Conn : WatchTests(k) \/ WatchRegisters(k) \/ Drop(k)
               \/ \E c \in Call, k \in Conn : Take(c, k)
               \/ BrokerDown \/ BrokerUp \/ UNCHANGED vars
        PROVE  NoLeak'
    <2>1. UNCHANGED <<conn, call>> /\ open' \subseteq open
      BY <1>2 DEF WatchTests, WatchRegisters, Drop, Take, BrokerDown, BrokerUp, vars
    <2> QED
      BY <2>1 DEF NoLeak
  <1> QED
    BY <1>1, <1>2, CallStepNoLeak DEF Next

\* Reconnections that do not overlap leave no connection behind (reconnect,
\* rabbitmq_producer.go:89-107), for any number of calls, losses and dials.
THEOREM LeaksNeedOverlap == Spec => LeakNeedsOverlap
  <1>1. Init => NoLeak
    BY DEF Init, NoLeak, IdleCall
  <1>2. NoLeak => open \subseteq {conn}
    BY DEF NoLeak
  <1>3. Inv /\ NoLeak /\ OneDials /\ [Next]_vars => NoLeak'
    BY NextNoLeak
  <1> QED
    BY <1>1, <1>2, <1>3, Invariant, PTL DEF Spec, LeakNeedsOverlap
=============================================================================
