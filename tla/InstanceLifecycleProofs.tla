----------------------- MODULE InstanceLifecycleProofs -----------------------
(***************************************************************************)
(* Proofs about InstanceLifecycle, for every set of runs, channels, tasks   *)
(* and devices, every set of operations and faults and every limit.         *)
(*                                                                         *)
(* The inductive invariant is TypeOK /\ ClosedChannelBrief. TypeOK joins    *)
(* the types with ParkedAtSend, which the types alone do not give: closing  *)
(* a channel throws every parked task back to idle, and only because a      *)
(* task is parked on one channel, and only at a send, is the task that      *)
(* closes never among them.                                                 *)
(***************************************************************************)
EXTENDS InstanceLifecycle, TLAPS

-----------------------------------------------------------------------------
(***************************************************************************)
(* The operators the actions share                                         *)
(***************************************************************************)
\* The code's zero values are no slot: a nil channel is not a channel.
LEMMA NoSlot == NoRun \notin Run /\ NoChan \notin Chan
  BY LifecycleAssumption DEF LifecycleAssumption, NoRun, NoChan

\* The values of an unused slot have the types of the slots in use.
LEMMA IdleTypes ==
  /\ IdleRun \in RunRec /\ IdleClient \in ClientRec /\ IdleTask \in TaskRec
  /\ NoRow \in Row
  BY DEF IdleRun, RunRec, RunPC, IdleClient, ClientRec, IdleTask, TaskRec, TaskPC,
         AllOps, NoRow, Row

\* A new kill channel is a channel, and is open although its slot may once have
\* held a closed one.
LEMMA NewChannel ==
  ASSUME Types, MakeKillChannel
  PROVE  killPtr' \in Chan /\ closed' \subseteq Chan /\ killPtr' \notin closed'
  BY DEF Types, MakeKillChannel, FreshChan, Least

\* A new run overwrites nothing that a map names.
LEMMA NewRun ==
  ASSUME NEW j \in Jid \cup {NoJid}, NEW run0 \in [Run -> RunRec], NEW cli0 \in [Run -> ClientRec],
         Spawn(j, run0, cli0)
  PROVE  /\ run' \in [Run -> RunRec]
         /\ cli' \in [Run -> ClientRec]
         /\ \A r \in {clientPtr, myPtr} \cap Run : cli'[r] = cli0[r]
         /\ \A r \in Run : cli'[r] # cli0[r] \/ run'[r] # run0[r] => run[r].pc = "free"
  <1>1. CASE run' = run0 /\ cli' = cli0
    BY <1>1
  <1>2. ASSUME NEW r \in FreshRun,
               run' = [run0 EXCEPT ![r] = [pc |-> "check", jid |-> j, codes |-> 0]],
               cli' = [cli0 EXCEPT ![r] = IdleClient]
        PROVE  /\ run' \in [Run -> RunRec]
               /\ cli' \in [Run -> ClientRec]
               /\ \A x \in {clientPtr, myPtr} \cap Run : cli'[x] = cli0[x]
               /\ \A x \in Run : cli'[x] # cli0[x] \/ run'[x] # run0[x] => run[x].pc = "free"
    <2>1. r \in Run /\ ~RunInUse(r)
      BY <1>2 DEF FreshRun, Least
    <2>2. [pc |-> "check", jid |-> j, codes |-> 0] \in RunRec
      BY DEF RunRec, RunPC
    <2>3. run' \in [Run -> RunRec] /\ cli' \in [Run -> ClientRec]
      BY <1>2, <2>1, <2>2, IdleTypes
    <2>4. \A x \in Run : x # r => cli'[x] = cli0[x] /\ run'[x] = run0[x]
      BY <1>2
    <2>5. r \notin {clientPtr, myPtr} /\ run[r].pc = "free"
      BY <2>1 DEF RunInUse
    <2> QED
      BY <2>3, <2>4, <2>5
  <1> QED
    BY <1>1, <1>2 DEF Spawn

\* Writing one field of a slot keeps the types.
LEMMA RunFields ==
  ASSUME NEW f \in [Run -> RunRec], NEW r \in Run
  PROVE  /\ f[r].jid \in Jid \cup {NoJid} /\ f[r].codes \in Nat
         /\ \A v \in RunPC : [f EXCEPT ![r].pc = v] \in [Run -> RunRec]
         /\ \A v \in Nat : [f EXCEPT ![r].codes = v] \in [Run -> RunRec]
         /\ \A v \in RunPC, w \in Nat : [f EXCEPT ![r].pc = v, ![r].codes = w] \in [Run -> RunRec]
  BY DEF RunRec

LEMMA ClientFields ==
  ASSUME NEW f \in [Run -> ClientRec], NEW r \in Run
  PROVE  /\ f[r].conn \in {"down", "up", "in"} /\ f[r].store \in Jid \cup {NoJid}
         /\ f[r].qr \in {"open", "timeout", "success", "error"}
         /\ \A v \in {"down", "up", "in"} : [f EXCEPT ![r].conn = v] \in [Run -> ClientRec]
         /\ \A v \in Jid \cup {NoJid} : [f EXCEPT ![r].store = v] \in [Run -> ClientRec]
         /\ \A v \in BOOLEAN : [f EXCEPT ![r].handler = v] \in [Run -> ClientRec]
         /\ \A v \in BOOLEAN : [f EXCEPT ![r].announce = v] \in [Run -> ClientRec]
         /\ \A v \in BOOLEAN : [f EXCEPT ![r].rekey = v] \in [Run -> ClientRec]
         /\ \A v \in {"open", "timeout", "success", "error"} :
               [f EXCEPT ![r].qr = v] \in [Run -> ClientRec]
  BY DEF ClientRec

LEMMA TaskFields ==
  ASSUME NEW f \in [Task -> TaskRec], NEW t \in Task
  PROVE  /\ f[t].copy \in Row /\ f[t].client \in Run \cup {NoRun}
         /\ \A v \in TaskPC : [f EXCEPT ![t].pc = v] \in [Task -> TaskRec]
         /\ \A v \in AllOps \cup {"Restart"} : [f EXCEPT ![t].op = v] \in [Task -> TaskRec]
         /\ \A v \in Row : [f EXCEPT ![t].copy = v] \in [Task -> TaskRec]
         /\ \A v \in Run \cup {NoRun} : [f EXCEPT ![t].client = v] \in [Task -> TaskRec]
  BY DEF TaskRec

\* The row keeps its type when its connected column is written.
LEMMA RowUpdate ==
  ASSUME Types, NEW b \in BOOLEAN
  PROVE  UpdateConnected(b) \in Row
  BY DEF Types, UpdateConnected, Row

\* A process that ends leaves well-typed memory, no parked goroutine and no channel.
LEMMA AfterReset ==
  ASSUME Types, Reset, row' \in Row, stimuli' \in Nat
  PROVE  /\ Types' /\ ParkedAtSend' /\ closed' = {}
         /\ clientPtr' = NoRun /\ myPtr' = NoRun
  <1>1. Types'
    BY IdleTypes DEF Types, Reset, NoRun, NoChan
  <1>2. ParkedAtSend'
    BY DEF Reset, ParkedAtSend
  <1> QED
    BY <1>1, <1>2 DEF Reset

-----------------------------------------------------------------------------
(***************************************************************************)
(* Types                                                                   *)
(***************************************************************************)
LEMMA RunStepTypes ==
  ASSUME Types, NEW r \in Run, RunStep(r)
  PROVE  Types'
  <1>a. run \in [Run -> RunRec] /\ cli \in [Run -> ClientRec]
    BY DEF Types
  <1>b. {"register", "connect", "qr", "poll", "killed"} \subseteq RunPC
    BY DEF RunPC
  <1>1. CASE CheckClient(r)
    <2>1. run' \in [Run -> RunRec]
      <3>1. \/ run' = [run EXCEPT ![r] = IdleRun]
            \/ run' = [run EXCEPT ![r].pc = "register"]
        BY <1>1 DEF CheckClient
      <3> QED
        BY <3>1, <1>a, <1>b, IdleTypes, RunFields
    <2>2. cli' \in [Run -> ClientRec]
      <3>1. cli' = cli \/ cli' = [cli EXCEPT ![r].store = run[r].jid]
        BY <1>1 DEF CheckClient
      <3>2. [cli EXCEPT ![r].store = run[r].jid] \in [Run -> ClientRec]
        BY <1>a, ClientFields, RunFields
      <3> QED
        BY <3>1, <3>2, <1>a
    <2>3. row' \in Row
      BY <1>1, RowUpdate DEF CheckClient, Types, maps, chans
    <2> QED
      BY <1>1, <2>1, <2>2, <2>3 DEF CheckClient, Types, maps, chans
  <1>2. CASE RegisterClient(r)
    <2>1. run' \in [Run -> RunRec] /\ cli' \in [Run -> ClientRec]
      BY <1>2, <1>a, <1>b, RunFields, ClientFields DEF RegisterClient
    <2> QED
      BY <1>2, <2>1 DEF RegisterClient, Types, maps, chans
  <1>3. CASE ConnectClient(r)
    <2>1. run' \in [Run -> RunRec]
      BY <1>3, IdleTypes DEF ConnectClient, Types, maps, chans, RunRec, RunPC
    <2>2. cli' \in [Run -> ClientRec]
      BY <1>3 DEF ConnectClient, Types, maps, chans, ClientRec
    <2> QED
      BY <1>3, <2>1, <2>2 DEF ConnectClient, Types, maps, chans, Stimulus
  <1>4. CASE QrCode(r)
    BY <1>4 DEF QrCode, Types, maps, chans, RunRec
  <1>5. CASE QrLimit(r)
    <2>1. row' \in Row /\ stimuli' \in Nat
      BY <1>5, RowUpdate DEF QrLimit, Types, maps, chans
    <2>2. CASE Reset
      BY <2>1, <2>2, AfterReset
    <2>3. CASE ~Reset
      <3>1. run' \in [Run -> RunRec]
        BY <1>5, <2>3 DEF QrLimit, Types, maps, chans, RunRec, RunPC, IdleRun
      <3> QED
        BY <1>5, <2>1, <2>3, <3>1 DEF QrLimit, Types, maps, chans, TrySend
    <2> QED
      BY <2>2, <2>3
  <1>6. CASE QrTimeout(r)
    <2>1. row' \in Row /\ stimuli' \in Nat
      BY <1>6 DEF QrTimeout, Types, maps, chans
    <2>2. CASE Reset
      BY <2>1, <2>2, AfterReset
    <2>3. CASE ~Reset
      <3>1. run' \in [Run -> RunRec]
        BY <1>6, <2>3 DEF QrTimeout, Types, maps, chans, RunRec, RunPC
      <3>2. cli' \in [Run -> ClientRec]
        BY <1>6, <2>3 DEF QrTimeout, Types, maps, chans, ClientRec
      <3>3. sending' \subseteq Sender \X (Chan \cup {NoChan})
        BY <1>6, <2>3 DEF QrTimeout, Types, maps, chans, Sender
      <3> QED
        BY <1>6, <2>1, <2>3, <3>1, <3>2, <3>3 DEF QrTimeout, Types, maps, chans
    <2> QED
      BY <2>2, <2>3
  <1>7. CASE QrDrain(r)
    <2>1. cli' \in [Run -> ClientRec]
      BY <1>7, <1>a, ClientFields DEF QrDrain
    <2> QED
      BY <1>7, <2>1, IdleTypes DEF QrDrain, Types, maps, chans
  <1>8. CASE QrReport(r)
    BY <1>8 DEF QrReport, Types, maps, chans, RunRec, RunPC
  <1>9. CASE QrEnd(r)
    <2>1. run' \in [Run -> RunRec] /\ cli' \in [Run -> ClientRec]
      BY <1>9, <1>a, <1>b, RunFields, ClientFields DEF QrEnd
    <2> QED
      BY <1>9, <2>1 DEF QrEnd, Types, maps, chans
  <1>10. CASE TakeKill(r)
    <2>1. run' \in [Run -> RunRec] /\ cli' \in [Run -> ClientRec]
      BY <1>10, <1>a, <1>b, RunFields, ClientFields DEF TakeKill
    <2> QED
      BY <1>10, <2>1 DEF TakeKill, Types, maps, chans
  <1>11. CASE RestartClient(r)
    <2>1. run[r].jid \in Jid \cup {NoJid}
      BY DEF Types, RunRec
    <2>2. [run EXCEPT ![r] = IdleRun] \in [Run -> RunRec] /\ cli \in [Run -> ClientRec]
      BY IdleTypes DEF Types
    <2>3. run' \in [Run -> RunRec] /\ cli' \in [Run -> ClientRec]
      BY <1>11, <2>1, <2>2, NewRun DEF RestartClient
    <2> QED
      BY <1>11, <2>3, RowUpdate DEF RestartClient, Types, maps, chans
  <1> QED
    BY <1>1, <1>2, <1>3, <1>4, <1>5, <1>6, <1>7, <1>8, <1>9, <1>10, <1>11 DEF RunStep

LEMMA EventStepTypes ==
  ASSUME Types, EventStep
  PROVE  Types'
  <1>a. cli \in [Run -> ClientRec]
    BY DEF Types
  <1>1. ASSUME NEW r \in Run, NEW j \in Jid, PairSuccess(r, j)
        PROVE  Types'
    <2>1. cli' \in [Run -> ClientRec]
      BY <1>1, <1>a, ClientFields DEF PairSuccess
    <2>2. row' \in Row
      BY <1>1 DEF PairSuccess, Types, maps, chans, Row
    <2> QED
      BY <1>1, <2>1, <2>2 DEF PairSuccess, Types, maps, chans
  <1>2. ASSUME NEW r \in Run, PairError(r)
        PROVE  Types'
    <2>1. cli' \in [Run -> ClientRec]
      BY <1>2, <1>a, ClientFields DEF PairError
    <2> QED
      BY <1>2, <2>1 DEF PairError, Types, maps, chans, Stimulus
  <1>3. ASSUME NEW r \in Run, LoginAccepted(r)
        PROVE  Types'
    <2>1. \A x \in Run : /\ [cli[x] EXCEPT !.conn = "in", !.announce = TRUE] \in ClientRec
                         /\ [cli[x] EXCEPT !.conn = "down"] \in ClientRec
                         /\ cli[x] \in ClientRec
      BY DEF Types, ClientRec
    <2>2. cli' \in [Run -> ClientRec]
      BY <1>3, <2>1 DEF LoginAccepted
    <2> QED
      BY <1>3, <2>2 DEF LoginAccepted, Types, maps, chans
  <1>4. ASSUME NEW r \in Run, Connected(r)
        PROVE  Types'
    <2>1. cli' \in [Run -> ClientRec]
      BY <1>4, <1>a, ClientFields DEF Connected
    <2>2. row' \in Row
      BY <1>4, RowUpdate DEF Connected, Types, maps, chans
    <2> QED
      BY <1>4, <2>1, <2>2 DEF Connected, Types, maps, chans
  <1>5. ASSUME NEW r \in Run, Disconnected(r)
        PROVE  Types'
    <2>1. cli' \in [Run -> ClientRec]
      <3>1. PICK q \in {"timeout", cli[r].qr} : cli' = [cli EXCEPT ![r].conn = "down", ![r].qr = q]
        BY <1>5 DEF Disconnected
      <3>2. q \in {"open", "timeout", "success", "error"}
        BY <1>a, ClientFields
      <3>3. [cli EXCEPT ![r].conn = "down"] \in [Run -> ClientRec]
        BY <1>a, ClientFields
      <3> QED
        BY <3>1, <3>2, <3>3, ClientFields
    <2>2. row' \in Row
      BY <1>5, RowUpdate DEF Disconnected, Types, maps, chans
    <2>3. task' \in [Task -> TaskRec]
      <3>1. \/ task' = task
            \/ \E t \in Task : task' = [task EXCEPT ![t].pc = "rcDrop", ![t].op = "Restart"]
        BY <1>5 DEF Disconnected
      <3>2. task \in [Task -> TaskRec] /\ "rcDrop" \in TaskPC
        BY DEF Types, TaskPC
      <3>3. \A t \in Task : [task EXCEPT ![t].pc = "rcDrop", ![t].op = "Restart"] \in [Task -> TaskRec]
        BY <3>2, TaskFields
      <3> QED
        BY <3>1, <3>2, <3>3
    <2> QED
      BY <1>5, <2>1, <2>2, <2>3 DEF Disconnected, Types, maps, chans, Stimulus
  <1>6. ASSUME NEW r \in Run, LoggedOut(r)
        PROVE  Types'
    <2>1. cli' \in [Run -> ClientRec]
      BY <1>6, <1>a, ClientFields DEF LoggedOut
    <2>2. row' \in Row
      BY <1>6, RowUpdate DEF LoggedOut, Types, maps, chans
    <2>3. sending' \subseteq Sender \X (Chan \cup {NoChan})
      <3>1. sending' = sending \/ sending' = sending \cup {<<<<"event", r>>, killPtr>>}
        BY <1>6 DEF LoggedOut
      <3>2. <<"event", r>> \in Sender
        BY DEF Sender
      <3> QED
        BY <3>1, <3>2 DEF Types
    <2> QED
      BY <1>6, <2>1, <2>2, <2>3 DEF LoggedOut, Types, maps, chans, Stimulus
  <1>7. ASSUME NEW r \in Run, Undecryptable(r)
        PROVE  Types'
    <2>1. cli' \in [Run -> ClientRec]
      BY <1>7, <1>a, ClientFields DEF Undecryptable
    <2> QED
      BY <1>7, <2>1 DEF Undecryptable, Types, maps, chans, Stimulus
  <1>8. ASSUME NEW r \in Run, UndecryptableConnect(r)
        PROVE  Types'
    <2>1. cli' \in [Run -> ClientRec]
      <3>1. \/ cli' = [cli EXCEPT ![r].rekey = FALSE, ![r].conn = "up"]
            \/ cli' = [cli EXCEPT ![r].rekey = FALSE]
        BY <1>8 DEF UndecryptableConnect
      <3>2. /\ [cli EXCEPT ![r].rekey = FALSE, ![r].conn = "up"] \in [Run -> ClientRec]
            /\ [cli EXCEPT ![r].rekey = FALSE] \in [Run -> ClientRec]
        BY <1>a, ClientFields
      <3> QED
        BY <3>1, <3>2
    <2> QED
      BY <1>8, <2>1 DEF UndecryptableConnect, Types, maps, chans, Stimulus
  <1>9. ASSUME NEW s \in sending, PresenceTakes(s)
        PROVE  Types'
    BY <1>9 DEF PresenceTakes, Types, maps, chans
  <1>10. ASSUME NEW c \in presence, PresenceTick(c)
         PROVE  Types'
    BY <1>10 DEF PresenceTick, Types, maps, chans
  <1> QED
    BY <1>1, <1>2, <1>3, <1>4, <1>5, <1>6, <1>7, <1>8, <1>9, <1>10 DEF EventStep

\* The two ways a handler moves on.
LEMMA Moves ==
  ASSUME Types, NEW t \in Task
  PROVE  /\ Finish(t) => task' \in [Task -> TaskRec]
         /\ \A l \in TaskPC : Goto(t, l) => task' \in [Task -> TaskRec]
  <1>1. task \in [Task -> TaskRec]
    BY DEF Types
  <1>2. Finish(t) => task' \in [Task -> TaskRec]
    BY <1>1, IdleTypes DEF Finish
  <1>3. \A l \in TaskPC : Goto(t, l) => task' \in [Task -> TaskRec]
    BY <1>1, TaskFields DEF Goto
  <1> QED
    BY <1>2, <1>3

LEMMA StartInstanceTypes ==
  ASSUME Types, StartInstance
  PROVE  /\ killPtr' \in Chan /\ closed' \subseteq Chan /\ killPtr' \notin closed'
         /\ run' \in [Run -> RunRec] /\ cli' \in [Run -> ClientRec]
  <1>1. row.jid \in Jid \cup {NoJid} /\ run \in [Run -> RunRec] /\ cli \in [Run -> ClientRec]
    BY DEF Types, Row
  <1> QED
    BY <1>1, NewChannel, NewRun DEF StartInstance

\* A send by a handler keeps the type of sending.
LEMMA HandlerSends ==
  ASSUME Types, NEW t \in Task, NEW c \in Chan \cup {NoChan}
  PROVE  sending \cup {<<<<"task", t>>, c>>} \subseteq Sender \X (Chan \cup {NoChan})
  <1>1. <<"task", t>> \in Sender
    BY DEF Sender
  <1> QED
    BY <1>1 DEF Types

LEMMA EnsuredTypes ==
  ASSUME Types, NEW t \in Task, NEW c \in Run, Ensured(t, c)
  PROVE  task' \in [Task -> TaskRec] /\ sending' \subseteq Sender \X (Chan \cup {NoChan})
  <1>1. sending' = sending \/ sending' = sending \cup {<<<<"task", t>>, killPtr>>}
    BY DEF Ensured
  <1>2. \/ Finish(t)
        \/ \E n \in {"rcDrop", "loCall", "dcSend"} :
             task' = [task EXCEPT ![t].pc = n, ![t].client = c]
    BY DEF Ensured
  <1>3. ASSUME NEW n \in {"rcDrop", "loCall", "dcSend"},
               task' = [task EXCEPT ![t].pc = n, ![t].client = c]
        PROVE  task' \in [Task -> TaskRec]
    <2>1. task \in [Task -> TaskRec] /\ n \in TaskPC
      BY DEF Types, TaskPC
    <2> QED
      BY <1>3, <2>1, TaskFields
  <1>4. killPtr \in Chan \cup {NoChan} /\ sending \subseteq Sender \X (Chan \cup {NoChan})
    BY DEF Types
  <1> QED
    BY <1>1, <1>2, <1>3, <1>4, Moves, HandlerSends

LEMMA TimedSendTypes ==
  ASSUME Types, NEW t \in Task, NEW c \in Chan \cup {NoChan}, TimedSend(t, c)
  PROVE  task' \in [Task -> TaskRec] /\ sending' \subseteq Sender \X (Chan \cup {NoChan})
  <1>1. "timedSend" \in TaskPC
    BY DEF TaskPC
  <1>2. sending \subseteq Sender \X (Chan \cup {NoChan})
    BY DEF Types
  <1>3. CASE c \in closed
    BY <1>2, <1>3, Moves DEF TimedSend
  <1>4. CASE c \notin closed
    BY <1>1, <1>4, Moves, HandlerSends DEF TimedSend
  <1> QED
    BY <1>3, <1>4

\* What close(killChannel[id]) leaves, whoever panics.
LEMMA CloseKillTypes ==
  ASSUME Types, NEW t \in Task, NEW next \in TaskPC, NEW my \in Run \cup {NoRun},
         killPtr \in Chan, CloseKill(t, next, my), clientPtr' = NoRun,
         row' \in Row, devices' \subseteq Jid, stimuli' \in Nat
  PROVE  Types'
  <1>1. CASE killPtr \in closed
    BY <1>1, Moves DEF CloseKill, Types, chans
  <1>2. CASE Reset
    BY <1>2, AfterReset
  <1>3. CASE killPtr \notin closed /\ ~Reset
    <2>1. task' = [x \in Task |-> IF x = t THEN [task[t] EXCEPT !.pc = next]
                     ELSE IF <<<<"task", x>>, killPtr>> \in sending THEN IdleTask
                     ELSE task[x]]
      BY <1>3 DEF CloseKill
    <2>2. \A x \in Task : task[x] \in TaskRec /\ [task[x] EXCEPT !.pc = next] \in TaskRec
      BY DEF Types, TaskRec
    <2>3. task' \in [Task -> TaskRec]
      BY <2>1, <2>2, IdleTypes
    <2> QED
      BY <1>3, <2>3 DEF CloseKill, Types
  <1> QED
    BY <1>1, <1>2, <1>3

LEMMA TaskStepTypes ==
  ASSUME Types, NEW t \in Task, TaskStep(t)
  PROVE  Types'
  <1>a. /\ run \in [Run -> RunRec] /\ cli \in [Run -> ClientRec] /\ task \in [Task -> TaskRec]
        /\ row \in Row /\ clientPtr \in Run \cup {NoRun} /\ killPtr \in Chan \cup {NoChan}
    BY DEF Types
  <1>b. {"connStart", "ensure", "ensureWait", "rcClean", "rcStart", "loSave", "timedSend",
         "frDrop", "frSpawn", "delClose", "delUnmap", "delClear", "delUnmapClear", "delRow"}
            \subseteq TaskPC
    BY DEF TaskPC
  <1>c. task[t].copy \in Row /\ task[t].copy.jid \in Jid \cup {NoJid}
    BY <1>a, TaskFields DEF Row
  <1>1. CASE ConnectSave(t)
    BY <1>1, <1>b, <1>c, Moves DEF ConnectSave, SaveCopy, Types, maps, chans
  <1>2. CASE ConnectStart(t)
    <2>1. /\ killPtr' \in Chan \cup {NoChan} /\ closed' \subseteq Chan
          /\ run' \in [Run -> RunRec] /\ cli' \in [Run -> ClientRec]
      BY <1>2, <1>a, <1>c, NewChannel, NewRun DEF ConnectStart, Types
    <2> QED
      BY <1>2, <2>1, Moves DEF ConnectStart, Types
  <1>3. CASE ProxySave(t)
    <2>1. task' \in [Task -> TaskRec]
      BY <1>3, <1>a, <1>b, TaskFields, IdleTypes DEF ProxySave
    <2> QED
      BY <1>3, <1>c, <2>1 DEF ProxySave, SaveCopy, Types, maps, chans
  <1>4. CASE EnsureClient(t)
    <2>1. CASE Live(clientPtr) /\ Ensured(t, clientPtr) /\ UNCHANGED <<killPtr, closed, run, cli>>
      <3>1. clientPtr \in Run
        BY <2>1, <1>a DEF Live
      <3> QED
        BY <1>4, <2>1, <3>1, EnsuredTypes DEF EnsureClient, Types
    <2>2. CASE StartInstance /\ Goto(t, "ensureWait") /\ UNCHANGED sending
      BY <1>4, <2>2, <1>b, Moves, StartInstanceTypes DEF EnsureClient, Types
    <2>3. CASE Finish(t) /\ UNCHANGED <<sending, killPtr, closed, run, cli>>
      BY <1>4, <2>3, Moves DEF EnsureClient, Types
    <2> QED
      BY <1>4, <2>1, <2>2, <2>3 DEF EnsureClient
  <1>5. CASE EnsureAgain(t)
    <2>1. CASE Live(clientPtr)
      <3>1. clientPtr \in Run
        BY <2>1, <1>a DEF Live
      <3> QED
        BY <1>5, <2>1, <3>1, EnsuredTypes DEF EnsureAgain, Types, maps
    <2>2. CASE ~Live(clientPtr)
      BY <1>5, <2>2, Moves DEF EnsureAgain, Types, maps
    <2> QED
      BY <2>1, <2>2
  <1>6. CASE ReconnectDrop(t)
    <2>1. task' \in [Task -> TaskRec]
      BY <1>6, <1>a, <1>b, TaskFields DEF ReconnectDrop
    <2>2. CASE clientPtr = NoRun
      BY <1>6, <2>1, <2>2 DEF ReconnectDrop, Types, maps, chans
    <2>3. CASE clientPtr \in Run
      <3>1. cli' \in [Run -> ClientRec]
        <4>1. cli' = [cli EXCEPT ![clientPtr].conn = "down"]
          BY <1>6, <2>3, NoSlot DEF ReconnectDrop
        <4> QED
          BY <4>1, <2>3, <1>a, ClientFields
      <3> QED
        BY <1>6, <2>1, <3>1 DEF ReconnectDrop, Types, maps, chans
    <2> QED
      BY <1>a, <2>2, <2>3
  <1>7. CASE ReconnectClean(t)
    <2>1. task[t].client \in Run \cup {NoRun}
      BY <1>a, TaskFields
    <2>2. ASSUME CleanHandler(task[t].client)
          PROVE  cli' \in [Run -> ClientRec]
      BY <2>1, <2>2, <1>a, ClientFields DEF CleanHandler
    <2>3. ASSUME CleanRow(t)
          PROVE  row' \in Row /\ task' \in [Task -> TaskRec]
      <3>1. row' \in Row
        BY <2>3, RowUpdate DEF CleanRow
      <3>2. \/ Finish(t)
            \/ task' = [task EXCEPT ![t].pc = "rcStart", ![t].client = NoRun]
        BY <2>3 DEF CleanRow
      <3>3. [task EXCEPT ![t].pc = "rcStart", ![t].client = NoRun] \in [Task -> TaskRec]
        BY <1>a, <1>b, TaskFields
      <3> QED
        BY <3>1, <3>2, <3>3, Moves
    <2>4. CASE /\ CleanHandler(task[t].client) /\ CleanMaps /\ CleanRow(t)
               /\ UNCHANGED <<devices, closed, sending, run, startup>>
      BY <1>7, <2>2, <2>3, <2>4 DEF ReconnectClean, CleanMaps, TrySend, Types
    <2>5. CASE /\ CleanHandler(task[t].client) /\ Finish(t)
               /\ UNCHANGED <<row, devices, maps, chans, run, startup>>
      BY <1>7, <2>2, <2>5, Moves DEF ReconnectClean, Types, maps, chans
    <2>6. CASE Reset /\ UNCHANGED row
      BY <1>7, <2>6, AfterReset DEF ReconnectClean, Types
    <2> QED
      BY <1>7, <2>4, <2>5, <2>6 DEF ReconnectClean
  <1>8. CASE ReconnectStart(t)
    BY <1>8, Moves, StartInstanceTypes DEF ReconnectStart, Types
  <1>9. CASE DisconnectSave(t)
    BY <1>9, <1>c, Moves DEF DisconnectSave, SaveCopy, Types, maps, chans
  <1>10. CASE LogoutCall(t)
    <2>1. CASE task[t].client \in Run
      <3>1. cli' \in [Run -> ClientRec]
        <4>1. \/ cli' = cli
              \/ cli' = [cli EXCEPT ![task[t].client].conn = "down", ![task[t].client].store = NoJid]
              \/ cli' = [cli EXCEPT ![task[t].client].conn = "down"]
          BY <1>10 DEF LogoutCall
        <4>2. /\ [cli EXCEPT ![task[t].client].conn = "down", ![task[t].client].store = NoJid]
                    \in [Run -> ClientRec]
              /\ [cli EXCEPT ![task[t].client].conn = "down"] \in [Run -> ClientRec]
          BY <2>1, <1>a, ClientFields
        <4> QED
          BY <4>1, <4>2, <1>a
      <3>2. /\ task' \in [Task -> TaskRec]
            /\ sending' \subseteq Sender \X (Chan \cup {NoChan})
            /\ devices' \subseteq Jid
        BY <1>10, <1>a, <1>b, Moves, TimedSendTypes DEF LogoutCall, Types
      <3> QED
        BY <1>10, <3>1, <3>2 DEF LogoutCall, Types, maps
    <2>2. CASE task[t].client = NoRun
      <3>1. cli' \in [Run -> ClientRec]
        BY <1>10, <2>2, <1>a, NoSlot DEF LogoutCall
      <3>2. /\ task' \in [Task -> TaskRec]
            /\ sending' \subseteq Sender \X (Chan \cup {NoChan})
            /\ devices' \subseteq Jid
        BY <1>10, <1>a, <1>b, Moves, TimedSendTypes DEF LogoutCall, Types
      <3> QED
        BY <1>10, <3>1, <3>2 DEF LogoutCall, Types, maps
    <2> QED
      BY <2>1, <2>2, <1>a, TaskFields
  <1>11. CASE LogoutSave(t)
    <2>1. row' \in Row
      BY <1>11, <1>c DEF LogoutSave, Row
    <2> QED
      BY <1>11, <2>1, <1>a, TimedSendTypes DEF LogoutSave, Types, maps
  <1>12. CASE Unmap(t)
    BY <1>12, <1>b, Moves DEF Unmap, Types
  <1>13. CASE ForceStart(t)
    <2>1. CASE Finish(t) /\ UNCHANGED row
      BY <1>13, <2>1, Moves DEF ForceStart, Types, maps, chans
    <2>2. CASE \E j \in {row.jid} \cup devices :
                 /\ row' = [row EXCEPT !.jid = j]
                 /\ task' = [task EXCEPT ![t].pc = "frDrop", ![t].copy = row']
      <3>1. row' \in Row
        BY <2>2, <1>a DEF Row, Types
      <3>2. task' \in [Task -> TaskRec]
        <4>1. task' = [task EXCEPT ![t].pc = "frDrop", ![t].copy = row']
          BY <2>2
        <4> QED
          BY <4>1, <3>1, <1>a, <1>b, TaskFields
      <3> QED
        BY <1>13, <3>1, <3>2 DEF ForceStart, Types, maps, chans
    <2> QED
      BY <1>13, <2>1, <2>2 DEF ForceStart
  <1>14. CASE ForceDrop(t)
    <2>1. killPtr' \in Chan /\ closed' \subseteq Chan
      BY <1>14, NewChannel DEF ForceDrop
    <2>2. CASE clientPtr = NoRun
      BY <1>14, <2>1, <2>2, <1>b, Moves DEF ForceDrop, Types
    <2>3. CASE clientPtr \in Run
      <3>1. cli' \in [Run -> ClientRec]
        <4>1. cli' = [cli EXCEPT ![clientPtr].conn = "down"]
          BY <1>14, <2>3, NoSlot DEF ForceDrop
        <4> QED
          BY <4>1, <2>3, <1>a, ClientFields
      <3>2. sending' \subseteq Sender \X (Chan \cup {NoChan})
        BY <1>14, <2>1, <2>3, NoSlot, HandlerSends DEF ForceDrop
      <3>3. task' \in [Task -> TaskRec]
        BY <1>14, <1>b, Moves DEF ForceDrop
      <3> QED
        BY <1>14, <2>1, <3>1, <3>2, <3>3 DEF ForceDrop, Types
    <2> QED
      BY <1>a, <2>2, <2>3
  <1>15. CASE ForceSpawn(t)
    BY <1>15, <1>a, <1>c, NewRun, Moves DEF ForceSpawn, Types, maps, chans
  <1>16. CASE DeleteCall(t)
    <2>1. CASE Live(clientPtr)
      <3>1. clientPtr \in Run
        BY <2>1, <1>a DEF Live
      <3>2. \/ cli' = [cli EXCEPT ![clientPtr].conn = "down", ![clientPtr].store = NoJid]
            \/ cli' = [cli EXCEPT ![clientPtr].conn = "down"]
        BY <1>16, <2>1 DEF DeleteCall
      <3>3. /\ [cli EXCEPT ![clientPtr].conn = "down", ![clientPtr].store = NoJid] \in [Run -> ClientRec]
            /\ [cli EXCEPT ![clientPtr].conn = "down"] \in [Run -> ClientRec]
        BY <3>1, <1>a, ClientFields
      <3>4. devices' \subseteq Jid
        BY <1>16, <2>1 DEF DeleteCall, Types
      <3>5. task' \in [Task -> TaskRec]
        BY <1>16, <1>b, Moves DEF DeleteCall
      <3>6. cli' \in [Run -> ClientRec]
        BY <3>2, <3>3
      <3> QED
        BY <1>16, <3>4, <3>5, <3>6 DEF DeleteCall, Types, maps, chans
    <2>2. CASE ~Live(clientPtr)
      BY <1>16, <2>2, <1>b, Moves DEF DeleteCall, Types, maps, chans
    <2> QED
      BY <2>1, <2>2
  <1>17. CASE DeleteClose(t)
    <2>1. CASE killPtr = NoChan
      BY <1>17, <2>1, <1>b, Moves DEF DeleteClose, Types, chans
    <2>2. CASE killPtr \in Chan
      <3>1. CloseKill(t, "delUnmap", myPtr) /\ clientPtr' = NoRun
        BY <1>17, <2>2, NoSlot DEF DeleteClose
      <3>2. row' \in Row /\ devices' \subseteq Jid /\ stimuli' \in Nat /\ myPtr \in Run \cup {NoRun}
        BY <1>17 DEF DeleteClose, Types
      <3> QED
        BY <2>2, <3>1, <3>2, <1>b, CloseKillTypes
    <2> QED
      BY <2>1, <2>2, <1>a
  <1>18. CASE DeleteUnmap(t)
    BY <1>18, <1>b, Moves DEF DeleteUnmap, Types, chans
  <1>19. CASE DeleteClear(t)
    <2>1. CASE killPtr = NoChan
      BY <1>19, <2>1, <1>b, Moves DEF DeleteClear, Types, chans
    <2>2. CASE killPtr \in Chan
      <3>1. CloseKill(t, "delUnmapClear", NoRun) /\ clientPtr' = NoRun
        BY <1>19, <2>2, NoSlot DEF DeleteClear
      <3>2. row' \in Row /\ devices' \subseteq Jid /\ stimuli' \in Nat
        BY <1>19 DEF DeleteClear, Types
      <3> QED
        BY <2>2, <3>1, <3>2, <1>b, CloseKillTypes
    <2> QED
      BY <2>1, <2>2, <1>a
  <1>20. CASE DeleteRow(t)
    BY <1>20, IdleTypes, Moves DEF DeleteRow, Types, maps, chans
  <1> QED
    BY <1>1, <1>2, <1>3, <1>4, <1>5, <1>6, <1>7, <1>8, <1>9, <1>10, <1>11, <1>12, <1>13,
       <1>14, <1>15, <1>16, <1>17, <1>18, <1>19, <1>20 DEF TaskStep

-----------------------------------------------------------------------------
(***************************************************************************)
(* Parked goroutines                                                       *)
(***************************************************************************)
SendPC == {"dcSend", "timedSend"}

\* A step that parks nobody keeps ParkedAtSend if every goroutine that leaves its
\* send is not parked afterwards.
LEMMA ParkedShrinks ==
  ASSUME Types, ParkedAtSend, sending' \subseteq sending,
         \A r \in Run : \/ run'[r].pc = "qrSend" \/ run[r].pc # "qrSend"
                        \/ \A s \in sending' : s[1] # <<"qr", r>>,
         \A t \in Task : \/ task'[t].pc \in SendPC \/ task[t].pc \notin SendPC
                         \/ \A s \in sending' : s[1] # <<"task", t>>
  PROVE  ParkedAtSend'
  <1>1. ASSUME NEW s \in sending', s[1][1] = "qr"
        PROVE  run'[s[1][2]].pc = "qrSend"
    <2>1. PICK r \in Run : s[1] = <<"qr", r>>
      BY <1>1 DEF Types, Sender
    <2>2. run[r].pc = "qrSend"
      BY <1>1, <2>1 DEF ParkedAtSend
    <2> QED
      BY <1>1, <2>1, <2>2
  <1>2. ASSUME NEW s \in sending', s[1][1] = "task"
        PROVE  task'[s[1][2]].pc \in SendPC
    <2>1. PICK t \in Task : s[1] = <<"task", t>>
      BY <1>2 DEF Types, Sender
    <2>2. task[t].pc \in SendPC
      BY <1>2, <2>1 DEF ParkedAtSend, SendPC
    <2> QED
      BY <1>2, <2>1, <2>2
  <1>3. \A s, u \in sending' : s[1] = u[1] => s = u
    BY DEF ParkedAtSend
  <1> QED
    BY <1>1, <1>2, <1>3 DEF ParkedAtSend, SendPC

\* A step that parks one goroutine, which was not parked, at its send.
LEMMA ParkedGrows ==
  ASSUME Types, ParkedAtSend, NEW who \in Sender, NEW c, ~Blocked(who),
         sending' = sending \cup {<<who, c>>},
         who[1] = "qr" => run'[who[2]].pc = "qrSend",
         who[1] = "task" => task'[who[2]].pc \in SendPC,
         \A r \in Run : run'[r].pc = "qrSend" \/ run[r].pc # "qrSend",
         \A t \in Task : task'[t].pc \in SendPC \/ task[t].pc \notin SendPC
  PROVE  ParkedAtSend'
  <1>1. ASSUME NEW s \in sending', s[1][1] = "qr"
        PROVE  run'[s[1][2]].pc = "qrSend"
    <2>1. CASE s \in sending
      <3>1. PICK r \in Run : s[1] = <<"qr", r>>
        BY <1>1, <2>1 DEF Types, Sender
      <3>2. run[r].pc = "qrSend"
        BY <1>1, <2>1, <3>1 DEF ParkedAtSend
      <3> QED
        BY <3>1, <3>2
    <2>2. CASE s = <<who, c>>
      BY <1>1, <2>2
    <2> QED
      BY <2>1, <2>2
  <1>2. ASSUME NEW s \in sending', s[1][1] = "task"
        PROVE  task'[s[1][2]].pc \in SendPC
    <2>1. CASE s \in sending
      <3>1. PICK t \in Task : s[1] = <<"task", t>>
        BY <1>2, <2>1 DEF Types, Sender
      <3>2. task[t].pc \in SendPC
        BY <1>2, <2>1, <3>1 DEF ParkedAtSend, SendPC
      <3> QED
        BY <3>1, <3>2
    <2>2. CASE s = <<who, c>>
      BY <1>2, <2>2
    <2> QED
      BY <2>1, <2>2
  <1>3. ASSUME NEW s \in sending', NEW u \in sending', s[1] = u[1]
        PROVE  s = u
    <2>1. CASE s \in sending /\ u \in sending
      BY <1>3, <2>1 DEF ParkedAtSend
    <2>2. CASE s = <<who, c>>
      BY <1>3, <2>2 DEF Blocked
    <2>3. CASE u = <<who, c>>
      BY <1>3, <2>3 DEF Blocked
    <2> QED
      BY <2>1, <2>2, <2>3
  <1> QED
    BY <1>1, <1>2, <1>3 DEF ParkedAtSend, SendPC

\* A goroutine whose next statement is no send is not parked.
LEMMA NotParked ==
  ASSUME ParkedAtSend
  PROVE  /\ \A r \in Run : run[r].pc # "qrSend" => ~Blocked(<<"qr", r>>)
         /\ \A t \in Task : task[t].pc \notin SendPC => ~Blocked(<<"task", t>>)
  BY DEF ParkedAtSend, Blocked, SendPC

LEMMA RunStepParked ==
  ASSUME Types, ParkedAtSend, NEW r \in Run, RunStep(r)
  PROVE  ParkedAtSend'
  <1>a. run \in [Run -> RunRec] /\ cli \in [Run -> ClientRec]
    BY DEF Types
  <1>1. CASE CheckClient(r)
    <2>1. sending' = sending /\ task' = task
      BY <1>1 DEF CheckClient, chans
    <2>2. run[r].pc # "qrSend" /\ \A x \in Run \ {r} : run'[x] = run[x]
      BY <1>1, <1>a DEF CheckClient
    <2> QED
      BY <2>1, <2>2, ParkedShrinks
  <1>2. CASE RegisterClient(r)
    <2>1. sending' = sending /\ task' = task
      BY <1>2 DEF RegisterClient, chans
    <2>2. run[r].pc # "qrSend" /\ \A x \in Run \ {r} : run'[x] = run[x]
      BY <1>2, <1>a DEF RegisterClient
    <2> QED
      BY <2>1, <2>2, ParkedShrinks
  <1>3. CASE ConnectClient(r)
    <2>1. sending' = sending /\ task' = task
      BY <1>3 DEF ConnectClient, chans
    <2>2. run[r].pc # "qrSend" /\ \A x \in Run \ {r} : run'[x] = run[x]
      BY <1>3, <1>a DEF ConnectClient
    <2> QED
      BY <2>1, <2>2, ParkedShrinks
  <1>4. CASE QrCode(r)
    <2>1. sending' = sending /\ task' = task
      BY <1>4 DEF QrCode, chans
    <2>2. run[r].pc # "qrSend" /\ \A x \in Run \ {r} : run'[x] = run[x]
      BY <1>4, <1>a DEF QrCode, QrEmits
    <2> QED
      BY <2>1, <2>2, ParkedShrinks
  <1>5. CASE QrLimit(r)
    <2>1. CASE Reset
      BY <2>1 DEF Reset, ParkedAtSend
    <2>2. CASE ~Reset
      <3>1. sending' = sending /\ task' = task
        BY <1>5, <2>2 DEF QrLimit
      <3>2. run[r].pc # "qrSend" /\ \A x \in Run \ {r} : run'[x] = run[x]
        BY <1>5, <2>2, <1>a DEF QrLimit, QrEmits
      <3> QED
        BY <3>1, <3>2, ParkedShrinks
    <2> QED
      BY <2>1, <2>2
  <1>6. CASE QrTimeout(r)
    <2>1. CASE Reset
      BY <2>1 DEF Reset, ParkedAtSend
    <2>2. CASE ~Reset
      <3>1. sending' = sending \cup {<<<<"qr", r>>, killPtr>>} /\ task' = task
        BY <1>6, <2>2 DEF QrTimeout
      <3>2. run[r].pc = "qr" /\ run' = [run EXCEPT ![r].pc = "qrSend", ![r].codes = 0]
        BY <1>6, <2>2 DEF QrTimeout
      <3>3. run'[r].pc = "qrSend" /\ \A x \in Run \ {r} : run'[x] = run[x]
        BY <3>2, <1>a DEF RunRec
      <3>4. <<"qr", r>> \in Sender /\ ~Blocked(<<"qr", r>>)
        BY <3>2, NotParked DEF Sender
      <3>5. <<"qr", r>>[1] = "qr" /\ <<"qr", r>>[2] = r
        OBVIOUS
      <3> QED
        BY <3>1, <3>3, <3>4, <3>5, ParkedGrows
    <2> QED
      BY <2>1, <2>2
  <1>7. CASE QrDrain(r)
    <2>1. sending' = sending /\ task' = task
      BY <1>7 DEF QrDrain, chans
    <2>2. run[r].pc # "qrSend" /\ \A x \in Run \ {r} : run'[x] = run[x]
      BY <1>7, <1>a DEF QrDrain
    <2> QED
      BY <2>1, <2>2, ParkedShrinks
  <1>8. CASE QrReport(r)
    <2>1. sending' = sending /\ task' = task
      BY <1>8 DEF QrReport, chans
    <2>2. \A s \in sending' : s[1] # <<"qr", r>>
      BY <1>8, <2>1 DEF QrReport, Blocked
    <2>3. \A x \in Run \ {r} : run'[x] = run[x]
      BY <1>8, <1>a DEF QrReport
    <2> QED
      BY <2>1, <2>2, <2>3, ParkedShrinks
  <1>9. CASE QrEnd(r)
    <2>1. sending' = sending /\ task' = task
      BY <1>9 DEF QrEnd, chans
    <2>2. run[r].pc # "qrSend" /\ \A x \in Run \ {r} : run'[x] = run[x]
      BY <1>9, <1>a DEF QrEnd
    <2> QED
      BY <2>1, <2>2, ParkedShrinks
  <1>10. CASE TakeKill(r)
    <2>1. sending' \subseteq sending /\ task' = task
      BY <1>10 DEF TakeKill
    <2>2. run[r].pc # "qrSend" /\ \A x \in Run \ {r} : run'[x] = run[x]
      BY <1>10, <1>a DEF TakeKill
    <2> QED
      BY <2>1, <2>2, ParkedShrinks
  <1>11. CASE RestartClient(r)
    <2>1. sending' = sending /\ task' = task
      BY <1>11 DEF RestartClient, chans
    <2>2. [run EXCEPT ![r] = IdleRun] \in [Run -> RunRec] /\ run[r].jid \in Jid \cup {NoJid}
      BY <1>a, IdleTypes, RunFields
    <2>3. \A x \in Run : run'[x] # [run EXCEPT ![r] = IdleRun][x] => run[x].pc = "free"
      BY <1>11, <1>a, <2>2, NewRun DEF RestartClient
    <2>4. run[r].pc # "qrSend" /\ \A x \in Run \ {r} : run'[x] = run[x] \/ run[x].pc = "free"
      BY <1>11, <1>a, <2>3 DEF RestartClient
    <2> QED
      BY <2>1, <2>4, ParkedShrinks
  <1> QED
    BY <1>1, <1>2, <1>3, <1>4, <1>5, <1>6, <1>7, <1>8, <1>9, <1>10, <1>11 DEF RunStep

LEMMA EventStepParked ==
  ASSUME Types, ParkedAtSend, EventStep
  PROVE  ParkedAtSend'
  <1>1. ASSUME NEW r \in Run, LoggedOut(r)
        PROVE  ParkedAtSend'
    <2>1. run' = run /\ task' = task
      BY <1>1 DEF LoggedOut
    <2>2. CASE sending' = sending
      BY <2>1, <2>2, ParkedShrinks
    <2>3. CASE sending' = sending \cup {<<<<"event", r>>, killPtr>>}
      <3>1. <<"event", r>> \in Sender /\ ~Blocked(<<"event", r>>)
        BY <1>1 DEF LoggedOut, Sender
      <3>2. <<"event", r>>[1] = "event"
        OBVIOUS
      <3> QED
        BY <2>1, <2>3, <3>1, <3>2, ParkedGrows
    <2> QED
      BY <1>1, <2>2, <2>3 DEF LoggedOut
  <1>2. ASSUME NEW r \in Run, Disconnected(r)
        PROVE  ParkedAtSend'
    <2>1. run' = run /\ sending' = sending
      BY <1>2 DEF Disconnected, chans
    <2>2. CASE task' = task
      BY <2>1, <2>2, ParkedShrinks
    <2>3. ASSUME NEW t \in Task, task[t].pc = "idle",
                 task' = [task EXCEPT ![t].pc = "rcDrop", ![t].op = "Restart"]
          PROVE  ParkedAtSend'
      <3>1. task \in [Task -> TaskRec]
        BY DEF Types
      <3>2. \A x \in Task \ {t} : task'[x] = task[x]
        BY <2>3, <3>1
      <3>3. task[t].pc \notin SendPC
        BY <2>3 DEF SendPC
      <3> QED
        BY <2>1, <3>2, <3>3, ParkedShrinks
    <2> QED
      BY <1>2, <2>2, <2>3 DEF Disconnected
  <1>3. ASSUME run' = run, task' = task, sending' \subseteq sending
        PROVE  ParkedAtSend'
    BY <1>3, ParkedShrinks
  <1>4. ASSUME NEW r \in Run, NEW j \in Jid, PairSuccess(r, j)
        PROVE  ParkedAtSend'
    BY <1>3, <1>4 DEF PairSuccess, chans
  <1>5. ASSUME NEW r \in Run, \/ PairError(r) \/ LoginAccepted(r) \/ Connected(r)
                              \/ Undecryptable(r) \/ UndecryptableConnect(r)
        PROVE  ParkedAtSend'
    BY <1>3, <1>5 DEF PairError, LoginAccepted, Connected, Undecryptable, UndecryptableConnect, chans
  <1>6. ASSUME NEW s \in sending, PresenceTakes(s)
        PROVE  ParkedAtSend'
    BY <1>3, <1>6 DEF PresenceTakes
  <1>7. ASSUME NEW c \in presence, PresenceTick(c)
        PROVE  ParkedAtSend'
    BY <1>3, <1>7 DEF PresenceTick
  <1> QED
    BY <1>1, <1>2, <1>4, <1>5, <1>6, <1>7 DEF EventStep

\* A handler that moves on changes no other handler.
LEMMA MovesAlone ==
  ASSUME Types, NEW t \in Task
  PROVE  /\ Finish(t) => /\ task'[t].pc = "idle"
                         /\ \A x \in Task \ {t} : task'[x] = task[x]
         /\ \A l : Goto(t, l) => /\ task'[t].pc = l
                                 /\ \A x \in Task \ {t} : task'[x] = task[x]
  <1>1. task \in [Task -> TaskRec]
    BY DEF Types
  <1>2. Finish(t) => task'[t].pc = "idle" /\ \A x \in Task \ {t} : task'[x] = task[x]
    BY <1>1 DEF Finish, IdleTask
  <1>3. \A l : Goto(t, l) => task'[t].pc = l /\ \A x \in Task \ {t} : task'[x] = task[x]
    BY <1>1 DEF Goto, TaskRec
  <1> QED
    BY <1>2, <1>3

\* A handler that is at no send leaves it alone, or parks itself at its send.
LEMMA HandlerParks ==
  ASSUME Types, ParkedAtSend, NEW t \in Task, task[t].pc \notin SendPC,
         \A x \in Task \ {t} : task'[x] = task[x],
         \A r \in Run : run'[r].pc = run[r].pc \/ run[r].pc = "free",
         \/ sending' = sending
         \/ /\ task'[t].pc \in SendPC
            /\ \E c : sending' = sending \cup {<<<<"task", t>>, c>>}
  PROVE  ParkedAtSend'
  <1>1. CASE sending' = sending
    BY <1>1, ParkedShrinks
  <1>2. ASSUME NEW c, sending' = sending \cup {<<<<"task", t>>, c>>}, task'[t].pc \in SendPC
        PROVE  ParkedAtSend'
    <2>1. <<"task", t>> \in Sender /\ ~Blocked(<<"task", t>>)
      BY NotParked DEF Sender
    <2>2. <<"task", t>>[1] = "task" /\ <<"task", t>>[2] = t
      OBVIOUS
    <2> QED
      BY <1>2, <2>1, <2>2, ParkedGrows
  <1> QED
    BY <1>1, <1>2

\* close(killChannel[id]): the closing handler is not parked itself, and who is
\* parked on another channel is not on this one.
LEMMA CloseKillParked ==
  ASSUME Types, ParkedAtSend, NEW t \in Task, NEW next, NEW my,
         task[t].pc \notin SendPC, CloseKill(t, next, my)
  PROVE  ParkedAtSend'
  <1>1. CASE killPtr \in closed
    <2>1. Finish(t) /\ UNCHANGED <<chans, run>>
      BY <1>1 DEF CloseKill
    <2> QED
      BY <2>1, MovesAlone, HandlerParks DEF chans
  <1>2. CASE Reset
    BY <1>2 DEF Reset, ParkedAtSend
  <1>3. CASE killPtr \notin closed /\ ~Reset
    <2>1. /\ sending' = sending \ WaitingOn(killPtr) /\ run' = run
          /\ task' = [x \in Task |-> IF x = t THEN [task[t] EXCEPT !.pc = next]
                     ELSE IF <<<<"task", x>>, killPtr>> \in sending THEN IdleTask
                     ELSE task[x]]
      BY <1>3 DEF CloseKill
    <2>2. ASSUME NEW x \in Task, task[x].pc \in SendPC, NEW s \in sending', s[1] = <<"task", x>>
          PROVE  task'[x] = task[x]
      <3>1. s \in sending /\ s[2] # killPtr
        BY <2>1, <2>2 DEF WaitingOn
      <3>2. <<<<"task", x>>, killPtr>> \notin sending
        BY <2>2, <3>1 DEF ParkedAtSend
      <3> QED
        BY <2>1, <2>2, <3>2
    <2> QED
      BY <2>1, <2>2, ParkedShrinks
  <1> QED
    BY <1>1, <1>2, <1>3

LEMMA TaskStepParked ==
  ASSUME Types, ParkedAtSend, NEW t \in Task, TaskStep(t)
  PROVE  ParkedAtSend'
  <1>a. /\ run \in [Run -> RunRec] /\ cli \in [Run -> ClientRec] /\ task \in [Task -> TaskRec]
        /\ task[t].copy.jid \in Jid \cup {NoJid}
    BY TaskFields DEF Types, Row
  <1>b. \A j \in Jid \cup {NoJid} :
          Spawn(j, run, cli) => \A r \in Run : run'[r].pc = run[r].pc \/ run[r].pc = "free"
    BY <1>a, NewRun
  <1>c. StartInstance => \A r \in Run : run'[r].pc = run[r].pc \/ run[r].pc = "free"
    BY <1>b DEF StartInstance, Types, Row
  <1>1. CASE ConnectSave(t)
    <2>1. task[t].pc \notin SendPC
      BY <1>1 DEF ConnectSave, At, SendPC
    <2>2. /\ sending' = sending /\ \A x \in Task \ {t} : task'[x] = task[x]
          /\ \A r \in Run : run'[r].pc = run[r].pc \/ run[r].pc = "free"
      BY <1>1, <1>a, MovesAlone DEF ConnectSave, chans
    <2> QED
      BY <2>1, <2>2, HandlerParks
  <1>2. CASE ConnectStart(t)
    <2>1. task[t].pc \notin SendPC
      BY <1>2 DEF ConnectStart, At, SendPC
    <2>2. /\ sending' = sending /\ \A x \in Task \ {t} : task'[x] = task[x]
          /\ \A r \in Run : run'[r].pc = run[r].pc \/ run[r].pc = "free"
      BY <1>2, <1>a, <1>b, MovesAlone DEF ConnectStart, chans
    <2> QED
      BY <2>1, <2>2, HandlerParks
  <1>3. CASE ProxySave(t)
    <2>1. task[t].pc \notin SendPC
      BY <1>3 DEF ProxySave, At, SendPC
    <2>2. /\ sending' = sending /\ \A x \in Task \ {t} : task'[x] = task[x]
          /\ \A r \in Run : run'[r].pc = run[r].pc \/ run[r].pc = "free"
      BY <1>3, <1>a DEF ProxySave, chans
    <2> QED
      BY <2>1, <2>2, HandlerParks
  <1>6. CASE ReconnectDrop(t)
    <2>1. task[t].pc \notin SendPC
      BY <1>6 DEF ReconnectDrop, At, SendPC
    <2>2. /\ sending' = sending /\ \A x \in Task \ {t} : task'[x] = task[x]
          /\ \A r \in Run : run'[r].pc = run[r].pc \/ run[r].pc = "free"
      BY <1>6, <1>a DEF ReconnectDrop, chans
    <2> QED
      BY <2>1, <2>2, HandlerParks
  <1>8. CASE ReconnectStart(t)
    <2>1. task[t].pc \notin SendPC
      BY <1>8 DEF ReconnectStart, At, SendPC
    <2>2. /\ sending' = sending /\ \A x \in Task \ {t} : task'[x] = task[x]
          /\ \A r \in Run : run'[r].pc = run[r].pc \/ run[r].pc = "free"
      BY <1>8, <1>a, <1>c, MovesAlone DEF ReconnectStart, chans
    <2> QED
      BY <2>1, <2>2, HandlerParks
  <1>13. CASE ForceStart(t)
    <2>1. task[t].pc \notin SendPC
      BY <1>13 DEF ForceStart, At, SendPC
    <2>2. /\ sending' = sending /\ \A x \in Task \ {t} : task'[x] = task[x]
          /\ \A r \in Run : run'[r].pc = run[r].pc \/ run[r].pc = "free"
      BY <1>13, <1>a, MovesAlone DEF ForceStart, chans
    <2> QED
      BY <2>1, <2>2, HandlerParks
  <1>15. CASE ForceSpawn(t)
    <2>1. task[t].pc \notin SendPC
      BY <1>15 DEF ForceSpawn, At, SendPC
    <2>2. /\ sending' = sending /\ \A x \in Task \ {t} : task'[x] = task[x]
          /\ \A r \in Run : run'[r].pc = run[r].pc \/ run[r].pc = "free"
      BY <1>15, <1>a, <1>b, MovesAlone DEF ForceSpawn, chans
    <2> QED
      BY <2>1, <2>2, HandlerParks
  <1>16. CASE DeleteCall(t)
    <2>1. task[t].pc \notin SendPC
      BY <1>16 DEF DeleteCall, At, SendPC
    <2>2. /\ sending' = sending /\ \A x \in Task \ {t} : task'[x] = task[x]
          /\ \A r \in Run : run'[r].pc = run[r].pc \/ run[r].pc = "free"
      BY <1>16, <1>a, MovesAlone DEF DeleteCall, chans
    <2> QED
      BY <2>1, <2>2, HandlerParks
  <1>18. CASE DeleteUnmap(t)
    <2>1. task[t].pc \notin SendPC
      BY <1>18 DEF DeleteUnmap, At, SendPC
    <2>2. /\ sending' = sending /\ \A x \in Task \ {t} : task'[x] = task[x]
          /\ \A r \in Run : run'[r].pc = run[r].pc \/ run[r].pc = "free"
      BY <1>18, <1>a, MovesAlone DEF DeleteUnmap, chans
    <2> QED
      BY <2>1, <2>2, HandlerParks
  <1>20. CASE DeleteRow(t)
    <2>1. task[t].pc \notin SendPC
      BY <1>20 DEF DeleteRow, At, SendPC
    <2>2. /\ sending' = sending /\ \A x \in Task \ {t} : task'[x] = task[x]
          /\ \A r \in Run : run'[r].pc = run[r].pc \/ run[r].pc = "free"
      BY <1>20, <1>a, MovesAlone DEF DeleteRow, chans
    <2> QED
      BY <2>1, <2>2, HandlerParks
  <1>d. ASSUME NEW c, Ensured(t, c)
        PROVE  /\ \A x \in Task \ {t} : task'[x] = task[x]
               /\ \/ sending' = sending
                  \/ /\ task'[t].pc \in SendPC
                     /\ sending' = sending \cup {<<<<"task", t>>, killPtr>>}
    <2>1. CASE Finish(t) /\ sending' = sending
      BY <2>1, MovesAlone
    <2>2. CASE task' = [task EXCEPT ![t].pc = "dcSend", ![t].client = c]
      <3>1. task'[t].pc = "dcSend" /\ \A x \in Task \ {t} : task'[x] = task[x]
        BY <2>2, <1>a DEF TaskRec
      <3>2. sending' = sending \/ sending' = sending \cup {<<<<"task", t>>, killPtr>>}
        BY <1>d DEF Ensured
      <3> QED
        BY <3>1, <3>2 DEF SendPC
    <2>3. ASSUME NEW n \in {"rcDrop", "loCall"},
                 task' = [task EXCEPT ![t].pc = n, ![t].client = c], sending' = sending
          PROVE  /\ \A x \in Task \ {t} : task'[x] = task[x]
                 /\ sending' = sending
      BY <2>3, <1>a
    <2> QED
      BY <1>d, <2>1, <2>2, <2>3 DEF Ensured
  <1>e. ASSUME NEW c, TimedSend(t, c)
        PROVE  /\ \A x \in Task \ {t} : task'[x] = task[x]
               /\ \/ sending' = sending
                  \/ /\ task'[t].pc \in SendPC
                     /\ sending' = sending \cup {<<<<"task", t>>, c>>}
    BY <1>e, MovesAlone DEF TimedSend, SendPC
  <1>4. CASE EnsureClient(t)
    <2>1. task[t].pc \notin SendPC
      BY <1>4 DEF EnsureClient, At, SendPC
    <2>2. CASE Ensured(t, clientPtr) /\ UNCHANGED <<killPtr, closed, run, cli>>
      BY <2>1, <2>2, <1>d, HandlerParks
    <2>3. CASE StartInstance /\ Goto(t, "ensureWait") /\ UNCHANGED sending
      BY <2>1, <2>3, <1>c, MovesAlone, HandlerParks
    <2>4. CASE Finish(t) /\ UNCHANGED <<sending, killPtr, closed, run, cli>>
      BY <2>1, <2>4, MovesAlone, HandlerParks
    <2> QED
      BY <1>4, <2>2, <2>3, <2>4 DEF EnsureClient
  <1>5. CASE EnsureAgain(t)
    <2>1. task[t].pc \notin SendPC /\ run' = run
      BY <1>5 DEF EnsureAgain, At, SendPC
    <2>2. CASE Ensured(t, clientPtr)
      BY <2>1, <2>2, <1>d, HandlerParks
    <2>3. CASE Finish(t) /\ UNCHANGED sending
      BY <2>1, <2>3, MovesAlone, HandlerParks
    <2> QED
      BY <1>5, <2>2, <2>3 DEF EnsureAgain
  <1>7. CASE ReconnectClean(t)
    <2>1. task[t].pc \notin SendPC
      BY <1>7 DEF ReconnectClean, At, SendPC
    <2>2. CASE Reset
      BY <2>2 DEF Reset, ParkedAtSend
    <2>3. CASE CleanRow(t) /\ run' = run /\ sending' = sending
      <3>1. \A x \in Task \ {t} : task'[x] = task[x]
        BY <2>3, <1>a, MovesAlone DEF CleanRow
      <3> QED
        BY <2>1, <2>3, <3>1, HandlerParks
    <2>4. CASE Finish(t) /\ run' = run /\ sending' = sending
      BY <2>1, <2>4, MovesAlone, HandlerParks
    <2> QED
      BY <1>7, <2>2, <2>3, <2>4 DEF ReconnectClean, chans
  <1>9. CASE DisconnectSave(t)
    <2>1. sending' = sending /\ run' = run /\ \A s \in sending' : s[1] # <<"task", t>>
      BY <1>9 DEF DisconnectSave, Blocked, chans
    <2>2. \A x \in Task \ {t} : task'[x] = task[x]
      BY <1>9, MovesAlone DEF DisconnectSave
    <2> QED
      BY <2>1, <2>2, ParkedShrinks
  <1>10. CASE LogoutCall(t)
    <2>1. task[t].pc \notin SendPC /\ run' = run
      BY <1>10 DEF LogoutCall, At, SendPC
    <2>2. CASE Goto(t, "loSave") /\ UNCHANGED sending
      BY <2>1, <2>2, MovesAlone, HandlerParks
    <2>3. CASE TimedSend(t, killPtr)
      BY <2>1, <2>3, <1>e, HandlerParks
    <2>4. CASE Finish(t) /\ UNCHANGED sending
      BY <2>1, <2>4, MovesAlone, HandlerParks
    <2> QED
      BY <1>10, <2>2, <2>3, <2>4 DEF LogoutCall
  <1>11. CASE LogoutSave(t)
    <2>1. task[t].pc \notin SendPC /\ run' = run /\ TimedSend(t, killPtr)
      BY <1>11 DEF LogoutSave, At, SendPC
    <2> QED
      BY <2>1, <1>e, HandlerParks
  <1>12. CASE Unmap(t)
    <2>1. sending' \subseteq sending /\ run' = run /\ \A s \in sending' : s[1] # <<"task", t>>
      BY <1>12 DEF Unmap
    <2>2. \A x \in Task \ {t} : task'[x] = task[x]
      BY <1>12, MovesAlone DEF Unmap
    <2> QED
      BY <2>1, <2>2, ParkedShrinks
  <1>14. CASE ForceDrop(t)
    <2>1. task[t].pc \notin SendPC /\ run' = run
      BY <1>14 DEF ForceDrop, At, SendPC
    <2>2. CASE Goto(t, "frSpawn") /\ UNCHANGED <<cli, sending>>
      BY <2>1, <2>2, MovesAlone, HandlerParks
    <2>3. CASE sending' = sending \cup {<<<<"task", t>>, killPtr'>>} /\ Goto(t, "timedSend")
      <3>1. task'[t].pc \in SendPC /\ \A x \in Task \ {t} : task'[x] = task[x]
        BY <2>3, MovesAlone DEF SendPC
      <3> QED
        BY <2>1, <2>3, <3>1, HandlerParks
    <2> QED
      BY <1>14, <2>2, <2>3 DEF ForceDrop
  <1>17. CASE DeleteClose(t)
    <2>1. task[t].pc \notin SendPC
      BY <1>17 DEF DeleteClose, At, SendPC
    <2>2. CASE Goto(t, "delClear") /\ UNCHANGED <<myPtr, killPtr, chans, run, cli, startup>>
      BY <2>1, <2>2, MovesAlone, HandlerParks DEF chans
    <2>3. CASE CloseKill(t, "delUnmap", myPtr)
      BY <2>1, <2>3, CloseKillParked
    <2> QED
      BY <1>17, <2>2, <2>3 DEF DeleteClose
  <1>19. CASE DeleteClear(t)
    <2>1. task[t].pc \notin SendPC
      BY <1>19 DEF DeleteClear, At, SendPC
    <2>2. CASE Goto(t, "delRow") /\ myPtr' = NoRun /\ UNCHANGED <<killPtr, chans, run, cli, startup>>
      BY <2>1, <2>2, MovesAlone, HandlerParks DEF chans
    <2>3. CASE CloseKill(t, "delUnmapClear", NoRun)
      BY <2>1, <2>3, CloseKillParked
    <2> QED
      BY <1>19, <2>2, <2>3 DEF DeleteClear
  <1> QED
    BY <1>1, <1>2, <1>3, <1>4, <1>5, <1>6, <1>7, <1>8, <1>9, <1>10, <1>11, <1>12, <1>13,
       <1>14, <1>15, <1>16, <1>17, <1>18, <1>19, <1>20 DEF TaskStep

-----------------------------------------------------------------------------
(***************************************************************************)
(* Type correctness                                                        *)
(***************************************************************************)
LEMMA InitTypes == Init => TypeOK
  <1> SUFFICES ASSUME Init PROVE TypeOK
    OBVIOUS
  <1>1. Types
    BY IdleTypes, LifecycleAssumption DEF Init, Types, Row, LifecycleAssumption
  <1>2. ParkedAtSend
    BY DEF Init, ParkedAtSend
  <1> QED
    BY <1>1, <1>2 DEF TypeOK

LEMMA NextTypes == TypeOK /\ [Next]_vars => TypeOK'
  <1> SUFFICES ASSUME TypeOK, [Next]_vars PROVE TypeOK'
    OBVIOUS
  <1>a. Types /\ ParkedAtSend
    BY DEF TypeOK
  <1>1. ASSUME NEW r \in Run, RunStep(r) PROVE TypeOK'
    BY <1>1, <1>a, RunStepTypes, RunStepParked DEF TypeOK
  <1>2. CASE EventStep
    BY <1>2, <1>a, EventStepTypes, EventStepParked DEF TypeOK
  <1>3. ASSUME NEW t \in Task, NEW o \in Ops, Request(t, o) PROVE TypeOK'
    <2>1. task \in [Task -> TaskRec] /\ row \in Row
      BY <1>a DEF Types
    <2>2. FirstPC(o) \in TaskPC /\ o \in AllOps
      BY LifecycleAssumption DEF FirstPC, TaskPC, LifecycleAssumption
    <2>3. PICK copy \in Row : task' = [task EXCEPT ![t] = [pc |-> FirstPC(o), op |-> o,
                                         copy |-> copy, client |-> NoRun]]
      BY <1>3, <2>1, IdleTypes DEF Request
    <2>4. [pc |-> FirstPC(o), op |-> o, copy |-> copy, client |-> NoRun] \in TaskRec
      BY <2>2 DEF TaskRec
    <2>5. task' \in [Task -> TaskRec]
      BY <2>1, <2>3, <2>4
    <2>6. Types'
      BY <1>3, <1>a, <2>5 DEF Request, Types, Stimulus, maps, chans
    <2>7. task[t].pc \notin SendPC /\ run' = run /\ sending' = sending
      BY <1>3 DEF Request, SendPC, chans
    <2>8. \A x \in Task \ {t} : task'[x] = task[x]
      BY <2>1, <2>3
    <2> QED
      BY <1>a, <2>6, <2>7, <2>8, HandlerParks DEF TypeOK
  <1>4. ASSUME NEW t \in Task, TaskStep(t) PROVE TypeOK'
    BY <1>4, <1>a, TaskStepTypes, TaskStepParked DEF TypeOK
  <1>5. CASE ConnectOnStartup
    <2>1. /\ killPtr' \in Chan \cup {NoChan} /\ closed' \subseteq Chan
          /\ run' \in [Run -> RunRec] /\ cli' \in [Run -> ClientRec]
      BY <1>5, <1>a, StartInstanceTypes DEF ConnectOnStartup, Types
    <2>2. Types'
      BY <1>5, <1>a, <2>1 DEF ConnectOnStartup, Types
    <2>3. row.jid \in Jid \cup {NoJid} /\ run \in [Run -> RunRec] /\ cli \in [Run -> ClientRec]
      BY <1>a DEF Types, Row
    <2>4. sending' = sending /\ task' = task /\ \A r \in Run : run'[r] = run[r] \/ run[r].pc = "free"
      BY <1>5, <2>3, NewRun DEF ConnectOnStartup, StartInstance
    <2> QED
      BY <1>a, <2>2, <2>4, ParkedShrinks DEF TypeOK
  <1>6. CASE Crash
    <2>1. row' \in Row /\ stimuli' \in Nat
      BY <1>6, <1>a DEF Crash, Stimulus, Types
    <2> QED
      BY <1>6, <1>a, <2>1, AfterReset DEF Crash, TypeOK
  <1>7. CASE UNCHANGED vars
    BY <1>7, <1>a DEF vars, maps, chans, TypeOK, Types, ParkedAtSend
  <1> QED
    BY <1>1, <1>2, <1>3, <1>4, <1>5, <1>6, <1>7 DEF Next

\* Every variable keeps its type, and no goroutine leaves a send and stays parked: a
\* timer takes its sender out of the channel, a close takes all of them.
THEOREM TypeCorrect == Spec => []TypeOK
  <1> QED
    BY InitTypes, NextTypes, PTL DEF Spec

-----------------------------------------------------------------------------
(***************************************************************************)
(* The closed kill channel                                                 *)
(***************************************************************************)
UnmapPC == {"delUnmap", "delUnmapClear"}

\* A step that touches neither the map entry nor a Delete about to unmap it.
LEMMA BriefKept ==
  ASSUME ClosedChannelBrief, killPtr' = killPtr, closed' = closed,
         \A x \in Task : task[x].pc \in UnmapPC => task'[x].pc = task[x].pc
  PROVE  ClosedChannelBrief'
  BY DEF ClosedChannelBrief, UnmapPC

\* A step after which the entry is absent, or is a channel that is open.
LEMMA BriefOpen ==
  ASSUME \/ killPtr' \notin closed' \/ (killPtr' = NoChan /\ closed' \subseteq Chan)
  PROVE  ClosedChannelBrief'
  BY NoSlot DEF ClosedChannelBrief

LEMMA BriefAfterReset ==
  ASSUME Reset
  PROVE  ClosedChannelBrief'
  BY DEF Reset, ClosedChannelBrief

\* close(killChannel[id]) by a Delete, which goes on to unmap the channel.
LEMMA CloseKillBrief ==
  ASSUME Types, ClosedChannelBrief, NEW t \in Task, NEW next \in UnmapPC, NEW my,
         task[t].pc \notin UnmapPC, CloseKill(t, next, my)
  PROVE  ClosedChannelBrief'
  <1>1. CASE killPtr \in closed
    <2>1. Finish(t) /\ killPtr' = killPtr /\ closed' = closed
      BY <1>1 DEF CloseKill, chans
    <2> QED
      BY <2>1, MovesAlone, BriefKept
  <1>2. CASE Reset
    BY <1>2, BriefAfterReset
  <1>3. CASE killPtr \notin closed /\ ~Reset
    <2>1. task' = [x \in Task |-> IF x = t THEN [task[t] EXCEPT !.pc = next]
                     ELSE IF <<<<"task", x>>, killPtr>> \in sending THEN IdleTask
                     ELSE task[x]]
      BY <1>3 DEF CloseKill
    <2>2. task[t] \in TaskRec
      BY DEF Types
    <2>3. task'[t].pc = next
      BY <2>1, <2>2 DEF TaskRec
    <2> QED
      BY <2>3 DEF ClosedChannelBrief, UnmapPC
  <1> QED
    BY <1>1, <1>2, <1>3

LEMMA RunStepBrief ==
  ASSUME TypeOK, ClosedChannelBrief, NEW r \in Run, RunStep(r)
  PROVE  ClosedChannelBrief'
  <1>a. closed \subseteq Chan
    BY DEF TypeOK, Types
  <1>1. CASE \/ CheckClient(r) \/ RegisterClient(r) \/ ConnectClient(r) \/ QrCode(r)
             \/ QrDrain(r) \/ QrReport(r) \/ QrEnd(r) \/ TakeKill(r) \/ RestartClient(r)
    <2>1. killPtr' = killPtr /\ closed' = closed /\ task' = task
      BY <1>1 DEF CheckClient, RegisterClient, ConnectClient, QrCode, QrDrain, QrReport, QrEnd,
                  TakeKill, RestartClient, maps, chans
    <2> QED
      BY <2>1, BriefKept
  <1>2. CASE QrLimit(r)
    <2>1. Reset \/ (killPtr' = NoChan /\ closed' = closed)
      BY <1>2 DEF QrLimit
    <2> QED
      BY <2>1, <1>a, BriefAfterReset, BriefOpen
  <1>3. CASE QrTimeout(r)
    <2>1. Reset \/ (killPtr' = killPtr /\ closed' = closed /\ task' = task)
      BY <1>3 DEF QrTimeout
    <2> QED
      BY <2>1, BriefAfterReset, BriefKept
  <1> QED
    BY <1>1, <1>2, <1>3 DEF RunStep

LEMMA EventStepBrief ==
  ASSUME TypeOK, ClosedChannelBrief, EventStep
  PROVE  ClosedChannelBrief'
  <1>1. killPtr' = killPtr /\ closed' = closed
    BY DEF EventStep, PairSuccess, PairError, LoginAccepted, Connected, Disconnected, LoggedOut,
           Undecryptable, UndecryptableConnect, PresenceTakes, PresenceTick, maps, chans
  <1>2. \/ task' = task
        \/ \E t \in Task : /\ task[t].pc = "idle"
                          /\ task' = [task EXCEPT ![t].pc = "rcDrop", ![t].op = "Restart"]
    BY DEF EventStep, PairSuccess, PairError, LoginAccepted, Connected, Disconnected, LoggedOut,
           Undecryptable, UndecryptableConnect, PresenceTakes, PresenceTick
  <1>3. task \in [Task -> TaskRec]
    BY DEF TypeOK, Types
  <1>4. \A x \in Task : task[x].pc \in UnmapPC => task'[x] = task[x]
    BY <1>2, <1>3 DEF UnmapPC
  <1> QED
    BY <1>1, <1>4, BriefKept

LEMMA TaskStepBrief ==
  ASSUME TypeOK, ClosedChannelBrief, NEW t \in Task, TaskStep(t)
  PROVE  ClosedChannelBrief'
  <1>a. Types /\ task \in [Task -> TaskRec] /\ closed \subseteq Chan
    BY DEF TypeOK, Types
  <1>1. CASE ConnectSave(t)
    <2>1. task[t].pc \notin UnmapPC /\ killPtr' = killPtr /\ closed' = closed
      BY <1>1 DEF ConnectSave, At, UnmapPC, maps, chans
    <2>2. \A x \in Task \ {t} : task'[x] = task[x]
      BY <1>1, <1>a, MovesAlone DEF ConnectSave
    <2> QED
      BY <2>1, <2>2, BriefKept
  <1>2. CASE ConnectStart(t)
    <2>1. CASE MakeKillChannel
      BY <2>1, <1>a, NewChannel, BriefOpen
    <2>2. CASE UNCHANGED <<killPtr, closed, run, cli>>
      <3>1. Finish(t) /\ task[t].pc \notin UnmapPC
        BY <1>2 DEF ConnectStart, At, UnmapPC
      <3> QED
        BY <2>2, <3>1, <1>a, MovesAlone, BriefKept
    <2> QED
      BY <1>2, <2>1, <2>2 DEF ConnectStart
  <1>3. CASE ProxySave(t)
    <2>1. task[t].pc \notin UnmapPC /\ killPtr' = killPtr /\ closed' = closed
      BY <1>3 DEF ProxySave, At, UnmapPC, maps, chans
    <2>2. \A x \in Task \ {t} : task'[x] = task[x]
      BY <1>3, <1>a, MovesAlone DEF ProxySave
    <2> QED
      BY <2>1, <2>2, BriefKept
  <1>4. CASE EnsureClient(t)
    <2>1. CASE StartInstance
      BY <2>1, <1>a, StartInstanceTypes, BriefOpen
    <2>2. CASE ~StartInstance
      <3>1. task[t].pc \notin UnmapPC /\ killPtr' = killPtr /\ closed' = closed
        BY <1>4, <2>2 DEF EnsureClient, At, UnmapPC
      <3>2. Finish(t) \/ Ensured(t, clientPtr)
        BY <1>4, <2>2 DEF EnsureClient
      <3>3. \A x \in Task \ {t} : task'[x] = task[x]
        BY <3>2, <1>a, MovesAlone DEF Ensured
      <3> QED
        BY <3>1, <3>3, BriefKept
    <2> QED
      BY <2>1, <2>2
  <1>5. CASE EnsureAgain(t)
    <2>1. task[t].pc \notin UnmapPC /\ killPtr' = killPtr /\ closed' = closed
      BY <1>5 DEF EnsureAgain, At, UnmapPC, maps
    <2>2. Finish(t) \/ Ensured(t, clientPtr)
      BY <1>5 DEF EnsureAgain
    <2>3. \A x \in Task \ {t} : task'[x] = task[x]
      BY <2>2, <1>a, MovesAlone DEF Ensured
    <2> QED
      BY <2>1, <2>3, BriefKept
  <1>6. CASE ReconnectDrop(t)
    <2>1. task[t].pc \notin UnmapPC /\ killPtr' = killPtr /\ closed' = closed
      BY <1>6 DEF ReconnectDrop, At, UnmapPC, maps, chans
    <2>2. \A x \in Task \ {t} : task'[x] = task[x]
      BY <1>6, <1>a, MovesAlone DEF ReconnectDrop
    <2> QED
      BY <2>1, <2>2, BriefKept
  <1>7. CASE ReconnectClean(t)
    <2>1. CASE Reset
      BY <2>1, BriefAfterReset
    <2>2. CASE CleanMaps /\ closed' = closed
      BY <2>2, <1>a, BriefOpen DEF CleanMaps
    <2>3. CASE Finish(t) /\ UNCHANGED <<row, devices, maps, chans, run, startup>>
      <3>1. task[t].pc \notin UnmapPC /\ killPtr' = killPtr /\ closed' = closed
        BY <1>7, <2>3 DEF ReconnectClean, At, UnmapPC, maps, chans
      <3> QED
        BY <2>3, <3>1, <1>a, MovesAlone, BriefKept
    <2> QED
      BY <1>7, <2>1, <2>2, <2>3 DEF ReconnectClean
  <1>8. CASE ReconnectStart(t)
    <2>1. CASE StartInstance
      BY <2>1, <1>a, StartInstanceTypes, BriefOpen
    <2>2. CASE UNCHANGED <<killPtr, closed, run, cli>>
      <3>1. Finish(t) /\ task[t].pc \notin UnmapPC
        BY <1>8 DEF ReconnectStart, At, UnmapPC
      <3> QED
        BY <2>2, <3>1, <1>a, MovesAlone, BriefKept
    <2> QED
      BY <1>8, <2>1, <2>2 DEF ReconnectStart
  <1>9. CASE DisconnectSave(t)
    <2>1. task[t].pc \notin UnmapPC /\ killPtr' = killPtr /\ closed' = closed
      BY <1>9 DEF DisconnectSave, At, UnmapPC, maps, chans
    <2>2. \A x \in Task \ {t} : task'[x] = task[x]
      BY <1>9, <1>a, MovesAlone DEF DisconnectSave
    <2> QED
      BY <2>1, <2>2, BriefKept
  <1>10. CASE LogoutCall(t) \/ LogoutSave(t)
    <2>1. task[t].pc \notin UnmapPC /\ killPtr' = killPtr /\ closed' = closed
      BY <1>10 DEF LogoutCall, LogoutSave, At, UnmapPC, maps
    <2>2. Finish(t) \/ \E l \in {"loSave", "timedSend"} : Goto(t, l)
      BY <1>10 DEF LogoutCall, LogoutSave, TimedSend
    <2> QED
      BY <2>1, <2>2, <1>a, MovesAlone, BriefKept
  <1>12. CASE Unmap(t)
    BY <1>12, <1>a, BriefOpen DEF Unmap
  <1>13. CASE ForceStart(t)
    <2>1. task[t].pc \notin UnmapPC /\ killPtr' = killPtr /\ closed' = closed
      BY <1>13 DEF ForceStart, At, UnmapPC, maps, chans
    <2>2. \A x \in Task \ {t} : task'[x] = task[x]
      BY <1>13, <1>a, MovesAlone DEF ForceStart
    <2> QED
      BY <2>1, <2>2, BriefKept
  <1>14. CASE ForceDrop(t)
    BY <1>14, <1>a, NewChannel, BriefOpen DEF ForceDrop
  <1>15. CASE ForceSpawn(t)
    <2>1. task[t].pc \notin UnmapPC /\ killPtr' = killPtr /\ closed' = closed
      BY <1>15 DEF ForceSpawn, At, UnmapPC, maps, chans
    <2>2. \A x \in Task \ {t} : task'[x] = task[x]
      BY <1>15, <1>a, MovesAlone DEF ForceSpawn
    <2> QED
      BY <2>1, <2>2, BriefKept
  <1>16. CASE DeleteCall(t)
    <2>1. task[t].pc \notin UnmapPC /\ killPtr' = killPtr /\ closed' = closed
      BY <1>16 DEF DeleteCall, At, UnmapPC, maps, chans
    <2>2. \A x \in Task \ {t} : task'[x] = task[x]
      BY <1>16, <1>a, MovesAlone DEF DeleteCall
    <2> QED
      BY <2>1, <2>2, BriefKept
  <1>17. CASE DeleteClose(t)
    <2>1. task[t].pc \notin UnmapPC
      BY <1>17 DEF DeleteClose, At, UnmapPC
    <2>2. CASE killPtr = NoChan
      <3>1. killPtr' = NoChan /\ closed' = closed
        BY <1>17, <2>2 DEF DeleteClose, chans
      <3> QED
        BY <3>1, <1>a, BriefOpen
    <2>3. CASE CloseKill(t, "delUnmap", myPtr)
      BY <2>1, <2>3, <1>a, CloseKillBrief DEF UnmapPC
    <2> QED
      BY <1>17, <2>2, <2>3 DEF DeleteClose
  <1>19. CASE DeleteClear(t)
    <2>1. task[t].pc \notin UnmapPC
      BY <1>19 DEF DeleteClear, At, UnmapPC
    <2>2. CASE killPtr = NoChan
      <3>1. killPtr' = NoChan /\ closed' = closed
        BY <1>19, <2>2 DEF DeleteClear, chans
      <3> QED
        BY <3>1, <1>a, BriefOpen
    <2>3. CASE CloseKill(t, "delUnmapClear", NoRun)
      BY <2>1, <2>3, <1>a, CloseKillBrief DEF UnmapPC
    <2> QED
      BY <1>19, <2>2, <2>3 DEF DeleteClear
  <1>18. CASE DeleteUnmap(t)
    BY <1>18, <1>a, BriefOpen DEF DeleteUnmap, chans
  <1>20. CASE DeleteRow(t)
    <2>1. task[t].pc \notin UnmapPC /\ killPtr' = killPtr /\ closed' = closed
      BY <1>20 DEF DeleteRow, At, UnmapPC, maps, chans
    <2>2. \A x \in Task \ {t} : task'[x] = task[x]
      BY <1>20, <1>a, MovesAlone DEF DeleteRow
    <2> QED
      BY <2>1, <2>2, BriefKept
  <1> QED
    BY <1>1, <1>2, <1>3, <1>4, <1>5, <1>6, <1>7, <1>8, <1>9, <1>10, <1>12, <1>13,
       <1>14, <1>15, <1>16, <1>17, <1>18, <1>19, <1>20 DEF TaskStep

LEMMA NextBrief == TypeOK /\ ClosedChannelBrief /\ [Next]_vars => ClosedChannelBrief'
  <1> SUFFICES ASSUME TypeOK, ClosedChannelBrief, [Next]_vars PROVE ClosedChannelBrief'
    OBVIOUS
  <1>a. Types /\ task \in [Task -> TaskRec]
    BY DEF TypeOK, Types
  <1>1. ASSUME NEW r \in Run, RunStep(r) PROVE ClosedChannelBrief'
    BY <1>1, RunStepBrief
  <1>2. CASE EventStep
    BY <1>2, EventStepBrief
  <1>3. ASSUME NEW t \in Task, NEW o \in Ops, Request(t, o) PROVE ClosedChannelBrief'
    <2>1. killPtr' = killPtr /\ closed' = closed
      BY <1>3 DEF Request, maps, chans
    <2>2. \A x \in Task : task[x].pc \in UnmapPC => task'[x] = task[x]
      BY <1>3, <1>a DEF Request, UnmapPC
    <2> QED
      BY <2>1, <2>2, BriefKept
  <1>4. ASSUME NEW t \in Task, TaskStep(t) PROVE ClosedChannelBrief'
    BY <1>4, TaskStepBrief
  <1>5. CASE ConnectOnStartup
    <2>1. CASE StartInstance
      BY <2>1, <1>a, StartInstanceTypes, BriefOpen
    <2>2. CASE UNCHANGED <<killPtr, closed, run, cli>>
      BY <1>5, <2>2, BriefKept DEF ConnectOnStartup
    <2> QED
      BY <1>5, <2>1, <2>2 DEF ConnectOnStartup
  <1>6. CASE Crash
    BY <1>6, BriefAfterReset DEF Crash
  <1>7. CASE UNCHANGED vars
    BY <1>7, BriefKept DEF vars, maps, chans
  <1> QED
    BY <1>1, <1>2, <1>3, <1>4, <1>5, <1>6, <1>7 DEF Next

LEMMA InitBrief == Init => ClosedChannelBrief
  BY DEF Init, ClosedChannelBrief

\* The map never holds a closed kill channel but between the two statements of the
\* Delete that closed it, whatever handlers, events and reconnections run.
THEOREM ClosedChannelSafe == Spec => []ClosedChannelBrief
  <1>1. Init => TypeOK /\ ClosedChannelBrief
    BY InitTypes, InitBrief
  <1>2. (TypeOK /\ ClosedChannelBrief) /\ [Next]_vars => (TypeOK /\ ClosedChannelBrief)'
    BY NextTypes, NextBrief
  <1> QED
    BY <1>1, <1>2, PTL DEF Spec
=============================================================================
