-------------------------- MODULE InstanceStepProofs --------------------------
(***************************************************************************)
(* The action properties of InstanceLifecycle, for every instance of the    *)
(* constants: which step may rewrite the row, make a client deaf, end the   *)
(* process or bring a deleted row back. They rest on the invariant of       *)
(* InstanceLifecycleProofs; the last two need in addition that what a task  *)
(* does is what it was started for. At the end the invariant that connected *)
(* clients are polled, with an inductive one of its own (Reached).          *)
(***************************************************************************)
EXTENDS InstanceLifecycleProofs

-----------------------------------------------------------------------------
(***************************************************************************)
(* The row                                                                 *)
(***************************************************************************)
KeepsRow == row'.jid = row.jid /\ row'.exists = row.exists

LEMMA OnlyMarked ==
  ASSUME Types, row' = row \/ \E b \in BOOLEAN : row' = UpdateConnected(b)
  PROVE  KeepsRow
  BY DEF Types, Row, UpdateConnected, KeepsRow

LEMMA RunStepKeepsRow ==
  ASSUME Types, NEW r \in Run, RunStep(r)
  PROVE  KeepsRow
  <1>1. CASE CheckClient(r)
    BY <1>1, OnlyMarked DEF CheckClient
  <1>2. CASE QrLimit(r)
    BY <1>2, OnlyMarked DEF QrLimit
  <1>3. CASE RestartClient(r)
    BY <1>3, OnlyMarked DEF RestartClient
  <1>4. CASE RegisterClient(r) \/ ConnectClient(r) \/ QrCode(r) \/ QrTimeout(r) \/ QrDrain(r)
             \/ QrReport(r) \/ QrEnd(r) \/ TakeKill(r)
    BY <1>4, OnlyMarked DEF RegisterClient, ConnectClient, QrCode, QrTimeout, QrDrain,
       QrReport, QrEnd, TakeKill
  <1> QED
    BY <1>1, <1>2, <1>3, <1>4 DEF RunStep

LEMMA EventStepRow ==
  ASSUME Types, EventStep
  PROVE  KeepsRow \/ \E r \in Run : ShowsCode(r) /\ cli'[r].store = row'.jid
  <1>1. ASSUME NEW r \in Run, NEW j \in Jid, PairSuccess(r, j)
        PROVE  KeepsRow \/ (ShowsCode(r) /\ cli'[r].store = row'.jid)
    <2>1. ShowsCode(r) /\ cli'[r].store = j
      BY <1>1 DEF PairSuccess, Types, ClientRec
    <2>2. row' = row \/ row'.jid = j
      BY <1>1 DEF PairSuccess
    <2> QED
      BY <2>1, <2>2 DEF KeepsRow
  <1>2. ASSUME NEW r \in Run, Connected(r) \/ Disconnected(r) \/ LoggedOut(r)
        PROVE  KeepsRow
    BY <1>2, OnlyMarked DEF Connected, Disconnected, LoggedOut
  <1>3. ASSUME NEW r \in Run,
               PairError(r) \/ LoginAccepted(r) \/ Undecryptable(r) \/ UndecryptableConnect(r)
        PROVE  KeepsRow
    BY <1>3 DEF PairError, LoginAccepted, Undecryptable, UndecryptableConnect, KeepsRow
  <1>4. ASSUME NEW s \in sending, PresenceTakes(s) PROVE KeepsRow
    BY <1>4 DEF PresenceTakes, KeepsRow
  <1>5. ASSUME NEW c \in presence, PresenceTick(c) PROVE KeepsRow
    BY <1>5 DEF PresenceTick, KeepsRow
  <1> QED
    BY <1>1, <1>2, <1>3, <1>4, <1>5 DEF EventStep

LEMMA TaskStepRow ==
  ASSUME Types, NEW t \in Task, TaskStep(t)
  PROVE  KeepsRow \/ task[t].pc \in Saving \cup {"frStart", "delRow"}
  <1>1. CASE ConnectSave(t) \/ ProxySave(t) \/ DisconnectSave(t) \/ LogoutSave(t)
    BY <1>1 DEF ConnectSave, ProxySave, DisconnectSave, LogoutSave, At, Saving
  <1>2. CASE ForceStart(t) \/ DeleteRow(t)
    BY <1>2 DEF ForceStart, DeleteRow, At
  <1>3. CASE ReconnectClean(t)
    BY <1>3, OnlyMarked DEF ReconnectClean, CleanRow
  <1>4. CASE ConnectStart(t) \/ EnsureClient(t) \/ EnsureAgain(t) \/ ReconnectDrop(t)
             \/ ReconnectStart(t) \/ LogoutCall(t) \/ Unmap(t) \/ ForceDrop(t) \/ ForceSpawn(t)
    BY <1>4 DEF ConnectStart, EnsureClient, EnsureAgain, ReconnectDrop, ReconnectStart,
       LogoutCall, Unmap, ForceDrop, ForceSpawn, KeepsRow
  <1>5. CASE DeleteCall(t) \/ DeleteClose(t) \/ DeleteUnmap(t) \/ DeleteClear(t)
    BY <1>5 DEF DeleteCall, DeleteClose, DeleteUnmap, DeleteClear, KeepsRow
  <1> QED
    BY <1>1, <1>2, <1>3, <1>4, <1>5 DEF TaskStep

\* What a step may do to the row.
RowStep ==
  row'.jid # row.jid \/ row'.exists # row.exists =>
    \/ \E t \in Task : task[t].pc \in Saving \cup {"frStart", "delRow"}
    \/ \E r \in Run : ShowsCode(r) /\ cli'[r].store = row'.jid

LEMMA NextRow == TypeOK /\ [Next]_vars => [RowStep]_vars
  <1> SUFFICES ASSUME TypeOK, [Next]_vars PROVE [RowStep]_vars
    OBVIOUS
  <1>a. Types
    BY DEF TypeOK
  <1>b. ASSUME KeepsRow PROVE RowStep
    BY <1>b DEF KeepsRow, RowStep
  <1>1. ASSUME NEW r \in Run, RunStep(r) PROVE RowStep
    BY <1>1, <1>a, <1>b, RunStepKeepsRow
  <1>2. CASE EventStep
    BY <1>2, <1>a, <1>b, EventStepRow DEF RowStep
  <1>3. ASSUME NEW t \in Task, NEW o \in Ops, Request(t, o) PROVE RowStep
    BY <1>3, <1>b DEF Request, KeepsRow
  <1>4. ASSUME NEW t \in Task, TaskStep(t) PROVE RowStep
    BY <1>4, <1>a, <1>b, TaskStepRow DEF RowStep
  <1>5. CASE ConnectOnStartup \/ Crash
    BY <1>5, <1>b DEF ConnectOnStartup, Crash, KeepsRow
  <1> QED
    BY <1>1, <1>2, <1>3, <1>4, <1>5 DEF Next

\* However old the copies that goroutines work with: no StartClient, reconnection or event
\* but PairSuccess inserts, deletes or re-identifies the row.
THEOREM RowRewrittenByHandlers == Spec => OnlyHandlersRewriteRow
  <1>1. TypeOK /\ [Next]_vars => [RowStep]_vars
    BY NextRow
  <1>2. Spec => [][RowStep]_vars
    BY <1>1, TypeCorrect, PTL DEF Spec
  <1> QED
    BY <1>2 DEF RowStep, OnlyHandlersRewriteRow

-----------------------------------------------------------------------------
(***************************************************************************)
(* The handlers of registered clients                                      *)
(***************************************************************************)
HandlersKept ==
  \A r \in {clientPtr', myPtr'} \ {NoRun} : cli[r].handler => cli'[r].handler

\* Maps that only lose entries, and handlers that stay where the maps point.
LEMMA PointersShrink ==
  ASSUME Types, clientPtr' \in {clientPtr, NoRun}, myPtr' \in {myPtr, NoRun},
         \A r \in {clientPtr, myPtr} \cap Run : cli[r].handler => cli'[r].handler
  PROVE  HandlersKept
  BY DEF Types, HandlersKept

\* Writing the other fields of some clients.
LEMMA OtherFields ==
  ASSUME Types, clientPtr' \in {clientPtr, NoRun}, myPtr' \in {myPtr, NoRun},
         \A r \in Run : cli'[r].handler = cli[r].handler
  PROVE  HandlersKept
  BY PointersShrink

LEMMA NoPointers ==
  ASSUME clientPtr' = NoRun, myPtr' = NoRun
  PROVE  HandlersKept
  BY DEF HandlersKept

\* A new client takes the slot of none that is registered.
LEMMA SpawnKeeps ==
  ASSUME Types, NEW j \in Jid \cup {NoJid}, NEW run0 \in [Run -> RunRec], Spawn(j, run0, cli),
         clientPtr' = clientPtr, myPtr' = myPtr
  PROVE  HandlersKept
  <1>1. cli \in [Run -> ClientRec]
    BY DEF Types
  <1>2. \A r \in {clientPtr, myPtr} \cap Run : cli'[r] = cli[r]
    BY <1>1, NewRun
  <1> QED
    BY <1>2, PointersShrink

LEMMA StartKeeps ==
  ASSUME Types, StartInstance \/ cli' = cli, clientPtr' = clientPtr, myPtr' = myPtr
  PROVE  HandlersKept
  <1>1. CASE StartInstance
    <2>1. row.jid \in Jid \cup {NoJid} /\ run \in [Run -> RunRec]
      BY DEF Types, Row
    <2> QED
      BY <1>1, <2>1, SpawnKeeps DEF StartInstance
  <1> QED
    BY <1>1, OtherFields

LEMMA RunStepHandlers ==
  ASSUME Types, NEW r \in Run, RunStep(r)
  PROVE  HandlersKept
  <1>a. run \in [Run -> RunRec] /\ cli \in [Run -> ClientRec]
    BY DEF Types
  <1>1. CASE CheckClient(r)
    <2>a. cli' = cli \/ cli' = [cli EXCEPT ![r].store = run[r].jid]
      BY <1>1 DEF CheckClient
    <2>1. \A x \in Run : cli'[x].handler = cli[x].handler
      BY <1>a, <2>a DEF ClientRec
    <2> QED
      BY <1>1, <2>1, OtherFields DEF CheckClient, maps
  <1>2. CASE RegisterClient(r)
    BY <1>2, <1>a DEF RegisterClient, HandlersKept, ClientRec
  <1>3. CASE ConnectClient(r)
    <2>1. \A x \in Run : cli'[x].handler = cli[x].handler
      BY <1>3, <1>a DEF ConnectClient, ClientRec
    <2> QED
      BY <1>3, <2>1, OtherFields DEF ConnectClient, maps
  <1>4. CASE QrCode(r) \/ QrReport(r)
    BY <1>4, OtherFields DEF QrCode, QrReport, maps
  <1>5. CASE QrLimit(r) \/ QrTimeout(r) \/ TakeKill(r)
    BY <1>5, NoPointers DEF QrLimit, QrTimeout, TakeKill, Reset
  <1>6. CASE QrDrain(r)
    <2>1. \A x \in Run : cli'[x].handler = cli[x].handler
      BY <1>6, <1>a DEF QrDrain, ClientRec
    <2> QED
      BY <1>6, <2>1, OtherFields DEF QrDrain, maps
  <1>7. CASE QrEnd(r)
    <2>1. \A x \in Run : cli'[x].handler = cli[x].handler
      BY <1>7, <1>a DEF QrEnd, ClientRec
    <2> QED
      BY <1>7, <2>1, OtherFields DEF QrEnd, maps
  <1>8. CASE RestartClient(r)
    <2>1. run[r].jid \in Jid \cup {NoJid} /\ [run EXCEPT ![r] = IdleRun] \in [Run -> RunRec]
      BY <1>a, IdleTypes, RunFields
    <2> QED
      BY <1>8, <2>1, SpawnKeeps DEF RestartClient, maps
  <1> QED
    BY <1>1, <1>2, <1>3, <1>4, <1>5, <1>6, <1>7, <1>8 DEF RunStep

LEMMA EventStepHandlers ==
  ASSUME Types, EventStep
  PROVE  HandlersKept
  <1>a. cli \in [Run -> ClientRec] /\ clientPtr' = clientPtr /\ myPtr' = myPtr
    BY DEF Types, EventStep, PairSuccess, PairError, LoginAccepted, Connected, Disconnected,
       LoggedOut, Undecryptable, UndecryptableConnect, PresenceTakes, PresenceTick, maps
  <1>b. ASSUME \A x \in Run : cli'[x].handler = cli[x].handler PROVE HandlersKept
    BY <1>a, <1>b, OtherFields
  <1>1. ASSUME NEW r \in Run, NEW j \in Jid, PairSuccess(r, j) PROVE HandlersKept
    <2>1. cli' = [cli EXCEPT ![r].store = j, ![r].qr = "success"]
      BY <1>1 DEF PairSuccess
    <2> QED
      BY <1>a, <1>b, <2>1 DEF ClientRec
  <1>2. ASSUME NEW r \in Run, PairError(r) PROVE HandlersKept
    <2>1. cli' = [cli EXCEPT ![r].conn = "down", ![r].qr = "error"]
      BY <1>2 DEF PairError
    <2> QED
      BY <1>a, <1>b, <2>1 DEF ClientRec
  <1>3. ASSUME NEW r \in Run, Connected(r) PROVE HandlersKept
    <2>1. cli' = [cli EXCEPT ![r].announce = FALSE]
      BY <1>3 DEF Connected
    <2> QED
      BY <1>a, <1>b, <2>1 DEF ClientRec
  <1>4. ASSUME NEW r \in Run, Disconnected(r) PROVE HandlersKept
    <2>1. \E q \in {"open", "timeout", "success", "error"} :
            cli' = [cli EXCEPT ![r].conn = "down", ![r].qr = q]
      BY <1>4, <1>a DEF Disconnected, ClientRec
    <2> QED
      BY <1>a, <1>b, <2>1 DEF ClientRec
  <1>5. ASSUME NEW r \in Run, LoginAccepted(r) PROVE HandlersKept
    BY <1>5, <1>a, <1>b DEF LoginAccepted, ClientRec
  <1>6. ASSUME NEW r \in Run, LoggedOut(r) PROVE HandlersKept
    <2>1. cli' = [cli EXCEPT ![r].conn = "down", ![r].store = NoJid]
      BY <1>6 DEF LoggedOut
    <2> QED
      BY <1>a, <1>b, <2>1 DEF ClientRec
  <1>7. ASSUME NEW r \in Run, Undecryptable(r) \/ UndecryptableConnect(r) PROVE HandlersKept
    <2>1. \/ cli' = [cli EXCEPT ![r].conn = "down", ![r].rekey = TRUE]
          \/ cli' = [cli EXCEPT ![r].rekey = FALSE, ![r].conn = "up"]
          \/ cli' = [cli EXCEPT ![r].rekey = FALSE]
      BY <1>7 DEF Undecryptable, UndecryptableConnect
    <2> QED
      BY <1>a, <1>b, <2>1 DEF ClientRec
  <1>8. CASE (\E s \in sending : PresenceTakes(s)) \/ (\E c \in presence : PresenceTick(c))
    BY <1>8, <1>a, OtherFields DEF PresenceTakes, PresenceTick
  <1> QED
    BY <1>1, <1>2, <1>3, <1>4, <1>5, <1>6, <1>7, <1>8 DEF EventStep

\* A handler that a Reconnect takes from a client which stays registered: the send after it
\* has panicked, so the channel is closed.
LEMMA CleanHandlers ==
  ASSUME Types, ClosedChannelBrief, NEW t \in Task, ReconnectClean(t)
  PROVE  HandlersKept \/ \E u \in Task : task[u].pc \in UnmapPC
  <1>1. CASE killPtr \in closed
    BY <1>1 DEF ClosedChannelBrief, UnmapPC
  <1>2. CASE killPtr \notin closed
    BY <1>2, NoPointers DEF ReconnectClean, CleanMaps
  <1> QED
    BY <1>1, <1>2

LEMMA TaskStepHandlers ==
  ASSUME Types, ClosedChannelBrief, NEW t \in Task, TaskStep(t)
  PROVE  HandlersKept \/ \E u \in Task : task[u].pc \in UnmapPC
  <1>a. /\ run \in [Run -> RunRec] /\ cli \in [Run -> ClientRec] /\ task \in [Task -> TaskRec]
        /\ clientPtr \in Run \cup {NoRun}
    BY DEF Types
  <1>1. CASE ConnectSave(t) \/ ProxySave(t) \/ EnsureAgain(t) \/ DisconnectSave(t) \/ LogoutSave(t)
             \/ ForceStart(t) \/ DeleteRow(t)
    BY <1>1, OtherFields DEF ConnectSave, ProxySave, EnsureAgain, DisconnectSave, LogoutSave,
       ForceStart, DeleteRow, maps
  <1>2. CASE ConnectStart(t)
    <2>1. CASE Spawn(task[t].copy.jid, run, cli)
      <3>1. task[t].copy.jid \in Jid \cup {NoJid}
        BY <1>a DEF TaskRec, Row
      <3> QED
        BY <1>2, <1>a, <2>1, <3>1, SpawnKeeps DEF ConnectStart
    <2>2. CASE cli' = cli
      BY <1>2, <2>2, OtherFields DEF ConnectStart
    <2> QED
      BY <1>2, <2>1, <2>2 DEF ConnectStart
  <1>3. CASE EnsureClient(t)
    BY <1>3, StartKeeps DEF EnsureClient
  <1>4. CASE ReconnectDrop(t)
    <2>1. \A x \in Run : cli'[x].handler = cli[x].handler
      BY <1>4, <1>a DEF ReconnectDrop, ClientRec
    <2> QED
      BY <1>4, <2>1, OtherFields DEF ReconnectDrop, maps
  <1>5. CASE ReconnectClean(t)
    BY <1>5, CleanHandlers
  <1>6. CASE ReconnectStart(t)
    BY <1>6, StartKeeps DEF ReconnectStart
  <1>7. CASE LogoutCall(t)
    <2>1. \A x \in Run : cli'[x].handler = cli[x].handler
      BY <1>7, <1>a DEF LogoutCall, ClientRec
    <2> QED
      BY <1>7, <2>1, OtherFields DEF LogoutCall, maps
  <1>8. CASE Unmap(t)
    BY <1>8, OtherFields DEF Unmap
  <1>9. CASE ForceDrop(t)
    <2>1. \A x \in Run : cli'[x].handler = cli[x].handler
      BY <1>9, <1>a DEF ForceDrop, ClientRec
    <2> QED
      BY <1>9, <2>1, OtherFields DEF ForceDrop
  <1>10. CASE ForceSpawn(t)
    <2>1. task[t].copy.jid \in Jid \cup {NoJid}
      BY <1>a DEF TaskRec, Row
    <2> QED
      BY <1>10, <1>a, <2>1, SpawnKeeps DEF ForceSpawn, maps
  <1>11. CASE DeleteCall(t)
    <2>1. \A x \in Run : cli'[x].handler = cli[x].handler
      BY <1>11, <1>a DEF DeleteCall, ClientRec
    <2> QED
      BY <1>11, <2>1, OtherFields DEF DeleteCall, maps
  <1>12. CASE DeleteClose(t) \/ DeleteClear(t)
    BY <1>12, NoPointers, OtherFields DEF DeleteClose, DeleteClear, CloseKill, Reset
  <1>13. CASE DeleteUnmap(t)
    BY <1>13, OtherFields DEF DeleteUnmap
  <1> QED
    BY <1>1, <1>2, <1>3, <1>4, <1>5, <1>6, <1>7, <1>8, <1>9, <1>10, <1>11, <1>12, <1>13
    DEF TaskStep

\* What a step may do to the handlers of registered clients.
HandlerStep ==
  \A r \in {clientPtr', myPtr'} \ {NoRun} :
     \/ cli[r].handler => cli'[r].handler
     \/ \E t \in Task : task[t].pc \in {"delUnmap", "delUnmapClear"}

LEMMA NextHandlers == TypeOK /\ ClosedChannelBrief /\ [Next]_vars => [HandlerStep]_vars
  <1> SUFFICES ASSUME TypeOK, ClosedChannelBrief, [Next]_vars PROVE [HandlerStep]_vars
    OBVIOUS
  <1>a. Types
    BY DEF TypeOK
  <1>b. ASSUME HandlersKept \/ \E t \in Task : task[t].pc \in UnmapPC PROVE HandlerStep
    BY <1>b DEF HandlersKept, HandlerStep, UnmapPC
  <1>1. ASSUME NEW r \in Run, RunStep(r) PROVE HandlerStep
    BY <1>1, <1>a, <1>b, RunStepHandlers
  <1>2. CASE EventStep
    BY <1>2, <1>a, <1>b, EventStepHandlers
  <1>3. ASSUME NEW t \in Task, NEW o \in Ops, Request(t, o) PROVE HandlerStep
    BY <1>3, <1>a, <1>b, OtherFields DEF Request, maps
  <1>4. ASSUME NEW t \in Task, TaskStep(t) PROVE HandlerStep
    BY <1>4, <1>a, <1>b, TaskStepHandlers
  <1>5. CASE ConnectOnStartup
    BY <1>5, <1>a, <1>b, StartKeeps DEF ConnectOnStartup
  <1>6. CASE Crash
    BY <1>6, <1>b, NoPointers DEF Crash, Reset
  <1> QED
    BY <1>1, <1>2, <1>3, <1>4, <1>5, <1>6 DEF Next

\* No reconnection that waited for the handlers of one client makes another one deaf that
\* has been registered meanwhile, but while a Delete has the kill channel closed.
THEOREM NoDeafClient == Spec => RegisteredKeepsHandler
  <1>1. TypeOK /\ ClosedChannelBrief /\ [Next]_vars => [HandlerStep]_vars
    BY NextHandlers
  <1>2. Spec => [][HandlerStep]_vars
    BY <1>1, TypeCorrect, ClosedChannelSafe, PTL DEF Spec
  <1> QED
    BY <1>2 DEF HandlerStep, RegisteredKeepsHandler

-----------------------------------------------------------------------------
(***************************************************************************)
(* The end of the process                                                  *)
(***************************************************************************)
DeletePC == {"delCall", "delClose", "delUnmap", "delClear", "delUnmapClear", "delRow"}
ReconnectPC == {"rcDrop", "rcClean", "rcStart"}

\* A task at a statement of Delete, of ReconnectClient or before a save was started
\* for it.
Fits(pc, op) ==
  /\ pc \in DeletePC => op = "Delete"
  /\ pc \in ReconnectPC => op \in {"Reconnect", "SetProxy", "Restart"}
  /\ pc = "connSave" => op = "Connect"
  /\ pc = "proxySave" => op = "SetProxy"
  /\ pc = "dcSend" => op = "Disconnect"
  /\ pc \in {"loCall", "loSave"} => op = "Logout"

OpFits == \A t \in Task : Fits(task[t].pc, task[t].op)

LEMMA OneMoves ==
  ASSUME OpFits, NEW t \in Task, Fits(task'[t].pc, task'[t].op),
         \A x \in Task \ {t} : task'[x] = task[x] \/ task'[x] = IdleTask
  PROVE  OpFits'
  <1>1. Fits(IdleTask.pc, IdleTask.op)
    BY DEF Fits, IdleTask, DeletePC, ReconnectPC
  <1> QED
    BY <1>1 DEF OpFits

LEMMA FinishFits ==
  ASSUME Types, OpFits, NEW t \in Task, Finish(t)
  PROVE  OpFits'
  <1>1. task'[t] = IdleTask /\ \A x \in Task \ {t} : task'[x] = task[x]
    BY DEF Types, Finish
  <1>2. Fits(IdleTask.pc, IdleTask.op)
    BY DEF Fits, IdleTask, DeletePC, ReconnectPC
  <1> QED
    BY <1>1, <1>2, OneMoves

LEMMA GotoFits ==
  ASSUME Types, OpFits, NEW t \in Task, NEW l \in TaskPC, Goto(t, l), Fits(l, task[t].op)
  PROVE  OpFits'
  <1>1. task'[t].pc = l /\ task'[t].op = task[t].op /\ \A x \in Task \ {t} : task'[x] = task[x]
    BY DEF Types, TaskRec, Goto
  <1> QED
    BY <1>1, OneMoves

LEMMA ResetFits == Reset => OpFits'
  BY DEF Reset, OpFits, Fits, IdleTask, DeletePC, ReconnectPC

LEMMA EnsuredFits ==
  ASSUME Types, OpFits, NEW t \in Task, NEW c \in Run \cup {NoRun}, Ensured(t, c)
  PROVE  OpFits'
  <1>1. CASE Finish(t)
    BY <1>1, FinishFits
  <1>2. ASSUME NEW n \in {"rcDrop", "loCall", "dcSend"},
               task' = [task EXCEPT ![t].pc = n, ![t].client = c],
               n = "rcDrop" => task[t].op \in {"Reconnect", "SetProxy"},
               n = "loCall" => task[t].op = "Logout",
               n = "dcSend" => task[t].op = "Disconnect"
        PROVE  OpFits'
    <2>1. task'[t].pc = n /\ task'[t].op = task[t].op /\ \A x \in Task \ {t} : task'[x] = task[x]
      BY <1>2 DEF Types, TaskRec
    <2>2. Fits(n, task[t].op)
      BY <1>2 DEF Fits, DeletePC, ReconnectPC
    <2> QED
      BY <2>1, <2>2, OneMoves
  <1> QED
    BY <1>1, <1>2 DEF Ensured

LEMMA TimedSendFits ==
  ASSUME Types, OpFits, NEW t \in Task, NEW c, TimedSend(t, c)
  PROVE  OpFits'
  <1>1. CASE Finish(t)
    BY <1>1, FinishFits
  <1>2. CASE Goto(t, "timedSend")
    BY <1>2, GotoFits DEF TaskPC, Fits, DeletePC, ReconnectPC
  <1> QED
    BY <1>1, <1>2 DEF TimedSend

LEMMA CloseKillFits ==
  ASSUME Types, OpFits, NEW t \in Task, task[t].op = "Delete", NEW l \in DeletePC, NEW m,
         CloseKill(t, l, m)
  PROVE  OpFits'
  <1>1. CASE Finish(t)
    BY <1>1, FinishFits
  <1>2. CASE Reset
    BY <1>2, ResetFits
  <1>3. CASE task' = [x \in Task |-> IF x = t THEN [task[t] EXCEPT !.pc = l]
                        ELSE IF <<<<"task", x>>, killPtr>> \in sending THEN IdleTask
                        ELSE task[x]]
    <2>1. task'[t].pc = l /\ task'[t].op = "Delete"
      BY <1>3 DEF Types, TaskRec
    <2>2. Fits(l, "Delete")
      BY DEF Fits, DeletePC, ReconnectPC
    <2> QED
      BY <1>3, <2>1, <2>2, OneMoves
  <1> QED
    BY <1>1, <1>2, <1>3 DEF CloseKill

LEMMA TaskStepFits ==
  ASSUME Types, OpFits, NEW t \in Task, TaskStep(t)
  PROVE  OpFits'
  <1>a. clientPtr \in Run \cup {NoRun} /\ task \in [Task -> TaskRec]
    BY DEF Types
  <1>b. task[t].pc \in DeletePC => task[t].op = "Delete"
    BY DEF OpFits, Fits
  <1>c. task[t].pc \in ReconnectPC => task[t].op \in {"Reconnect", "SetProxy", "Restart"}
    BY DEF OpFits, Fits
  <1>d. ASSUME NEW l \in {"connStart", "ensureWait", "frSpawn", "timedSend"}, Goto(t, l)
        PROVE  OpFits'
    BY <1>d, GotoFits DEF TaskPC, Fits, DeletePC, ReconnectPC
  <1>1. CASE ConnectSave(t)
    BY <1>1, <1>d DEF ConnectSave
  <1>2. CASE ConnectStart(t) \/ ReconnectStart(t) \/ DisconnectSave(t) \/ ForceSpawn(t) \/ DeleteRow(t)
    BY <1>2, FinishFits DEF ConnectStart, ReconnectStart, DisconnectSave, ForceSpawn, DeleteRow
  <1>3. CASE ProxySave(t)
    <2>1. task'[t].pc = "ensure" /\ \A x \in Task \ {t} : task'[x] = task[x]
      BY <1>3, <1>a DEF ProxySave, TaskRec
    <2> QED
      BY <2>1, OneMoves DEF Fits, DeletePC, ReconnectPC
  <1>4. CASE EnsureClient(t)
    BY <1>4, <1>a, <1>d, FinishFits, EnsuredFits DEF EnsureClient
  <1>5. CASE EnsureAgain(t)
    BY <1>5, <1>a, FinishFits, EnsuredFits DEF EnsureAgain
  <1>6. CASE ReconnectDrop(t)
    <2>1. /\ task'[t].pc = "rcClean" /\ task'[t].op = task[t].op /\ task[t].pc = "rcDrop"
          /\ \A x \in Task \ {t} : task'[x] = task[x]
      BY <1>6, <1>a DEF ReconnectDrop, At, TaskRec
    <2> QED
      BY <1>c, <2>1, OneMoves DEF Fits, DeletePC, ReconnectPC
  <1>7. CASE ReconnectClean(t)
    <2>1. CASE Finish(t)
      BY <2>1, FinishFits
    <2>2. CASE Reset
      BY <2>2, ResetFits
    <2>3. CASE task' = [task EXCEPT ![t].pc = "rcStart", ![t].client = NoRun]
      <3>1. /\ task'[t].pc = "rcStart" /\ task'[t].op = task[t].op /\ task[t].pc = "rcClean"
            /\ \A x \in Task \ {t} : task'[x] = task[x]
        BY <1>7, <1>a, <2>3 DEF ReconnectClean, At, TaskRec
      <3> QED
        BY <1>c, <3>1, OneMoves DEF Fits, DeletePC, ReconnectPC
    <2> QED
      BY <1>7, <2>1, <2>2, <2>3 DEF ReconnectClean, CleanRow
  <1>8. CASE LogoutCall(t) \/ LogoutSave(t)
    <2>1. task[t].op = "Logout"
      BY <1>8 DEF LogoutCall, LogoutSave, At, OpFits, Fits
    <2>2. CASE Goto(t, "loSave")
      BY <2>1, <2>2, GotoFits DEF TaskPC, Fits, DeletePC, ReconnectPC
    <2>3. CASE Finish(t) \/ TimedSend(t, killPtr)
      BY <2>3, FinishFits, TimedSendFits
    <2> QED
      BY <1>8, <2>2, <2>3 DEF LogoutCall, LogoutSave
  <1>9. CASE Unmap(t)
    BY <1>9, <1>d, FinishFits DEF Unmap
  <1>10. CASE ForceStart(t)
    <2>1. CASE Finish(t)
      BY <2>1, FinishFits
    <2>2. CASE task' = [task EXCEPT ![t].pc = "frDrop", ![t].copy = row']
      <3>1. task'[t].pc = "frDrop" /\ \A x \in Task \ {t} : task'[x] = task[x]
        BY <1>a, <2>2 DEF TaskRec
      <3> QED
        BY <3>1, OneMoves DEF Fits, DeletePC, ReconnectPC
    <2> QED
      BY <1>10, <2>1, <2>2 DEF ForceStart
  <1>11. CASE ForceDrop(t)
    BY <1>11, <1>d DEF ForceDrop
  <1>12. CASE DeleteCall(t) \/ DeleteUnmap(t)
    <2>1. \E l \in DeletePC : Goto(t, l)
      BY <1>12 DEF DeleteCall, DeleteUnmap, DeletePC
    <2>2. task[t].pc \in DeletePC
      BY <1>12 DEF DeleteCall, DeleteUnmap, At, DeletePC
    <2> QED
      BY <1>b, <2>1, <2>2, GotoFits DEF DeletePC, ReconnectPC, TaskPC, Fits
  <1>13. CASE DeleteClose(t) \/ DeleteClear(t)
    <2>1. task[t].op = "Delete"
      BY <1>13, <1>b DEF DeleteClose, DeleteClear, At, DeletePC
    <2>2. CASE \E l \in {"delClear", "delRow"} : Goto(t, l)
      BY <2>1, <2>2, GotoFits DEF DeletePC, ReconnectPC, TaskPC, Fits
    <2>3. CASE \E l \in {"delUnmap", "delUnmapClear"}, m \in {myPtr, NoRun} : CloseKill(t, l, m)
      BY <2>1, <2>3, CloseKillFits DEF DeletePC
    <2> QED
      BY <1>13, <2>2, <2>3 DEF DeleteClose, DeleteClear
  <1> QED
    BY <1>1, <1>2, <1>3, <1>4, <1>5, <1>6, <1>7, <1>8, <1>9, <1>10, <1>11, <1>12, <1>13
    DEF TaskStep

LEMMA NextFits == TypeOK /\ OpFits /\ [Next]_vars => OpFits'
  <1> SUFFICES ASSUME TypeOK, OpFits, [Next]_vars PROVE OpFits'
    OBVIOUS
  <1>a. Types /\ task \in [Task -> TaskRec]
    BY DEF TypeOK, Types
  <1>b. task' = task => OpFits'
    BY DEF OpFits
  <1>1. ASSUME NEW r \in Run, RunStep(r) PROVE OpFits'
    <2>1. task' = task \/ Reset
      BY <1>1 DEF RunStep, CheckClient, RegisterClient, ConnectClient, QrCode, QrLimit,
         QrTimeout, QrDrain, QrReport, QrEnd, TakeKill, RestartClient
    <2> QED
      BY <1>b, <2>1, ResetFits
  <1>2. CASE EventStep
    <2>1. CASE task' = task
      BY <1>b, <2>1
    <2>2. ASSUME NEW t \in Task, task' = [task EXCEPT ![t].pc = "rcDrop", ![t].op = "Restart"]
          PROVE  OpFits'
      <3>1. /\ task'[t].pc = "rcDrop" /\ task'[t].op = "Restart"
            /\ \A x \in Task \ {t} : task'[x] = task[x]
        BY <1>a, <2>2 DEF TaskRec
      <3> QED
        BY <3>1, OneMoves DEF Fits, DeletePC, ReconnectPC
    <2> QED
      BY <1>2, <2>1, <2>2 DEF EventStep, PairSuccess, PairError, LoginAccepted, Connected,
         Disconnected, LoggedOut, Undecryptable, UndecryptableConnect, PresenceTakes, PresenceTick
  <1>3. ASSUME NEW t \in Task, NEW o \in Ops, Request(t, o) PROVE OpFits'
    <2>1. /\ task'[t].pc = FirstPC(o) /\ task'[t].op = o
          /\ \A x \in Task \ {t} : task'[x] = task[x]
      BY <1>3, <1>a DEF Request
    <2>2. Fits(FirstPC(o), o)
      BY DEF Fits, FirstPC, DeletePC, ReconnectPC
    <2> QED
      BY <2>1, <2>2, OneMoves
  <1>4. ASSUME NEW t \in Task, TaskStep(t) PROVE OpFits'
    BY <1>4, <1>a, TaskStepFits
  <1>5. CASE ConnectOnStartup
    BY <1>5, <1>b DEF ConnectOnStartup
  <1>6. CASE Crash
    BY <1>6, ResetFits DEF Crash
  <1>7. CASE UNCHANGED vars
    BY <1>7, <1>b DEF vars
  <1> QED
    BY <1>1, <1>2, <1>3, <1>4, <1>5, <1>6, <1>7 DEF Next

\* What a step that ends the process, but for a crash from outside, may be.
DeathStep ==
  startup' /\ ~startup /\ stimuli' = stimuli =>
    /\ \E t \in Task : task[t].op = "Delete"
    /\ \/ \E r \in Run : run[r].pc \in {"qr", "qrSend"}
       \/ \E t \in Task : task[t].op \in {"SetProxy", "Restart"}

\* A closed channel in the map, and a Delete that closes it.
LEMMA ClosedByDelete ==
  ASSUME ClosedChannelBrief, OpFits, killPtr \in closed
  PROVE  \E t \in Task : task[t].op = "Delete"
  BY DEF ClosedChannelBrief, OpFits, Fits, DeletePC

\* Who is parked in the send of an expired QR code.
LEMMA QrParked ==
  ASSUME TypeOK, NEW s \in sending, s[1][1] = "qr"
  PROVE  \E r \in Run : run[r].pc = "qrSend"
  <1>1. s[1] \in Sender
    BY DEF TypeOK, Types
  <1>2. s[1][2] \in Run
    BY <1>1 DEF Sender
  <1>3. run[s[1][2]].pc = "qrSend"
    BY DEF TypeOK, ParkedAtSend
  <1> QED
    BY <1>2, <1>3

LEMMA NextDeath ==
  TypeOK /\ ClosedChannelBrief /\ OpFits /\ [Next]_vars => [DeathStep]_vars
  <1> SUFFICES ASSUME TypeOK, ClosedChannelBrief, OpFits, [Next]_vars PROVE [DeathStep]_vars
    OBVIOUS
  <1>b. startup' = startup => DeathStep
    BY DEF DeathStep
  <1>1. ASSUME NEW r \in Run, RunStep(r) PROVE DeathStep
    <2>1. CASE QrLimit(r) \/ QrTimeout(r)
      <3>1. CASE killPtr \in closed
        BY <2>1, <3>1, ClosedByDelete DEF QrLimit, QrTimeout, QrEmits, DeathStep
      <3>2. CASE killPtr \notin closed
        BY <1>b, <2>1, <3>2 DEF QrLimit, QrTimeout
      <3> QED
        BY <3>1, <3>2
    <2>2. CASE ~(QrLimit(r) \/ QrTimeout(r))
      BY <1>1, <1>b, <2>2 DEF RunStep, CheckClient, RegisterClient, ConnectClient, QrCode,
         QrDrain, QrReport, QrEnd, TakeKill, RestartClient
    <2> QED
      BY <2>1, <2>2
  <1>2. CASE EventStep
    BY <1>2, <1>b DEF EventStep, PairSuccess, PairError, LoginAccepted, Connected,
       Disconnected, LoggedOut, Undecryptable, UndecryptableConnect, PresenceTakes, PresenceTick
  <1>3. ASSUME NEW t \in Task, NEW o \in Ops, Request(t, o) PROVE DeathStep
    BY <1>3, <1>b DEF Request
  <1>4. ASSUME NEW t \in Task, TaskStep(t) PROVE DeathStep
    <2>1. CASE ReconnectClean(t)
      <3>1. task[t].op \in {"Reconnect", "SetProxy", "Restart"}
        BY <2>1 DEF ReconnectClean, At, OpFits, Fits, ReconnectPC
      <3>2. CASE killPtr \in closed /\ task[t].op # "Reconnect"
        BY <3>1, <3>2, ClosedByDelete DEF DeathStep
      <3>3. CASE startup' = startup
        BY <1>b, <3>3
      <3> QED
        BY <2>1, <3>2, <3>3 DEF ReconnectClean
    <2>2. CASE DeleteClose(t) \/ DeleteClear(t)
      <3>1. task[t].op = "Delete"
        BY <2>2 DEF DeleteClose, DeleteClear, At, OpFits, Fits, DeletePC
      <3>2. CASE \E s \in WaitingOn(killPtr) : s[1][1] = "qr"
        <4>1. \E r \in Run : run[r].pc = "qrSend"
          BY <3>2, QrParked DEF WaitingOn
        <4> QED
          BY <3>1, <4>1 DEF DeathStep
      <3>3. CASE ~\E s \in WaitingOn(killPtr) : s[1][1] = "qr"
        BY <1>b, <2>2, <3>3 DEF DeleteClose, DeleteClear, CloseKill
      <3> QED
        BY <3>2, <3>3
    <2>3. CASE ~(ReconnectClean(t) \/ DeleteClose(t) \/ DeleteClear(t))
      BY <1>4, <1>b, <2>3 DEF TaskStep, ConnectSave, ConnectStart, ProxySave, EnsureClient,
         EnsureAgain, ReconnectDrop, ReconnectStart, DisconnectSave, LogoutCall, LogoutSave,
         Unmap, ForceStart, ForceDrop, ForceSpawn, DeleteCall, DeleteUnmap, DeleteRow
    <2> QED
      BY <2>1, <2>2, <2>3
  <1>5. CASE ConnectOnStartup
    BY <1>5 DEF ConnectOnStartup, DeathStep
  <1>6. CASE Crash
    BY <1>6 DEF Crash, Stimulus, TypeOK, Types, DeathStep
  <1> QED
    BY <1>1, <1>2, <1>3, <1>4, <1>5, <1>6 DEF Next

LEMMA InitFits == Init => OpFits
  BY DEF Init, OpFits, Fits, IdleTask, DeletePC, ReconnectPC

\* Whatever requests, reconnections, QR codes and events overlap: only with a Delete, and
\* a QR loop or a reconnection in the background, can the process end of itself.
THEOREM DeathNeedsDelete == Spec => DiesOnlyUnderDelete
  <1>1. TypeOK /\ ClosedChannelBrief /\ OpFits /\ [Next]_vars => [DeathStep]_vars
    BY NextDeath
  <1>2. Spec => []OpFits
    BY InitFits, NextFits, TypeCorrect, PTL DEF Spec
  <1>3. Spec => [][DeathStep]_vars
    BY <1>1, <1>2, TypeCorrect, ClosedChannelSafe, PTL DEF Spec
  <1> QED
    BY <1>3 DEF DeathStep, DiesOnlyUnderDelete

-----------------------------------------------------------------------------
(***************************************************************************)
(* A deleted instance                                                      *)
(***************************************************************************)
Gone == ~row.exists /\ \A t \in Task : ~MaySave(t)

\* With the row gone no step gives a task a copy of a row that exists: a copy is
\* kept, dropped, or taken by a request that does not find the row.
LEMMA CopiesKept ==
  ASSUME Types, NEW x \in Task, ~MaySave(x),
         \/ task'[x] = task[x] \/ task'[x] = IdleTask
         \/ task'[x].op = "Restart"
         \/ /\ task'[x].op = task[x].op
            /\ task'[x].copy = task[x].copy \/ task'[x].copy = NoRow
  PROVE  ~MaySave(x)'
  BY DEF MaySave, IdleTask, NoRow

\* What a statement of an HTTP handler or a reconnection does to the tasks.
LEMMA TaskStepCopies ==
  ASSUME Types, ~row.exists, NEW t \in Task, TaskStep(t), NEW x \in Task
  PROVE  \/ task'[x] = task[x] \/ task'[x] = IdleTask
         \/ /\ task'[x].op = task[x].op
            /\ task'[x].copy = task[x].copy \/ task'[x].copy = NoRow
  <1>a. task \in [Task -> TaskRec]
    BY DEF Types
  <1>b. task[x] = [pc |-> task[x].pc, op |-> task[x].op, copy |-> task[x].copy,
                   client |-> task[x].client]
    BY <1>a DEF TaskRec
  <1>1. ASSUME Reset PROVE task'[x] = IdleTask
    BY <1>1 DEF Reset
  <1>2. ASSUME Finish(t) PROVE task'[x] = task[x] \/ task'[x] = IdleTask
    BY <1>2, <1>a DEF Finish
  <1>3. ASSUME NEW l, Goto(t, l)
        PROVE  \/ task'[x] = task[x]
               \/ task'[x].op = task[x].op /\ task'[x].copy = task[x].copy
    BY <1>3, <1>a DEF Goto, TaskRec
  <1>4. ASSUME NEW c, Ensured(t, c)
        PROVE  \/ task'[x] = task[x] \/ task'[x] = IdleTask
               \/ task'[x].op = task[x].op /\ task'[x].copy = task[x].copy
    <2>1. CASE Finish(t)
      BY <1>2, <2>1
    <2>2. CASE ~Finish(t)
      <3>1. PICK n : task' = [task EXCEPT ![t].pc = n, ![t].client = c]
        BY <1>4, <2>2 DEF Ensured
      <3> DEFINE k == [pc |-> n, op |-> task[x].op, copy |-> task[x].copy, client |-> c]
      <3>2. CASE x = t
        <4>1. task'[x] = k
          BY <1>a, <1>b, <3>1, <3>2
        <4>2. k.op = task[x].op /\ k.copy = task[x].copy
          OBVIOUS
        <4> QED
          BY <4>1, <4>2
      <3>3. CASE x # t
        BY <1>a, <3>1, <3>3
      <3> QED
        BY <3>2, <3>3
    <2> QED
      BY <2>1, <2>2
  <1>5. ASSUME NEW l, NEW m, CloseKill(t, l, m)
        PROVE  \/ task'[x] = task[x] \/ task'[x] = IdleTask
               \/ task'[x].op = task[x].op /\ task'[x].copy = task[x].copy
    <2>1. CASE Finish(t) \/ Reset
      BY <1>1, <1>2, <2>1
    <2>2. CASE task' = [y \in Task |-> IF y = t THEN [task[t] EXCEPT !.pc = l]
                          ELSE IF <<<<"task", y>>, killPtr>> \in sending THEN IdleTask
                          ELSE task[y]]
      BY <1>a, <2>2 DEF TaskRec
    <2> QED
      BY <1>5, <2>1, <2>2 DEF CloseKill
  <1>6. CASE ConnectSave(t) \/ ConnectStart(t) \/ ReconnectStart(t) \/ DisconnectSave(t)
             \/ ForceDrop(t) \/ ForceSpawn(t) \/ DeleteCall(t) \/ DeleteUnmap(t) \/ DeleteRow(t)
             \/ Unmap(t)
    BY <1>2, <1>3, <1>6 DEF ConnectSave, ConnectStart, ReconnectStart, DisconnectSave,
       ForceDrop, ForceSpawn, DeleteCall, DeleteUnmap, DeleteRow, Unmap
  <1>7. CASE ProxySave(t)
    BY <1>7, <1>a DEF ProxySave, TaskRec
  <1>8. CASE EnsureClient(t) \/ EnsureAgain(t)
    BY <1>2, <1>3, <1>4, <1>8 DEF EnsureClient, EnsureAgain
  <1>9. CASE ReconnectDrop(t)
    BY <1>9, <1>a DEF ReconnectDrop, TaskRec
  <1>10. CASE ReconnectClean(t)
    <2>1. Finish(t) \/ Reset
      BY <1>10 DEF ReconnectClean, CleanRow
    <2> QED
      BY <1>1, <1>2, <2>1
  <1>11. CASE LogoutCall(t) \/ LogoutSave(t)
    BY <1>2, <1>3, <1>11 DEF LogoutCall, LogoutSave, TimedSend
  <1>12. CASE ForceStart(t)
    BY <1>2, <1>12 DEF ForceStart
  <1>13. CASE DeleteClose(t) \/ DeleteClear(t)
    BY <1>3, <1>5, <1>13 DEF DeleteClose, DeleteClear
  <1> QED
    BY <1>6, <1>7, <1>8, <1>9, <1>10, <1>11, <1>12, <1>13 DEF TaskStep

\* A save needs a copy of a row that existed.
LEMMA SavesNothing ==
  ASSUME Types, OpFits, Gone, NEW t \in Task, TaskStep(t)
  PROVE  ~row'.exists
  <1>a. row \in Row /\ task[t].copy \in Row /\ ~row.exists /\ ~MaySave(t)
    BY DEF Types, TaskRec, Gone
  <1>1. CASE ConnectSave(t) \/ ProxySave(t) \/ DisconnectSave(t) \/ LogoutSave(t)
    <2>1. task[t].op \in {"Connect", "SetProxy", "Disconnect", "Logout"}
      BY <1>1 DEF ConnectSave, ProxySave, DisconnectSave, LogoutSave, At, OpFits, Fits
    <2>2. ~task[t].copy.exists
      BY <1>a, <2>1 DEF MaySave
    <2> QED
      BY <1>1, <1>a, <2>2 DEF ConnectSave, ProxySave, DisconnectSave, LogoutSave, SaveCopy, Row
  <1>2. CASE ForceStart(t)
    BY <1>2, <1>a DEF ForceStart
  <1>3. CASE DeleteRow(t)
    BY <1>3 DEF DeleteRow, NoRow
  <1>4. CASE KeepsRow
    BY <1>4, <1>a DEF KeepsRow
  <1>5. CASE ~(ConnectSave(t) \/ ProxySave(t) \/ DisconnectSave(t) \/ LogoutSave(t)
               \/ ForceStart(t) \/ DeleteRow(t))
    <2>1. KeepsRow
      <3>1. CASE ReconnectClean(t)
        BY <3>1, OnlyMarked DEF ReconnectClean, CleanRow
      <3>2. CASE ~ReconnectClean(t)
        BY <1>5, <3>2 DEF TaskStep, ConnectStart, EnsureClient, EnsureAgain, ReconnectDrop,
           ReconnectStart, LogoutCall, Unmap, ForceDrop, ForceSpawn, DeleteCall, DeleteClose,
           DeleteUnmap, DeleteClear, KeepsRow
      <3> QED
        BY <3>1, <3>2
    <2> QED
      BY <1>4, <2>1
  <1> QED
    BY <1>1, <1>2, <1>3, <1>5

LEMMA NextGone == TypeOK /\ OpFits /\ Gone /\ [Next]_vars => Gone'
  <1> SUFFICES ASSUME TypeOK, OpFits, Gone, [Next]_vars PROVE Gone'
    OBVIOUS
  <1>a. Types /\ ~row.exists /\ \A x \in Task : ~MaySave(x)
    BY DEF TypeOK, Gone
  <1>b. ASSUME KeepsRow \/ row' = row, task' = task \/ Reset PROVE Gone'
    <2>1. \A x \in Task : ~MaySave(x)'
      BY <1>a, <1>b DEF Reset, MaySave, IdleTask, NoRow
    <2> QED
      BY <1>a, <1>b, <2>1 DEF Gone, KeepsRow
  <1>1. ASSUME NEW r \in Run, RunStep(r) PROVE Gone'
    <2>1. task' = task \/ Reset
      BY <1>1 DEF RunStep, CheckClient, RegisterClient, ConnectClient, QrCode, QrLimit,
         QrTimeout, QrDrain, QrReport, QrEnd, TakeKill, RestartClient
    <2> QED
      BY <1>1, <1>a, <1>b, <2>1, RunStepKeepsRow
  <1>2. CASE EventStep
    <2>1. KeepsRow \/ row' = row
      <3>1. ASSUME NEW r \in Run, NEW j \in Jid, PairSuccess(r, j) PROVE row' = row
        BY <1>a, <3>1 DEF PairSuccess
      <3>2. ASSUME NEW r \in Run, Connected(r) \/ Disconnected(r) \/ LoggedOut(r)
            PROVE  KeepsRow
        BY <1>a, <3>2, OnlyMarked DEF Connected, Disconnected, LoggedOut
      <3> QED
        BY <1>2, <3>1, <3>2 DEF EventStep, PairError, LoginAccepted, Undecryptable,
           UndecryptableConnect, PresenceTakes, PresenceTick
    <2>2. CASE task' = task
      BY <1>b, <2>1, <2>2
    <2>3. ASSUME NEW t \in Task, task' = [task EXCEPT ![t].pc = "rcDrop", ![t].op = "Restart"]
          PROVE  Gone'
      <3>1. task'[t].op = "Restart" /\ \A x \in Task \ {t} : task'[x] = task[x]
        BY <1>a, <2>3 DEF Types, TaskRec
      <3>2. \A x \in Task : ~MaySave(x)'
        BY <1>a, <3>1, CopiesKept
      <3> QED
        BY <1>a, <2>1, <3>2 DEF Gone, KeepsRow
    <2> QED
      BY <1>2, <2>2, <2>3 DEF EventStep, PairSuccess, PairError, LoginAccepted, Connected,
         Disconnected, LoggedOut, Undecryptable, UndecryptableConnect, PresenceTakes, PresenceTick
  <1>3. ASSUME NEW t \in Task, NEW o \in Ops, Request(t, o) PROVE FALSE
    BY <1>3, <1>a DEF Request
  <1>4. ASSUME NEW t \in Task, TaskStep(t) PROVE Gone'
    <2>1. \A x \in Task : ~MaySave(x)'
      BY <1>4, <1>a, TaskStepCopies, CopiesKept
    <2>2. ~row'.exists
      BY <1>4, <1>a, SavesNothing
    <2> QED
      BY <2>1, <2>2 DEF Gone
  <1>5. CASE ConnectOnStartup \/ Crash \/ UNCHANGED vars
    BY <1>5, <1>b DEF ConnectOnStartup, Crash, vars
  <1> QED
    BY <1>1, <1>2, <1>3, <1>4, <1>5 DEF Next

GoneStep ==
  ~row.exists /\ (\A t \in Task : ~MaySave(t)) =>
    ~row'.exists /\ (\A t \in Task : ~MaySave(t))'

\* After Delete has removed the row only a request that read it before can bring the
\* instance back: no StartClient loop, reconnection, QR event or restart of the process
\* inserts it, in whatever order they come.
THEOREM DeletedStaysDeleted == Spec => DeletedForGood
  <1>1. TypeOK /\ OpFits /\ [Next]_vars => [GoneStep]_vars
    BY NextGone DEF GoneStep, Gone
  <1>2. Spec => []OpFits
    BY InitFits, NextFits, TypeCorrect, PTL DEF Spec
  <1>3. Spec => [][GoneStep]_vars
    BY <1>1, <1>2, TypeCorrect, PTL DEF Spec
  <1> QED
    BY <1>3 DEF GoneStep, DeletedForGood
-----------------------------------------------------------------------------
(***************************************************************************)
(* Connected clients are polled                                            *)
(***************************************************************************)
\* ConnectedHasLoop is not inductive: that the drain after the QR limit disconnects an
\* unpaired client needs an open QR channel, and that a new client connects with an open
\* one; that the library's own reconnection is the only one, needs that none is pending.
Reached(p, k) ==
  /\ k.conn # "down" =>
       \/ p.pc \in {"qr", "poll"}
       \/ QrMax > 0 /\ p.pc = "limit"
       \/ QrMax > 0 /\ p.pc = "free" /\ k.store # NoJid
  /\ k.conn # "down" /\ k.qr # "open" => k.store # NoJid
  /\ p.pc \in {"check", "register", "connect"} => k.qr = "open"
  /\ ~k.rekey

AllReached == \A r \in Run : Reached(run[r], cli[r])
LoopInv == "undecryptable" \notin Faults => AllReached

\* A client that is only disconnected, or written elsewhere, is as reachable as before.
Quiet(x) ==
  /\ run'[x] = run[x]
  /\ cli'[x].qr = cli[x].qr /\ cli'[x].rekey = cli[x].rekey
  /\ \/ cli'[x].conn = "down"
     \/ cli'[x].conn = cli[x].conn /\ cli'[x].store = cli[x].store

LEMMA QuietReached ==
  ASSUME NEW x \in Run, Reached(run[x], cli[x]), Quiet(x)
  PROVE  Reached(run'[x], cli'[x])
  BY DEF Reached, Quiet

LEMMA SameClient ==
  ASSUME NEW x \in Run, Reached(run[x], cli[x]), run'[x] = run[x], cli'[x] = cli[x]
  PROVE  Reached(run'[x], cli'[x])
  OBVIOUS

\* A slot that nothing uses, and the slot of a StartClient call that begins.
LEMMA FreshReached ==
  ASSUME NEW p, NEW k, p.pc \in RunPC,
         k = IdleClient \/ (k.conn = "down" /\ ~k.rekey /\ p.pc \notin {"check", "register", "connect"})
  PROVE  Reached(p, k)
  BY DEF Reached, IdleClient

LEMMA SpawnReached ==
  ASSUME NEW j \in Jid \cup {NoJid}, NEW run0 \in [Run -> RunRec], NEW cli0 \in [Run -> ClientRec],
         Spawn(j, run0, cli0), NEW x \in Run, Reached(run0[x], cli0[x])
  PROVE  Reached(run'[x], cli'[x])
  <1>1. CASE run' = run0 /\ cli' = cli0
    BY <1>1
  <1>2. ASSUME NEW r \in FreshRun,
               run' = [run0 EXCEPT ![r] = [pc |-> "check", jid |-> j, codes |-> 0]],
               cli' = [cli0 EXCEPT ![r] = IdleClient]
        PROVE  Reached(run'[x], cli'[x])
    <2>1. CASE x = r
      <3>1. run'[x].pc = "check" /\ cli'[x] = IdleClient
        BY <1>2, <2>1
      <3> QED
        BY <3>1, FreshReached DEF RunPC
    <2>2. CASE x # r
      <3>1. run'[x] = run0[x] /\ cli'[x] = cli0[x]
        BY <1>2, <2>2
      <3> QED
        BY <3>1
    <2> QED
      BY <2>1, <2>2
  <1> QED
    BY <1>1, <1>2 DEF Spawn

LEMMA StartReached ==
  ASSUME Types, AllReached, StartInstance \/ (run' = run /\ cli' = cli)
  PROVE  AllReached'
  <1>1. CASE StartInstance
    <2>1. row.jid \in Jid \cup {NoJid} /\ run \in [Run -> RunRec] /\ cli \in [Run -> ClientRec]
      BY DEF Types, Row
    <2> QED
      BY <1>1, <2>1, SpawnReached DEF StartInstance, AllReached
  <1> QED
    BY <1>1 DEF AllReached

LEMMA ResetReached == Reset => AllReached'
  <1> SUFFICES ASSUME Reset, NEW x \in Run PROVE Reached(run'[x], cli'[x])
    BY DEF AllReached
  <1>1. run'[x] = IdleRun /\ cli'[x] = IdleClient
    BY DEF Reset
  <1> QED
    BY <1>1, FreshReached DEF IdleRun, RunPC

LEMMA RunStepReached ==
  ASSUME Types, AllReached, NEW r \in Run, RunStep(r)
  PROVE  AllReached'
  <1>a. run \in [Run -> RunRec] /\ cli \in [Run -> ClientRec]
    BY DEF Types
  <1>b. ASSUME \A x \in Run \ {r} : run'[x] = run[x] /\ cli'[x] = cli[x],
               Reached(run'[r], cli'[r])
        PROVE  AllReached'
    <2>1. \A x \in Run \ {r} : Reached(run'[x], cli'[x])
      BY <1>b DEF AllReached
    <2> QED
      BY <1>b, <2>1 DEF AllReached
  <1>c. Reached(run[r], cli[r]) /\ run[r] \in RunRec /\ cli[r] \in ClientRec
    BY <1>a DEF AllReached
  <1>1. CASE CheckClient(r)
    <2>a. cli' = cli \/ cli' = [cli EXCEPT ![r].store = run[r].jid]
      BY <1>1 DEF CheckClient
    <2>b. run' = [run EXCEPT ![r] = IdleRun] \/ run' = [run EXCEPT ![r].pc = "register"]
      BY <1>1 DEF CheckClient
    <2>c. run'[r].pc \in {"free", "register"}
      BY <1>a, <2>b DEF IdleRun, RunRec
    <2>1. /\ run'[r].pc \in {"free", "register"} /\ cli'[r].conn = cli[r].conn
          /\ cli'[r].qr = cli[r].qr /\ cli'[r].rekey = cli[r].rekey
      BY <1>a, <2>a, <2>c DEF ClientRec
    <2>2. Reached(run'[r], cli'[r])
      BY <1>1, <1>c, <2>1 DEF CheckClient, Reached
    <2> QED
      BY <1>1, <1>a, <1>b, <2>2 DEF CheckClient
  <1>2. CASE RegisterClient(r)
    <2>1. /\ run'[r].pc = "connect" /\ cli'[r].conn = cli[r].conn
          /\ cli'[r].qr = cli[r].qr /\ cli'[r].rekey = cli[r].rekey
      BY <1>2, <1>a DEF RegisterClient, RunRec, ClientRec
    <2>2. Reached(run'[r], cli'[r])
      BY <1>2, <1>c, <2>1 DEF RegisterClient, Reached
    <2> QED
      BY <1>2, <1>a, <1>b, <2>2 DEF RegisterClient
  <1>3. CASE ConnectClient(r)
    <2>1. /\ cli'[r].qr = cli[r].qr /\ cli'[r].rekey = cli[r].rekey
          /\ cli'[r].store = cli[r].store
          /\ \/ run'[r].pc \in {"qr", "poll"}
             \/ run'[r].pc = "free" /\ cli'[r].conn = cli[r].conn
      BY <1>3, <1>a DEF ConnectClient, IdleRun, RunRec, ClientRec
    <2>2. Reached(run'[r], cli'[r])
      BY <1>3, <1>c, <2>1 DEF ConnectClient, Reached
    <2> QED
      BY <1>3, <1>a, <1>b, <2>2 DEF ConnectClient
  <1>4. CASE QrCode(r)
    <2>1. run'[r].pc = run[r].pc /\ cli' = cli
      BY <1>4, <1>a DEF QrCode, RunRec
    <2>2. Reached(run'[r], cli'[r])
      BY <1>c, <2>1 DEF Reached
    <2> QED
      BY <1>4, <1>a, <1>b, <2>2 DEF QrCode
  <1>5. CASE QrLimit(r) /\ ~Reset
    <2>1. run'[r].pc = "limit" /\ cli' = cli /\ QrMax > 0
      BY <1>5, <1>a DEF QrLimit, QrLimited, IdleRun, RunRec
    <2>2. Reached(run'[r], cli'[r])
      BY <1>c, <2>1 DEF Reached
    <2> QED
      BY <1>5, <1>a, <1>b, <2>2 DEF QrLimit
  <1>6. CASE QrTimeout(r) /\ ~Reset
    <2>1. /\ run'[r].pc = "qrSend" /\ cli'[r].conn = "down"
          /\ cli'[r].rekey = cli[r].rekey
      BY <1>6, <1>a DEF QrTimeout, RunRec, ClientRec
    <2>2. Reached(run'[r], cli'[r])
      BY <1>c, <2>1 DEF Reached
    <2> QED
      BY <1>6, <1>a, <1>b, <2>2 DEF QrTimeout
  <1>7. CASE QrDrain(r)
    <2>1. /\ run'[r].pc = "free" /\ run[r].pc = "limit" /\ cli'[r].qr = "open"
          /\ cli'[r].rekey = cli[r].rekey /\ cli'[r].store = cli[r].store
          /\ cli'[r].conn = IF cli[r].qr = "open" THEN "down" ELSE cli[r].conn
      BY <1>7, <1>a DEF QrDrain, IdleRun, RunRec, ClientRec
    <2>2. Reached(run'[r], cli'[r])
      BY <1>c, <2>1 DEF Reached
    <2> QED
      BY <1>7, <1>a, <1>b, <2>2 DEF QrDrain
  <1>8. CASE QrReport(r)
    <2>1. run'[r].pc = "poll" /\ cli' = cli
      BY <1>8, <1>a DEF QrReport, RunRec
    <2>2. Reached(run'[r], cli'[r])
      BY <1>c, <2>1 DEF Reached
    <2> QED
      BY <1>8, <1>a, <1>b, <2>2 DEF QrReport
  <1>9. CASE QrEnd(r)
    <2>1. run'[r].pc = "poll" /\ cli'[r].qr = "open" /\ cli'[r].rekey = cli[r].rekey
      BY <1>9, <1>a DEF QrEnd, RunRec, ClientRec
    <2>2. Reached(run'[r], cli'[r])
      BY <1>c, <2>1 DEF Reached
    <2> QED
      BY <1>9, <1>a, <1>b, <2>2 DEF QrEnd
  <1>10. CASE TakeKill(r)
    <2>1. run'[r].pc = "killed" /\ cli'[r].conn = "down" /\ cli'[r].rekey = cli[r].rekey
      BY <1>10, <1>a DEF TakeKill, RunRec, ClientRec
    <2>2. Reached(run'[r], cli'[r])
      BY <1>c, <2>1 DEF Reached
    <2> QED
      BY <1>10, <1>a, <1>b, <2>2 DEF TakeKill
  <1>11. CASE RestartClient(r)
    <2> DEFINE run0 == [run EXCEPT ![r] = IdleRun]
    <2>1. run[r].jid \in Jid \cup {NoJid} /\ run0 \in [Run -> RunRec]
      BY <1>a, IdleTypes, RunFields
    <2>2. cli[r].conn = "down" /\ ~cli[r].rekey
      BY <1>11, <1>c DEF RestartClient, Reached
    <2>3. ASSUME NEW x \in Run PROVE Reached(run0[x], cli[x])
      <3>1. CASE x = r
        BY <1>a, <2>2, <3>1, FreshReached DEF IdleRun, RunPC
      <3>2. CASE x # r
        BY <1>a, <3>2 DEF AllReached
      <3> QED
        BY <3>1, <3>2
    <2>4. Spawn(run[r].jid, run0, cli)
      BY <1>11 DEF RestartClient
    <2> HIDE DEF run0
    <2> QED
      BY <1>a, <2>1, <2>3, <2>4, SpawnReached DEF AllReached
  <1> QED
    BY <1>1, <1>2, <1>3, <1>4, <1>5, <1>6, <1>7, <1>8, <1>9, <1>10, <1>11, ResetReached
    DEF RunStep

LEMMA EventStepReached ==
  ASSUME Types, "undecryptable" \notin Faults, AllReached, EventStep
  PROVE  AllReached'
  <1>a. cli \in [Run -> ClientRec] /\ run' = run
    BY DEF Types, EventStep, PairSuccess, PairError, LoginAccepted, Connected, Disconnected,
       LoggedOut, Undecryptable, UndecryptableConnect, PresenceTakes, PresenceTick
  <1>b. \A x \in Run : Reached(run[x], cli[x]) /\ cli[x] \in ClientRec
    BY <1>a DEF AllReached
  <1>1. ASSUME NEW r \in Run, NEW j \in Jid, PairSuccess(r, j), NEW x \in Run
        PROVE  Reached(run'[x], cli'[x])
    <2>1. cli' = [cli EXCEPT ![r].store = j, ![r].qr = "success"] /\ cli[r].conn # "down"
      BY <1>1 DEF PairSuccess, ShowsCode
    <2>2. /\ cli'[x].conn = cli[x].conn /\ cli'[x].rekey = cli[x].rekey
          /\ x # r => cli'[x] = cli[x]
          /\ x = r => cli'[x].store # NoJid
      BY <1>a, <2>1, LifecycleAssumption DEF ClientRec, LifecycleAssumption
    <2> QED
      BY <1>a, <1>b, <2>1, <2>2 DEF Reached
  <1>2. ASSUME NEW r \in Run, PairError(r) \/ LoggedOut(r) \/ Disconnected(r), NEW x \in Run
        PROVE  Reached(run'[x], cli'[x])
    <2>1. /\ cli[r].conn # "down"
          /\ \/ \E q \in {"open", "timeout", "success", "error"} :
                  cli' = [cli EXCEPT ![r].conn = "down", ![r].qr = q]
             \/ cli' = [cli EXCEPT ![r].conn = "down", ![r].store = NoJid]
      BY <1>2, <1>b DEF PairError, LoggedOut, Disconnected, ShowsCode, ClientRec
    <2>2. /\ cli'[x].rekey = cli[x].rekey
          /\ x # r => cli'[x] = cli[x]
          /\ x = r => cli'[x].conn = "down"
      BY <1>a, <2>1 DEF ClientRec
    <2> QED
      BY <1>a, <1>b, <2>1, <2>2 DEF Reached
  <1>3. ASSUME NEW r \in Run, LoginAccepted(r), NEW x \in Run
        PROVE  Reached(run'[x], cli'[x])
    <2>1. /\ cli'[x].rekey = cli[x].rekey /\ cli'[x].qr = cli[x].qr
          /\ cli'[x].store = cli[x].store
          /\ cli'[x].conn # "down" => cli[x].conn # "down"
      BY <1>3, <1>a DEF LoginAccepted, ClientRec
    <2> QED
      BY <1>a, <1>b, <2>1 DEF Reached
  <1>4. ASSUME NEW r \in Run, Connected(r), NEW x \in Run
        PROVE  Reached(run'[x], cli'[x])
    <2>1. Quiet(x)
      BY <1>4, <1>a DEF Connected, Quiet, ClientRec
    <2> QED
      BY <1>b, <2>1, QuietReached
  <1>5. ASSUME NEW r \in Run, Undecryptable(r) \/ UndecryptableConnect(r) PROVE FALSE
    BY <1>5, <1>b DEF Undecryptable, UndecryptableConnect, Reached
  <1>6. CASE (\E s \in sending : PresenceTakes(s)) \/ (\E c \in presence : PresenceTick(c))
    BY <1>6 DEF PresenceTakes, PresenceTick, AllReached
  <1> QED
    BY <1>1, <1>2, <1>3, <1>4, <1>5, <1>6 DEF EventStep, AllReached

LEMMA TaskStepReached ==
  ASSUME Types, AllReached, NEW t \in Task, TaskStep(t)
  PROVE  AllReached'
  <1>a. /\ run \in [Run -> RunRec] /\ cli \in [Run -> ClientRec] /\ task \in [Task -> TaskRec]
        /\ clientPtr \in Run \cup {NoRun}
    BY DEF Types
  <1>b. ASSUME \A x \in Run : Quiet(x) PROVE AllReached'
    BY <1>b, QuietReached DEF AllReached
  <1>1. CASE ConnectSave(t) \/ ProxySave(t) \/ EnsureAgain(t) \/ DisconnectSave(t) \/ LogoutSave(t)
             \/ Unmap(t) \/ ForceStart(t) \/ DeleteUnmap(t) \/ DeleteRow(t)
    <2>1. run' = run /\ cli' = cli
      BY <1>1 DEF ConnectSave, ProxySave, EnsureAgain, DisconnectSave, LogoutSave, Unmap,
         ForceStart, DeleteUnmap, DeleteRow
    <2> QED
      BY <2>1, StartReached
  <1>2. CASE ConnectStart(t) \/ ForceSpawn(t)
    <2>1. task[t].copy.jid \in Jid \cup {NoJid}
      BY <1>a DEF TaskRec, Row
    <2>2. CASE run' = run /\ cli' = cli
      BY <2>2, StartReached
    <2>3. CASE Spawn(task[t].copy.jid, run, cli)
      BY <1>a, <2>1, <2>3, SpawnReached DEF AllReached
    <2> QED
      BY <1>2, <2>2, <2>3 DEF ConnectStart, ForceSpawn
  <1>3. CASE EnsureClient(t) \/ ReconnectStart(t)
    BY <1>3, StartReached DEF EnsureClient, ReconnectStart
  <1>4. CASE ReconnectDrop(t) \/ LogoutCall(t) \/ ForceDrop(t) \/ DeleteCall(t)
    <2>1. run' = run
      BY <1>4 DEF ReconnectDrop, LogoutCall, ForceDrop, DeleteCall
    <2>2. \/ cli' = cli
          \/ \E c : cli' = [cli EXCEPT ![c].conn = "down"]
          \/ \E c : cli' = [cli EXCEPT ![c].conn = "down", ![c].store = NoJid]
      BY <1>4 DEF ReconnectDrop, LogoutCall, ForceDrop, DeleteCall
    <2>3. ASSUME NEW x \in Run PROVE Quiet(x)
      <3>1. \/ cli'[x] = cli[x]
            \/ cli'[x] = [cli[x] EXCEPT !.conn = "down"]
            \/ cli'[x] = [cli[x] EXCEPT !.conn = "down", !.store = NoJid]
        BY <1>a, <2>2
      <3>2. cli[x] \in ClientRec
        BY <1>a
      <3> QED
        BY <2>1, <3>1, <3>2 DEF Quiet, ClientRec
    <2> QED
      BY <1>b, <2>3
  <1>5. CASE ReconnectClean(t)
    <2>1. CASE Reset
      BY <2>1, ResetReached
    <2>2. CASE run' = run /\ CleanHandler(task[t].client)
      <3>1. \A x \in Run : Quiet(x)
        BY <1>a, <2>2 DEF CleanHandler, Quiet, ClientRec
      <3> QED
        BY <1>b, <3>1
    <2> QED
      BY <1>5, <2>1, <2>2 DEF ReconnectClean
  <1>6. CASE DeleteClose(t) \/ DeleteClear(t)
    BY <1>6, ResetReached, StartReached DEF DeleteClose, DeleteClear, CloseKill
  <1> QED
    BY <1>1, <1>2, <1>3, <1>4, <1>5, <1>6 DEF TaskStep

LEMMA NextLoop == TypeOK /\ LoopInv /\ [Next]_vars => LoopInv'
  <1> SUFFICES ASSUME Types, "undecryptable" \notin Faults, AllReached, [Next]_vars
               PROVE  AllReached'
    BY DEF TypeOK, LoopInv
  <1>1. ASSUME NEW r \in Run, RunStep(r) PROVE AllReached'
    BY <1>1, RunStepReached
  <1>2. CASE EventStep
    BY <1>2, EventStepReached
  <1>3. ASSUME NEW t \in Task, NEW o \in Ops, Request(t, o) PROVE AllReached'
    BY <1>3, StartReached DEF Request
  <1>4. ASSUME NEW t \in Task, TaskStep(t) PROVE AllReached'
    BY <1>4, TaskStepReached
  <1>5. CASE ConnectOnStartup
    BY <1>5, StartReached DEF ConnectOnStartup
  <1>6. CASE Crash
    BY <1>6, ResetReached DEF Crash
  <1>7. CASE UNCHANGED vars
    BY <1>7, StartReached DEF vars
  <1> QED
    BY <1>1, <1>2, <1>3, <1>4, <1>5, <1>6, <1>7 DEF Next

LEMMA InitLoop == Init => LoopInv
  <1> SUFFICES ASSUME Init, NEW x \in Run PROVE Reached(run[x], cli[x])
    BY DEF LoopInv, AllReached
  <1>1. run[x] = IdleRun /\ cli[x] = IdleClient
    BY DEF Init
  <1> QED
    BY <1>1, FreshReached DEF IdleRun, RunPC

\* However the requests, the QR codes, the kill signals and the connection's faults fall:
\* a client that is connected is the business of a StartClient goroutine which polls, or
\* soon polls, the kill channel; the exceptions are those that the property names.
THEOREM ConnectedArePolled == Spec => []ConnectedHasLoop
  <1>1. Spec => []LoopInv
    BY InitLoop, NextLoop, TypeCorrect, PTL DEF Spec
  <1>2. LoopInv => ConnectedHasLoop
    BY DEF LoopInv, AllReached, Reached, ConnectedHasLoop
  <1> QED
    BY <1>1, <1>2, PTL
=============================================================================
