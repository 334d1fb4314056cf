-------------------------- MODULE InstanceLifecycle --------------------------
(***************************************************************************)
(* One WhatsApp instance of evolution-go: the row of the `instances` table, *)
(* the three in-memory maps that the HTTP handlers, the StartClient         *)
(* goroutines and the WhatsApp event handlers share without a lock          *)
(* (clientPointer, myClientPointer, killChannel; main.go:66), and the       *)
(* unbuffered kill channel those goroutines signal each other with.         *)
(* The maps are keyed by instance id, so instances do not interact here and *)
(* the module describes a single one.                                       *)
(*                                                                         *)
(* Granularity: a step runs a goroutine from one point where it blocks      *)
(* (database, network, sleep, channel) to the next, except that Delete is   *)
(* also cut between closing the kill channel and unmapping it.              *)
(***************************************************************************)
EXTENDS Naturals, FiniteSets

CONSTANTS
  Run,        \* slots for StartClient calls; each call builds one client
  Chan,       \* slots for kill channels, made by make(chan bool)
  Task,       \* HTTP handlers and background ReconnectClient goroutines
  Jid,        \* identities of paired devices
  NoJid,      \* the empty instances.jid
  Ops,        \* the HTTP operations that callers use
  Faults,     \* what the environment may do to a connection or the process
  QrMax,      \* config.QrcodeMaxCount, 0 when the limit is disabled
  QrCodes,    \* how many QR codes one connection can emit (the server sends 6)
  MaxStimuli  \* bound: requests and faults in one behaviour

AllOps == {"Connect", "Reconnect", "SetProxy", "Disconnect", "Logout",
           "ForceReconnect", "Delete", "Use"}
AllFaults == {"drop", "loggedOut", "undecryptable", "pairError", "noStore",
              "connectFails", "crash"}

ASSUME LifecycleAssumption ==
  /\ Run \subseteq Nat \ {0}
  /\ Chan \subseteq Nat \ {0}
  /\ NoJid \notin Jid
  /\ Ops \subseteq AllOps
  /\ Faults \subseteq AllFaults
  /\ QrMax \in Nat
  /\ QrCodes \in Nat
  /\ MaxStimuli \in Nat

NoRun == 0    \* an absent entry of clientPointer and myClientPointer
NoChan == 0   \* an absent entry of killChannel: a nil channel

VARIABLES
  row,        \* the row of the instances table
  devices,    \* the devices in the whatsmeow store
  clientPtr,  \* clientPointer[id]: the run whose client is registered
  myPtr,      \* myClientPointer[id]: the run whose MyClient is registered
  killPtr,    \* killChannel[id]
  closed,     \* the closed channels still referenced
  sending,    \* goroutines parked in a send: {<<sender, channel>>}
  presence,   \* channels (or nil) a schedulePresenceUpdates goroutine waits on
  run,        \* each StartClient call
  cli,        \* each run's whatsmeow client and its event handler
  task,       \* each HTTP handler or reconnecting goroutine
  startup,    \* the process has begun and ConnectOnStartup has not run
  stimuli     \* requests and faults so far

maps  == <<clientPtr, myPtr, killPtr>>
chans == <<closed, sending, presence>>
vars  == <<row, devices, maps, chans, run, cli, task, startup, stimuli>>

RunPC == {"free", "check", "register", "connect", "qr", "qrSend", "poll",
          "killed", "limit"}
TaskPC == {"idle", "connSave", "connStart", "proxySave", "ensure",
           "ensureWait", "rcDrop", "rcClean", "rcStart", "dcSend", "dcSave",
           "loCall", "loSave", "timedSend", "frStart", "frDrop", "frSpawn",
           "delCall", "delClose", "delUnmap", "delClear",
           "delUnmapClear", "delRow"}

Row == [exists : BOOLEAN, connected : BOOLEAN, jid : Jid \cup {NoJid}]
NoRow == [exists |-> FALSE, connected |-> FALSE, jid |-> NoJid]

Sender == {<<"qr", r>> : r \in Run} \cup {<<"event", r>> : r \in Run}
             \cup {<<"task", t>> : t \in Task}

(***************************************************************************)
(* Values of a slot that nothing uses                                      *)
(***************************************************************************)
IdleRun == [pc |-> "free", jid |-> NoJid, codes |-> 0]
IdleClient == [conn |-> "down", store |-> NoJid, handler |-> FALSE,
               announce |-> FALSE, rekey |-> FALSE, qr |-> "open"]
IdleTask == [pc |-> "idle", op |-> "Use", copy |-> NoRow, client |-> NoRun]

-----------------------------------------------------------------------------
(***************************************************************************)
(* Slots. A Go object that nothing refers to is garbage, so its slot can   *)
(* stand for the next object; the least such slot is taken.                *)
(***************************************************************************)
Least(S) == {x \in S : \A y \in S : x <= y}

ChanInUse(c) ==
  \/ killPtr = c
  \/ \E s \in sending : s[2] = c
  \/ c \in presence

RunInUse(r) ==
  \/ run[r].pc # "free"
  \/ cli[r].conn # "down"
  \/ cli[r].rekey \/ cli[r].announce
  \/ r \in {clientPtr, myPtr}
  \/ \E t \in Task : task[t].client = r
  \/ \E s \in sending : s[1] = <<"event", r>>

FreshChan == Least({c \in Chan : ~ChanInUse(c)})
FreshRun == Least({r \in Run : ~RunInUse(r)})

(***************************************************************************)
(* go StartClient(cd) with cd.Instance.Jid = j. With the fault "noStore"   *)
(* sqlstore.New fails and the goroutine returns before it does anything.   *)
(***************************************************************************)
Spawn(j, run0, cli0) ==
  \/ \E r \in FreshRun :
       /\ run' = [run0 EXCEPT ![r] = [pc |-> "check", jid |-> j, codes |-> 0]]
       /\ cli' = [cli0 EXCEPT ![r] = IdleClient]
  \/ /\ "noStore" \in Faults \/ FreshRun = {}
     /\ run' = run0
     /\ cli' = cli0

\* killChannel[id] = make(chan bool)
MakeKillChannel ==
  \E c \in FreshChan :
    /\ killPtr' = c
    /\ closed' = closed \ {c}

\* StartInstance: read the row, make a kill channel, go StartClient.
StartInstance ==
  /\ MakeKillChannel
  /\ Spawn(row.jid, run, cli)

-----------------------------------------------------------------------------
(***************************************************************************)
(* The kill channel. A blocking send parks the sender until a receiver     *)
(* takes the value: a presence goroutine parked on the same channel, or    *)
(* the next poll of a StartClient loop. A send in a select with a default  *)
(* never meets the poll, which has a default of its own.                   *)
(***************************************************************************)
WaitingOn(c) == {s \in sending : s[2] = c}
Blocked(who) == \E s \in sending : s[1] = who

\* The non-blocking send of ReconnectClient and the QR limit, on an open channel.
TrySend(c) == presence' = IF c = NoChan THEN presence ELSE presence \ {c}

\* Everything in memory is lost; the tables stay.
Reset ==
  /\ clientPtr' = NoRun /\ myPtr' = NoRun /\ killPtr' = NoChan
  /\ closed' = {} /\ sending' = {} /\ presence' = {}
  /\ run' = [r \in Run |-> IdleRun]
  /\ cli' = [r \in Run |-> IdleClient]
  /\ task' = [t \in Task |-> IdleTask]
  /\ startup' = TRUE
  /\ UNCHANGED devices

\* UPDATE instances SET connected = b WHERE id = ...
UpdateConnected(b) == [row EXCEPT !.connected = b /\ row.exists]

\* A request or a fault from outside; MaxStimuli bounds them.
Stimulus == stimuli < MaxStimuli /\ stimuli' = stimuli + 1

Live(r) == r # NoRun /\ cli[r].conn # "down"

-----------------------------------------------------------------------------
(***************************************************************************)
(* StartClient                                                             *)
(***************************************************************************)
\* Lines 280-329: return if the registered client is connected, then find the
\* device; a jid whose device is gone marks the row disconnected.
CheckClient(r) ==
  /\ run[r].pc = "check"
  /\ IF Live(clientPtr)
       THEN /\ run' = [run EXCEPT ![r] = IdleRun]
            /\ UNCHANGED <<row, cli>>
       ELSE /\ run' = [run EXCEPT ![r].pc = "register"]
            /\ IF run[r].jid \in devices
                 THEN /\ cli' = [cli EXCEPT ![r].store = run[r].jid]
                      /\ UNCHANGED row
                 ELSE /\ UNCHANGED cli
                      /\ row' = IF run[r].jid = NoJid THEN row ELSE UpdateConnected(FALSE)
  /\ UNCHANGED <<devices, maps, chans, task, startup, stimuli>>

RegisterClient(r) ==
  /\ run[r].pc = "register"
  /\ clientPtr' = r
  /\ myPtr' = r
  /\ cli' = [cli EXCEPT ![r].handler = TRUE]
  /\ run' = [run EXCEPT ![r].pc = "connect"]
  /\ UNCHANGED <<row, devices, killPtr, chans, task, startup, stimuli>>

\* A client that cannot connect stays registered: the function only returns.
ConnectClient(r) ==
  /\ run[r].pc = "connect"
  /\ \/ /\ cli' = [cli EXCEPT ![r].conn = "up"]
        /\ run' = [run EXCEPT ![r].pc = IF cli[r].store = NoJid THEN "qr" ELSE "poll"]
        /\ UNCHANGED stimuli
     \/ /\ "connectFails" \in Faults /\ Stimulus
        /\ run' = [run EXCEPT ![r] = IdleRun]
        /\ UNCHANGED cli
  /\ UNCHANGED <<row, devices, maps, chans, task, startup>>

\* The QR channel is open until its last item. The emitter starts with the
\* codes the server sends; a local Disconnect does not stop it.
QrEmits(r) ==
  /\ run[r].pc = "qr" /\ cli[r].qr = "open"
  /\ run[r].codes < QrCodes
  /\ run[r].codes = 0 => cli[r].conn # "down"

QrLimited(r) == QrMax > 0 /\ run[r].codes + 1 >= QrMax

\* Lines 615-663: publish the code.
QrCode(r) ==
  /\ QrEmits(r) /\ ~QrLimited(r)
  /\ run' = [run EXCEPT ![r].codes = @ + 1]
  /\ UNCHANGED <<row, devices, maps, chans, cli, task, startup, stimuli>>

\* Lines 523-613: the limit. Logout of an unpaired client fails, so the client
\* keeps its connection.
QrLimit(r) ==
  /\ QrEmits(r) /\ QrLimited(r)
  /\ row' = UpdateConnected(FALSE)
  /\ IF killPtr \in closed
       THEN Reset
       ELSE /\ run' = [run EXCEPT ![r] = [IdleRun EXCEPT !.pc = "limit"]]
            /\ clientPtr' = NoRun /\ myPtr' = NoRun
            /\ TrySend(killPtr)
            /\ killPtr' = NoChan
            /\ UNCHANGED <<devices, closed, sending, cli, task, startup>>
  /\ UNCHANGED stimuli

\* Lines 664-675: the last item is "timeout", because the codes ran out (the
\* emitter then disconnects) or because the server closed the connection.
QrTimeout(r) ==
  /\ run[r].pc = "qr"
  /\ cli[r].qr = "timeout" \/ (cli[r].qr = "open" /\ run[r].codes = QrCodes)
  /\ clientPtr' = NoRun /\ myPtr' = NoRun
  /\ IF killPtr \in closed
       THEN Reset
       ELSE /\ sending' = sending \cup {<<<<"qr", r>>, killPtr>>}
            /\ run' = [run EXCEPT ![r].pc = "qrSend", ![r].codes = 0]
            /\ cli' = [cli EXCEPT ![r].conn = "down", ![r].qr = "open"]
            /\ UNCHANGED <<devices, killPtr, closed, presence, task, startup>>
  /\ UNCHANGED <<row, stimuli>>

\* (mutant) The emitter does not disconnect.
QrDrainOnly(r) ==
  /\ run[r].pc = "limit"
  /\ run' = [run EXCEPT ![r] = IdleRun]
  /\ cli' = [cli EXCEPT ![r].qr = "open"]
  /\ UNCHANGED <<row, devices, maps, chans, task, startup, stimuli>>

\* After the limit the emitter goes on until it has no code left, and disconnects.
QrDrain(r) ==
  /\ run[r].pc = "limit"
  /\ run' = [run EXCEPT ![r] = IdleRun]
  /\ cli' = [cli EXCEPT ![r].conn = IF cli[r].qr = "open" THEN "down" ELSE @, ![r].qr = "open"]
  /\ UNCHANGED <<row, devices, maps, chans, task, startup, stimuli>>

\* Lines 677-705: the QRTimeout event, once the kill signal is taken.
QrReport(r) ==
  /\ run[r].pc = "qrSend"
  /\ ~Blocked(<<"qr", r>>)
  /\ run' = [run EXCEPT ![r].pc = "poll"]
  /\ UNCHANGED <<row, devices, maps, chans, cli, task, startup, stimuli>>

\* Any other last item only ends the loop.
QrEnd(r) ==
  /\ run[r].pc = "qr"
  /\ cli[r].qr \in {"success", "error"}
  /\ run' = [run EXCEPT ![r].pc = "poll", ![r].codes = 0]
  /\ cli' = [cli EXCEPT ![r].qr = "open"]
  /\ UNCHANGED <<row, devices, maps, chans, task, startup, stimuli>>

\* (mutant) The poll ends the loop only when the channel is closed.
TakeOnlyClose(r) ==
  /\ run[r].pc = "poll" /\ killPtr \in closed
  /\ cli' = [cli EXCEPT ![r].conn = "down"]
  /\ clientPtr' = NoRun /\ myPtr' = NoRun
  /\ run' = [run EXCEPT ![r].pc = "killed"]
  /\ UNCHANGED <<row, devices, killPtr, chans, task, startup, stimuli>>

\* (mutant) The goroutine leaves its client connected.
TakeKillOnly(r) ==
  /\ run[r].pc = "poll"
  /\ killPtr # NoChan
  /\ \/ killPtr \in closed /\ UNCHANGED sending
     \/ \E s \in WaitingOn(killPtr) : sending' = sending \ {s}
  /\ clientPtr' = NoRun /\ myPtr' = NoRun
  /\ run' = [run EXCEPT ![r].pc = "killed"]
  /\ UNCHANGED <<row, devices, cli, killPtr, closed, presence, task, startup, stimuli>>

\* Lines 717-726: the once-a-second poll of whatever channel the map holds now.
TakeKill(r) ==
  /\ run[r].pc = "poll"
  /\ killPtr # NoChan
  /\ \/ killPtr \in closed /\ UNCHANGED sending
     \/ \E s \in WaitingOn(killPtr) : sending' = sending \ {s}
  /\ cli' = [cli EXCEPT ![r].conn = "down"]
  /\ clientPtr' = NoRun /\ myPtr' = NoRun
  /\ run' = [run EXCEPT ![r].pc = "killed"]
  /\ UNCHANGED <<row, devices, killPtr, closed, presence, task, startup, stimuli>>

\* (mutant) The kill loop saves cd.Instance, the row as it was when cd was built.
RestartSavesInstance(r) ==
  /\ run[r].pc = "killed"
  /\ row' = [exists |-> TRUE, connected |-> FALSE, jid |-> run[r].jid]
  /\ Spawn(run[r].jid, [run EXCEPT ![r] = IdleRun], cli)
  /\ UNCHANGED <<devices, maps, chans, task, startup, stimuli>>

\* Lines 730-772: mark the row, send LoggedOut and call StartClient(cd) again,
\* with the jid that cd was built with.
RestartClient(r) ==
  /\ run[r].pc = "killed"
  /\ row' = UpdateConnected(FALSE)
  /\ Spawn(run[r].jid, [run EXCEPT ![r] = IdleRun], cli)
  /\ UNCHANGED <<devices, maps, chans, task, startup, stimuli>>

RunStep(r) ==
  \/ CheckClient(r) \/ RegisterClient(r) \/ ConnectClient(r)
  \/ QrCode(r) \/ QrLimit(r) \/ QrTimeout(r) \/ QrDrain(r) \/ QrReport(r)
  \/ QrEnd(r) \/ TakeKill(r) \/ RestartClient(r)

-----------------------------------------------------------------------------
(***************************************************************************)
(* WhatsApp and the event handler of run r's client (myEventHandler)       *)
(***************************************************************************)
\* A phone scans a code: PairSuccess reads the row and saves all of it. With
\* the row gone the handler dereferences nil, which dispatchEvent recovers.
ShowsCode(r) ==
  /\ cli[r].qr = "open" /\ cli[r].conn # "down"
  /\ run[r].pc = "limit" \/ (run[r].pc = "qr" /\ run[r].codes > 0)

PairSuccess(r, j) ==
  /\ ShowsCode(r)
  /\ j \notin devices
  /\ devices' = devices \cup {j}
  /\ cli' = [cli EXCEPT ![r].store = j, ![r].qr = "success"]
  /\ row' = IF row.exists /\ cli[r].handler
               THEN [exists |-> TRUE, connected |-> TRUE, jid |-> j]
               ELSE row
  /\ UNCHANGED <<maps, chans, run, task, startup, stimuli>>

\* Pairing fails: the library disconnects, and myEventHandler ignores PairError.
PairError(r) ==
  /\ "pairError" \in Faults /\ Stimulus
  /\ ShowsCode(r)
  /\ cli' = [cli EXCEPT ![r].conn = "down", ![r].qr = "error"]
  /\ UNCHANGED <<row, devices, maps, chans, run, task, startup>>

\* The server accepts the login of a known device, and drops whichever other
\* connection of that device there is (StreamReplaced, which myEventHandler ignores).
LoginAccepted(r) ==
  /\ cli[r].conn = "up"
  /\ cli[r].store \in devices
  /\ cli' = [x \in Run |->
       CASE x = r -> [cli[x] EXCEPT !.conn = "in", !.announce = TRUE]
         [] x # r /\ cli[x].store = cli[r].store -> [cli[x] EXCEPT !.conn = "down"]
         [] OTHER -> cli[x]]
  /\ UNCHANGED <<row, devices, maps, chans, run, task, startup, stimuli>>

\* events.Connected, dispatched by a goroutine that may run much later.
Connected(r) ==
  /\ cli[r].announce
  /\ cli' = [cli EXCEPT ![r].announce = FALSE]
  /\ IF cli[r].handler
       THEN /\ row' = UpdateConnected(TRUE)
            /\ presence' = IF killPtr \in closed THEN presence ELSE presence \cup {killPtr}
       ELSE UNCHANGED <<row, presence>>
  /\ UNCHANGED <<devices, maps, closed, sending, run, task, startup, stimuli>>

\* The connection breaks: events.Disconnected marks the row and starts a
\* goroutine that runs ReconnectClient; a pending QR loop gets "timeout".
Disconnected(r) ==
  /\ "drop" \in Faults /\ Stimulus
  /\ cli[r].conn # "down"
  /\ cli' = [cli EXCEPT ![r].conn = "down",
                        ![r].qr = IF @ = "open" /\ run[r].pc \in {"qr", "limit"}
                                    THEN "timeout" ELSE @]
  /\ IF cli[r].handler
       THEN /\ row' = UpdateConnected(FALSE)
            /\ \E t \in Task :
                 /\ task[t].pc = "idle"
                 /\ task' = [task EXCEPT ![t].pc = "rcDrop", ![t].op = "Restart"]
       ELSE UNCHANGED <<row, task>>
  /\ UNCHANGED <<devices, maps, chans, run, startup>>

\* The phone or the server removes the device: events.LoggedOut marks the row,
\* then its handler sends the kill signal and waits until it is taken.
LoggedOut(r) ==
  /\ "loggedOut" \in Faults /\ Stimulus
  /\ cli[r].conn # "down" /\ cli[r].store # NoJid
  /\ ~Blocked(<<"event", r>>)
  /\ devices' = devices \ {cli[r].store}
  /\ cli' = [cli EXCEPT ![r].conn = "down", ![r].store = NoJid]
  /\ IF cli[r].handler
       THEN /\ row' = UpdateConnected(FALSE)
            /\ sending' = IF killPtr \in closed THEN sending
                          ELSE sending \cup {<<<<"event", r>>, killPtr>>}
       ELSE UNCHANGED <<row, sending>>
  /\ UNCHANGED <<maps, closed, presence, run, task, startup>>

\* UndecryptableMessage with an id that begins with 66 or 67: the handler calls
\* Disconnect and then Connect.
Undecryptable(r) ==
  /\ "undecryptable" \in Faults /\ Stimulus
  /\ cli[r].conn = "in" /\ cli[r].handler /\ ~cli[r].rekey
  /\ cli' = [cli EXCEPT ![r].conn = "down", ![r].rekey = TRUE]
  /\ UNCHANGED <<row, devices, maps, chans, run, task, startup>>

UndecryptableConnect(r) ==
  /\ cli[r].rekey
  /\ \/ cli' = [cli EXCEPT ![r].rekey = FALSE, ![r].conn = "up"] /\ UNCHANGED stimuli
     \/ /\ "connectFails" \in Faults /\ Stimulus
        /\ cli' = [cli EXCEPT ![r].rekey = FALSE]
  /\ UNCHANGED <<row, devices, maps, chans, run, task, startup>>

\* A presence goroutine takes a parked kill signal and ends.
PresenceTakes(s) ==
  /\ s[2] # NoChan /\ s[2] \in presence
  /\ sending' = sending \ {s}
  /\ presence' = presence \ {s[2]}
  /\ UNCHANGED <<row, devices, maps, closed, run, cli, task, startup, stimuli>>

\* Its ticker: the goroutine ends if the row is gone, else waits on the channel
\* that is in the map now (a closed one ends it).
PresenceTick(c) ==
  /\ c \in presence
  /\ presence' = IF row.exists /\ killPtr \notin closed
                   THEN (presence \ {c}) \cup {killPtr} ELSE presence \ {c}
  /\ UNCHANGED <<row, devices, maps, closed, sending, run, cli, task, startup, stimuli>>

EventStep ==
  \/ \E r \in Run :
       \/ \E j \in Jid : PairSuccess(r, j)
       \/ PairError(r) \/ LoginAccepted(r) \/ Connected(r) \/ Disconnected(r) \/ LoggedOut(r)
       \/ Undecryptable(r) \/ UndecryptableConnect(r)
  \/ \E s \in sending : PresenceTakes(s)
  \/ \E c \in presence : PresenceTick(c)

-----------------------------------------------------------------------------
(***************************************************************************)
(* HTTP handlers. The Auth middleware (or the handler, for Delete and      *)
(* ForceReconnect) reads the row first; task[t].copy is what it read.      *)
(***************************************************************************)
FirstPC(o) == CASE o = "Connect"        -> "connSave"
                [] o = "SetProxy"       -> "proxySave"
                [] o = "ForceReconnect" -> "frStart"
                [] o = "Delete"         -> "delCall"
                [] OTHER                -> "ensure"

Request(t, o) ==
  /\ Stimulus
  /\ task[t].pc = "idle"
  /\ row.exists
  /\ task' = [task EXCEPT ![t] = [pc |-> FirstPC(o), op |-> o,
                               copy |-> IF o \in {"Connect", "SetProxy", "Disconnect", "Logout"}
                                          THEN row ELSE NoRow,
                               client |-> NoRun]]
  /\ UNCHANGED <<row, devices, maps, chans, run, cli, startup>>

At(t, l) == task[t].pc = l
Goto(t, l) == task' = [task EXCEPT ![t].pc = l]
Finish(t) == task' = [task EXCEPT ![t] = IdleTask]

\* Repository.Update is db.Save: it writes every column of the copy, and inserts
\* the row again if it is gone.
SaveCopy(t) == row' = task[t].copy

\* Connect 221-246: save the row; with a registered MyClient only its settings
\* change, otherwise a kill channel is made and StartClient begins.
ConnectSave(t) ==
  /\ At(t, "connSave")
  /\ SaveCopy(t)
  /\ Goto(t, "connStart")
  /\ UNCHANGED <<devices, maps, chans, run, cli, startup, stimuli>>

ConnectStart(t) ==
  /\ At(t, "connStart")
  /\ IF row.exists /\ myPtr # NoRun
       THEN UNCHANGED <<killPtr, closed, run, cli>>
       ELSE MakeKillChannel /\ Spawn(task[t].copy.jid, run, cli)
  /\ Finish(t)
  /\ UNCHANGED <<row, devices, clientPtr, myPtr, sending, presence, startup, stimuli>>

\* SetProxy and RemoveProxy: save the row, then Reconnect.
ProxySave(t) ==
  /\ At(t, "proxySave")
  /\ SaveCopy(t)
  /\ task' = [task EXCEPT ![t].pc = "ensure", ![t].copy = NoRow]
  /\ UNCHANGED <<devices, maps, chans, run, cli, startup, stimuli>>

\* What follows ensureClientConnected when it returns client c. Only Disconnect
\* does more before it blocks: it sends the kill signal to a logged-in client.
Ensured(t, c) ==
  LET n == CASE task[t].op \in {"Reconnect", "SetProxy"}           -> "rcDrop"
             [] task[t].op = "Logout"                              -> "loCall"
             [] task[t].op = "Disconnect" /\ cli[c].conn = "in"
                  /\ killPtr \notin closed                         -> "dcSend"
             [] OTHER                                              -> "idle"
  IN /\ IF n = "idle" THEN Finish(t)
                      ELSE task' = [task EXCEPT ![t].pc = n, ![t].client = c]
     /\ sending' = IF n = "dcSend" THEN sending \cup {<<<<"task", t>>, killPtr>>}
                                   ELSE sending

\* ensureClientConnected: a registered client is returned if connected and is an
\* error if not; with none registered an instance is started.
EnsureClient(t) ==
  /\ At(t, "ensure")
  /\ \/ /\ Live(clientPtr) /\ Ensured(t, clientPtr)
        /\ UNCHANGED <<killPtr, closed, run, cli>>
     \/ /\ clientPtr = NoRun /\ row.exists
        /\ StartInstance /\ Goto(t, "ensureWait") /\ UNCHANGED sending
     \/ /\ ~Live(clientPtr)
        /\ clientPtr = NoRun => ~row.exists
        /\ Finish(t) /\ UNCHANGED <<sending, killPtr, closed, run, cli>>
  /\ UNCHANGED <<row, devices, clientPtr, myPtr, presence, startup, stimuli>>

\* Two seconds later.
EnsureAgain(t) ==
  /\ At(t, "ensureWait")
  /\ IF Live(clientPtr) THEN Ensured(t, clientPtr)
                        ELSE Finish(t) /\ UNCHANGED sending
  /\ UNCHANGED <<row, devices, maps, closed, presence, run, cli, startup, stimuli>>

\* ReconnectClient 151-157: disconnect the registered client.
ReconnectDrop(t) ==
  /\ At(t, "rcDrop")
  /\ IF clientPtr = NoRun THEN UNCHANGED cli
       ELSE cli' = [cli EXCEPT ![clientPtr].conn = "down"]
  /\ task' = [task EXCEPT ![t].pc = "rcClean", ![t].client = clientPtr]
  /\ UNCHANGED <<row, devices, maps, chans, run, startup, stimuli>>

\* A running handler holds eventHandlersLock for reading.
InHandler(r) == Blocked(<<"event", r>>) \/ cli[r].rekey

\* 159-202: RemoveEventHandler waits for the client's running handlers and finds
\* nothing if MyClient belongs to another client; then the maps are cleared. A send
\* on a closed channel panics here, which ends the process unless gin recovers it.
CleanHandler(c) ==
  cli' = IF c # NoRun /\ c = myPtr THEN [cli EXCEPT ![c].handler = FALSE] ELSE cli

CleanRow(t) ==
  /\ row' = UpdateConnected(FALSE)
  /\ IF row.exists THEN task' = [task EXCEPT ![t].pc = "rcStart", ![t].client = NoRun]
                   ELSE Finish(t)

\* (mutant) delete(w.clientPointer, id) is forgotten.
CleanMapsKeepsClient ==
  TrySend(killPtr) /\ UNCHANGED clientPtr /\ myPtr' = NoRun /\ killPtr' = NoChan

CleanMaps ==
  TrySend(killPtr) /\ clientPtr' = NoRun /\ myPtr' = NoRun /\ killPtr' = NoChan

ReconnectClean(t) ==
  LET c == task[t].client IN
  /\ At(t, "rcClean")
  /\ (c # NoRun /\ myPtr # NoRun) => ~InHandler(c)
  /\ \/ /\ killPtr \notin closed
        /\ CleanHandler(c) /\ CleanMaps /\ CleanRow(t)
        /\ UNCHANGED <<devices, closed, sending, run, startup>>
     \/ /\ killPtr \in closed /\ task[t].op = "Reconnect"
        /\ CleanHandler(c) /\ Finish(t)
        /\ UNCHANGED <<row, devices, maps, chans, run, startup>>
     \/ /\ killPtr \in closed /\ task[t].op # "Reconnect"
        /\ Reset
        /\ UNCHANGED row
  /\ UNCHANGED stimuli

\* (mutant) Only an instance whose row still says connected is started again.
ReconnectStartsConnected(t) ==
  /\ At(t, "rcStart")
  /\ Finish(t)
  /\ IF row.exists /\ row.connected THEN StartInstance
       ELSE UNCHANGED <<killPtr, closed, run, cli>>
  /\ UNCHANGED <<row, devices, clientPtr, myPtr, sending, presence, startup, stimuli>>

ReconnectStart(t) ==
  /\ At(t, "rcStart")
  /\ Finish(t)
  /\ IF row.exists THEN StartInstance ELSE UNCHANGED <<killPtr, closed, run, cli>>
  /\ UNCHANGED <<row, devices, clientPtr, myPtr, sending, presence, startup, stimuli>>

\* Disconnect 303-313: the send has been received (or the handler is gone).
DisconnectSave(t) ==
  /\ At(t, "dcSend") /\ ~Blocked(<<"task", t>>)
  /\ SaveCopy(t)
  /\ Finish(t)
  /\ UNCHANGED <<devices, maps, chans, run, cli, startup, stimuli>>

\* killChannel[id] <- true in a select with a five-second timer; a send on a
\* closed channel panics, and gin answers 500.
TimedSend(t, c) ==
  IF c \in closed
    THEN Finish(t) /\ UNCHANGED sending
    ELSE /\ sending' = sending \cup {<<<<"task", t>>, c>>}
         /\ Goto(t, "timedSend")

\* Logout 322-329, 350-352: the server forgets a logged-in device, or the
\* request fails; a client that is only connected is disconnected.
LogoutCall(t) ==
  LET c == task[t].client IN
  /\ At(t, "loCall")
  /\ \/ /\ cli[c].conn = "in"
        /\ devices' = devices \ {cli[c].store}
        /\ cli' = [cli EXCEPT ![c].conn = "down", ![c].store = NoJid]
        /\ Goto(t, "loSave")
        /\ UNCHANGED sending
     \/ /\ cli[c].conn = "up"
        /\ cli' = [cli EXCEPT ![c].conn = "down"]
        /\ TimedSend(t, killPtr)
        /\ UNCHANGED devices
     \/ /\ cli[c].conn = "down" \/ (cli[c].conn = "in" /\ "drop" \in Faults)
        /\ Finish(t)
        /\ UNCHANGED <<devices, cli, sending>>
  /\ UNCHANGED <<row, maps, closed, presence, run, startup, stimuli>>

LogoutSave(t) ==
  /\ At(t, "loSave")
  /\ row' = [task[t].copy EXCEPT !.connected = FALSE]
  /\ TimedSend(t, killPtr)
  /\ UNCHANGED <<devices, maps, closed, presence, run, cli, startup, stimuli>>

\* (mutant) The send has no timer.
UnmapWhenReceived(t) ==
  /\ At(t, "timedSend") /\ ~Blocked(<<"task", t>>)
  /\ clientPtr' = NoRun /\ killPtr' = NoChan
  /\ IF task[t].op = "ForceReconnect" THEN Goto(t, "frSpawn") ELSE Finish(t)
  /\ UNCHANGED <<row, devices, myPtr, chans, run, cli, startup, stimuli>>

\* (mutant) The handler goes on after five seconds and its send stays behind.
UnmapLeavesSender(t) ==
  /\ At(t, "timedSend")
  /\ clientPtr' = NoRun /\ killPtr' = NoChan
  /\ IF task[t].op = "ForceReconnect" THEN Goto(t, "frSpawn") ELSE Finish(t)
  /\ UNCHANGED <<row, devices, myPtr, chans, run, cli, startup, stimuli>>

\* The send was received or timed out: clientPointer and killChannel lose their
\* entries (myClientPointer keeps its own).
Unmap(t) ==
  /\ At(t, "timedSend")
  /\ sending' = {s \in sending : s[1] # <<"task", t>>}
  /\ clientPtr' = NoRun /\ killPtr' = NoChan
  /\ IF task[t].op = "ForceReconnect" THEN Goto(t, "frSpawn") ELSE Finish(t)
  /\ UNCHANGED <<row, devices, myPtr, closed, presence, run, cli, startup, stimuli>>

\* ForceReconnect 589-601 with ForceUpdateJid: an empty jid may be replaced by
\* that of some device of the caller's number.
ForceStart(t) ==
  /\ At(t, "frStart")
  /\ IF ~row.exists \/ (Live(clientPtr) /\ cli[clientPtr].conn = "in")
       THEN Finish(t) /\ UNCHANGED row
       ELSE \E j \in {row.jid} \cup (IF row.jid = NoJid THEN devices ELSE {}) :
              /\ row' = [row EXCEPT !.jid = j]
              /\ task' = [task EXCEPT ![t].pc = "frDrop", ![t].copy = row']
  /\ UNCHANGED <<devices, maps, chans, run, cli, startup, stimuli>>

\* 605-638: the new kill channel is made first, so the signal goes to it.
ForceDrop(t) ==
  /\ At(t, "frDrop")
  /\ MakeKillChannel
  /\ IF clientPtr = NoRun
       THEN Goto(t, "frSpawn") /\ UNCHANGED <<cli, sending>>
       ELSE /\ cli' = [cli EXCEPT ![clientPtr].conn = "down"]
            /\ sending' = sending \cup {<<<<"task", t>>, killPtr'>>}
            /\ Goto(t, "timedSend")
  /\ UNCHANGED <<row, devices, clientPtr, myPtr, presence, run, startup, stimuli>>

ForceSpawn(t) ==
  /\ At(t, "frSpawn")
  /\ Spawn(task[t].copy.jid, run, cli)
  /\ Finish(t)
  /\ UNCHANGED <<row, devices, maps, chans, startup, stimuli>>

-----------------------------------------------------------------------------
(***************************************************************************)
(* Delete                                                                  *)
(***************************************************************************)
\* (mutant) A panic in an event handler is not recovered either.
CloseKillsHandlers(t, next, my) ==
  CASE killPtr \in closed ->
         Finish(t) /\ myPtr' = my /\ UNCHANGED <<killPtr, chans, run, cli, startup>>
    [] killPtr \notin closed /\ \E s \in WaitingOn(killPtr) : s[1][1] # "task" ->
         Reset
    [] OTHER ->
         /\ closed' = closed \cup {killPtr}
         /\ sending' = sending \ WaitingOn(killPtr)
         /\ presence' = presence \ {killPtr}
         /\ task' = [x \in Task |-> IF x = t THEN [task[t] EXCEPT !.pc = next]
                       ELSE IF <<<<"task", x>>, killPtr>> \in sending THEN IdleTask
                       ELSE task[x]]
         /\ myPtr' = my
         /\ UNCHANGED <<killPtr, run, cli, startup>>

\* close(killChannel[id]): its parked senders panic. That is recovered in an
\* HTTP or an event handler; in a StartClient goroutine it ends the process.
CloseKill(t, next, my) ==
  CASE killPtr \in closed ->
         Finish(t) /\ myPtr' = my /\ UNCHANGED <<killPtr, chans, run, cli, startup>>
    [] killPtr \notin closed /\ \E s \in WaitingOn(killPtr) : s[1][1] = "qr" ->
         Reset
    [] OTHER ->
         /\ closed' = closed \cup {killPtr}
         /\ sending' = sending \ WaitingOn(killPtr)
         /\ presence' = presence \ {killPtr}
         /\ task' = [x \in Task |-> IF x = t THEN [task[t] EXCEPT !.pc = next]
                       ELSE IF <<<<"task", x>>, killPtr>> \in sending THEN IdleTask
                       ELSE task[x]]
         /\ myPtr' = my
         /\ UNCHANGED <<killPtr, run, cli, startup>>

\* Delete 482-487; the result of Logout is ignored.
DeleteCall(t) ==
  /\ At(t, "delCall")
  /\ Goto(t, "delClose")
  /\ IF Live(clientPtr)
       THEN LET c == clientPtr IN
            \/ /\ cli[c].conn = "in"
               /\ cli' = [cli EXCEPT ![c].conn = "down", ![c].store = NoJid]
               /\ devices' = devices \ {cli[c].store}
            \/ /\ cli[c].conn = "up" \/ "drop" \in Faults
               /\ cli' = [cli EXCEPT ![c].conn = "down"]
               /\ UNCHANGED devices
       ELSE UNCHANGED <<devices, cli>>
  /\ UNCHANGED <<row, maps, chans, run, startup, stimuli>>

DeleteClose(t) ==
  /\ At(t, "delClose")
  /\ clientPtr' = NoRun
  /\ IF killPtr = NoChan
       THEN Goto(t, "delClear") /\ UNCHANGED <<myPtr, killPtr, chans, run, cli, startup>>
       ELSE CloseKill(t, "delUnmap", myPtr)
  /\ UNCHANGED <<row, devices, stimuli>>

\* ClearInstanceCache 2397-2430.
DeleteClear(t) ==
  /\ At(t, "delClear")
  /\ clientPtr' = NoRun
  /\ IF killPtr = NoChan
       THEN Goto(t, "delRow") /\ myPtr' = NoRun /\ UNCHANGED <<killPtr, chans, run, cli, startup>>
       ELSE CloseKill(t, "delUnmapClear", NoRun)
  /\ UNCHANGED <<row, devices, stimuli>>

\* (mutant) The channel is closed and stays in the map.
DeleteKeepsChannel(t) ==
  /\ task[t].pc \in {"delUnmap", "delUnmapClear"}
  /\ Goto(t, IF At(t, "delUnmap") THEN "delClear" ELSE "delRow")
  /\ UNCHANGED <<row, devices, maps, chans, run, cli, startup, stimuli>>

DeleteUnmap(t) ==
  /\ task[t].pc \in {"delUnmap", "delUnmapClear"}
  /\ killPtr' = NoChan
  /\ Goto(t, IF At(t, "delUnmap") THEN "delClear" ELSE "delRow")
  /\ UNCHANGED <<row, devices, clientPtr, myPtr, chans, run, cli, startup, stimuli>>

DeleteRow(t) ==
  /\ At(t, "delRow")
  /\ row' = NoRow
  /\ Finish(t)
  /\ UNCHANGED <<devices, maps, chans, run, cli, startup, stimuli>>

TaskStep(t) ==
  \/ ConnectSave(t) \/ ConnectStart(t) \/ ProxySave(t)
  \/ EnsureClient(t) \/ EnsureAgain(t)
  \/ ReconnectDrop(t) \/ ReconnectClean(t) \/ ReconnectStart(t)
  \/ DisconnectSave(t) \/ LogoutCall(t) \/ LogoutSave(t) \/ Unmap(t)
  \/ ForceStart(t) \/ ForceDrop(t) \/ ForceSpawn(t)
  \/ DeleteCall(t) \/ DeleteClose(t) \/ DeleteUnmap(t) \/ DeleteClear(t) \/ DeleteRow(t)

-----------------------------------------------------------------------------
(***************************************************************************)
(* The process                                                             *)
(***************************************************************************)
\* ConnectOnStartup starts the instances whose row says connected.
ConnectOnStartup ==
  /\ startup
  /\ startup' = FALSE
  /\ IF row.exists /\ row.connected THEN StartInstance
       ELSE UNCHANGED <<killPtr, closed, run, cli>>
  /\ UNCHANGED <<row, devices, clientPtr, myPtr, sending, presence, task, stimuli>>

Crash ==
  /\ "crash" \in Faults /\ Stimulus
  /\ Reset
  /\ UNCHANGED row

\* The instance was created and never paired, or paired by an earlier process.
Init ==
  /\ \E j \in {NoJid} \cup Jid :
       /\ row = [exists |-> TRUE, connected |-> j # NoJid, jid |-> j]
       /\ devices = {j} \ {NoJid}
  /\ clientPtr = NoRun /\ myPtr = NoRun /\ killPtr = NoChan
  /\ closed = {} /\ sending = {} /\ presence = {}
  /\ run = [r \in Run |-> IdleRun]
  /\ cli = [r \in Run |-> IdleClient]
  /\ task = [t \in Task |-> IdleTask]
  /\ startup = TRUE
  /\ stimuli = 0

Next ==
  \/ \E r \in Run : RunStep(r)
  \/ EventStep
  \/ \E t \in Task, o \in Ops : Request(t, o)
  \/ \E t \in Task : TaskStep(t)
  \/ ConnectOnStartup
  \/ Crash

Spec == Init /\ [][Next]_vars

(***************************************************************************)
(* Goroutines run, timers fire and a server that answers does so in the    *)
(* end; callers need not call and nothing need fail.                       *)
(***************************************************************************)
Fairness ==
  /\ \A r \in Run : WF_vars(RunStep(r)) /\ WF_vars(Connected(r))
                      /\ WF_vars(UndecryptableConnect(r))
  /\ \A t \in Task : WF_vars(TaskStep(t))
  /\ WF_vars(ConnectOnStartup)

FairSpec == Spec /\ Fairness

-----------------------------------------------------------------------------
(***************************************************************************)
(* Properties                                                              *)
(***************************************************************************)
RunRec == [pc : RunPC, jid : Jid \cup {NoJid}, codes : Nat]
ClientRec == [conn : {"down", "up", "in"}, store : Jid \cup {NoJid}, handler : BOOLEAN,
              announce : BOOLEAN, rekey : BOOLEAN,
              qr : {"open", "timeout", "success", "error"}]
TaskRec == [pc : TaskPC, op : AllOps \cup {"Restart"}, copy : Row, client : Run \cup {NoRun}]

\* A goroutine is parked on one channel, and is then at the statement that sends.
ParkedAtSend ==
  /\ \A s \in sending :
       /\ s[1][1] = "qr" => run[s[1][2]].pc = "qrSend"
       /\ s[1][1] = "task" => task[s[1][2]].pc \in {"dcSend", "timedSend"}
  /\ \A s, u \in sending : s[1] = u[1] => s = u

Types ==
  /\ row \in Row
  /\ devices \subseteq Jid
  /\ clientPtr \in Run \cup {NoRun}
  /\ myPtr \in Run \cup {NoRun}
  /\ killPtr \in Chan \cup {NoChan}
  /\ closed \subseteq Chan
  /\ sending \subseteq Sender \X (Chan \cup {NoChan})
  /\ presence \subseteq Chan \cup {NoChan}
  /\ run \in [Run -> RunRec]
  /\ cli \in [Run -> ClientRec]
  /\ task \in [Task -> TaskRec]
  /\ startup \in BOOLEAN
  /\ stimuli \in Nat

\* Every variable keeps its type, and the goroutines that wait in a send are those
\* whose next statement is that send: none leaves (by a timer or a panic) and stays.
TypeOK == Types /\ ParkedAtSend

\* The map holds a closed kill channel only while the Delete that closed it is
\* between close(killChannel[id]) and delete(killChannel, id): any other use of the
\* channel finds it open, so no other close and no send panics.
ClosedChannelBrief ==
  killPtr \in closed => \E t \in Task : task[t].pc \in {"delUnmap", "delUnmapClear"}

\* ReconnectClient removes the handler of the client it saw before it waited. A client
\* that stays registered never loses its handler (it would be deaf: connected, and no
\* event handled), except under a Delete that has the kill channel closed.
RegisteredKeepsHandler ==
  [][\A r \in {clientPtr', myPtr'} \ {NoRun} :
       \/ cli[r].handler => cli'[r].handler
       \/ \E t \in Task : task[t].pc \in {"delUnmap", "delUnmapClear"}]_vars

\* The process dies without a crash from outside only when a Delete closes the kill
\* channel under a QR loop of the instance or under a reconnection in the background.
DiesOnlyUnderDelete ==
  [][startup' /\ ~startup /\ stimuli' = stimuli =>
       /\ \E t \in Task : task[t].op = "Delete"
       /\ \/ \E r \in Run : run[r].pc \in {"qr", "qrSend"}
          \/ \E t \in Task : task[t].op \in {"SetProxy", "Restart"}]_vars

Saving == {"connSave", "proxySave", "dcSend", "loSave"}

\* StartClient goroutines, reconnects and events other than PairSuccess never
\* insert, delete or re-identify the row, however old the cd they were built
\* with: only a handler's Save, ForceUpdateJid, Delete and PairSuccess do.
OnlyHandlersRewriteRow ==
  [][row'.jid # row.jid \/ row'.exists # row.exists =>
       \/ \E t \in Task : task[t].pc \in Saving \cup {"frStart", "delRow"}
       \/ \E r \in Run : ShowsCode(r) /\ cli'[r].store = row'.jid]_vars

\* A request that read the row and writes its copy back later.
MaySave(t) ==
  task[t].op \in {"Connect", "SetProxy", "Disconnect", "Logout"} /\ task[t].copy.exists

\* What DeleteIsFinal leaves out: only a request that had read the row before Delete
\* removed it brings the instance back. With none of them left it stays deleted:
\* no StartClient loop, reconnection or event, however late, inserts the row.
DeletedForGood ==
  [][~row.exists /\ (\A t \in Task : ~MaySave(t)) =>
       ~row'.exists /\ (\A t \in Task : ~MaySave(t))']_vars

\* A connected client is in its QR loop or polled by its StartClient goroutine, which
\* takes the kill signals: none is connected and out of reach. Excepted are a client
\* past the QR limit (its goroutine only drains the codes, and leaves it connected if
\* it was paired at last) and one that the handler of an undecryptable message
\* connects again, which may come after the end of its goroutine.
ConnectedHasLoop ==
  \A r \in Run :
    cli[r].conn # "down" =>
      \/ run[r].pc \in {"qr", "poll"}
      \/ QrMax > 0 /\ run[r].pc = "limit"
      \/ QrMax > 0 /\ run[r].pc = "free" /\ cli[r].store # NoJid
      \/ "undecryptable" \in Faults

Polled(c) == killPtr = c /\ \E r \in Run : run[r].pc = "poll"

\* Kill signals parked on a channel that a StartClient loop polls are all taken,
\* unless the loop or the channel goes away.
PolledKillTaken ==
  \A c \in Chan : (Polled(c) /\ WaitingOn(c) # {}) ~> (~Polled(c) \/ WaitingOn(c) = {})

\* Every HTTP request but Disconnect, and every reconnection, comes to an end.
RequestsFinish ==
  \A t \in Task : task[t].pc # "idle" ~> task[t].pc = "idle"

\* A reconnection of an instance whose device is still paired ends with a
\* registered client that is connected.
ReconnectSucceeds ==
  ((\E t \in Task : task[t].pc = "rcStart") /\ row.jid \in devices)
    ~> (Live(clientPtr) \/ row.jid \notin devices)

\* The QR timeout of a client is reported.
QrTimeoutReported ==
  \A r \in Run : run[r].pc = "qrSend" ~> run[r].pc # "qrSend"

\* A deleted instance stays deleted.
DeleteIsFinal == [][row.exists \/ ~row'.exists]_vars

\* After a restart of the process a paired instance is connected again.
RestartResumes == (row.exists /\ row.jid \in devices /\ startup) ~> Live(clientPtr)
=============================================================================
