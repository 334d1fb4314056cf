-------------------------- MODULE InstanceSettings --------------------------
(***************************************************************************)
(* The delivery settings of one instance (webhook, channels, subscribed     *)
(* events): the row of the database, and the copies of it by which the      *)
(* running client reports events. Connect and the other requests read and   *)
(* write the row, and replace the copies, without a lock                    *)
(* (pkg/instance/service/instance_service.go, UpdateInstanceSettings and    *)
(* StartClient in pkg/whatsmeow/service/whatsmeow.go).                      *)
(*                                                                         *)
(* Every Connect writes a new version of the settings; a version is a       *)
(* number here, its content is of no interest before an event is reported.  *)
(***************************************************************************)
EXTENDS Naturals

CONSTANTS
  Task,       \* HTTP requests and starts of the client, one run each
  MaxVersion  \* bound: Connect requests in one behaviour

ASSUME VersionAssumption == MaxVersion \in Nat

VARIABLES
  row,         \* the version in the database
  last,        \* the newest version ever written
  installed,   \* MyClient.Instance: what event handlers report by
  started,     \* ClientData.Instance of the running StartClient: for QR events
  registered,  \* myClientPointer has the instance
  killed,      \* ClientData of a loop that took the kill signal and has yet to restart
  task,        \* each request
  excused      \* the client may run on other settings than the row's (history)

settings == <<row, last, installed, started, registered, killed, task, excused>>

Version == 0..MaxVersion
\* "save" stands for Disconnect, Logout and SetProxy, which write back the whole row
\* they were authenticated with, "start" for StartInstance.
Kinds == {"connect", "advanced", "save", "start"}
NoTask == [pc |-> "idle", kind |-> "save", copy |-> 0, read |-> 0, alone |-> FALSE]

InProgress(k) == task[k].pc \notin {"idle", "done"}
Busy == {k \in Task : InProgress(k)}

Step(k, pc) == task' = [task EXCEPT ![k].pc = pc]
DoneTask == [NoTask EXCEPT !.pc = "done"]
Finish(k) == task' = [task EXCEPT ![k] = DoneTask]

-----------------------------------------------------------------------------
(***************************************************************************)
(* Requests. The instance a request works on is read by its authentication. *)
(***************************************************************************)
Begin(k, kind) ==
  /\ task[k].pc = "idle"
  /\ task' = [j \in Task |->
       IF j = k THEN [pc |-> IF kind = "start" THEN "start" ELSE "loaded", kind |-> kind,
                      copy |-> row, read |-> 0, alone |-> Busy = {}]
       ELSE [task[j] EXCEPT !.alone = FALSE]]
  /\ excused' = (excused \/ Busy # {})
  /\ UNCHANGED <<row, last, installed, started, registered, killed>>

\* instanceRepository.Update saves every column; UpdateAdvancedSettings only its own.
Save(k) ==
  /\ task[k].pc = "loaded"
  /\ \/ /\ task[k].kind = "connect" /\ last < MaxVersion
        /\ last' = last + 1
        /\ row' = last + 1
        /\ task' = [task EXCEPT ![k].copy = last + 1, ![k].pc = "saved"]
     \/ /\ task[k].kind = "advanced"
        /\ Step(k, "saved")
        /\ UNCHANGED <<row, last>>
     \/ /\ task[k].kind = "save"
        /\ row' = task[k].copy
        /\ Finish(k)
        /\ UNCHANGED last
  /\ UNCHANGED <<installed, started, registered, killed, excused>>

\* Update returns an error, and so does the request.
SaveFails(k) ==
  /\ task[k].pc = "loaded"
  /\ Finish(k)
  /\ UNCHANGED <<row, last, installed, started, registered, killed, excused>>

\* GetInstanceByID in UpdateInstanceSettings and UpdateInstanceAdvancedSettings.
ReadRow(k) ==
  /\ task[k].pc = "saved"
  /\ task' = [task EXCEPT ![k].read = row, ![k].pc = "read"]
  /\ UNCHANGED <<row, last, installed, started, registered, killed, excused>>

\* Connect takes a failed read for an instance that does not run, and starts one.
ReadFails(k) ==
  /\ task[k].pc = "saved"
  /\ IF task[k].kind = "connect" THEN Step(k, "start") ELSE Finish(k)
  /\ excused' = TRUE
  /\ UNCHANGED <<row, last, installed, started, registered, killed>>

\* (mutant) Only the request's own fields are set in the running client.
InstallNothing(k) ==
  /\ task[k].pc = "read"
  /\ IF registered \/ task[k].kind = "advanced" THEN Finish(k) ELSE Step(k, "start")
  /\ excused' = (excused /\ ~(registered /\ task[k].alone))
  /\ UNCHANGED <<row, last, installed, started, registered, killed>>

\* The second half of both: the row that was read goes into the running client. Without
\* one Connect starts it, with the instance it saved.
Install(k) ==
  /\ task[k].pc = "read"
  /\ IF registered
       THEN /\ installed' = task[k].read
            /\ Finish(k)
            /\ excused' = (excused /\ ~task[k].alone)
       ELSE /\ IF task[k].kind = "connect" THEN Step(k, "start") ELSE Finish(k)
            /\ UNCHANGED <<installed, excused>>
  /\ UNCHANGED <<row, last, started, registered, killed>>

\* StartClient: it returns at once if the instance has a client that is connected, and
\* early if the store cannot be opened. Connect may fail on the proxy before it starts one.
Register(k) ==
  /\ task[k].pc = "start"
  /\ Finish(k)
  /\ \/ /\ installed' = task[k].copy
        /\ started' = task[k].copy
        /\ registered' = TRUE
        /\ excused' = (excused /\ ~task[k].alone)
     \/ UNCHANGED <<installed, started, registered, excused>>
  /\ UNCHANGED <<row, last, killed>>

TaskStep(k) ==
  \/ Save(k) \/ SaveFails(k) \/ ReadRow(k) \/ ReadFails(k) \/ Install(k) \/ Register(k)

-----------------------------------------------------------------------------
(***************************************************************************)
(* The client leaves the maps; the loop that takes its kill signal starts it *)
(* again from the ClientData it has, without reading the row.               *)
(***************************************************************************)
\* What the copies were is of no effect without a client.
NoCopies == registered' = FALSE /\ installed' = 0 /\ started' = 0

\* ReconnectClient, Logout or Delete.
Unregister ==
  /\ registered
  /\ NoCopies
  /\ UNCHANGED <<row, last, killed, task, excused>>

\* Bound: one loop at a time.
LoopTakesKill ==
  /\ registered /\ killed = {}
  /\ NoCopies
  /\ killed' = {started}
  /\ UNCHANGED <<row, last, task, excused>>

\* Its StartClient returns early as the ones of requests do.
LoopRestarts ==
  \E v \in killed :
    /\ killed' = killed \ {v}
    /\ \/ /\ installed' = v
          /\ started' = v
          /\ registered' = TRUE
          /\ excused' = (excused \/ v # row \/ Busy # {})
       \/ UNCHANGED <<installed, started, registered, excused>>
    /\ UNCHANGED <<row, last, task>>

\* The process ends: only the row is left.
CrashSettings ==
  /\ NoCopies
  /\ killed' = {}
  /\ task' = [k \in Task |-> IF InProgress(k) THEN DoneTask ELSE task[k]]
  /\ UNCHANGED <<row, last, excused>>

InitSettings ==
  /\ row = 0
  /\ last = 0
  /\ installed = 0
  /\ started = 0
  /\ registered \in BOOLEAN
  /\ killed = {}
  /\ task = [k \in Task |-> NoTask]
  /\ excused = FALSE

NextSettings ==
  \/ \E k \in Task, kind \in Kinds : Begin(k, kind)
  \/ \E k \in Task : TaskStep(k)
  \/ Unregister
  \/ LoopTakesKill
  \/ LoopRestarts

-----------------------------------------------------------------------------
TaskRec == [pc : {"idle", "loaded", "saved", "read", "start", "done"}, kind : Kinds,
            copy : Version, read : Version, alone : BOOLEAN]

TypeOKSettings ==
  /\ {row, last, installed, started} \cup killed \subseteq Version
  /\ registered \in BOOLEAN
  /\ task \in [Task -> TaskRec]
  /\ excused \in BOOLEAN

\* When no request is under way, the client reports events by the settings the
\* database has: whatever saved, installed or started them last, unless two requests, or
\* one and the restart of a loop, overlapped, a read failed, or a loop brought back the
\* ClientData of an older start, and no request that ran alone has put it right since.
InSync ==
  Busy = {} /\ registered /\ ~excused => installed = row
=============================================================================
