---------------------------- MODULE EventHandler ----------------------------
(***************************************************************************)
(* The data events of one instance, from the client's handler queue         *)
(* (whatsmeow-lib/client.go) through myEventHandler                         *)
(* (pkg/whatsmeow/service/whatsmeow.go) to their dispatch to the channels:  *)
(* which events are dropped, by the settings or as duplicates, and which    *)
(* are reported.                                                           *)
(*                                                                         *)
(* The queue's loop waits for one handler at a time, but only five minutes, *)
(* and every connection starts a loop of its own: handlers may overlap.     *)
(***************************************************************************)

CONSTANTS
  Event,     \* events the client receives, redelivered copies counted apart
  Id,        \* ids of WhatsApp messages
  Loop,      \* slots for handlerQueueLoop goroutines
  Idle,      \* a loop that waits for the queue
  Off        \* a slot without a goroutine

ASSUME HandlerAssumption ==
  /\ Idle # Off
  /\ {Idle, Off} \cap Event = {}
  /\ Loop # {}

VARIABLES
  kind,    \* what each event is
  key,     \* the key of processedMessages its handler looks up next
  rest,    \* the keys it looks up after that
  pc,      \* where the event, or its handler, is
  marked,  \* the keys its handler has put into processedMessages (history)
  loop,    \* the event each loop waits for
  current, \* the loop of the connection that is up
  seen,    \* processedMessages
  excused  \* keys that may be used twice: see UsedOnce (history)

vars == <<kind, key, rest, pc, marked, loop, current, seen, excused>>
content == <<kind, key, rest>>
queue == <<loop, current>>

(***************************************************************************)
(* Kinds of events. A "message" is one with or without media; "edit" is a   *)
(* revocation or an edit; "silent" what is returned from without a look-up  *)
(* (groups or status ignored by the settings, other protocol messages,      *)
(* events that are only logged); "plain" what is reported as it comes;      *)
(* "archive" the one whose case panics.                                    *)
(***************************************************************************)
Keyed == {"message", "poll", "sticker"}
Messages == Keyed \cup {"edit"}
Receipts == {"delivered", "read"}
Kinds == Messages \cup Receipts \cup {"silent", "plain", "archive"}

Key == Id \X {"Message", "Delivered", "Read"}
NoKey == <<>>   \* kinds that look nothing up

FirstKey(k, m) ==
  CASE k \in Keyed -> <<m, "Message">>
    [] k = "delivered" -> <<m, "Delivered">>
    [] k = "read" -> <<m, "Read">>
    [] OTHER -> NoKey

Ended == {"ignored", "duplicate", "reported", "unreported", "panicked", "lost"}
Undecided == {"read", "vote", "check", "mark"}   \* may still put a key
Places == Ended \cup Undecided \cup {"none", "queued", "fetch", "report", "hung"}

Goto(e, p) == pc' = [pc EXCEPT ![e] = p]

-----------------------------------------------------------------------------
(***************************************************************************)
(* The handler queue: handleFrame, handlerQueueLoop. A full queue only      *)
(* loses the order of events, which is not kept here.                       *)
(***************************************************************************)
\* An event that names m, and a read receipt the messages of more as well. A
\* delivery looks up the first id of its list only.
Receive(e, k, m, more) ==
  /\ pc[e] = "none"
  /\ kind' = [kind EXCEPT ![e] = k]
  /\ key' = [key EXCEPT ![e] = FirstKey(k, m)]
  /\ rest' = [rest EXCEPT ![e] = IF k = "read" THEN {<<n, "Read">> : n \in more \ {m}} ELSE {}]
  /\ Goto(e, "queued")
  /\ UNCHANGED <<marked, seen, excused, queue>>

\* The loop has no handler to wait for.
Free(l) == loop[l] = Idle \/ (loop[l] \in Event /\ pc[loop[l]] \in Ended)

FirstPC(k) ==
  CASE k \in Messages \cup {"silent"} -> "read"
    [] k \in Receipts -> "check"
    [] OTHER -> "report"

\* The keys a handler may still put.
Wants(e) == IF pc[e] \in Undecided THEN ({key[e]} \cup rest[e]) \cap Key ELSE {}

\* A loop takes the next event, that of a lost connection too if it is faster than
\* its connCtx.Done. From here on two handlers may look up the same key.
Start(l, e) ==
  /\ Free(l)
  /\ pc[e] = "queued"
  /\ Goto(e, FirstPC(kind[e]))
  /\ loop' = [loop EXCEPT ![l] = e]
  /\ excused' = excused \cup (({key[e]} \cup rest[e]) \cap UNION {Wants(f) : f \in Event})
  /\ UNCHANGED <<content, marked, current, seen>>

\* (mutant) The loop waits for its handler as long as it takes.
AbandonNever(l) ==
  /\ loop[l] \in Event
  /\ pc[loop[l]] \in Ended
  /\ loop' = [loop EXCEPT ![l] = Idle]
  /\ UNCHANGED <<content, pc, marked, current, seen, excused>>

\* After five minutes the loop goes on and the handler continues in the background.
Abandon(l) ==
  /\ loop[l] \in Event
  /\ pc[loop[l]] \notin Ended
  /\ loop' = [loop EXCEPT ![l] = Idle]
  /\ UNCHANGED <<content, pc, marked, current, seen, excused>>

Reconnect(l) ==
  /\ loop[l] = Off
  /\ loop' = [loop EXCEPT ![l] = Idle]
  /\ current' = l
  /\ UNCHANGED <<content, pc, marked, seen, excused>>

\* (mutant) The loop of the connection that is up may end as well.
AnyLoopExits(l) ==
  /\ Free(l)
  /\ loop' = [loop EXCEPT ![l] = Off]
  /\ UNCHANGED <<content, pc, marked, current, seen, excused>>

LoopExits(l) ==
  /\ l # current
  /\ Free(l)
  /\ loop' = [loop EXCEPT ![l] = Off]
  /\ UNCHANGED <<content, pc, marked, current, seen, excused>>

-----------------------------------------------------------------------------
(***************************************************************************)
(* myEventHandler: a step runs to the next access of processedMessages or   *)
(* the next call that can block.                                           *)
(***************************************************************************)
shared == <<kind, seen, excused, queue>>

\* MarkRead, if the instance reads its messages, comes before all filters.
ReadMessage(e) ==
  /\ pc[e] = "read"
  /\ Goto(e, CASE kind[e] = "silent" -> "ignored"
               [] kind[e] = "edit" -> "fetch"
               [] kind[e] = "poll" -> "vote"
               [] OTHER -> "check")
  /\ UNCHANGED <<key, rest, marked, shared>>

\* DecryptPollVote of the client the map has now, nil after its cache was cleared.
DecryptVote(e) ==
  /\ pc[e] = "vote"
  /\ \E p \in {"check", "panicked"} : Goto(e, p)
  /\ UNCHANGED <<key, rest, marked, shared>>

\* A read receipt goes on with its next message, others with the report.
AfterLookup(e) ==
  \/ /\ rest[e] = {}
     /\ Goto(e, IF kind[e] \in Receipts THEN "report" ELSE "fetch")
     /\ UNCHANGED <<key, rest>>
  \/ /\ rest[e] # {}
     /\ \E k \in rest[e] :
          /\ key' = [key EXCEPT ![e] = k]
          /\ rest' = [rest EXCEPT ![e] = @ \ {k}]
     /\ Goto(e, "check")

\* (mutant) Message, delivery and read receipt of one message have one key.
CheckAnyTag(e) ==
  /\ pc[e] = "check"
  /\ IF \A k \in seen : k[1] # key[e][1]
       THEN Goto(e, "mark") /\ UNCHANGED <<key, rest>>
       ELSE IF kind[e] = "read" THEN AfterLookup(e)
       ELSE Goto(e, "duplicate") /\ UNCHANGED <<key, rest>>
  /\ UNCHANGED <<marked, shared>>

\* processedMessages.Get.
Check(e) ==
  /\ pc[e] = "check"
  /\ IF key[e] \notin seen
       THEN Goto(e, "mark") /\ UNCHANGED <<key, rest>>
       ELSE IF kind[e] = "read" THEN AfterLookup(e)
       ELSE Goto(e, "duplicate") /\ UNCHANGED <<key, rest>>
  /\ UNCHANGED <<marked, shared>>

\* (mutant) The mark of a message is not stored.
MarkReceiptsOnly(e) ==
  /\ pc[e] = "mark"
  /\ seen' = IF kind[e] \in Receipts THEN seen \cup {key[e]} ELSE seen
  /\ marked' = [marked EXCEPT ![e] = @ \cup {key[e]}]
  /\ AfterLookup(e)
  /\ UNCHANGED <<kind, excused, queue>>

\* processedMessages.Set; for receipts the row of the message is inserted as well.
Mark(e) ==
  /\ pc[e] = "mark"
  /\ seen' = seen \cup {key[e]}
  /\ marked' = [marked EXCEPT ![e] = @ \cup {key[e]}]
  /\ AfterLookup(e)
  /\ UNCHANGED <<kind, excused, queue>>

\* (mutant) A failed download ends the handler.
FetchOrReturn(e) ==
  /\ pc[e] = "fetch"
  /\ \E p \in {"report", "unreported"} : Goto(e, p)
  /\ UNCHANGED <<key, rest, marked, shared>>

\* Download, upload to the storage and GetGroupInfo: their errors are logged. Only a
\* sticker that cannot be decoded ends the handler; of a child message a failed download
\* is decoded too.
Fetch(e) ==
  /\ pc[e] = "fetch"
  /\ \/ Goto(e, "report")
     \/ kind[e] = "sticker" /\ Goto(e, "unreported")
  /\ UNCHANGED <<key, rest, marked, shared>>

\* The dispatch: CallWebhook and SendToGlobalQueues in goroutines of their own.
\* dispatchEvent of the client recovers the panic of the type assertion in Archive.
Report(e) ==
  /\ pc[e] = "report"
  /\ Goto(e, IF kind[e] = "archive" THEN "panicked" ELSE "reported")
  /\ UNCHANGED <<key, rest, marked, shared>>

\* MarkRead, Download, Store and GetGroupInfo may never return: no deadline bounds them
\* all.
Hang(e) ==
  /\ pc[e] \in {"read", "fetch"}
  /\ Goto(e, "hung")
  /\ UNCHANGED <<key, rest, marked, shared>>

HandlerStep(e) ==
  \/ ReadMessage(e) \/ DecryptVote(e) \/ Check(e) \/ Mark(e) \/ Fetch(e) \/ Report(e)

-----------------------------------------------------------------------------
(***************************************************************************)
(* Time and failures                                                       *)
(***************************************************************************)
\* A key is forgotten 30 minutes after it was put.
Expire(k) ==
  /\ k \in seen
  /\ seen' = seen \ {k}
  /\ excused' = excused \cup {k}
  /\ UNCHANGED <<content, pc, marked, loop, current>>

\* The process dies: processedMessages and all handlers are gone, and so is what the
\* queue held, since acknowledgements do not wait for the handlers.
Crash ==
  /\ pc' = [e \in Event |-> IF pc[e] \in Ended \cup {"none"} THEN pc[e] ELSE "lost"]
  /\ loop' = [l \in Loop |-> IF l = current THEN Idle ELSE Off]
  /\ seen' = {}
  /\ excused' = excused \cup seen
  /\ UNCHANGED <<content, marked, current>>

Init ==
  /\ kind = [e \in Event |-> "plain"]
  /\ key = [e \in Event |-> NoKey]
  /\ rest = [e \in Event |-> {}]
  /\ pc = [e \in Event |-> "none"]
  /\ marked = [e \in Event |-> {}]
  /\ current = CHOOSE l \in Loop : TRUE
  /\ loop = [l \in Loop |-> IF l = current THEN Idle ELSE Off]
  /\ seen = {}
  /\ excused = {}

Next ==
  \/ \E e \in Event, k \in Kinds, m \in Id, more \in SUBSET Id : Receive(e, k, m, more)
  \/ \E l \in Loop, e \in Event : Start(l, e)
  \/ \E l \in Loop : Abandon(l) \/ Reconnect(l) \/ LoopExits(l)
  \/ \E e \in Event : HandlerStep(e) \/ Hang(e)
  \/ \E k \in Key : Expire(k)
  \/ Crash

Spec == Init /\ [][Next]_vars

\* Goroutines run, timers fire.
Fairness ==
  /\ \A e \in Event : WF_vars(HandlerStep(e))
  /\ \A l \in Loop : WF_vars(Abandon(l))
  /\ \A e \in Event : WF_vars(\E l \in Loop : Start(l, e))

FairSpec == Spec /\ Fairness

-----------------------------------------------------------------------------
(***************************************************************************)
(* Properties                                                              *)
(***************************************************************************)
\* A loop waits for an event that was taken from the queue, the loop of the current
\* connection runs, and a handler at a look-up is one that has a key.
TypeOK ==
  /\ kind \in [Event -> Kinds]
  /\ key \in [Event -> Key \cup {NoKey}]
  /\ rest \in [Event -> SUBSET Key]
  /\ pc \in [Event -> Places]
  /\ marked \in [Event -> SUBSET Key]
  /\ loop \in [Loop -> Event \cup {Idle, Off}]
  /\ current \in Loop
  /\ loop[current] # Off
  /\ seen \subseteq Key
  /\ excused \subseteq Key
  /\ \A e \in Event :
       /\ kind[e] \in Keyed \cup Receipts => key[e] \in Key
       /\ pc[e] = "read" => kind[e] \in Messages \cup {"silent"}
       /\ pc[e] \in {"vote", "check", "mark"} => kind[e] \in Keyed \cup Receipts
  /\ \A l \in Loop : loop[l] \in Event => pc[loop[l]] \notin {"none", "queued"}

\* What a key stands for has been done: the message or delivery is reported, the row
\* of the read receipt inserted.
Used(e, k) == k \in marked[e] /\ (kind[e] = "read" \/ pc[e] = "reported")

\* However connections overlap and slow handlers go on in the background, a message or a
\* delivery is reported once, and the row of a read message inserted once, unless its
\* mark expired, the process restarted, or a second handler of it started before the
\* first had marked it: the mark comes before the minutes of a download.
UsedOnce ==
  \A e, f \in Event : \A k \in Key :
    e # f /\ Used(e, k) /\ Used(f, k) => k \in excused

\* A message is dropped as a duplicate only if another event with its key was taken:
\* two copies never drop each other, and a receipt never drops the message it names.
\* ActsAsClaims says so of every step.
DroppedForAnother ==
  \A e \in Event :
    pc[e] = "duplicate" => \E f \in Event \ {e} : key[e] \in marked[f]

\* An event as Claims sees it.
Stage == [e \in Event |->
  CASE pc[e] \in {"none", "queued"} -> "new"
    [] pc[e] \in Undecided \cup {"fetch", "report"} -> "working"
    [] pc[e] \in {"reported", "duplicate"} -> pc[e]
    [] OTHER -> "over"]

Claiming == INSTANCE Claims WITH
  stage <- Stage, wants <- [e \in Event |-> Wants(e)], claims <- marked

\* Get and Set are two steps, a read receipt looks up one message after the other, and
\* handlers overlap: still every handler behaves as if it claimed its keys in one step
\* each, and reports, passes over or drops an event only as Claims allows.
ActsAsClaims == Claiming!Spec

\* A handler that never ends holds up the events behind it five minutes, not for ever.
QueueMoves == \A e \in Event : pc[e] = "queued" ~> pc[e] # "queued"

\* A message that was marked, so that every further copy of it is dropped, is reported
\* even if its media cannot be fetched. Stickers are not: their handler may return.
MarkedIsReported ==
  \A e \in Event :
    (kind[e] # "sticker" /\ pc[e] = "fetch") ~> pc[e] \in {"reported", "hung", "lost"}
=============================================================================
