------------------------- MODULE EventHandlerProofs -------------------------
(***************************************************************************)
(* Proofs about EventHandler: types, UsedOnce, DroppedForAnother and the    *)
(* refinement of Claims, for any number of events, messages, loops, lapses  *)
(* and crashes.                                                            *)
(***************************************************************************)
EXTENDS EventHandler, TLAPS

\* A handler has not put the keys it has yet to look up; before it starts, none.
Unmarked ==
  \A e \in Event :
    /\ pc[e] \in {"none", "queued"} => marked[e] = {}
    /\ pc[e] \in Undecided => ({key[e]} \cup rest[e]) \cap marked[e] = {}
    /\ key[e] \notin rest[e]

\* What processedMessages holds was put by some event.
SeenOwned == \A k \in seen : \E f \in Event : k \in marked[f]

\* A key that was put and never excused is still there.
MarkedSeen == \A f \in Event : \A k \in marked[f] : k \in seen \cup excused

\* Two handlers look up the same key only if it is excused.
WantedOnce ==
  \A e, f \in Event : e # f => Wants(e) \cap Wants(f) \subseteq excused

\* Between Get and Set nobody else has put the key.
MarkFresh == \A e \in Event : pc[e] = "mark" => key[e] \notin seen \/ key[e] \in excused

MarkedOnce ==
  \A e, f \in Event : e # f => marked[e] \cap marked[f] \subseteq excused

IInv ==
  /\ TypeOK
  /\ Unmarked
  /\ SeenOwned
  /\ DroppedForAnother
  /\ MarkedSeen
  /\ WantedOnce
  /\ MarkFresh
  /\ MarkedOnce

USE DEF Keyed, Messages, Receipts, Kinds, Ended, Undecided, Places, Goto

-----------------------------------------------------------------------------
(***************************************************************************)
(* Steps of a handler that only move it on                                 *)
(***************************************************************************)
\* A handler goes on, not to a mark and not to a duplicate.
Advance(e) ==
  /\ \E p \in Places \ {"none", "queued", "read", "mark", "duplicate"} :
       /\ pc' = [pc EXCEPT ![e] = p]
       /\ p \in Undecided => pc[e] \in Undecided
       /\ p \in {"vote", "check"} => kind[e] \in Keyed \cup Receipts
  /\ pc[e] \notin {"none", "queued", "duplicate"}
  /\ UNCHANGED <<content, marked, shared>>

LEMMA AdvanceKeeps ==
  ASSUME IInv, NEW e \in Event, Advance(e)
  PROVE  IInv'
  <1> USE DEF Advance, content, shared, queue
  <1> PICK p \in Places \ {"none", "queued", "read", "mark", "duplicate"} :
        /\ pc' = [pc EXCEPT ![e] = p]
        /\ p \in Undecided => pc[e] \in Undecided
        /\ p \in {"vote", "check"} => kind[e] \in Keyed \cup Receipts
    OBVIOUS
  <1>1. /\ pc'[e] = p
        /\ \A f \in Event : f # e => pc'[f] = pc[f]
    BY DEF IInv, TypeOK
  <1>2. TypeOK'
    BY <1>1 DEF IInv, TypeOK
  <1>3. Unmarked'
    BY <1>1 DEF IInv, Unmarked
  <1>4. SeenOwned'
    BY DEF IInv, SeenOwned
  <1>5. DroppedForAnother'
    BY <1>1 DEF IInv, DroppedForAnother
  <1>6. MarkedSeen'
    BY DEF IInv, MarkedSeen
  <1>7. WantedOnce'
    BY <1>1 DEF IInv, WantedOnce, Wants, Key
  <1>8. MarkFresh'
    BY <1>1 DEF IInv, MarkFresh
  <1>9. MarkedOnce'
    BY DEF IInv, MarkedOnce
  <1> QED
    BY <1>2, <1>3, <1>4, <1>5, <1>6, <1>7, <1>8, <1>9 DEF IInv

LEMMA PlainSteps ==
  ASSUME IInv, NEW e \in Event,
         ReadMessage(e) \/ DecryptVote(e) \/ Fetch(e) \/ Report(e) \/ Hang(e)
  PROVE  Advance(e)
  <1> USE DEF content, shared, queue
  <1>a. /\ kind[e] \in Kinds
        /\ pc[e] = "read" => kind[e] \in Messages \cup {"silent"}
        /\ pc[e] \in {"vote", "check", "mark"} => kind[e] \in Keyed \cup Receipts
    BY DEF IInv, TypeOK
  <1>b. ASSUME NEW p \in Places \ {"none", "queued", "read", "mark", "duplicate"},
               Goto(e, p),
               p \in Undecided => pc[e] \in Undecided,
               p \in {"vote", "check"} => kind[e] \in Keyed \cup Receipts,
               pc[e] \notin {"none", "queued", "duplicate"},
               UNCHANGED <<key, rest, marked, shared>>
        PROVE  Advance(e)
    BY <1>b DEF Advance
  <1>1. CASE ReadMessage(e)
    <2> USE <1>1 DEF ReadMessage
    <2>1. CASE kind[e] = "silent"
      <3>1. Goto(e, "ignored")
        BY <2>1
      <3> QED
        BY <1>b, <3>1
    <2>2. CASE kind[e] = "edit"
      <3>1. Goto(e, "fetch")
        BY <2>2
      <3> QED
        BY <1>b, <3>1
    <2>3. CASE kind[e] = "poll"
      <3>1. Goto(e, "vote")
        BY <2>3
      <3> QED
        BY <1>b, <2>3, <3>1
    <2>4. CASE kind[e] \notin {"silent", "edit", "poll", "plain", "archive"}
      <3>1. Goto(e, "check")
        BY <2>4
      <3> QED
        BY <1>a, <1>b, <2>4, <3>1
    <2>5. CASE kind[e] \in {"plain", "archive"}
      BY <1>a, <2>5
    <2> QED
      BY <2>1, <2>2, <2>3, <2>4, <2>5
  <1>2. CASE DecryptVote(e)
    <2>1. PICK p \in {"check", "panicked"} : Goto(e, p)
      BY <1>2 DEF DecryptVote
    <2> QED
      BY <1>2, <1>a, <1>b, <2>1 DEF DecryptVote
  <1>3. CASE Fetch(e)
    <2>1. \/ Goto(e, "report")
          \/ Goto(e, "unreported")
      BY <1>3 DEF Fetch
    <2>2. pc[e] = "fetch" /\ UNCHANGED <<key, rest, marked, shared>>
      BY <1>3 DEF Fetch
    <2> QED
      BY <1>b, <2>1, <2>2
  <1>4. CASE Report(e)
    BY <1>4, <1>b DEF Report
  <1>5. CASE Hang(e)
    BY <1>5, <1>b DEF Hang
  <1> QED
    BY <1>1, <1>2, <1>3, <1>4, <1>5

-----------------------------------------------------------------------------
(***************************************************************************)
(* The queue                                                               *)
(***************************************************************************)
LEMMA InitInv ==
  ASSUME Init
  PROVE  IInv
  <1> USE HandlerAssumption DEF Init
  <1>1. current \in Loop
    OBVIOUS
  <1>2. TypeOK
    BY <1>1 DEF TypeOK
  <1> QED
    BY <1>2 DEF IInv, Unmarked, SeenOwned, DroppedForAnother, MarkedSeen, WantedOnce,
      Wants, MarkFresh, MarkedOnce

LEMMA ReceiveKeeps ==
  ASSUME IInv, NEW e \in Event, NEW k \in Kinds, NEW m \in Id, NEW more \in SUBSET Id,
         Receive(e, k, m, more)
  PROVE  IInv'
  <1> USE DEF Receive, queue
  <1> DEFINE others == IF k = "read" THEN {<<n, "Read">> : n \in more \ {m}} ELSE {}
  <1>1. /\ pc'[e] = "queued" /\ kind'[e] = k
        /\ key'[e] = FirstKey(k, m) /\ rest'[e] = others
        /\ \A f \in Event : f # e =>
             pc'[f] = pc[f] /\ kind'[f] = kind[f] /\ key'[f] = key[f] /\ rest'[f] = rest[f]
    BY DEF IInv, TypeOK
  <1>2. /\ FirstKey(k, m) \in Key \cup {NoKey}
        /\ k \in Keyed \cup Receipts => FirstKey(k, m) \in Key
        /\ others \in SUBSET Key
        /\ FirstKey(k, m) \notin others
    <2>1. CASE k \in Keyed
      BY <2>1 DEF FirstKey, Key
    <2>2. CASE k = "delivered"
      BY <2>2 DEF FirstKey, Key
    <2>3. CASE k = "read"
      BY <2>3 DEF FirstKey, Key
    <2>4. CASE k \notin Keyed \cup Receipts
      BY <2>4 DEF FirstKey
    <2> QED
      BY <2>1, <2>2, <2>3, <2>4
  <1>3. TypeOK'
    <2>1. /\ kind' \in [Event -> Kinds]
          /\ key' \in [Event -> Key \cup {NoKey}]
          /\ rest' \in [Event -> SUBSET Key]
          /\ pc' \in [Event -> Places]
      BY <1>2 DEF IInv, TypeOK
    <2>2. pc[e] = "none"
      OBVIOUS
    <2> QED
      BY <1>1, <1>2, <2>1, <2>2 DEF IInv, TypeOK
  <1>4. Unmarked'
    BY <1>1, <1>2 DEF IInv, Unmarked
  <1>5. SeenOwned'
    BY DEF IInv, SeenOwned
  <1>6. DroppedForAnother'
    BY <1>1 DEF IInv, DroppedForAnother
  <1>7. MarkedSeen'
    BY DEF IInv, MarkedSeen
  <1>8. WantedOnce'
    BY <1>1 DEF IInv, WantedOnce, Wants, Key
  <1>9. MarkFresh'
    BY <1>1 DEF IInv, MarkFresh
  <1>10. MarkedOnce'
    BY DEF IInv, MarkedOnce
  <1> QED
    BY <1>3, <1>4, <1>5, <1>6, <1>7, <1>8, <1>9, <1>10 DEF IInv

LEMMA StartKeeps ==
  ASSUME IInv, NEW l \in Loop, NEW e \in Event, Start(l, e)
  PROVE  IInv'
  <1> USE DEF Start, content
  <1>1. /\ pc[e] = "queued" /\ pc'[e] = FirstPC(kind[e])
        /\ \A f \in Event : f # e => pc'[f] = pc[f]
        /\ FirstPC(kind[e]) \in {"read", "check", "report"}
    BY DEF IInv, TypeOK, FirstPC
  <1>2. TypeOK'
    <2>1. /\ pc' \in [Event -> Places]
          /\ loop' \in [Loop -> Event \cup {Idle, Off}]
          /\ loop'[current] # Off
      BY <1>1, HandlerAssumption DEF IInv, TypeOK
    <2>2. excused' \subseteq Key
      BY DEF IInv, TypeOK, Wants
    <2>3. /\ FirstPC(kind[e]) = "read" => kind[e] \in Messages \cup {"silent"}
          /\ FirstPC(kind[e]) = "check" => kind[e] \in Receipts
      BY DEF FirstPC
    <2>4. \A n \in Loop : loop'[n] = IF n = l THEN e ELSE loop[n]
      BY DEF IInv, TypeOK
    <2> QED
      BY <1>1, <2>1, <2>2, <2>3, <2>4 DEF IInv, TypeOK
  <1>3. Unmarked'
    BY <1>1 DEF IInv, Unmarked
  <1>4. SeenOwned'
    BY DEF IInv, SeenOwned
  <1>5. DroppedForAnother'
    BY <1>1 DEF IInv, DroppedForAnother
  <1>6. MarkedSeen'
    BY DEF IInv, MarkedSeen
  <1>7. WantedOnce'
    <2>1. \A f \in Event : f # e => Wants(f)' = Wants(f)
      BY <1>1 DEF Wants, Key
    <2>2. Wants(e)' \subseteq {key[e]} \cup rest[e]
      BY DEF Wants
    <2>3. \A f \in Event : f # e => Wants(e)' \cap Wants(f) \subseteq excused'
      BY <2>2
    <2> QED
      BY <2>1, <2>3 DEF IInv, WantedOnce
  <1>8. MarkFresh'
    BY <1>1 DEF IInv, MarkFresh
  <1>9. MarkedOnce'
    BY DEF IInv, MarkedOnce
  <1> QED
    BY <1>2, <1>3, <1>4, <1>5, <1>6, <1>7, <1>8, <1>9 DEF IInv

\* A loop that stops waiting, ends, or begins: nothing a handler reads changes.
LEMMA LoopKeeps ==
  ASSUME IInv, NEW l \in Loop, Abandon(l) \/ Reconnect(l) \/ LoopExits(l)
  PROVE  IInv'
  <1>1. UNCHANGED <<content, pc, marked, seen, excused>>
    BY DEF Abandon, Reconnect, LoopExits
  <1>2. /\ loop' \in [Loop -> Event \cup {Idle, Off}]
        /\ current' \in Loop
        /\ \A n \in Loop : loop'[n] \in {loop[n], Idle, Off}
    BY DEF Abandon, Reconnect, LoopExits, IInv, TypeOK
  <1>3. loop'[current'] # Off
    BY HandlerAssumption DEF Abandon, Reconnect, LoopExits, IInv, TypeOK
  <1>4. TypeOK'
    BY <1>1, <1>2, <1>3, HandlerAssumption DEF IInv, TypeOK, content
  <1> QED
    BY <1>1, <1>4 DEF IInv, content, Unmarked, SeenOwned, DroppedForAnother, MarkedSeen,
      WantedOnce, Wants, Key, MarkFresh, MarkedOnce

-----------------------------------------------------------------------------
(***************************************************************************)
(* Look-ups and marks                                                      *)
(***************************************************************************)
\* A read receipt goes on to one of the messages it has left.
LEMMA NextKeyShrinks ==
  ASSUME IInv, NEW e \in Event, pc[e] \in {"check", "mark"}, NEW k \in rest[e],
         Goto(e, "check"),
         key' = [key EXCEPT ![e] = k],
         rest' = [rest EXCEPT ![e] = @ \ {k}]
  PROVE  /\ \A f \in Event : f # e => /\ pc'[f] = pc[f]
                                      /\ key'[f] = key[f]
                                      /\ rest'[f] = rest[f]
         /\ pc'[e] = "check" /\ key'[e] = k /\ rest'[e] = rest[e] \ {k}
         /\ k \in Key
         /\ key' \in [Event -> Key \cup {NoKey}]
         /\ rest' \in [Event -> SUBSET Key]
         /\ pc' \in [Event -> Places]
         /\ \A f \in Event : Wants(f)' \subseteq Wants(f)
  <1>1. /\ \A f \in Event : f # e => /\ pc'[f] = pc[f]
                                     /\ key'[f] = key[f]
                                     /\ rest'[f] = rest[f]
        /\ pc'[e] = "check" /\ key'[e] = k /\ rest'[e] = rest[e] \ {k}
        /\ k \in Key
    BY DEF IInv, TypeOK
  <1>2. /\ key' \in [Event -> Key \cup {NoKey}]
        /\ rest' \in [Event -> SUBSET Key]
        /\ pc' \in [Event -> Places]
    BY <1>1 DEF IInv, TypeOK
  <1>3. \A f \in Event : Wants(f)' \subseteq Wants(f)
    BY <1>1 DEF Wants, Key
  <1> QED
    BY <1>1, <1>2, <1>3

LEMMA CheckKeeps ==
  ASSUME IInv, NEW e \in Event, Check(e)
  PROVE  IInv'
  <1> USE DEF shared, queue
  <1>a. /\ pc[e] = "check"
        /\ UNCHANGED <<kind, marked, seen, excused, loop, current>>
    BY DEF Check
  <1>b. kind[e] \in Keyed \cup Receipts /\ key[e] \in Key
    BY <1>a DEF IInv, TypeOK
  <1>1. CASE key[e] \notin seen
    <2>1. Goto(e, "mark") /\ UNCHANGED <<key, rest>>
      BY <1>1 DEF Check
    <2>2. /\ pc'[e] = "mark" /\ pc' \in [Event -> Places]
          /\ \A f \in Event : f # e => pc'[f] = pc[f]
      BY <2>1 DEF IInv, TypeOK
    <2>3. TypeOK'
      BY <1>a, <1>b, <2>1, <2>2 DEF IInv, TypeOK
    <2>4. Unmarked'
      BY <1>a, <2>1, <2>2 DEF IInv, Unmarked
    <2>5. SeenOwned' /\ MarkedSeen' /\ MarkedOnce'
      BY <1>a DEF IInv, SeenOwned, MarkedSeen, MarkedOnce
    <2>6. DroppedForAnother'
      BY <1>a, <2>1, <2>2 DEF IInv, DroppedForAnother
    <2>7. WantedOnce'
      BY <1>a, <2>1, <2>2 DEF IInv, WantedOnce, Wants, Key
    <2>8. MarkFresh'
      BY <1>a, <1>1, <2>1, <2>2 DEF IInv, MarkFresh
    <2> QED
      BY <2>3, <2>4, <2>5, <2>6, <2>7, <2>8 DEF IInv
  <1>2. CASE key[e] \in seen /\ kind[e] = "read" /\ rest[e] = {}
    <2>1. Goto(e, "report") /\ UNCHANGED <<key, rest>>
      BY <1>2 DEF Check, AfterLookup
    <2>2. Advance(e)
      <3>1. /\ "report" \in Places \ {"none", "queued", "read", "mark", "duplicate"}
            /\ pc' = [pc EXCEPT ![e] = "report"]
            /\ "report" \notin Undecided
            /\ "report" \notin {"vote", "check"}
        BY <2>1
      <3>2. UNCHANGED <<content, marked, shared>>
        BY <1>a, <2>1 DEF content
      <3> QED
        BY <1>a, <3>1, <3>2 DEF Advance
    <2> QED
      BY <2>2, AdvanceKeeps
  <1>3. CASE key[e] \in seen /\ kind[e] = "read" /\ rest[e] # {}
    <2>1. PICK k \in rest[e] :
            /\ Goto(e, "check")
            /\ key' = [key EXCEPT ![e] = k]
            /\ rest' = [rest EXCEPT ![e] = @ \ {k}]
      BY <1>3 DEF Check, AfterLookup
    <2>2. /\ \A f \in Event : f # e => /\ pc'[f] = pc[f]
                                       /\ key'[f] = key[f]
                                       /\ rest'[f] = rest[f]
          /\ pc'[e] = "check" /\ key'[e] = k /\ rest'[e] = rest[e] \ {k}
          /\ k \in Key
          /\ key' \in [Event -> Key \cup {NoKey}]
          /\ rest' \in [Event -> SUBSET Key]
          /\ pc' \in [Event -> Places]
          /\ \A f \in Event : Wants(f)' \subseteq Wants(f)
      BY <1>a, <2>1, NextKeyShrinks
    <2>3. TypeOK'
      BY <1>a, <1>b, <2>2 DEF IInv, TypeOK
    <2>4. Unmarked'
      BY <1>a, <2>2 DEF IInv, Unmarked
    <2>5. SeenOwned' /\ MarkedSeen' /\ MarkedOnce'
      BY <1>a DEF IInv, SeenOwned, MarkedSeen, MarkedOnce
    <2>6. DroppedForAnother'
      BY <1>a, <2>2 DEF IInv, DroppedForAnother
    <2>7. WantedOnce'
      BY <1>a, <2>2 DEF IInv, WantedOnce
    <2>8. MarkFresh'
      BY <1>a, <2>2 DEF IInv, MarkFresh
    <2> QED
      BY <2>3, <2>4, <2>5, <2>6, <2>7, <2>8 DEF IInv
  <1>4. CASE key[e] \in seen /\ kind[e] # "read"
    <2>1. Goto(e, "duplicate") /\ UNCHANGED <<key, rest>>
      BY <1>4 DEF Check
    <2>2. /\ pc'[e] = "duplicate" /\ pc' \in [Event -> Places]
          /\ \A f \in Event : f # e => pc'[f] = pc[f]
      BY <2>1 DEF IInv, TypeOK
    <2>3. TypeOK'
      BY <1>a, <2>1, <2>2 DEF IInv, TypeOK
    <2>4. Unmarked'
      BY <1>a, <2>1, <2>2 DEF IInv, Unmarked
    <2>5. SeenOwned' /\ MarkedSeen' /\ MarkedOnce'
      BY <1>a DEF IInv, SeenOwned, MarkedSeen, MarkedOnce
    <2>6. DroppedForAnother'
      <3>1. PICK f \in Event : key[e] \in marked[f]
        BY <1>4 DEF IInv, SeenOwned
      <3>2. f # e
        BY <1>a, <3>1 DEF IInv, Unmarked
      <3> QED
        BY <1>a, <2>1, <2>2, <3>1, <3>2 DEF IInv, DroppedForAnother
    <2>7. WantedOnce'
      BY <1>a, <2>1, <2>2 DEF IInv, WantedOnce, Wants, Key
    <2>8. MarkFresh'
      BY <1>a, <2>1, <2>2 DEF IInv, MarkFresh
    <2> QED
      BY <2>3, <2>4, <2>5, <2>6, <2>7, <2>8 DEF IInv
  <1> QED
    BY <1>1, <1>2, <1>3, <1>4

LEMMA MarkKeeps ==
  ASSUME IInv, NEW e \in Event, Mark(e)
  PROVE  IInv'
  <1> USE DEF queue
  <1>a. /\ pc[e] = "mark"
        /\ seen' = seen \cup {key[e]}
        /\ UNCHANGED <<kind, excused, loop, current>>
    BY DEF Mark
  <1>b. /\ kind[e] \in Keyed \cup Receipts
        /\ key[e] \in Key
        /\ key[e] \notin seen \/ key[e] \in excused
    BY <1>a DEF IInv, TypeOK, MarkFresh
  <1>c. /\ marked' \in [Event -> SUBSET Key]
        /\ marked'[e] = marked[e] \cup {key[e]}
        /\ \A f \in Event : f # e => marked'[f] = marked[f]
    BY <1>b DEF Mark, IInv, TypeOK
  \* The next key, if there is one, is another than the one just put.
  <1>d. /\ pc' \in [Event -> Places]
        /\ key' \in [Event -> Key \cup {NoKey}]
        /\ rest' \in [Event -> SUBSET Key]
        /\ \A f \in Event : f # e => /\ pc'[f] = pc[f]
                                     /\ key'[f] = key[f]
                                     /\ rest'[f] = rest[f]
        /\ pc'[e] \in {"report", "fetch", "check"}
        /\ key'[e] \in Key
        /\ pc'[e] = "check" => ({key'[e]} \cup rest'[e]) \subseteq rest[e]
        /\ key'[e] \notin rest'[e]
        /\ \A f \in Event : Wants(f)' \subseteq Wants(f)
    <2>1. CASE rest[e] = {}
      <3>1. PICK p \in {"report", "fetch"} : Goto(e, p) /\ UNCHANGED <<key, rest>>
        BY <2>1 DEF Mark, AfterLookup
      <3>2. pc'[e] = p /\ \A f \in Event : f # e => pc'[f] = pc[f]
        BY <3>1 DEF IInv, TypeOK
      <3>3. \A f \in Event : Wants(f)' \subseteq Wants(f)
        BY <3>1, <3>2 DEF Wants, Key
      <3>4. /\ pc' \in [Event -> Places]
            /\ key' \in [Event -> Key \cup {NoKey}]
            /\ rest' \in [Event -> SUBSET Key]
        BY <3>1 DEF IInv, TypeOK
      <3> QED
        BY <1>b, <2>1, <3>1, <3>2, <3>3, <3>4
    <2>2. CASE rest[e] # {}
      <3>1. PICK k \in rest[e] :
              /\ Goto(e, "check")
              /\ key' = [key EXCEPT ![e] = k]
              /\ rest' = [rest EXCEPT ![e] = @ \ {k}]
        BY <2>2 DEF Mark, AfterLookup
      <3>2. /\ \A f \in Event : f # e => /\ pc'[f] = pc[f]
                                         /\ key'[f] = key[f]
                                         /\ rest'[f] = rest[f]
            /\ pc'[e] = "check" /\ key'[e] = k /\ rest'[e] = rest[e] \ {k}
            /\ k \in Key
            /\ key' \in [Event -> Key \cup {NoKey}]
            /\ rest' \in [Event -> SUBSET Key]
            /\ pc' \in [Event -> Places]
            /\ \A f \in Event : Wants(f)' \subseteq Wants(f)
        BY <1>a, <3>1, NextKeyShrinks
      <3> QED
        BY <3>2
    <2> QED
      BY <2>1, <2>2
  <1>1. TypeOK'
    BY <1>a, <1>b, <1>c, <1>d DEF IInv, TypeOK
  <1>2. Unmarked'
    BY <1>a, <1>c, <1>d DEF IInv, Unmarked
  <1>3. SeenOwned'
    BY <1>a, <1>c DEF IInv, SeenOwned
  <1>4. DroppedForAnother'
    BY <1>c, <1>d DEF IInv, DroppedForAnother
  <1>5. MarkedSeen'
    BY <1>a, <1>c DEF IInv, MarkedSeen
  <1>6. WantedOnce'
    BY <1>a, <1>d DEF IInv, WantedOnce
  <1>7. MarkFresh'
    <2> SUFFICES ASSUME NEW f \in Event, pc'[f] = "mark"
                 PROVE  key'[f] \notin seen' \/ key'[f] \in excused'
      BY DEF MarkFresh
    <2>1. f # e /\ pc[f] = "mark" /\ key'[f] = key[f]
      BY <1>d
    <2>2. key[f] = key[e] => key[f] \in Wants(e) \cap Wants(f)
      BY <1>a, <1>b, <2>1 DEF Wants
    <2>3. key[f] = key[e] => key[f] \in excused
      BY <2>1, <2>2 DEF IInv, WantedOnce
    <2> QED
      BY <1>a, <2>1, <2>3 DEF IInv, MarkFresh
  <1>8. MarkedOnce'
    <2>1. \A f \in Event : key[e] \in marked[f] => key[e] \in excused
      BY <1>b DEF IInv, MarkedSeen
    <2> QED
      BY <1>a, <1>c, <2>1 DEF IInv, MarkedOnce
  <1> QED
    BY <1>1, <1>2, <1>3, <1>4, <1>5, <1>6, <1>7, <1>8 DEF IInv

-----------------------------------------------------------------------------
(***************************************************************************)
(* Lapse and crash: what they forget is excused                            *)
(***************************************************************************)
LEMMA ExpireKeeps ==
  ASSUME IInv, NEW k \in Key, Expire(k)
  PROVE  IInv'
  <1> USE DEF Expire, content
  <1>1. TypeOK'
    BY DEF IInv, TypeOK
  <1>2. Unmarked' /\ SeenOwned' /\ DroppedForAnother'
    BY DEF IInv, Unmarked, SeenOwned, DroppedForAnother
  <1>3. MarkedSeen' /\ MarkFresh' /\ MarkedOnce'
    BY DEF IInv, MarkedSeen, MarkFresh, MarkedOnce
  <1>4. WantedOnce'
    BY DEF IInv, WantedOnce, Wants, Key
  <1> QED
    BY <1>1, <1>2, <1>3, <1>4 DEF IInv

LEMMA CrashKeeps ==
  ASSUME IInv, Crash
  PROVE  IInv'
  <1> USE DEF Crash, content
  <1>1. \A f \in Event :
          \/ pc[f] \in Ended \cup {"none"} /\ pc'[f] = pc[f]
          \/ pc'[f] = "lost" /\ pc[f] \notin Ended \cup {"none"}
    OBVIOUS
  <1>2. /\ loop'[current'] # Off
        /\ loop' \in [Loop -> Event \cup {Idle, Off}]
        /\ \A l \in Loop : loop'[l] \notin Event
    BY HandlerAssumption DEF IInv, TypeOK
  <1>3. pc' \in [Event -> Places]
    BY <1>1 DEF IInv, TypeOK
  <1>4. TypeOK'
    BY <1>1, <1>2, <1>3 DEF IInv, TypeOK
  <1>5. Unmarked' /\ SeenOwned' /\ DroppedForAnother'
    BY <1>1 DEF IInv, Unmarked, SeenOwned, DroppedForAnother
  <1>6. MarkedSeen' /\ MarkFresh' /\ MarkedOnce'
    BY DEF IInv, MarkedSeen, MarkFresh, MarkedOnce
  <1>7. WantedOnce'
    BY <1>1 DEF WantedOnce, Wants
  <1> QED
    BY <1>4, <1>5, <1>6, <1>7 DEF IInv

-----------------------------------------------------------------------------
(***************************************************************************)
(* Theorems                                                                *)
(***************************************************************************)
LEMMA StepKeeps ==
  ASSUME IInv, [Next]_vars
  PROVE  IInv'
  <1>1. CASE \E e \in Event, k \in Kinds, m \in Id, more \in SUBSET Id : Receive(e, k, m, more)
    BY <1>1, ReceiveKeeps
  <1>2. CASE \E l \in Loop, e \in Event : Start(l, e)
    BY <1>2, StartKeeps
  <1>3. CASE \E l \in Loop : Abandon(l) \/ Reconnect(l) \/ LoopExits(l)
    BY <1>3, LoopKeeps
  <1>4. CASE \E e \in Event : HandlerStep(e) \/ Hang(e)
    <2>1. PICK e \in Event : HandlerStep(e) \/ Hang(e)
      BY <1>4
    <2>2. CASE ReadMessage(e) \/ DecryptVote(e) \/ Fetch(e) \/ Report(e) \/ Hang(e)
      BY <2>2, PlainSteps, AdvanceKeeps
    <2>3. CASE Check(e)
      BY <2>3, CheckKeeps
    <2>4. CASE Mark(e)
      BY <2>4, MarkKeeps
    <2> QED
      BY <2>1, <2>2, <2>3, <2>4 DEF HandlerStep
  <1>5. CASE \E k \in Key : Expire(k)
    BY <1>5, ExpireKeeps
  <1>6. CASE Crash
    BY <1>6, CrashKeeps
  <1>7. CASE UNCHANGED vars
    BY <1>7 DEF vars, IInv, TypeOK, Unmarked, SeenOwned, DroppedForAnother, MarkedSeen,
      WantedOnce, Wants, Key, MarkFresh, MarkedOnce
  <1> QED
    BY <1>1, <1>2, <1>3, <1>4, <1>5, <1>6, <1>7 DEF Next

LEMMA Invariance == Spec => []IInv
  <1>1. Init => IInv
    BY InitInv
  <1>2. IInv /\ [Next]_vars => IInv'
    BY StepKeeps
  <1> QED
    BY <1>1, <1>2, PTL DEF Spec

\* The variables keep their types; a loop waits only for what was taken from the queue,
\* and the current connection has a loop (handlerQueueLoop).
THEOREM TypeCorrect == Spec => []TypeOK
  <1>1. IInv => TypeOK
    BY DEF IInv
  <1> QED
    BY <1>1, Invariance, PTL

\* A message, a delivery or the row of a read message is used by one handler only, but
\* for lapsed marks, restarts and overlapping starts (processedMessages of myEventHandler).
THEOREM NoDoubleUse == Spec => []UsedOnce
  <1>1. IInv => UsedOnce
    BY DEF IInv, MarkedOnce, UsedOnce, Used
  <1> QED
    BY <1>1, Invariance, PTL

\* Whatever is dropped as a duplicate has the key of an event that was taken.
THEOREM NeverDropsBoth == Spec => []DroppedForAnother
  <1>1. IInv => DroppedForAnother
    BY DEF IInv
  <1> QED
    BY <1>1, Invariance, PTL

-----------------------------------------------------------------------------
(***************************************************************************)
(* Refinement of Claims                                                    *)
(***************************************************************************)
Wanted == [e \in Event |-> Wants(e)]

\* Besides IInv: only a read receipt has keys left, and other kinds than the keyed ones
\* and the receipts have none at all.
Fits ==
  \A e \in Event :
    /\ rest[e] # {} => kind[e] = "read"
    /\ kind[e] \notin Keyed \cup Receipts => key[e] = NoKey

LEMMA NoKeyIsNone == NoKey \notin Key
  BY DEF NoKey, Key

LEMMA NextFits ==
  ASSUME IInv, Fits, [Next]_vars
  PROVE  Fits'
<1>1. CASE kind' = kind /\ key' = key /\ rest' = rest
  BY <1>1 DEF Fits
<1>2. ASSUME NEW e \in Event, NEW k \in Kinds, NEW m \in Id, NEW more \in SUBSET Id,
             Receive(e, k, m, more)
      PROVE  Fits'
  <2>1. /\ kind'[e] = k /\ key'[e] = FirstKey(k, m)
        /\ k # "read" => rest'[e] = {}
        /\ \A f \in Event \ {e} : kind'[f] = kind[f] /\ key'[f] = key[f] /\ rest'[f] = rest[f]
    BY <1>2 DEF Receive, IInv, TypeOK
  <2>2. k \notin Keyed \cup Receipts => FirstKey(k, m) = NoKey
    BY DEF FirstKey
  <2> QED
    BY <2>1, <2>2 DEF Fits
<1>3. ASSUME NEW e \in Event, Check(e) \/ Mark(e)
      PROVE  Fits'
  <2>1. CASE key' = key /\ rest' = rest
    BY <1>3, <2>1 DEF Check, Mark, shared, Fits
  <2>2. CASE \E k \in rest[e] : key' = [key EXCEPT ![e] = k] /\ rest' = [rest EXCEPT ![e] = @ \ {k}]
    <3>1. kind' = kind /\ kind[e] = "read"
      BY <1>3, <2>2 DEF Check, Mark, shared, Fits
    <3>2. \A f \in Event \ {e} : key'[f] = key[f] /\ rest'[f] = rest[f]
      BY <2>2 DEF IInv, TypeOK
    <3> QED
      BY <3>1, <3>2 DEF Fits
  <2> QED
    BY <1>3, <2>1, <2>2 DEF Check, Mark, AfterLookup
<1> QED
  BY <1>1, <1>2, <1>3 DEF Next, vars, content, queue, shared, Start, Abandon, Reconnect, LoopExits,
     HandlerStep, ReadMessage, DecryptVote, Fetch, Report, Hang, Expire, Crash

LEMMA FitsAlways == Spec => [](IInv /\ Fits)
<1>1. Init => Fits
  BY DEF Init, Fits
<1> QED
  BY <1>1, Invariance, NextFits, PTL DEF Spec

-----------------------------------------------------------------------------
\* The stage of an event, and what a step that concerns one event does to the view.
LEMMA StageIs ==
  ASSUME NEW e \in Event
  PROVE  /\ pc[e] \in {"none", "queued"} => Stage[e] = "new"
         /\ pc[e] \in Undecided \cup {"fetch", "report"} => Stage[e] = "working"
         /\ pc[e] \in {"reported", "duplicate"} => Stage[e] = pc[e]
         /\ pc[e] \in {"ignored", "unreported", "panicked", "lost", "hung"} => Stage[e] = "over"
  BY DEF Stage

LEMMA WantsKeys == \A e \in Event : Wants(e) \subseteq Key
  BY DEF Wants

Alone(e) == \A f \in Event \ {e} : pc'[f] = pc[f] /\ key'[f] = key[f] /\ rest'[f] = rest[f]

LEMMA OneEvent ==
  ASSUME NEW e \in Event, Alone(e)
  PROVE  /\ Stage' = [Stage EXCEPT ![e] = Stage'[e]]
         /\ Wanted' = [Wanted EXCEPT ![e] = Wanted'[e]]
<1>1. \A f \in Event \ {e} : Stage'[f] = Stage[f]
  BY DEF Alone, Stage
<1>2. \A f \in Event \ {e} : Wanted'[f] = Wanted[f]
  BY DEF Alone, Wanted, Wants
<1>3. /\ Stage = [f \in Event |-> Stage[f]] /\ Stage' = [f \in Event |-> Stage'[f]]
      /\ Wanted = [f \in Event |-> Wanted[f]] /\ Wanted' = [f \in Event |-> Wanted'[f]]
  BY DEF Stage, Wanted
<1> QED
  BY <1>1, <1>2, <1>3

SameView == Stage' = Stage /\ Wanted' = Wanted /\ marked' = marked /\ excused' = excused

LEMMA SameEvent ==
  ASSUME NEW e \in Event, Alone(e), Stage'[e] = Stage[e], Wanted'[e] = Wanted[e],
         marked' = marked, excused' = excused
  PROVE  SameView
<1>1. /\ Stage = [f \in Event |-> Stage[f]]
      /\ Wanted = [f \in Event |-> Wanted[f]]
  BY DEF Stage, Wanted
<1> QED
  BY OneEvent, <1>1 DEF SameView

LEMMA SameViewStutters == SameView => UNCHANGED Claiming!vars
  BY DEF SameView, Claiming!vars, Wanted

LEMMA ReceiveAbstract ==
  ASSUME IInv, NEW e \in Event, NEW k \in Kinds, NEW m \in Id, NEW more \in SUBSET Id,
         Receive(e, k, m, more)
  PROVE  SameView
<1>1. /\ pc[e] = "none" /\ pc'[e] = "queued" /\ Alone(e)
      /\ marked' = marked /\ excused' = excused
  BY DEF Receive, queue, IInv, TypeOK, Alone
<1>2. Stage[e] = "new" /\ Stage'[e] = "new"
  BY <1>1 DEF Stage
<1>3. Wanted[e] = {} /\ Wanted'[e] = {}
  BY <1>1 DEF Wanted, Wants
<1> QED
  BY <1>1, <1>2, <1>3, SameEvent

LEMMA StartAbstract ==
  ASSUME IInv, Fits, NEW l \in Loop, NEW e \in Event, Start(l, e)
  PROVE  Claiming!Take(e)
<1>1. /\ pc[e] = "queued" /\ pc'[e] = FirstPC(kind[e]) /\ Alone(e)
      /\ key' = key /\ rest' = rest /\ kind' = kind /\ marked' = marked
      /\ excused' = excused \cup (({key[e]} \cup rest[e]) \cap UNION {Wants(f) : f \in Event})
  BY DEF Start, content, IInv, TypeOK, Alone
<1>2. kind[e] \in Kinds
  BY DEF IInv, TypeOK
<1>3. Stage[e] = "new" /\ Stage'[e] = "working"
  BY <1>1, <1>2 DEF Stage, FirstPC
<1>4. ({key[e]} \cup rest[e]) \cap Key = Wanted'[e]
  <2>1. CASE pc'[e] \in Undecided
    BY <1>1, <2>1 DEF Wanted, Wants
  <2>2. CASE pc'[e] \notin Undecided
    <3>1. kind[e] \in {"plain", "archive"}
      BY <1>1, <1>2, <2>2 DEF FirstPC
    <3>2. key[e] = NoKey /\ rest[e] = {}
      BY <3>1 DEF Fits
    <3>3. Wanted'[e] = {}
      BY <2>2 DEF Wanted, Wants
    <3> QED
      BY <3>2, <3>3, NoKeyIsNone
  <2> QED
    BY <2>1, <2>2
<1>5. UNION {Wants(f) : f \in Event} = UNION {Wanted[f] : f \in Event}
  BY DEF Wanted
<1>6. UNION {Wanted[f] : f \in Event} \subseteq Key
  BY WantsKeys DEF Wanted
<1>7. excused' = excused \cup (Wanted'[e] \cap UNION {Wanted[f] : f \in Event})
  BY <1>1, <1>4, <1>5, <1>6
<1>8. Wanted' \in [Event -> SUBSET Key]
  BY DEF Wanted, Wants
<1>9. \A f \in Event \ {e} : Wanted'[f] = Wanted[f]
  BY <1>1 DEF Alone, Wanted, Wants
<1>10. Stage' = [Stage EXCEPT ![e] = "working"]
  BY <1>1, <1>3, OneEvent
<1> QED
  BY <1>1, <1>3, <1>7, <1>8, <1>9, <1>10 DEF Claiming!Take, Wanted

LEMMA PlainAbstract ==
  ASSUME IInv, Fits, NEW e \in Event,
         ReadMessage(e) \/ DecryptVote(e) \/ Fetch(e) \/ Report(e) \/ Hang(e)
  PROVE  SameView \/ Claiming!Report(e) \/ Claiming!Leave(e)
<1> USE DEF shared, queue
<1>1. /\ key' = key /\ rest' = rest /\ kind' = kind /\ marked' = marked /\ excused' = excused
      /\ pc[e] \in {"read", "vote", "fetch", "report"}
  BY DEF ReadMessage, DecryptVote, Fetch, Report, Hang
<1>2. Alone(e)
  BY <1>1 DEF ReadMessage, DecryptVote, Fetch, Report, Hang, Alone, IInv, TypeOK
<1>3. Stage[e] = "working"
  BY <1>1 DEF Stage
<1>4. ASSUME NEW p \in Undecided \cup {"fetch", "report"}, pc'[e] = p, Wanted'[e] = Wanted[e]
      PROVE  SameView
  <2>1. Stage'[e] = "working"
    BY <1>4 DEF Stage
  <2> QED
    BY <1>1, <1>2, <1>3, <1>4, <2>1, SameEvent
<1>5. ASSUME NEW p \in {"ignored", "unreported", "panicked", "hung"}, pc'[e] = p
      PROVE  Claiming!Leave(e)
  <2>1. Stage'[e] = "over" /\ Wanted'[e] = {}
    BY <1>5 DEF Stage, Wanted, Wants
  <2>2. Claiming!End(e, "over")
    BY <1>1, <1>2, <1>3, <2>1, OneEvent DEF Claiming!End, Wanted
  <2> QED
    BY <2>2 DEF Claiming!Leave
<1>6. CASE ReadMessage(e)
  <2>1. pc[e] = "read" /\ kind[e] \in Messages \cup {"silent"}
    BY <1>6 DEF ReadMessage, IInv, TypeOK
  <2>2. CASE kind[e] = "silent"
    <3>1. pc'[e] = "ignored"
      BY <1>6, <2>2 DEF ReadMessage, IInv, TypeOK
    <3> QED
      BY <1>5, <3>1
  <2>3. CASE kind[e] = "edit"
    <3>1. pc'[e] = "fetch"
      BY <1>6, <2>3 DEF ReadMessage, IInv, TypeOK
    <3>2. key[e] = NoKey /\ rest[e] = {}
      BY <2>3 DEF Fits
    <3>3. Wanted[e] = {} /\ Wanted'[e] = {}
      BY <2>1, <3>1, <3>2, NoKeyIsNone DEF Wanted, Wants
    <3> QED
      BY <1>4, <3>1, <3>3
  <2>4. CASE kind[e] \in Keyed
    <3>1. pc'[e] \in {"vote", "check"}
      BY <1>6, <2>4 DEF ReadMessage, IInv, TypeOK
    <3>2. Wanted'[e] = Wanted[e]
      BY <1>1, <2>1, <3>1 DEF Wanted, Wants
    <3> QED
      BY <1>4, <3>1, <3>2
  <2> QED
    BY <2>1, <2>2, <2>3, <2>4
<1>7. CASE DecryptVote(e)
  <2>1. pc[e] = "vote" /\ pc'[e] \in {"check", "panicked"}
    BY <1>7 DEF DecryptVote, IInv, TypeOK
  <2>2. pc'[e] = "check" => Wanted'[e] = Wanted[e]
    BY <1>1, <2>1 DEF Wanted, Wants
  <2> QED
    BY <1>4, <1>5, <2>1, <2>2
<1>8. CASE Fetch(e)
  <2>1. pc[e] = "fetch" /\ pc'[e] \in {"report", "unreported"}
    BY <1>8 DEF Fetch, IInv, TypeOK
  <2>2. pc'[e] = "report" => Wanted'[e] = Wanted[e]
    BY <2>1 DEF Wanted, Wants
  <2> QED
    BY <1>4, <1>5, <2>1, <2>2
<1>9. CASE Report(e)
  <2>1. pc[e] = "report" /\ pc'[e] \in {"panicked", "reported"}
    BY <1>9 DEF Report, IInv, TypeOK
  <2>2. CASE pc'[e] = "reported"
    <3>1. Stage'[e] = "reported" /\ Wanted[e] = {} /\ Wanted'[e] = {}
      BY <2>1, <2>2 DEF Stage, Wanted, Wants
    <3>2. Claiming!End(e, "reported")
      BY <1>1, <1>2, <1>3, <3>1, OneEvent DEF Claiming!End, Wanted
    <3> QED
      BY <3>1, <3>2 DEF Claiming!Report, Wanted
  <2> QED
    BY <1>5, <2>1, <2>2
<1>10. CASE Hang(e)
  <2>1. pc'[e] = "hung"
    BY <1>10 DEF Hang, IInv, TypeOK
  <2> QED
    BY <1>5, <2>1
<1> QED
  BY <1>6, <1>7, <1>8, <1>9, <1>10

\* A handler that has decided on its key goes on with what is left.
LEMMA LookupDone ==
  ASSUME IInv, Fits, NEW e \in Event, pc[e] \in {"check", "mark"}, AfterLookup(e)
  PROVE  /\ Alone(e) /\ Stage'[e] = "working"
         /\ key[e] \in Wanted[e] /\ Wanted'[e] = Wanted[e] \ {key[e]}
<1>1. Wanted[e] = {key[e]} \cup rest[e] /\ key[e] \notin rest[e]
  BY DEF Wanted, Wants, IInv, TypeOK, Unmarked
<1>2. CASE rest[e] = {}
  <2>1. pc'[e] \in {"report", "fetch"} /\ key' = key /\ rest' = rest /\ Alone(e)
    BY <1>2 DEF AfterLookup, IInv, TypeOK, Alone
  <2>2. Stage'[e] = "working" /\ Wanted'[e] = {}
    BY <2>1 DEF Stage, Wanted, Wants
  <2> QED
    BY <1>1, <1>2, <2>1, <2>2
<1>3. CASE rest[e] # {}
  <2>1. PICK k \in rest[e] :
          /\ Goto(e, "check")
          /\ key' = [key EXCEPT ![e] = k]
          /\ rest' = [rest EXCEPT ![e] = @ \ {k}]
    BY <1>3 DEF AfterLookup
  <2>2. /\ pc'[e] = "check" /\ key'[e] = k /\ rest'[e] = rest[e] \ {k} /\ k \in Key
        /\ Alone(e)
    BY <2>1, NextKeyShrinks DEF Alone
  <2>3. Stage'[e] = "working"
    BY <2>2 DEF Stage
  <2>4. Wanted'[e] = ({k} \cup (rest[e] \ {k})) \cap Key
    BY <2>2 DEF Wanted, Wants
  <2>5. rest[e] \subseteq Key
    BY DEF IInv, TypeOK
  <2> QED
    BY <1>1, <2>2, <2>3, <2>4, <2>5
<1> QED
  BY <1>2, <1>3

LEMMA CheckAbstract ==
  ASSUME IInv, Fits, NEW e \in Event, Check(e)
  PROVE  SameView \/ (\E k \in Wanted[e] : Claiming!PassOver(e, k)) \/ Claiming!Drop(e)
<1> USE DEF shared, queue
<1>1. pc[e] = "check" /\ marked' = marked /\ excused' = excused
  BY DEF Check
<1>2. Stage[e] = "working" /\ key[e] \in Key
  BY <1>1 DEF Stage, IInv, TypeOK
<1>3. CASE key[e] \notin seen
  <2>1. pc'[e] = "mark" /\ key' = key /\ rest' = rest /\ Alone(e)
    BY <1>3 DEF Check, Alone, IInv, TypeOK
  <2>2. Stage'[e] = "working" /\ Wanted'[e] = Wanted[e]
    BY <1>1, <2>1 DEF Stage, Wanted, Wants
  <2> QED
    BY <1>1, <1>2, <2>1, <2>2, SameEvent
<1>4. CASE key[e] \in seen
  <2>1. Claiming!ClaimedBesides(key[e], e)
    <3>1. PICK f \in Event : key[e] \in marked[f]
      BY <1>4 DEF IInv, SeenOwned
    <3>2. f # e
      BY <1>1, <3>1 DEF IInv, Unmarked
    <3> QED
      BY <3>1, <3>2 DEF Claiming!ClaimedBesides
  <2>2. CASE kind[e] = "read"
    <3>1. AfterLookup(e)
      BY <1>4, <2>2 DEF Check
    <3>2. /\ Alone(e) /\ Stage'[e] = "working"
          /\ key[e] \in Wanted[e] /\ Wanted'[e] = Wanted[e] \ {key[e]}
      BY <1>1, <3>1, LookupDone
    <3>3. Stage' = Stage /\ Wanted' = [Wanted EXCEPT ![e] = @ \ {key[e]}]
      <4>1. Stage = [f \in Event |-> Stage[f]]
        BY DEF Stage
      <4> QED
        BY <1>2, <3>2, <4>1, OneEvent
    <3>4. Claiming!PassOver(e, key[e])
      BY <1>1, <1>2, <2>1, <3>3 DEF Claiming!PassOver, Wanted
    <3> QED
      BY <3>2, <3>4
  <2>3. CASE kind[e] # "read"
    <3>1. pc'[e] = "duplicate" /\ Alone(e)
      BY <1>4, <2>3 DEF Check, Alone, IInv, TypeOK
    <3>2. Stage'[e] = "duplicate" /\ Wanted'[e] = {}
      BY <3>1 DEF Stage, Wanted, Wants
    <3>3. Wanted[e] = {key[e]}
      BY <1>1, <1>2, <2>3 DEF Wanted, Wants, Fits
    <3>4. Claiming!End(e, "duplicate")
      BY <1>1, <1>2, <3>1, <3>2, OneEvent DEF Claiming!End, Wanted
    <3> QED
      BY <2>1, <3>3, <3>4 DEF Claiming!Drop, Wanted
  <2> QED
    BY <2>2, <2>3
<1> QED
  BY <1>3, <1>4

\* Between its look-up and its mark nobody else has claimed the key, or it is excused: the
\* mark is where the event claims it.
LEMMA MarkAbstract ==
  ASSUME IInv, Fits, NEW e \in Event, Mark(e)
  PROVE  \E k \in Wanted[e] : Claiming!Claim(e, k)
<1>1. /\ pc[e] = "mark" /\ excused' = excused
      /\ marked' = [marked EXCEPT ![e] = @ \cup {key[e]}]
  BY DEF Mark
<1>2. /\ Alone(e) /\ Stage'[e] = "working"
      /\ key[e] \in Wanted[e] /\ Wanted'[e] = Wanted[e] \ {key[e]}
  BY <1>1, LookupDone DEF Mark
<1>3. Stage[e] = "working"
  BY <1>1 DEF Stage
<1>4. Stage' = Stage /\ Wanted' = [Wanted EXCEPT ![e] = @ \ {key[e]}]
  <2>1. Stage = [f \in Event |-> Stage[f]]
    BY DEF Stage
  <2> QED
    BY <1>2, <1>3, <2>1, OneEvent
<1>5. Claiming!Claimed(key[e]) => key[e] \in excused
  BY <1>1 DEF Claiming!Claimed, IInv, MarkedSeen, MarkFresh
<1>6. Claiming!Claim(e, key[e])
  BY <1>1, <1>3, <1>4, <1>5 DEF Claiming!Claim, Wanted
<1> QED
  BY <1>2, <1>6

LEMMA ExpireAbstract ==
  ASSUME IInv, NEW k \in Key, Expire(k)
  PROVE  Claiming!Lapse(k)
<1>1. Claiming!Claimed(k)
  BY DEF Expire, IInv, SeenOwned, Claiming!Claimed
<1>2. Stage' = Stage /\ Wanted' = Wanted /\ marked' = marked /\ excused' = excused \cup {k}
  BY DEF Expire, content, Stage, Wanted, Wants
<1> QED
  BY <1>1, <1>2 DEF Claiming!Lapse, Wanted

LEMMA CrashAbstract ==
  ASSUME IInv, Crash
  PROVE  \E S \in SUBSET Event : Claiming!Crash(S)
<1> DEFINE S == {e \in Event : pc[e] = "queued"}
<1>1. \A e \in Event : pc[e] \in Places
  BY DEF IInv, TypeOK
<1>2. \A e \in S : Stage[e] = "new"
  BY DEF Stage
<1>3. ASSUME NEW e \in Event
      PROVE  Stage'[e] = IF e \in S \/ Stage[e] = "working" THEN "over" ELSE Stage[e]
  <2>1. pc'[e] = IF pc[e] \in Ended \cup {"none"} THEN pc[e] ELSE "lost"
    BY DEF Crash
  <2> QED
    BY <1>1, <2>1, StageIs DEF Stage
<1>4. Stage' = [e \in Event |-> IF e \in S \/ Stage[e] = "working" THEN "over" ELSE Stage[e]]
  <2>1. Stage' = [e \in Event |-> Stage'[e]]
    BY DEF Stage
  <2> QED
    BY <1>3, <2>1
<1>5. Wanted' = [e \in Event |-> {}]
  BY DEF Crash, Wanted, Wants
<1>6. marked' = marked /\ excused' = excused \cup seen
  BY DEF Crash
<1>7. \A k \in seen : Claiming!Claimed(k)
  BY DEF IInv, SeenOwned, Claiming!Claimed
<1>8. Claiming!Crash(S)
  BY <1>2, <1>4, <1>5, <1>6, <1>7 DEF Claiming!Crash, Wanted
<1> QED
  BY <1>8

LEMMA NextAbstract ==
  ASSUME IInv, Fits, [Next]_vars
  PROVE  [Claiming!Next]_(Claiming!vars)
<1>1. CASE SameView
  BY <1>1, SameViewStutters
<1>2. ASSUME NEW e \in Event,
             \/ Claiming!Take(e) \/ Claiming!Report(e) \/ Claiming!Drop(e) \/ Claiming!Leave(e)
             \/ \E k \in Wanted[e] : Claiming!Claim(e, k) \/ Claiming!PassOver(e, k)
      PROVE  Claiming!Next
  BY <1>2 DEF Claiming!Next, Wanted
<1>3. ASSUME NEW e \in Event, HandlerStep(e) \/ Hang(e)
      PROVE  [Claiming!Next]_(Claiming!vars)
  BY <1>1, <1>2, <1>3, PlainAbstract, CheckAbstract, MarkAbstract DEF HandlerStep
<1>4. CASE UNCHANGED <<key, rest, pc, marked, excused>>
  <2>1. SameView
    BY <1>4 DEF SameView, Stage, Wanted, Wants
  <2> QED
    BY <1>1, <2>1
<1>5. ASSUME NEW e \in Event, NEW k \in Kinds, NEW m \in Id, NEW more \in SUBSET Id,
             Receive(e, k, m, more)
      PROVE  [Claiming!Next]_(Claiming!vars)
  BY <1>1, <1>5, ReceiveAbstract
<1>6. ASSUME NEW l \in Loop, NEW e \in Event, Start(l, e)
      PROVE  [Claiming!Next]_(Claiming!vars)
  BY <1>2, <1>6, StartAbstract
<1>7. ASSUME NEW l \in Loop, Abandon(l) \/ Reconnect(l) \/ LoopExits(l)
      PROVE  [Claiming!Next]_(Claiming!vars)
  BY <1>4, <1>7 DEF Abandon, Reconnect, LoopExits, content
<1>8. ASSUME NEW k \in Key, Expire(k)
      PROVE  [Claiming!Next]_(Claiming!vars)
  BY <1>8, ExpireAbstract DEF Claiming!Next
<1>9. CASE Crash
  BY <1>9, CrashAbstract DEF Claiming!Next
<1>10. CASE UNCHANGED vars
  BY <1>4, <1>10 DEF vars
<1> QED
  BY <1>3, <1>5, <1>6, <1>7, <1>8, <1>9, <1>10 DEF Next

\* myEventHandler, whose look-ups and marks of processedMessages are separate steps of
\* handlers that may overlap, deduplicates as if each key were claimed in one step.
THEOREM Refinement == Spec => ActsAsClaims
<1>1. Init => Claiming!Init
  BY DEF Init, Claiming!Init, Stage, Wants
<1>2. IInv /\ Fits /\ [Next]_vars => [Claiming!Next]_(Claiming!vars)
  BY NextAbstract
<1> QED
  BY <1>1, <1>2, FitsAlways, PTL DEF Spec, ActsAsClaims, Claiming!Spec
=============================================================================
