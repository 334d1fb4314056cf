------------------------------- MODULE Claims -------------------------------
(***************************************************************************)
(* What myEventHandler promises with processedMessages                      *)
(* (pkg/whatsmeow/service/whatsmeow.go), were its look-up and its mark one  *)
(* step: an event claims what it reports, and what one has claimed no other *)
(* does, unless the claim was forgotten or both handlers were running. An   *)
(* event is dropped, or a message of a read receipt passed over, only if    *)
(* another event has claimed it.                                           *)
(***************************************************************************)
CONSTANTS Event, Key

VARIABLES
  stage,   \* of each event: "new", "working", "reported", "duplicate", "over"
  wants,   \* the keys its handler has still to decide on
  claims,  \* the keys it has claimed
  excused  \* the keys that more than one event may claim

vars == <<stage, wants, claims, excused>>

Init ==
  /\ stage = [e \in Event |-> "new"]
  /\ wants = [e \in Event |-> {}]
  /\ claims = [e \in Event |-> {}]
  /\ excused = {}

Claimed(k) == \E e \in Event : k \in claims[e]
ClaimedBesides(k, e) == \E f \in Event \ {e} : k \in claims[f]

\* The handler starts, with keys of its own choice. From here on two handlers may decide
\* on the same key.
Take(e) ==
  /\ stage[e] = "new"
  /\ stage' = [stage EXCEPT ![e] = "working"]
  /\ wants' \in [Event -> SUBSET Key]
  /\ \A f \in Event \ {e} : wants'[f] = wants[f]
  /\ excused' = excused \cup (wants'[e] \cap UNION {wants[f] : f \in Event})
  /\ UNCHANGED claims

Claim(e, k) ==
  /\ stage[e] = "working"
  /\ Claimed(k) => k \in excused
  /\ wants' = [wants EXCEPT ![e] = @ \ {k}]
  /\ claims' = [claims EXCEPT ![e] = @ \cup {k}]
  /\ UNCHANGED <<stage, excused>>

PassOver(e, k) ==
  /\ stage[e] = "working" /\ ClaimedBesides(k, e)
  /\ wants' = [wants EXCEPT ![e] = @ \ {k}]
  /\ UNCHANGED <<stage, claims, excused>>

\* The handler returns.
End(e, result) ==
  /\ stage[e] = "working"
  /\ stage' = [stage EXCEPT ![e] = result]
  /\ wants' = [wants EXCEPT ![e] = {}]
  /\ UNCHANGED <<claims, excused>>

Report(e) == wants[e] = {} /\ End(e, "reported")

Drop(e) ==
  /\ wants[e] # {} /\ \A k \in wants[e] : ClaimedBesides(k, e)
  /\ End(e, "duplicate")

\* Ignored by the settings, failed, hanging.
Leave(e) == End(e, "over")

Lapse(k) ==
  /\ Claimed(k)
  /\ excused' = excused \cup {k}
  /\ UNCHANGED <<stage, wants, claims>>

\* The process dies, with every handler and the events S of the queue.
Crash(S) ==
  /\ \A e \in S : stage[e] = "new"
  /\ stage' = [e \in Event |-> IF e \in S \/ stage[e] = "working" THEN "over" ELSE stage[e]]
  /\ wants' = [e \in Event |-> {}]
  /\ excused \subseteq excused'
  /\ \A k \in excused' \ excused : Claimed(k)
  /\ UNCHANGED claims

Next ==
  \/ \E e \in Event :
       \/ Take(e)
       \/ \E k \in wants[e] : Claim(e, k) \/ PassOver(e, k)
       \/ Report(e) \/ Drop(e) \/ Leave(e)
  \/ \E k \in Key : Lapse(k)
  \/ \E S \in SUBSET Event : Crash(S)

Spec == Init /\ [][Next]_vars
=============================================================================
