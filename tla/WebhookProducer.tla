--------------------------- MODULE WebhookProducer ---------------------------
(***************************************************************************)
(* The webhook producer (pkg/events/webhook/webhook_producer.go): an event  *)
(* is posted to the URL of the server and to the URL of its instance, each  *)
(* by a goroutine that tries again until an answer says 2xx.                *)
(***************************************************************************)
EXTENDS Naturals

CONSTANTS
  Event,
  MaxAttempts   \* 5 in Produce

ASSUME AttemptsAssumption == MaxAttempts \in Nat \ {0}

VARIABLES
  post,    \* each goroutine of sendWebhookWithRetry
  tries,   \* its failed requests
  copies   \* how often the receiver was given the event

posts == <<post, tries, copies>>

Url == {"global", "own"}   \* p.url and the instance's
Post == Event \X Url

Moves(p, pc) == post' = [post EXCEPT ![p] = pc]

\* Produce, for the events and URLs in ps.
StartPosts(ps) ==
  /\ post' = [p \in Post |-> IF p \in ps THEN "try" ELSE post[p]]
  /\ UNCHANGED <<tries, copies>>

\* (mutant) The loop counts from 0 to maxRetries.
OneMoreTry(p) == IF tries[p] < MaxAttempts THEN "try" ELSE "gaveup"

\* A failed request: the next one is at least thirty seconds later.
Again(p) == IF tries[p] + 1 < MaxAttempts THEN "try" ELSE "gaveup"

Retry(p) ==
  /\ Moves(p, Again(p))
  /\ tries' = [tries EXCEPT ![p] = @ + 1]
  /\ UNCHANGED copies

\* The request is not sent, or not received.
NotSent(p) == post[p] = "try" /\ Retry(p)

Arrives(p) ==
  /\ post[p] = "try"
  /\ Moves(p, "wait")
  /\ copies' = [copies EXCEPT ![p] = @ + 1]
  /\ UNCHANGED tries

Answers2xx(p) ==
  /\ post[p] = "wait"
  /\ Moves(p, "ok")
  /\ UNCHANGED <<tries, copies>>

\* (mutant) Only requests that were not sent are counted.
AnswerNotCounted(p) ==
  /\ post[p] = "wait"
  /\ Moves(p, "try")
  /\ UNCHANGED <<tries, copies>>

\* Another status, or the answer is lost.
AnswerFails(p) == post[p] = "wait" /\ Retry(p)

PostStep(p) == NotSent(p) \/ Arrives(p)

\* http.Client has no timeout: an answer may never come.
Answer(p) == Answers2xx(p) \/ AnswerFails(p)

CrashPosts ==
  /\ post' = [p \in Post |-> IF post[p] \in {"try", "wait"} THEN "lost" ELSE post[p]]
  /\ UNCHANGED <<tries, copies>>

InitPosts ==
  /\ post = [p \in Post |-> "none"]
  /\ tries = [p \in Post |-> 0]
  /\ copies = [p \in Post |-> 0]

NextPosts == \E p \in Post : PostStep(p) \/ Answer(p)

-----------------------------------------------------------------------------
TypeOKPosts ==
  /\ post \in [Post -> {"none", "try", "wait", "ok", "gaveup", "lost"}]
  /\ tries \in [Post -> 0..MaxAttempts]
  /\ copies \in [Post -> Nat]

\* A receiver that refuses events, or whose answers are lost, gets an event at most
\* MaxAttempts times from each goroutine, and only that many failures end the attempts:
\* what is neither accepted nor lost with the process was not given up early.
HookTries ==
  \A p \in Post :
    /\ copies[p] <= MaxAttempts
    /\ post[p] = "ok" => copies[p] > 0
    /\ post[p] = "gaveup" => tries[p] = MaxAttempts
=============================================================================
