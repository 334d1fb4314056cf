------------------------ MODULE MCInstanceLifecycle ------------------------
(***************************************************************************)
(* InstanceLifecycle on small sets for TLC.                                 *)
(***************************************************************************)
EXTENDS InstanceLifecycle, TLC

CONSTANTS t1, t2   \* model values for Task

\* Handlers are interchangeable; the slots of Run and Chan are not, because the
\* least free one is taken.
TaskSymmetry == Permutations({t1, t2})

\* A channel that is not in the map and has no parked sender never gets a signal.
Signalled(c) == c = killPtr \/ \E s \in sending : s[2] = c

\* What is left in a slot that nothing refers to has no influence: the next
\* StartClient overwrites it.
LiveState ==
  <<row, devices, maps, closed \cap {c \in Chan : ChanInUse(c)}, sending,
    {IF Signalled(c) THEN c ELSE NoChan : c \in presence}, run,
    [r \in Run |-> IF RunInUse(r) THEN cli[r] ELSE IdleClient],
    task, startup, stimuli>>
=============================================================================
