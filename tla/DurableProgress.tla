--------------------------- MODULE DurableProgress ---------------------------
(***************************************************************************)
(* What core/durable.ts promises of a workflow whose process may crash:    *)
(* the steps are committed one by one in order, only the first step that   *)
(* is not committed is ever attempted, and an interrupted attempt is made  *)
(* again.                                                                  *)
(***************************************************************************)
EXTENDS Naturals

CONSTANT N        \* number of steps

VARIABLES
    committed,    \* how many steps are committed
    attempt       \* the step being attempted, 0 if none

Init == committed = 0 /\ attempt = 0

Attempt == committed < N /\ attempt = 0 /\ attempt' = committed + 1 /\ UNCHANGED committed
Commit == attempt # 0 /\ committed' = attempt /\ attempt' = 0
Interrupt == attempt # 0 /\ attempt' = 0 /\ UNCHANGED committed
\* The checkpoints of a completed workflow may be deleted.
Forget == committed = N /\ attempt = 0 /\ committed' = 0 /\ UNCHANGED attempt

Next == Attempt \/ Commit \/ Interrupt \/ Forget

Spec == Init /\ [][Next]_<<committed, attempt>>
=============================================================================
