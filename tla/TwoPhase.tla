------------------------------ MODULE TwoPhase ------------------------------
(***************************************************************************)
(* What "two-phase writes" (README.md 159) promise of an action, whoever   *)
(* previews and confirms it and however often: it is carried out at most   *)
(* once, by one call, from its first change on; nothing of it is done      *)
(* before or after that.  apply_patch previews and begins in one call.     *)
(***************************************************************************)
EXTENDS Naturals

CONSTANT Actions

VARIABLES
    phase,      \* where an action stands
    applied     \* how many of its changes have been made

Init ==
    /\ phase = [a \in Actions |-> "none"]
    /\ applied = [a \in Actions |-> 0]

Move(a, from, to) == phase[a] \in from /\ phase' = [phase EXCEPT ![a] = to]

Offer(a) == Move(a, {"none"}, "pending") /\ UNCHANGED applied

\* A confirmed action is withdrawn when its paths are not allowed any more.
Withdraw(a) == Move(a, {"pending"}, "over") /\ UNCHANGED applied

Begin(a) == Move(a, {"none", "pending"}, "applying") /\ UNCHANGED applied

Write(a) ==
    /\ Move(a, {"applying"}, "applying") \/ Move(a, {"applying"}, "over")
    /\ applied' = [applied EXCEPT ![a] = @ + 1]

GiveUp(a) == Move(a, {"applying"}, "over") /\ UNCHANGED applied

Next == \E a \in Actions : Offer(a) \/ Withdraw(a) \/ Begin(a) \/ Write(a) \/ GiveUp(a)

Spec == Init /\ [][Next]_<<phase, applied>>
=============================================================================
