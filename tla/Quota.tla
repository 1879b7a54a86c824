------------------------------- MODULE Quota -------------------------------
(***************************************************************************)
(* What a rate limiter promises: a delivery is granted in one atomic step, *)
(* only while every window has room, and a window only ever starts again   *)
(* from zero.                                                              *)
(***************************************************************************)
EXTENDS Naturals

CONSTANTS Windows, Cap

VARIABLE used

Init == used = [w \in Windows |-> 0]

Grant == /\ \A w \in Windows : used[w] < Cap[w]
         /\ used' = [w \in Windows |-> used[w] + 1]

Restart(S) == used' = [w \in Windows |-> IF w \in S THEN 0 ELSE used[w]]

Next == Grant \/ \E S \in SUBSET Windows : Restart(S)
Spec == Init /\ [][Next]_used
=============================================================================
