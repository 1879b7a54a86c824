--------------------------- MODULE EventLifecycle ---------------------------
(***************************************************************************)
(* What the delivery pipeline promises for one accepted event: it is       *)
(* tried until it is settled, a failed try costs exactly one unit of its   *)
(* budget, it is given up exactly when the budget is spent, and a settled  *)
(* event is never touched again.                                           *)
(***************************************************************************)
EXTENDS Naturals

CONSTANTS Events, Budget

VARIABLES phase, tries
vars == <<phase, tries>>

Settled == {"delivered", "dead", "discarded"}

Init == /\ phase = [e \in Events |-> "none"]
        /\ tries = [e \in Events |-> 0]

Submit(e) == /\ phase[e] = "none"
             /\ phase' = [phase EXCEPT ![e] = "open"]
             /\ UNCHANGED tries

Settle(e, p) == /\ phase[e] = "open"
                /\ phase' = [phase EXCEPT ![e] = p]

Fail(e) == /\ phase[e] = "open" /\ tries[e] + 1 < Budget
           /\ tries' = [tries EXCEPT ![e] = @ + 1]
           /\ UNCHANGED phase

Die(e) == /\ tries[e] + 1 = Budget
          /\ tries' = [tries EXCEPT ![e] = @ + 1]
          /\ Settle(e, "dead")

Leave(e) == /\ Settle(e, "delivered") \/ Settle(e, "discarded")
            /\ UNCHANGED tries

Work(e) == Fail(e) \/ Die(e) \/ Leave(e)
Next == \E e \in Events : Submit(e) \/ Work(e)
Spec == Init /\ [][Next]_vars /\ \A e \in Events : WF_vars(Work(e))
=============================================================================
