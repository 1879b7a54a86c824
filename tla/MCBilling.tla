----------------------------- MODULE MCBilling -----------------------------
(***************************************************************************)
(* One account and two menus of calls, one per behaviour: two payments     *)
(* that are confirmed, repeated and cut short; and everything that writes a*)
(* status, with time passing, around one payment and one renewal, where a  *)
(* fault takes the place of a call.                                        *)
(***************************************************************************)
EXTENDS Billing, TLC

CONSTANTS p1, p2, c1, r1, u1
VARIABLE menu

Kinds ==
  [p \in Payments |->
     CASE p = c1 -> "credits" [] p = r1 -> "renewal" [] OTHER -> "plan"]
Mine == [p \in Payments |-> u1]
Sym == Permutations(Handlers) \cup Permutations({p1, p2})

Money == {"captured", "upgrade", "purchase"}
Lives == Ops \ {"upgrade"}
Touched == {p \in Payments \ {r1} : razorpay'[p] # "open"}
OnMenu ==
  /\ \A h \in Handlers : call'[h] # Idle => call'[h].op \in menu
  /\ menu = Money =>
       /\ \A p \in Touched : razorpay'[p] = "captured"
       /\ razorpay'[r1] = "open"
       /\ \A a \in Accounts : "past" \notin {sub'[a].trialEnd, sub'[a].periodEnd}
  /\ IF menu = Money THEN Cardinality(Touched) <= 2
     ELSE Cardinality(Touched) <= 1 /\ calls' + faults' <= MaxCalls

MenuInit == BillingInit /\ menu \in {Money, Lives}
MenuNext == BillingNext /\ OnMenu /\ UNCHANGED menu
menuVars == <<billingVars, menu>>
=============================================================================
