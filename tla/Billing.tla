------------------------------ MODULE Billing ------------------------------
(***************************************************************************)
(* Subscriptions, the Razorpay webhook, credit purchases, invoices and     *)
(* reseller customers.                                                     *)
(*                                                                         *)
(* Every request, webhook delivery and client call runs on a handler, cut  *)
(* at its awaits: call[h].at names the database call it will make next.    *)
(* A payment stands for its id, its plan and its credit package.  Money    *)
(* and credits are counted in payments; time only as "ahead" and "past".   *)
(***************************************************************************)
EXTENDS Naturals, FiniteSets

CONSTANTS
  Users, Nobody,   \* account owners, and the owner of a call without an id
  Payments,        \* Razorpay payments, captured or failed
  Buys,            \* what each is for: "plan", "credits" or "renewal"
  Owner,           \* whose money it is
  Handlers,        \* requests served at a time
  MaxCalls,        \* bound: client calls and unasked webhooks in a behaviour
  MaxFaults,       \* bound: crashes, lost answers and overlapping redeliveries
  PassesId         \* do the routes pass the id the services expect?

ASSUME BillingAssumption ==
  /\ Nobody \notin Users /\ IsFiniteSet(Handlers)
  /\ Payments \cap {"none", "trial", "custom"} = {}
  /\ Buys \in [Payments -> {"plan", "credits", "renewal"}]
  /\ Owner \in [Payments -> Users]
  /\ MaxCalls \in Nat /\ MaxFaults \in Nat /\ PassesId \in BOOLEAN

VARIABLES
  sub,       \* per account: the subscription document
  paid,      \* per account: user.plan and user.razorpayPaymentId
  customer,  \* per account: its ResellerCustomer row
  balance,   \* per account: credits
  ledger,    \* payments with a credit transaction
  invoices,  \* [no, pay]
  razorpay,  \* per payment: "open", "captured" or "failed"
  hooks,     \* webhooks Razorpay has not seen answered
  call,      \* per handler
  calls, faults,                 \* bounds
  granted, doubled, torn,        \* history, see below
  tries, topUps  \* history: confirmations of a plan payment, of an account's credits

docs == <<sub, paid, customer>>
books == <<balance, ledger, invoices>>
outside == <<razorpay, hooks, calls, faults>>
history == <<granted, doubled, torn, tries, topUps>>
billingVars == <<docs, books, outside, call, history>>

Accounts == Users \cup {Nobody}
Statuses == {"none", "trial", "trial_expired", "active", "past_due", "cancelled",
             "suspended", "credit_only"}
NoPlan == "none"
Plans == Payments \cup {NoPlan, "trial", "custom"}
Subscriptions ==
  [status : Statuses, plan : Plans, trialEnd : {"none", "ahead", "past"},
   periodEnd : {"none", "ahead", "past"}, resold : BOOLEAN]
NoSub == [status |-> "none", plan |-> NoPlan, trialEnd |-> "none",
          periodEnd |-> "none", resold |-> FALSE]

Invoices == [no : Nat, pay : Payments]
CustomerStates == {"none", "active", "suspended"}

HookTypes == {"captured", "charged", "failed", "halted", "cancelled"}
Hooks == [type : HookTypes, pay : Payments \cup {NoPlan}, user : Users]
Ops == HookTypes \cup {"upgrade", "purchase", "cancel", "add", "suspend", "reactivate"}
Ats == {"check", "user", "sub", "read", "credit", "row", "count", "invoice",
        "status", "customer"}
Idle == [op |-> "idle"]
Calls == [op : Ops, pay : Payments \cup {NoPlan}, acc : Accounts, at : Ats, no : Nat]

BillingTypeOK ==
  /\ sub \in [Accounts -> Subscriptions]
  /\ \A a \in Accounts : sub[a].status = "none" <=> sub[a].periodEnd = "none"
  /\ paid \in [Accounts -> Payments \cup {NoPlan}]
  /\ customer \in [Accounts -> CustomerStates]
  /\ balance \in [Accounts -> Nat] /\ ledger \subseteq Payments
  /\ invoices \subseteq Invoices
  /\ razorpay \in [Payments -> {"open", "captured", "failed"}]
  /\ hooks \subseteq Hooks
  /\ call \in [Handlers -> Calls \cup {Idle}]
  /\ calls \in Nat /\ faults \in Nat
  /\ granted \in [Payments -> Nat] /\ tries \in [Payments -> Nat]
  /\ topUps \in [Accounts -> Nat]
  /\ doubled \subseteq Payments /\ torn \subseteq Payments

BillingInit ==
  /\ sub = [a \in Accounts |-> NoSub]
  /\ paid = [a \in Accounts |-> NoPlan]
  /\ customer = [a \in Accounts |-> "none"]
  /\ balance = [a \in Accounts |-> 0] /\ ledger = {} /\ invoices = {}
  /\ razorpay = [p \in Payments |-> "open"] /\ hooks = {}
  /\ call = [h \in Handlers |-> Idle]
  /\ calls = 0 /\ faults = 0
  /\ granted = [p \in Payments |-> 0] /\ tries = [p \in Payments |-> 0]
  /\ topUps = [a \in Accounts |-> 0] /\ doubled = {} /\ torn = {}

-----------------------------------------------------------------------------
(* Handlers *)

\* billing.controller passes req.user.userId; the user document has no such key.
Account(u) == IF PassesId THEN u ELSE Nobody

At(h, op, step) == call[h].op = op /\ call[h].at = step
Running(p) == {h \in Handlers : call[h] # Idle /\ call[h].pay = p}
Open(h, op, p, a, step) ==
  /\ call[h] = Idle
  /\ call' = [call EXCEPT ![h] = [op |-> op, pay |-> p, acc |-> a, at |-> step, no |-> 0]]
Go(h, step) == call' = [call EXCEPT ![h].at = step]
End(h) == call' = [call EXCEPT ![h] = Idle]

Activated(s, plan) == [s EXCEPT !.status = "active", !.plan = plan, !.periodEnd = "ahead"]
Grant(h) == /\ sub' = [sub EXCEPT ![call[h].acc] = Activated(@, call[h].pay)]
            /\ granted' = [granted EXCEPT ![call[h].pay] = @ + 1]
HasSub(a) == sub[a].status # "none"

\* Mutant: a missing document is created with the status.
UpsertStatus(a, status) == sub' = [sub EXCEPT ![a].status = status]

\* An update without upsert: nothing happens to a missing document.
SetStatus(a, status) ==
  sub' = IF HasSub(a) THEN [sub EXCEPT ![a].status = status] ELSE sub

-----------------------------------------------------------------------------
(* The world outside *)

\* An order can be paid once it was created: createUpgradeOrder needs the user,
\* createPurchaseOrder only the package.  Renewals are charged by Razorpay.
UserFound(p) == Account(Owner[p]) # Nobody
CanOrder(p) == Buys[p] = "plan" => UserFound(p)

\* Razorpay captures a payment or sees it fail, and sends a webhook that names
\* the user the order was made with.
Hook(type, p) == [type |-> type, pay |-> p, user |-> Owner[p]]
Pay(p) ==
  /\ razorpay[p] = "open" /\ CanOrder(p)
  /\ \E result \in {"captured", "failed"} :
       /\ razorpay' = [razorpay EXCEPT ![p] = result]
       /\ hooks' = IF Account(Owner[p]) = Nobody THEN hooks
                   ELSE hooks \cup {Hook(IF result = "captured" /\ Buys[p] = "renewal"
                                         THEN "charged" ELSE result, p)}
  /\ UNCHANGED <<docs, books, call, calls, faults, history>>

\* Razorpay halts or cancels a subscription of its own.
Unsubscribe(u) ==
  /\ calls < MaxCalls /\ calls' = calls + 1
  /\ \E type \in {"halted", "cancelled"} :
       hooks' = hooks \cup {[type |-> type, pay |-> NoPlan, user |-> u]}
  /\ UNCHANGED <<docs, books, call, razorpay, faults, history>>

\* The end of a trial or of a paid period goes by.
TimePasses(a) ==
  /\ \/ /\ sub[a].trialEnd = "ahead"
        /\ sub' = [sub EXCEPT ![a].trialEnd = "past",
                              ![a].periodEnd = IF sub[a].plan = "trial" THEN "past" ELSE @]
     \/ /\ sub[a].periodEnd = "ahead" /\ sub[a].plan # "trial"
        /\ sub' = [sub EXCEPT ![a].periodEnd = "past"]
  /\ UNCHANGED <<paid, customer, books, outside, call, history>>

\* A process dies with the call it runs; a webhook is then sent again.
Crash(h) ==
  /\ call[h] # Idle /\ faults < MaxFaults /\ faults' = faults + 1
  /\ torn' = IF call[h].op = "captured" /\ call[h].at = "sub"
             THEN torn \cup {call[h].pay} ELSE torn
  /\ End(h)
  /\ UNCHANGED <<docs, books, razorpay, hooks, calls, granted, doubled, tries, topUps>>

-----------------------------------------------------------------------------
(* trial.service: the trial, and the hourly sweep *)

\* startTrial, at the end of a registration; an existing document is left alone.
StartTrial(u) ==
  /\ ~HasSub(u)
  /\ sub' = [sub EXCEPT ![u] = [status |-> "trial", plan |-> "trial",
                                trialEnd |-> "ahead", periodEnd |-> "ahead",
                                resold |-> FALSE]]
  /\ UNCHANGED <<paid, customer, books, outside, call, history>>

\* expireStaleSubscriptions: two updateMany with a filter on status and date.
ExpireTrial(a) ==
  /\ sub[a].status = "trial" /\ sub[a].trialEnd = "past"
  /\ SetStatus(a, "trial_expired")
  /\ UNCHANGED <<paid, customer, books, outside, call, history>>

ExpirePeriod(a) ==
  /\ sub[a].status = "active" /\ sub[a].periodEnd = "past"
  /\ SetStatus(a, "past_due")
  /\ UNCHANGED <<paid, customer, books, outside, call, history>>

-----------------------------------------------------------------------------
(* payments.service: the Razorpay webhook *)

Delivering(e) ==
  \E h \in Handlers : call[h] # Idle /\ call[h].op = e.type /\ call[h].pay = e.pay
                      /\ call[h].acc = e.user
Deliver(h, e) ==
  /\ e \in hooks
  /\ \/ ~Delivering(e) /\ UNCHANGED faults
     \/ Delivering(e) /\ faults < MaxFaults /\ faults' = faults + 1
  /\ Open(h, e.type, e.pay, e.user, "check")
  /\ UNCHANGED <<docs, books, razorpay, hooks, calls, history>>

\* The answer is 200 and Razorpay forgets the webhook, unless the answer is lost.
Answer(h) ==
  /\ End(h)
  /\ \/ /\ hooks' = hooks \ {[type |-> call[h].op, pay |-> call[h].pay, user |-> call[h].acc]}
        /\ UNCHANGED faults
     \/ faults < MaxFaults /\ faults' = faults + 1 /\ UNCHANGED hooks

\* Mutant: no payment is ever taken for processed.
NeverProcessed(p) == FALSE
AlreadyProcessed(p) == p \in Payments /\ \E a \in Accounts : paid[a] = p

\* handleWebhook: skip what was processed; captured goes on only with a plan.
HookCheck(h) ==
  /\ call[h].op \in HookTypes /\ call[h].at = "check"
  /\ LET p == call[h].pay
         skipped == AlreadyProcessed(p) \/ (call[h].op = "captured" /\ Buys[p] # "plan")
     IN  /\ doubled' = IF ~skipped /\ \E g \in Running(p) : At(g, "captured", "user")
                       THEN doubled \cup {p} ELSE doubled
         /\ \/ skipped /\ Answer(h)
            \/ /\ ~skipped /\ Go(h, IF call[h].op = "captured" THEN "user" ELSE "sub")
               /\ UNCHANGED <<hooks, faults>>
  /\ UNCHANGED <<docs, books, razorpay, calls, granted, torn, tries, topUps>>

\* The mark that makes a repeat a repeat: only the last payment is remembered.
MarkPaid(h) ==
  LET a == call[h].acc
  IN  /\ paid' = [paid EXCEPT ![a] = call[h].pay]
      /\ doubled' = doubled \cup ({paid[a]} \ {NoPlan, call[h].pay})

CapturedUser(h) ==
  /\ At(h, "captured", "user") /\ MarkPaid(h) /\ Go(h, "sub")
  /\ UNCHANGED <<sub, customer, books, outside, granted, torn, tries, topUps>>

\* Mutant: the update does not create a missing document.
GrantExisting(h) ==
  /\ At(h, "captured", "sub") /\ Answer(h)
  /\ IF HasSub(call[h].acc) THEN Grant(h) ELSE UNCHANGED <<sub, granted>>
  /\ UNCHANGED <<paid, customer, books, razorpay, calls, doubled, torn, tries, topUps>>

CapturedSub(h) ==
  /\ At(h, "captured", "sub") /\ Grant(h) /\ Answer(h)
  /\ UNCHANGED <<paid, customer, books, razorpay, calls, doubled, torn, tries, topUps>>

\* subscription.charged: the period starts again, plan and user mark stay.
Charged(h) ==
  /\ At(h, "charged", "sub")
  /\ sub' = [sub EXCEPT ![call[h].acc] = Activated(@, @.plan)]
  /\ Answer(h)
  /\ UNCHANGED <<paid, customer, books, razorpay, calls, history>>

\* A failure, a halt or a cancellation is written whatever came since.
FailedHook(h) ==
  /\ At(h, "failed", "sub") \/ At(h, "halted", "sub")
  /\ SetStatus(call[h].acc, "past_due") /\ Answer(h)
  /\ UNCHANGED <<paid, customer, books, razorpay, calls, history>>

CancelledHook(h) ==
  /\ At(h, "cancelled", "sub")
  /\ SetStatus(call[h].acc, "cancelled") /\ Answer(h)
  /\ UNCHANGED <<paid, customer, books, razorpay, calls, history>>

-----------------------------------------------------------------------------
(* subscription.service: the client's own confirmation of a payment *)

\* A client may confirm a captured payment as often as it likes.
Confirm(h, op, what, step) ==
  /\ calls < MaxCalls /\ calls' = calls + 1
  /\ \E p \in Payments :
       /\ Buys[p] = what /\ razorpay[p] = "captured"
       /\ Open(h, op, p, Account(Owner[p]), step)
       /\ IF op = "upgrade"
          THEN tries' = [tries EXCEPT ![p] = @ + 1] /\ UNCHANGED topUps
          ELSE topUps' = [topUps EXCEPT ![Account(Owner[p])] = @ + 1] /\ UNCHANGED tries
  /\ UNCHANGED <<docs, books, razorpay, hooks, faults, granted, doubled, torn>>

UpgradeSub(h) ==
  /\ At(h, "upgrade", "sub") /\ Grant(h) /\ Go(h, "user")
  /\ UNCHANGED <<paid, customer, books, outside, doubled, torn, tries, topUps>>

UpgradeUser(h) ==
  /\ At(h, "upgrade", "user") /\ MarkPaid(h) /\ Go(h, "count")
  /\ UNCHANGED <<sub, customer, books, outside, granted, torn, tries, topUps>>

\* nextInvoiceNumber: one more than there are invoices now, of whatever year; the year
\* that is put before it is one and the same here.
CountInvoices(h) ==
  /\ call[h] # Idle /\ call[h].at = "count"
  /\ call' = [call EXCEPT ![h].at = "invoice", ![h].no = Cardinality(invoices) + 1]
  /\ UNCHANGED <<docs, books, outside, history>>

\* Mutant: the number is not unique in the database.
NeverTaken(n) == FALSE
Taken(n) == \E i \in invoices : i.no = n

\* The unique index refuses a number another call has taken since: the call
\* fails, whatever it had written before.
Invoiced(h) ==
  IF Taken(call[h].no) THEN UNCHANGED invoices
  ELSE invoices' = invoices \cup {[no |-> call[h].no, pay |-> call[h].pay]}

PlanInvoice(h) ==
  /\ At(h, "upgrade", "invoice") /\ Invoiced(h) /\ End(h)
  /\ UNCHANGED <<docs, balance, ledger, outside, history>>

CreditInvoice(h) ==
  /\ At(h, "purchase", "invoice") /\ Invoiced(h)
  /\ IF Taken(call[h].no) THEN End(h) ELSE Go(h, "status")
  /\ UNCHANGED <<docs, balance, ledger, outside, history>>

CancelOpen(h, u) ==
  /\ calls < MaxCalls /\ calls' = calls + 1
  /\ Open(h, "cancel", NoPlan, Account(u), "read")
  /\ UNCHANGED <<docs, books, razorpay, hooks, faults, history>>

CancelRead(h) ==
  /\ At(h, "cancel", "read")
  /\ IF sub[call[h].acc].status \in {"none", "cancelled"} THEN End(h) ELSE Go(h, "sub")
  /\ UNCHANGED <<docs, books, outside, history>>

CancelWrite(h) ==
  /\ At(h, "cancel", "sub") /\ SetStatus(call[h].acc, "cancelled") /\ End(h)
  /\ UNCHANGED <<paid, customer, books, outside, history>>

-----------------------------------------------------------------------------
(* credits.service: verifyPurchase *)

\* Mutant: a package's credits are added once for each of topUp's two writes.
TopUpTwice(h) == balance' = [balance EXCEPT ![call[h].acc] = @ + 2]
TopUp(h) == balance' = [balance EXCEPT ![call[h].acc] = @ + 1]

\* topUp: first the balance, then the transaction with the unique payment id.
PurchaseCredit(h) ==
  /\ At(h, "purchase", "credit") /\ TopUp(h) /\ Go(h, "row")
  /\ UNCHANGED <<docs, ledger, invoices, outside, history>>

\* Mutant: payment ids need not be unique.
AcceptsAny(p, a) == a # Nobody
AcceptsRow(p, a) == a # Nobody /\ p \notin ledger

\* The row needs a user id, and a payment has one row.
PurchaseRow(h) ==
  /\ At(h, "purchase", "row")
  /\ \/ /\ AcceptsRow(call[h].pay, call[h].acc)
        /\ ledger' = ledger \cup {call[h].pay} /\ Go(h, "count")
     \/ ~AcceptsRow(call[h].pay, call[h].acc) /\ End(h) /\ UNCHANGED ledger
  /\ UNCHANGED <<docs, balance, invoices, outside, history>>

\* Mutant: any subscription becomes credit-only.
AnyLapsed == Statuses \ {"none"}
Lapsed == {"trial_expired", "cancelled"}

PurchaseStatus(h) ==
  /\ At(h, "purchase", "status") /\ End(h)
  /\ IF sub[call[h].acc].status \in Lapsed
     THEN SetStatus(call[h].acc, "credit_only") ELSE UNCHANGED sub
  /\ UNCHANGED <<paid, customer, books, outside, history>>

-----------------------------------------------------------------------------
(* reseller.service *)

ResellerOpen(h, op, u) ==
  /\ calls < MaxCalls /\ calls' = calls + 1
  /\ Open(h, op, NoPlan, u, "read")
  /\ UNCHANGED <<docs, books, razorpay, hooks, faults, history>>

\* addCustomer refuses a known customer, the other two an unknown one; without a
\* reseller id no row is found, and none can be made.
ResellerRead(h) ==
  /\ call[h].op \in {"add", "suspend", "reactivate"} /\ call[h].at = "read"
  /\ IF PassesId /\ (call[h].op = "add") = (customer[call[h].acc] = "none")
     THEN Go(h, "customer") ELSE End(h)
  /\ UNCHANGED <<docs, books, outside, history>>

\* The unique index refuses a second row for one customer.
CustomerWrite(h) ==
  /\ call[h] # Idle /\ call[h].at = "customer"
  /\ \/ /\ call[h].op = "add" /\ customer[call[h].acc] # "none"
        /\ End(h) /\ UNCHANGED customer
     \/ /\ call[h].op = "add" => customer[call[h].acc] = "none"
        /\ customer' = [customer EXCEPT ![call[h].acc] =
                          IF call[h].op = "suspend" THEN "suspended" ELSE "active"]
        /\ Go(h, "sub")
  /\ UNCHANGED <<sub, paid, books, outside, history>>

\* addCustomer creates a missing subscription; the other two change only one
\* that is marked with the reseller.
AddSub(h) ==
  /\ At(h, "add", "sub") /\ End(h)
  /\ sub' = [sub EXCEPT ![call[h].acc] = [Activated(@, "custom") EXCEPT !.resold = TRUE]]
  /\ UNCHANGED <<paid, customer, books, outside, history>>

SuspendSub(h) ==
  /\ At(h, "suspend", "sub") /\ End(h)
  /\ IF sub[call[h].acc].resold THEN SetStatus(call[h].acc, "suspended") ELSE UNCHANGED sub
  /\ UNCHANGED <<paid, customer, books, outside, history>>

ReactivateSub(h) ==
  /\ At(h, "reactivate", "sub") /\ End(h)
  /\ sub' = [sub EXCEPT ![call[h].acc] = IF @.resold THEN Activated(@, @.plan) ELSE @]
  /\ UNCHANGED <<paid, customer, books, outside, history>>

-----------------------------------------------------------------------------
Webhook(h) ==
  \/ HookCheck(h) \/ CapturedUser(h) \/ CapturedSub(h) \/ Charged(h)
  \/ FailedHook(h) \/ CancelledHook(h)
Client(h) ==
  \/ UpgradeSub(h) \/ UpgradeUser(h) \/ CountInvoices(h) \/ PlanInvoice(h)
  \/ CancelRead(h) \/ CancelWrite(h)
  \/ PurchaseCredit(h) \/ PurchaseRow(h) \/ CreditInvoice(h) \/ PurchaseStatus(h)
  \/ ResellerRead(h) \/ CustomerWrite(h) \/ AddSub(h) \/ SuspendSub(h) \/ ReactivateSub(h)
Sweep(a) == ExpireTrial(a) \/ ExpirePeriod(a)

BillingNext ==
  \/ \E p \in Payments : Pay(p)
  \/ \E u \in Users : Unsubscribe(u) \/ StartTrial(u)
  \/ \E a \in Accounts : TimePasses(a) \/ Sweep(a)
  \/ \E h \in Handlers :
       \/ Webhook(h) \/ Client(h) \/ Crash(h)
       \/ \E e \in hooks : Deliver(h, e)
       \/ Confirm(h, "upgrade", "plan", "sub") \/ Confirm(h, "purchase", "credits", "credit")
       \/ \E u \in Users :
            \/ CancelOpen(h, u)
            \/ \E op \in {"add", "suspend", "reactivate"} : ResellerOpen(h, op, u)

BillingSpec == BillingInit /\ [][BillingNext]_billingVars

-----------------------------------------------------------------------------
(* Properties *)

\* Invoice numbers come from a count that may be old when it is used; still they
\* run from 1 without a gap and without a repeat.
InvoicesContiguous ==
  {i.no : i \in invoices} = 1..Cardinality(invoices)

\* A credit payment is invoiced at most once, however often it is confirmed, and
\* never without its ledger row.
CreditInvoicedOnce ==
  \A i, j \in invoices :
    Buys[i.pay] = "credits" => /\ i.pay \in ledger
                               /\ i.pay = j.pay => i = j

\* Credits an account has beyond its ledger come from confirmations that were
\* repeated or cut short: the balance covers every row, and no confirmation
\* counts more than once.
BoughtBy(a) == {p \in Payments : Account(Owner[p]) = a /\ Buys[p] = "credits"}
RowsCovered == \A a \in Users : Cardinality(ledger \cap BoughtBy(a)) <= balance[a]
BalanceExplained ==
  /\ RowsCovered
  /\ \A a \in Users : balance[a] <= topUps[a]

\* A payment Razorpay's webhook marked as processed has activated a
\* subscription, unless the process died between the two writes.
MarkedIsActivated ==
  \A p \in Payments :
    AlreadyProcessed(p) /\ Running(p) = {} => granted[p] > 0 \/ p \in torn

\* A plan payment buys one period, and one more for each time its client
\* confirms it, unless two deliveries of its webhook overlapped or another
\* payment took its place as the one remembered.
GrantsExplained ==
  \A p \in Payments : Buys[p] = "plan" => granted[p] <= 1 + tries[p] \/ p \in doubled

\* A subscription that is active and paid for ends early only by a cancellation,
\* a failed payment, a halt or a suspension of its own account.
PaidStaysActive ==
  [][\A a \in Accounts :
       sub[a].status = "active" /\ sub[a].periodEnd = "ahead" /\ sub'[a].status # "active"
         => \E h \in Handlers :
              /\ call[h] # Idle /\ call'[h] = Idle /\ call[h].acc = a /\ call[h].at = "sub"
              /\ call[h].op \in {"failed", "halted", "cancelled", "cancel", "suspend"}]_billingVars

\* What payments buy, however often and in whatever order they are confirmed.
BillingSafe ==
  /\ BillingTypeOK /\ InvoicesContiguous /\ CreditInvoicedOnce /\ BalanceExplained
  /\ MarkedIsActivated /\ GrantsExplained
=============================================================================
