------------------------------- MODULE Billing -------------------------------
(***************************************************************************)
(* BillingService for one organization: subscriptions and their invoices,  *)
(* the periodic sweep that confirms payments, renews and duns, grace and   *)
(* suspension, and what an administrator and the payer do meanwhile.       *)
(* Invoices are numbered in the order they are made, hence of their due    *)
(* dates.  Names that other components have too begin with the component's,*)
(* so that a module can extend both.                                       *)
(***************************************************************************)
EXTENDS Naturals, Sequences, FiniteSets

CONSTANTS
  Owners,           \* requests to subscribe
  Sweepers,         \* billing sweeps that may run at once
  MaxInvoices,      \* bound on the invoices
  MaxFree,          \* bound on subscriptions to the free plan
  MaxOrders,        \* bound on what the administrator does
  MaxBillFaults     \* bound on crashes and failed calls

ASSUME BillingAssumption ==
  /\ Owners \cap Sweepers = {}
  /\ {MaxInvoices, MaxFree, MaxOrders, MaxBillFaults} \subseteq Nat

VARIABLES
  invoice,  \* Invoice.status, "none" before there is one
  qr,       \* invoices with a KHQR: without it nobody can pay or poll
  age,      \* 0: not yet due, 1: overdue, 2: overdue and past the grace days
  received, \* invoices the payer has paid at the bank
  revenue,  \* invoices with a subscription.collected journal
  subs,     \* the Subscription table
  org,      \* Organization.status
  grace,    \* Organization.graceUntil, as the invoice it was reckoned from
  billPc,
  todo,     \* invoices a sweep has yet to poll
  inv,      \* the invoice it works on, 0 for none
  old,      \* the subscriptions its transaction has found to cancel
  orders,
  billFaults

billingVars == <<invoice, qr, age, received, revenue, subs, org, grace, billPc, todo, inv, old,
                 orders, billFaults>>

Invoices == 1 .. MaxInvoices
Procs    == Owners \cup Sweepers

bills   == <<invoice, qr, age, received, revenue>>
account == <<subs, org, grace>>
local   == <<todo, inv, old>>
bounds  == <<orders, billFaults>>

(* A subscription to the free plan has no invoice: its source is 0.        *)
Sub(s, i) == [status |-> s, source |-> i, lapsed |-> FALSE]

BillingInit ==
  /\ invoice = [i \in Invoices |-> "none"]
  /\ qr = {}
  /\ age = [i \in Invoices |-> 0]
  /\ received = {}
  /\ revenue = {}
  /\ subs = <<>>
  /\ org = "ACTIVE"
  /\ grace = 0
  /\ billPc = [x \in Procs |-> "idle"]
  /\ todo = [x \in Procs |-> {}]
  /\ inv = [x \in Procs |-> 0]
  /\ old = [x \in Procs |-> {}]
  /\ orders = 0
  /\ billFaults = 0

BillGoto(x, l) == billPc' = [billPc EXCEPT ![x] = l]

BillFault == billFaults < MaxBillFaults /\ billFaults' = billFaults + 1

Open    == {i \in Invoices : invoice[i] = "open"}
Overdue == {i \in Open : age[i] > 0}
Current == {k \in DOMAIN subs : subs[k].status \in {"ACTIVE", "PAST_DUE"}}
Due     == {k \in DOMAIN subs : subs[k].status = "ACTIVE" /\ subs[k].source > 0 /\ subs[k].lapsed}

-----------------------------------------------------------------------------
(* Time, the payer and the administrator.                                  *)

(* Earlier invoices are due earlier.                                       *)
Age(i) ==
  /\ invoice[i] # "none"
  /\ age[i] < 2
  /\ \A j \in 1 .. i - 1 : age[j] > age[i] \/ age[j] = 2
  /\ age' = [age EXCEPT ![i] = @ + 1]
  /\ UNCHANGED <<invoice, qr, received, revenue, account, billPc, local, bounds>>

Lapse(k) ==
  /\ ~subs[k].lapsed
  /\ subs' = [subs EXCEPT ![k].lapsed = TRUE]
  /\ UNCHANGED <<bills, org, grace, billPc, local, bounds>>

Pay(i) ==
  /\ i \in qr
  /\ received' = received \cup {i}
  /\ UNCHANGED <<invoice, qr, age, revenue, account, billPc, local, bounds>>

(* AdminService.setSuspended: a reinstatement clears the grace period.     *)
SetSuspended(b) ==
  /\ orders < MaxOrders
  /\ orders' = orders + 1
  /\ org' = IF b THEN "SUSPENDED" ELSE "ACTIVE"
  /\ grace' = IF b THEN grace ELSE 0
  /\ UNCHANGED <<bills, subs, billPc, local, billFaults>>

-----------------------------------------------------------------------------
(* subscribe, and the invoice it shares with the renewal.                  *)

SubscribeFree(x) ==
  /\ billPc[x] = "idle"
  /\ Cardinality({k \in DOMAIN subs : subs[k].source = 0}) < MaxFree
  /\ inv' = [inv EXCEPT ![x] = 0]
  /\ BillGoto(x, "find")
  /\ UNCHANGED <<bills, account, todo, old, bounds>>

(* The bound has room for one more invoice.                                *)
Spare == Cardinality({i \in Invoices : invoice[i] = "none"})
           > Cardinality({x \in Procs : billPc[x] = "create"})

SubscribePaid(x) ==
  /\ billPc[x] = "idle"
  /\ Spare
  /\ BillGoto(x, "create")
  /\ UNCHANGED <<bills, account, local, bounds>>

CreateInvoice(x) ==
  /\ billPc[x] = "create"
  /\ \E i \in Invoices :
       /\ invoice[i] = "none"
       /\ \A j \in 1 .. i - 1 : invoice[j] # "none"
       /\ invoice' = [invoice EXCEPT ![i] = "open"]
       /\ inv' = [inv EXCEPT ![x] = i]
  /\ BillGoto(x, "khqr")
  /\ UNCHANGED <<qr, age, received, revenue, account, todo, old, bounds>>

AttachQr(x) ==
  /\ billPc[x] = "khqr"
  /\ qr' = qr \cup {inv[x]}
  /\ BillGoto(x, IF x \in Sweepers THEN "dun" ELSE "idle")
  /\ UNCHANGED <<invoice, age, received, revenue, account, local, bounds>>

-----------------------------------------------------------------------------
(* The sweep: confirm.                                                     *)

Begin(s) ==
  /\ billPc[s] = "idle"
  /\ todo' = [todo EXCEPT ![s] = Open \cap qr]
  /\ BillGoto(s, "poll")
  /\ UNCHANGED <<bills, account, inv, old, bounds>>

(* Mutant: the provider is asked only about invoices that are not yet due. *)
PollUndue(s) ==
  /\ billPc[s] = "poll"
  /\ \E i \in todo[s] :
       /\ todo' = [todo EXCEPT ![s] = @ \ {i}]
       /\ inv' = [inv EXCEPT ![s] = i]
       /\ BillGoto(s, IF i \in received /\ age[i] = 0 THEN "check" ELSE "poll")
  /\ UNCHANGED <<bills, account, old, bounds>>

Poll(s) ==
  /\ billPc[s] = "poll"
  /\ \E i \in todo[s] :
       /\ todo' = [todo EXCEPT ![s] = @ \ {i}]
       /\ inv' = [inv EXCEPT ![s] = i]
       /\ BillGoto(s, IF i \in received THEN "check" ELSE "poll")
  /\ UNCHANGED <<bills, account, old, bounds>>

PollDone(s) ==
  /\ billPc[s] = "poll"
  /\ todo[s] = {}
  /\ BillGoto(s, "renew")
  /\ UNCHANGED <<bills, account, local, bounds>>

(* activateFromInvoice.                                                    *)
CheckInvoice(s) ==
  /\ billPc[s] = "check"
  /\ BillGoto(s, IF invoice[inv[s]] = "paid" THEN "poll" ELSE "mark")
  /\ UNCHANGED <<bills, account, local, bounds>>

MarkPaid(s) ==
  /\ billPc[s] = "mark"
  /\ invoice' = [invoice EXCEPT ![inv[s]] = "paid"]
  /\ BillGoto(s, "find")
  /\ UNCHANGED <<qr, age, received, revenue, account, local, bounds>>

(* activatePlan: the statement that cancels sees the subscriptions that    *)
(* are committed when it starts.                                           *)
FindCurrent(x) ==
  /\ billPc[x] = "find"
  /\ old' = [old EXCEPT ![x] = Current]
  /\ BillGoto(x, "activate")
  /\ UNCHANGED <<bills, account, todo, inv, bounds>>

ActivatePlan(x) ==
  /\ billPc[x] = "activate"
  /\ subs' = Append([k \in DOMAIN subs |->
                       IF k \in old[x] THEN [subs[k] EXCEPT !.status = "CANCELLED"] ELSE subs[k]],
                    Sub("ACTIVE", inv[x]))
  /\ org' = "ACTIVE"
  /\ grace' = 0
  /\ BillGoto(x, IF x \in Sweepers THEN "revenue" ELSE "idle")
  /\ UNCHANGED <<bills, local, bounds>>

PostRevenue(s) ==
  /\ billPc[s] = "revenue"
  /\ revenue' = revenue \cup {inv[s]}
  /\ BillGoto(s, "poll")
  /\ UNCHANGED <<invoice, qr, age, received, account, local, bounds>>

(* An error is swallowed invoice by invoice.                               *)
ConfirmFails(s) ==
  /\ billPc[s] \in {"check", "mark", "find", "activate", "revenue"}
  /\ BillFault
  /\ BillGoto(s, "poll")
  /\ UNCHANGED <<bills, account, local, orders>>

-----------------------------------------------------------------------------
(* The sweep: renew.                                                       *)

FindDue(s) ==
  /\ billPc[s] = "renew"
  /\ BillGoto(s, IF Due # {} THEN "count" ELSE "dun")
  /\ UNCHANGED <<bills, account, local, bounds>>

(* Mutant: an invoice of any status counts.                                *)
AnyInvoice == \A i \in Invoices : invoice[i] = "none"

NoneOpen == Open = {}

CountOpen(s) ==
  /\ billPc[s] = "count"
  /\ BillGoto(s, IF NoneOpen /\ Spare THEN "create" ELSE "dun")
  /\ UNCHANGED <<bills, account, local, bounds>>

-----------------------------------------------------------------------------
(* The sweep: dun.                                                         *)

(* The oldest overdue invoice.                                             *)
FindOverdue(s) ==
  /\ billPc[s] = "dun"
  /\ IF Overdue = {}
       THEN BillGoto(s, "idle") /\ UNCHANGED inv
       ELSE /\ inv' = [inv EXCEPT ![s] = CHOOSE i \in Overdue : \A j \in Overdue : i <= j]
            /\ BillGoto(s, "org")
  /\ UNCHANGED <<bills, account, todo, old, bounds>>

GraceOver == grace > 0 /\ age[grace] = 2

(* Mutant: the grace days are not waited for.                              *)
ReadOrgAtOnce(s) ==
  /\ billPc[s] = "org"
  /\ BillGoto(s, CASE grace = 0      -> "pastdue"
                 [] org = "ACTIVE" -> "suspend"
                 [] OTHER          -> "idle")
  /\ UNCHANGED <<bills, account, local, bounds>>

(* Mutant: every sweep reckons the grace period anew.                      *)
ReadOrgAnew(s) ==
  /\ billPc[s] = "org"
  /\ BillGoto(s, "pastdue")
  /\ UNCHANGED <<bills, account, local, bounds>>

ReadOrg(s) ==
  /\ billPc[s] = "org"
  /\ BillGoto(s, CASE grace = 0                     -> "pastdue"
                 [] GraceOver /\ org = "ACTIVE"   -> "suspend"
                 [] OTHER                         -> "idle")
  /\ UNCHANGED <<bills, account, local, bounds>>

PastDue(s) ==
  /\ billPc[s] = "pastdue"
  /\ subs' = [k \in DOMAIN subs |->
                IF subs[k].status = "ACTIVE" THEN [subs[k] EXCEPT !.status = "PAST_DUE"] ELSE subs[k]]
  /\ grace' = inv[s]
  /\ BillGoto(s, "idle")
  /\ UNCHANGED <<bills, org, local, bounds>>

Suspend(s) ==
  /\ billPc[s] = "suspend"
  /\ org' = "SUSPENDED"
  /\ BillGoto(s, "idle")
  /\ UNCHANGED <<bills, subs, grace, local, bounds>>

(* Any other error, createKhqr's too, ends the sweep or the request; or    *)
(* the process dies.                                                       *)
BillingDies(x) ==
  /\ billPc[x] # "idle"
  /\ BillFault
  /\ BillGoto(x, "idle")
  /\ UNCHANGED <<bills, account, local, orders>>

-----------------------------------------------------------------------------
Sweep(s) ==
  \/ Begin(s)
  \/ Poll(s)
  \/ PollDone(s)
  \/ CheckInvoice(s)
  \/ MarkPaid(s)
  \/ PostRevenue(s)
  \/ FindDue(s)
  \/ CountOpen(s)
  \/ FindOverdue(s)
  \/ ReadOrg(s)
  \/ PastDue(s)
  \/ Suspend(s)

Either(x) ==
  \/ CreateInvoice(x)
  \/ AttachQr(x)
  \/ FindCurrent(x)
  \/ ActivatePlan(x)

BillingNext ==
  \/ \E i \in Invoices : Age(i) \/ Pay(i)
  \/ \E k \in DOMAIN subs : Lapse(k)
  \/ \E b \in BOOLEAN : SetSuspended(b)
  \/ \E x \in Owners : SubscribeFree(x) \/ SubscribePaid(x)
  \/ \E s \in Sweepers : Sweep(s) \/ ConfirmFails(s)
  \/ \E x \in Procs : Either(x) \/ BillingDies(x)

BillingSpec == BillingInit /\ [][BillingNext]_billingVars

(* The sweep is a repeated job, and time passes.                           *)
FairBillingSpec ==
  /\ BillingSpec
  /\ \A s \in Sweepers : WF_billingVars(Sweep(s) \/ Either(s))
  /\ \A x \in Owners : WF_billingVars(Either(x))
  /\ \A i \in Invoices : WF_billingVars(Age(i))

-----------------------------------------------------------------------------
(* Properties.                                                             *)

BillingTypeOK ==
  /\ invoice \in [Invoices -> {"none", "open", "paid"}]
  /\ qr \subseteq Invoices
  /\ age \in [Invoices -> 0 .. 2]
  /\ received \subseteq Invoices
  /\ revenue \subseteq Invoices
  /\ subs \in Seq([status : {"ACTIVE", "PAST_DUE", "CANCELLED"}, source : 0 .. MaxInvoices,
                   lapsed : BOOLEAN])
  /\ org \in {"ACTIVE", "SUSPENDED"}
  /\ grace \in 0 .. MaxInvoices
  /\ billPc \in [Procs -> {"idle", "create", "khqr", "poll", "check", "mark", "find", "activate",
                       "revenue", "renew", "count", "dun", "org", "pastdue", "suspend"}]
  /\ todo \in [Procs -> SUBSET Invoices]
  /\ inv \in [Procs -> 0 .. MaxInvoices]
  /\ old \in [Procs -> SUBSET DOMAIN subs]
  /\ orders \in 0 .. MaxOrders
  /\ billFaults \in 0 .. MaxBillFaults

Activated(i) == \E k \in DOMAIN subs : subs[k].source = i

(* "Your plan activates once payment is confirmed": who pays an invoice at *)
(* the bank gets the plan and the ledger the revenue, however late the     *)
(* sweep finds out, unless a call failed or a process died.                *)
PaidIsActivated ==
  \A i \in Invoices : (i \in received) ~> (billFaults > 0 \/ (Activated(i) /\ i \in revenue))

(* An invoice that stays open past its grace days ends in a suspension, in *)
(* spite of crashes, of other invoices paid in between, of a return to the *)
(* free plan and of an administrator who reinstates the organization.      *)
DebtSuspends ==
  \A i \in Invoices :
    (invoice[i] = "open" /\ age[i] = 2) ~> (invoice[i] = "paid" \/ org = "SUSPENDED")

(* A paid subscription whose period has ended is billed again, or is no    *)
(* longer the active one.                                                  *)
LapsedIsBilled == (Due # {}) ~> (Due = {} \/ Open # {} \/ ~Spare)

(* The sweep suspends only for an overdue invoice, and unless something    *)
(* failed only for one that had its grace days: the grace of an invoice    *)
(* that was paid is not used up for the next.                              *)
SuspendedForDebt ==
  [][\A s \in Sweepers :
       billPc[s] = "suspend" /\ org = "ACTIVE" /\ org' = "SUSPENDED" /\ orders' = orders
       => /\ Overdue # {}
          /\ billFaults = 0 => \E i \in Overdue : age[i] = 2]_billingVars

(* An organization has one current subscription.                           *)
OneCurrent == Cardinality(Current) <= 1

(* Nobody is suspended for an invoice that cannot be paid.                 *)
DebtIsPayable == org = "SUSPENDED" /\ orders = 0 => Overdue \cap qr # {}
=============================================================================
