----------------------------- MODULE CustomerRisk -----------------------------
(***************************************************************************)
(* The risk assessment of a customer (calculate_metrics in                 *)
(* customer_360/service.py, calculate_risk_assessment in                   *)
(* risk_engine/service.py).                                                *)
(*                                                                         *)
(* A signal needs evidence for every fact it is computed from: one order,  *)
(* invoice or ticket without evidence silences it, and a data gap has to   *)
(* say so.  The state is what is known about a customer at an instant;     *)
(* steps add a fact, or the evidence that was missing for one kind of      *)
(* them.  One currency stands for all: they are assessed one by one, and   *)
(* only the heaviest signal of a type counts.                              *)
(***************************************************************************)
EXTENDS Integers, FiniteSets

CONSTANTS
  Amounts,     \* what an order may be worth
  MaxRevenue,  \* bound: revenue of one window
  MaxFacts,    \* bound: overdue invoices, and complaints
  MaxTickets,  \* bound: tickets of the last 30 days
  MaxEarlier   \* bound: tickets of the 30 days before

ASSUME RiskAssumption ==
  /\ Amounts \subseteq Nat \ {0}
  /\ MaxRevenue \in Nat
  /\ MaxFacts \in Nat
  /\ MaxTickets \in Nat
  /\ MaxEarlier \in Nat

VARIABLES
  facts,  \* what the customer's records say
  bare    \* kinds of facts of which one has no evidence

riskVars == <<facts, bare>>

---------------------------------------------------------------------------
RiskKinds == {"order", "invoice", "ticket", "complaint"}

---------------------------------------------------------------------------
(* Signals *)

Quiet == "none"

\* A signal of some severity, unless one of its facts lacks evidence.
Evidenced(kinds, severity) == IF kinds \cap bare = {} THEN severity ELSE Quiet

\* A fall of the revenue by a fifth is a decline, by three tenths a high one.
RevenueDecline ==
  CASE facts.prior <= 0                     -> Quiet
    [] 10 * facts.recent <= 7 * facts.prior -> "high"
    [] 10 * facts.recent <= 8 * facts.prior -> "medium"
    [] OTHER                                -> Quiet

PaymentDelay ==
  CASE facts.overdue = 0  -> Quiet
    [] facts.overdue >= 3 -> "high"
    [] OTHER              -> "medium"

\* Tickets of the last 30 days against those of the 30 days before.
TicketIncrease ==
  LET change == facts.tickets - facts.earlier IN
  CASE facts.earlier = 0                                  -> Quiet
    [] change < 3 \/ facts.tickets < 2 * facts.earlier    -> Quiet
    [] change >= 5 \/ facts.tickets >= 3 * facts.earlier  -> "high"
    [] OTHER                                              -> "medium"

DeliveryComplaints ==
  CASE facts.complaints = 0  -> Quiet
    [] facts.complaints >= 3 -> "high"
    [] OTHER                 -> "medium"

Signal == [REVENUE_DECLINE     |-> RevenueDecline,
           PAYMENT_DELAY       |-> PaymentDelay,
           TICKET_INCREASE     |-> TicketIncrease,
           DELIVERY_COMPLAINTS |-> DeliveryComplaints]

\* The facts each signal is computed from; a complaint is a ticket too.
Contributors == [REVENUE_DECLINE     |-> {"order"},
                 PAYMENT_DELAY       |-> {"invoice"},
                 TICKET_INCREASE     |-> {"ticket"},
                 DELIVERY_COMPLAINTS |-> {"complaint"}]

Weight == [REVENUE_DECLINE     |-> [none |-> 0, medium |-> 25, high |-> 35],
           PAYMENT_DELAY       |-> [none |-> 0, medium |-> 20, high |-> 30],
           TICKET_INCREASE     |-> [none |-> 0, medium |-> 15, high |-> 25],
           DELIVERY_COMPLAINTS |-> [none |-> 0, medium |-> 20, high |-> 30]]

Component(type) == Weight[type][Evidenced(Contributors[type], Signal[type])]

Score ==
  LET sum == Component("REVENUE_DECLINE") + Component("PAYMENT_DELAY")
             + Component("TICKET_INCREASE") + Component("DELIVERY_COMPLAINTS")
  IN  IF sum > 100 THEN 100 ELSE sum

Severity(score) ==
  CASE score >= 75 -> "critical"
    [] score >= 50 -> "high"
    [] score >= 25 -> "moderate"
    [] OTHER       -> "low"

\* Mutant of SilencedTypes: complaints without evidence are passed over.
SilencedTypesButComplaints ==
  {type \in DOMAIN Signal \ {"DELIVERY_COMPLAINTS"} :
     Signal[type] # Quiet /\ Contributors[type] \cap bare # {}}

\* Each signal that is silenced is a data gap (missing_risk_evidence).
SilencedTypes ==
  {type \in DOMAIN Signal :
     Signal[type] # Quiet /\ Contributors[type] \cap bare # {}}

\* What there is nothing to compare with is a gap as well.
DataGaps ==
  SilencedTypes
    \cup {gap \in {"missing_revenue_growth_baseline"} :
            facts.recent > 0 /\ facts.prior <= 0}
    \cup {gap \in {"missing_ticket_increase_baseline"} :
            facts.tickets > 0 /\ facts.earlier = 0}

---------------------------------------------------------------------------
(* Facts *)

NoFacts == [recent |-> 0, prior |-> 0, overdue |-> 0, tickets |-> 0,
            earlier |-> 0, complaints |-> 0]

RiskInit ==
  /\ facts = NoFacts
  /\ bare = {}

\* The facts an assessment may show once, with or without evidence.
Learn(known, kinds, evidenced) ==
  /\ facts' = known
  /\ bare' = IF evidenced THEN bare ELSE bare \cup kinds

\* Completed orders with an amount, a currency and a date in the window.
AddRecentOrder(amount, evidenced) ==
  /\ facts.recent + amount <= MaxRevenue
  /\ Learn([facts EXCEPT !.recent = @ + amount], {"order"}, evidenced)

AddPriorOrder(amount, evidenced) ==
  /\ facts.prior + amount <= MaxRevenue
  /\ Learn([facts EXCEPT !.prior = @ + amount], {"order"}, evidenced)

AddOverdueInvoice(evidenced) ==
  /\ facts.overdue < MaxFacts
  /\ Learn([facts EXCEPT !.overdue = @ + 1], {"invoice"}, evidenced)

AddTicket(evidenced) ==
  /\ facts.tickets < MaxTickets
  /\ Learn([facts EXCEPT !.tickets = @ + 1], {"ticket"}, evidenced)

AddEarlierTicket(evidenced) ==
  /\ facts.earlier < MaxEarlier
  /\ Learn([facts EXCEPT !.earlier = @ + 1], {"ticket"}, evidenced)

\* A complaint of the last 60 days counts among the tickets of its window too,
\* one that is older only as a complaint.
AddComplaint(window, evidenced) ==
  LET recent == IF window = "recent" THEN 1 ELSE 0
      former == IF window = "earlier" THEN 1 ELSE 0
  IN
  /\ facts.complaints < MaxFacts
  /\ facts.tickets + recent <= MaxTickets /\ facts.earlier + former <= MaxEarlier
  /\ Learn([facts EXCEPT !.complaints = @ + 1, !.tickets = @ + recent,
                         !.earlier = @ + former],
           IF window = "older" THEN {"complaint"} ELSE {"complaint", "ticket"}, evidenced)

FindEvidence(kind) ==
  /\ kind \in bare
  /\ bare' = bare \ {kind}
  /\ UNCHANGED facts

RiskNext ==
  \/ \E evidenced \in BOOLEAN :
       \/ \E amount \in Amounts :
            AddRecentOrder(amount, evidenced) \/ AddPriorOrder(amount, evidenced)
       \/ AddOverdueInvoice(evidenced)
       \/ AddTicket(evidenced)
       \/ AddEarlierTicket(evidenced)
       \/ \E window \in {"recent", "earlier", "older"} :
            AddComplaint(window, evidenced)
  \/ \E kind \in RiskKinds : FindEvidence(kind)

RiskSpec == RiskInit /\ [][RiskNext]_riskVars

---------------------------------------------------------------------------
(* Properties *)

\* Types.
RiskTypeOK ==
  /\ facts \in [recent : 0 .. MaxRevenue, prior : 0 .. MaxRevenue,
                overdue : 0 .. MaxFacts, tickets : 0 .. MaxTickets,
                earlier : 0 .. MaxEarlier, complaints : 0 .. MaxFacts]
  /\ bare \subseteq RiskKinds
  /\ Score \in 0 .. 100
  /\ Severity(Score) \in {"low", "moderate", "high", "critical"}

\* Bad news never makes a customer look better without saying why: when an
\* overdue invoice, a recent ticket, a complaint, the loss of earlier revenue
\* or newly found evidence lowers the score, a data gap appears with it.
ScoreFallsOpenly ==
  [][/\ facts'.recent = facts.recent
     /\ facts'.earlier = facts.earlier
     /\ Score' < Score
     => DataGaps' \ DataGaps # {}]_riskVars
=============================================================================
