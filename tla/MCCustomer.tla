----------------------------- MODULE MCCustomer -----------------------------
(***************************************************************************)
(* Instance of CustomerReports and CustomerRisk for TLC.  The report reads *)
(* what the assessment is computed from; either of them runs, the other    *)
(* stands still.                                                           *)
(***************************************************************************)
EXTENDS CustomerReports, CustomerRisk

VARIABLE part  \* the part that runs

MCVars == <<part, reportsVars, riskVars>>

MCInit ==
  /\ part \in {"reports", "risk"}
  /\ ReportsInit
  /\ RiskInit

MCNext ==
  \/ /\ part = "reports"
     /\ ReportsNext
     /\ UNCHANGED <<part, riskVars>>
  \/ /\ part = "risk"
     /\ RiskNext
     /\ UNCHANGED <<part, reportsVars>>

MCSpec == MCInit /\ [][MCNext]_MCVars
=============================================================================
