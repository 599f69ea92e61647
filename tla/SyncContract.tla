---------------------------- MODULE SyncContract ----------------------------
(***************************************************************************)
(* What the sync of a saved MCP connection promises, without leases,       *)
(* attempts, threads or clocks: every requested resource of a run is       *)
(* decided once and for good, a run is closed once, with an outcome that   *)
(* follows from all its decisions, and a resource's text is staged for     *)
(* review only when it differs from the text staged last, never going back *)
(* to an older version.                                                    *)
(***************************************************************************)
EXTENDS Integers

CONSTANTS Runs, Uris, Requested, Versions, TextAt

VARIABLES
  decision,  \* decision[r][u]: what run r decided about resource u
  outcome,   \* outcome[r]: how run r was closed
  latest,    \* latest[u]: version staged last, -1 if none
  staged     \* staged[u]: how many intakes were staged for review

cvars == <<decision, outcome, latest, staged>>

CInit ==
  /\ decision = [r \in Runs |-> [u \in Uris |-> "open"]]
  /\ outcome = [r \in Runs |-> "open"]
  /\ latest = [u \in Uris |-> -1]
  /\ staged = [u \in Uris |-> 0]

\* Each step names its effect before its conditions, for the same reason as CStep.
StageNewer(u, v) ==
  /\ staged' = [staged EXCEPT ![u] = @ + 1]
  /\ latest' = [latest EXCEPT ![u] = v]
  /\ v > latest[u]
  /\ latest[u] # -1 => TextAt[u][latest[u]] # TextAt[u][v]
  /\ UNCHANGED <<decision, outcome>>

\* Content is only vouched for when some of it has been staged.
Decide(r, u, d) ==
  /\ decision' = [decision EXCEPT ![r][u] = d]
  /\ outcome[r] = "open"
  /\ decision[r][u] = "open"
  /\ d # "failed" => latest[u] # -1
  /\ UNCHANGED <<outcome, latest, staged>>

Close(r, o) ==
  /\ outcome' = [outcome EXCEPT ![r] = o]
  /\ outcome[r] = "open"
  /\ \A u \in Requested[r] : decision[r][u] # "open"
  /\ o = "failed" <=> \E u \in Requested[r] : decision[r][u] = "failed"
  /\ UNCHANGED <<decision, latest, staged>>

CNext ==
  \/ \E u \in Uris, v \in Versions : StageNewer(u, v)
  \/ \E r \in Runs, u \in Uris, d \in {"changed", "unchanged", "failed"} :
       Decide(r, u, d)
  \/ \E r \in Runs, o \in {"succeeded", "failed"} : Close(r, o)

\* Most steps of an implementation leave the promise alone: asked first, as it is
\* the cheapest question of a step that is already given.
CStep == UNCHANGED cvars \/ CNext

CSpec == CInit /\ [][CStep]_cvars
=============================================================================
