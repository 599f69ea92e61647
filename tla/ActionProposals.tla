--------------------------- MODULE ActionProposals ---------------------------
(***************************************************************************)
(* Proposals of writes to an external system: proposed, approved by        *)
(* somebody else, executed (apps/api/src/company_brain/api/                *)
(* action_proposals.py, with the triggers of migration 545c74fcdca1).      *)
(*                                                                         *)
(* A request authenticates first and keeps the role it read; the row lock  *)
(* of the proposal may let it wait; the triggers look the role up again    *)
(* when the row is written.  An execution calls the connector while it     *)
(* holds the row lock and before anything is committed, so what the        *)
(* external system did and what the row says can come apart.               *)
(***************************************************************************)
EXTENDS Integers, FiniteSets

CONSTANTS
  Proposals,  \* proposals of a workspace
  Users,      \* members and former members of the workspace
  Callers,    \* requests in progress at the same time
  MaxLost,    \* bound: executions of a proposal that end without a record
  Nobody      \* no user; no request

ASSUME ProposalAssumption ==
  /\ MaxLost \in Nat
  /\ Nobody \notin Users
  /\ Nobody \notin Callers

VARIABLES
  role,       \* memberships: the role of each user
  proposal,   \* action_proposals
  audit,      \* action_audits: events of a proposal with their actors
  caller,     \* requests in progress
  lock,       \* holder of a proposal's row lock
  applied,    \* external: the system applied the write of this key
  calls,      \* observed: calls of the connector for the proposal
  lost,       \* observed: calls whose request ended without a record
  grantedAs   \* observed: role the approver had when the approval was saved

observed == <<calls, lost, grantedAs>>
actionsVars == <<role, proposal, audit, caller, lock, applied, observed>>

---------------------------------------------------------------------------
Roles      == {"owner", "admin", "editor", "viewer", "none"}
Operations == {"update_record", "delete_record"}
Terminal   == {"executed", "failed"}

\* Who may approve what: the API checks the role of the request, the trigger
\* the current one.
Approvers(operation) ==
  IF operation = "delete_record" THEN {"owner"} ELSE {"owner", "admin"}

Executors == {"owner", "admin"}
Writers   == {"owner", "admin", "editor"}

ProposalRow ==
  [status : {"absent", "pending", "approved"} \cup Terminal,
   operation : Operations, requester : Users \cup {Nobody},
   approver : Users \cup {Nobody}, executor : Users \cup {Nobody}]

Caller ==
  [pc : {"idle", "create", "approve", "execute", "calling", "answered"},
   user : Users \cup {Nobody}, role : Roles, on : Proposals \cup {Nobody},
   answer : {"none", "ok", "error"}]

NoCaller == [pc |-> "idle", user |-> Nobody, role |-> "none", on |-> Nobody,
              answer |-> "none"]

Events == {"proposed", "approved", "execution_succeeded", "execution_failed"}

ActionsInit ==
  /\ role \in [Users -> Roles]
  /\ proposal = [p \in Proposals |->
       [status |-> "absent", operation |-> "update_record",
        requester |-> Nobody, approver |-> Nobody, executor |-> Nobody]]
  /\ audit = [p \in Proposals |-> {}]
  /\ caller = [q \in Callers |-> NoCaller]
  /\ lock = [p \in Proposals |-> Nobody]
  /\ applied = [p \in Proposals |-> FALSE]
  /\ calls = [p \in Proposals |-> 0]
  /\ lost = [p \in Proposals |-> 0]
  /\ grantedAs = [p \in Proposals |-> "none"]

---------------------------------------------------------------------------
\* get_principal: the role is read once, before any row is locked.
Authenticate(q, u, kind, on) ==
  /\ caller[q].pc = "idle"
  /\ role[u] # "none"
  /\ caller' = [caller EXCEPT ![q] =
       [pc |-> kind, user |-> u, role |-> role[u], on |-> on, answer |-> "none"]]
  /\ UNCHANGED <<role, proposal, audit, lock, applied, observed>>

End(q) ==
  /\ caller' = [caller EXCEPT ![q] = NoCaller]
  /\ lock' = [p \in Proposals |-> IF lock[p] = q THEN Nobody ELSE lock[p]]

Log(p, event, u) ==
  audit' = [audit EXCEPT ![p] = @ \cup {[event |-> event, actor |-> u]}]

CreateProposal(q, p, operation) ==
  LET r == caller[q] IN
  /\ r.pc = "create"
  /\ proposal[p].status = "absent"
  /\ r.role \in Writers
  /\ role[r.user] \in Writers
  /\ proposal' = [proposal EXCEPT ![p] =
       [status |-> "pending", operation |-> operation, requester |-> r.user,
        approver |-> Nobody, executor |-> Nobody]]
  /\ Log(p, "proposed", r.user)
  /\ End(q)
  /\ UNCHANGED <<role, applied, observed>>

\* Mutant of LockFree: the proposal is read without FOR UPDATE.
LockFreeAlways(p) == TRUE

LockFree(p) == lock[p] = Nobody

MayApprove(q) ==
  LET r == caller[q] IN
  /\ proposal[r.on].status = "pending"
  /\ proposal[r.on].requester # r.user
  /\ r.role \in Approvers(proposal[r.on].operation)

\* enforce_action_proposal_state, an approval: the role at the write.
ApprovalStands(q) ==
  LET r == caller[q] IN
  role[r.user] \in Approvers(proposal[r.on].operation)

ApproveProposal(q) ==
  LET r == caller[q] IN
  /\ r.pc = "approve"
  /\ LockFree(r.on)
  /\ MayApprove(q)
  /\ ApprovalStands(q)
  /\ proposal' = [proposal EXCEPT ![r.on].status = "approved",
                                  ![r.on].approver = r.user]
  /\ Log(r.on, "approved", r.user)
  /\ grantedAs' = [grantedAs EXCEPT ![r.on] = role[r.user]]
  /\ End(q)
  /\ UNCHANGED <<role, applied, calls, lost>>

\* Mutants of MayExecute: a finished proposal is executed again; an
\* unapproved one is executed.
MayExecuteAgain(q) ==
  /\ proposal[caller[q].on].status \notin {"absent", "pending"}
  /\ caller[q].role \in Executors
MayExecutePending(q) ==
  /\ proposal[caller[q].on].status \in {"pending", "approved"}
  /\ caller[q].role \in Executors

MayExecute(q) ==
  /\ proposal[caller[q].on].status = "approved"
  /\ caller[q].role \in Executors

StartExecution(q) ==
  LET r == caller[q] IN
  /\ r.pc = "execute"
  /\ LockFree(r.on)
  /\ MayExecute(q)
  /\ lock' = [lock EXCEPT ![r.on] = q]
  /\ caller' = [caller EXCEPT ![q].pc = "calling"]
  /\ UNCHANGED <<role, proposal, audit, applied, observed>>

\* The system may apply the write and still answer with an error; a second
\* call with the same key changes nothing more.
CallConnector(q, answer) ==
  LET r == caller[q] IN
  /\ r.pc = "calling"
  /\ caller' = [caller EXCEPT ![q].pc = "answered", ![q].answer = answer]
  /\ calls' = [calls EXCEPT ![r.on] = @ + 1]
  /\ \/ applied' = [applied EXCEPT ![r.on] = TRUE]
     \/ answer = "error" /\ UNCHANGED applied
  /\ UNCHANGED <<role, proposal, audit, lock, lost, grantedAs>>

\* enforce_action_proposal_state, an execution: the role at the write.
ExecutionStands(q) == role[caller[q].user] \in Executors

RecordExecution(q) ==
  LET r == caller[q]
      status == IF r.answer = "ok" THEN "executed" ELSE "failed"
  IN
  /\ r.pc = "answered"
  /\ ExecutionStands(q)
  /\ proposal' = [proposal EXCEPT ![r.on].status = status,
                                  ![r.on].executor = r.user]
  /\ Log(r.on, IF r.answer = "ok" THEN "execution_succeeded"
                                  ELSE "execution_failed", r.user)
  /\ End(q)
  /\ UNCHANGED <<role, applied, observed>>

\* The request is answered 403 or 409, or the trigger refuses its row.
Refuse(q) ==
  LET r == caller[q] IN
  /\ \/ r.pc = "create" /\ ~({r.role, role[r.user]} \subseteq Writers)
     \/ /\ r.pc = "approve" /\ LockFree(r.on)
        /\ ~(MayApprove(q) /\ ApprovalStands(q))
     \/ r.pc = "execute" /\ LockFree(r.on) /\ ~MayExecute(q)
  /\ End(q)
  /\ UNCHANGED <<role, proposal, audit, applied, observed>>

\* An execution that called the connector ends without a record: the
\* trigger refuses the row, the commit fails or the process dies.
LoseExecution(q) ==
  LET r == caller[q] IN
  /\ r.pc = "answered"
  /\ lost[r.on] < MaxLost
  /\ lost' = [lost EXCEPT ![r.on] = @ + 1]
  /\ End(q)
  /\ UNCHANGED <<role, proposal, audit, applied, calls, grantedAs>>

CallerDies(q) ==
  /\ caller[q].pc \in {"create", "approve", "execute", "calling"}
  /\ End(q)
  /\ UNCHANGED <<role, proposal, audit, applied, observed>>

\* An administrator changes a membership in the database.
ChangeRole(u, to) ==
  /\ role[u] # to
  /\ role' = [role EXCEPT ![u] = to]
  /\ UNCHANGED <<proposal, audit, caller, lock, applied, observed>>

---------------------------------------------------------------------------
CallerStep(q) ==
  \/ \E u \in Users : Authenticate(q, u, "create", Nobody)
  \/ \E u \in Users, kind \in {"approve", "execute"}, p \in Proposals :
       Authenticate(q, u, kind, p)
  \/ \E p \in Proposals, operation \in Operations :
       CreateProposal(q, p, operation)
  \/ ApproveProposal(q)
  \/ StartExecution(q)
  \/ \E answer \in {"ok", "error"} : CallConnector(q, answer)
  \/ RecordExecution(q)
  \/ Refuse(q)
  \/ LoseExecution(q)
  \/ CallerDies(q)

ActionsNext ==
  \/ \E q \in Callers : CallerStep(q)
  \/ \E u \in Users, to \in Roles : ChangeRole(u, to)

ActionsSpec == ActionsInit /\ [][ActionsNext]_actionsVars

\* The audit that require_action_proposal_audit demands with each change of a
\* row, from its creation to its status.
EventsOf(row) ==
  (IF row.status = "absent" THEN {}
     ELSE {[event |-> "proposed", actor |-> row.requester]})
  \cup (IF row.status \in {"absent", "pending"} THEN {}
     ELSE {[event |-> "approved", actor |-> row.approver]})
  \cup (IF row.status = "executed"
     THEN {[event |-> "execution_succeeded", actor |-> row.executor]} ELSE {})
  \cup (IF row.status = "failed"
     THEN {[event |-> "execution_failed", actor |-> row.executor]} ELSE {})

---------------------------------------------------------------------------
(* Properties *)

ActionsTypeOK ==
  /\ role \in [Users -> Roles]
  /\ proposal \in [Proposals -> ProposalRow]
  /\ audit \in [Proposals -> SUBSET [event : Events, actor : Users]]
  /\ caller \in [Callers -> Caller]
  /\ lock \in [Proposals -> Callers \cup {Nobody}]
  /\ applied \in [Proposals -> BOOLEAN]
  /\ calls \in [Proposals -> Nat]
  /\ lost \in [Proposals -> 0 .. MaxLost]
  /\ grantedAs \in [Proposals -> Executors \cup {"none"}]

\* The external system is only ever called for a proposal that a different
\* member approved who held the role for it when the approval was saved,
\* however late the approver's own request noticed a change of role.
CallsAreAuthorized ==
  \A p \in Proposals : calls[p] > 0 =>
    /\ proposal[p].approver \notin {Nobody, proposal[p].requester}
    /\ grantedAs[p] \in Approvers(proposal[p].operation)

\* Calls for one proposal never overlap, and a call is only repeated when
\* the previous one was lost: a proposal that has its outcome was called
\* once more than it lost calls, whoever retried it at the same time.
CallsFollowLosses ==
  \A p \in Proposals :
    LET open == {q \in Callers : caller[q].on = p /\ caller[q].pc = "answered"}
    IN calls[p] = lost[p] + Cardinality(open)
                  + (IF proposal[p].status \in Terminal THEN 1 ELSE 0)

\* The row never claims an effect the system does not have, and the audit
\* tells exactly the life of the row: its events are those of its status,
\* each by the actor the row names.
RecordsAreTrue ==
  \A p \in Proposals :
    LET row == proposal[p] IN
    /\ row.status = "executed" => applied[p]
    /\ audit[p] = EventsOf(row)

\* "stale/repeated execution returns 409 without a second connector call"
\* (docs/api-spec.md): the connector is called at most once per proposal.
NoSecondConnectorCall == \A p \in Proposals : calls[p] <= 1
=============================================================================
