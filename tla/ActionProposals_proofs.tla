----------------------- MODULE ActionProposals_proofs -----------------------
(***************************************************************************)
(* Proofs about ActionProposals: that every call of the connector was      *)
(* approved, that calls follow losses and that the rows and the audit are  *)
(* true, for every number of proposals, users and requests.                *)
(***************************************************************************)
EXTENDS ActionProposals, FiniteSetTheorems, TLAPS

---------------------------------------------------------------------------
(* Type correctness *)

\* A request in progress has a member, and a proposal once it is past creation.
CallersKnown ==
  \A q \in Callers :
    /\ caller[q].pc # "idle" => caller[q].user \in Users
    /\ caller[q].pc \notin {"idle", "create"} => caller[q].on \in Proposals

TypeInv == ActionsTypeOK /\ CallersKnown

LEMMA CallerUpdates ==
  ASSUME NEW r \in Caller, NEW answer \in {"ok", "error"}
  PROVE  /\ NoCaller \in Caller
         /\ [r EXCEPT !.pc = "calling"] \in Caller
         /\ [r EXCEPT !.pc = "answered", !.answer = answer] \in Caller
BY DEF Caller, NoCaller, Roles

LEMMA RowUpdates ==
  ASSUME NEW row \in ProposalRow, NEW u \in Users
  PROVE  /\ [row EXCEPT !.status = "approved", !.approver = u] \in ProposalRow
         /\ \A s \in Terminal : [row EXCEPT !.status = s, !.executor = u] \in ProposalRow
BY DEF ProposalRow, Terminal

LEMMA EndType ==
  ASSUME TypeInv, NEW q \in Callers, End(q)
  PROVE  /\ caller' \in [Callers -> Caller]
         /\ lock' \in [Proposals -> Callers \cup {Nobody}]
         /\ CallersKnown'
<1>1. caller' \in [Callers -> Caller]
  <2>1. NoCaller \in Caller
    BY DEF Caller, NoCaller, Roles
  <2> QED
    BY <2>1 DEF TypeInv, ActionsTypeOK, End
<1>2. lock' \in [Proposals -> Callers \cup {Nobody}]
  BY DEF TypeInv, ActionsTypeOK, End
<1>3. CallersKnown'
  BY DEF TypeInv, ActionsTypeOK, CallersKnown, End, NoCaller
<1> QED
  BY <1>1, <1>2, <1>3

LEMMA LogType ==
  ASSUME audit \in [Proposals -> SUBSET [event : Events, actor : Users]],
         NEW p \in Proposals, NEW event \in Events, NEW u \in Users, Log(p, event, u)
  PROVE  audit' \in [Proposals -> SUBSET [event : Events, actor : Users]]
<1>1. [event |-> event, actor |-> u] \in [event : Events, actor : Users]
  OBVIOUS
<1>2. audit[p] \cup {[event |-> event, actor |-> u]} \in SUBSET [event : Events, actor : Users]
  BY <1>1
<1> QED
  BY <1>2 DEF Log

LEMMA TypeStep ==
  ASSUME TypeInv, [ActionsNext]_actionsVars
  PROVE  TypeInv'
<1> USE DEF TypeInv
<1>1. ASSUME NEW q \in Callers, NEW u \in Users, NEW kind \in {"create", "approve", "execute"},
             NEW on \in Proposals \cup {Nobody}, Authenticate(q, u, kind, on),
             kind = "create" \/ on \in Proposals
      PROVE  TypeInv'
  <2>1. [pc |-> kind, user |-> u, role |-> role[u], on |-> on, answer |-> "none"] \in Caller
    BY DEF Caller, ActionsTypeOK
  <2>2. caller' \in [Callers -> Caller]
    BY <1>1, <2>1 DEF Authenticate, ActionsTypeOK
  <2>3. CallersKnown'
    BY <1>1 DEF Authenticate, CallersKnown, ActionsTypeOK
  <2> QED
    BY <1>1, <2>2, <2>3 DEF Authenticate, ActionsTypeOK, observed
<1>2. ASSUME NEW q \in Callers, NEW p \in Proposals, NEW operation \in Operations,
             CreateProposal(q, p, operation)
      PROVE  TypeInv'
  <2>1. caller[q].user \in Users
    BY <1>2 DEF CreateProposal, CallersKnown
  <2>2. [status |-> "pending", operation |-> operation, requester |-> caller[q].user,
         approver |-> Nobody, executor |-> Nobody] \in ProposalRow
    BY <2>1 DEF ProposalRow
  <2>3. proposal' \in [Proposals -> ProposalRow]
    BY <1>2, <2>2 DEF CreateProposal, ActionsTypeOK
  <2>4. audit' \in [Proposals -> SUBSET [event : Events, actor : Users]]
    BY <1>2, <2>1, LogType DEF CreateProposal, ActionsTypeOK, Events
  <2> QED
    BY <1>2, <2>3, <2>4, EndType DEF CreateProposal, ActionsTypeOK, observed
<1>3. ASSUME NEW q \in Callers, ApproveProposal(q)
      PROVE  TypeInv'
  <2>1. caller[q].user \in Users /\ caller[q].on \in Proposals
    BY <1>3 DEF ApproveProposal, CallersKnown
  <2>2. proposal' \in [Proposals -> ProposalRow]
    <3>1. proposal[caller[q].on] \in ProposalRow
      BY <2>1 DEF ActionsTypeOK
    <3> QED
      BY <1>3, <2>1, <3>1, RowUpdates DEF ApproveProposal, ActionsTypeOK
  <2>3. audit' \in [Proposals -> SUBSET [event : Events, actor : Users]]
    BY <1>3, <2>1, LogType DEF ApproveProposal, ActionsTypeOK, Events
  <2>4. role[caller[q].user] \in Executors
    BY <1>3 DEF ApproveProposal, ApprovalStands, Approvers, Executors
  <2>5. grantedAs' \in [Proposals -> Executors \cup {"none"}]
    BY <1>3, <2>4 DEF ApproveProposal, ActionsTypeOK
  <2> QED
    BY <1>3, <2>2, <2>3, <2>5, EndType DEF ApproveProposal, ActionsTypeOK
<1>4. ASSUME NEW q \in Callers, StartExecution(q)
      PROVE  TypeInv'
  <2>1. caller' \in [Callers -> Caller]
    <3>1. caller[q] \in Caller
      BY DEF ActionsTypeOK
    <3> QED
      BY <1>4, <3>1, CallerUpdates DEF StartExecution, ActionsTypeOK
  <2>2. CallersKnown'
    BY <1>4 DEF StartExecution, CallersKnown, ActionsTypeOK, Caller
  <2>3. lock' \in [Proposals -> Callers \cup {Nobody}]
    BY <1>4 DEF StartExecution, ActionsTypeOK
  <2> QED
    BY <1>4, <2>1, <2>2, <2>3 DEF StartExecution, ActionsTypeOK, observed
<1>5. ASSUME NEW q \in Callers, NEW answer \in {"ok", "error"}, CallConnector(q, answer)
      PROVE  TypeInv'
  <2>1. caller' \in [Callers -> Caller]
    <3>1. caller[q] \in Caller
      BY DEF ActionsTypeOK
    <3> QED
      BY <1>5, <3>1, CallerUpdates DEF CallConnector, ActionsTypeOK
  <2>2. CallersKnown'
    BY <1>5 DEF CallConnector, CallersKnown, ActionsTypeOK, Caller
  <2>3. calls' \in [Proposals -> Nat] /\ applied' \in [Proposals -> BOOLEAN]
    <3>1. caller[q].on \in Proposals
      BY <1>5 DEF CallConnector, CallersKnown
    <3>2. calls[caller[q].on] + 1 \in Nat
      BY <3>1 DEF ActionsTypeOK
    <3>3. calls' \in [Proposals -> Nat]
      BY <1>5, <3>2 DEF CallConnector, ActionsTypeOK
    <3> QED
      BY <1>5, <3>3 DEF CallConnector, ActionsTypeOK
  <2> QED
    BY <1>5, <2>1, <2>2, <2>3 DEF CallConnector, ActionsTypeOK
<1>6. ASSUME NEW q \in Callers, RecordExecution(q)
      PROVE  TypeInv'
  <2>1. caller[q].user \in Users /\ caller[q].on \in Proposals
    BY <1>6 DEF RecordExecution, CallersKnown
  <2>2. proposal' \in [Proposals -> ProposalRow]
    <3>1. proposal[caller[q].on] \in ProposalRow
      BY <2>1 DEF ActionsTypeOK
    <3> QED
      BY <1>6, <2>1, <3>1, RowUpdates DEF RecordExecution, ActionsTypeOK, Terminal
  <2>3. audit' \in [Proposals -> SUBSET [event : Events, actor : Users]]
    BY <1>6, <2>1, LogType DEF RecordExecution, ActionsTypeOK, Events
  <2> QED
    BY <1>6, <2>2, <2>3, EndType DEF RecordExecution, ActionsTypeOK, observed
<1>7. ASSUME NEW q \in Callers, Refuse(q) \/ CallerDies(q)
      PROVE  TypeInv'
  <2>1. End(q) /\ UNCHANGED <<role, proposal, audit, applied, calls, lost, grantedAs>>
    BY <1>7 DEF Refuse, CallerDies, observed
  <2> QED
    BY <2>1, EndType DEF ActionsTypeOK
<1>8. ASSUME NEW q \in Callers, LoseExecution(q)
      PROVE  TypeInv'
  <2>1. lost' \in [Proposals -> 0 .. MaxLost]
    BY <1>8, ProposalAssumption DEF LoseExecution, ActionsTypeOK, CallersKnown
  <2> QED
    BY <1>8, <2>1, EndType DEF LoseExecution, ActionsTypeOK
<1>9. ASSUME NEW u \in Users, NEW to \in Roles, ChangeRole(u, to)
      PROVE  TypeInv'
  BY <1>9 DEF ChangeRole, ActionsTypeOK, CallersKnown, observed
<1>10. CASE UNCHANGED actionsVars
  BY <1>10 DEF actionsVars, ActionsTypeOK, CallersKnown, observed
<1> QED
  BY <1>1, <1>2, <1>3, <1>4, <1>5, <1>6, <1>7, <1>8, <1>9, <1>10
  DEF ActionsNext, CallerStep

LEMMA TypeInit == ActionsInit => TypeInv
BY ProposalAssumption DEF ActionsInit, TypeInv, ActionsTypeOK, CallersKnown, NoCaller, Caller,
   ProposalRow, Operations, Roles, Terminal

\* Type correctness of memberships, proposals, audits, requests and locks.
THEOREM ActionsTyped == ActionsSpec => []ActionsTypeOK
<1>1. TypeInv /\ [ActionsNext]_actionsVars => TypeInv'
  BY TypeStep
<1>2. TypeInv => ActionsTypeOK
  BY DEF TypeInv
<1> QED
  BY <1>1, <1>2, TypeInit, PTL DEF ActionsSpec

---------------------------------------------------------------------------
(* Approval and the lock *)

Unapproved == {"absent", "pending"}

\* Who calls the connector holds the lock of an approved proposal.
CallsHoldTheLock ==
  \A q \in Callers : caller[q].pc \in {"calling", "answered"} =>
    /\ lock[caller[q].on] = q
    /\ proposal[caller[q].on].status = "approved"

\* What was approved was approved by a different member with the role for it.
Approved ==
  \A p \in Proposals :
    IF proposal[p].status \in Unapproved THEN calls[p] = 0
    ELSE /\ proposal[p].approver \notin {Nobody, proposal[p].requester}
         /\ grantedAs[p] \in Approvers(proposal[p].operation)

LockInv == TypeInv /\ CallsHoldTheLock /\ Approved

LEMMA EndHolds ==
  ASSUME LockInv, NEW q \in Callers, End(q), NEW other \in Callers,
         caller'[other].pc \in {"calling", "answered"}
  PROVE  /\ other # q /\ caller'[other] = caller[other]
         /\ caller[other].on \in Proposals
         /\ lock[caller[other].on] = other
         /\ lock'[caller[other].on] = other
         /\ proposal[caller[other].on].status = "approved"
<1>1. other # q /\ caller'[other] = caller[other]
  BY DEF LockInv, TypeInv, ActionsTypeOK, End, NoCaller
<1>2. caller[other].on \in Proposals
  BY <1>1 DEF LockInv, TypeInv, CallersKnown
<1>3. lock[caller[other].on] = other /\ proposal[caller[other].on].status = "approved"
  BY <1>1 DEF LockInv, CallsHoldTheLock
<1>4. lock'[caller[other].on] = other
  BY <1>1, <1>2, <1>3 DEF End
<1> QED
  BY <1>1, <1>2, <1>3, <1>4

\* A request that ends and leaves proposals and grants alone.
LEMMA EndKeepsLockInv ==
  ASSUME LockInv, TypeInv', NEW q \in Callers, End(q),
         UNCHANGED <<proposal, calls, grantedAs>>
  PROVE  LockInv'
<1>1. CallsHoldTheLock'
  BY EndHolds DEF CallsHoldTheLock
<1>2. Approved'
  BY DEF LockInv, Approved
<1> QED
  BY <1>1, <1>2 DEF LockInv

LEMMA LockStep ==
  ASSUME LockInv, [ActionsNext]_actionsVars
  PROVE  LockInv'
<1>0. TypeInv'
  BY TypeStep DEF LockInv
<1>1. ASSUME NEW q \in Callers, NEW u \in Users, NEW kind \in {"create", "approve", "execute"},
             NEW on \in Proposals \cup {Nobody}, Authenticate(q, u, kind, on)
      PROVE  LockInv'
  BY <1>0, <1>1 DEF Authenticate, LockInv, TypeInv, ActionsTypeOK, CallsHoldTheLock,
     Approved, observed
<1>2. ASSUME NEW q \in Callers, NEW p \in Proposals, NEW operation \in Operations,
             CreateProposal(q, p, operation)
      PROVE  LockInv'
  <2>1. proposal[p].status = "absent" /\ End(q)
    BY <1>2 DEF CreateProposal
  <2>2. \A r \in Proposals \ {p} : proposal'[r] = proposal[r]
    BY <1>2 DEF CreateProposal, LockInv, TypeInv, ActionsTypeOK
  <2>3. CallsHoldTheLock'
    BY <2>1, <2>2, EndHolds DEF CallsHoldTheLock
  <2>4. proposal'[p].status = "pending"
    BY <1>2 DEF CreateProposal, LockInv, TypeInv, ActionsTypeOK
  <2>5. UNCHANGED <<calls, grantedAs>>
    BY <1>2 DEF CreateProposal, observed
  <2>6. Approved'
    BY <2>1, <2>2, <2>4, <2>5 DEF LockInv, Approved, Unapproved
  <2> QED
    BY <1>0, <2>3, <2>6 DEF LockInv
<1>3. ASSUME NEW q \in Callers, ApproveProposal(q)
      PROVE  LockInv'
  <2> DEFINE p == caller[q].on
  <2>1. p \in Proposals /\ caller[q].user \in Users
    BY <1>3 DEF ApproveProposal, LockInv, TypeInv, CallersKnown
  <2>2. proposal[p].status = "pending" /\ End(q) /\ UNCHANGED calls
    BY <1>3 DEF ApproveProposal, MayApprove
  <2>3. \A r \in Proposals \ {p} : proposal'[r] = proposal[r] /\ grantedAs'[r] = grantedAs[r]
    BY <1>3 DEF ApproveProposal, LockInv, TypeInv, ActionsTypeOK
  <2>4. CallsHoldTheLock'
    BY <2>2, <2>3, EndHolds DEF CallsHoldTheLock
  <2>5. /\ proposal'[p].status = "approved"
        /\ proposal'[p].approver = caller[q].user
        /\ proposal'[p].requester = proposal[p].requester
        /\ proposal'[p].operation = proposal[p].operation
    BY <1>3, <2>1 DEF ApproveProposal, LockInv, TypeInv, ActionsTypeOK, ProposalRow
  <2>6. grantedAs'[p] = role[caller[q].user]
    BY <1>3, <2>1 DEF ApproveProposal, LockInv, TypeInv, ActionsTypeOK
  <2>7. /\ caller[q].user # proposal[p].requester
        /\ role[caller[q].user] \in Approvers(proposal[p].operation)
    BY <1>3 DEF ApproveProposal, MayApprove, ApprovalStands
  <2>8. Approved'
    BY <2>1, <2>2, <2>3, <2>5, <2>6, <2>7, ProposalAssumption DEF LockInv, Approved, Unapproved
  <2> QED
    BY <1>0, <2>4, <2>8 DEF LockInv
<1>4. ASSUME NEW q \in Callers, StartExecution(q)
      PROVE  LockInv'
  <2>1. caller[q].on \in Proposals
    BY <1>4 DEF StartExecution, LockInv, TypeInv, CallersKnown
  <2>2. /\ lock[caller[q].on] = Nobody /\ proposal[caller[q].on].status = "approved"
        /\ UNCHANGED <<proposal, calls, grantedAs>>
    BY <1>4 DEF StartExecution, LockFree, MayExecute, observed
  <2>3. caller'[q].on = caller[q].on /\ lock'[caller[q].on] = q
    BY <1>4, <2>1 DEF StartExecution, LockInv, TypeInv, ActionsTypeOK, Caller
  <2>4. ASSUME NEW other \in Callers \ {q}, caller'[other].pc \in {"calling", "answered"}
        PROVE  lock'[caller'[other].on] = other /\ proposal'[caller'[other].on].status = "approved"
    <3>1. caller'[other] = caller[other]
      BY <1>4 DEF StartExecution, LockInv, TypeInv, ActionsTypeOK
    <3>2. lock[caller[other].on] = other /\ proposal[caller[other].on].status = "approved"
      BY <2>4, <3>1 DEF LockInv, CallsHoldTheLock
    <3>3. caller[other].on # caller[q].on
      BY <2>2, <3>2, ProposalAssumption
    <3>4. caller[other].on \in Proposals
      BY <2>4, <3>1 DEF LockInv, TypeInv, CallersKnown
    <3>5. lock'[caller[other].on] = lock[caller[other].on]
      BY <1>4, <3>3, <3>4 DEF StartExecution, LockInv, TypeInv, ActionsTypeOK
    <3> QED
      BY <2>2, <3>1, <3>2, <3>5
  <2>5. CallsHoldTheLock'
    BY <2>2, <2>3, <2>4 DEF CallsHoldTheLock
  <2>6. Approved'
    BY <2>2 DEF LockInv, Approved
  <2> QED
    BY <1>0, <2>5, <2>6 DEF LockInv
<1>5. ASSUME NEW q \in Callers, NEW answer \in {"ok", "error"}, CallConnector(q, answer)
      PROVE  LockInv'
  <2>1. caller[q].pc = "calling" /\ UNCHANGED <<proposal, lock, grantedAs>>
    BY <1>5 DEF CallConnector
  <2>2. \A other \in Callers : /\ caller'[other].on = caller[other].on
                               /\ other # q => caller'[other] = caller[other]
    BY <1>5 DEF CallConnector, LockInv, TypeInv, ActionsTypeOK, Caller
  <2>3. CallsHoldTheLock'
    BY <2>1, <2>2 DEF LockInv, CallsHoldTheLock
  <2>4. \A r \in Proposals \ {caller[q].on} : calls'[r] = calls[r]
    BY <1>5 DEF CallConnector, LockInv, TypeInv, ActionsTypeOK
  <2>5. proposal[caller[q].on].status = "approved"
    BY <2>1 DEF LockInv, CallsHoldTheLock
  <2>6. Approved'
    BY <2>1, <2>4, <2>5 DEF LockInv, Approved, Unapproved
  <2> QED
    BY <1>0, <2>3, <2>6 DEF LockInv
<1>6. ASSUME NEW q \in Callers, RecordExecution(q)
      PROVE  LockInv'
  <2> DEFINE p == caller[q].on
  <2>1. p \in Proposals
    BY <1>6 DEF RecordExecution, LockInv, TypeInv, CallersKnown
  <2>2. lock[p] = q /\ proposal[p].status = "approved"
    BY <1>6 DEF RecordExecution, LockInv, CallsHoldTheLock
  <2>3. End(q) /\ UNCHANGED <<calls, grantedAs>>
    BY <1>6 DEF RecordExecution, observed
  <2>4. \A r \in Proposals \ {p} : proposal'[r] = proposal[r]
    BY <1>6 DEF RecordExecution, LockInv, TypeInv, ActionsTypeOK
  <2>5. CallsHoldTheLock'
    BY <2>2, <2>3, <2>4, EndHolds DEF CallsHoldTheLock
  <2>6. /\ proposal'[p].status \in Terminal
        /\ proposal'[p].approver = proposal[p].approver
        /\ proposal'[p].requester = proposal[p].requester
        /\ proposal'[p].operation = proposal[p].operation
    BY <1>6, <2>1 DEF RecordExecution, LockInv, TypeInv, ActionsTypeOK, ProposalRow, Terminal
  <2>7. Approved'
    BY <2>2, <2>3, <2>4, <2>6 DEF LockInv, Approved, Unapproved, Terminal
  <2> QED
    BY <1>0, <2>5, <2>7 DEF LockInv
<1>7. ASSUME NEW q \in Callers, Refuse(q) \/ CallerDies(q) \/ LoseExecution(q)
      PROVE  LockInv'
  <2>1. End(q) /\ UNCHANGED <<proposal, calls, grantedAs>>
    BY <1>7 DEF Refuse, CallerDies, LoseExecution, observed
  <2> QED
    BY <1>0, <2>1, EndKeepsLockInv
<1>8. ASSUME NEW u \in Users, NEW to \in Roles, ChangeRole(u, to)
      PROVE  LockInv'
  BY <1>0, <1>8 DEF ChangeRole, LockInv, CallsHoldTheLock, Approved, observed
<1>9. CASE UNCHANGED actionsVars
  BY <1>0, <1>9 DEF actionsVars, LockInv, CallsHoldTheLock, Approved, observed
<1> QED
  BY <1>1, <1>2, <1>3, <1>4, <1>5, <1>6, <1>7, <1>8, <1>9 DEF ActionsNext, CallerStep

LEMMA LockInit == ActionsInit => LockInv
BY TypeInit DEF ActionsInit, LockInv, CallsHoldTheLock, Approved, NoCaller, Unapproved

\* A connector is only called for what a different member approved who had the
\* role for it when the approval was saved.
THEOREM OnlyAuthorizedCalls == ActionsSpec => []CallsAreAuthorized
<1>1. LockInv /\ [ActionsNext]_actionsVars => LockInv'
  BY LockStep
<1>2. LockInv => CallsAreAuthorized
  BY DEF LockInv, TypeInv, ActionsTypeOK, Approved, CallsAreAuthorized
<1> QED
  BY <1>1, <1>2, LockInit, PTL DEF ActionsSpec

---------------------------------------------------------------------------
(* Calls and losses *)

Open(p) == {q \in Callers : caller[q].on = p /\ caller[q].pc = "answered"}

Outcome(p) == IF proposal[p].status \in Terminal THEN 1 ELSE 0

CountInv == LockInv /\ CallsFollowLosses

LEMMA CountsAgree ==
  CallsFollowLosses <=> \A p \in Proposals : calls[p] = lost[p] + Cardinality(Open(p)) + Outcome(p)
BY DEF CallsFollowLosses, Open, Outcome

\* A step that moves no request to or from "answered" and ends no proposal.
LEMMA CountsKept ==
  ASSUME CallsFollowLosses, UNCHANGED <<calls, lost>>,
         \A p \in Proposals : Open(p)' = Open(p) /\ Outcome(p)' = Outcome(p)
  PROVE  CallsFollowLosses'
<1>1. \A p \in Proposals : calls'[p] = lost'[p] + Cardinality(Open(p)') + Outcome(p)'
  BY CountsAgree
<1> QED
  BY <1>1 DEF CallsFollowLosses, Open, Outcome

LEMMA EndKeepsOpen ==
  ASSUME LockInv, NEW q \in Callers, End(q), caller[q].pc # "answered", NEW p \in Proposals
  PROVE  Open(p)' = Open(p)
BY DEF LockInv, TypeInv, ActionsTypeOK, End, NoCaller, Open

\* The one answered execution of a proposal, and none when it is still calling.
LEMMA OneOpen ==
  ASSUME LockInv, NEW q \in Callers, caller[q].pc \in {"calling", "answered"}
  PROVE  /\ caller[q].pc = "answered" => Open(caller[q].on) = {q}
         /\ caller[q].pc = "calling" => Open(caller[q].on) = {}
BY DEF LockInv, CallsHoldTheLock, Open

LEMMA EndClosesOpen ==
  ASSUME LockInv, NEW q \in Callers, End(q), caller[q].pc = "answered", NEW p \in Proposals
  PROVE  /\ p = caller[q].on => Open(p)' = {}
         /\ p # caller[q].on => Open(p)' = Open(p)
<1>1. \A other \in Callers \ {q} : caller'[other] = caller[other]
  BY DEF LockInv, TypeInv, ActionsTypeOK, End
<1>2. caller'[q].pc = "idle"
  BY DEF LockInv, TypeInv, ActionsTypeOK, End, NoCaller
<1>3. Open(caller[q].on) = {q}
  BY OneOpen
<1> QED
  BY <1>1, <1>2, <1>3 DEF Open

LEMMA CountStep ==
  ASSUME CountInv, [ActionsNext]_actionsVars
  PROVE  CountInv'
<1>0. LockInv' /\ LockInv /\ CallsFollowLosses
  BY LockStep DEF CountInv
<1> SUFFICES CallsFollowLosses'
  BY <1>0 DEF CountInv
<1>1. ASSUME NEW q \in Callers, NEW u \in Users, NEW kind \in {"create", "approve", "execute"},
             NEW on \in Proposals \cup {Nobody}, Authenticate(q, u, kind, on)
      PROVE  CallsFollowLosses'
  <2>1. UNCHANGED <<calls, lost, proposal>>
    BY <1>1 DEF Authenticate, observed
  <2>2. \A p \in Proposals : Open(p)' = Open(p)
    BY <1>0, <1>1 DEF Authenticate, LockInv, TypeInv, ActionsTypeOK, Open
  <2> QED
    BY <1>0, <2>1, <2>2, CountsKept DEF Outcome
<1>2. ASSUME NEW q \in Callers, NEW p \in Proposals, NEW operation \in Operations,
             CreateProposal(q, p, operation)
      PROVE  CallsFollowLosses'
  <2>1. UNCHANGED <<calls, lost>> /\ End(q) /\ caller[q].pc # "answered"
    BY <1>2 DEF CreateProposal, observed
  <2>2. \A r \in Proposals \ {p} : proposal'[r] = proposal[r]
    BY <1>0, <1>2 DEF CreateProposal, LockInv, TypeInv, ActionsTypeOK
  <2>3. proposal[p].status = "absent" /\ proposal'[p].status = "pending"
    BY <1>0, <1>2 DEF CreateProposal, LockInv, TypeInv, ActionsTypeOK
  <2>4. \A r \in Proposals : Outcome(r)' = Outcome(r)
    BY <2>2, <2>3 DEF Outcome, Terminal
  <2> QED
    BY <1>0, <2>1, <2>4, CountsKept, EndKeepsOpen
<1>3. ASSUME NEW q \in Callers, ApproveProposal(q)
      PROVE  CallsFollowLosses'
  <2>1. UNCHANGED <<calls, lost>> /\ End(q) /\ caller[q].pc # "answered"
    BY <1>3 DEF ApproveProposal
  <2>2. caller[q].on \in Proposals
    BY <1>0, <1>3 DEF ApproveProposal, LockInv, TypeInv, CallersKnown
  <2>3. \A r \in Proposals \ {caller[q].on} : proposal'[r] = proposal[r]
    BY <1>0, <1>3 DEF ApproveProposal, LockInv, TypeInv, ActionsTypeOK
  <2>4. proposal[caller[q].on].status = "pending" /\ proposal'[caller[q].on].status = "approved"
    BY <1>0, <1>3, <2>2 DEF ApproveProposal, MayApprove, LockInv, TypeInv, ActionsTypeOK,
       ProposalRow
  <2>5. \A r \in Proposals : Outcome(r)' = Outcome(r)
    BY <2>3, <2>4 DEF Outcome, Terminal
  <2> QED
    BY <1>0, <2>1, <2>5, CountsKept, EndKeepsOpen
<1>4. ASSUME NEW q \in Callers, StartExecution(q)
      PROVE  CallsFollowLosses'
  <2>1. UNCHANGED <<calls, lost, proposal>>
    BY <1>4 DEF StartExecution, observed
  <2>2. \A p \in Proposals : Open(p)' = Open(p)
    BY <1>0, <1>4 DEF StartExecution, LockInv, TypeInv, ActionsTypeOK, Caller, Open
  <2> QED
    BY <1>0, <2>1, <2>2, CountsKept DEF Outcome
<1>5. ASSUME NEW q \in Callers, NEW answer \in {"ok", "error"}, CallConnector(q, answer)
      PROVE  CallsFollowLosses'
  <2> PICK p \in Proposals : p = caller[q].on
    BY <1>0, <1>5 DEF CallConnector, LockInv, TypeInv, CallersKnown
  <2>1. p = caller[q].on /\ caller[q].pc = "calling" /\ UNCHANGED <<lost, proposal>>
    BY <1>0, <1>5 DEF CallConnector, LockInv, TypeInv, CallersKnown
  <2>2. \A other \in Callers : /\ caller'[other].on = caller[other].on
                               /\ other # q => caller'[other] = caller[other]
    BY <1>0, <1>5 DEF CallConnector, LockInv, TypeInv, ActionsTypeOK, Caller
  <2>3. caller'[q].pc = "answered"
    BY <1>0, <1>5 DEF CallConnector, LockInv, TypeInv, ActionsTypeOK, Caller
  <2>4. Open(p) = {}
    BY <1>0, <2>1, OneOpen
  <2>5. Open(p)' = {q}
    BY <2>2, <2>3, <2>4 DEF Open
  <2>6. \A r \in Proposals \ {p} : Open(r)' = Open(r) /\ calls'[r] = calls[r]
    <3>1. \A r \in Proposals \ {p} : calls'[r] = calls[r]
      BY <1>0, <1>5 DEF CallConnector, LockInv, TypeInv, ActionsTypeOK
    <3> QED
      BY <2>2, <3>1 DEF Open
  <2>7. calls'[p] = calls[p] + 1
    BY <1>0, <1>5, <2>1 DEF CallConnector, LockInv, TypeInv, ActionsTypeOK
  <2>8. Cardinality(Open(p)) = 0 /\ Cardinality(Open(p)') = 1
    BY <2>4, <2>5, FS_EmptySet, FS_Singleton
  <2>9. Outcome(p) \in Nat /\ lost[p] \in Nat /\ \A r \in Proposals : Outcome(r)' = Outcome(r)
    BY <1>0, <2>1, ProposalAssumption DEF Outcome, LockInv, TypeInv, ActionsTypeOK
  <2>10. calls'[p] = lost'[p] + Cardinality(Open(p)') + Outcome(p)'
    BY <1>0, <2>1, <2>7, <2>8, <2>9, CountsAgree
  <2>11. \A r \in Proposals \ {p} : calls'[r] = lost'[r] + Cardinality(Open(r)') + Outcome(r)'
    BY <1>0, <2>1, <2>6, <2>9, CountsAgree
  <2> QED
    BY <2>10, <2>11 DEF CallsFollowLosses, Open, Outcome
<1>6. ASSUME NEW q \in Callers, RecordExecution(q)
      PROVE  CallsFollowLosses'
  <2> PICK p \in Proposals : p = caller[q].on
    BY <1>0, <1>6 DEF RecordExecution, LockInv, TypeInv, CallersKnown
  <2>1. p = caller[q].on /\ caller[q].pc = "answered" /\ End(q) /\ UNCHANGED <<calls, lost>>
    BY <1>0, <1>6 DEF RecordExecution, LockInv, TypeInv, CallersKnown, observed
  <2>2. proposal[p].status = "approved"
    BY <1>0, <2>1 DEF LockInv, CallsHoldTheLock
  <2>3. \A r \in Proposals \ {p} : proposal'[r] = proposal[r]
    BY <1>0, <1>6 DEF RecordExecution, LockInv, TypeInv, ActionsTypeOK
  <2>4. proposal'[p].status \in Terminal
    BY <1>0, <1>6, <2>1 DEF RecordExecution, LockInv, TypeInv, ActionsTypeOK, ProposalRow, Terminal
  <2>5. Open(p) = {q} /\ Open(p)' = {}
    BY <1>0, <2>1, OneOpen, EndClosesOpen
  <2>6. Cardinality(Open(p)) = 1 /\ Cardinality(Open(p)') = 0
    BY <2>5, FS_EmptySet, FS_Singleton
  <2>7. Outcome(p) = 0 /\ Outcome(p)' = 1 /\ lost[p] \in Nat
    BY <1>0, <2>1, <2>2, <2>4, ProposalAssumption DEF Outcome, Terminal, LockInv, TypeInv,
       ActionsTypeOK
  <2>8. calls'[p] = lost'[p] + Cardinality(Open(p)') + Outcome(p)'
    BY <1>0, <2>1, <2>6, <2>7, CountsAgree
  <2>9. \A r \in Proposals \ {p} : Open(r)' = Open(r) /\ Outcome(r)' = Outcome(r)
    BY <1>0, <2>1, <2>3, EndClosesOpen DEF Outcome
  <2>10. \A r \in Proposals \ {p} : calls'[r] = lost'[r] + Cardinality(Open(r)') + Outcome(r)'
    BY <1>0, <2>1, <2>9, CountsAgree
  <2> QED
    BY <2>8, <2>10 DEF CallsFollowLosses, Open, Outcome
<1>7. ASSUME NEW q \in Callers, Refuse(q) \/ CallerDies(q)
      PROVE  CallsFollowLosses'
  <2>1. End(q) /\ UNCHANGED <<proposal, calls, lost>> /\ caller[q].pc # "answered"
    BY <1>7 DEF Refuse, CallerDies, observed
  <2> QED
    BY <1>0, <2>1, CountsKept, EndKeepsOpen DEF Outcome
<1>8. ASSUME NEW q \in Callers, LoseExecution(q)
      PROVE  CallsFollowLosses'
  <2> PICK p \in Proposals : p = caller[q].on
    BY <1>0, <1>8 DEF LoseExecution, LockInv, TypeInv, CallersKnown
  <2>1. p = caller[q].on /\ caller[q].pc = "answered" /\ End(q) /\ UNCHANGED <<calls, proposal>>
    BY <1>0, <1>8 DEF LoseExecution, LockInv, TypeInv, CallersKnown
  <2>2. Open(p) = {q} /\ Open(p)' = {}
    BY <1>0, <2>1, OneOpen, EndClosesOpen
  <2>3. Cardinality(Open(p)) = 1 /\ Cardinality(Open(p)') = 0
    BY <2>2, FS_EmptySet, FS_Singleton
  <2>4. /\ lost'[p] = lost[p] + 1 /\ lost[p] \in Nat
        /\ \A r \in Proposals \ {p} : lost'[r] = lost[r]
    BY <1>0, <1>8, <2>1, ProposalAssumption DEF LoseExecution, LockInv, TypeInv, ActionsTypeOK
  <2>5. \A r \in Proposals : Outcome(r)' = Outcome(r) /\ Outcome(r) \in Nat
    BY <2>1 DEF Outcome
  <2>6. calls'[p] = lost'[p] + Cardinality(Open(p)') + Outcome(p)'
    BY <1>0, <2>1, <2>3, <2>4, <2>5, CountsAgree
  <2>7. \A r \in Proposals \ {p} : calls'[r] = lost'[r] + Cardinality(Open(r)') + Outcome(r)'
    BY <1>0, <2>1, <2>4, <2>5, EndClosesOpen, CountsAgree
  <2> QED
    BY <2>6, <2>7 DEF CallsFollowLosses, Open, Outcome
<1>9. ASSUME NEW u \in Users, NEW to \in Roles, ChangeRole(u, to)
      PROVE  CallsFollowLosses'
  BY <1>0, <1>9 DEF ChangeRole, CallsFollowLosses, observed
<1>10. CASE UNCHANGED actionsVars
  BY <1>0, <1>10 DEF actionsVars, CallsFollowLosses, observed
<1> QED
  BY <1>1, <1>2, <1>3, <1>4, <1>5, <1>6, <1>7, <1>8, <1>9, <1>10 DEF ActionsNext, CallerStep

LEMMA CountInit == ActionsInit => CountInv
<1> SUFFICES ASSUME ActionsInit PROVE CallsFollowLosses
  BY LockInit DEF CountInv
<1>1. \A p \in Proposals : Open(p) = {}
  BY DEF ActionsInit, NoCaller, Open
<1>2. Cardinality({}) = 0
  BY FS_EmptySet
<1>3. \A p \in Proposals : calls[p] = 0 /\ lost[p] = 0 /\ Outcome(p) = 0
  BY DEF ActionsInit, Outcome, Terminal
<1> QED
  BY <1>1, <1>2, <1>3, CountsAgree

\* Calls of a proposal never overlap, and a call is repeated only when the one
\* before was lost.
THEOREM CallsOnlyAfterLosses == ActionsSpec => []CallsFollowLosses
<1>1. CountInv /\ [ActionsNext]_actionsVars => CountInv'
  BY CountStep
<1>2. CountInv => CallsFollowLosses
  BY DEF CountInv
<1> QED
  BY <1>1, <1>2, CountInit, PTL DEF ActionsSpec

---------------------------------------------------------------------------
(* Records *)

\* An answer that is a success was applied.
AnswersAreTrue ==
  \A q \in Callers :
    caller[q].pc = "answered" /\ caller[q].answer = "ok" => applied[caller[q].on]

RecordInv == LockInv /\ AnswersAreTrue /\ RecordsAreTrue

LEMMA RecordsAgree ==
  RecordsAreTrue <=>
    \A p \in Proposals : /\ proposal[p].status = "executed" => applied[p]
                         /\ audit[p] = EventsOf(proposal[p])
BY DEF RecordsAreTrue, EventsOf

LEMMA RecordsAgreeAfter ==
  ASSUME \A p \in Proposals : /\ proposal'[p].status = "executed" => applied'[p]
                              /\ audit'[p] = EventsOf(proposal'[p])
  PROVE  RecordsAreTrue'
BY DEF RecordsAreTrue, EventsOf

\* The events of a row after each of its changes.
LEMMA EventsFollow ==
  ASSUME NEW row, NEW after, NEW u
  PROVE  /\ row.status = "absent" /\ after.status = "pending" /\ after.requester = u =>
              EventsOf(after) = EventsOf(row) \cup {[event |-> "proposed", actor |-> u]}
         /\ (/\ row.status = "pending" /\ after.status = "approved"
             /\ after.requester = row.requester /\ after.approver = u) =>
              EventsOf(after) = EventsOf(row) \cup {[event |-> "approved", actor |-> u]}
         /\ (/\ row.status = "approved" /\ after.status = "executed"
             /\ after.requester = row.requester /\ after.approver = row.approver
             /\ after.executor = u) =>
              EventsOf(after) = EventsOf(row) \cup {[event |-> "execution_succeeded", actor |-> u]}
         /\ (/\ row.status = "approved" /\ after.status = "failed"
             /\ after.requester = row.requester /\ after.approver = row.approver
             /\ after.executor = u) =>
              EventsOf(after) = EventsOf(row) \cup {[event |-> "execution_failed", actor |-> u]}
BY DEF EventsOf

\* What a request that ends leaves true: the other answers, and all records it
\* does not write.
LEMMA EndKeepsAnswers ==
  ASSUME LockInv, AnswersAreTrue, NEW q \in Callers, End(q), UNCHANGED applied
  PROVE  AnswersAreTrue'
<1>1. \A other \in Callers \ {q} : caller'[other] = caller[other]
  BY DEF LockInv, TypeInv, ActionsTypeOK, End
<1>2. caller'[q].pc = "idle"
  BY DEF LockInv, TypeInv, ActionsTypeOK, End, NoCaller
<1> QED
  BY <1>1, <1>2 DEF AnswersAreTrue

LEMMA RecordsKept ==
  ASSUME RecordsAreTrue, UNCHANGED <<proposal, audit>>,
         \A p \in Proposals : applied[p] => applied'[p]
  PROVE  RecordsAreTrue'
BY RecordsAgree, RecordsAgreeAfter

\* A step that changes one row, and logs its event.
LEMMA RecordWritten ==
  ASSUME RecordsAreTrue, UNCHANGED applied, NEW p \in Proposals,
         \A r \in Proposals \ {p} : proposal'[r] = proposal[r] /\ audit'[r] = audit[r],
         audit'[p] = EventsOf(proposal'[p]),
         proposal'[p].status = "executed" => applied[p]
  PROVE  RecordsAreTrue'
BY RecordsAgree, RecordsAgreeAfter

LEMMA LogWrites ==
  ASSUME audit \in [Proposals -> SUBSET [event : Events, actor : Users]],
         NEW p \in Proposals, NEW event, NEW u, Log(p, event, u)
  PROVE  /\ audit'[p] = audit[p] \cup {[event |-> event, actor |-> u]}
         /\ \A r \in Proposals \ {p} : audit'[r] = audit[r]
BY DEF Log

LEMMA RecordStep ==
  ASSUME RecordInv, [ActionsNext]_actionsVars
  PROVE  RecordInv'
<1>0. LockInv' /\ LockInv /\ AnswersAreTrue /\ RecordsAreTrue /\ ActionsTypeOK
  BY LockStep DEF RecordInv, LockInv, TypeInv
<1> SUFFICES AnswersAreTrue' /\ RecordsAreTrue'
  BY <1>0 DEF RecordInv
<1>1. ASSUME NEW q \in Callers, NEW u \in Users, NEW kind \in {"create", "approve", "execute"},
             NEW on \in Proposals \cup {Nobody}, Authenticate(q, u, kind, on)
      PROVE  AnswersAreTrue' /\ RecordsAreTrue'
  BY <1>0, <1>1, RecordsKept DEF Authenticate, ActionsTypeOK, AnswersAreTrue
<1>2. ASSUME NEW q \in Callers, NEW p \in Proposals, NEW operation \in Operations,
             CreateProposal(q, p, operation)
      PROVE  AnswersAreTrue' /\ RecordsAreTrue'
  <2>1. End(q) /\ UNCHANGED applied /\ Log(p, "proposed", caller[q].user)
    BY <1>2 DEF CreateProposal
  <2>2. \A r \in Proposals \ {p} : proposal'[r] = proposal[r]
    BY <1>0, <1>2 DEF CreateProposal, ActionsTypeOK
  <2>3. /\ proposal[p].status = "absent" /\ proposal'[p].status = "pending"
        /\ proposal'[p].requester = caller[q].user
    BY <1>0, <1>2 DEF CreateProposal, ActionsTypeOK
  <2>4. audit'[p] = EventsOf(proposal[p]) \cup {[event |-> "proposed", actor |-> caller[q].user]}
    BY <1>0, <2>1, LogWrites, RecordsAgree DEF ActionsTypeOK
  <2>5. audit'[p] = EventsOf(proposal'[p])
    BY <2>3, <2>4, EventsFollow
  <2>6. \A r \in Proposals \ {p} : audit'[r] = audit[r]
    BY <1>0, <2>1, LogWrites DEF ActionsTypeOK
  <2> QED
    BY <1>0, <2>1, <2>2, <2>3, <2>5, <2>6, RecordWritten, EndKeepsAnswers
<1>3. ASSUME NEW q \in Callers, ApproveProposal(q)
      PROVE  AnswersAreTrue' /\ RecordsAreTrue'
  <2> PICK p \in Proposals : p = caller[q].on
    BY <1>0, <1>3 DEF ApproveProposal, LockInv, TypeInv, CallersKnown
  <2>1. End(q) /\ UNCHANGED applied /\ Log(p, "approved", caller[q].user)
    BY <1>3 DEF ApproveProposal
  <2>2. \A r \in Proposals \ {p} : proposal'[r] = proposal[r]
    BY <1>0, <1>3 DEF ApproveProposal, ActionsTypeOK
  <2>3. /\ proposal[p].status = "pending" /\ proposal'[p].status = "approved"
        /\ proposal'[p].requester = proposal[p].requester
        /\ proposal'[p].approver = caller[q].user
    BY <1>0, <1>3 DEF ApproveProposal, MayApprove, ActionsTypeOK, ProposalRow
  <2>4. audit'[p] = EventsOf(proposal[p]) \cup {[event |-> "approved", actor |-> caller[q].user]}
    BY <1>0, <2>1, LogWrites, RecordsAgree DEF ActionsTypeOK
  <2>5. audit'[p] = EventsOf(proposal'[p])
    BY <2>3, <2>4, EventsFollow
  <2>6. \A r \in Proposals \ {p} : audit'[r] = audit[r]
    BY <1>0, <2>1, LogWrites DEF ActionsTypeOK
  <2> QED
    BY <1>0, <2>1, <2>2, <2>3, <2>5, <2>6, RecordWritten, EndKeepsAnswers
<1>4. ASSUME NEW q \in Callers, StartExecution(q)
      PROVE  AnswersAreTrue' /\ RecordsAreTrue'
  <2>1. UNCHANGED <<proposal, audit, applied>>
    BY <1>4 DEF StartExecution
  <2>2. AnswersAreTrue'
    BY <1>0, <1>4 DEF StartExecution, ActionsTypeOK, Caller, AnswersAreTrue
  <2> QED
    BY <1>0, <2>1, <2>2, RecordsKept
<1>5. ASSUME NEW q \in Callers, NEW answer \in {"ok", "error"}, CallConnector(q, answer)
      PROVE  AnswersAreTrue' /\ RecordsAreTrue'
  <2> PICK p \in Proposals : p = caller[q].on
    BY <1>0, <1>5 DEF CallConnector, LockInv, TypeInv, CallersKnown
  <2>1. UNCHANGED <<proposal, audit>>
    BY <1>5 DEF CallConnector
  <2>2. \A r \in Proposals : applied[r] => applied'[r]
    BY <1>0, <1>5 DEF CallConnector, ActionsTypeOK
  <2>3. answer = "ok" => applied'[p]
    BY <1>0, <1>5 DEF CallConnector, ActionsTypeOK
  <2>4. \A other \in Callers \ {q} : caller'[other] = caller[other]
    BY <1>0, <1>5 DEF CallConnector, ActionsTypeOK
  <2>5. caller'[q].on = p /\ caller'[q].answer = answer
    BY <1>0, <1>5 DEF CallConnector, ActionsTypeOK, Caller
  <2>6. \A other \in Callers \ {q} :
          caller[other].pc = "answered" => caller[other].on \in Proposals
    BY <1>0 DEF LockInv, TypeInv, CallersKnown
  <2>7. AnswersAreTrue'
    BY <1>0, <2>2, <2>3, <2>4, <2>5, <2>6 DEF AnswersAreTrue
  <2> QED
    BY <1>0, <2>1, <2>2, <2>7, RecordsKept
<1>6. ASSUME NEW q \in Callers, RecordExecution(q)
      PROVE  AnswersAreTrue' /\ RecordsAreTrue'
  <2> PICK p \in Proposals : p = caller[q].on
    BY <1>0, <1>6 DEF RecordExecution, LockInv, TypeInv, CallersKnown
  <2>1. End(q) /\ UNCHANGED applied /\ caller[q].pc = "answered"
    BY <1>6 DEF RecordExecution
  <2>2. \A r \in Proposals \ {p} : proposal'[r] = proposal[r]
    BY <1>0, <1>6 DEF RecordExecution, ActionsTypeOK
  <2>3. proposal[p].status = "approved"
    BY <1>0, <2>1 DEF LockInv, CallsHoldTheLock
  <2>4. /\ proposal'[p].requester = proposal[p].requester
        /\ proposal'[p].approver = proposal[p].approver
        /\ proposal'[p].executor = caller[q].user
    BY <1>0, <1>6 DEF RecordExecution, ActionsTypeOK, ProposalRow
  <2>5. CASE caller[q].answer = "ok"
    <3>1. Log(p, "execution_succeeded", caller[q].user) /\ applied[p]
      BY <1>0, <1>6, <2>1, <2>5 DEF RecordExecution, AnswersAreTrue
    <3>2. proposal'[p].status = "executed"
      BY <1>0, <1>6, <2>5 DEF RecordExecution, ActionsTypeOK, ProposalRow
    <3>3. audit'[p] = EventsOf(proposal[p]) \cup
                        {[event |-> "execution_succeeded", actor |-> caller[q].user]}
      BY <1>0, <3>1, LogWrites, RecordsAgree DEF ActionsTypeOK
    <3>4. audit'[p] = EventsOf(proposal'[p])
      BY <2>3, <2>4, <3>2, <3>3, EventsFollow
    <3>5. \A r \in Proposals \ {p} : audit'[r] = audit[r]
      BY <1>0, <3>1, LogWrites DEF ActionsTypeOK
    <3> QED
      BY <1>0, <2>1, <2>2, <3>1, <3>4, <3>5, RecordWritten, EndKeepsAnswers
  <2>6. CASE caller[q].answer # "ok"
    <3>1. Log(p, "execution_failed", caller[q].user)
      BY <1>6, <2>6 DEF RecordExecution
    <3>2. proposal'[p].status = "failed"
      BY <1>0, <1>6, <2>6 DEF RecordExecution, ActionsTypeOK, ProposalRow
    <3>3. audit'[p] = EventsOf(proposal[p]) \cup
                        {[event |-> "execution_failed", actor |-> caller[q].user]}
      BY <1>0, <3>1, LogWrites, RecordsAgree DEF ActionsTypeOK
    <3>4. audit'[p] = EventsOf(proposal'[p])
      BY <2>3, <2>4, <3>2, <3>3, EventsFollow
    <3>5. \A r \in Proposals \ {p} : audit'[r] = audit[r]
      BY <1>0, <3>1, LogWrites DEF ActionsTypeOK
    <3> QED
      BY <1>0, <2>1, <2>2, <3>2, <3>4, <3>5, RecordWritten, EndKeepsAnswers
  <2> QED
    BY <2>5, <2>6
<1>7. ASSUME NEW q \in Callers, Refuse(q) \/ CallerDies(q) \/ LoseExecution(q)
      PROVE  AnswersAreTrue' /\ RecordsAreTrue'
  <2>1. End(q) /\ UNCHANGED <<proposal, audit, applied>>
    BY <1>7 DEF Refuse, CallerDies, LoseExecution
  <2> QED
    BY <1>0, <2>1, RecordsKept, EndKeepsAnswers
<1>8. ASSUME NEW u \in Users, NEW to \in Roles, ChangeRole(u, to)
      PROVE  AnswersAreTrue' /\ RecordsAreTrue'
  <2>1. UNCHANGED <<proposal, audit, applied, caller>>
    BY <1>8 DEF ChangeRole
  <2> QED
    BY <1>0, <2>1, RecordsKept DEF AnswersAreTrue
<1>9. CASE UNCHANGED actionsVars
  <2>1. UNCHANGED <<proposal, audit, applied, caller>>
    BY <1>9 DEF actionsVars
  <2> QED
    BY <1>0, <2>1, RecordsKept DEF AnswersAreTrue
<1> QED
  BY <1>1, <1>2, <1>3, <1>4, <1>5, <1>6, <1>7, <1>8, <1>9 DEF ActionsNext, CallerStep

LEMMA RecordInit == ActionsInit => RecordInv
<1> SUFFICES ASSUME ActionsInit PROVE AnswersAreTrue /\ RecordsAreTrue
  BY LockInit DEF RecordInv
<1>1. AnswersAreTrue
  BY DEF ActionsInit, AnswersAreTrue, NoCaller
<1>2. \A p \in Proposals : proposal[p].status = "absent" /\ audit[p] = {}
  BY DEF ActionsInit
<1>3. \A p \in Proposals : audit[p] = EventsOf(proposal[p])
  BY <1>2 DEF EventsOf
<1> QED
  BY <1>1, <1>2, <1>3, RecordsAgree

\* The row claims no effect the external system does not have, and the audit has
\* the events of the row's status, each by the actor the row names.
THEOREM TrueRecords == ActionsSpec => []RecordsAreTrue
<1>1. RecordInv /\ [ActionsNext]_actionsVars => RecordInv'
  BY RecordStep
<1>2. RecordInv => RecordsAreTrue
  BY DEF RecordInv
<1> QED
  BY <1>1, <1>2, RecordInit, PTL DEF ActionsSpec
=============================================================================
