---------------------------- MODULE MergeContract ----------------------------
(***************************************************************************)
(* What merging entities and splitting them again promises, without locks, *)
(* checks or requests in progress: a merge and a split each happen at one  *)
(* moment.  A merge moves everything the source owns at that moment and    *)
(* writes down exactly that; a split finds all of it with the target and   *)
(* gives it back, with what was changed on it since.  No row is handed to  *)
(* an entity that is not active, and the graph of relationships has no     *)
(* loop and no edge twice at any time.                                     *)
(***************************************************************************)
CONSTANTS Entities, Records, Edges, Kinds, Nothing

VARIABLES
  status,  \* lifecycle of the entities
  owner,   \* the entity each record belongs to
  edge,    \* relationships
  open     \* what the merges that are not split have moved

mvars == <<status, owner, edge, open>>

NoRow == [from |-> Nothing, to |-> Nothing, kind |-> Nothing]

MInit ==
  /\ status = [e \in Entities |-> "active"]
  /\ owner = [r \in Records |-> Nothing]
  /\ edge = [i \in Edges |-> NoRow]
  /\ open = {}

Consistent(edges) ==
  \A i \in Edges : edges[i] # NoRow =>
    /\ edges[i].from # edges[i].to
    /\ \A j \in Edges \ {i} : edges[i] # edges[j]

Active(e) == status[e] = "active"

\* The relationships `moved` are handed to entities that are active afterwards.
HandedToActive(moved) ==
  \A i \in moved : {status'[edge'[i].from], status'[edge'[i].to]} = {"active"}

---------------------------------------------------------------------------
Replaced(e, s, t) == IF e = s THEN t ELSE e

Redirected(row, s, t) ==
  IF {row.from, row.to} = {s, t}
    THEN NoRow
    ELSE [row EXCEPT !.from = Replaced(@, s, t), !.to = Replaced(@, s, t)]

Merge(s, t) ==
  LET between == {i \in Edges : {edge[i].from, edge[i].to} = {s, t}}
      j == [source |-> s, target |-> t, records |-> {r \in Records : owner[r] = s},
            froms |-> {i \in Edges \ between : edge[i].from = s},
            tos |-> {i \in Edges \ between : edge[i].to = s},
            deleted |-> {[id |-> i, row |-> edge[i]] : i \in between}]
  IN
  /\ s # t /\ Active(s) /\ Active(t)
  /\ \A k \in open : {s, t} \cap {k.source, k.target} = {}
  /\ status' = [status EXCEPT ![s] = "merged"]
  /\ owner' = [r \in Records |-> Replaced(owner[r], s, t)]
  /\ edge' = [i \in Edges |-> Redirected(edge[i], s, t)]
  /\ open' = open \cup {j}
  /\ Consistent(edge')
  /\ HandedToActive(j.froms \cup j.tos)

Split(j) ==
  LET lost == {d.id : d \in j.deleted}
      Back(e, moved) == IF moved THEN j.source ELSE e
  IN
  /\ j \in open
  /\ status[j.source] = "merged" /\ Active(j.target)
  /\ \A r \in j.records : owner[r] = j.target
  /\ \A i \in j.froms : edge[i].from = j.target
  /\ \A i \in j.tos : edge[i].to = j.target
  /\ \A i \in lost : edge[i] = NoRow
  /\ status' = [status EXCEPT ![j.source] = "active"]
  /\ owner' = [r \in Records |-> Back(owner[r], r \in j.records)]
  /\ edge' = [i \in Edges |->
                IF i \in lost THEN (CHOOSE d \in j.deleted : d.id = i).row
                ELSE [edge[i] EXCEPT !.from = Back(@, i \in j.froms),
                                     !.to = Back(@, i \in j.tos)]]
  /\ open' = open \ {j}
  /\ Consistent(edge')
  /\ HandedToActive(j.froms \cup j.tos \cup lost)

---------------------------------------------------------------------------
Attach(r, e) ==
  /\ owner[r] = Nothing /\ Active(e)
  /\ owner' = [owner EXCEPT ![r] = e]
  /\ UNCHANGED <<status, edge, open>>

\* An id names one relationship for good: that of an open journal is not taken.
Relate(i, f, t, k) ==
  /\ edge[i] = NoRow /\ Active(f) /\ Active(t)
  /\ \A j \in open : i \notin j.froms \cup j.tos \cup {d.id : d \in j.deleted}
  /\ edge' = [edge EXCEPT ![i] = [from |-> f, to |-> t, kind |-> k]]
  /\ Consistent(edge')
  /\ UNCHANGED <<status, owner, open>>

Retype(i, k) ==
  /\ edge[i] # NoRow
  /\ edge' = [edge EXCEPT ![i].kind = k]
  /\ Consistent(edge')
  /\ UNCHANGED <<status, owner, open>>

Unrelate(i) ==
  /\ edge' = [edge EXCEPT ![i] = NoRow]
  /\ UNCHANGED <<status, owner, open>>

\* A mapping from Odoo states the lifecycle of an entity, a tombstone's too.
Declare(e, s) ==
  /\ status' = [status EXCEPT ![e] = s]
  /\ UNCHANGED <<owner, edge, open>>

MNext ==
  \/ \E e \in Entities, s \in {"active", "inactive"} : Declare(e, s)
  \/ \E r \in Records, e \in Entities : Attach(r, e)
  \/ \E i \in Edges : Unrelate(i)
  \/ \E i \in Edges, k \in Kinds : Retype(i, k)
  \/ \E i \in Edges, f, t \in Entities, k \in Kinds : Relate(i, f, t, k)
  \/ \E s, t \in Entities : Merge(s, t)
  \/ \E j \in open : Split(j)

MSpec == MInit /\ [][MNext]_mvars
=============================================================================
