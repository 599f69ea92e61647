---------------------------- MODULE MCPDiscovery ----------------------------
(***************************************************************************)
(* Discovery of a saved connection's resources, one page per request       *)
(* (discover_saved_connection_resources in apps/api/src/company_brain/api/ *)
(* generic_mcp_integrations.py).                                           *)
(*                                                                         *)
(* A request claims the connection's discovery lease, asks the server for  *)
(* the page at the stored cursor without any lock, and commits page and    *)
(* cursor together if it still owns the lease.  A cycle is a chain of      *)
(* pages that ends with the page that has no next cursor; only then are    *)
(* resources declared unavailable.  Requests may outlive their lease,      *)
(* overlap, fail or die; the server answers whatever it likes.             *)
(***************************************************************************)
EXTENDS Integers, FiniteSets

CONSTANTS
  Uris,       \* resources the server may list
  Cursors,    \* cursors the server may hand out
  Requests,   \* discovery requests in progress at the same time
  Lease,      \* clock ticks a discovery lease lasts
  MaxCycles,  \* bound: cycle ids that are drawn
  None        \* no cursor, no owner

ASSUME DiscoveryAssumption ==
  /\ Lease \in Nat \ {0}
  /\ MaxCycles \in Nat
  /\ None \notin Cursors
  /\ None \notin Requests

VARIABLES
  connection,  \* mcp_connections: cursor, cycle, lease owner, time left
  catalog,     \* mcp_discovered_resources: availability, cycle last seen in
  request,     \* requests in progress
  authorized,  \* connection enabled, credential present, endpoint allowed
  cycles,      \* number of cycle ids drawn so far
  seen,        \* observed: resources on the pages of the open cycle
  complete     \* observed: resources on the pages of the last complete cycle

vars == <<connection, catalog, request, authorized, cycles, seen, complete>>

---------------------------------------------------------------------------
NoCycle == 0
Cycles  == 1 .. MaxCycles

ConnectionRow == [cursor : Cursors \cup {None}, cycle : Cycles \cup {NoCycle},
                  owner : Requests \cup {None}, left : 0 .. Lease]

ResourceRow == [available : BOOLEAN, cycle : Cycles \cup {NoCycle}]
Unknown     == [available |-> FALSE, cycle |-> NoCycle]

Request == [pc : {"idle", "claimed", "listed", "failed"},
            cursor : Cursors \cup {None}, cycle : Cycles \cup {NoCycle},
            page : SUBSET Uris, next : Cursors \cup {None}]
NoRequest == [pc |-> "idle", cursor |-> None, cycle |-> NoCycle,
              page |-> {}, next |-> None]

Init ==
  /\ connection = [cursor |-> None, cycle |-> NoCycle, owner |-> None, left |-> 0]
  /\ catalog = [u \in Uris |-> Unknown]
  /\ request = [q \in Requests |-> NoRequest]
  /\ authorized = TRUE
  /\ cycles = 0
  /\ seen = {}
  /\ complete = {}

---------------------------------------------------------------------------
\* The page is read at the cursor, and counted for the cycle, that the row
\* had when the lease was claimed.  A cycle id that is drawn is stored only
\* by a page that is not the last.
ClaimDiscovery(q) ==
  LET fresh == connection.cycle = NoCycle IN
  /\ request[q].pc = "idle"
  /\ authorized
  /\ connection.left = 0
  /\ fresh => cycles < MaxCycles
  /\ cycles' = IF fresh THEN cycles + 1 ELSE cycles
  /\ connection' = [connection EXCEPT !.owner = q, !.left = Lease]
  /\ request' = [request EXCEPT ![q] =
       [NoRequest EXCEPT !.pc = "claimed", !.cursor = connection.cursor,
          !.cycle = IF fresh THEN cycles' ELSE connection.cycle]]
  /\ UNCHANGED <<catalog, authorized, seen, complete>>

ListResources(q, page, next) ==
  /\ request[q].pc = "claimed"
  /\ request' = [request EXCEPT ![q].pc = "listed", ![q].page = page,
                                ![q].next = next]
  /\ UNCHANGED <<connection, catalog, authorized, cycles, seen, complete>>

\* The server fails, refuses the cursor or answers something invalid, or
\* the transaction of the page fails.
DiscoveryFails(q) ==
  /\ request[q].pc \in {"claimed", "listed"}
  /\ request' = [request EXCEPT ![q] = [NoRequest EXCEPT !.pc = "failed"]]
  /\ UNCHANGED <<connection, catalog, authorized, cycles, seen, complete>>

\* Mutant of OwnsLease: any lease will do.
OwnsLeaseBlind(q) == connection.left > 0

OwnsLease(q) == connection.owner = q /\ connection.left > 0

\* Mutant of Merge: a page replaces what is not on it.
MergeReplacing(page, cycle) ==
  [u \in Uris |-> IF u \in page THEN [available |-> TRUE, cycle |-> cycle]
                  ELSE [catalog[u] EXCEPT !.available = FALSE]]

\* The catalog after the descriptors of a page have been merged.
Merge(page, cycle) ==
  [u \in Uris |-> IF u \in page THEN [available |-> TRUE, cycle |-> cycle]
                  ELSE catalog[u]]

CycleAfter(r) == IF r.next = None THEN NoCycle ELSE r.cycle

CommitPage(q) ==
  LET r == request[q]
      merged == Merge(r.page, r.cycle)
      last == r.next = None
  IN
  /\ r.pc = "listed"
  /\ OwnsLease(q)
  /\ authorized
  /\ catalog' =
       IF last THEN [u \in Uris |-> IF merged[u].cycle = r.cycle THEN merged[u]
                                    ELSE [merged[u] EXCEPT !.available = FALSE]]
       ELSE merged
  /\ connection' = [cursor |-> r.next, cycle |-> CycleAfter(r),
                    owner |-> None, left |-> 0]
  /\ complete' = IF last THEN seen \cup r.page ELSE complete
  /\ seen' = IF last THEN {} ELSE seen \cup r.page
  /\ request' = [request EXCEPT ![q] = NoRequest]
  /\ UNCHANGED <<authorized, cycles>>

RejectPage(q) ==
  /\ request[q].pc = "listed"
  /\ ~(OwnsLease(q) /\ authorized)
  /\ request' = [request EXCEPT ![q] = [NoRequest EXCEPT !.pc = "failed"]]
  /\ UNCHANGED <<connection, catalog, authorized, cycles, seen, complete>>

\* A second transaction gives the lease back, if it is still the request's.
ReportFailure(q) ==
  /\ request[q].pc = "failed"
  /\ connection' = IF connection.owner = q
       THEN [connection EXCEPT !.owner = None, !.left = 0] ELSE connection
  /\ request' = [request EXCEPT ![q] = NoRequest]
  /\ UNCHANGED <<catalog, authorized, cycles, seen, complete>>

Crash(q) ==
  /\ request[q].pc # "idle"
  /\ request' = [request EXCEPT ![q] = NoRequest]
  /\ UNCHANGED <<connection, catalog, authorized, cycles, seen, complete>>

ChangeAuthority ==
  /\ authorized' = ~authorized
  /\ UNCHANGED <<connection, catalog, request, cycles, seen, complete>>

Tick ==
  /\ connection.left > 0
  /\ connection' = [connection EXCEPT !.left = @ - 1]
  /\ UNCHANGED <<catalog, request, authorized, cycles, seen, complete>>

Next ==
  \/ \E q \in Requests :
       \/ ClaimDiscovery(q)
       \/ \E page \in SUBSET Uris, next \in Cursors \cup {None} :
            ListResources(q, page, next)
       \/ DiscoveryFails(q)
       \/ CommitPage(q)
       \/ RejectPage(q)
       \/ ReportFailure(q)
       \/ Crash(q)
  \/ ChangeAuthority
  \/ Tick

Spec == Init /\ [][Next]_vars

---------------------------------------------------------------------------
(* Properties *)

\* Types, and the all-or-none constraints of the connection's row.
TypeOK ==
  /\ connection \in ConnectionRow
  /\ connection.cursor = None <=> connection.cycle = NoCycle
  /\ connection.owner = None => connection.left = 0
  /\ catalog \in [Uris -> ResourceRow]
  /\ request \in [Requests -> Request]
  /\ authorized \in BOOLEAN
  /\ cycles \in 0 .. MaxCycles
  /\ seen \subseteq Uris
  /\ complete \subseteq Uris

\* "Intermediate pages merge observations without negative inference": the
\* catalog offers exactly what the last complete cycle listed and what the
\* open cycle has listed so far, whichever requests overlapped, failed or
\* died, and however stale their pages were.
CatalogIsOfItsCycles ==
  {u \in Uris : catalog[u].available} = complete \cup seen

\* A page is only ever added at the position where the cycle stands: pages
\* of requests that lost their lease never enter, skip or repeat a place.
PagesAreConsecutive ==
  [][\A q \in Requests :
       /\ request[q].pc = "listed"
       /\ connection' # connection \/ catalog' # catalog
       /\ request'[q].pc = "idle"
       => /\ request[q].cursor = connection.cursor
          /\ connection.cycle \in {NoCycle, request[q].cycle}]_vars

\* "Availability reflects the most recently completed full cursor cycle, not
\* an intermediate page" (docs/operator-guide.md).
AvailabilityIsOfLastCycle ==
  {u \in Uris : catalog[u].available} = complete
=============================================================================
