------------------------- MODULE MCPDiscovery_proofs -------------------------
(***************************************************************************)
(* Proofs about MCPDiscovery: the catalog is what the cycles listed, and   *)
(* pages enter where the cycle stands, for every set of resources and      *)
(* cursors, every number of requests and every length of the lease.        *)
(***************************************************************************)
EXTENDS MCPDiscovery, TLAPS

---------------------------------------------------------------------------
(* Type correctness *)

Active(q) == request[q].pc \in {"claimed", "listed"}

\* Cycle ids are drawn in order.
CyclesDrawn ==
  /\ connection.cycle <= cycles
  /\ \A u \in Uris : catalog[u].cycle <= cycles
  /\ \A q \in Requests : Active(q) => request[q].cycle \in 1 .. cycles

TypeInv == TypeOK /\ CyclesDrawn

LEMMA RequestUpdates ==
  /\ NoRequest \in Request
  /\ [NoRequest EXCEPT !.pc = "failed"] \in Request
  /\ \A c \in Cursors \cup {None}, n \in Cycles \cup {NoCycle} :
       [NoRequest EXCEPT !.pc = "claimed", !.cursor = c, !.cycle = n] \in Request
  /\ \A r \in Request, page \in SUBSET Uris, next \in Cursors \cup {None} :
       [r EXCEPT !.pc = "listed", !.page = page, !.next = next] \in Request
BY DEF NoRequest, Request

LEMMA LeaseBounds == 0 \in 0 .. Lease /\ Lease \in 0 .. Lease
BY DiscoveryAssumption

\* The row after a claim, and after a lease is given back.
LEMMA ClaimedRow ==
  ASSUME TypeOK, NEW q \in Requests, ClaimDiscovery(q)
  PROVE  /\ connection' \in ConnectionRow /\ connection'.owner = q
         /\ connection'.cursor = connection.cursor /\ connection'.cycle = connection.cycle
<1>1. connection \in ConnectionRow /\ q \in Requests \cup {None}
  BY DEF TypeOK
<1>2. connection' = [connection EXCEPT !.owner = q, !.left = Lease]
  BY DEF ClaimDiscovery
<1> QED
  BY <1>1, <1>2, LeaseBounds DEF ConnectionRow

LEMMA ReleasedRow ==
  ASSUME TypeOK, NEW q \in Requests, ReportFailure(q)
  PROVE  /\ connection' \in ConnectionRow
         /\ connection'.cursor = connection.cursor /\ connection'.cycle = connection.cycle
         /\ connection'.owner \in {connection.owner, None}
         /\ connection'.owner = None => connection'.left = 0
<1>1. connection \in ConnectionRow /\ (connection.owner = None => connection.left = 0)
  BY DEF TypeOK
<1>2. connection' \in {connection, [connection EXCEPT !.owner = None, !.left = 0]}
  BY DEF ReportFailure
<1>3. CASE connection' = connection
  BY <1>1, <1>3
<1>4. CASE connection' = [connection EXCEPT !.owner = None, !.left = 0]
  BY <1>1, <1>4, LeaseBounds DEF ConnectionRow
<1> QED
  BY <1>2, <1>3, <1>4

\* A request that is idle or failed from now on.
LEMMA RequestEnds ==
  ASSUME TypeInv, NEW q \in Requests, NEW pc \in {"idle", "failed"},
         request' = [request EXCEPT ![q] = [NoRequest EXCEPT !.pc = pc]],
         UNCHANGED <<catalog, cycles>>, connection'.cycle = connection.cycle
  PROVE  request' \in [Requests -> Request] /\ CyclesDrawn'
<1>1. [NoRequest EXCEPT !.pc = pc] \in Request /\ [NoRequest EXCEPT !.pc = pc].pc = pc
  BY DEF NoRequest, Request
<1>2. request' \in [Requests -> Request]
  BY <1>1 DEF TypeInv, TypeOK
<1>3. \A p \in Requests : Active(p)' => Active(p) /\ request'[p] = request[p]
  BY <1>1 DEF TypeInv, TypeOK, Active
<1>4. CyclesDrawn'
  BY <1>3 DEF TypeInv, CyclesDrawn
<1> QED
  BY <1>2, <1>4

LEMMA NoRequestIdle == NoRequest = [NoRequest EXCEPT !.pc = "idle"]
BY DEF NoRequest

\* What a page leaves of the catalog.
LEMMA MergedCatalog ==
  ASSUME TypeInv, NEW page \in SUBSET Uris, NEW cycle \in Cycles
  PROVE  /\ Merge(page, cycle) \in [Uris -> ResourceRow]
         /\ \A u \in page : /\ Merge(page, cycle)[u].available
                            /\ Merge(page, cycle)[u].cycle = cycle
         /\ \A u \in Uris \ page : Merge(page, cycle)[u] = catalog[u]
BY DEF Merge, TypeInv, TypeOK, ResourceRow

Kept(merged, cycle) ==
  [u \in Uris |-> IF merged[u].cycle = cycle THEN merged[u]
                  ELSE [merged[u] EXCEPT !.available = FALSE]]

LEMMA KeptCatalog ==
  ASSUME NEW merged \in [Uris -> ResourceRow], NEW cycle
  PROVE  /\ Kept(merged, cycle) \in [Uris -> ResourceRow]
         /\ \A u \in Uris :
              /\ Kept(merged, cycle)[u].cycle = merged[u].cycle
              /\ Kept(merged, cycle)[u].available <=>
                   merged[u].cycle = cycle /\ merged[u].available
<1>1. ASSUME NEW row \in ResourceRow
      PROVE  /\ [row EXCEPT !.available = FALSE] \in ResourceRow
             /\ [row EXCEPT !.available = FALSE].cycle = row.cycle
             /\ ~[row EXCEPT !.available = FALSE].available
  BY DEF ResourceRow
<1> QED
  BY <1>1 DEF Kept

\* The last page keeps what its cycle listed, every other page keeps all.
LEMMA CommittedCatalog ==
  ASSUME NEW q \in Requests, CommitPage(q)
  PROVE  LET merged == Merge(request[q].page, request[q].cycle)
         IN catalog' = IF request[q].next = None THEN Kept(merged, request[q].cycle)
                                                  ELSE merged
BY DEF CommitPage, Kept

LEMMA TypeStep ==
  ASSUME TypeInv, [Next]_vars
  PROVE  TypeInv'
<1>0. TypeOK /\ CyclesDrawn
  BY DEF TypeInv
<1> SUFFICES TypeOK' /\ CyclesDrawn'
  BY DEF TypeInv
<1>1. ASSUME NEW q \in Requests, ClaimDiscovery(q) PROVE TypeOK' /\ CyclesDrawn'
  <2> PICK n \in Cycles : n = IF connection.cycle = NoCycle THEN cycles + 1 ELSE connection.cycle
    BY <1>0, <1>1, DiscoveryAssumption
    DEF ClaimDiscovery, TypeOK, ConnectionRow, NoCycle, Cycles
  <2>1. request' = [request EXCEPT ![q] =
          [NoRequest EXCEPT !.pc = "claimed", !.cursor = connection.cursor, !.cycle = n]]
    BY <1>1 DEF ClaimDiscovery
  <2>2. cycles' \in 0 .. MaxCycles /\ cycles <= cycles' /\ n \in 1 .. cycles'
    BY <1>0, <1>1, DiscoveryAssumption
    DEF ClaimDiscovery, TypeOK, CyclesDrawn, ConnectionRow, NoCycle, Cycles
  <2>3. connection.cursor \in Cursors \cup {None}
    BY <1>0 DEF TypeOK, ConnectionRow
  <2>4. request' \in [Requests -> Request]
    BY <1>0, <2>1, <2>3, RequestUpdates DEF TypeOK
  <2>5. /\ connection' \in ConnectionRow /\ connection'.owner = q
        /\ connection'.cursor = connection.cursor /\ connection'.cycle = connection.cycle
    BY <1>0, <1>1, ClaimedRow
  <2>6. TypeOK'
    BY <1>0, <1>1, <2>2, <2>4, <2>5, DiscoveryAssumption DEF ClaimDiscovery, TypeOK
  <2>7. request'[q].cycle = n /\ \A p \in Requests \ {q} : request'[p] = request[p]
    BY <1>0, <2>1 DEF TypeOK, NoRequest
  <2>8. connection'.cycle <= cycles' /\ \A u \in Uris : catalog'[u].cycle <= cycles'
    <3>1. connection.cycle \in Int /\ \A u \in Uris : catalog[u].cycle \in Int
      BY <1>0, DiscoveryAssumption DEF TypeOK, ConnectionRow, ResourceRow, Cycles, NoCycle
    <3>2. cycles \in Int /\ cycles' \in Int
      BY <1>0, <2>2, DiscoveryAssumption DEF TypeOK
    <3> QED
      BY <1>0, <1>1, <2>2, <2>5, <3>1, <3>2 DEF ClaimDiscovery, CyclesDrawn
  <2>9. \A p \in Requests : Active(p)' => request'[p].cycle \in 1 .. cycles'
    <3>1. ASSUME NEW p \in Requests \ {q}, Active(p)' PROVE request'[p].cycle \in 1 .. cycles'
      <4>1. request[p].cycle \in 1 .. cycles
        BY <1>0, <2>7, <3>1 DEF CyclesDrawn, Active
      <4>2. cycles \in Int /\ cycles' \in Int
        BY <1>0, <2>2, DiscoveryAssumption DEF TypeOK
      <4> QED
        BY <2>2, <2>7, <4>1, <4>2
    <3> QED
      BY <2>2, <2>7, <3>1
  <2> QED
    BY <2>6, <2>8, <2>9 DEF CyclesDrawn
<1>2. ASSUME NEW q \in Requests, NEW page \in SUBSET Uris, NEW next \in Cursors \cup {None},
             ListResources(q, page, next)
      PROVE  TypeOK' /\ CyclesDrawn'
  <2>1. request[q] \in Request
    BY <1>0 DEF TypeOK
  <2>2. request' \in [Requests -> Request]
    BY <1>0, <1>2, <2>1, RequestUpdates DEF ListResources, TypeOK
  <2>3. TypeOK'
    BY <1>0, <1>2, <2>2 DEF ListResources, TypeOK
  <2>4. \A p \in Requests : Active(p)' => Active(p) /\ request'[p].cycle = request[p].cycle
    BY <1>0, <1>2, <2>1 DEF ListResources, TypeOK, Request, Active
  <2> QED
    BY <1>0, <1>2, <2>3, <2>4 DEF ListResources, CyclesDrawn
<1>3. ASSUME NEW q \in Requests, DiscoveryFails(q) \/ RejectPage(q)
      PROVE  TypeOK' /\ CyclesDrawn'
  <2>1. /\ request' = [request EXCEPT ![q] = [NoRequest EXCEPT !.pc = "failed"]]
        /\ UNCHANGED <<connection, catalog, authorized, cycles, seen, complete>>
    BY <1>3 DEF DiscoveryFails, RejectPage
  <2> QED
    BY <1>0, <2>1, RequestEnds DEF TypeOK
<1>4. ASSUME NEW q \in Requests, CommitPage(q) PROVE TypeOK' /\ CyclesDrawn'
  <2>1. /\ request[q] \in Request /\ Active(q)
        /\ request' = [request EXCEPT ![q] = NoRequest]
        /\ UNCHANGED <<authorized, cycles>>
    BY <1>0, <1>4 DEF CommitPage, TypeOK, Active
  <2>2. request[q].cycle \in 1 .. cycles /\ request[q].cycle \in Cycles
    BY <1>0, <2>1, DiscoveryAssumption DEF CyclesDrawn, TypeOK, Cycles
  <2>3. /\ request[q].page \in SUBSET Uris /\ request[q].next \in Cursors \cup {None}
    BY <2>1 DEF Request
  <2> DEFINE merged == Merge(request[q].page, request[q].cycle)
  <2>4. /\ catalog' \in [Uris -> ResourceRow]
        /\ \A u \in Uris : catalog'[u].cycle \in {catalog[u].cycle, request[q].cycle}
    <3>1. /\ merged \in [Uris -> ResourceRow]
          /\ \A u \in Uris : merged[u].cycle \in {catalog[u].cycle, request[q].cycle}
      BY <2>2, <2>3, MergedCatalog
    <3> QED
      BY <1>4, <3>1, KeptCatalog, CommittedCatalog
  <2>5. /\ connection' \in ConnectionRow
        /\ connection'.cursor = request[q].next
        /\ connection'.cycle = IF request[q].next = None THEN NoCycle ELSE request[q].cycle
        /\ connection'.owner = None /\ connection'.left = 0
    BY <1>4, <2>2, <2>3, DiscoveryAssumption DEF CommitPage, CycleAfter, ConnectionRow
  <2>6. request' \in [Requests -> Request] /\ \A p \in Requests : Active(p)' => request'[p] = request[p]
    BY <1>0, <2>1, RequestUpdates DEF TypeOK, Active, NoRequest
  <2>7. seen' \subseteq Uris /\ complete' \subseteq Uris
    BY <1>0, <1>4, <2>3 DEF CommitPage, TypeOK
  <2>8. request[q].cycle # NoCycle
    BY <2>2 DEF NoCycle, Cycles
  <2>9. TypeOK'
    BY <1>0, <2>1, <2>4, <2>5, <2>6, <2>7, <2>8 DEF TypeOK
  <2>10. connection'.cycle <= cycles'
    BY <1>0, <2>1, <2>2, <2>5 DEF NoCycle, TypeOK
  <2>11. \A u \in Uris : catalog'[u].cycle <= cycles'
    BY <1>0, <2>1, <2>2, <2>4 DEF CyclesDrawn
  <2>12. \A p \in Requests : Active(p)' => request'[p].cycle \in 1 .. cycles'
    BY <1>0, <2>1, <2>6 DEF CyclesDrawn, Active
  <2> QED
    BY <2>9, <2>10, <2>11, <2>12 DEF CyclesDrawn
<1>5. ASSUME NEW q \in Requests, ReportFailure(q) PROVE TypeOK' /\ CyclesDrawn'
  <2>1. /\ request' = [request EXCEPT ![q] = NoRequest]
        /\ UNCHANGED <<catalog, authorized, cycles, seen, complete>>
    BY <1>5 DEF ReportFailure
  <2>2. /\ connection' \in ConnectionRow
        /\ connection'.cursor = connection.cursor /\ connection'.cycle = connection.cycle
        /\ connection'.owner = None => connection'.left = 0
    BY <1>0, <1>5, ReleasedRow
  <2>3. request' \in [Requests -> Request] /\ CyclesDrawn'
    BY <1>0, <2>1, <2>2, RequestEnds, NoRequestIdle DEF TypeInv
  <2> QED
    BY <1>0, <2>1, <2>2, <2>3 DEF TypeOK
<1>6. ASSUME NEW q \in Requests, Crash(q) PROVE TypeOK' /\ CyclesDrawn'
  <2>1. /\ request' = [request EXCEPT ![q] = NoRequest]
        /\ UNCHANGED <<connection, catalog, authorized, cycles, seen, complete>>
    BY <1>6 DEF Crash
  <2>2. request' \in [Requests -> Request] /\ CyclesDrawn'
    BY <1>0, <2>1, RequestEnds, NoRequestIdle DEF TypeInv
  <2> QED
    BY <1>0, <2>1, <2>2 DEF TypeOK
<1>7. CASE ChangeAuthority
  BY <1>0, <1>7 DEF ChangeAuthority, TypeOK, CyclesDrawn, Active
<1>8. CASE Tick
  <2>1. /\ connection' \in ConnectionRow
        /\ connection'.cursor = connection.cursor /\ connection'.cycle = connection.cycle
        /\ connection'.owner = connection.owner
    BY <1>0, <1>8, DiscoveryAssumption DEF Tick, TypeOK, ConnectionRow
  <2>2. connection.owner # None
    BY <1>0, <1>8 DEF Tick, TypeOK
  <2> QED
    BY <1>0, <1>8, <2>1, <2>2 DEF Tick, TypeOK, CyclesDrawn, Active
<1>9. CASE UNCHANGED vars
  BY <1>0, <1>9 DEF vars, TypeOK, CyclesDrawn, Active
<1> QED
  BY <1>1, <1>2, <1>3, <1>4, <1>5, <1>6, <1>7, <1>8, <1>9 DEF Next

LEMMA TypeInit == Init => TypeInv
<1> SUFFICES ASSUME Init PROVE TypeOK /\ CyclesDrawn
  BY DEF TypeInv
<1>1. request \in [Requests -> Request]
  BY RequestUpdates DEF Init
<1>2. catalog \in [Uris -> ResourceRow] /\ connection \in ConnectionRow
  BY DiscoveryAssumption DEF Init, ResourceRow, Unknown, ConnectionRow
<1>3. TypeOK
  BY <1>1, <1>2, DiscoveryAssumption DEF Init, TypeOK
<1>4. CyclesDrawn
  BY DEF Init, CyclesDrawn, Active, NoRequest, NoCycle, Unknown
<1> QED
  BY <1>3, <1>4

\* Types, and the all-or-none constraints of the connection's row.
THEOREM DiscoveryTyped == Spec => []TypeOK
<1>1. TypeInv /\ [Next]_vars => TypeInv'
  BY TypeStep
<1>2. TypeInv => TypeOK
  BY DEF TypeInv
<1> QED
  BY <1>1, <1>2, TypeInit, PTL DEF Spec

---------------------------------------------------------------------------
(* Pages and the catalog *)

\* The request that claimed last stands where the cycle stands; when no cycle is
\* open, its own id is still unused.
OwnerStandsAtTheCycle ==
  \A q \in Requests : Active(q) /\ connection.owner = q =>
    /\ request[q].cursor = connection.cursor
    /\ \/ connection.cycle = request[q].cycle
       \/ /\ connection.cycle = NoCycle
          /\ \A u \in Uris : catalog[u].cycle # request[q].cycle

\* The resources of the open cycle carry its id.
SeenIsOfTheCycle ==
  seen = IF connection.cycle = NoCycle THEN {}
         ELSE {u \in Uris : catalog[u].cycle = connection.cycle}

CatalogInv ==
  TypeInv /\ OwnerStandsAtTheCycle /\ SeenIsOfTheCycle /\ CatalogIsOfItsCycles

\* What a request that does not commit a page leaves as it is.
LEMMA CatalogKept ==
  ASSUME CatalogInv, TypeInv', UNCHANGED <<catalog, seen, complete>>,
         connection'.cursor = connection.cursor, connection'.cycle = connection.cycle,
         \A q \in Requests : Active(q)' /\ connection'.owner = q =>
           /\ Active(q) /\ connection.owner = q
           /\ request'[q].cursor = request[q].cursor
           /\ request'[q].cycle = request[q].cycle
  PROVE  CatalogInv'
BY DEF CatalogInv, OwnerStandsAtTheCycle, SeenIsOfTheCycle, CatalogIsOfItsCycles

LEMMA CatalogStep ==
  ASSUME CatalogInv, [Next]_vars
  PROVE  CatalogInv'
<1>0. TypeInv /\ TypeInv' /\ TypeOK
  BY TypeStep DEF CatalogInv, TypeInv
<1>1. ASSUME NEW q \in Requests, ClaimDiscovery(q) PROVE CatalogInv'
  <2>1. /\ connection'.owner = q
        /\ connection'.cursor = connection.cursor /\ connection'.cycle = connection.cycle
    BY <1>0, <1>1, ClaimedRow
  <2>2. /\ request'[q].cursor = connection.cursor
        /\ request'[q].cycle = IF connection.cycle = NoCycle THEN cycles + 1 ELSE connection.cycle
    BY <1>0, <1>1 DEF ClaimDiscovery, TypeOK, NoRequest
  <2>3. \A u \in Uris : catalog[u].cycle # cycles + 1
    <3>1. ASSUME NEW u \in Uris PROVE catalog[u].cycle # cycles + 1
      <4>1. catalog[u].cycle <= cycles /\ cycles \in Int /\ catalog[u].cycle \in Int
        BY <1>0, DiscoveryAssumption DEF TypeInv, TypeOK, CyclesDrawn, ResourceRow, Cycles, NoCycle
      <4> QED
        BY <4>1
    <3> QED
      BY <3>1
  <2>4. UNCHANGED <<catalog, seen, complete>>
    BY <1>1 DEF ClaimDiscovery
  <2>5. OwnerStandsAtTheCycle'
    BY <2>1, <2>2, <2>3, <2>4 DEF OwnerStandsAtTheCycle
  <2> QED
    BY <1>0, <2>1, <2>4, <2>5 DEF CatalogInv, SeenIsOfTheCycle, CatalogIsOfItsCycles
<1>2. ASSUME NEW q \in Requests, NEW page \in SUBSET Uris, NEW next \in Cursors \cup {None},
             ListResources(q, page, next)
      PROVE  CatalogInv'
  <2>1. request[q] \in Request
    BY <1>0 DEF TypeOK
  <2>2. \A p \in Requests : Active(p)' => /\ Active(p)
                                          /\ request'[p].cursor = request[p].cursor
                                          /\ request'[p].cycle = request[p].cycle
    BY <1>0, <1>2, <2>1 DEF ListResources, TypeOK, Request, Active
  <2>3. UNCHANGED <<connection, catalog, seen, complete>>
    BY <1>2 DEF ListResources
  <2> QED
    BY <1>0, <2>2, <2>3, CatalogKept
<1>3. ASSUME NEW q \in Requests, DiscoveryFails(q) \/ RejectPage(q) \/ Crash(q)
      PROVE  CatalogInv'
  <2>1. /\ request' \in {[request EXCEPT ![q] = [NoRequest EXCEPT !.pc = "failed"]],
                         [request EXCEPT ![q] = NoRequest]}
        /\ UNCHANGED <<connection, catalog, seen, complete>>
    BY <1>3 DEF DiscoveryFails, RejectPage, Crash
  <2>2. \A p \in Requests : Active(p)' => Active(p) /\ request'[p] = request[p]
    BY <1>0, <2>1 DEF TypeOK, NoRequest, Active
  <2> QED
    BY <1>0, <2>1, <2>2, CatalogKept
<1>4. ASSUME NEW q \in Requests, CommitPage(q) PROVE CatalogInv'
  <2> PICK page \in SUBSET Uris, cycle \in Cycles :
        page = request[q].page /\ cycle = request[q].cycle
    <3>1. request[q] \in Request /\ Active(q)
      BY <1>0, <1>4 DEF TypeOK, CommitPage, Active
    <3>2. request[q].cycle \in 1 .. cycles /\ cycles \in 0 .. MaxCycles
      BY <1>0, <3>1 DEF TypeInv, TypeOK, CyclesDrawn
    <3>3. request[q].cycle \in Cycles
      BY <3>2, DiscoveryAssumption DEF Cycles
    <3>4. request[q].page \in SUBSET Uris
      BY <3>1 DEF Request
    <3> QED
      BY <3>3, <3>4
  <2>1. Active(q) /\ connection.owner = q
    BY <1>4 DEF CommitPage, OwnsLease, Active
  <2>2. cycle # NoCycle
    BY DEF Cycles, NoCycle
  <2>3. {u \in Uris : catalog[u].cycle = cycle} = seen
    <3>1. CASE connection.cycle = cycle
      BY <2>2, <3>1 DEF CatalogInv, SeenIsOfTheCycle
    <3>2. CASE connection.cycle # cycle
      BY <2>1, <3>2 DEF CatalogInv, SeenIsOfTheCycle, OwnerStandsAtTheCycle
    <3> QED
      BY <3>1, <3>2
  <2>4. {u \in Uris : catalog[u].available} = complete \cup seen
    BY DEF CatalogInv, CatalogIsOfItsCycles
  <2>5. connection'.owner = None
    BY <1>4 DEF CommitPage
  <2>6. OwnerStandsAtTheCycle'
    BY <2>5, DiscoveryAssumption DEF OwnerStandsAtTheCycle
  <2>7. /\ Merge(page, cycle) \in [Uris -> ResourceRow]
        /\ {u \in Uris : Merge(page, cycle)[u].cycle = cycle} = seen \cup page
        /\ {u \in Uris : Merge(page, cycle)[u].available} = complete \cup seen \cup page
    <3>1. /\ Merge(page, cycle) \in [Uris -> ResourceRow]
          /\ \A u \in page : Merge(page, cycle)[u].available /\ Merge(page, cycle)[u].cycle = cycle
          /\ \A u \in Uris \ page : Merge(page, cycle)[u] = catalog[u]
      BY ZenonT(40), <1>0, MergedCatalog
    <3>2. {u \in Uris : Merge(page, cycle)[u].cycle = cycle} = seen \cup page
      BY <2>3, <3>1
    <3>3. {u \in Uris : Merge(page, cycle)[u].available} = complete \cup seen \cup page
      BY <2>4, <3>1
    <3> QED
      BY <3>1, <3>2, <3>3
  <2>8. CASE request[q].next = None
    <3>1. catalog' = Kept(Merge(page, cycle), cycle)
      BY <1>4, <2>8, CommittedCatalog
    <3>2. /\ connection'.cycle = NoCycle
          /\ complete' = seen \cup page /\ seen' = {}
      BY <1>4, <2>8 DEF CommitPage, CycleAfter
    <3>3. \A u \in Uris : catalog'[u].available <=>
            Merge(page, cycle)[u].cycle = cycle /\ Merge(page, cycle)[u].available
      BY <2>7, <3>1, KeptCatalog
    <3>4. {u \in Uris : catalog'[u].available} = seen \cup page
      BY <2>7, <3>3
    <3> QED
      BY <1>0, <2>6, <3>2, <3>4 DEF CatalogInv, SeenIsOfTheCycle, CatalogIsOfItsCycles
  <2>9. CASE request[q].next # None
    <3>1. catalog' = Merge(page, cycle)
      BY <1>4, <2>9, CommittedCatalog
    <3>2. /\ connection'.cycle = cycle
          /\ complete' = complete /\ seen' = seen \cup page
      BY <1>4, <2>9 DEF CommitPage, CycleAfter
    <3>3. SeenIsOfTheCycle' /\ CatalogIsOfItsCycles'
      BY <2>2, <2>7, <3>1, <3>2 DEF SeenIsOfTheCycle, CatalogIsOfItsCycles
    <3> QED
      BY <1>0, <2>6, <3>3 DEF CatalogInv
  <2> QED
    BY <2>8, <2>9
<1>5. ASSUME NEW q \in Requests, ReportFailure(q) PROVE CatalogInv'
  <2>1. /\ request' = [request EXCEPT ![q] = NoRequest]
        /\ UNCHANGED <<catalog, seen, complete>>
    BY <1>5 DEF ReportFailure
  <2>2. /\ connection'.cursor = connection.cursor /\ connection'.cycle = connection.cycle
        /\ connection'.owner \in {connection.owner, None}
    BY <1>0, <1>5, ReleasedRow
  <2>3. \A p \in Requests : Active(p)' => Active(p) /\ request'[p] = request[p]
    BY <1>0, <2>1 DEF TypeOK, NoRequest, Active
  <2> QED
    BY <1>0, <2>1, <2>2, <2>3, DiscoveryAssumption, CatalogKept
<1>6. CASE ChangeAuthority
  <2>1. UNCHANGED <<connection, catalog, request, seen, complete>>
    BY <1>6 DEF ChangeAuthority
  <2> QED
    BY <1>0, <2>1, CatalogKept DEF Active
<1>7. CASE Tick
  <2>1. UNCHANGED <<catalog, request, seen, complete>>
    BY <1>7 DEF Tick
  <2>2. /\ connection'.cursor = connection.cursor /\ connection'.cycle = connection.cycle
        /\ connection'.owner = connection.owner
    BY <1>0, <1>7 DEF Tick, TypeOK, ConnectionRow
  <2> QED
    BY <1>0, <2>1, <2>2, CatalogKept DEF Active
<1>8. CASE UNCHANGED vars
  <2>1. UNCHANGED <<connection, catalog, request, seen, complete>>
    BY <1>8 DEF vars
  <2> QED
    BY <1>0, <2>1, CatalogKept DEF Active
<1> QED
  BY <1>1, <1>2, <1>3, <1>4, <1>5, <1>6, <1>7, <1>8 DEF Next

LEMMA CatalogInit == Init => CatalogInv
BY TypeInit DEF Init, CatalogInv, OwnerStandsAtTheCycle, SeenIsOfTheCycle, CatalogIsOfItsCycles,
   Active, NoRequest, Unknown

\* The catalog offers what the last complete cycle and the open one have listed,
\* whichever requests overlapped, failed or died.
THEOREM CatalogOfCycles == Spec => []CatalogIsOfItsCycles
<1>1. CatalogInv /\ [Next]_vars => CatalogInv'
  BY CatalogStep
<1>2. CatalogInv => CatalogIsOfItsCycles
  BY DEF CatalogInv
<1> QED
  BY <1>1, <1>2, CatalogInit, PTL DEF Spec

\* A page enters only at the position where the cycle stands.
THEOREM ConsecutivePages == Spec => PagesAreConsecutive
<1> DEFINE Consecutive ==
      \A q \in Requests :
        /\ request[q].pc = "listed"
        /\ connection' # connection \/ catalog' # catalog
        /\ request'[q].pc = "idle"
        => /\ request[q].cursor = connection.cursor
           /\ connection.cycle \in {NoCycle, request[q].cycle}
<1>1. CatalogInv /\ [Next]_vars => [Consecutive]_vars
  <2> SUFFICES ASSUME CatalogInv, Next, NEW q \in Requests,
                      request[q].pc = "listed",
                      connection' # connection \/ catalog' # catalog,
                      request'[q].pc = "idle"
               PROVE  /\ request[q].cursor = connection.cursor
                      /\ connection.cycle \in {NoCycle, request[q].cycle}
    BY DEF vars
  <2>1. CommitPage(q)
    <3>1. TypeOK
      BY DEF CatalogInv, TypeInv
    <3>2. ASSUME NEW p \in Requests, p # q, request'[q] # request[q]
          PROVE  /\ ~ClaimDiscovery(p) /\ ~DiscoveryFails(p) /\ ~CommitPage(p)
                 /\ ~RejectPage(p) /\ ~ReportFailure(p) /\ ~Crash(p)
                 /\ \A page, next : ~ListResources(p, page, next)
      BY <3>1, <3>2 DEF ClaimDiscovery, DiscoveryFails, CommitPage, RejectPage, ReportFailure,
         Crash, ListResources, TypeOK
    <3>3. /\ ~ClaimDiscovery(q) /\ ~DiscoveryFails(q) /\ ~RejectPage(q) /\ ~ReportFailure(q)
          /\ ~Crash(q) /\ \A page, next : ~ListResources(q, page, next)
      BY <3>1 DEF ClaimDiscovery, DiscoveryFails, RejectPage, ReportFailure, Crash,
         ListResources, TypeOK
    <3>4. ~ChangeAuthority /\ ~Tick
      BY DEF ChangeAuthority, Tick
    <3> QED
      BY <3>2, <3>3, <3>4 DEF Next
  <2>2. Active(q) /\ connection.owner = q
    BY <2>1 DEF CommitPage, OwnsLease, Active
  <2> QED
    BY <2>2 DEF CatalogInv, OwnerStandsAtTheCycle
<1>2. CatalogInv /\ [Next]_vars => CatalogInv'
  BY CatalogStep
<1> QED
  BY <1>1, <1>2, CatalogInit, PTL DEF Spec, PagesAreConsecutive
=============================================================================
