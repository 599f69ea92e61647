--------------------------- MODULE Documents_proofs ---------------------------
(***************************************************************************)
(* Proofs about Documents: versions never collide, a decision about an     *)
(* ingestion is final, an ingestion becomes one document and links point   *)
(* where they should, for every number of documents, titles, ingestions    *)
(* and requests.                                                           *)
(***************************************************************************)
EXTENDS Documents, FiniteSetTheorems, SequenceTheorems, TLAPS

---------------------------------------------------------------------------
(* Type correctness *)

\* What a request knows at each point of its work.
RequestInv(m) ==
  /\ m \in Request
  /\ m.pc # "idle" => m.path \in Paths /\ m.title \in Titles /\ m.version + 1 \in 1 .. MaxVersion
  /\ m.pc \in {"linking", "selecting", "resolving"} => m.at \in Titles
  /\ m.pc = "idle" => m.run = Nothing
  /\ m.run \in Runs <=> m.kind = "promote"
  /\ m.kind # "update" => m.version = 0

\* A document that exists has a title; one that does not has no links.
RowInv(p) ==
  /\ doc[p].version # 0 => doc[p].title \in Titles
  /\ doc[p].version = 0 => doc[p].origin = Nothing /\ \A t \in Titles : link[p][t] = NoLink

TypeInv ==
  /\ TypeOK
  /\ \A x \in Requests : RequestInv(tx[x])
  /\ \A p \in Paths : RowInv(p)
  /\ \A r \in Runs : review[r].status = "pending" => review[r].text \in Texts

LEMMA IdleTyped == RequestInv(Idle) /\ Idle \in Request /\ Idle.pc = "idle" /\ Idle.run = Nothing
<1>1. Idle \in Request /\ Idle.pc = "idle" /\ Idle.run = Nothing /\ Idle.kind = "create"
      /\ Idle.version = 0
  BY DocumentsAssumption DEF Idle, Request, Linked
<1> QED
  BY <1>1, DocumentsAssumption DEF RequestInv

\* matching_documents returns a document or nothing.
LEMMA OnlyTyped ==
  ASSUME NEW S \in SUBSET Paths PROVE OnlyOf(S) \in Linked
<1>1. CASE Cardinality(S) = 1
  <2>1. S # {}
    BY <1>1, FS_EmptySet
  <2>2. (CHOOSE p \in S : TRUE) \in S
    BY <2>1
  <2> QED
    BY <1>1, <2>2 DEF OnlyOf, Linked
<1>2. CASE Cardinality(S) # 1
  BY <1>2 DEF OnlyOf, Linked
<1> QED
  BY <1>1, <1>2

\* The links a request sees are rows of the table or its own.
LEMMA SeenTyped ==
  ASSUME TypeInv, NEW x \in Requests, NEW t \in Titles
  PROVE  LinksSeen(x, t) \subseteq LinkRow
<1>1. tx[x].writes \subseteq LinkRow
  BY DEF TypeInv, RequestInv, Request
<1>2. ASSUME NEW p \in Paths, link[p][t] # NoLink
      PROVE  [doc |-> p, version |-> doc[p].version, title |-> t, target |-> link[p][t]] \in LinkRow
  <2>1. link[p][t] \in Linked /\ doc[p] \in DocumentRow
    BY <1>2 DEF TypeInv, TypeOK
  <2>2. doc[p].version \in 1 .. MaxVersion
    BY <1>2, <2>1, DocumentsAssumption DEF TypeInv, RowInv, DocumentRow
  <2> QED
    BY <2>1, <2>2 DEF LinkRow
<1> QED
  BY <1>1, <1>2 DEF LinksSeen

\* The statement a request makes next leaves kind, path, run and version alone.
Works(x, m) ==
  /\ Active(x) /\ m.pc # "idle"
  /\ m.kind = tx[x].kind /\ m.path = tx[x].path /\ m.run = tx[x].run
  /\ m.version = tx[x].version /\ m.title = tx[x].title
  /\ tx' = [tx EXCEPT ![x] = m]
  /\ UNCHANGED <<doc, link, review, contended>>

LEMMA WorkTyped ==
  ASSUME TypeInv, NEW x \in Requests
  PROVE  /\ InsertDocument(x) => \E m : /\ RequestInv(m) /\ Works(x, m)
                                        /\ tx[x].pc = "inserting" /\ doc[tx[x].path].version = 0
                                        /\ \A y \in Others(x) :
                                             ~(Inserted(y) /\ tx[y].path = tx[x].path)
         /\ (\/ RetireLinks(x) \/ (\E t \in Titles : MatchLink(x, t)) \/ WriteLink(x)
             \/ MatchTitle(x) \/ SelectLinks(x) \/ ResolveLinks(x))
              => \E m : RequestInv(m) /\ Works(x, m) /\ tx[x].pc # "inserting"
<1>0. /\ tx[x] \in Request /\ RequestInv(tx[x]) /\ tx \in [Requests -> Request]
      /\ tx[x].version \in 0 .. MaxVersion
  BY DEF TypeInv, TypeOK, RequestInv, Request
<1>1. ASSUME InsertDocument(x)
      PROVE  \E m : RequestInv(m) /\ Works(x, m)
  <2> DEFINE m == [tx[x] EXCEPT !.pc = "matching"]
  <2>1. /\ m \in Request /\ m.pc = "matching" /\ m.kind = tx[x].kind /\ m.path = tx[x].path
        /\ m.run = tx[x].run /\ m.version = tx[x].version /\ m.title = tx[x].title
    BY <1>0 DEF Request
  <2>2. /\ tx[x].pc = "inserting" /\ tx' = [tx EXCEPT ![x] = m]
        /\ UNCHANGED <<doc, link, review, contended>>
    BY <1>1 DEF InsertDocument, Set
  <2> HIDE DEF m
  <2> QED
    BY <1>0, <2>1, <2>2 DEF RequestInv, Works, Active
<1>2. ASSUME RetireLinks(x) PROVE \E m : RequestInv(m) /\ Works(x, m)
  <2> DEFINE m == [tx[x] EXCEPT !.pc = "matching"]
  <2>1. /\ m \in Request /\ m.pc = "matching" /\ m.kind = tx[x].kind /\ m.path = tx[x].path
        /\ m.run = tx[x].run /\ m.version = tx[x].version /\ m.title = tx[x].title
    BY <1>0 DEF Request
  <2>2. /\ tx[x].pc = "retiring" /\ tx' = [tx EXCEPT ![x] = m]
        /\ UNCHANGED <<doc, link, review, contended>>
    BY <1>2 DEF RetireLinks, Set
  <2> HIDE DEF m
  <2> QED
    BY <1>0, <2>1, <2>2 DEF RequestInv, Works, Active
<1>3. ASSUME NEW t \in Titles, MatchLink(x, t) PROVE \E m : RequestInv(m) /\ Works(x, m)
  <2> PICK only \in Linked : only = OnlyDocument(x, t)
    BY OnlyTyped DEF OnlyDocument
  <2> DEFINE m == [tx[x] EXCEPT !.pc = "linking", !.todo = @ \ {t}, !.at = t, !.target = only]
  <2>1. /\ m \in Request /\ m.pc = "linking" /\ m.kind = tx[x].kind /\ m.path = tx[x].path
        /\ m.run = tx[x].run /\ m.version = tx[x].version /\ m.title = tx[x].title /\ m.at = t
    BY <1>0 DEF Request
  <2>2. /\ tx[x].pc = "matching" /\ tx' = [tx EXCEPT ![x] = m]
        /\ UNCHANGED <<doc, link, review, contended>>
    BY <1>3 DEF MatchLink, Set
  <2> HIDE DEF m
  <2> QED
    BY <1>0, <2>1, <2>2 DEF RequestInv, Works, Active
<1>4. ASSUME WriteLink(x) PROVE \E m : RequestInv(m) /\ Works(x, m)
  <2> DEFINE row == [doc |-> tx[x].path, version |-> tx[x].version + 1,
                     title |-> tx[x].at, target |-> tx[x].target]
             m == [tx[x] EXCEPT !.pc = "matching", !.at = Nothing, !.target = Nothing,
                                !.writes = @ \cup {row}]
  <2>0. tx[x].pc = "linking" /\ tx' = [tx EXCEPT ![x] = m]
        /\ UNCHANGED <<doc, link, review, contended>>
    BY <1>4 DEF WriteLink, Set
  <2>1. row \in LinkRow
    BY <1>0, <2>0 DEF LinkRow, RequestInv, Request
  <2> HIDE DEF row
  <2>2. /\ m \in Request /\ m.pc = "matching" /\ m.kind = tx[x].kind /\ m.path = tx[x].path
        /\ m.run = tx[x].run /\ m.version = tx[x].version /\ m.title = tx[x].title
    BY ZenonT(40), <1>0, <2>1 DEF Request, Linked
  <2> HIDE DEF m
  <2> QED
    BY <1>0, <2>0, <2>2 DEF RequestInv, Works, Active
<1>5. ASSUME MatchTitle(x) PROVE \E m : RequestInv(m) /\ Works(x, m)
  <2>0. tx[x].queue \in Seq(Titles) /\ tx[x].queue # <<>>
    BY <1>0, <1>5 DEF MatchTitle, Request
  <2> PICK t \in Titles, rest \in Seq(Titles) : t = Head(tx[x].queue) /\ rest = Tail(tx[x].queue)
    BY <2>0, HeadTailProperties
  <2> PICK only \in Linked : only = OnlyDocument(x, t)
    BY OnlyTyped DEF OnlyDocument
  <2> DEFINE m == [tx[x] EXCEPT !.pc = "selecting", !.at = t, !.target = only, !.queue = rest]
  <2>1. /\ m \in Request /\ m.pc = "selecting" /\ m.kind = tx[x].kind /\ m.path = tx[x].path
        /\ m.run = tx[x].run /\ m.version = tx[x].version /\ m.title = tx[x].title /\ m.at = t
    BY ZenonT(40), <1>0 DEF Request
  <2>2. /\ tx[x].pc = "matching" /\ tx' = [tx EXCEPT ![x] = m]
        /\ UNCHANGED <<doc, link, review, contended>>
    BY <1>5 DEF MatchTitle, Set
  <2> HIDE DEF m
  <2> QED
    BY <1>0, <2>1, <2>2 DEF RequestInv, Works, Active
<1>6. ASSUME SelectLinks(x) PROVE \E m : RequestInv(m) /\ Works(x, m)
  <2> DEFINE picked == {w \in LinksSeen(x, tx[x].at) : w.target # tx[x].target}
             m == [tx[x] EXCEPT !.pc = "resolving", !.picked = picked]
  <2>0. tx[x].pc = "selecting" /\ tx' = [tx EXCEPT ![x] = m]
        /\ UNCHANGED <<doc, link, review, contended>>
    BY <1>6 DEF SelectLinks, Set
  <2>1. tx[x].at \in Titles
    BY <1>0, <2>0 DEF RequestInv
  <2>2. picked \subseteq LinkRow
    BY <2>1, SeenTyped
  <2> HIDE DEF picked
  <2>3. /\ m \in Request /\ m.pc = "resolving" /\ m.kind = tx[x].kind /\ m.path = tx[x].path
        /\ m.run = tx[x].run /\ m.version = tx[x].version /\ m.title = tx[x].title
        /\ m.at = tx[x].at
    BY <1>0, <2>2 DEF Request
  <2> HIDE DEF m
  <2> QED
    BY <1>0, <2>0, <2>1, <2>3 DEF RequestInv, Works, Active
<1>7. ASSUME ResolveLinks(x) PROVE \E m : RequestInv(m) /\ Works(x, m)
  <2> DEFINE new == {[w EXCEPT !.target = tx[x].target] : w \in tx[x].picked}
             m == [tx[x] EXCEPT !.pc = "matching", !.at = Nothing, !.target = Nothing,
                                !.picked = {}, !.writes = (@ \ tx[x].picked) \cup new]
  <2>0. tx[x].pc = "resolving" /\ tx' = [tx EXCEPT ![x] = m]
        /\ UNCHANGED <<doc, link, review, contended>>
    BY <1>7 DEF ResolveLinks, Set
  <2>1. new \subseteq LinkRow
    BY <1>0 DEF Request, LinkRow
  <2> HIDE DEF new
  <2>2. /\ m \in Request /\ m.pc = "matching" /\ m.kind = tx[x].kind /\ m.path = tx[x].path
        /\ m.run = tx[x].run /\ m.version = tx[x].version /\ m.title = tx[x].title
    BY ZenonT(40), <1>0, <2>1 DEF Request, Linked
  <2> HIDE DEF m
  <2> QED
    BY <1>0, <2>0, <2>2 DEF RequestInv, Works, Active
<1>8. InsertDocument(x) => /\ tx[x].pc = "inserting" /\ doc[tx[x].path].version = 0
                           /\ \A y \in Others(x) : ~(Inserted(y) /\ tx[y].path = tx[x].path)
  BY DEF InsertDocument
<1>9. (\/ RetireLinks(x) \/ (\E t \in Titles : MatchLink(x, t)) \/ WriteLink(x)
       \/ MatchTitle(x) \/ SelectLinks(x) \/ ResolveLinks(x)) => tx[x].pc # "inserting"
  BY DEF RetireLinks, MatchLink, WriteLink, MatchTitle, SelectLinks, ResolveLinks
<1> QED
  BY <1>1, <1>2, <1>3, <1>4, <1>5, <1>6, <1>7, <1>8, <1>9

\* What a step of another request leaves alone.
Kept(y) ==
  /\ tx'[y].pc = tx[y].pc /\ tx'[y].kind = tx[y].kind /\ tx'[y].path = tx[y].path
  /\ tx'[y].run = tx[y].run /\ tx'[y].version = tx[y].version

\* A request begins; the others only note what it is about.
LEMMA Beginning ==
  ASSUME TypeInv, NEW x \in Requests, NEW m, RequestInv(m), m.pc # "idle", Begin(x, m)
  PROVE  /\ ~Active(x) /\ UNCHANGED <<doc, link, review, contended>>
         /\ tx' \in [Requests -> Request]
         /\ \A y \in Requests : RequestInv(tx'[y])
         /\ tx'[x].pc = m.pc /\ tx'[x].kind = m.kind /\ tx'[x].path = m.path
         /\ tx'[x].run = m.run /\ tx'[x].version = m.version
         /\ \A y \in Requests \ {x} : Kept(y)
<1>0. m \in Request /\ tx \in [Requests -> Request] /\ \A y \in Requests : RequestInv(tx[y])
  BY DEF TypeInv, TypeOK, RequestInv
<1> DEFINE touched == ({m.title} \cup m.todo \cup {m.previous}) \ {Nothing}
           seen    == UNION {tx[y].touches : y \in Others(x)}
<1>1. touched \subseteq Titles /\ seen \subseteq Titles
  BY <1>0 DEF Request, Others
<1>2. tx' = [y \in Requests |->
               IF y = x THEN [m EXCEPT !.touches = touched, !.met = seen]
               ELSE IF Active(y) THEN [tx[y] EXCEPT !.met = @ \cup touched]
               ELSE tx[y]]
  BY DEF Begin
<1>3. ~Active(x) /\ UNCHANGED <<doc, link, review, contended>>
  BY DEF Begin
<1> HIDE DEF touched, seen
<1>4. /\ tx'[x] \in Request /\ RequestInv(tx'[x]) /\ tx'[x].pc = m.pc /\ tx'[x].kind = m.kind
      /\ tx'[x].path = m.path /\ tx'[x].run = m.run /\ tx'[x].version = m.version
  <2> DEFINE n == [m EXCEPT !.touches = touched, !.met = seen]
  <2>1. tx'[x] = n
    BY <1>2
  <2>2. /\ n \in Request /\ n.pc = m.pc /\ n.kind = m.kind /\ n.path = m.path
        /\ n.run = m.run /\ n.version = m.version /\ n.title = m.title /\ n.at = m.at
    BY <1>0, <1>1 DEF Request
  <2> HIDE DEF n
  <2> QED
    BY <2>1, <2>2 DEF RequestInv
<1>5. ASSUME NEW y \in Requests \ {x}
      PROVE  tx'[y] \in Request /\ RequestInv(tx'[y]) /\ Kept(y)
  <2>1. CASE Active(y)
    <3> DEFINE n == [tx[y] EXCEPT !.met = @ \cup touched]
    <3>1. tx'[y] = n
      BY <1>2, <2>1
    <3>2. /\ n \in Request /\ n.pc = tx[y].pc /\ n.kind = tx[y].kind /\ n.path = tx[y].path
          /\ n.run = tx[y].run /\ n.version = tx[y].version /\ n.title = tx[y].title
          /\ n.at = tx[y].at
      BY ZenonT(40), <1>0, <1>1 DEF Request
    <3> HIDE DEF n
    <3>3. RequestInv(tx[y])
      BY <1>0
    <3>4. RequestInv(n)
      BY <3>2, <3>3 DEF RequestInv
    <3> QED
      BY <3>1, <3>2, <3>4 DEF Kept
  <2>2. CASE ~Active(y)
    BY <1>0, <1>2, <2>2 DEF Kept
  <2> QED
    BY <2>1, <2>2
<1>6. tx' \in [Requests -> Request]
  BY <1>2, <1>4, <1>5
<1> QED
  BY <1>3, <1>4, <1>5, <1>6

\* How each kind of request begins.
Begins(x, kind, p, r, version) ==
  /\ ~Active(x) /\ UNCHANGED <<doc, link, review, contended>>
  /\ tx' \in [Requests -> Request]
  /\ \A y \in Requests : RequestInv(tx'[y])
  /\ tx'[x].pc = (IF kind = "update" THEN "retiring" ELSE "inserting")
  /\ tx'[x].kind = kind /\ tx'[x].path = p /\ tx'[x].run = r /\ tx'[x].version = version
  /\ \A y \in Requests \ {x} : Kept(y)

LEMMA CreationTyped ==
  ASSUME NEW p \in Paths, NEW text \in Texts, NEW kind \in {"create", "promote"},
         NEW r \in Runs \cup {Nothing}, kind = "promote" <=> r \in Runs
  PROVE  /\ RequestInv(Creation(kind, p, r, text))
         /\ Creation(kind, p, r, text).pc = "inserting"
         /\ Creation(kind, p, r, text).kind = kind /\ Creation(kind, p, r, text).path = p
         /\ Creation(kind, p, r, text).run = r /\ Creation(kind, p, r, text).version = 0
<1>0. text.title \in Titles /\ text.links \subseteq Titles
  BY DocumentsAssumption
<1> DEFINE m == [Idle EXCEPT !.pc = "inserting", !.kind = kind, !.path = p, !.run = r,
                             !.title = text.title, !.todo = text.links,
                             !.queue = <<text.title>>]
<1>1. <<text.title>> \in Seq(Titles)
  BY <1>0
<1>2. /\ m \in Request /\ m.pc = "inserting" /\ m.kind = kind /\ m.path = p /\ m.run = r
      /\ m.version = 0 /\ m.title = text.title
  BY ZenonT(40), <1>0, <1>1, IdleTyped DEF Request, Idle, Linked
<1>3. Creation(kind, p, r, text) = m
  BY DEF Creation
<1> HIDE DEF m
<1> QED
  BY <1>0, <1>2, <1>3, DocumentsAssumption DEF RequestInv

LEMMA BeginTyped ==
  ASSUME TypeInv, NEW x \in Requests, NEW p \in Paths
  PROVE  /\ \A text \in Texts : BeginCreate(x, p, text) => Begins(x, "create", p, Nothing, 0)
         /\ \A text \in Texts : BeginUpdate(x, p, text) =>
              /\ Begins(x, "update", p, Nothing, doc[p].version)
              /\ doc[p].version # 0 /\ ~LockedForUpdate(p, x)
         /\ \A r \in Runs : BeginPromote(x, p, r) =>
              /\ Begins(x, "promote", p, r, 0)
              /\ review[r].status = "pending" /\ RunFree(r)
<1>1. ASSUME NEW text \in Texts, BeginCreate(x, p, text) PROVE Begins(x, "create", p, Nothing, 0)
  BY <1>1, Beginning, CreationTyped, DocumentsAssumption DEF BeginCreate, Begins
<1>2. ASSUME NEW text \in Texts, BeginUpdate(x, p, text)
      PROVE  /\ Begins(x, "update", p, Nothing, doc[p].version)
             /\ doc[p].version # 0 /\ ~LockedForUpdate(p, x)
  <2>0. text.title \in Titles /\ text.links \subseteq Titles
    BY DocumentsAssumption
  <2>1. /\ doc[p].version \in 1 .. MaxVersion - 1 /\ ~LockedForUpdate(p, x)
        /\ doc[p].version # 0 /\ MaxVersion \in Nat
    BY <1>2, DocumentsAssumption DEF BeginUpdate, DocumentFree
  <2>2. doc[p].title \in Titles
    BY <2>1 DEF TypeInv, RowInv
  <2>3. Retitled(doc[p].title, text.title) \in Seq(Titles)
    BY <2>0, <2>2 DEF Retitled
  <2> PICK version \in 0 .. MaxVersion, queue \in Seq(Titles), previous \in Titles,
           title \in Titles, links \in SUBSET Titles :
        /\ version = doc[p].version /\ queue = Retitled(doc[p].title, text.title)
        /\ previous = doc[p].title /\ title = text.title /\ links = text.links
    BY <2>0, <2>1, <2>2, <2>3
  <2> DEFINE m == [Idle EXCEPT !.pc = "retiring", !.kind = "update", !.path = p,
                               !.title = title, !.todo = links, !.previous = previous,
                               !.version = version, !.queue = queue]
  <2>4. /\ m \in Request /\ m.pc = "retiring" /\ m.kind = "update" /\ m.path = p
        /\ m.run = Nothing /\ m.version = version /\ m.title = title
    BY ZenonT(40), DocumentsAssumption DEF Request, Idle, Linked
  <2>5. Begin(x, m)
    BY <1>2 DEF BeginUpdate
  <2> HIDE DEF m
  <2>6. RequestInv(m)
    BY <2>0, <2>1, <2>4, DocumentsAssumption DEF RequestInv
  <2> QED
    BY <2>1, <2>4, <2>5, <2>6, Beginning DEF Begins
<1>3. ASSUME NEW r \in Runs, BeginPromote(x, p, r)
      PROVE  Begins(x, "promote", p, r, 0) /\ review[r].status = "pending" /\ RunFree(r)
  <2>1. review[r].status = "pending" /\ RunFree(r) /\ review[r].text \in Texts
    BY <1>3 DEF BeginPromote, TypeInv
  <2> PICK text \in Texts : text = review[r].text
    BY <2>1
  <2>2. Begin(x, Creation("promote", p, r, text))
    BY <1>3 DEF BeginPromote
  <2> QED
    BY <2>1, <2>2, Beginning, CreationTyped DEF Begins
<1> QED
  BY <1>1, <1>2, <1>3

\* What the commit of a request does.
LEMMA Committing ==
  ASSUME TypeInv, NEW x \in Requests, Commit(x)
  PROVE  LET m == tx[x] IN
         /\ m.pc = "matching" /\ m.path \in Paths
         /\ doc' \in [Paths -> DocumentRow]
         /\ doc'[m.path].title = m.title /\ doc'[m.path].version = m.version + 1
         /\ doc'[m.path].origin = (IF m.kind = "update" THEN doc[m.path].origin ELSE m.run)
         /\ \A p \in Paths \ {m.path} : doc'[p] = doc[p]
         /\ link' \in [Paths -> [Titles -> Linked \cup {NoLink}]]
         /\ \A p \in Paths \ {m.path} : RowInv(p)'
         /\ review' \in [Runs -> ReviewRow]
         /\ \A r \in Runs :
              IF m.kind = "promote" /\ r = m.run
              THEN review'[r].status = "promoted" /\ review'[r].document = m.path
              ELSE review'[r] = review[r]
         /\ contended' \subseteq Titles
         /\ tx' = [tx EXCEPT ![x] = Idle]
<1> DEFINE m == tx[x]
<1>0. /\ m \in Request /\ m.pc = "matching" /\ m.path \in Paths /\ m.title \in Titles
      /\ m.version + 1 \in 1 .. MaxVersion /\ RequestInv(m)
      /\ doc \in [Paths -> DocumentRow] /\ review \in [Runs -> ReviewRow]
      /\ link \in [Paths -> [Titles -> Linked \cup {NoLink}]]
  BY DEF Commit, TypeInv, TypeOK, RequestInv
<1>1. /\ doc' \in [Paths -> DocumentRow]
      /\ doc'[m.path].title = m.title /\ doc'[m.path].version = m.version + 1
      /\ doc'[m.path].origin = (IF m.kind = "update" THEN doc[m.path].origin ELSE m.run)
      /\ \A p \in Paths \ {m.path} : doc'[p] = doc[p]
  <2>1. doc' = [doc EXCEPT ![m.path] =
                  [@ EXCEPT !.title = m.title, !.version = m.version + 1,
                            !.origin = IF m.kind = "update" THEN doc[m.path].origin
                                       ELSE m.run]]
    BY DEF Commit
  <2>2. doc[m.path] \in DocumentRow /\ m.run \in Runs \cup {Nothing}
    BY <1>0 DEF Request
  <2>a. PICK version \in 0 .. MaxVersion : version = m.version + 1
    <3>1. \A n \in 1 .. MaxVersion : n \in 0 .. MaxVersion
      BY DocumentsAssumption
    <3> QED
      BY <1>0, <3>1
  <2>b. PICK old \in DocumentRow, p \in Paths : old = doc[m.path] /\ p = m.path
    BY <1>0, <2>2
  <2>c. PICK title \in Titles, run \in Runs \cup {Nothing} : title = m.title /\ run = m.run
    BY <1>0, <2>2
  <2>3. /\ old = doc[m.path] /\ p = m.path /\ title = m.title /\ version = m.version + 1
        /\ run = m.run
    BY <2>a, <2>b, <2>c
  <2> PICK kind \in {"create", "update", "promote"} : kind = m.kind
    BY <1>0 DEF Request
  <2> DEFINE row == [old EXCEPT !.title = title, !.version = version,
                                !.origin = IF kind = "update" THEN old.origin ELSE run]
  <2>4. row \in DocumentRow /\ row.title = title /\ row.version = version
        /\ row.origin = IF kind = "update" THEN old.origin ELSE run
    <3>1. CASE kind = "update"
      <4>1. old.origin \in Runs \cup {Nothing}
        BY DEF DocumentRow
      <4> QED
        BY <3>1, <4>1 DEF DocumentRow
    <3>2. CASE kind # "update"
      BY <3>2 DEF DocumentRow
    <3> QED
      BY <3>1, <3>2
  <2>5. doc' = [doc EXCEPT ![p] = row]
    <3>1. CASE kind = "update"
      BY <1>0, <2>1, <2>3, <3>1
    <3>2. CASE kind # "update"
      BY <1>0, <2>1, <2>3, <3>2
    <3> QED
      BY <3>1, <3>2
  <2> HIDE DEF row
  <2> QED
    BY <1>0, <2>3, <2>4, <2>5
<1>2. \A p \in Paths, t \in Titles : link'[p][t] =
        IF Written(m, p, t) # {} THEN (CHOOSE w \in Written(m, p, t) : TRUE).target
        ELSE IF p = m.path THEN NoLink ELSE link[p][t]
  BY DEF Commit
<1>3. ASSUME NEW p \in Paths, NEW t \in Titles
      PROVE  /\ link'[p][t] \in Linked \cup {NoLink}
             /\ p # m.path /\ doc[p].version = 0 => link'[p][t] = link[p][t]
  <2>1. Written(m, p, t) \subseteq m.writes /\ m.writes \subseteq LinkRow
    BY <1>0 DEF Written, Request
  <2>2. CASE Written(m, p, t) # {}
    <3>1. PICK w \in Written(m, p, t) : w = CHOOSE v \in Written(m, p, t) : TRUE
      BY <2>2
    <3>2. w \in LinkRow /\ link'[p][t] = w.target
      BY <1>2, <2>1, <2>2, <3>1
    <3>3. w.target \in Linked /\ w.version # 0
      BY <3>2 DEF LinkRow
    <3>4. p # m.path => w.version = doc[p].version
      BY <3>1 DEF Written
    <3>5. ~(p # m.path /\ doc[p].version = 0)
      BY <3>3, <3>4
    <3>6. link'[p][t] \in Linked \cup {NoLink}
      BY <3>2, <3>3
    <3> QED
      BY <3>5, <3>6
  <2>3. CASE Written(m, p, t) = {}
    <3>1. link'[p][t] = IF p = m.path THEN NoLink ELSE link[p][t]
      BY <1>2, <2>3
    <3> QED
      BY <1>0, <3>1
  <2> QED
    BY <2>2, <2>3
<1>4. link' \in [Paths -> [Titles -> Linked \cup {NoLink}]]
  <2>1. link' = [p \in Paths |-> [t \in Titles |-> link'[p][t]]]
    BY DEF Commit
  <2> QED
    BY <1>3, <2>1
<1>5. \A p \in Paths \ {m.path} : RowInv(p)'
  BY <1>1, <1>3 DEF RowInv, TypeInv
<1>6. /\ review' \in [Runs -> ReviewRow]
      /\ \A r \in Runs :
           IF m.kind = "promote" /\ r = m.run
           THEN review'[r].status = "promoted" /\ review'[r].document = m.path
           ELSE review'[r] = review[r]
  <2>1. CASE m.kind = "promote"
    <3>1. m.run \in Runs
      BY <1>0, <2>1 DEF RequestInv
    <3>2. review' = [review EXCEPT ![m.run] =
                       [@ EXCEPT !.status = "promoted", !.candidates = "accepted",
                                 !.document = m.path]]
      BY <2>1 DEF Commit
    <3>3. PICK old \in ReviewRow, r \in Runs, p \in Paths :
            old = review[m.run] /\ r = m.run /\ p = m.path
      BY <1>0, <3>1
    <3> DEFINE row == [old EXCEPT !.status = "promoted", !.candidates = "accepted",
                                  !.document = p]
    <3>4. row \in ReviewRow /\ row.status = "promoted" /\ row.document = p
      BY DEF ReviewRow
    <3>5. review' = [review EXCEPT ![r] = row]
      BY <1>0, <3>2, <3>3
    <3> HIDE DEF row
    <3> QED
      BY <1>0, <2>1, <3>3, <3>4, <3>5
  <2>2. CASE m.kind # "promote"
    <3>1. review' = review
      BY <2>2 DEF Commit
    <3> QED
      BY <1>0, <2>2, <3>1
  <2> QED
    BY <2>1, <2>2
<1>7. contended' \subseteq Titles /\ tx' = [tx EXCEPT ![x] = Idle]
  <2>1. m.touches \subseteq Titles /\ contended \subseteq Titles
    BY <1>0 DEF Request, TypeInv, TypeOK
  <2> QED
    BY <2>1 DEF Commit, Set
<1> QED
  BY <1>0, <1>1, <1>4, <1>5, <1>6, <1>7

\* The intake and the rejection of a file.
LEMMA Intakes ==
  ASSUME TypeInv, NEW r \in Runs, Intake(r)
  PROVE  /\ review' \in [Runs -> ReviewRow] /\ \A q \in Runs \ {r} : review'[q] = review[q]
         /\ review[r].status \in {"absent", "pending"}
         /\ review[r].status = "pending" => RunFree(r)
         /\ review'[r].status \in {"pending", "failed", "rejected"}
         /\ review'[r].status = "pending" => review'[r].text \in Texts
         /\ \/ review'[r].status = "rejected"
            \/ review'[r].candidates = review[r].candidates
         /\ UNCHANGED <<doc, link, tx, contended>>
<1>0. review \in [Runs -> ReviewRow] /\ review[r] \in ReviewRow
  BY DEF TypeInv, TypeOK
<1> PICK old \in ReviewRow : old = review[r]
  BY <1>0
<1>1. ASSUME NEW text \in Texts, Ingest(r, text)
      PROVE  /\ review[r].status = "absent" /\ UNCHANGED <<doc, link, tx, contended>>
             /\ \E row \in ReviewRow : /\ review' = [review EXCEPT ![r] = row]
                                       /\ row.status = "pending" /\ row.text = text
                                       /\ row.candidates = review[r].candidates
  <2> DEFINE row == [old EXCEPT !.status = "pending", !.text = text]
  <2>1. /\ row \in ReviewRow /\ row.status = "pending" /\ row.text = text
        /\ row.candidates = old.candidates
    BY DEF ReviewRow
  <2>2. /\ review' = [review EXCEPT ![r] = row]
        /\ review[r].status = "absent" /\ UNCHANGED <<doc, link, tx, contended>>
    BY <1>0, <1>1 DEF Ingest
  <2> HIDE DEF row
  <2> QED
    BY <2>1, <2>2
<1>2. ASSUME IngestFails(r)
      PROVE  /\ review[r].status = "absent" /\ UNCHANGED <<doc, link, tx, contended>>
             /\ \E row \in ReviewRow : /\ review' = [review EXCEPT ![r] = row]
                                       /\ row.status = "failed"
                                       /\ row.candidates = review[r].candidates
  <2> DEFINE row == [old EXCEPT !.status = "failed"]
  <2>1. row \in ReviewRow /\ row.status = "failed" /\ row.candidates = old.candidates
    BY DEF ReviewRow
  <2>2. /\ review' = [review EXCEPT ![r] = row]
        /\ review[r].status = "absent" /\ UNCHANGED <<doc, link, tx, contended>>
    BY <1>0, <1>2 DEF IngestFails
  <2> HIDE DEF row
  <2> QED
    BY <2>1, <2>2
<1>3. ASSUME Reject(r)
      PROVE  /\ review[r].status = "pending" /\ RunFree(r) /\ UNCHANGED <<doc, link, tx, contended>>
             /\ \E row \in ReviewRow : /\ review' = [review EXCEPT ![r] = row]
                                       /\ row.status = "rejected"
  <2> DEFINE row == [old EXCEPT !.status = "rejected", !.candidates = "rejected"]
  <2>1. row \in ReviewRow /\ row.status = "rejected"
    BY DEF ReviewRow
  <2>2. /\ review' = [review EXCEPT ![r] = row]
        /\ review[r].status = "pending" /\ RunFree(r) /\ UNCHANGED <<doc, link, tx, contended>>
    BY <1>0, <1>3 DEF Reject
  <2> HIDE DEF row
  <2> QED
    BY <2>1, <2>2
<1> QED
  BY <1>0, <1>1, <1>2, <1>3 DEF Intake

\* The kinds of steps there are.
LEMMA Steps ==
  ASSUME TypeInv, [Next]_vars
  PROVE  \/ \E x \in Requests, p \in Paths :
              \/ Begins(x, "create", p, Nothing, 0)
              \/ /\ Begins(x, "update", p, Nothing, doc[p].version)
                 /\ doc[p].version # 0 /\ ~LockedForUpdate(p, x)
              \/ \E r \in Runs : /\ Begins(x, "promote", p, r, 0)
                                 /\ review[r].status = "pending" /\ RunFree(r)
         \/ \E x \in Requests : \E m : /\ RequestInv(m) /\ Works(x, m)
                                       /\ tx[x].pc # "inserting" \/ InsertDocument(x)
         \/ \E x \in Requests : Commit(x)
         \/ \E x \in Requests : RollBack(x)
         \/ \E r \in Runs : Intake(r)
         \/ UNCHANGED vars
BY BeginTyped, WorkTyped DEF Next, Work

LEMMA TypeStep ==
  ASSUME TypeInv, [Next]_vars
  PROVE  TypeInv'
<1>0. /\ tx \in [Requests -> Request] /\ \A y \in Requests : RequestInv(tx[y])
      /\ TypeOK
  BY DEF TypeInv, TypeOK
<1>1. ASSUME NEW x \in Requests, NEW kind, NEW p, NEW r, NEW version,
             Begins(x, kind, p, r, version)
      PROVE  TypeInv'
  BY <1>0, <1>1 DEF Begins, TypeInv, TypeOK, RowInv
<1>2. ASSUME NEW x \in Requests, NEW m, RequestInv(m), Works(x, m) PROVE TypeInv'
  <2>1. m \in Request /\ tx' = [tx EXCEPT ![x] = m] /\ UNCHANGED <<doc, link, review, contended>>
    BY <1>2 DEF RequestInv, Works
  <2>2. tx' \in [Requests -> Request] /\ \A y \in Requests : RequestInv(tx'[y])
    BY <1>0, <1>2, <2>1
  <2> QED
    BY <1>0, <2>1, <2>2 DEF TypeInv, TypeOK, RowInv
<1>3. ASSUME NEW x \in Requests, Commit(x) PROVE TypeInv'
  <2>1. tx' \in [Requests -> Request] /\ \A y \in Requests : RequestInv(tx'[y])
    BY <1>0, <1>3, IdleTyped, Committing
  <2>2. /\ doc' \in [Paths -> DocumentRow] /\ review' \in [Runs -> ReviewRow]
        /\ link' \in [Paths -> [Titles -> Linked \cup {NoLink}]] /\ contended' \subseteq Titles
    BY <1>3, Committing
  <2>3. doc'[tx[x].path].version # 0 /\ doc'[tx[x].path].title \in Titles
    BY <1>0, <1>3, Committing DEF RequestInv
  <2>4. \A p \in Paths : RowInv(p)'
    BY <1>3, <2>3, Committing DEF RowInv
  <2>5. \A q \in Runs : review'[q].status = "pending" => review'[q].text \in Texts
    BY <1>3, Committing DEF TypeInv
  <2> QED
    BY <2>1, <2>2, <2>4, <2>5 DEF TypeInv, TypeOK
<1>4. ASSUME NEW x \in Requests, RollBack(x) PROVE TypeInv'
  <2>1. tx' = [tx EXCEPT ![x] = Idle] /\ UNCHANGED <<doc, link, review, contended>>
    BY <1>4 DEF RollBack, Set
  <2>2. tx' \in [Requests -> Request] /\ \A y \in Requests : RequestInv(tx'[y])
    BY <1>0, <2>1, IdleTyped
  <2> QED
    BY <1>0, <2>1, <2>2 DEF TypeInv, TypeOK, RowInv
<1>5. ASSUME NEW r \in Runs, Intake(r) PROVE TypeInv'
  BY <1>0, <1>5, Intakes DEF TypeInv, TypeOK, RowInv
<1>6. CASE UNCHANGED vars
  BY <1>0, <1>6 DEF vars, TypeInv, TypeOK, RowInv
<1> QED
  BY <1>1, <1>2, <1>3, <1>4, <1>5, <1>6, Steps

LEMMA TypeInit == Init => TypeInv
<1> SUFFICES ASSUME Init PROVE TypeInv
  OBVIOUS
<1>1. NoDocument \in DocumentRow /\ NoDocument.version = 0 /\ NoDocument.origin = Nothing
  BY DocumentsAssumption DEF NoDocument, DocumentRow
<1>2. NoReview \in ReviewRow /\ NoReview.status = "absent"
  BY DEF NoReview, ReviewRow
<1> QED
  BY <1>1, <1>2, IdleTyped DEF Init, TypeInv, TypeOK, RowInv

\* Types of documents, links, ingestions and requests.
THEOREM DocumentsTyped == Spec => []TypeOK
<1>1. TypeInv /\ [Next]_vars => TypeInv'
  BY TypeStep
<1>2. TypeInv => TypeOK
  BY DEF TypeInv
<1> QED
  BY <1>1, <1>2, TypeInit, PTL DEF Spec

---------------------------------------------------------------------------
(* Versions, decisions, and the document of an ingestion *)

Updating(x) == Active(x) /\ tx[x].kind = "update"
Creating(x) == Inserted(x) /\ tx[x].kind # "update"

\* The row lock of the document keeps one update from another, and the unique
\* path one creation from another; a document cannot be both created and
\* updated, as nobody sees it before it is committed.
VersionInv ==
  /\ \A x \in Requests : Updating(x) =>
       tx[x].version = doc[tx[x].path].version /\ tx[x].version # 0
  /\ \A x \in Requests : Creating(x) => doc[tx[x].path].version = 0
  /\ \A x, y \in Requests :
       /\ tx[x].path = tx[y].path
       /\ (Updating(x) /\ Updating(y)) \/ (Creating(x) /\ Creating(y))
       => x = y

LEMMA VersionStep ==
  ASSUME TypeInv, VersionInv, [Next]_vars
  PROVE  VersionInv'
<1>0. tx \in [Requests -> Request] /\ Idle.pc = "idle"
  BY IdleTyped DEF TypeInv, TypeOK
<1>1. ASSUME NEW x \in Requests, NEW p \in Paths, NEW kind, NEW r, NEW version,
             Begins(x, kind, p, r, version),
             kind = "update" => /\ version = doc[p].version /\ version # 0
                                /\ ~LockedForUpdate(p, x)
      PROVE  VersionInv'
  <2>1. /\ doc' = doc /\ tx'[x].path = p /\ tx'[x].version = version /\ tx'[x].kind = kind
        /\ tx'[x].pc = (IF kind = "update" THEN "retiring" ELSE "inserting")
        /\ \A y \in Requests \ {x} : Kept(y)
    BY <1>1 DEF Begins
  <2>2. \A y \in Requests \ {x} : /\ Updating(y)' <=> Updating(y)
                                  /\ Creating(y)' <=> Creating(y)
                                  /\ tx'[y].path = tx[y].path /\ tx'[y].version = tx[y].version
    BY <2>1 DEF Kept, Updating, Creating, Inserted, Active
  <2>3. ~Creating(x)' /\ (Updating(x)' <=> kind = "update")
    BY <2>1 DEF Updating, Creating, Inserted, Active
  <2>4. kind = "update" => \A y \in Requests \ {x} : Updating(y) => tx[y].path # p
    BY <1>1 DEF LockedForUpdate, Others, Updating
  <2> QED
    BY <1>1, <2>1, <2>2, <2>3, <2>4 DEF VersionInv
<1>2. ASSUME NEW x \in Requests, NEW m, Works(x, m), tx[x].pc # "inserting" \/ InsertDocument(x)
      PROVE  VersionInv'
  <2>1. /\ doc' = doc /\ tx' = [tx EXCEPT ![x] = m] /\ m.pc # "idle" /\ tx[x].pc # "idle"
        /\ m.kind = tx[x].kind /\ m.path = tx[x].path /\ m.version = tx[x].version
    BY <1>2 DEF Works, Active
  <2>2. \A y \in Requests : /\ tx'[y].path = tx[y].path /\ tx'[y].version = tx[y].version
                            /\ Updating(y)' <=> Updating(y)
                            /\ y # x => (Creating(y)' <=> Creating(y))
    BY <1>0, <2>1 DEF Updating, Creating, Inserted, Active
  <2>3. CASE tx[x].pc # "inserting"
    <3>1. Creating(x)' => Creating(x)
      BY <1>0, <2>1, <2>3 DEF Creating, Inserted, Active
    <3> QED
      BY <2>1, <2>2, <3>1 DEF VersionInv
  <2>4. CASE InsertDocument(x)
    <3>1. /\ doc[tx[x].path].version = 0
          /\ \A y \in Requests \ {x} : ~(Creating(y) /\ tx[y].path = tx[x].path)
      BY <2>4, WorkTyped DEF Others, Creating, Inserted
    <3> QED
      BY <2>1, <2>2, <3>1 DEF VersionInv
  <2> QED
    BY <1>2, <2>3, <2>4
<1>3. ASSUME NEW x \in Requests, Commit(x) PROVE VersionInv'
  <2>1. /\ tx[x].pc = "matching" /\ tx' = [tx EXCEPT ![x] = Idle]
        /\ \A p \in Paths \ {tx[x].path} : doc'[p] = doc[p]
    BY <1>3, Committing
  <2>2. ~Updating(x)' /\ ~Creating(x)'
    BY <1>0, <2>1 DEF Updating, Creating, Inserted, Active
  <2>3. \A y \in Requests \ {x} : tx'[y] = tx[y]
    BY <1>0, <2>1
  <2>4. \A y \in Requests \ {x} : (Updating(y)' <=> Updating(y)) /\ (Creating(y)' <=> Creating(y))
    BY <2>3 DEF Updating, Creating, Inserted, Active
  <2>5. Updating(x) \/ Creating(x)
    BY <2>1 DEF Updating, Creating, Inserted, Active
  <2>6. \A y \in Requests : Updating(y) \/ Creating(y) => tx[y].path \in Paths
    BY DEF TypeInv, RequestInv, Updating, Creating, Inserted, Active
  <2>7. ASSUME NEW y \in Requests \ {x}, Updating(y) \/ Creating(y)
        PROVE  tx[y].path # tx[x].path
    BY <2>5, <2>7 DEF VersionInv
  <2>8. \A y \in Requests \ {x} : Updating(y) \/ Creating(y) =>
          doc'[tx[y].path] = doc[tx[y].path]
    BY <2>1, <2>6, <2>7
  <2> QED
    BY <2>2, <2>3, <2>4, <2>8 DEF VersionInv
<1>4. ASSUME NEW x \in Requests, RollBack(x) PROVE VersionInv'
  <2>1. tx' = [tx EXCEPT ![x] = Idle] /\ doc' = doc
    BY <1>4 DEF RollBack, Set
  <2>2. ~Updating(x)' /\ ~Creating(x)' /\ \A y \in Requests \ {x} : tx'[y] = tx[y]
    BY <1>0, <2>1 DEF Updating, Creating, Inserted, Active
  <2>3. \A y \in Requests \ {x} : (Updating(y)' <=> Updating(y)) /\ (Creating(y)' <=> Creating(y))
    BY <2>2 DEF Updating, Creating, Inserted, Active
  <2> QED
    BY <2>1, <2>2, <2>3 DEF VersionInv
<1>5. ASSUME NEW r \in Runs, Intake(r) PROVE VersionInv'
  <2>1. doc' = doc /\ tx' = tx
    BY <1>5, Intakes
  <2> QED
    BY <2>1 DEF VersionInv, Updating, Creating, Inserted, Active
<1>6. CASE UNCHANGED vars
  BY <1>6 DEF vars, VersionInv, Updating, Creating, Inserted, Active
<1> QED
  BY <1>1, <1>2, <1>3, <1>4, <1>5, <1>6, Steps

LEMMA VersionInit == Init => VersionInv
BY IdleTyped DEF Init, VersionInv, Updating, Creating, Inserted, Active

\* The version an update read stays the latest until it commits: versions are
\* numbered without a gap (get_document_or_404 with for_update).
THEOREM VersionsNumbered == Spec => []VersionsNeverCollide
<1>1. Init => TypeInv /\ VersionInv
  BY TypeInit, VersionInit
<1>2. TypeInv /\ VersionInv /\ [Next]_vars => TypeInv' /\ VersionInv'
  BY TypeStep, VersionStep
<1>3. VersionInv => VersionsNeverCollide
  BY DEF VersionInv, Updating, VersionsNeverCollide
<1> QED
  BY <1>1, <1>2, <1>3, PTL DEF Spec

\* The lock of a run is held by the one request that promotes it, and until
\* then the run is undecided.
PromotionInv ==
  /\ \A x \in Requests : tx[x].run \in Runs => review[tx[x].run].status = "pending"
  /\ \A x, y \in Requests : tx[x].run \in Runs /\ tx[x].run = tx[y].run => x = y
  /\ \A r \in Runs :
       review[r].candidates # "pending" => review[r].status \in {"promoted", "rejected"}

LEMMA PromotionStep ==
  ASSUME TypeInv, PromotionInv, [Next]_vars
  PROVE  PromotionInv'
<1>0. tx \in [Requests -> Request] /\ Idle.run = Nothing /\ Nothing \notin Runs
  BY IdleTyped, DocumentsAssumption DEF TypeInv, TypeOK
<1>1. ASSUME NEW x \in Requests, NEW p \in Paths, NEW kind, NEW r, NEW version,
             Begins(x, kind, p, r, version),
             r = Nothing \/ (r \in Runs /\ review[r].status = "pending" /\ RunFree(r))
      PROVE  PromotionInv'
  <2>1. review' = review /\ tx'[x].run = r /\ \A y \in Requests \ {x} : tx'[y].run = tx[y].run
    BY <1>1 DEF Begins, Kept
  <2> QED
    BY <1>0, <1>1, <2>1 DEF PromotionInv, RunFree
<1>2. ASSUME NEW x \in Requests, NEW m, Works(x, m) PROVE PromotionInv'
  <2>1. review' = review /\ tx' = [tx EXCEPT ![x] = m] /\ m.run = tx[x].run
    BY <1>2 DEF Works
  <2>2. \A y \in Requests : tx'[y].run = tx[y].run
    BY <1>0, <2>1
  <2> QED
    BY <2>1, <2>2 DEF PromotionInv
<1>3. ASSUME NEW x \in Requests, Commit(x) PROVE PromotionInv'
  <2>1. /\ tx' = [tx EXCEPT ![x] = Idle]
        /\ \A r \in Runs \ {tx[x].run} : review'[r] = review[r]
        /\ \A r \in Runs : review'[r] = review[r] \/ review'[r].status = "promoted"
    BY <1>3, Committing
  <2>2. tx'[x].run = Nothing /\ \A y \in Requests \ {x} : tx'[y].run = tx[y].run
    BY <1>0, <2>1
  <2> QED
    BY <1>0, <2>1, <2>2 DEF PromotionInv
<1>4. ASSUME NEW x \in Requests, RollBack(x) PROVE PromotionInv'
  <2>1. tx' = [tx EXCEPT ![x] = Idle] /\ review' = review
    BY <1>4 DEF RollBack, Set
  <2>2. tx'[x].run = Nothing /\ \A y \in Requests \ {x} : tx'[y].run = tx[y].run
    BY <1>0, <2>1
  <2> QED
    BY <1>0, <2>1, <2>2 DEF PromotionInv
<1>5. ASSUME NEW r \in Runs, Intake(r) PROVE PromotionInv'
  <2>1. /\ \A q \in Runs \ {r} : review'[q] = review[q]
        /\ review[r].status \in {"absent", "pending"}
        /\ review[r].status = "pending" => RunFree(r)
        /\ review'[r].status = "rejected" \/ review'[r].candidates = review[r].candidates
        /\ tx' = tx
    BY <1>5, Intakes
  <2>2. \A x \in Requests : tx[x].run # r
    BY <2>1 DEF PromotionInv, RunFree
  <2> QED
    BY <2>1, <2>2 DEF PromotionInv
<1>6. CASE UNCHANGED vars
  BY <1>6 DEF vars, PromotionInv
<1> QED
  BY <1>1, <1>2, <1>3, <1>4, <1>5, <1>6, Steps

LEMMA PromotionInit == Init => PromotionInv
BY IdleTyped, DocumentsAssumption DEF Init, PromotionInv, NoReview

LEMMA OneDocumentStep ==
  ASSUME TypeInv, VersionInv, PromotionInv, OneDocumentPerIngestion, [Next]_vars
  PROVE  OneDocumentPerIngestion'
<1>1. ASSUME UNCHANGED <<doc, review>> PROVE OneDocumentPerIngestion'
  BY <1>1 DEF OneDocumentPerIngestion
<1>2. ASSUME NEW x \in Requests, Commit(x) PROVE OneDocumentPerIngestion'
  <2>0. /\ tx[x].pc = "matching" /\ tx[x].path \in Paths /\ RequestInv(tx[x])
        /\ doc'[tx[x].path].origin =
             (IF tx[x].kind = "update" THEN doc[tx[x].path].origin ELSE tx[x].run)
        /\ \A p \in Paths \ {tx[x].path} : doc'[p] = doc[p]
    BY <1>2, Committing DEF TypeInv
  <2>1. CASE tx[x].kind = "promote"
    <3>1. /\ tx[x].run \in Runs /\ review[tx[x].run].status = "pending"
      BY <2>0, <2>1 DEF RequestInv, PromotionInv
    <3>2. /\ review'[tx[x].run].status = "promoted" /\ review'[tx[x].run].document = tx[x].path
          /\ \A r \in Runs \ {tx[x].run} : review'[r] = review[r]
      BY <1>2, <2>1, <3>1, Committing
    <3>3. Creating(x)
      BY <2>0, <2>1 DEF Creating, Inserted, Active
    <3>4. doc[tx[x].path].origin = Nothing
      BY <2>0, <3>3 DEF VersionInv, TypeInv, RowInv
    <3>5. \A p \in Paths : doc'[p].origin =
            IF p = tx[x].path THEN tx[x].run ELSE doc[p].origin
      BY <2>0, <2>1
    <3>6. \A p \in Paths : doc[p].origin # tx[x].run
      BY <3>1 DEF OneDocumentPerIngestion
    <3>7. ASSUME NEW r \in Runs
          PROVE  {p \in Paths : doc'[p].origin = r} =
                   IF review'[r].status = "promoted" THEN {review'[r].document} ELSE {}
      <4>1. CASE r = tx[x].run
        BY <2>0, <3>2, <3>5, <3>6, <4>1
      <4>2. CASE r # tx[x].run
        <5>1. {p \in Paths : doc'[p].origin = r} = {p \in Paths : doc[p].origin = r}
          BY <3>4, <3>5, <4>2, DocumentsAssumption
        <5> QED
          BY <3>2, <4>2, <5>1 DEF OneDocumentPerIngestion
      <4> QED
        BY <4>1, <4>2
    <3> QED
      BY <3>7 DEF OneDocumentPerIngestion
  <2>2. CASE tx[x].kind # "promote"
    <3>1. \A r \in Runs : review'[r] = review[r]
      BY <1>2, <2>2, Committing
    <3>2. tx[x].kind # "update" => doc[tx[x].path].origin = Nothing /\ tx[x].run \notin Runs
      <4>1. tx[x].kind # "update" => Creating(x)
        BY <2>0 DEF Creating, Inserted, Active
      <4> QED
        BY <2>0, <2>2, <4>1 DEF VersionInv, TypeInv, RowInv, RequestInv
    <3>3. \A r \in Runs, p \in Paths : doc'[p].origin = r <=> doc[p].origin = r
      BY <2>0, <3>2, DocumentsAssumption
    <3> QED
      BY <3>1, <3>3 DEF OneDocumentPerIngestion
  <2> QED
    BY <2>1, <2>2
<1>3. ASSUME NEW r \in Runs, Intake(r) PROVE OneDocumentPerIngestion'
  <2>1. /\ doc' = doc /\ \A q \in Runs \ {r} : review'[q] = review[q]
        /\ review[r].status # "promoted" /\ review'[r].status # "promoted"
    BY <1>3, Intakes
  <2> QED
    BY <2>1 DEF OneDocumentPerIngestion
<1> QED
  BY <1>1, <1>2, <1>3, Steps DEF Begins, Works, RollBack, vars

LEMMA OneDocumentInit == Init => OneDocumentPerIngestion
BY DocumentsAssumption DEF Init, OneDocumentPerIngestion, NoDocument, NoReview

\* A promoted ingestion has one document, the one it was promoted to, and no
\* other ingestion has any.
THEOREM OneDocumentEach == Spec => []OneDocumentPerIngestion
<1>1. Init => TypeInv /\ VersionInv /\ PromotionInv /\ OneDocumentPerIngestion
  BY TypeInit, VersionInit, PromotionInit, OneDocumentInit
<1>2. TypeInv /\ VersionInv /\ PromotionInv /\ OneDocumentPerIngestion /\ [Next]_vars
        => TypeInv' /\ VersionInv' /\ PromotionInv' /\ OneDocumentPerIngestion'
  BY TypeStep, VersionStep, PromotionStep, OneDocumentStep
<1> QED
  BY <1>1, <1>2, PTL DEF Spec

\* A document that changes is a new one or gets a further version, and the only
\* origin it can take is the run that is being promoted.
LEMMA DocumentsGrow ==
  ASSUME TypeInv, VersionInv, PromotionInv, OneDocumentPerIngestion, [Next]_vars,
         NEW p \in Paths, doc'[p] # doc[p]
  PROVE  /\ ChunksSealed(p, doc'[p].version)
         /\ EvidenceSealed(doc[p].origin, doc'[p].origin)
<1>1. PICK x \in Requests : Commit(x)
  BY Steps, Intakes DEF Begins, Works, RollBack, vars
<1>2. /\ tx[x].pc = "matching" /\ p = tx[x].path /\ RequestInv(tx[x])
      /\ doc'[p].version = tx[x].version + 1 /\ tx[x].version \in 0 .. MaxVersion
      /\ doc'[p].origin = (IF tx[x].kind = "update" THEN doc[p].origin ELSE tx[x].run)
  BY <1>1, Committing DEF TypeInv, RequestInv, Request
<1>3. CASE tx[x].kind = "update"
  <2>1. tx[x].version # 0
    BY <1>2, <1>3 DEF VersionInv, Updating, Active
  <2>2. doc'[p].version # 1
    BY <1>2, <2>1, DocumentsAssumption
  <2> QED
    BY <1>2, <1>3, <2>2 DEF ChunksSealed, EvidenceSealed
<1>4. CASE tx[x].kind # "update"
  <2>1. doc[p].origin = Nothing
    BY <1>2, <1>4 DEF VersionInv, TypeInv, RowInv, Creating, Inserted, Active
  <2>2. \A r \in Runs : ~(review[r].status = "promoted" /\ review[r].document = p)
    <3> SUFFICES ASSUME NEW r \in Runs, review[r].status = "promoted", review[r].document = p
                 PROVE  FALSE
      OBVIOUS
    <3>1. p \in {q \in Paths : doc[q].origin = r}
      BY DEF OneDocumentPerIngestion
    <3> QED
      BY <2>1, <3>1, DocumentsAssumption
  <2>3. tx[x].run \in Runs \cup {Nothing}
    BY <1>2 DEF RequestInv, Request
  <2> QED
    BY <1>2, <1>4, <2>1, <2>2, <2>3 DEF ChunksSealed, EvidenceSealed, PromotionInv
<1> QED
  BY <1>3, <1>4

\* No decision about an ingestion is ever replaced, whoever promotes and rejects
\* at the same time, nor are the chunks and the evidence it was taken on.
THEOREM DecisionsStayFinal == Spec => DecisionsAreFinal
<1> DEFINE Final ==
      /\ \A r \in Runs :
           /\ ReviewSealed(review[r], review'[r])
           /\ CandidatesSealed(review[r], review'[r])
           /\ review[r].status = "failed" => review'[r] = review[r]
      /\ \A p \in Paths : doc'[p] # doc[p] =>
           /\ ChunksSealed(p, doc'[p].version)
           /\ EvidenceSealed(doc[p].origin, doc'[p].origin)
<1>1. Init => TypeInv /\ VersionInv /\ PromotionInv /\ OneDocumentPerIngestion
  BY TypeInit, VersionInit, PromotionInit, OneDocumentInit
<1>2. TypeInv /\ VersionInv /\ PromotionInv /\ OneDocumentPerIngestion /\ [Next]_vars
        => TypeInv' /\ VersionInv' /\ PromotionInv' /\ OneDocumentPerIngestion'
  BY TypeStep, VersionStep, PromotionStep, OneDocumentStep
<1>3. TypeInv /\ VersionInv /\ PromotionInv /\ OneDocumentPerIngestion /\ [Next]_vars
        => [Final]_vars
  <2> SUFFICES ASSUME TypeInv, PromotionInv, [Next]_vars, NEW r \in Runs,
                      review[r].status \in {"failed", "promoted", "rejected"}
               PROVE  review'[r] = review[r]
    BY DocumentsGrow DEF ReviewSealed, CandidatesSealed, PromotionInv
  <2>1. ASSUME NEW x \in Requests, Commit(x) PROVE review'[r] = review[r]
    BY <2>1, Committing DEF PromotionInv
  <2>2. ASSUME NEW q \in Runs, Intake(q) PROVE review'[r] = review[r]
    BY <2>2, Intakes
  <2> QED
    BY <2>1, <2>2, Steps DEF Begins, Works, RollBack, vars
<1> QED
  BY <1>1, <1>2, <1>3, PTL DEF Spec, DecisionsAreFinal

---------------------------------------------------------------------------
(* Links and titles *)
(*                                                                         *)
(* A title a request is about and met nobody at belongs to it: no other    *)
(* commits a document of that title or a link to it.  So the document it   *)
(* matched stays the only one of the title, the links it passed over stay  *)
(* right, and its commit leaves every link to the title right.             *)

\* The titles a request has still to resolve, and those it has resolved.
Pending(m)  == {m.queue[i] : i \in 1 .. Len(m.queue)}
Matched(m)  == m.pc \in {"linking", "selecting", "resolving"}
Resolved(m) ==
  {m.title, m.previous} \ ({Nothing} \cup Pending(m) \cup
     (IF m.pc \in {"selecting", "resolving"} THEN {m.at} ELSE {}))

\* A request is about the titles it touches.
About(m) ==
  /\ {m.title} \cup m.todo \cup Pending(m) \subseteq m.touches
  /\ m.previous \in m.touches \cup {Nothing}
  /\ Matched(m) => m.at \in m.touches
  /\ \A w \in m.writes : w.title \in m.touches
  /\ m.pc = "resolving" => \A w \in m.picked : w.title = m.at
  /\ m.pc \in {"inserting", "retiring"} => m.writes = {} /\ Resolved(m) = {}

\* What a request that met no other about t knows of t: what it writes points to
\* the document of the title, and what it passed over does, too, or to none.
WritesRight(x, t) == \A w \in tx[x].writes : w.title = t => w.target = OnlyDocument(x, t)
TargetRight(x, t) == Matched(tx[x]) /\ tx[x].at = t => tx[x].target = OnlyDocument(x, t)
PickedRight(x, t) ==
  tx[x].pc = "resolving" /\ tx[x].at = t =>
    \A p \in Paths \ {tx[x].path} :
      \/ link[p][t] \in {NoLink, OnlyDocument(x, t)}
      \/ [doc |-> p, version |-> doc[p].version, title |-> t, target |-> link[p][t]]
           \in tx[x].picked
OthersRight(x, t) ==
  t \in Resolved(tx[x]) =>
    \A p \in Paths \ {tx[x].path} :
      link[p][t] \in {NoLink, OnlyDocument(x, t)} \/ Written(tx[x], p, t) # {}

Right(x, t) ==
  WritesRight(x, t) /\ TargetRight(x, t) /\ PickedRight(x, t) /\ OthersRight(x, t)

Replaces(x) ==
  tx[x].previous = IF tx[x].kind = "update" THEN doc[tx[x].path].title ELSE Nothing

Knows(x) == About(tx[x]) /\ Replaces(x) /\ \A t \in Titles \ tx[x].met : Right(x, t)

LinkInv ==
  /\ \A p \in Paths : doc[p].version = 0 => doc[p].title = Nothing
  /\ \A x \in Requests : Active(x) => Knows(x)
  /\ \A x, y \in Requests :
       Active(x) /\ Active(y) /\ x # y => tx[y].touches \subseteq tx[x].met

\* A request at work: what it is about stays, and so do the other requests.
Becomes(x, pc, todo, queue, at, target, picked, writes) ==
  /\ tx[x].pc # "idle" /\ UNCHANGED <<doc, link, contended>>
  /\ \A y \in Requests \ {x} : tx'[y] = tx[y]
  /\ tx'[x].pc = pc /\ tx'[x].todo = todo /\ tx'[x].queue = queue /\ tx'[x].at = at
  /\ tx'[x].target = target /\ tx'[x].picked = picked /\ tx'[x].writes = writes
  /\ tx'[x].path = tx[x].path /\ tx'[x].title = tx[x].title
  /\ tx'[x].kind = tx[x].kind /\ tx'[x].previous = tx[x].previous
  /\ tx'[x].version = tx[x].version /\ tx'[x].touches = tx[x].touches
  /\ tx'[x].met = tx[x].met

LEMMA Working ==
  ASSUME TypeInv, NEW x \in Requests
  PROVE  LET m == tx[x] IN
         /\ InsertDocument(x) \/ RetireLinks(x) =>
              Becomes(x, "matching", m.todo, m.queue, m.at, m.target, m.picked, m.writes)
         /\ \A t \in Titles : MatchLink(x, t) =>
              Becomes(x, "linking", m.todo \ {t}, m.queue, t, OnlyDocument(x, t),
                      m.picked, m.writes)
         /\ WriteLink(x) =>
              Becomes(x, "matching", m.todo, m.queue, Nothing, Nothing, m.picked,
                      m.writes \cup {[doc |-> m.path, version |-> m.version + 1,
                                      title |-> m.at, target |-> m.target]})
         /\ MatchTitle(x) =>
              Becomes(x, "selecting", m.todo, Tail(m.queue), Head(m.queue),
                      OnlyDocument(x, Head(m.queue)), m.picked, m.writes)
         /\ SelectLinks(x) =>
              Becomes(x, "resolving", m.todo, m.queue, m.at, m.target,
                      {w \in LinksSeen(x, m.at) : w.target # m.target}, m.writes)
         /\ ResolveLinks(x) =>
              Becomes(x, "matching", m.todo, m.queue, Nothing, Nothing, {},
                      (m.writes \ m.picked) \cup
                        {[w EXCEPT !.target = m.target] : w \in m.picked})
<1>0. tx[x] \in Request /\ tx \in [Requests -> Request]
  BY DEF TypeInv, TypeOK
<1>1. InsertDocument(x) \/ RetireLinks(x) =>
        Becomes(x, "matching", tx[x].todo, tx[x].queue, tx[x].at, tx[x].target,
                tx[x].picked, tx[x].writes)
  BY <1>0 DEF InsertDocument, RetireLinks, Set, Becomes, Request
<1>2. ASSUME NEW t \in Titles, MatchLink(x, t)
      PROVE  Becomes(x, "linking", tx[x].todo \ {t}, tx[x].queue, t, OnlyDocument(x, t),
                     tx[x].picked, tx[x].writes)
  BY <1>0, <1>2 DEF MatchLink, Set, Becomes, Request
<1>3. WriteLink(x) =>
        Becomes(x, "matching", tx[x].todo, tx[x].queue, Nothing, Nothing, tx[x].picked,
                tx[x].writes \cup {[doc |-> tx[x].path, version |-> tx[x].version + 1,
                                    title |-> tx[x].at, target |-> tx[x].target]})
  BY <1>0 DEF WriteLink, Set, Becomes, Request
<1>4. MatchTitle(x) =>
        Becomes(x, "selecting", tx[x].todo, Tail(tx[x].queue), Head(tx[x].queue),
                OnlyDocument(x, Head(tx[x].queue)), tx[x].picked, tx[x].writes)
  BY <1>0 DEF MatchTitle, Set, Becomes, Request
<1>5. SelectLinks(x) =>
        Becomes(x, "resolving", tx[x].todo, tx[x].queue, tx[x].at, tx[x].target,
                {w \in LinksSeen(x, tx[x].at) : w.target # tx[x].target}, tx[x].writes)
  BY <1>0 DEF SelectLinks, Set, Becomes, Request
<1>6. ResolveLinks(x) =>
        Becomes(x, "matching", tx[x].todo, tx[x].queue, Nothing, Nothing, {},
                (tx[x].writes \ tx[x].picked) \cup
                  {[w EXCEPT !.target = tx[x].target] : w \in tx[x].picked})
  BY <1>0 DEF ResolveLinks, Set, Becomes, Request
<1> QED
  BY <1>1, <1>2, <1>3, <1>4, <1>5, <1>6

\* Who has inserted its document sees the same documents of a title thereafter.
LEMMA OnlyKept ==
  ASSUME NEW x \in Requests, NEW t, doc' = doc, Inserted(x)' <=> Inserted(x),
         tx'[x].path = tx[x].path, tx'[x].title = tx[x].title
  PROVE  OnlyDocument(x, t)' = OnlyDocument(x, t)
<1>1. {p \in Paths : TitleSeen(x, p) = t}' = {p \in Paths : TitleSeen(x, p) = t}
  BY DEF TitleSeen
<1> QED
  BY <1>1 DEF OnlyDocument

LEMMA OnlyKeptWorking ==
  ASSUME TypeInv, NEW x \in Requests, NEW t, tx[x].pc # "inserting",
         NEW pc \in {"matching", "linking", "selecting", "resolving"},
         NEW todo, NEW queue, NEW at, NEW target, NEW picked, NEW writes,
         Becomes(x, pc, todo, queue, at, target, picked, writes)
  PROVE  OnlyDocument(x, t)' = OnlyDocument(x, t)
<1>1. Inserted(x)' <=> Inserted(x)
  BY DEF Becomes, Inserted, Active
<1> QED
  BY <1>1, OnlyKept DEF Becomes

\* A title waits in the queue, is in work, or has been resolved.
LEMMA QueueMoves ==
  ASSUME NEW q \in Seq(Titles), q # <<>>
  PROVE  {q[i] : i \in 1 .. Len(q)} =
           {Head(q)} \cup {Tail(q)[i] : i \in 1 .. Len(Tail(q))}
<1>1. /\ Head(q) = q[1] /\ Len(Tail(q)) = Len(q) - 1 /\ Len(q) \in Nat \ {0}
      /\ \A i \in 1 .. Len(Tail(q)) : Tail(q)[i] = q[i + 1]
  BY HeadTailProperties, EmptySeq
<1>2. \A i \in 1 .. Len(q) : i = 1 \/ (i - 1 \in 1 .. Len(Tail(q)) /\ Tail(q)[i - 1] = q[i])
  BY <1>1
<1>3. \A i \in 1 .. Len(Tail(q)) : i + 1 \in 1 .. Len(q)
  BY <1>1
<1>4. 1 \in 1 .. Len(q)
  BY <1>1
<1> QED
  BY <1>1, <1>2, <1>3, <1>4

LEMMA InsertKnows ==
  ASSUME TypeInv, NEW x \in Requests, Active(x) => Knows(x), InsertDocument(x) \/ RetireLinks(x)
  PROVE  Knows(x)'
<1>1. Becomes(x, "matching", tx[x].todo, tx[x].queue, tx[x].at, tx[x].target,
              tx[x].picked, tx[x].writes)
  BY Working
<1>2. tx[x].pc \in {"inserting", "retiring"} /\ Knows(x)
  BY DEF InsertDocument, RetireLinks, Active
<1>3. tx[x].writes = {} /\ Resolved(tx[x]) = {}
  BY <1>2 DEF Knows, About
<1>4. Pending(tx'[x]) = Pending(tx[x]) /\ Resolved(tx'[x]) = {} /\ tx'[x].writes = {}
  BY <1>1, <1>2, <1>3 DEF Becomes, Pending, Resolved
<1>5. About(tx'[x])
  BY <1>1, <1>2, <1>4 DEF Becomes, Knows, About, Matched
<1>6. Replaces(x)'
  BY <1>1, <1>2 DEF Becomes, Knows, Replaces
<1>7. \A t \in Titles : Right(x, t)'
  BY <1>1, <1>4 DEF Becomes, Right, WritesRight, TargetRight, PickedRight, OthersRight, Matched
<1> QED
  BY <1>5, <1>6, <1>7 DEF Knows

LEMMA MatchLinkKnows ==
  ASSUME TypeInv, NEW x \in Requests, Active(x) => Knows(x), NEW t \in Titles, MatchLink(x, t)
  PROVE  Knows(x)'
<1>1. Becomes(x, "linking", tx[x].todo \ {t}, tx[x].queue, t, OnlyDocument(x, t),
              tx[x].picked, tx[x].writes)
  BY Working
<1>2. tx[x].pc = "matching" /\ Knows(x) /\ t \in tx[x].todo
  BY DEF MatchLink, Active
<1>3. \A u : OnlyDocument(x, u)' = OnlyDocument(x, u)
  BY <1>1, <1>2, OnlyKeptWorking
<1>4. Resolved(tx'[x]) = Resolved(tx[x]) /\ Pending(tx'[x]) = Pending(tx[x])
  BY <1>1, <1>2 DEF Becomes, Resolved, Pending
<1>5. About(tx'[x])
  BY <1>1, <1>2, <1>4 DEF Becomes, Knows, About, Matched
<1>6. Replaces(x)'
  BY <1>1, <1>2 DEF Becomes, Knows, Replaces
<1>7. ASSUME NEW u \in Titles \ tx[x].met PROVE Right(x, u)'
  <2>0. Right(x, u)
    BY <1>2 DEF Knows
  <2>1. WritesRight(x, u)' /\ TargetRight(x, u)' /\ PickedRight(x, u)'
    BY <1>1, <1>3, <2>0 DEF Becomes, Right, WritesRight, TargetRight, PickedRight, Matched
  <2>2. \A p : Written(tx[x], p, u)' = Written(tx[x], p, u)
    BY <1>1 DEF Becomes, Written
  <2>3. OthersRight(x, u)'
    BY <1>1, <1>3, <1>4, <2>0, <2>2 DEF Becomes, Right, OthersRight
  <2> QED
    BY <2>1, <2>3 DEF Right
<1> QED
  BY <1>1, <1>5, <1>6, <1>7 DEF Knows, Becomes

LEMMA WriteLinkKnows ==
  ASSUME TypeInv, NEW x \in Requests, Active(x) => Knows(x), WriteLink(x)
  PROVE  Knows(x)'
<1> DEFINE row == [doc |-> tx[x].path, version |-> tx[x].version + 1,
                   title |-> tx[x].at, target |-> tx[x].target]
<1>0. row.title = tx[x].at /\ row.target = tx[x].target
  OBVIOUS
<1>1. Becomes(x, "matching", tx[x].todo, tx[x].queue, Nothing, Nothing, tx[x].picked,
              tx[x].writes \cup {row})
  BY Working
<1> HIDE DEF row
<1>2. tx[x].pc = "linking" /\ Knows(x)
  BY DEF WriteLink, Active
<1>3. \A u : OnlyDocument(x, u)' = OnlyDocument(x, u)
  BY <1>1, <1>2, OnlyKeptWorking
<1>4. Resolved(tx'[x]) = Resolved(tx[x]) /\ Pending(tx'[x]) = Pending(tx[x])
  BY <1>1, <1>2 DEF Becomes, Resolved, Pending
<1>5. About(tx'[x])
  BY <1>0, <1>1, <1>2, <1>4 DEF Becomes, Knows, About, Matched
<1>6. Replaces(x)'
  BY <1>1, <1>2 DEF Becomes, Knows, Replaces
<1>7. ASSUME NEW u \in Titles \ tx[x].met PROVE Right(x, u)'
  <2>0. Right(x, u)
    BY <1>2 DEF Knows
  <2>1. WritesRight(x, u)'
    BY <1>0, <1>1, <1>2, <1>3, <2>0 DEF Becomes, Right, WritesRight, TargetRight, Matched
  <2>2. TargetRight(x, u)' /\ PickedRight(x, u)'
    BY <1>1 DEF Becomes, TargetRight, PickedRight, Matched
  <2>3. \A p : Written(tx[x], p, u) \subseteq Written(tx[x], p, u)'
    BY <1>1 DEF Becomes, Written
  <2>4. OthersRight(x, u)'
    BY <1>1, <1>3, <1>4, <2>0, <2>3 DEF Becomes, Right, OthersRight
  <2> QED
    BY <2>1, <2>2, <2>4 DEF Right
<1> QED
  BY <1>1, <1>5, <1>6, <1>7 DEF Knows, Becomes

LEMMA MatchTitleKnows ==
  ASSUME TypeInv, NEW x \in Requests, Active(x) => Knows(x), MatchTitle(x)
  PROVE  Knows(x)'
<1>1. Becomes(x, "selecting", tx[x].todo, Tail(tx[x].queue), Head(tx[x].queue),
              OnlyDocument(x, Head(tx[x].queue)), tx[x].picked, tx[x].writes)
  BY Working
<1>2. tx[x].pc = "matching" /\ Knows(x) /\ tx[x].queue \in Seq(Titles) /\ tx[x].queue # <<>>
  BY DEF MatchTitle, Active, TypeInv, TypeOK, Request
<1>3. \A u : OnlyDocument(x, u)' = OnlyDocument(x, u)
  BY <1>1, <1>2, OnlyKeptWorking
<1>4. Pending(tx[x]) = {Head(tx[x].queue)} \cup Pending(tx'[x])
  BY <1>1, <1>2, QueueMoves DEF Becomes, Pending
<1>5. Resolved(tx'[x]) = Resolved(tx[x])
  BY <1>1, <1>2, <1>4 DEF Becomes, Resolved
<1>6. About(tx'[x])
  BY <1>1, <1>2, <1>4 DEF Becomes, Knows, About, Matched
<1>7. Replaces(x)'
  BY <1>1, <1>2 DEF Becomes, Knows, Replaces
<1>8. ASSUME NEW u \in Titles \ tx[x].met PROVE Right(x, u)'
  <2>0. Right(x, u)
    BY <1>2 DEF Knows
  <2>1. WritesRight(x, u)' /\ TargetRight(x, u)' /\ PickedRight(x, u)'
    BY <1>1, <1>3, <2>0 DEF Becomes, Right, WritesRight, TargetRight, PickedRight, Matched
  <2>2. \A p : Written(tx[x], p, u)' = Written(tx[x], p, u)
    BY <1>1 DEF Becomes, Written
  <2>3. OthersRight(x, u)'
    BY <1>1, <1>3, <1>5, <2>0, <2>2 DEF Becomes, Right, OthersRight
  <2> QED
    BY <2>1, <2>3 DEF Right
<1> QED
  BY <1>1, <1>6, <1>7, <1>8 DEF Knows, Becomes

LEMMA SelectLinksKnows ==
  ASSUME TypeInv, NEW x \in Requests, Active(x) => Knows(x), SelectLinks(x)
  PROVE  Knows(x)'
<1> DEFINE picked == {w \in LinksSeen(x, tx[x].at) : w.target # tx[x].target}
<1>1. Becomes(x, "resolving", tx[x].todo, tx[x].queue, tx[x].at, tx[x].target, picked,
              tx[x].writes)
  BY Working
<1>a. \A w \in picked : w.title = tx[x].at
  BY DEF LinksSeen
<1>b. \A p \in Paths \ {tx[x].path} :
        \/ link[p][tx[x].at] \in {NoLink, tx[x].target}
        \/ [doc |-> p, version |-> doc[p].version, title |-> tx[x].at,
            target |-> link[p][tx[x].at]] \in picked
  BY DEF LinksSeen
<1> HIDE DEF picked
<1>2. tx[x].pc = "selecting" /\ Knows(x)
  BY DEF SelectLinks, Active
<1>3. \A u : OnlyDocument(x, u)' = OnlyDocument(x, u)
  BY <1>1, <1>2, OnlyKeptWorking
<1>4. Resolved(tx'[x]) = Resolved(tx[x]) /\ Pending(tx'[x]) = Pending(tx[x])
  BY <1>1, <1>2 DEF Becomes, Resolved, Pending
<1>5. About(tx'[x])
  BY <1>1, <1>2, <1>4, <1>a DEF Becomes, Knows, About, Matched
<1>6. Replaces(x)'
  BY <1>1, <1>2 DEF Becomes, Knows, Replaces
<1>7. ASSUME NEW u \in Titles \ tx[x].met PROVE Right(x, u)'
  <2>0. Right(x, u)
    BY <1>2 DEF Knows
  <2>1. WritesRight(x, u)' /\ TargetRight(x, u)'
    BY <1>1, <1>2, <1>3, <2>0 DEF Becomes, Right, WritesRight, TargetRight, Matched
  <2>2. PickedRight(x, u)'
    BY <1>1, <1>2, <1>3, <1>b, <2>0 DEF Becomes, Right, TargetRight, PickedRight, Matched
  <2>3. \A p : Written(tx[x], p, u)' = Written(tx[x], p, u)
    BY <1>1 DEF Becomes, Written
  <2>4. OthersRight(x, u)'
    BY <1>1, <1>3, <1>4, <2>0, <2>3 DEF Becomes, Right, OthersRight
  <2> QED
    BY <2>1, <2>2, <2>4 DEF Right
<1> QED
  BY <1>1, <1>5, <1>6, <1>7 DEF Knows, Becomes

LEMMA ResolveLinksKnows ==
  ASSUME TypeInv, NEW x \in Requests, Active(x) => Knows(x), ResolveLinks(x)
  PROVE  Knows(x)'
<1> DEFINE new == {[w EXCEPT !.target = tx[x].target] : w \in tx[x].picked}
<1>1. Becomes(x, "matching", tx[x].todo, tx[x].queue, Nothing, Nothing, {},
              (tx[x].writes \ tx[x].picked) \cup new)
  BY Working
<1>a. tx[x].picked \subseteq LinkRow
  BY DEF TypeInv, TypeOK, Request
<1>b. /\ \A w \in new : w.target = tx[x].target /\ \E v \in tx[x].picked : w.title = v.title
      /\ \A v \in tx[x].picked : \E w \in new :
           w.doc = v.doc /\ w.version = v.version /\ w.title = v.title
  <2>1. ASSUME NEW v \in tx[x].picked
        PROVE  LET w == [v EXCEPT !.target = tx[x].target] IN
               /\ w \in new /\ w.target = tx[x].target /\ w.title = v.title
               /\ w.doc = v.doc /\ w.version = v.version
    <3>1. v \in LinkRow
      BY <1>a
    <3> QED
      BY <3>1 DEF LinkRow
  <2>2. ASSUME NEW w \in new
        PROVE  w.target = tx[x].target /\ \E v \in tx[x].picked : w.title = v.title
    <3>1. PICK v \in tx[x].picked : w = [v EXCEPT !.target = tx[x].target]
      OBVIOUS
    <3> QED
      BY <2>1, <3>1
  <2>3. ASSUME NEW v \in tx[x].picked
        PROVE  \E w \in new : w.doc = v.doc /\ w.version = v.version /\ w.title = v.title
    <3>1. PICK w : w = [v EXCEPT !.target = tx[x].target]
      OBVIOUS
    <3> HIDE DEF new
    <3> QED
      BY <2>1, <3>1
  <2> HIDE DEF new
  <2> QED
    BY <2>2, <2>3
<1> HIDE DEF new
<1>2. tx[x].pc = "resolving" /\ Knows(x)
  BY DEF ResolveLinks, Active
<1>3. \A u : OnlyDocument(x, u)' = OnlyDocument(x, u)
  BY <1>1, <1>2, OnlyKeptWorking
<1>4. /\ Resolved(tx'[x]) \subseteq Resolved(tx[x]) \cup {tx[x].at}
      /\ Pending(tx'[x]) = Pending(tx[x])
  BY <1>1, <1>2 DEF Becomes, Resolved, Pending
<1>c. \A v \in tx[x].picked : v.title = tx[x].at
  BY <1>2 DEF Knows, About
<1>5. About(tx'[x])
  BY <1>1, <1>2, <1>4, <1>b, <1>c DEF Becomes, Knows, About, Matched
<1>6. Replaces(x)'
  BY <1>1, <1>2 DEF Becomes, Knows, Replaces
<1>7. ASSUME NEW u \in Titles \ tx[x].met PROVE Right(x, u)'
  <2>0. Right(x, u)
    BY <1>2 DEF Knows
  <2>1. WritesRight(x, u)'
    BY <1>1, <1>2, <1>3, <1>b, <1>c, <2>0
       DEF Becomes, Right, WritesRight, TargetRight, Matched
  <2>2. TargetRight(x, u)' /\ PickedRight(x, u)'
    BY <1>1 DEF Becomes, TargetRight, PickedRight, Matched
  <2>3. ASSUME u \in Resolved(tx'[x]), NEW p \in Paths \ {tx[x].path},
               link[p][u] \notin {NoLink, OnlyDocument(x, u)}
        PROVE  Written(tx[x], p, u)' # {}
    <3>1. CASE u = tx[x].at
      <4>1. [doc |-> p, version |-> doc[p].version, title |-> u, target |-> link[p][u]]
              \in tx[x].picked
        BY <1>2, <2>0, <2>3, <3>1 DEF Right, PickedRight
      <4>2. \E w \in new : w.doc = p /\ w.version = doc[p].version /\ w.title = u
        BY <1>b, <4>1
      <4> QED
        BY <1>1, <2>3, <4>2 DEF Becomes, Written
    <3>2. CASE u # tx[x].at
      <4>1. Written(tx[x], p, u) # {}
        BY <1>4, <2>0, <2>3, <3>2 DEF Right, OthersRight
      <4>2. Written(tx[x], p, u) \subseteq Written(tx[x], p, u)'
        BY <1>1, <1>c, <3>2 DEF Becomes, Written
      <4> QED
        BY <4>1, <4>2
    <3> QED
      BY <3>1, <3>2
  <2>4. OthersRight(x, u)'
    BY <1>1, <1>3, <2>3 DEF Becomes, OthersRight
  <2> QED
    BY <2>1, <2>2, <2>4 DEF Right
<1> QED
  BY <1>1, <1>5, <1>6, <1>7 DEF Knows, Becomes

\* A commit leaves the titles its request is not about as they are: no document
\* gains or loses one of them, and the links to them are only deactivated.
LEMMA CommitApart ==
  ASSUME TypeInv, VersionInv, LinkInv, NEW y \in Requests, Commit(y),
         NEW t \in Titles \ {tx[y].title, tx[y].previous}
  PROVE  /\ doc[tx[y].path].title # t /\ doc'[tx[y].path].title # t
         /\ t \notin tx[y].touches =>
              \A p \in Paths : link'[p][t] = IF p = tx[y].path THEN NoLink ELSE link[p][t]
<1>0. /\ tx[y].pc = "matching" /\ tx[y].path \in Paths /\ Knows(y)
      /\ doc'[tx[y].path].title = tx[y].title
  BY Committing DEF LinkInv, Active
<1>1. tx[y].kind # "update" => doc[tx[y].path].title = Nothing
  BY <1>0 DEF VersionInv, Creating, Inserted, Active, LinkInv
<1>2. doc[tx[y].path].title # t
  BY <1>0, <1>1, DocumentsAssumption DEF Knows, Replaces
<1>3. ASSUME t \notin tx[y].touches, NEW p \in Paths
      PROVE  link'[p][t] = IF p = tx[y].path THEN NoLink ELSE link[p][t]
  <2>1. Written(tx[y], p, t) = {}
    BY <1>0, <1>3 DEF Written, Knows, About
  <2> QED
    BY <2>1 DEF Commit
<1> QED
  BY <1>0, <1>2, <1>3

LEMMA CommitKnows ==
  ASSUME TypeInv, VersionInv, LinkInv, NEW y \in Requests, Commit(y),
         NEW x \in Requests \ {y}, Active(x)
  PROVE  Knows(x)'
<1>0. /\ tx[y].pc = "matching" /\ tx[y].path \in Paths /\ tx'[x] = tx[x]
      /\ \A p \in Paths \ {tx[y].path} : doc'[p] = doc[p]
  BY Committing DEF TypeInv, TypeOK
<1>1. Knows(x) /\ Knows(y) /\ tx[y].touches \subseteq tx[x].met
  BY <1>0 DEF LinkInv, Active
<1>2. ASSUME NEW t \in Titles \ tx[x].met
      PROVE  /\ OnlyDocument(x, t)' = OnlyDocument(x, t)
             /\ \A p \in Paths : link'[p][t] = IF p = tx[y].path THEN NoLink ELSE link[p][t]
  <2>1. t \notin tx[y].touches /\ t # tx[y].title /\ t # tx[y].previous
    BY <1>1, DocumentsAssumption DEF Knows, About
  <2>2. /\ doc[tx[y].path].title # t /\ doc'[tx[y].path].title # t
        /\ \A p \in Paths : link'[p][t] = IF p = tx[y].path THEN NoLink ELSE link[p][t]
    BY <2>1, CommitApart
  <2>3. {p \in Paths : TitleSeen(x, p) = t}' = {p \in Paths : TitleSeen(x, p) = t}
    BY <1>0, <2>2 DEF TitleSeen, Inserted, Active
  <2> QED
    BY <2>2, <2>3 DEF OnlyDocument
<1>3. About(tx'[x])
  BY <1>0, <1>1 DEF Knows
<1>4. Replaces(x)'
  <2>1. Updating(y) \/ Creating(y)
    BY <1>0 DEF Updating, Creating, Inserted, Active
  <2>2. tx[x].kind = "update" => tx[x].path \in Paths \ {tx[y].path}
    BY <2>1 DEF VersionInv, Updating, TypeInv, RequestInv, Active
  <2> QED
    BY <1>0, <1>1, <2>2 DEF Knows, Replaces
<1>5. ASSUME NEW t \in Titles \ tx[x].met PROVE Right(x, t)'
  <2>0. Right(x, t)
    BY <1>1 DEF Knows
  <2>1. WritesRight(x, t)' /\ TargetRight(x, t)'
    BY <1>0, <1>2, <2>0 DEF Right, WritesRight, TargetRight
  <2>2. PickedRight(x, t)'
    BY <1>0, <1>2, <2>0 DEF Right, PickedRight
  <2>3. \A p \in Paths \ {tx[x].path, tx[y].path} :
          Written(tx[x], p, t)' = Written(tx[x], p, t)
    BY <1>0 DEF Written
  <2>4. OthersRight(x, t)'
    BY <1>0, <1>2, <2>0, <2>3 DEF Right, OthersRight
  <2> QED
    BY <2>1, <2>2, <2>4 DEF Right
<1> QED
  BY <1>0, <1>3, <1>4, <1>5 DEF Knows

LEMMA BeginKnows ==
  ASSUME TypeInv, NEW x \in Requests, NEW m \in Request, Begin(x, m), m.pc # "idle",
         m.pc \in {"inserting", "retiring"}, m.writes = {},
         {m.title, m.previous} \subseteq Pending(m) \cup {Nothing},
         Pending(m) \subseteq {m.title, m.previous}, m.title \in Titles,
         m.previous = IF m.kind = "update" THEN doc[m.path].title ELSE Nothing,
         LinkInv
  PROVE  LinkInv'
<1> DEFINE touched == ({m.title} \cup m.todo \cup {m.previous}) \ {Nothing}
           seen    == UNION {tx[y].touches : y \in Others(x)}
           n       == [m EXCEPT !.touches = touched, !.met = seen]
<1>1. /\ ~Active(x) /\ UNCHANGED <<doc, link, review, contended>>
      /\ tx' = [y \in Requests |->
                  IF y = x THEN n
                  ELSE IF Active(y) THEN [tx[y] EXCEPT !.met = @ \cup touched]
                  ELSE tx[y]]
  BY DEF Begin
<1>2. /\ n.pc = m.pc /\ n.kind = m.kind /\ n.path = m.path /\ n.title = m.title
      /\ n.previous = m.previous /\ n.todo = m.todo /\ n.queue = m.queue
      /\ n.writes = m.writes /\ n.touches = touched /\ n.met = seen
  BY DEF Request
<1>3. tx'[x] = n
  BY <1>1
<1>d. doc' = doc /\ link' = link
  BY <1>1
<1>a. Nothing \notin Titles /\ m.todo \subseteq Titles /\ m.previous \in Titles \cup {Nothing}
  BY DocumentsAssumption DEF Request
<1>b. Nothing \notin touched /\ {m.title} \cup m.todo \cup ({m.previous} \ {Nothing}) \subseteq touched
  BY <1>a
<1> HIDE DEF n, seen
<1>c. Pending(m) \subseteq Titles
  BY DEF Pending, Request
<1>4. Pending(n) = Pending(m) /\ Resolved(n) = {}
  BY <1>2 DEF Pending, Resolved
<1>5. About(n)
  BY <1>2, <1>4, <1>a, <1>b, <1>c DEF About, Matched
<1>6. Knows(x)'
  <2>1. About(tx'[x]) /\ Replaces(x)'
    BY <1>1, <1>2, <1>3, <1>5 DEF Replaces
  <2>2. ASSUME NEW t PROVE Right(x, t)'
    BY <1>2, <1>3, <1>4
       DEF Right, WritesRight, TargetRight, PickedRight, OthersRight, Matched
  <2> QED
    BY <2>1, <2>2 DEF Knows
<1>7. ASSUME NEW y \in Requests \ {x}
      PROVE  /\ Active(y)' <=> Active(y)
             /\ tx'[y].touches = tx[y].touches
             /\ Active(y) => tx'[y].met = tx[y].met \cup touched
             /\ Active(y) => Knows(y)'
  <2>0. tx[y] \in Request
    BY DEF TypeInv, TypeOK
  <2>1. CASE ~Active(y)
    BY <1>1, <2>1 DEF Active
  <2>2. CASE Active(y)
    <3>1. tx'[y] = [tx[y] EXCEPT !.met = @ \cup touched]
      BY <1>1, <2>2
    <3>2. /\ tx'[y].pc = tx[y].pc /\ tx'[y].kind = tx[y].kind /\ tx'[y].path = tx[y].path
          /\ tx'[y].title = tx[y].title /\ tx'[y].previous = tx[y].previous
          /\ tx'[y].version = tx[y].version /\ tx'[y].todo = tx[y].todo
          /\ tx'[y].queue = tx[y].queue /\ tx'[y].at = tx[y].at
          /\ tx'[y].target = tx[y].target /\ tx'[y].picked = tx[y].picked
          /\ tx'[y].writes = tx[y].writes /\ tx'[y].touches = tx[y].touches
          /\ tx'[y].met = tx[y].met \cup touched
      BY <2>0, <3>1 DEF Request
    <3>3. Knows(y)
      BY <2>2 DEF LinkInv
    <3>4. Pending(tx'[y]) = Pending(tx[y]) /\ Resolved(tx'[y]) = Resolved(tx[y])
      BY <3>2 DEF Pending, Resolved
    <3>5. About(tx'[y])
      BY <3>2, <3>3, <3>4 DEF Knows, About, Matched
    <3>6. Replaces(y)'
      BY <1>1, <3>2, <3>3 DEF Knows, Replaces
    <3>7. \A t : OnlyDocument(y, t)' = OnlyDocument(y, t)
      BY <1>1, <3>2, OnlyKept DEF Inserted, Active
    <3>8. ASSUME NEW t \in Titles \ tx[y].met PROVE Right(y, t)'
      <4>0. Right(y, t)
        BY <3>3 DEF Knows
      <4>1. WritesRight(y, t)' /\ TargetRight(y, t)' /\ PickedRight(y, t)'
        BY <1>1, <3>2, <3>7, <4>0
           DEF Right, WritesRight, TargetRight, PickedRight, Matched
      <4>2. \A p : Written(tx[y], p, t)' = Written(tx[y], p, t)
        BY <1>1, <3>2 DEF Written
      <4>3. OthersRight(y, t)'
        <5>1. ASSUME t \in Resolved(tx'[y]), NEW p \in Paths \ {tx'[y].path}
              PROVE  (link[p][t] \in {NoLink, OnlyDocument(y, t)} \/ Written(tx[y], p, t) # {})'
          BY <1>d, <3>2, <3>4, <3>7, <4>0, <4>2, <5>1 DEF Right, OthersRight
        <5> QED
          BY <5>1 DEF OthersRight
      <4> QED
        BY <4>1, <4>3 DEF Right
    <3>9. Knows(y)'
      BY <3>2, <3>5, <3>6, <3>8 DEF Knows
    <3> QED
      BY <2>2, <3>2, <3>9 DEF Active
  <2> QED
    BY <2>1, <2>2
<1>8. \A y \in Requests \ {x} : Active(y) =>
        tx[y].touches \subseteq tx'[x].met /\ tx'[x].touches \subseteq tx'[y].met
  BY <1>2, <1>3, <1>7 DEF seen, Others
<1>9. \A y, z \in Requests \ {x} : Active(y) /\ Active(z) /\ y # z =>
        tx'[z].touches \subseteq tx'[y].met
  BY <1>7 DEF LinkInv
<1> QED
  BY <1>1, <1>6, <1>7, <1>8, <1>9 DEF LinkInv

\* A new request has resolved nothing yet: the titles it replaces wait in its queue.
LEMMA CreationKnows ==
  ASSUME TypeInv, LinkInv, NEW x \in Requests, NEW p \in Paths, NEW text \in Texts,
         NEW kind \in {"create", "promote"}, NEW r \in Runs \cup {Nothing},
         kind = "promote" <=> r \in Runs, Begin(x, Creation(kind, p, r, text))
  PROVE  LinkInv'
<1> DEFINE m == Creation(kind, p, r, text)
<1>1. /\ m \in Request /\ m.pc = "inserting" /\ m.kind = kind
  BY CreationTyped DEF RequestInv
<1>2. /\ m.title = text.title /\ m.previous = Nothing /\ m.queue = <<text.title>>
      /\ m.writes = {}
  BY DEF Creation, Idle
<1>3. text.title \in Titles
  BY DocumentsAssumption
<1>4. Begin(x, m)
  OBVIOUS
<1> HIDE DEF m
<1>5. Pending(m) = {text.title}
  BY <1>2 DEF Pending
<1> QED
  BY <1>1, <1>2, <1>3, <1>4, <1>5, BeginKnows

LEMMA UpdateKnows ==
  ASSUME TypeInv, LinkInv, NEW x \in Requests, NEW p \in Paths, NEW text \in Texts,
         BeginUpdate(x, p, text)
  PROVE  LinkInv'
<1>0. text.title \in Titles /\ text.links \subseteq Titles
  BY DocumentsAssumption
<1>1. doc[p].version \in 1 .. MaxVersion - 1 /\ doc[p].version # 0 /\ MaxVersion \in Nat
  BY DocumentsAssumption DEF BeginUpdate
<1>2. doc[p].title \in Titles
  BY <1>1 DEF TypeInv, RowInv
<1>3. Retitled(doc[p].title, text.title) \in Seq(Titles)
  BY <1>0, <1>2 DEF Retitled
<1> PICK version \in 0 .. MaxVersion, queue \in Seq(Titles), previous \in Titles,
         title \in Titles, links \in SUBSET Titles :
      /\ version = doc[p].version /\ queue = Retitled(doc[p].title, text.title)
      /\ previous = doc[p].title /\ title = text.title /\ links = text.links
  BY <1>0, <1>1, <1>2, <1>3
<1> DEFINE m == [Idle EXCEPT !.pc = "retiring", !.kind = "update", !.path = p,
                             !.title = title, !.todo = links, !.previous = previous,
                             !.version = version, !.queue = queue]
<1>4. m \in Request
  BY ZenonT(40), DocumentsAssumption DEF Request, Idle, Linked
<1>5. /\ m.pc = "retiring" /\ m.kind = "update" /\ m.path = p /\ m.title = title
      /\ m.previous = previous /\ m.queue = queue /\ m.writes = {}
  BY DEF Idle
<1>6. Begin(x, m)
  BY DEF BeginUpdate
<1> HIDE DEF m
<1>7. Pending(m) = {title, previous}
  <2>1. CASE previous = title
    BY <1>5, <2>1 DEF Pending, Retitled
  <2>2. CASE previous # title
    <3>1. queue = <<previous, title>>
      BY <2>2 DEF Retitled
    <3>2. queue[1] = previous /\ queue[2] = title /\ 1 .. Len(queue) = {1, 2}
      BY <3>1
    <3> QED
      BY <1>5, <3>2 DEF Pending
  <2> QED
    BY <2>1, <2>2
<1> QED
  BY <1>4, <1>5, <1>6, <1>7, BeginKnows

LEMMA WorkKnows ==
  ASSUME TypeInv, LinkInv, NEW x \in Requests,
         \/ InsertDocument(x) \/ RetireLinks(x) \/ (\E t \in Titles : MatchLink(x, t))
         \/ WriteLink(x) \/ MatchTitle(x) \/ SelectLinks(x) \/ ResolveLinks(x)
  PROVE  LinkInv' /\ UNCHANGED <<doc, link, contended>>
<1>1. Active(x) => Knows(x)
  BY DEF LinkInv
<1>2. Knows(x)'
  BY <1>1, InsertKnows, MatchLinkKnows, WriteLinkKnows, MatchTitleKnows, SelectLinksKnows,
     ResolveLinksKnows
<1>3. /\ Active(x) /\ UNCHANGED <<doc, link, contended>>
      /\ tx'[x].touches = tx[x].touches /\ tx'[x].met = tx[x].met
      /\ \A y \in Requests \ {x} : tx'[y] = tx[y]
  BY Working DEF Becomes, Active
<1>4. ASSUME NEW y \in Requests \ {x}, Active(y) PROVE Knows(y)'
  <2>1. Knows(y)
    BY <1>4 DEF LinkInv
  <2>2. tx'[y] = tx[y] /\ doc' = doc /\ link' = link
    BY <1>3
  <2>3. \A t : OnlyDocument(y, t)' = OnlyDocument(y, t)
    BY <2>2, OnlyKept DEF Inserted, Active
  <2> QED
    BY <2>1, <2>2, <2>3
       DEF Knows, Replaces, Right, WritesRight, TargetRight, PickedRight, OthersRight, Written
<1>5. \A y \in Requests \ {x} : Active(y)' <=> Active(y)
  BY <1>3 DEF Active
<1>6. \A y, z \in Requests : Active(y)' /\ Active(z)' /\ y # z =>
        tx'[z].touches \subseteq tx'[y].met
  BY <1>3, <1>5 DEF LinkInv
<1> QED
  BY <1>2, <1>3, <1>4, <1>5, <1>6 DEF LinkInv

LEMMA LinkStep ==
  ASSUME TypeInv, VersionInv, LinkInv, [Next]_vars
  PROVE  LinkInv'
<1>0. tx \in [Requests -> Request] /\ Idle.pc = "idle"
  BY IdleTyped DEF TypeInv, TypeOK
<1>1. ASSUME NEW x \in Requests, NEW p \in Paths, NEW text \in Texts, BeginCreate(x, p, text)
      PROVE  LinkInv'
  BY <1>1, CreationKnows, DocumentsAssumption DEF BeginCreate
<1>2. ASSUME NEW x \in Requests, NEW p \in Paths, NEW text \in Texts, BeginUpdate(x, p, text)
      PROVE  LinkInv'
  BY <1>2, UpdateKnows
<1>3. ASSUME NEW x \in Requests, NEW p \in Paths, NEW r \in Runs, BeginPromote(x, p, r)
      PROVE  LinkInv'
  <2> PICK text \in Texts : text = review[r].text
    BY <1>3 DEF BeginPromote, TypeInv
  <2> QED
    BY <1>3, CreationKnows DEF BeginPromote
<1>4. ASSUME NEW x \in Requests, Commit(x) PROVE LinkInv'
  <2>1. /\ tx' = [tx EXCEPT ![x] = Idle] /\ tx[x].path \in Paths
        /\ doc'[tx[x].path].version # 0
        /\ \A p \in Paths \ {tx[x].path} : doc'[p] = doc[p]
    BY <1>4, Committing DEF TypeInv, RequestInv
  <2>2. ~Active(x)' /\ \A y \in Requests \ {x} : tx'[y] = tx[y]
    BY <1>0, <2>1 DEF Active
  <2>3. \A y \in Requests \ {x} : Active(y)' <=> Active(y)
    BY <2>2 DEF Active
  <2>4. \A y \in Requests \ {x} : Active(y) => Knows(y)'
    BY <1>4, CommitKnows
  <2>5. \A p \in Paths : doc'[p].version = 0 => doc'[p].title = Nothing
    BY <2>1 DEF LinkInv
  <2>6. \A y, z \in Requests \ {x} : Active(y) /\ Active(z) /\ y # z =>
          tx'[z].touches \subseteq tx'[y].met
    BY <2>2 DEF LinkInv
  <2> QED
    BY <2>2, <2>3, <2>4, <2>5, <2>6 DEF LinkInv
<1>5. ASSUME UNCHANGED <<doc, link>>,
             \A y \in Requests : tx'[y] = tx[y] \/ ~Active(y)'
      PROVE  LinkInv'
  <2>1. ASSUME NEW y \in Requests, Active(y)' PROVE Active(y) /\ tx'[y] = tx[y] /\ Knows(y)'
    <3>1. tx'[y] = tx[y] /\ Active(y) /\ doc' = doc /\ link' = link
      BY <1>5, <2>1 DEF Active
    <3>2. Knows(y)
      BY <3>1 DEF LinkInv
    <3>3. \A t : OnlyDocument(y, t)' = OnlyDocument(y, t)
      BY <3>1, OnlyKept DEF Inserted, Active
    <3>4. Knows(y)'
      BY <3>1, <3>2, <3>3
         DEF Knows, Replaces, Right, WritesRight, TargetRight, PickedRight, OthersRight,
             Written
    <3> QED
      BY <3>1, <3>4
  <2>2. \A y, z \in Requests : Active(y)' /\ Active(z)' /\ y # z =>
          tx'[z].touches \subseteq tx'[y].met
    BY <2>1 DEF LinkInv
  <2> QED
    BY <1>5, <2>1, <2>2 DEF LinkInv
<1>6. ASSUME NEW x \in Requests, RollBack(x) PROVE LinkInv'
  <2>1. ~Active(x)' /\ \A y \in Requests \ {x} : tx'[y] = tx[y]
    BY <1>0, <1>6 DEF RollBack, Set, Active
  <2> QED
    BY <1>5, <1>6, <2>1 DEF RollBack
<1>7. ASSUME NEW r \in Runs, Intake(r) PROVE LinkInv'
  BY <1>5, <1>7, Intakes
<1>8. CASE UNCHANGED vars
  BY <1>5, <1>8 DEF vars
<1> QED
  BY <1>1, <1>2, <1>3, <1>4, <1>6, <1>7, <1>8, WorkKnows DEF Next, Work

LEMMA LinkInit == Init => LinkInv
BY IdleTyped DEF Init, LinkInv, NoDocument, Active

\* What matching_documents returns is right.
LEMMA OnlySound ==
  ASSUME NEW S \in SUBSET Paths
  PROVE  S = {OnlyOf(S)} \/ (OnlyOf(S) = Nothing /\ Cardinality(S) # 1)
<1>1. CASE Cardinality(S) = 1
  <2>1. IsFiniteSet(S)
    BY DocumentsAssumption, FS_Subset
  <2>2. PICK p : S = {p}
    BY <1>1, <2>1, FS_Singleton
  <2> QED
    BY <1>1, <2>2 DEF OnlyOf
<1>2. CASE Cardinality(S) # 1
  BY <1>2 DEF OnlyOf
<1> QED
  BY <1>1, <1>2

\* A request that was alone with a title leaves all links to it right, and a
\* request that was not about it leaves them as they are.
LEMMA CommitAgrees ==
  ASSUME TypeInv, VersionInv, LinkInv, LinksAgree, NEW x \in Requests, Commit(x)
  PROVE  LinksAgree'
<1>0. /\ tx[x].pc = "matching" /\ tx[x].queue = <<>> /\ tx[x].path \in Paths /\ Knows(x)
      /\ tx[x].title \in Titles /\ doc'[tx[x].path].title = tx[x].title
      /\ \A p \in Paths \ {tx[x].path} : doc'[p] = doc[p]
      /\ contended' = (contended \ ({tx[x].title, tx[x].previous} \ tx[x].met))
                         \cup (tx[x].touches \cap tx[x].met)
  BY Committing DEF Commit, LinkInv, Active, TypeInv, RequestInv
<1>1. ASSUME NEW t \in Titles, NEW p \in Paths
      PROVE  \/ \E w \in Written(tx[x], p, t) : link'[p][t] = w.target
             \/ /\ Written(tx[x], p, t) = {}
                /\ link'[p][t] = IF p = tx[x].path THEN NoLink ELSE link[p][t]
  <2>1. link'[p][t] =
          IF Written(tx[x], p, t) # {} THEN (CHOOSE w \in Written(tx[x], p, t) : TRUE).target
          ELSE IF p = tx[x].path THEN NoLink ELSE link[p][t]
    BY DEF Commit
  <2>2. CASE Written(tx[x], p, t) # {}
    <3>1. (CHOOSE w \in Written(tx[x], p, t) : TRUE) \in Written(tx[x], p, t)
      BY <2>2
    <3> QED
      BY <2>1, <2>2, <3>1
  <2> QED
    BY <2>1, <2>2
<1>2. ASSUME NEW t \in Titles, Right(x, t), NEW w, NEW p, w \in Written(tx[x], p, t)
      PROVE  w.target = OnlyDocument(x, t)
  BY <1>2 DEF Written, Right, WritesRight
<1>3. ASSUME NEW t \in Titles \ contended', NEW p \in Paths,
             link'[p][t] \notin {NoLink, OnlyOf({q \in Paths : doc'[q].title = t})}
      PROVE  /\ t \notin contended /\ link'[p][t] = link[p][t]
             /\ {q \in Paths : doc'[q].title = t} = {q \in Paths : doc[q].title = t}
  <2>1. OnlyDocument(x, t) = OnlyOf({q \in Paths : doc'[q].title = t})
    <3>1. {q \in Paths : TitleSeen(x, q) = t} = {q \in Paths : doc'[q].title = t}
      BY <1>0 DEF TitleSeen, Inserted, Active
    <3> QED
      BY <3>1 DEF OnlyDocument
  <2>2. CASE t \in {tx[x].title, tx[x].previous}
    <3>1. t \in tx[x].touches
      BY <1>0, <2>2, DocumentsAssumption DEF Knows, About
    <3>2. t \notin tx[x].met
      BY <1>0, <3>1
    <3>3. Right(x, t)
      BY <1>0, <3>2 DEF Knows
    <3>4. t \in Resolved(tx[x])
      BY <1>0, <2>2, DocumentsAssumption DEF Resolved, Pending
    <3>5. p # tx[x].path =>
            link[p][t] \in {NoLink, OnlyDocument(x, t)} \/ Written(tx[x], p, t) # {}
      BY <3>3, <3>4 DEF Right, OthersRight
    <3> QED
      BY <1>1, <1>2, <1>3, <2>1, <3>3, <3>5
  <2>3. CASE t \notin {tx[x].title, tx[x].previous}
    <3>1. doc[tx[x].path].title # t /\ doc'[tx[x].path].title # t
      BY <2>3, CommitApart
    <3>2. {q \in Paths : doc'[q].title = t} = {q \in Paths : doc[q].title = t}
      BY <1>0, <3>1
    <3>3. t \notin contended
      BY <1>0, <2>3
    <3>4. CASE t \in tx[x].touches
      <4>1. Right(x, t)
        BY <1>0, <3>4 DEF Knows
      <4> QED
        BY <1>1, <1>2, <1>3, <2>1, <3>2, <3>3, <4>1
    <3>5. CASE t \notin tx[x].touches
      BY <1>3, <2>3, <3>2, <3>3, <3>5, CommitApart
    <3> QED
      BY <3>4, <3>5
  <2> QED
    BY <2>2, <2>3
<1>4. ASSUME NEW t \in Titles \ contended', NEW p \in Paths
      PROVE  LET matches == {q \in Paths : doc'[q].title = t} IN
             \/ link'[p][t] = NoLink
             \/ matches = {link'[p][t]}
             \/ link'[p][t] = Nothing /\ Cardinality(matches) # 1
  <2> DEFINE matches == {q \in Paths : doc'[q].title = t}
  <2>1. CASE link'[p][t] \in {NoLink, OnlyOf(matches)}
    BY <2>1, OnlySound
  <2>2. CASE link'[p][t] \notin {NoLink, OnlyOf(matches)}
    <3>1. /\ t \notin contended /\ link'[p][t] = link[p][t]
          /\ matches = {q \in Paths : doc[q].title = t}
      BY <1>3, <2>2
    <3> QED
      BY <3>1 DEF LinksAgree
  <2> QED
    BY <2>1, <2>2
<1> QED
  BY <1>4 DEF LinksAgree

\* For every title last written by a request that overlapped with no other about
\* it, a link is resolved exactly if one document has the title, and to that one
\* (persist_links, resolve_links_for_title).
THEOREM LinksStayRight == Spec => []LinksAgree
<1>1. Init => TypeInv /\ VersionInv /\ LinkInv /\ LinksAgree
  <2>1. Init => LinksAgree
    BY DEF Init, LinksAgree
  <2> QED
    BY <2>1, TypeInit, VersionInit, LinkInit
<1>2. TypeInv /\ VersionInv /\ LinkInv /\ LinksAgree /\ [Next]_vars
        => TypeInv' /\ VersionInv' /\ LinkInv' /\ LinksAgree'
  <2> SUFFICES ASSUME TypeInv, VersionInv, LinkInv, LinksAgree, [Next]_vars
               PROVE  LinksAgree'
    BY TypeStep, VersionStep, LinkStep
  <2>1. ASSUME UNCHANGED <<doc, link, contended>> PROVE LinksAgree'
    <3>1. \A t : {q \in Paths : doc'[q].title = t} = {q \in Paths : doc[q].title = t}
      BY <2>1
    <3> QED
      BY <2>1, <3>1 DEF LinksAgree
  <2>2. ASSUME NEW r \in Runs, Intake(r) PROVE UNCHANGED <<doc, link, contended>>
    BY <2>2 DEF Intake, Ingest, IngestFails, Reject
  <2> QED
    BY <2>1, <2>2, CommitAgrees, Steps DEF Begins, Works, RollBack, vars
<1> QED
  BY <1>1, <1>2, PTL DEF Spec
=============================================================================
