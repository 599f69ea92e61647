------------------------------ MODULE Documents ------------------------------
(***************************************************************************)
(* Documents, their versions and the links between them                    *)
(* (api/documents.py), and the review of ingested files, which makes       *)
(* documents of them (api/ingestions.py).                                  *)
(*                                                                         *)
(* Every request is one transaction of several statements at READ          *)
(* COMMITTED: a statement sees what was committed before it, and the       *)
(* transaction's own writes.  A transaction that must wait for a lock has  *)
(* its next action disabled.  Nothing guards against two transactions that *)
(* resolve links of one title from different views of the documents;       *)
(* LinksAgree says how far such a confusion reaches.                       *)
(***************************************************************************)
EXTENDS Naturals, Sequences, FiniteSets

CONSTANTS
  Paths,        \* paths of documents: a document is never moved or deleted
  Titles,       \* titles, as normalize_title leaves them
  Texts,        \* texts a client may send: a title and the titles it links to
  Runs,         \* ingestion runs
  Requests,     \* requests that can be in progress together
  MaxVersion,   \* bound: versions of one document
  Nothing       \* no document, no title, no run

ASSUME DocumentsAssumption ==
  /\ Texts \subseteq [title : Titles, links : SUBSET Titles]
  /\ IsFiniteSet(Paths)
  /\ MaxVersion \in Nat \ {0}
  /\ Nothing \notin Paths \cup Titles \cup Runs

VARIABLES
  doc,        \* documents with the number of their latest version
  link,       \* document_links: targets of the active links of each document
  review,     \* ingestion_runs with their candidates
  tx,         \* requests in progress
  contended   \* observed: titles last written by requests that overlapped

vars == <<doc, link, review, tx, contended>>

---------------------------------------------------------------------------
NoLink == "no link"   \* the document has no active link to the title
Linked == Paths \cup {Nothing}

DocumentRow == [title : Titles \cup {Nothing}, version : 0 .. MaxVersion,
                origin : Runs \cup {Nothing}]
NoDocument  == [title |-> Nothing, version |-> 0, origin |-> Nothing]

\* An ingestion and its candidates, which share the fate of their run.
ReviewRow == [status : {"absent", "failed", "pending", "promoted", "rejected"},
              candidates : {"pending", "accepted", "rejected"},
              text : Texts \cup {Nothing}, document : Paths \cup {Nothing}]
NoReview  == [status |-> "absent", candidates |-> "pending",
              text |-> Nothing, document |-> Nothing]

\* A row of document_links belongs to a version of its source.
LinkRow == [doc : Paths, version : 1 .. MaxVersion, title : Titles,
            target : Linked]

Request ==
  [pc : {"idle", "inserting", "retiring", "matching", "linking", "selecting",
         "resolving"},
   kind : {"create", "update", "promote"},
   path : Paths \cup {Nothing}, title : Titles \cup {Nothing},
   run : Runs \cup {Nothing},
   previous : Titles \cup {Nothing},  \* title before the update
   version : 0 .. MaxVersion,         \* latest_version, as read
   todo : SUBSET Titles,              \* links to be matched
   queue : Seq(Titles),               \* titles to be resolved
   at : Titles \cup {Nothing},        \* link or title in work
   target : Linked,                   \* the document it was matched with
   picked : SUBSET LinkRow,           \* loaded links to be changed
   writes : SUBSET LinkRow,           \* uncommitted links
   touches : SUBSET Titles,           \* observed: titles it is about
   met : SUBSET Titles]               \* observed: those of others meanwhile

Idle == [pc |-> "idle", kind |-> "create", path |-> Nothing, title |-> Nothing,
         run |-> Nothing, previous |-> Nothing, version |-> 0, todo |-> {},
         queue |-> <<>>, at |-> Nothing, target |-> Nothing, picked |-> {},
         writes |-> {}, touches |-> {}, met |-> {}]

Active(x)    == tx[x].pc # "idle"
Others(x)    == {y \in Requests \ {x} : Active(y)}
Set(x, m)    == tx' = [tx EXCEPT ![x] = m]

\* A document of the request's own is visible to it before it is committed.
Inserted(x) == Active(x) /\ tx[x].pc # "inserting"

TitleSeen(x, p) ==
  IF Inserted(x) /\ tx[x].path = p THEN tx[x].title ELSE doc[p].title

\* matching_documents: the only document of a title, if there is just one.  Rows
\* are taken as committed: the title of a document the request has loaded already
\* stays the older one in its session, which only matters when another request
\* has written that title in between, and then the title is contended.
OnlyOf(matches) ==
  IF Cardinality(matches) = 1 THEN CHOOSE p \in matches : TRUE ELSE Nothing

OnlyDocument(x, t) == OnlyOf({p \in Paths : TitleSeen(x, p) = t})

\* The check of a foreign key locks the target FOR KEY SHARE, against which
\* get_document_or_404 locks it FOR UPDATE.
LockedForUpdate(p, x) ==
  \E y \in Others(x) : tx[y].kind = "update" /\ tx[y].path = p
LockedByKey(p, x) ==
  \E y \in Others(x) : \E w \in tx[y].writes : w.target = p
Referable(p, x) == p = Nothing \/ ~LockedForUpdate(p, x)

\* Links another request has written, or deactivated, and not committed.
RowLocked(w, x) ==
  \E y \in Others(x) :
    \/ \E v \in tx[y].writes : <<v.doc, v.version, v.title>> = <<w.doc, w.version, w.title>>
    \/ /\ tx[y].kind = "update" /\ tx[y].pc # "retiring"
       /\ tx[y].path = w.doc /\ tx[y].version = w.version

\* Mutant of RunFree: the run is read without a lock.
RunFreeAlways(r) == TRUE

\* with_for_update on the ingestion run, in promote_ingestion and reject_ingestion.
RunFree(r) == \A y \in Requests : tx[y].run # r

---------------------------------------------------------------------------
Init ==
  /\ doc = [p \in Paths |-> NoDocument]
  /\ link = [p \in Paths |-> [t \in Titles |-> NoLink]]
  /\ review = [r \in Runs |-> NoReview]
  /\ tx = [x \in Requests |-> Idle]
  /\ contended = {}

\* A request begins with its locks and what it reads under them.
Begin(x, m) ==
  LET touched == ({m.title} \cup m.todo \cup {m.previous}) \ {Nothing}
      seen    == UNION {tx[y].touches : y \in Others(x)} IN
  /\ ~Active(x)
  /\ tx' = [y \in Requests |->
              IF y = x THEN [m EXCEPT !.touches = touched, !.met = seen]
              ELSE IF Active(y) THEN [tx[y] EXCEPT !.met = @ \cup touched]
              ELSE tx[y]]
  /\ UNCHANGED <<doc, link, review, contended>>

Creation(kind, p, r, text) ==
  [Idle EXCEPT !.pc = "inserting", !.kind = kind, !.path = p, !.run = r,
               !.title = text.title, !.todo = text.links,
               !.queue = <<text.title>>]

\* create_document, up to the INSERT.
BeginCreate(x, p, text) ==
  Begin(x, Creation("create", p, Nothing, text))

\* promote_ingestion, up to the INSERT: the run stays locked until the end.
BeginPromote(x, p, r) ==
  /\ RunFree(r)
  /\ review[r].status = "pending"
  /\ Begin(x, Creation("promote", p, r, review[r].text))

\* Mutant of Retitled: nothing but the new title is resolved.
RetitledNew(previous, t) == <<t>>

\* The titles update_document resolves.
Retitled(previous, t) == IF previous = t THEN <<t>> ELSE <<previous, t>>

\* Mutant of DocumentFree: the document is read without a lock.
DocumentFreeAlways(x, p) == TRUE

DocumentFree(x, p) == ~LockedForUpdate(p, x) /\ ~LockedByKey(p, x)

\* update_document, up to the deactivation of the old version's links.
BeginUpdate(x, p, text) ==
  LET row == doc[p] IN
  /\ row.version \in 1 .. MaxVersion - 1
  /\ DocumentFree(x, p)
  /\ Begin(x, [Idle EXCEPT !.pc = "retiring", !.kind = "update", !.path = p,
                           !.title = text.title, !.todo = text.links,
                           !.previous = row.title, !.version = row.version,
                           !.queue = Retitled(row.title, text.title)])

\* The unique path lets one of two uncommitted documents wait for the other.
InsertDocument(x) ==
  LET m == tx[x] IN
  /\ m.pc = "inserting"
  /\ doc[m.path].version = 0
  /\ \A y \in Others(x) : ~(Inserted(y) /\ tx[y].path = m.path)
  /\ Set(x, [m EXCEPT !.pc = "matching"])
  /\ UNCHANGED <<doc, link, review, contended>>

RetireLinks(x) ==
  LET m == tx[x] IN
  /\ m.pc = "retiring"
  /\ \A y \in Others(x) : \A w \in tx[y].writes :
       ~(w.doc = m.path /\ w.version = m.version)
  /\ Set(x, [m EXCEPT !.pc = "matching"])
  /\ UNCHANGED <<doc, link, review, contended>>

\* persist_links: for every link one query, and then its INSERT.
MatchLink(x, t) ==
  LET m == tx[x] IN
  /\ m.pc = "matching" /\ t \in m.todo
  /\ Set(x, [m EXCEPT !.pc = "linking", !.todo = @ \ {t}, !.at = t,
                      !.target = OnlyDocument(x, t)])
  /\ UNCHANGED <<doc, link, review, contended>>

WriteLink(x) ==
  LET m == tx[x] IN
  /\ m.pc = "linking"
  /\ Referable(m.target, x)
  /\ Set(x, [m EXCEPT !.pc = "matching", !.at = Nothing, !.target = Nothing,
                      !.writes = @ \cup {[doc |-> m.path, version |-> m.version + 1,
                                          title |-> m.at, target |-> m.target]}])
  /\ UNCHANGED <<doc, link, review, contended>>

\* resolve_links_for_title: the query of the documents of the title, ...
MatchTitle(x) ==
  LET m == tx[x] IN
  /\ m.pc = "matching" /\ m.todo = {} /\ m.queue # <<>>
  /\ Set(x, [m EXCEPT !.pc = "selecting", !.at = Head(m.queue),
                      !.target = OnlyDocument(x, Head(m.queue)),
                      !.queue = Tail(m.queue)])
  /\ UNCHANGED <<doc, link, review, contended>>

\* ... the query of the active links to it, ...
LinksSeen(x, t) ==
  {w \in tx[x].writes : w.title = t /\ w.doc = tx[x].path} \cup
  {[doc |-> p, version |-> doc[p].version, title |-> t, target |-> link[p][t]] :
     p \in {q \in Paths \ {tx[x].path} : link[q][t] # NoLink}}

SelectLinks(x) ==
  LET m == tx[x] IN
  /\ m.pc = "selecting"
  /\ Set(x, [m EXCEPT !.pc = "resolving",
                      !.picked = {w \in LinksSeen(x, m.at) : w.target # m.target}])
  /\ UNCHANGED <<doc, link, review, contended>>

\* ... and the UPDATE of those that change, which waits for their locks.
ResolveLinks(x) ==
  LET m   == tx[x]
      new == {[w EXCEPT !.target = m.target] : w \in m.picked} IN
  /\ m.pc = "resolving"
  /\ m.picked # {} => Referable(m.target, x)
  /\ \A w \in m.picked : ~RowLocked(w, x)
  /\ Set(x, [m EXCEPT !.pc = "matching", !.at = Nothing, !.target = Nothing,
                      !.picked = {}, !.writes = (@ \ m.picked) \cup new])
  /\ UNCHANGED <<doc, link, review, contended>>

\* What a request has written of the link of p to t: a link of the version it
\* adds, or one of the version that is still the latest.
Written(m, p, t) ==
  {w \in m.writes :
     /\ w.doc = p /\ w.title = t
     /\ w.version = IF p = m.path THEN m.version + 1 ELSE doc[p].version}

\* The commit; promote_ingestion decides the run and its candidates with it.
Commit(x) ==
  LET m == tx[x] IN
  /\ m.pc = "matching" /\ m.todo = {} /\ m.queue = <<>>
  /\ doc' = [doc EXCEPT ![m.path] =
               [@ EXCEPT !.title = m.title, !.version = m.version + 1,
                         !.origin = IF m.kind = "update" THEN doc[m.path].origin
                                    ELSE m.run]]
  /\ link' = [p \in Paths |-> [t \in Titles |->
                IF Written(m, p, t) # {}
                  THEN (CHOOSE w \in Written(m, p, t) : TRUE).target
                ELSE IF p = m.path THEN NoLink ELSE link[p][t]]]
  /\ review' = IF m.kind # "promote" THEN review
               ELSE [review EXCEPT ![m.run] =
                       [@ EXCEPT !.status = "promoted", !.candidates = "accepted",
                                 !.document = m.path]]
  /\ Set(x, Idle)
  /\ contended' = (contended \ ({m.title, m.previous} \ m.met))
                    \cup (m.touches \cap m.met)

\* The path is taken, the request is chosen to resolve a deadlock, or it dies.
RollBack(x) ==
  /\ Active(x)
  /\ Set(x, Idle)
  /\ UNCHANGED <<doc, link, review, contended>>

\* stage_intake, for an upload as for a synchronised resource.
Ingest(r, text) ==
  /\ review[r].status = "absent"
  /\ review' = [review EXCEPT ![r] = [@ EXCEPT !.status = "pending", !.text = text]]
  /\ UNCHANGED <<doc, link, tx, contended>>

IngestFails(r) ==
  /\ review[r].status = "absent"
  /\ review' = [review EXCEPT ![r].status = "failed"]
  /\ UNCHANGED <<doc, link, tx, contended>>

\* reject_ingestion
Reject(r) ==
  /\ RunFree(r)
  /\ review[r].status = "pending"
  /\ review' = [review EXCEPT ![r] = [@ EXCEPT !.status = "rejected",
                                               !.candidates = "rejected"]]
  /\ UNCHANGED <<doc, link, tx, contended>>

\* The triggers of migration f1fa3b2c77ae: decided reviews and candidates are
\* immutable.
ReviewSealed(old, new) ==
  old.status \in {"promoted", "rejected"} => new = old

CandidatesSealed(old, new) ==
  old.candidates \in {"accepted", "rejected"} => new = old

\* The chunks of the version a run was promoted to, the first one of its
\* document, are complete once it is promoted.
ChunksSealed(p, version) ==
  \A r \in Runs :
    review[r].status = "promoted" /\ review[r].document = p => version # 1

\* The evidence that ties a document to its run, and the link between the two,
\* are written while the run is still pending and never again.
EvidenceSealed(old, new) ==
  new # old => old = Nothing /\ review[new].status = "pending"

Work(x) ==
  \/ \E p \in Paths, text \in Texts : BeginCreate(x, p, text) \/ BeginUpdate(x, p, text)
  \/ \E p \in Paths, r \in Runs : BeginPromote(x, p, r)
  \/ InsertDocument(x)
  \/ RetireLinks(x)
  \/ \E t \in Titles : MatchLink(x, t)
  \/ WriteLink(x)
  \/ MatchTitle(x)
  \/ SelectLinks(x)
  \/ ResolveLinks(x)
  \/ Commit(x)
  \/ RollBack(x)

Intake(r) ==
  \/ \E text \in Texts : Ingest(r, text)
  \/ IngestFails(r)
  \/ Reject(r)

Next == (\E x \in Requests : Work(x)) \/ (\E r \in Runs : Intake(r))

Spec == Init /\ [][Next]_vars

---------------------------------------------------------------------------
\* Type correctness.
TypeOK ==
  /\ doc \in [Paths -> DocumentRow]
  /\ link \in [Paths -> [Titles -> Linked \cup {NoLink}]]
  /\ review \in [Runs -> ReviewRow]
  /\ tx \in [Requests -> Request]
  /\ contended \subseteq Titles

\* A link is resolved exactly if one document has its title, and to that one
\* (persist_links, resolve_links_for_title), for every title that was written
\* last by a request that overlapped with no other request about it.  What an
\* overlap left wrong is so repaired by the next one that comes alone.
LinksAgree ==
  \A t \in Titles \ contended, p \in Paths :
    LET matches == {q \in Paths : doc[q].title = t} IN
    \/ link[p][t] = NoLink
    \/ matches = {link[p][t]}
    \/ link[p][t] = Nothing /\ Cardinality(matches) # 1

\* The version an update read stays the latest until it commits, so that the
\* versions of a document are numbered without a gap and the conflict update_document
\* answers with 409 does not arise (get_document_or_404 with for_update).
VersionsNeverCollide ==
  \A x \in Requests :
    Active(x) /\ tx[x].kind = "update" => tx[x].version = doc[tx[x].path].version

\* A promoted ingestion has one document, with the path it was promoted to,
\* and no other ingestion has any, whoever decides at the same time.
OneDocumentPerIngestion ==
  \A r \in Runs :
    {p \in Paths : doc[p].origin = r} =
      IF review[r].status = "promoted" THEN {review[r].document} ELSE {}

\* A request that promotes a run finds it still undecided when it commits: the
\* triggers that seal decided runs, candidates, chunks and evidence never refuse
\* it, and neither a decision nor what it was taken on is ever replaced.
DecisionsAreFinal ==
  [][/\ \A r \in Runs :
          /\ ReviewSealed(review[r], review'[r])
          /\ CandidatesSealed(review[r], review'[r])
          /\ review[r].status = "failed" => review'[r] = review[r]
     /\ \A p \in Paths : doc'[p] # doc[p] =>
          /\ ChunksSealed(p, doc'[p].version)
          /\ EvidenceSealed(doc[p].origin, doc'[p].origin)]_vars
=============================================================================
