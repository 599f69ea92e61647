------------------------------ MODULE Workbench ------------------------------
(***************************************************************************)
(* The operator's workbench in the browser (apps/web/src/App.tsx, api.ts): *)
(* what it shows, what it has asked the server, and answers that come late *)
(* or not at all.                                                          *)
(*                                                                         *)
(* Every edit of the session or the connector starts a new generation and  *)
(* clears what was shown; calls that are still in flight are not stopped,  *)
(* and their answers are dropped when they come.  Uploads, imports,        *)
(* decisions and refreshes of the review queue run beside one another, and *)
(* other operators decide documents too.                                   *)
(***************************************************************************)
EXTENDS Integers, FiniteSets

CONSTANTS
  Scopes,          \* workspace sessions the operator may enter
  Uploads,         \* documents the server may create
  MaxGeneration,   \* bound: edits
  MaxCalls,        \* bound: calls in flight
  Nothing          \* no document, scope or list

ASSUME WorkbenchAssumption ==
  /\ Nothing \notin Scopes
  /\ Nothing \notin Uploads
  /\ MaxGeneration \in Nat
  /\ MaxCalls \in Nat

VARIABLES
  scope,       \* the session that is entered
  generation,  \* requestGeneration
  board,       \* what is shown, and the flags that disable buttons
  flight,      \* calls in flight, answered by the server or not
  served,      \* the server: documents, their workspace and decision
  mine         \* observed: documents whose decision was acknowledged here

workbenchVars == <<scope, generation, board, flight, served, mine>>

---------------------------------------------------------------------------
NoGeneration == -1
Generations  == 0 .. MaxGeneration

\* items: reviewItems; panel: the scope of the search results, audits or
\* resources shown; importing: activeImportGeneration; acting: reviewActionId.
Board == [items : SUBSET Uploads, panel : Scopes \cup {Nothing},
          uploading : BOOLEAN, reviewing : BOOLEAN, loading : BOOLEAN,
          importing : Generations \cup {NoGeneration},
          acting : Uploads \cup {Nothing}]

Kinds == {"upload", "import", "refresh", "decide", "load"}

Call == [kind : Kinds, gen : Generations, scope : Scopes \cup {Nothing},
         left : 0 .. 2, doc : Uploads \cup {Nothing},
         list : SUBSET Uploads, stage : {"sent", "answered", "failed"}]

Served == [scope : Scopes \cup {Nothing}, status : {"none", "pending", "decided"}]

WorkbenchInit ==
  /\ scope = Nothing
  /\ generation = 0
  /\ board = [items |-> {}, panel |-> Nothing, uploading |-> FALSE,
              reviewing |-> FALSE, loading |-> FALSE,
              importing |-> NoGeneration, acting |-> Nothing]
  /\ flight = {}
  /\ served = [d \in Uploads |-> [scope |-> Nothing, status |-> "none"]]
  /\ mine = {}

---------------------------------------------------------------------------
(* The operator *)

\* Mutant of Cleared: the import that is in flight is forgotten too.
ClearedAll == [items |-> {}, panel |-> Nothing, uploading |-> FALSE,
               reviewing |-> FALSE, loading |-> FALSE,
               importing |-> NoGeneration, acting |-> Nothing]

\* invalidateDerivedState: everything but the import that is in flight.
Cleared == [items |-> {}, panel |-> Nothing, uploading |-> FALSE,
            reviewing |-> FALSE, loading |-> FALSE,
            importing |-> board.importing, acting |-> Nothing]

\* Editing the connector leaves the scope as it is; a session may be cleared.
Edit(s) ==
  /\ generation < MaxGeneration
  /\ generation' = generation + 1
  /\ scope' = s
  /\ board' = Cleared
  /\ UNCHANGED <<flight, served, mine>>

Send(kind, left, d) ==
  /\ Cardinality(flight) < MaxCalls
  /\ flight' = flight \cup
       {[kind |-> kind, gen |-> generation, scope |-> scope, left |-> left,
         doc |-> d, list |-> {}, stage |-> "sent"]}
  /\ UNCHANGED <<scope, generation, served, mine>>

\* Uploads and refreshes wait for a complete session (scopeReady).
StartUpload(files) ==
  /\ scope # Nothing
  /\ ~board.uploading
  /\ board' = [board EXCEPT !.uploading = TRUE]
  /\ Send("upload", files - 1, Nothing)

\* A resource can be sent only from the list that is shown.
StartImport ==
  /\ board.importing = NoGeneration
  /\ board.panel # Nothing
  /\ board' = [board EXCEPT !.importing = generation]
  /\ Send("import", 0, Nothing)

\* Mutant of MayRefresh: a decision that is in flight does not matter.
MayRefreshAnytime == ~board.reviewing

MayRefresh == ~board.reviewing /\ board.acting = Nothing

StartRefresh ==
  /\ scope # Nothing
  /\ MayRefresh
  /\ board' = [board EXCEPT !.reviewing = TRUE]
  /\ Send("refresh", 0, Nothing)

\* Promote or reject; the list is hidden while it is refreshed.
StartDecision(d) ==
  /\ ~board.reviewing
  /\ board.acting = Nothing
  /\ d \in board.items
  /\ board' = [board EXCEPT !.acting = d]
  /\ Send("decide", 0, d)

\* Test connection, load resources, search, refresh audits: one stands for
\* all of them, each has flags of its own and none waits for a session.
StartLoad ==
  /\ ~board.loading
  /\ board' = [board EXCEPT !.loading = TRUE]
  /\ Send("load", 0, Nothing)

---------------------------------------------------------------------------
(* The server *)

Replace(c, answer) == flight' = (flight \ {c}) \cup {answer}

PendingIn(s) == {d \in Uploads : served[d] = [scope |-> s, status |-> "pending"]}

\* The document an upload or import creates is a new one.
ServeIntake(c, d) ==
  /\ c.stage = "sent"
  /\ c.kind \in {"upload", "import"}
  /\ served[d].status = "none"
  /\ served' = [served EXCEPT ![d] = [scope |-> c.scope, status |-> "pending"]]
  /\ \E stage \in {"answered", "failed"} :
       Replace(c, [c EXCEPT !.stage = stage,
                            !.doc = IF stage = "answered" THEN d ELSE Nothing])
  /\ UNCHANGED <<scope, generation, board, mine>>

\* A document that is decided already is refused (409).
ServeDecision(c) ==
  /\ c.stage = "sent"
  /\ c.kind = "decide"
  /\ served[c.doc].status = "pending"
  /\ served' = [served EXCEPT ![c.doc].status = "decided"]
  /\ \E stage \in {"answered", "failed"} : Replace(c, [c EXCEPT !.stage = stage])
  /\ UNCHANGED <<scope, generation, board, mine>>

\* Without a complete session there is no answer but an error.
ServeRead(c) ==
  /\ c.stage = "sent"
  /\ c.kind \in {"refresh", "load"}
  /\ c.scope # Nothing
  /\ Replace(c, [c EXCEPT !.stage = "answered", !.list = PendingIn(c.scope)])
  /\ UNCHANGED <<scope, generation, board, served, mine>>

\* Refused, or lost on the way to the server.
ServeError(c) ==
  /\ c.stage = "sent"
  /\ Replace(c, [c EXCEPT !.stage = "failed"])
  /\ UNCHANGED <<scope, generation, board, served, mine>>

DecideElsewhere(d) ==
  /\ served[d].status = "pending"
  /\ served' = [served EXCEPT ![d].status = "decided"]
  /\ UNCHANGED <<scope, generation, board, flight, mine>>

---------------------------------------------------------------------------
(* Answers *)

\* Mutant of Current: every answer is taken.
CurrentAlways(c) == TRUE

\* The answer is for what is on the screen now.
Current(c) == c.gen = generation

Close(c, shown) ==
  /\ flight' = flight \ {c}
  /\ board' = IF Current(c) THEN shown ELSE board
  /\ UNCHANGED <<scope, generation, served, mine>>

\* The next file is sent when the answer for the one before has come.
HandleUpload(c) ==
  /\ c.kind = "upload"
  /\ c.stage = "answered"
  /\ IF Current(c) /\ c.left > 0
     THEN /\ Replace(c, [c EXCEPT !.left = @ - 1, !.doc = Nothing, !.stage = "sent"])
          /\ board' = [board EXCEPT !.items = @ \cup {c.doc}]
          /\ UNCHANGED <<scope, generation, served, mine>>
     ELSE Close(c, [board EXCEPT !.items = @ \cup {c.doc}, !.uploading = FALSE])

HandleUploadError(c) ==
  /\ c.kind = "upload"
  /\ c.stage = "failed"
  /\ Close(c, [board EXCEPT !.uploading = FALSE])

\* The import is given up by the generation that began it, current or not.
HandleImport(c) ==
  LET closed == IF board.importing = c.gen THEN NoGeneration ELSE board.importing
      shown  == IF Current(c) /\ c.stage = "answered"
                THEN [board EXCEPT !.items = @ \cup {c.doc}] ELSE board
  IN
  /\ c.kind = "import"
  /\ c.stage # "sent"
  /\ flight' = flight \ {c}
  /\ board' = [shown EXCEPT !.importing = closed]
  /\ UNCHANGED <<scope, generation, served, mine>>

HandleRefresh(c) ==
  /\ c.kind = "refresh"
  /\ c.stage # "sent"
  /\ Close(c, [board EXCEPT !.reviewing = FALSE,
                  !.items = IF c.stage = "answered" THEN c.list ELSE @])

HandleDecision(c) ==
  /\ c.kind = "decide"
  /\ c.stage = "answered"
  /\ flight' = flight \ {c}
  /\ board' = IF Current(c)
       THEN [board EXCEPT !.acting = Nothing, !.items = @ \ {c.doc}] ELSE board
  /\ mine' = IF Current(c) THEN mine \cup {c.doc} ELSE mine
  /\ UNCHANGED <<scope, generation, served>>

HandleDecisionError(c) ==
  /\ c.kind = "decide"
  /\ c.stage = "failed"
  /\ Close(c, [board EXCEPT !.acting = Nothing])

HandleLoad(c) ==
  /\ c.kind = "load"
  /\ c.stage # "sent"
  /\ Close(c, [board EXCEPT !.loading = FALSE,
                  !.panel = IF c.stage = "answered" THEN c.scope ELSE Nothing])

WorkbenchNext ==
  \/ \E s \in Scopes \cup {Nothing} : Edit(s)
  \/ \E files \in 1 .. 2 : StartUpload(files)
  \/ StartImport
  \/ StartRefresh
  \/ StartLoad
  \/ \E d \in Uploads : StartDecision(d) \/ DecideElsewhere(d)
  \/ \E c \in flight :
       \/ \E d \in Uploads : ServeIntake(c, d)
       \/ ServeDecision(c)
       \/ ServeRead(c)
       \/ ServeError(c)
       \/ HandleUpload(c)
       \/ HandleUploadError(c)
       \/ HandleImport(c)
       \/ HandleRefresh(c)
       \/ HandleDecision(c)
       \/ HandleDecisionError(c)
       \/ HandleLoad(c)

WorkbenchSpec == WorkbenchInit /\ [][WorkbenchNext]_workbenchVars

---------------------------------------------------------------------------
(* Properties *)

\* Types.
WorkbenchTypeOK ==
  /\ scope \in Scopes \cup {Nothing}
  /\ generation \in Generations
  /\ board \in Board
  /\ flight \subseteq Call
  /\ served \in [Uploads -> Served]
  /\ mine \subseteq Uploads

\* One tenant's data is never on the screen under another one's session,
\* however late its answer comes.
ShownIsOfTheScope ==
  /\ \A d \in board.items : served[d].scope = scope
  /\ board.panel \in {scope, Nothing}

\* A button is disabled exactly while a call it started may still be
\* answered: edits neither lock it for ever nor let a second import begin
\* beside the one in flight.
ButtonsFollowCalls ==
  LET InFlight(kind) == {c \in flight : c.kind = kind /\ c.gen = generation} IN
  /\ board.uploading <=> InFlight("upload") # {}
  /\ board.reviewing <=> InFlight("refresh") # {}
  /\ board.loading <=> InFlight("load") # {}
  /\ {c.doc : c \in InFlight("decide")}
       = IF board.acting = Nothing THEN {} ELSE {board.acting}
  /\ {c.gen : c \in {x \in flight : x.kind = "import"}}
       = IF board.importing = NoGeneration THEN {} ELSE {board.importing}

\* A document that was decided here comes back to the queue only with the
\* answer to the upload or import that created it, which may be the last to
\* arrive; no refresh ever brings it back.
DecidedStaysAway ==
  [][\A d \in mine :
       d \in board'.items \ board.items =>
         \E c \in flight \ flight' : c.kind \in {"upload", "import"} /\ c.doc = d]_workbenchVars
=============================================================================
