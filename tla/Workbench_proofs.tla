--------------------------- MODULE Workbench_proofs ---------------------------
(***************************************************************************)
(* Proofs about Workbench: what is shown belongs to the session entered,   *)
(* buttons follow the calls in flight, and decided documents stay away,    *)
(* for every number of sessions, documents, edits and calls in flight.     *)
(***************************************************************************)
EXTENDS Workbench, TLAPS

---------------------------------------------------------------------------
(* Type correctness *)

\* A decision is about a document, and so is the answer to an intake.
CallsKnown ==
  \A c \in flight :
    c.kind = "decide" \/ (c.kind \in {"upload", "import"} /\ c.stage = "answered")
      => c.doc \in Uploads

TypeInv == WorkbenchTypeOK /\ CallsKnown

\* A call that is sent.
LEMMA Sending ==
  ASSUME TypeInv, NEW kind \in Kinds, NEW left \in 0 .. 2, NEW d \in Uploads \cup {Nothing},
         Send(kind, left, d)
  PROVE  /\ scope \in Scopes \cup {Nothing} /\ UNCHANGED <<scope, generation, served, mine>>
         /\ \E n \in Call :
              /\ flight' = flight \cup {n}
              /\ n.kind = kind /\ n.gen = generation /\ n.scope = scope
              /\ n.doc = d /\ n.list = {} /\ n.stage = "sent"
<1> DEFINE n == [kind |-> kind, gen |-> generation, scope |-> scope, left |-> left,
                 doc |-> d, list |-> {}, stage |-> "sent"]
<1>1. scope \in Scopes \cup {Nothing} /\ generation \in Generations
  BY DEF Send, TypeInv, WorkbenchTypeOK
<1>2. n \in Call
  BY <1>1 DEF Call
<1>3. flight' = flight \cup {n} /\ UNCHANGED <<scope, generation, served, mine>>
  BY DEF Send
<1>4. /\ n.kind = kind /\ n.gen = generation /\ n.scope = scope
      /\ n.doc = d /\ n.list = {} /\ n.stage = "sent"
  OBVIOUS
<1> HIDE DEF n
<1> QED
  BY <1>1, <1>2, <1>3, <1>4

\* The actions of the operator that send a call.
Sends(kind, d, shown) ==
  /\ UNCHANGED <<scope, generation, served, mine>>
  /\ scope \in Scopes \cup {Nothing}
  /\ \E n \in Call :
       /\ flight' = flight \cup {n}
       /\ n.kind = kind /\ n.gen = generation /\ n.scope = scope
       /\ n.doc = d /\ n.list = {} /\ n.stage = "sent"
  /\ board' = shown

LEMMA StartsSend ==
  ASSUME TypeInv
  PROVE  /\ \A files \in 1 .. 2 : StartUpload(files) =>
              ~board.uploading /\ Sends("upload", Nothing, [board EXCEPT !.uploading = TRUE])
         /\ StartImport =>
              /\ board.importing = NoGeneration /\ board.panel # Nothing
              /\ Sends("import", Nothing, [board EXCEPT !.importing = generation])
         /\ StartRefresh =>
              MayRefresh /\ Sends("refresh", Nothing, [board EXCEPT !.reviewing = TRUE])
         /\ StartLoad =>
              ~board.loading /\ Sends("load", Nothing, [board EXCEPT !.loading = TRUE])
         /\ \A d \in Uploads : StartDecision(d) =>
              /\ ~board.reviewing /\ board.acting = Nothing /\ d \in board.items
              /\ Sends("decide", d, [board EXCEPT !.acting = d])
<1>1. ASSUME NEW files \in 1 .. 2, StartUpload(files)
      PROVE  ~board.uploading /\ Sends("upload", Nothing, [board EXCEPT !.uploading = TRUE])
  <2>1. Send("upload", files - 1, Nothing) /\ files - 1 \in 0 .. 2
    BY <1>1 DEF StartUpload
  <2> QED
    BY <1>1, <2>1, Sending DEF StartUpload, Sends, Kinds
<1>2. ASSUME StartImport
      PROVE  /\ board.importing = NoGeneration /\ board.panel # Nothing
             /\ Sends("import", Nothing, [board EXCEPT !.importing = generation])
  BY <1>2, Sending DEF StartImport, Sends, Kinds
<1>3. ASSUME StartRefresh
      PROVE  MayRefresh /\ Sends("refresh", Nothing, [board EXCEPT !.reviewing = TRUE])
  BY <1>3, Sending DEF StartRefresh, Sends, Kinds
<1>4. ASSUME StartLoad
      PROVE  ~board.loading /\ Sends("load", Nothing, [board EXCEPT !.loading = TRUE])
  BY <1>4, Sending DEF StartLoad, Sends, Kinds
<1>5. ASSUME NEW d \in Uploads, StartDecision(d)
      PROVE  /\ ~board.reviewing /\ board.acting = Nothing /\ d \in board.items
             /\ Sends("decide", d, [board EXCEPT !.acting = d])
  BY <1>5, Sending DEF StartDecision, Sends, Kinds
<1> QED
  BY <1>1, <1>2, <1>3, <1>4, <1>5

\* The board after each of its changes.
LEMMA BoardUpdates ==
  ASSUME NEW b \in Board, NEW items \in SUBSET Uploads, NEW panel \in Scopes \cup {Nothing},
         NEW g \in Generations \cup {NoGeneration}, NEW d \in Uploads \cup {Nothing},
         NEW flag \in BOOLEAN
  PROVE  /\ [b EXCEPT !.uploading = flag] \in Board
         /\ [b EXCEPT !.reviewing = flag] \in Board
         /\ [b EXCEPT !.loading = flag] \in Board
         /\ [b EXCEPT !.importing = g] \in Board
         /\ [b EXCEPT !.acting = d] \in Board
         /\ [b EXCEPT !.items = items] \in Board
BY DEF Board

\* An answer of the server, or the next file of an upload, replaces a call.
Answers(c, a) ==
  /\ a \in Call /\ flight' = (flight \ {c}) \cup {a}
  /\ a.kind = c.kind /\ a.gen = c.gen /\ a.scope = c.scope
  /\ UNCHANGED <<scope, generation>>

LEMMA ServerAnswers ==
  ASSUME TypeInv, NEW c \in flight
  PROVE  /\ \A d \in Uploads : ServeIntake(c, d) =>
              /\ c.kind \in {"upload", "import"} /\ served[d].status = "none"
              /\ UNCHANGED <<board, mine>>
              /\ \E a : /\ Answers(c, a) /\ a.list = c.list
                        /\ a.stage = "answered" => a.doc = d
         /\ ServeDecision(c) =>
              /\ c.kind = "decide" /\ c.doc \in Uploads /\ served[c.doc].status = "pending"
              /\ UNCHANGED <<board, mine>>
              /\ \E a : Answers(c, a) /\ a.doc = c.doc /\ a.list = c.list
         /\ ServeRead(c) =>
              /\ c.kind \in {"refresh", "load"} /\ UNCHANGED <<board, served, mine>>
              /\ \E a : Answers(c, a) /\ a.doc = c.doc /\ a.list = PendingIn(c.scope)
         /\ ServeError(c) =>
              /\ UNCHANGED <<board, served, mine>>
              /\ \E a : /\ Answers(c, a) /\ a.doc = c.doc /\ a.list = c.list
                        /\ a.stage = "failed"
<1>0. c \in Call
  BY DEF TypeInv, WorkbenchTypeOK
<1>1. ASSUME NEW stage \in {"answered", "failed"}, NEW d \in Uploads \cup {Nothing},
             NEW list \in SUBSET Uploads
      PROVE  /\ [c EXCEPT !.stage = stage, !.doc = d] \in Call
             /\ [c EXCEPT !.stage = stage, !.list = list] \in Call
             /\ [c EXCEPT !.stage = stage] \in Call
  BY <1>0 DEF Call
<1>2. ASSUME NEW d \in Uploads, ServeIntake(c, d)
      PROVE  \E a : /\ Answers(c, a) /\ a.list = c.list
                    /\ a.stage = "answered" => a.doc = d
  <2> PICK stage \in {"answered", "failed"} :
        Replace(c, [c EXCEPT !.stage = stage, !.doc = IF stage = "answered" THEN d ELSE Nothing])
    BY <1>2 DEF ServeIntake
  <2> DEFINE a == [c EXCEPT !.stage = stage, !.doc = IF stage = "answered" THEN d ELSE Nothing]
  <2>1. a \in Call
    BY <1>1
  <2>2. /\ a.kind = c.kind /\ a.gen = c.gen /\ a.scope = c.scope /\ a.list = c.list
        /\ a.stage = "answered" => a.doc = d
    BY <1>0 DEF Call
  <2>3. flight' = (flight \ {c}) \cup {a} /\ UNCHANGED <<scope, generation>>
    BY <1>2 DEF ServeIntake, Replace
  <2> HIDE DEF a
  <2> QED
    BY <2>1, <2>2, <2>3 DEF Answers
<1>3. ASSUME ServeDecision(c) PROVE \E a : Answers(c, a) /\ a.doc = c.doc /\ a.list = c.list
  <2> PICK stage \in {"answered", "failed"} : Replace(c, [c EXCEPT !.stage = stage])
    BY <1>3 DEF ServeDecision
  <2> DEFINE a == [c EXCEPT !.stage = stage]
  <2>1. a \in Call
    BY <1>1
  <2>2. a.kind = c.kind /\ a.gen = c.gen /\ a.scope = c.scope /\ a.list = c.list /\ a.doc = c.doc
    BY <1>0 DEF Call
  <2>3. flight' = (flight \ {c}) \cup {a} /\ UNCHANGED <<scope, generation>>
    BY <1>3 DEF ServeDecision, Replace
  <2> HIDE DEF a
  <2> QED
    BY <2>1, <2>2, <2>3 DEF Answers
<1>4. ASSUME ServeRead(c)
      PROVE  \E a : Answers(c, a) /\ a.doc = c.doc /\ a.list = PendingIn(c.scope)
  <2> DEFINE a == [c EXCEPT !.stage = "answered", !.list = PendingIn(c.scope)]
  <2>1. a \in Call
    BY <1>1 DEF PendingIn
  <2>2. /\ a.kind = c.kind /\ a.gen = c.gen /\ a.scope = c.scope /\ a.doc = c.doc
        /\ a.list = PendingIn(c.scope)
    BY <1>0 DEF Call
  <2>3. flight' = (flight \ {c}) \cup {a} /\ UNCHANGED <<scope, generation>>
    BY <1>4 DEF ServeRead, Replace
  <2> HIDE DEF a
  <2> QED
    BY <2>1, <2>2, <2>3 DEF Answers
<1>5. ASSUME ServeError(c)
      PROVE  \E a : Answers(c, a) /\ a.doc = c.doc /\ a.list = c.list /\ a.stage = "failed"
  <2> DEFINE a == [c EXCEPT !.stage = "failed"]
  <2>1. a \in Call
    BY <1>1
  <2>2. /\ a.kind = c.kind /\ a.gen = c.gen /\ a.scope = c.scope /\ a.doc = c.doc
        /\ a.list = c.list /\ a.stage = "failed"
    BY <1>0 DEF Call
  <2>3. flight' = (flight \ {c}) \cup {a} /\ UNCHANGED <<scope, generation>>
    BY <1>5 DEF ServeError, Replace
  <2> HIDE DEF a
  <2> QED
    BY <2>1, <2>2, <2>3 DEF Answers
<1> QED
  BY <1>2, <1>3, <1>4, <1>5
  DEF ServeIntake, ServeDecision, ServeRead, ServeError, TypeInv, CallsKnown

\* The next file of an upload is sent.
LEMMA UploadContinues ==
  ASSUME TypeInv, NEW c \in flight, HandleUpload(c), Current(c), c.left > 0
  PROVE  /\ c.kind = "upload" /\ c.stage = "answered" /\ c.doc \in Uploads
         /\ board' = [board EXCEPT !.items = @ \cup {c.doc}] /\ UNCHANGED <<served, mine>>
         /\ \E a : Answers(c, a) /\ a.stage = "sent" /\ a.list = c.list
<1> DEFINE a == [c EXCEPT !.left = @ - 1, !.doc = Nothing, !.stage = "sent"]
<1>0. c \in Call
  BY DEF TypeInv, WorkbenchTypeOK
<1>1. c.left - 1 \in 0 .. 2
  BY <1>0 DEF Call
<1>2. a \in Call
  BY <1>0, <1>1 DEF Call
<1>3. /\ a.kind = c.kind /\ a.gen = c.gen /\ a.scope = c.scope /\ a.list = c.list
      /\ a.stage = "sent"
  BY <1>0 DEF Call
<1>4. /\ flight' = (flight \ {c}) \cup {a} /\ UNCHANGED <<scope, generation, served, mine>>
      /\ board' = [board EXCEPT !.items = @ \cup {c.doc}]
      /\ c.kind = "upload" /\ c.stage = "answered"
  BY DEF HandleUpload, Replace
<1>5. c.doc \in Uploads
  BY <1>4 DEF TypeInv, CallsKnown
<1> HIDE DEF a
<1> QED
  BY <1>2, <1>3, <1>4, <1>5 DEF Answers

\* What the board shows once the call c is answered for good.
Shown(c) ==
  CASE c.kind = "upload" /\ c.stage = "answered" ->
         [board EXCEPT !.items = @ \cup {c.doc}, !.uploading = FALSE]
    [] c.kind = "upload" /\ c.stage # "answered" -> [board EXCEPT !.uploading = FALSE]
    [] c.kind = "refresh" ->
         [board EXCEPT !.reviewing = FALSE,
            !.items = IF c.stage = "answered" THEN c.list ELSE @]
    [] c.kind = "decide" /\ c.stage = "answered" ->
         [board EXCEPT !.acting = Nothing, !.items = @ \ {c.doc}]
    [] c.kind = "decide" /\ c.stage # "answered" -> [board EXCEPT !.acting = Nothing]
    [] c.kind = "load" ->
         [board EXCEPT !.loading = FALSE,
            !.panel = IF c.stage = "answered" THEN c.scope ELSE Nothing]

\* A call other than an import is closed.
Closes(c) ==
  /\ c.kind # "import" /\ c.stage # "sent"
  /\ flight' = flight \ {c}
  /\ board' = IF Current(c) THEN Shown(c) ELSE board
  /\ mine' = IF Current(c) /\ c.kind = "decide" /\ c.stage = "answered"
             THEN mine \cup {c.doc} ELSE mine
  /\ UNCHANGED <<scope, generation, served>>

LEMMA HandlersClose ==
  ASSUME TypeInv, NEW c \in flight,
         \/ HandleUpload(c) /\ ~(Current(c) /\ c.left > 0)
         \/ HandleUploadError(c) \/ HandleRefresh(c) \/ HandleDecision(c)
         \/ HandleDecisionError(c) \/ HandleLoad(c)
  PROVE  Closes(c)
<1>1. CASE HandleUpload(c) /\ ~(Current(c) /\ c.left > 0)
  BY <1>1 DEF HandleUpload, Close, Closes, Shown
<1>2. CASE HandleUploadError(c)
  BY <1>2 DEF HandleUploadError, Close, Closes, Shown
<1>3. CASE HandleRefresh(c)
  BY <1>3 DEF HandleRefresh, Close, Closes, Shown
<1>4. CASE HandleDecision(c)
  BY <1>4 DEF HandleDecision, Closes, Shown
<1>5. CASE HandleDecisionError(c)
  BY <1>5 DEF HandleDecisionError, Close, Closes, Shown
<1>6. CASE HandleLoad(c)
  BY <1>6 DEF HandleLoad, Close, Closes, Shown
<1> QED
  BY <1>1, <1>2, <1>3, <1>4, <1>5, <1>6

\* The fields of what is shown.
LEMMA ShownFields ==
  ASSUME TypeInv, NEW c \in flight, c.kind # "import"
  PROVE  /\ Shown(c) \in Board /\ Shown(c).importing = board.importing
         /\ Shown(c).items =
              CASE c.kind = "upload" /\ c.stage = "answered" -> board.items \cup {c.doc}
                [] c.kind = "refresh" /\ c.stage = "answered" -> c.list
                [] c.kind = "decide" /\ c.stage = "answered" -> board.items \ {c.doc}
                [] OTHER -> board.items
         /\ Shown(c).panel =
              IF c.kind = "load" THEN IF c.stage = "answered" THEN c.scope ELSE Nothing
              ELSE board.panel
         /\ Shown(c).uploading = (IF c.kind = "upload" THEN FALSE ELSE board.uploading)
         /\ Shown(c).reviewing = (IF c.kind = "refresh" THEN FALSE ELSE board.reviewing)
         /\ Shown(c).loading = (IF c.kind = "load" THEN FALSE ELSE board.loading)
         /\ Shown(c).acting = (IF c.kind = "decide" THEN Nothing ELSE board.acting)
<1>0. c \in Call /\ board \in Board
  BY DEF TypeInv, WorkbenchTypeOK
<1>1. c.kind \in {"upload", "refresh", "decide", "load"}
  BY <1>0 DEF Call, Kinds
<1>2. CASE c.kind = "upload"
  <2>1. c.stage = "answered" => c.doc \in Uploads
    BY <1>2 DEF TypeInv, CallsKnown
  <2>2. CASE c.stage = "answered"
    BY <1>0, <1>2, <2>1, <2>2 DEF Shown, Board
  <2>3. CASE c.stage # "answered"
    BY <1>0, <1>2, <2>3 DEF Shown, Board
  <2> QED
    BY <2>2, <2>3
<1>3. CASE c.kind = "refresh"
  <2>1. CASE c.stage = "answered"
    BY <1>0, <1>3, <2>1 DEF Shown, Board, Call
  <2>2. CASE c.stage # "answered"
    BY <1>0, <1>3, <2>2 DEF Shown, Board
  <2> QED
    BY <2>1, <2>2
<1>4. CASE c.kind = "decide"
  <2>1. CASE c.stage = "answered"
    BY <1>0, <1>4, <2>1 DEF Shown, Board
  <2>2. CASE c.stage # "answered"
    BY <1>0, <1>4, <2>2 DEF Shown, Board
  <2> QED
    BY <2>1, <2>2
<1>5. CASE c.kind = "load"
  <2>1. CASE c.stage = "answered"
    BY <1>0, <1>5, <2>1 DEF Shown, Board, Call
  <2>2. CASE c.stage # "answered"
    BY <1>0, <1>5, <2>2 DEF Shown, Board
  <2> QED
    BY <2>1, <2>2
<1> QED
  BY <1>1, <1>2, <1>3, <1>4, <1>5

\* The answer to an import.
LEMMA ImportCloses ==
  ASSUME TypeInv, NEW c \in flight, HandleImport(c)
  PROVE  /\ c.kind = "import" /\ c.stage # "sent"
         /\ flight' = flight \ {c} /\ UNCHANGED <<scope, generation, served, mine>>
         /\ board' \in Board
         /\ board'.items = IF Current(c) /\ c.stage = "answered"
                           THEN board.items \cup {c.doc} ELSE board.items
         /\ board'.importing = IF board.importing = c.gen THEN NoGeneration ELSE board.importing
         /\ board'.panel = board.panel /\ board'.uploading = board.uploading
         /\ board'.reviewing = board.reviewing /\ board'.loading = board.loading
         /\ board'.acting = board.acting
<1>0. c \in Call /\ board \in Board
  BY DEF TypeInv, WorkbenchTypeOK
<1>1. /\ c.kind = "import" /\ c.stage # "sent"
      /\ flight' = flight \ {c} /\ UNCHANGED <<scope, generation, served, mine>>
  BY DEF HandleImport
<1>2. c.stage = "answered" => c.doc \in Uploads
  BY <1>1 DEF TypeInv, CallsKnown
<1> PICK closed \in Generations \cup {NoGeneration} :
      closed = IF board.importing = c.gen THEN NoGeneration ELSE board.importing
  BY <1>0 DEF Board
<1>3. CASE Current(c) /\ c.stage = "answered"
  <2>1. board' = [[board EXCEPT !.items = @ \cup {c.doc}] EXCEPT !.importing = closed]
    BY <1>3 DEF HandleImport
  <2> QED
    BY <1>0, <1>1, <1>2, <1>3, <2>1 DEF Board
<1>4. CASE ~(Current(c) /\ c.stage = "answered")
  <2>1. board' = [board EXCEPT !.importing = closed]
    BY <1>4 DEF HandleImport
  <2> QED
    BY <1>0, <1>1, <1>4, <2>1 DEF Board
<1> QED
  BY <1>3, <1>4

\* The kinds of steps there are.
Starts ==
  \/ ~board.uploading /\ Sends("upload", Nothing, [board EXCEPT !.uploading = TRUE])
  \/ /\ board.importing = NoGeneration
     /\ Sends("import", Nothing, [board EXCEPT !.importing = generation])
  \/ MayRefresh /\ Sends("refresh", Nothing, [board EXCEPT !.reviewing = TRUE])
  \/ ~board.loading /\ Sends("load", Nothing, [board EXCEPT !.loading = TRUE])
  \/ \E d \in Uploads :
       /\ ~board.reviewing /\ board.acting = Nothing /\ d \in board.items
       /\ Sends("decide", d, [board EXCEPT !.acting = d])

Serves(c) ==
  (\E d \in Uploads : ServeIntake(c, d)) \/ ServeDecision(c) \/ ServeRead(c) \/ ServeError(c)

Continues(c) == HandleUpload(c) /\ Current(c) /\ c.left > 0

LEMMA Steps ==
  ASSUME TypeInv, [WorkbenchNext]_workbenchVars
  PROVE  \/ \E s \in Scopes \cup {Nothing} : Edit(s)
         \/ Starts
         \/ \E d \in Uploads : DecideElsewhere(d)
         \/ \E c \in flight : Serves(c) \/ Continues(c) \/ Closes(c) \/ HandleImport(c)
         \/ UNCHANGED workbenchVars
<1>1. ASSUME NEW c \in flight,
             \/ HandleUpload(c) \/ HandleUploadError(c) \/ HandleRefresh(c)
             \/ HandleDecision(c) \/ HandleDecisionError(c) \/ HandleLoad(c)
      PROVE  Continues(c) \/ Closes(c)
  BY <1>1, HandlersClose DEF Continues
<1>2. ASSUME \/ \E files \in 1 .. 2 : StartUpload(files)
             \/ StartImport \/ StartRefresh \/ StartLoad
             \/ \E d \in Uploads : StartDecision(d)
      PROVE  Starts
  BY <1>2, StartsSend DEF Starts
<1> QED
  BY <1>1, <1>2 DEF WorkbenchNext, Serves

\* The same for a call that is sent, in fields of the board.
LEMMA StartFields ==
  ASSUME TypeInv, Starts
  PROVE  /\ UNCHANGED <<scope, generation, served, mine>>
         /\ scope \in Scopes \cup {Nothing}
         /\ board' \in Board /\ board'.items = board.items /\ board'.panel = board.panel
         /\ \E n \in Call :
              /\ flight' = flight \cup {n}
              /\ n.gen = generation /\ n.scope = scope /\ n.list = {} /\ n.stage = "sent"
              /\ n.kind = "decide" => n.doc \in Uploads
              /\ IF n.kind = "upload" THEN ~board.uploading /\ board'.uploading
                 ELSE board'.uploading = board.uploading
              /\ IF n.kind = "import"
                 THEN board.importing = NoGeneration /\ board'.importing = generation
                 ELSE board'.importing = board.importing
              /\ IF n.kind = "refresh" THEN MayRefresh /\ board'.reviewing
                 ELSE board'.reviewing = board.reviewing
              /\ IF n.kind = "load" THEN ~board.loading /\ board'.loading
                 ELSE board'.loading = board.loading
              /\ IF n.kind = "decide"
                 THEN ~board.reviewing /\ board.acting = Nothing /\ board'.acting = n.doc
                 ELSE board'.acting = board.acting
<1>0. board \in Board /\ generation \in Generations
  BY DEF TypeInv, WorkbenchTypeOK
<1>1. CASE ~board.uploading /\ Sends("upload", Nothing, [board EXCEPT !.uploading = TRUE])
  BY <1>0, <1>1 DEF Sends, Board
<1>2. CASE /\ board.importing = NoGeneration
           /\ Sends("import", Nothing, [board EXCEPT !.importing = generation])
  BY <1>0, <1>2 DEF Sends, Board
<1>3. CASE MayRefresh /\ Sends("refresh", Nothing, [board EXCEPT !.reviewing = TRUE])
  BY <1>0, <1>3 DEF Sends, Board
<1>4. CASE ~board.loading /\ Sends("load", Nothing, [board EXCEPT !.loading = TRUE])
  BY <1>0, <1>4 DEF Sends, Board
<1>5. CASE \E d \in Uploads :
             /\ ~board.reviewing /\ board.acting = Nothing /\ d \in board.items
             /\ Sends("decide", d, [board EXCEPT !.acting = d])
  BY <1>0, <1>5 DEF Sends, Board
<1> QED
  BY <1>1, <1>2, <1>3, <1>4, <1>5 DEF Starts

LEMMA ClearedFields ==
  ASSUME TypeInv
  PROVE  /\ Cleared \in Board /\ Cleared.items = {} /\ Cleared.panel = Nothing
         /\ ~Cleared.uploading /\ ~Cleared.reviewing /\ ~Cleared.loading
         /\ Cleared.importing = board.importing /\ Cleared.acting = Nothing
BY DEF TypeInv, WorkbenchTypeOK, Cleared, Board

LEMMA TypeStep ==
  ASSUME TypeInv, [WorkbenchNext]_workbenchVars
  PROVE  TypeInv'
<1>0. WorkbenchTypeOK /\ CallsKnown
  BY DEF TypeInv
<1>1. ASSUME NEW s \in Scopes \cup {Nothing}, Edit(s) PROVE TypeInv'
  <2>1. generation' \in Generations
    BY <1>0, <1>1, WorkbenchAssumption DEF Edit, WorkbenchTypeOK, Generations
  <2> QED
    BY <1>0, <1>1, <2>1, ClearedFields DEF Edit, TypeInv, WorkbenchTypeOK, CallsKnown
<1>2. CASE Starts
  BY <1>0, <1>2, StartFields DEF TypeInv, WorkbenchTypeOK, CallsKnown
<1>3. ASSUME NEW d \in Uploads, DecideElsewhere(d) PROVE TypeInv'
  <2>1. served' \in [Uploads -> Served]
    BY <1>0, <1>3 DEF DecideElsewhere, WorkbenchTypeOK, Served
  <2> QED
    BY <1>0, <1>3, <2>1 DEF DecideElsewhere, TypeInv, WorkbenchTypeOK, CallsKnown
<1>4. ASSUME NEW c \in flight, NEW d \in Uploads, ServeIntake(c, d) PROVE TypeInv'
  <2>1. c.scope \in Scopes \cup {Nothing}
    BY <1>0 DEF WorkbenchTypeOK, Call
  <2>0. served' = [served EXCEPT ![d] = [scope |-> c.scope, status |-> "pending"]]
    BY <1>4 DEF ServeIntake
  <2>2. served' \in [Uploads -> Served]
    BY <1>0, <2>0, <2>1 DEF WorkbenchTypeOK, Served
  <2> PICK a : Answers(c, a) /\ (a.stage = "answered" => a.doc = d)
    BY <1>4, ServerAnswers
  <2>3. c.kind # "decide" /\ UNCHANGED <<board, mine>>
    BY <1>4 DEF ServeIntake
  <2> QED
    BY <1>0, <2>2, <2>3 DEF Answers, TypeInv, WorkbenchTypeOK, CallsKnown
<1>5. ASSUME NEW c \in flight, ServeDecision(c) PROVE TypeInv'
  <2>0. served' = [served EXCEPT ![c.doc].status = "decided"]
    BY <1>5 DEF ServeDecision
  <2>1. served' \in [Uploads -> Served]
    BY <1>0, <2>0 DEF WorkbenchTypeOK, Served
  <2> PICK a : Answers(c, a) /\ a.doc = c.doc
    BY <1>5, ServerAnswers
  <2>2. c.doc \in Uploads /\ UNCHANGED <<board, mine>>
    BY <1>5, ServerAnswers
  <2> QED
    BY <1>0, <2>1, <2>2 DEF Answers, TypeInv, WorkbenchTypeOK, CallsKnown
<1>6. ASSUME NEW c \in flight, ServeRead(c) PROVE TypeInv'
  <2> PICK a : Answers(c, a) /\ a.doc = c.doc
    BY <1>6, ServerAnswers
  <2>1. c.kind \in {"refresh", "load"} /\ UNCHANGED <<board, served, mine>>
    BY <1>6, ServerAnswers
  <2> QED
    BY <1>0, <2>1 DEF Answers, TypeInv, WorkbenchTypeOK, CallsKnown
<1>7. ASSUME NEW c \in flight, ServeError(c) PROVE TypeInv'
  <2> PICK a : Answers(c, a) /\ a.doc = c.doc /\ a.stage = "failed"
    BY <1>7, ServerAnswers
  <2>1. UNCHANGED <<board, served, mine>>
    BY <1>7, ServerAnswers
  <2> QED
    BY <1>0, <2>1 DEF Answers, TypeInv, WorkbenchTypeOK, CallsKnown
<1>8. ASSUME NEW c \in flight, Continues(c) PROVE TypeInv'
  <2> PICK a : Answers(c, a) /\ a.stage = "sent"
    BY <1>8, UploadContinues DEF Continues
  <2>1. c.doc \in Uploads /\ c.kind = "upload" /\ UNCHANGED <<served, mine>>
    BY <1>8, UploadContinues DEF Continues
  <2>2. board' = [board EXCEPT !.items = @ \cup {c.doc}]
    BY <1>8, UploadContinues DEF Continues
  <2>3. board' \in Board
    BY <1>0, <2>1, <2>2 DEF WorkbenchTypeOK, Board
  <2> QED
    BY <1>0, <2>1, <2>3 DEF Answers, TypeInv, WorkbenchTypeOK, CallsKnown
<1>9. ASSUME NEW c \in flight, Closes(c) PROVE TypeInv'
  <2>1. board' \in Board
    BY <1>0, <1>9, ShownFields DEF Closes, WorkbenchTypeOK
  <2>2. mine' \subseteq Uploads
    BY <1>0, <1>9 DEF Closes, WorkbenchTypeOK, CallsKnown
  <2> QED
    BY <1>0, <1>9, <2>1, <2>2 DEF Closes, TypeInv, WorkbenchTypeOK, CallsKnown
<1>10. ASSUME NEW c \in flight, HandleImport(c) PROVE TypeInv'
  BY <1>0, <1>10, ImportCloses DEF TypeInv, WorkbenchTypeOK, CallsKnown
<1>11. CASE UNCHANGED workbenchVars
  BY <1>0, <1>11 DEF workbenchVars, TypeInv, WorkbenchTypeOK, CallsKnown
<1> QED
  BY <1>1, <1>2, <1>3, <1>4, <1>5, <1>6, <1>7, <1>8, <1>9, <1>10, <1>11, Steps DEF Serves

LEMMA TypeInit == WorkbenchInit => TypeInv
<1> SUFFICES ASSUME WorkbenchInit PROVE TypeInv
  OBVIOUS
<1>1. board \in Board
  BY DEF WorkbenchInit, Board
<1>2. served \in [Uploads -> Served]
  BY DEF WorkbenchInit, Served
<1>3. generation \in Generations
  BY WorkbenchAssumption DEF WorkbenchInit, Generations
<1> QED
  BY <1>1, <1>2, <1>3 DEF WorkbenchInit, TypeInv, WorkbenchTypeOK, CallsKnown

\* Types of what is shown, of calls in flight and of the server's documents.
THEOREM WorkbenchTyped == WorkbenchSpec => []WorkbenchTypeOK
<1>1. TypeInv /\ [WorkbenchNext]_workbenchVars => TypeInv'
  BY TypeStep
<1>2. TypeInv => WorkbenchTypeOK
  BY DEF TypeInv
<1> QED
  BY <1>1, <1>2, TypeInit, PTL DEF WorkbenchSpec

---------------------------------------------------------------------------
(* What is shown belongs to the session that is entered *)

\* The document d was created for the session s, and stays its document.
Owned(d, s) == served[d].scope = s /\ served[d].status # "none"
Later(d, s) == served'[d].scope = s /\ served'[d].status # "none"

\* A call of the present generation was made for the present session, and an
\* answer carries documents of the session it was asked for only.
CallsOfTheirScope ==
  \A c \in flight :
    /\ c.gen <= generation
    /\ c.gen = generation => c.scope = scope
    /\ c.kind \in {"upload", "import"} /\ c.stage = "answered" => Owned(c.doc, c.scope)
    /\ \A d \in c.list : Owned(d, c.scope)

ScopeInv ==
  /\ \A d \in board.items : Owned(d, scope)
  /\ board.panel \in {scope, Nothing}
  /\ CallsOfTheirScope

\* A document never changes hands.
LEMMA OwnedStays ==
  ASSUME TypeInv, [WorkbenchNext]_workbenchVars,
         NEW d \in Uploads, NEW s \in Scopes \cup {Nothing}, Owned(d, s)
  PROVE  Later(d, s)
<1>0. WorkbenchTypeOK
  BY DEF TypeInv
<1>1. CASE served' = served
  BY <1>1 DEF Owned, Later
<1>2. ASSUME NEW e \in Uploads, DecideElsewhere(e) PROVE Later(d, s)
  <2>1. served' = [served EXCEPT ![e].status = "decided"]
    BY <1>2 DEF DecideElsewhere
  <2> QED
    BY <1>0, <2>1 DEF Owned, Later, WorkbenchTypeOK, Served
<1>3. ASSUME NEW c \in flight, NEW e \in Uploads, ServeIntake(c, e) PROVE Later(d, s)
  <2>1. /\ served[e].status = "none"
        /\ served' = [served EXCEPT ![e] = [scope |-> c.scope, status |-> "pending"]]
    BY <1>3 DEF ServeIntake
  <2> QED
    BY <1>0, <2>1 DEF Owned, Later, WorkbenchTypeOK
<1>4. ASSUME NEW c \in flight, ServeDecision(c) PROVE Later(d, s)
  <2>1. served' = [served EXCEPT ![c.doc].status = "decided"]
    BY <1>4 DEF ServeDecision
  <2> QED
    BY <1>0, <2>1 DEF Owned, Later, WorkbenchTypeOK, Served
<1>5. ASSUME NEW c \in flight, ServeRead(c) \/ ServeError(c) PROVE served' = served
  BY <1>5 DEF ServeRead, ServeError
<1>6. ASSUME NEW c \in flight, Continues(c) PROVE served' = served
  BY <1>6, UploadContinues DEF Continues
<1>7. ASSUME NEW c \in flight, Closes(c) \/ HandleImport(c) PROVE served' = served
  BY <1>7, ImportCloses DEF Closes
<1>8. ASSUME NEW t \in Scopes \cup {Nothing}, Edit(t) PROVE served' = served
  BY <1>8 DEF Edit
<1>9. CASE Starts
  BY <1>1, <1>9, StartFields
<1> QED
  BY <1>1, <1>2, <1>3, <1>4, <1>5, <1>6, <1>7, <1>8, <1>9, Steps DEF Serves, workbenchVars

\* An answer to a call belongs to the call's session if what it carries does.
LEMMA AnswersOfTheirScope ==
  ASSUME TypeInv, ScopeInv, [WorkbenchNext]_workbenchVars, NEW c \in flight,
         NEW a, Answers(c, a),
         a.kind \in {"upload", "import"} /\ a.stage = "answered" => Later(a.doc, c.scope),
         \A d \in a.list : Later(d, c.scope)
  PROVE  CallsOfTheirScope'
<1> SUFFICES ASSUME NEW x \in flight'
             PROVE  /\ x.gen <= generation /\ (x.gen = generation => x.scope = scope)
                    /\ x.kind \in {"upload", "import"} /\ x.stage = "answered"
                         => Later(x.doc, x.scope)
                    /\ \A d \in x.list : Later(d, x.scope)
  BY DEF CallsOfTheirScope, Answers, Owned, Later
<1>1. CASE x = a
  BY <1>1 DEF ScopeInv, CallsOfTheirScope, Answers, Owned, Later
<1>2. CASE x \in flight
  <2>1. x \in Call
    BY <1>2 DEF TypeInv, WorkbenchTypeOK
  <2>2. x.list \subseteq Uploads /\ x.scope \in Scopes \cup {Nothing}
    BY <2>1 DEF Call
  <2>3. x.kind \in {"upload", "import"} /\ x.stage = "answered" => x.doc \in Uploads
    BY <1>2 DEF TypeInv, CallsKnown
  <2> QED
    BY <1>2, <2>2, <2>3, OwnedStays DEF ScopeInv, CallsOfTheirScope
<1> QED
  BY <1>1, <1>2 DEF Answers

LEMMA ScopeStep ==
  ASSUME TypeInv, ScopeInv, [WorkbenchNext]_workbenchVars
  PROVE  ScopeInv'
<1>0. WorkbenchTypeOK /\ board.items \subseteq Uploads
  BY DEF TypeInv, WorkbenchTypeOK, Board
<1>s. scope \in Scopes \cup {Nothing} /\ \A c \in flight : c.scope \in Scopes \cup {Nothing}
  BY <1>0 DEF WorkbenchTypeOK, Call
\* The calls that stay in flight, and what stays on the board.
<1>a. ASSUME NEW x \in flight, scope' = scope, generation' = generation
      PROVE  /\ x.gen <= generation' /\ (x.gen = generation' => x.scope = scope')
             /\ x.kind \in {"upload", "import"} /\ x.stage = "answered"
                  => Later(x.doc, x.scope)
             /\ \A d \in x.list : Later(d, x.scope)
  <2>1. x.list \subseteq Uploads
    BY <1>0, <1>a DEF WorkbenchTypeOK, Call
  <2>2. x.kind \in {"upload", "import"} /\ x.stage = "answered" => x.doc \in Uploads
    BY <1>a DEF TypeInv, CallsKnown
  <2> QED
    BY <1>a, <1>s, <2>1, <2>2, OwnedStays DEF ScopeInv, CallsOfTheirScope
<1>b. ASSUME NEW d \in board.items, scope' = scope PROVE Later(d, scope)
  BY <1>b, <1>0, <1>s, OwnedStays DEF ScopeInv
<1>1. ASSUME NEW s \in Scopes \cup {Nothing}, Edit(s) PROVE ScopeInv'
  <2>1. board'.items = {} /\ board'.panel = Nothing
    BY <1>1, ClearedFields DEF Edit
  <2>2. ASSUME NEW c \in flight PROVE c.gen < generation'
    BY <1>0, <1>1, <2>2 DEF Edit, ScopeInv, CallsOfTheirScope, WorkbenchTypeOK, Call, Generations
  <2> QED
    BY <1>0, <1>1, <2>1, <2>2
    DEF Edit, ScopeInv, CallsOfTheirScope, Owned, Later, WorkbenchTypeOK, Call, Generations
<1>2. CASE Starts
  <2>1. /\ UNCHANGED <<scope, generation, served>>
        /\ board'.items = board.items /\ board'.panel = board.panel
    BY <1>2, StartFields
  <2>2. PICK n \in Call : /\ flight' = flight \cup {n} /\ n.gen = generation
                          /\ n.scope = scope /\ n.list = {} /\ n.stage = "sent"
    BY <1>2, StartFields
  <2>3. generation \in Int
    BY <1>0 DEF WorkbenchTypeOK, Generations
  <2> QED
    BY <2>1, <2>2, <2>3 DEF ScopeInv, CallsOfTheirScope, Owned, Later
<1>3. ASSUME NEW d \in Uploads, DecideElsewhere(d) PROVE ScopeInv'
  <2>1. UNCHANGED <<scope, generation, board, flight>>
    BY <1>3 DEF DecideElsewhere
  <2> QED
    BY <1>a, <1>b, <2>1 DEF ScopeInv, CallsOfTheirScope, Owned, Later
<1>4. ASSUME NEW c \in flight, Serves(c) PROVE ScopeInv'
  <2>1. ASSUME NEW d \in Uploads, ServeIntake(c, d) PROVE CallsOfTheirScope'
    <3> PICK a : Answers(c, a) /\ a.list = c.list /\ (a.stage = "answered" => a.doc = d)
      BY <2>1, ServerAnswers
    <3>1. served' = [served EXCEPT ![d] = [scope |-> c.scope, status |-> "pending"]]
      BY <2>1 DEF ServeIntake
    <3>2. served'[d].scope = c.scope /\ served'[d].status # "none"
      BY <1>0, <3>1 DEF WorkbenchTypeOK
    <3>3. \A e \in a.list : Later(e, c.scope)
      BY <1>a DEF Answers
    <3> QED
      BY <3>2, <3>3, AnswersOfTheirScope DEF Owned, Later
  <2>2. ASSUME ServeDecision(c) PROVE CallsOfTheirScope'
    <3> PICK a : Answers(c, a) /\ a.list = c.list
      BY <2>2, ServerAnswers
    <3>1. \A e \in a.list : Later(e, c.scope)
      BY <1>a DEF Answers
    <3> QED
      BY <2>2, <3>1, AnswersOfTheirScope DEF ServeDecision, Answers
  <2>3. ASSUME ServeRead(c) PROVE CallsOfTheirScope'
    <3> PICK a : Answers(c, a) /\ a.list = PendingIn(c.scope)
      BY <2>3, ServerAnswers
    <3>1. \A e \in PendingIn(c.scope) : e \in Uploads /\ Owned(e, c.scope)
      BY <1>0 DEF PendingIn, Owned, Later, WorkbenchTypeOK, Served
    <3>2. \A e \in a.list : Later(e, c.scope)
      BY <1>s, <3>1, OwnedStays
    <3> QED
      BY <2>3, <3>2, AnswersOfTheirScope DEF ServeRead, Answers
  <2>4. ASSUME ServeError(c) PROVE CallsOfTheirScope'
    <3> PICK a : Answers(c, a) /\ a.list = c.list /\ a.stage = "failed"
      BY <2>4, ServerAnswers
    <3>1. \A e \in a.list : Later(e, c.scope)
      BY <1>a DEF Answers
    <3> QED
      BY <3>1, AnswersOfTheirScope
  <2>5. UNCHANGED <<scope, board>>
    BY <1>4 DEF Serves, ServeIntake, ServeDecision, ServeRead, ServeError
  <2> QED
    BY <1>4, <1>b, <2>1, <2>2, <2>3, <2>4, <2>5 DEF Serves, ScopeInv, Owned, Later
<1>5. ASSUME NEW c \in flight, Continues(c) PROVE ScopeInv'
  <2> PICK a : Answers(c, a) /\ a.stage = "sent" /\ a.list = c.list
    BY <1>5, UploadContinues DEF Continues
  <2>1. /\ c.kind = "upload" /\ c.stage = "answered" /\ c.gen = generation
        /\ board' = [board EXCEPT !.items = @ \cup {c.doc}]
    BY <1>5, UploadContinues DEF Continues, Current
  <2>2. board'.items = board.items \cup {c.doc} /\ board'.panel = board.panel
    BY <1>0, <2>1 DEF WorkbenchTypeOK, Board
  <2>3. Later(c.doc, scope) /\ \A e \in c.list : Later(e, c.scope)
    BY <1>a, <2>1 DEF Answers, ScopeInv, CallsOfTheirScope, Owned, Later
  <2>4. CallsOfTheirScope'
    BY <2>3, AnswersOfTheirScope
  <2> QED
    BY <1>b, <2>2, <2>3, <2>4 DEF Answers, ScopeInv, Owned, Later
<1>6. ASSUME NEW c \in flight, Closes(c) PROVE ScopeInv'
  <2>0. /\ c.kind # "import" /\ flight' = flight \ {c} /\ UNCHANGED <<scope, generation>>
        /\ board' = IF Current(c) THEN Shown(c) ELSE board
    BY <1>6 DEF Closes
  <2>1. CallsOfTheirScope'
    BY <1>a, <2>0 DEF CallsOfTheirScope, Owned, Later
  <2>2. CASE ~Current(c)
    BY <1>b, <2>0, <2>1, <2>2 DEF ScopeInv, Owned, Later
  <2>3. CASE Current(c)
    <3>0. c.gen = generation /\ c.scope = scope /\ board' = Shown(c)
      BY <2>0, <2>3 DEF Current, ScopeInv, CallsOfTheirScope
    <3>1. board'.panel \in {board.panel, c.scope, Nothing}
      BY <2>0, <3>0, ShownFields
    <3>2. ASSUME NEW d \in board'.items
          PROVE  \/ d \in board.items
                 \/ d = c.doc /\ c.kind = "upload" /\ c.stage = "answered"
                 \/ d \in c.list
      BY <2>0, <3>0, <3>2, ShownFields
    <3>3. ASSUME NEW d \in board'.items PROVE Later(d, scope)
      BY <1>a, <1>b, <2>0, <3>0, <3>2 DEF Owned, Later
    <3> QED
      BY <2>0, <2>1, <3>0, <3>1, <3>3 DEF ScopeInv, Owned, Later
  <2> QED
    BY <2>2, <2>3
<1>7. ASSUME NEW c \in flight, HandleImport(c) PROVE ScopeInv'
  <2>0. /\ c.kind = "import" /\ flight' = flight \ {c} /\ UNCHANGED <<scope, generation>>
        /\ board'.panel = board.panel
        /\ board'.items = IF Current(c) /\ c.stage = "answered"
                          THEN board.items \cup {c.doc} ELSE board.items
    BY <1>7, ImportCloses
  <2>1. CallsOfTheirScope'
    BY <1>a, <2>0 DEF CallsOfTheirScope, Owned, Later
  <2>2. ASSUME NEW d \in board'.items PROVE Later(d, scope)
    BY <1>a, <1>b, <2>0, <2>2 DEF Owned, Later, Current, ScopeInv, CallsOfTheirScope
  <2> QED
    BY <2>0, <2>1, <2>2 DEF ScopeInv, Owned, Later
<1>8. CASE UNCHANGED workbenchVars
  BY <1>8 DEF workbenchVars, ScopeInv, CallsOfTheirScope, Owned
<1> QED
  BY <1>1, <1>2, <1>3, <1>4, <1>5, <1>6, <1>7, <1>8, Steps

\* One tenant's data is never on the screen under another one's session,
\* however late its answer comes (the generation checks of App.tsx).
THEOREM NothingOfAnotherSession == WorkbenchSpec => []ShownIsOfTheScope
<1>1. WorkbenchInit => ScopeInv
  BY DEF WorkbenchInit, ScopeInv, CallsOfTheirScope
<1>2. TypeInv /\ ScopeInv /\ [WorkbenchNext]_workbenchVars => TypeInv' /\ ScopeInv'
  BY TypeStep, ScopeStep
<1>3. ScopeInv => ShownIsOfTheScope
  BY DEF ScopeInv, Owned, ShownIsOfTheScope
<1> QED
  BY <1>1, <1>2, <1>3, TypeInit, PTL DEF WorkbenchSpec

---------------------------------------------------------------------------
(* Buttons follow the calls in flight *)

\* A call of this kind is for what is on the screen now.
Waiting(kind) == \E c \in flight : c.kind = kind /\ c.gen = generation

\* No two calls of a kind wait for the present generation, and no two imports
\* at all: otherwise the first answer would free the button of the second.
OneCallOfAKind ==
  \A c, e \in flight :
    c.kind = e.kind /\ (c.kind = "import" \/ (c.gen = generation /\ e.gen = generation))
      => c = e

ButtonInv ==
  /\ board.uploading <=> Waiting("upload")
  /\ board.reviewing <=> Waiting("refresh")
  /\ board.loading <=> Waiting("load")
  /\ board.acting # Nothing <=> Waiting("decide")
  /\ \A c \in flight : c.kind = "decide" /\ c.gen = generation => board.acting = c.doc
  /\ board.importing # NoGeneration => \E c \in flight : c.kind = "import"
  /\ \A c \in flight : c.kind = "import" => board.importing = c.gen
  /\ OneCallOfAKind

\* An answer takes the place of its call.
LEMMA ButtonsOfAnswers ==
  ASSUME TypeInv, ButtonInv, NEW c \in flight, NEW a, Answers(c, a),
         c.kind = "decide" => a.doc = c.doc,
         board'.uploading = board.uploading, board'.reviewing = board.reviewing,
         board'.loading = board.loading, board'.importing = board.importing,
         board'.acting = board.acting
  PROVE  ButtonInv'
<1>1. /\ flight' = (flight \ {c}) \cup {a} /\ generation' = generation
      /\ a.kind = c.kind /\ a.gen = c.gen
  BY DEF Answers
<1>2. ASSUME NEW kind PROVE Waiting(kind)' <=> Waiting(kind)
  BY <1>1 DEF Waiting
<1>3. OneCallOfAKind'
  BY <1>1 DEF ButtonInv, OneCallOfAKind
<1>4. /\ \A x \in flight' : x.kind = "decide" /\ x.gen = generation => board.acting = x.doc
      /\ \A x \in flight' : x.kind = "import" => board.importing = x.gen
      /\ (\E x \in flight : x.kind = "import") => \E x \in flight' : x.kind = "import"
  BY <1>1 DEF ButtonInv
<1> QED
  BY <1>1, <1>2, <1>3, <1>4 DEF ButtonInv

LEMMA ButtonStep ==
  ASSUME TypeInv, ScopeInv, ButtonInv, [WorkbenchNext]_workbenchVars
  PROVE  ButtonInv'
<1>0. WorkbenchTypeOK /\ board \in Board /\ generation \in Generations
  BY DEF TypeInv, WorkbenchTypeOK
<1>1. ASSUME NEW s \in Scopes \cup {Nothing}, Edit(s) PROVE ButtonInv'
  <2>1. /\ ~board'.uploading /\ ~board'.reviewing /\ ~board'.loading
        /\ board'.importing = board.importing /\ board'.acting = Nothing
    BY <1>1, ClearedFields DEF Edit
  <2>2. flight' = flight /\ generation' = generation + 1
    BY <1>1 DEF Edit
  <2>3. ASSUME NEW c \in flight PROVE c.gen # generation'
    BY <1>0, <2>2, <2>3 DEF ScopeInv, CallsOfTheirScope, WorkbenchTypeOK, Call, Generations
  <2> QED
    BY <2>1, <2>2, <2>3 DEF ButtonInv, OneCallOfAKind, Waiting
<1>2. CASE Starts
  <2>1. generation' = generation
    BY <1>2, StartFields
  <2> PICK n \in Call :
        /\ flight' = flight \cup {n} /\ n.gen = generation
        /\ n.kind = "decide" => n.doc \in Uploads
        /\ IF n.kind = "upload" THEN ~board.uploading /\ board'.uploading
           ELSE board'.uploading = board.uploading
        /\ IF n.kind = "import"
           THEN board.importing = NoGeneration /\ board'.importing = generation
           ELSE board'.importing = board.importing
        /\ IF n.kind = "refresh" THEN MayRefresh /\ board'.reviewing
           ELSE board'.reviewing = board.reviewing
        /\ IF n.kind = "load" THEN ~board.loading /\ board'.loading
           ELSE board'.loading = board.loading
        /\ IF n.kind = "decide"
           THEN ~board.reviewing /\ board.acting = Nothing /\ board'.acting = n.doc
           ELSE board'.acting = board.acting
    BY <1>2, StartFields
  <2>2. ASSUME NEW kind PROVE Waiting(kind)' <=> (Waiting(kind) \/ n.kind = kind)
    BY <2>1 DEF Waiting
  <2>3. \A c \in flight : c.gen # NoGeneration
    BY <1>0 DEF WorkbenchTypeOK, Call, Generations, NoGeneration
  <2>4. \A c \in flight : c.kind = n.kind =>
          c.kind # "import" /\ c.gen # generation
    BY <2>3 DEF ButtonInv, Waiting, MayRefresh, WorkbenchTypeOK, Call, Kinds
  <2>5. OneCallOfAKind'
    BY <2>1, <2>4 DEF ButtonInv, OneCallOfAKind
  <2>6. n.kind = "decide" => n.doc # Nothing
    BY WorkbenchAssumption
  <2>7. /\ \A x \in flight' : x.kind = "decide" /\ x.gen = generation => board'.acting = x.doc
        /\ \A x \in flight' : x.kind = "import" => board'.importing = x.gen
        /\ board'.importing # NoGeneration => \E x \in flight' : x.kind = "import"
    BY <2>4 DEF ButtonInv
  <2>8. /\ board'.uploading <=> Waiting("upload")'
        /\ board'.reviewing <=> Waiting("refresh")'
        /\ board'.loading <=> Waiting("load")'
        /\ board'.acting # Nothing <=> Waiting("decide")'
    BY <2>2, <2>6 DEF ButtonInv
  <2> QED
    BY <2>1, <2>5, <2>7, <2>8 DEF ButtonInv
<1>3. ASSUME NEW d \in Uploads, DecideElsewhere(d) PROVE ButtonInv'
  BY <1>3 DEF DecideElsewhere, ButtonInv, OneCallOfAKind, Waiting
<1>4. ASSUME NEW c \in flight, Serves(c) PROVE ButtonInv'
  <2>1. board' = board
    BY <1>4 DEF Serves, ServeIntake, ServeDecision, ServeRead, ServeError
  <2>2. PICK a : Answers(c, a) /\ (c.kind = "decide" => a.doc = c.doc)
    BY <1>4, ServerAnswers DEF Serves
  <2> QED
    BY <2>1, <2>2, ButtonsOfAnswers
<1>5. ASSUME NEW c \in flight, Continues(c) PROVE ButtonInv'
  <2> PICK a : Answers(c, a)
    BY <1>5, UploadContinues DEF Continues
  <2>1. c.kind = "upload" /\ board' = [board EXCEPT !.items = @ \cup {c.doc}]
    BY <1>5, UploadContinues DEF Continues
  <2>2. /\ board'.uploading = board.uploading /\ board'.reviewing = board.reviewing
        /\ board'.loading = board.loading /\ board'.importing = board.importing
        /\ board'.acting = board.acting
    BY <1>0, <2>1 DEF Board
  <2> QED
    BY <2>1, <2>2, ButtonsOfAnswers
<1>6. ASSUME NEW c \in flight, Closes(c) PROVE ButtonInv'
  <2>0. /\ c.kind # "import" /\ flight' = flight \ {c} /\ generation' = generation
        /\ board' = IF Current(c) THEN Shown(c) ELSE board
    BY <1>6 DEF Closes
  <2>1. OneCallOfAKind'
    BY <2>0 DEF ButtonInv, OneCallOfAKind
  <2>2. /\ board'.importing = board.importing
        /\ board'.uploading = (IF c.kind = "upload" /\ Current(c) THEN FALSE ELSE board.uploading)
        /\ board'.reviewing = (IF c.kind = "refresh" /\ Current(c) THEN FALSE ELSE board.reviewing)
        /\ board'.loading = (IF c.kind = "load" /\ Current(c) THEN FALSE ELSE board.loading)
        /\ board'.acting = (IF c.kind = "decide" /\ Current(c) THEN Nothing ELSE board.acting)
    <3>1. CASE Current(c)
      BY <2>0, <3>1, ShownFields
    <3>2. CASE ~Current(c)
      BY <2>0, <3>2
    <3> QED
      BY <3>1, <3>2
  <2>3. ASSUME NEW kind
        PROVE  Waiting(kind)' <=> (Waiting(kind) /\ ~(c.kind = kind /\ Current(c)))
    BY <2>0 DEF ButtonInv, OneCallOfAKind, Waiting, Current
  <2>4. /\ \A x \in flight' : x.kind = "decide" /\ x.gen = generation => board'.acting = x.doc
        /\ \A x \in flight' : x.kind = "import" => board'.importing = x.gen
        /\ board'.importing # NoGeneration => \E x \in flight' : x.kind = "import"
    BY <2>0, <2>2 DEF ButtonInv, OneCallOfAKind, Current
  <2>5. /\ board'.uploading <=> Waiting("upload")'
        /\ board'.reviewing <=> Waiting("refresh")'
        /\ board'.loading <=> Waiting("load")'
        /\ board'.acting # Nothing <=> Waiting("decide")'
    BY <2>2, <2>3 DEF ButtonInv
  <2> QED
    BY <2>0, <2>1, <2>4, <2>5 DEF ButtonInv
<1>7. ASSUME NEW c \in flight, HandleImport(c) PROVE ButtonInv'
  <2>0. /\ c.kind = "import" /\ flight' = flight \ {c} /\ generation' = generation
        /\ board'.importing = IF board.importing = c.gen THEN NoGeneration ELSE board.importing
        /\ board'.uploading = board.uploading /\ board'.reviewing = board.reviewing
        /\ board'.loading = board.loading /\ board'.acting = board.acting
    BY <1>7, ImportCloses
  <2>1. OneCallOfAKind'
    BY <2>0 DEF ButtonInv, OneCallOfAKind
  <2>2. \A x \in flight' : x.kind # "import"
    BY <2>0 DEF ButtonInv, OneCallOfAKind
  <2>3. board'.importing = NoGeneration
    BY <2>0 DEF ButtonInv
  <2>4. ASSUME NEW kind, kind # "import" PROVE Waiting(kind)' <=> Waiting(kind)
    BY <2>0, <2>4 DEF Waiting
  <2> QED
    BY <2>0, <2>1, <2>2, <2>3, <2>4 DEF ButtonInv
<1>8. CASE UNCHANGED workbenchVars
  BY <1>8 DEF workbenchVars, ButtonInv, OneCallOfAKind, Waiting
<1> QED
  BY <1>1, <1>2, <1>3, <1>4, <1>5, <1>6, <1>7, <1>8, Steps

\* A button is disabled exactly while a call it started may still be answered
\* (the flags and the generation an import is remembered by, App.tsx).
THEOREM ButtonsComeBack == WorkbenchSpec => []ButtonsFollowCalls
<1>1. WorkbenchInit => ScopeInv /\ ButtonInv
  BY DEF WorkbenchInit, ScopeInv, CallsOfTheirScope, ButtonInv, OneCallOfAKind, Waiting
<1>2. TypeInv /\ ScopeInv /\ ButtonInv /\ [WorkbenchNext]_workbenchVars
        => TypeInv' /\ ScopeInv' /\ ButtonInv'
  BY TypeStep, ScopeStep, ButtonStep
<1>3. TypeInv /\ ButtonInv => ButtonsFollowCalls
  <2> SUFFICES ASSUME TypeInv, ButtonInv PROVE ButtonsFollowCalls
    OBVIOUS
  <2>1. \A c \in flight : c.gen # NoGeneration
    BY DEF TypeInv, WorkbenchTypeOK, Call, Generations, NoGeneration
  <2>2. {c.gen : c \in {x \in flight : x.kind = "import"}}
          = IF board.importing = NoGeneration THEN {} ELSE {board.importing}
    BY <2>1 DEF ButtonInv
  <2>3. {c.doc : c \in {x \in flight : x.kind = "decide" /\ x.gen = generation}}
          = IF board.acting = Nothing THEN {} ELSE {board.acting}
    BY DEF ButtonInv, Waiting
  <2> QED
    BY <2>2, <2>3 DEF ButtonInv, Waiting, ButtonsFollowCalls
<1> QED
  BY <1>1, <1>2, <1>3, TypeInit, PTL DEF WorkbenchSpec

---------------------------------------------------------------------------
(* Decided documents stay away *)

\* What was decided here is decided on the server; no refresh that can still
\* be shown lists it, since none is asked for while a decision is in flight.
DecidedInv ==
  /\ \A d \in mine : served[d].status = "decided"
  /\ \A c \in flight : c.kind = "decide" /\ c.stage = "answered"
                         => served[c.doc].status = "decided"
  /\ \A c \in flight : c.kind = "refresh" /\ c.gen = generation => c.list \cap mine = {}
  /\ ~(board.reviewing /\ board.acting # Nothing)

\* A decision is final.
LEMMA DecidedForGood ==
  ASSUME TypeInv, [WorkbenchNext]_workbenchVars,
         NEW d \in Uploads, served[d].status = "decided"
  PROVE  served'[d].status = "decided"
<1>0. WorkbenchTypeOK
  BY DEF TypeInv
<1>2. ASSUME NEW e \in Uploads, DecideElsewhere(e) PROVE served'[d].status = "decided"
  <2>1. served' = [served EXCEPT ![e].status = "decided"]
    BY <1>2 DEF DecideElsewhere
  <2> QED
    BY <1>0, <2>1 DEF WorkbenchTypeOK, Served
<1>3. ASSUME NEW c \in flight, NEW e \in Uploads, ServeIntake(c, e)
      PROVE  served'[d].status = "decided"
  <2>1. /\ served[e].status = "none"
        /\ served' = [served EXCEPT ![e] = [scope |-> c.scope, status |-> "pending"]]
    BY <1>3 DEF ServeIntake
  <2> QED
    BY <1>0, <2>1 DEF WorkbenchTypeOK
<1>4. ASSUME NEW c \in flight, ServeDecision(c) PROVE served'[d].status = "decided"
  <2>1. served' = [served EXCEPT ![c.doc].status = "decided"]
    BY <1>4 DEF ServeDecision
  <2> QED
    BY <1>0, <2>1 DEF WorkbenchTypeOK, Served
<1>5. ASSUME NEW c \in flight, ServeRead(c) \/ ServeError(c) PROVE served' = served
  BY <1>5 DEF ServeRead, ServeError
<1>6. ASSUME NEW c \in flight, Continues(c) PROVE served' = served
  BY <1>6, UploadContinues DEF Continues
<1>7. ASSUME NEW c \in flight, Closes(c) \/ HandleImport(c) PROVE served' = served
  BY <1>7, ImportCloses DEF Closes
<1>8. ASSUME NEW t \in Scopes \cup {Nothing}, Edit(t) PROVE served' = served
  BY <1>8 DEF Edit
<1>9. CASE Starts
  BY <1>9, StartFields
<1> QED
  BY <1>2, <1>3, <1>4, <1>5, <1>6, <1>7, <1>8, <1>9, Steps DEF Serves, workbenchVars

LEMMA DecidedStep ==
  ASSUME TypeInv, ScopeInv, ButtonInv, DecidedInv, [WorkbenchNext]_workbenchVars
  PROVE  DecidedInv'
<1>0. WorkbenchTypeOK /\ board \in Board /\ generation \in Generations /\ mine \subseteq Uploads
  BY DEF TypeInv, WorkbenchTypeOK
<1>a. \A d \in mine : served'[d].status = "decided"
  BY <1>0, DecidedForGood DEF DecidedInv
<1>b. \A c \in flight : c.kind = "decide" /\ c.stage = "answered"
                          => served'[c.doc].status = "decided"
  BY DecidedForGood DEF DecidedInv, TypeInv, CallsKnown
<1>1. ASSUME NEW s \in Scopes \cup {Nothing}, Edit(s) PROVE DecidedInv'
  <2>1. ~board'.reviewing
    BY <1>1, ClearedFields DEF Edit
  <2>2. flight' = flight /\ generation' = generation + 1 /\ UNCHANGED <<mine, served>>
    BY <1>1 DEF Edit
  <2>3. ASSUME NEW c \in flight PROVE c.gen # generation'
    BY <1>0, <2>2, <2>3 DEF ScopeInv, CallsOfTheirScope, WorkbenchTypeOK, Call, Generations
  <2> QED
    BY <2>1, <2>2, <2>3 DEF DecidedInv
<1>2. CASE Starts
  <2>1. UNCHANGED <<generation, served, mine>>
    BY <1>2, StartFields
  <2> PICK n \in Call :
        /\ flight' = flight \cup {n} /\ n.list = {} /\ n.stage = "sent"
        /\ IF n.kind = "refresh" THEN MayRefresh /\ board'.reviewing
           ELSE board'.reviewing = board.reviewing
        /\ IF n.kind = "decide"
           THEN ~board.reviewing /\ board.acting = Nothing /\ board'.acting = n.doc
           ELSE board'.acting = board.acting
    BY <1>2, StartFields
  <2> QED
    BY <2>1 DEF DecidedInv, MayRefresh
<1>3. ASSUME NEW d \in Uploads, DecideElsewhere(d) PROVE DecidedInv'
  BY <1>3, <1>a, <1>b DEF DecideElsewhere, DecidedInv
<1>4. ASSUME NEW c \in flight, Serves(c) PROVE DecidedInv'
  <2>0. UNCHANGED <<board, mine, generation>>
    BY <1>4 DEF Serves, ServeIntake, ServeDecision, ServeRead, ServeError
  <2>1. ASSUME NEW a, Answers(c, a),
               a.kind = "decide" /\ a.stage = "answered" => served'[a.doc].status = "decided",
               a.kind = "refresh" /\ a.gen = generation => a.list \cap mine = {}
        PROVE  DecidedInv'
    BY <1>a, <1>b, <2>0, <2>1 DEF Answers, DecidedInv
  <2>2. ASSUME NEW d \in Uploads, ServeIntake(c, d) PROVE DecidedInv'
    <3> PICK a : Answers(c, a) /\ c.kind \in {"upload", "import"}
      BY <2>2, ServerAnswers
    <3> QED
      BY <2>1 DEF Answers
  <2>3. ASSUME ServeDecision(c) PROVE DecidedInv'
    <3> PICK a : Answers(c, a) /\ c.kind = "decide" /\ c.doc \in Uploads /\ a.doc = c.doc
      BY <2>3, ServerAnswers
    <3>1. served' = [served EXCEPT ![c.doc].status = "decided"]
      BY <2>3 DEF ServeDecision
    <3>2. served'[c.doc].status = "decided"
      BY <1>0, <3>1 DEF WorkbenchTypeOK, Served
    <3> QED
      BY <2>1, <3>2 DEF Answers
  <2>4. ASSUME ServeRead(c) PROVE DecidedInv'
    <3> PICK a : /\ Answers(c, a) /\ c.kind \in {"refresh", "load"}
                 /\ a.list = PendingIn(c.scope)
      BY <2>4, ServerAnswers
    <3>1. \A d \in PendingIn(c.scope) : served[d].status = "pending"
      BY DEF PendingIn
    <3>2. a.list \cap mine = {}
      BY <3>1 DEF DecidedInv
    <3> QED
      BY <2>1, <3>2 DEF Answers
  <2>5. ASSUME ServeError(c) PROVE DecidedInv'
    <3> PICK a : Answers(c, a) /\ a.list = c.list /\ a.stage = "failed"
      BY <2>5, ServerAnswers
    <3> QED
      BY <2>1 DEF Answers, DecidedInv
  <2> QED
    BY <1>4, <2>2, <2>3, <2>4, <2>5 DEF Serves
<1>5. ASSUME NEW c \in flight, Continues(c) PROVE DecidedInv'
  <2> PICK a : Answers(c, a) /\ c.kind = "upload"
    BY <1>5, UploadContinues DEF Continues
  <2>1. /\ board' = [board EXCEPT !.items = @ \cup {c.doc}]
        /\ UNCHANGED <<served, mine>>
    BY <1>5, UploadContinues DEF Continues
  <2>2. board'.reviewing = board.reviewing /\ board'.acting = board.acting
    BY <1>0, <2>1 DEF Board
  <2> QED
    BY <2>1, <2>2 DEF Answers, DecidedInv
<1>6. ASSUME NEW c \in flight, Closes(c) PROVE DecidedInv'
  <2>0. /\ c.kind # "import" /\ flight' = flight \ {c} /\ UNCHANGED <<generation, served>>
        /\ board' = IF Current(c) THEN Shown(c) ELSE board
        /\ mine' = IF Current(c) /\ c.kind = "decide" /\ c.stage = "answered"
                   THEN mine \cup {c.doc} ELSE mine
    BY <1>6 DEF Closes
  <2>1. (board'.reviewing => board.reviewing) /\ board'.acting \in {board.acting, Nothing}
    BY <2>0, ShownFields
  <2>2. \A d \in mine' : served'[d].status = "decided"
    BY <2>0 DEF DecidedInv
  <2>3. Current(c) /\ c.kind = "decide" =>
          \A x \in flight : ~(x.kind = "refresh" /\ x.gen = generation)
    BY DEF DecidedInv, ButtonInv, Waiting, Current
  <2>4. \A x \in flight' : x.kind = "refresh" /\ x.gen = generation => x.list \cap mine' = {}
    BY <2>0, <2>3 DEF DecidedInv
  <2> QED
    BY <2>0, <2>1, <2>2, <2>4 DEF DecidedInv
<1>7. ASSUME NEW c \in flight, HandleImport(c) PROVE DecidedInv'
  BY ZenonT(40), <1>7, ImportCloses DEF DecidedInv
<1>8. CASE UNCHANGED workbenchVars
  BY <1>8 DEF workbenchVars, DecidedInv
<1> QED
  BY <1>1, <1>2, <1>3, <1>4, <1>5, <1>6, <1>7, <1>8, Steps

\* No refresh of the review queue brings back what was decided here; only the
\* answer to the upload or import that created a document may.
THEOREM DecidedDocumentsStayAway == WorkbenchSpec => DecidedStaysAway
<1> DEFINE Stays ==
      \A d \in mine : d \in board'.items \ board.items =>
        \E c \in flight \ flight' : c.kind \in {"upload", "import"} /\ c.doc = d
<1>1. WorkbenchInit => ScopeInv /\ ButtonInv /\ DecidedInv
  BY DEF WorkbenchInit, ScopeInv, CallsOfTheirScope, ButtonInv, OneCallOfAKind, Waiting, DecidedInv
<1>2. TypeInv /\ ScopeInv /\ ButtonInv /\ DecidedInv /\ [WorkbenchNext]_workbenchVars
        => TypeInv' /\ ScopeInv' /\ ButtonInv' /\ DecidedInv'
  BY TypeStep, ScopeStep, ButtonStep, DecidedStep
<1>3. TypeInv /\ DecidedInv /\ [WorkbenchNext]_workbenchVars => [Stays]_workbenchVars
  <2> SUFFICES ASSUME TypeInv, DecidedInv, [WorkbenchNext]_workbenchVars,
                      NEW d \in mine, d \in board'.items, d \notin board.items
               PROVE  \E c \in flight \ flight' :
                        c.kind \in {"upload", "import"} /\ c.doc = d
    OBVIOUS
  <2>0. board \in Board
    BY DEF TypeInv, WorkbenchTypeOK
  <2>1. ~\E s \in Scopes \cup {Nothing} : Edit(s)
    BY ClearedFields DEF Edit
  <2>2. ~Starts
    BY StartFields
  <2>3. board' # board
    OBVIOUS
  <2>4. /\ ~\E e \in Uploads : DecideElsewhere(e)
        /\ ~\E c \in flight : Serves(c)
        /\ ~UNCHANGED workbenchVars
    BY <2>3 DEF DecideElsewhere, Serves, ServeIntake, ServeDecision, ServeRead, ServeError,
                workbenchVars
  <2>5. ASSUME NEW c \in flight, Continues(c)
        PROVE  c \in flight \ flight' /\ c.kind \in {"upload", "import"} /\ c.doc = d
    <3> PICK a : Answers(c, a) /\ a.stage = "sent" /\ c.kind = "upload" /\ c.stage = "answered"
      BY <2>5, UploadContinues DEF Continues
    <3>1. board' = [board EXCEPT !.items = @ \cup {c.doc}]
      BY <2>5, UploadContinues DEF Continues
    <3>2. board'.items = board.items \cup {c.doc}
      BY <2>0, <3>1 DEF Board
    <3> QED
      BY <3>2 DEF Answers
  <2>6. ASSUME NEW c \in flight, Closes(c)
        PROVE  c \in flight \ flight' /\ c.kind \in {"upload", "import"} /\ c.doc = d
    <3>1. /\ c.kind # "import" /\ flight' = flight \ {c}
          /\ Current(c) /\ board' = Shown(c)
      BY <2>3, <2>6 DEF Closes
    <3>2. \/ c.kind = "upload" /\ d = c.doc
          \/ c.kind = "refresh" /\ d \in c.list
      BY <3>1, ShownFields
    <3> QED
      BY <3>1, <3>2 DEF DecidedInv, Current
  <2>7. ASSUME NEW c \in flight, HandleImport(c)
        PROVE  c \in flight \ flight' /\ c.kind \in {"upload", "import"} /\ c.doc = d
    BY ZenonT(40), <2>7, ImportCloses
  <2> QED
    BY <2>1, <2>2, <2>4, <2>5, <2>6, <2>7, Steps
<1> QED
  BY <1>1, <1>2, <1>3, TypeInit, PTL DEF WorkbenchSpec, DecidedStaysAway
=============================================================================
