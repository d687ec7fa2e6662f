------------------------------- MODULE Boards -------------------------------
(***************************************************************************)
(* The boards in the browser (src/components, app/page.tsx): windows that  *)
(* poll and stream a run's timeline, answer its gate, start runs, look at  *)
(* proofs, patches, recipes and sign-off, and operate on workflows, over   *)
(* requests whose replies may be late, overtake each other or be lost.     *)
(*                                                                         *)
(* The server is the little of it the boards depend on: what a run's row   *)
(* and its workflow say of it (ReadModels has the detail), gates, and the  *)
(* interaction ledger with its key (HitlLedger has the detail).            *)
(***************************************************************************)
EXTENDS Naturals, FiniteSets

CONSTANTS Windows,      \* browser windows
          Elsewhere,    \* windows of which only the gate cards are modelled
          Wids,         \* workflow ids, one per goal
          Fresh,        \* bound: the run to come; the others have ended
          Recipes,      \* recipe ids
          VersionsOf,   \* the versions each recipe has
          MaxActs,      \* bound: what people do, all together
          MaxInFlight,  \* bound: fetches of one timeline at a time
          MaxErrors     \* bound: lost requests, lost responses and failures

ASSUME BoardsAssumption ==
  /\ MaxActs \in Nat /\ MaxInFlight \in Nat \ {0} /\ MaxErrors \in Nat
  /\ Fresh \in Wids /\ Windows \cap Elsewhere = {}
  /\ Wids \cap Recipes = {} /\ {"none", "all", "error"} \cap (Wids \cup Recipes) = {}

VARIABLES
  status,   \* what the row of each run says, as a header status
  dbos,     \* what DBOS says of its workflow
  gate,     \* its gate
  answers,  \* app.human_interactions
  started,  \* the versions runs were started from at the registry
  page,     \* what each window shows: board and wid
  line,     \* TimelineLive
  card,     \* HitlGateCard
  panel,    \* the panels that fetch once
  drawer,   \* OpsActionDrawer
  chat,     \* ChatInput is waiting
  net,      \* requests in flight
  stray,    \* history: the interval of a timeline has been cleared, and the
            \* last word on the run was another one (Strays, Becomes)
  acts, errors
runVars == <<status, dbos, gate>>
serverVars == <<runVars, answers, started>>
viewVars == <<page, line, card, panel, drawer, chat>>
clientVars == <<viewVars, stray>>
vars == <<serverVars, clientVars, net, acts, errors>>

Ended == {"SUCCESS", "ERROR", "CANCELLED"}
HeaderStatus == Ended \cup {"absent", "ENQUEUED", "PENDING", "WAITING_INPUT"}
BoardNames == {"run", "proof", "patches", "signoff", "throughput", "hitl-inbox",
               "recipe", "ops"}
Ops == {"cancel", "resume", "fork"}
Choices == {"yes", "no"}

NoCard == [payload |-> "none", key |-> "default",
           loading |-> FALSE, note |-> "none"]
NoLine == [kind |-> "loading", of |-> "none", says |-> "none", gate |-> "none", poll |-> FALSE]
NoPanel == [key |-> "none", data |-> "none", says |-> "none",
            loading |-> FALSE, error |-> FALSE, starting |-> "none"]
NoDrawer == [open |-> FALSE, op |-> "none", reason |-> FALSE, busy |-> FALSE,
             error |-> FALSE]

GateStates == {"none", "PENDING", "RESOLVED", "TIMED_OUT"}
Ids == Wids \cup Recipes \cup {"none", "all"}
Texts == {"sent", "200", "replay", "404", "409", "500", "none"} \cup HeaderStatus \cup Wids
Versions == {"none"} \cup UNION {VersionsOf[p] : p \in Recipes}
Requests == [win : Windows \cup Elsewhere, to : {"state", "read", "reply", "op", "start"},
             id : Ids, arg : Choices \cup Ops \cup Versions \cup {"none"},
             key : {"none", "default", "own"}, live : BOOLEAN, reply : Texts, gate : GateStates]

TypeOK ==
  /\ status \in [Wids -> HeaderStatus] /\ dbos \in [Wids -> HeaderStatus]
  /\ gate \in [Wids -> GateStates]
  /\ answers \subseteq [wid : Wids, key : {"default", "own"}, payload : Choices \cup {"none"}]
  /\ started \subseteq Recipes \X Versions
  /\ page \in [Windows -> [board : BoardNames, wid : Wids]]
  /\ line \in [Windows -> [kind : {"loading", "error", "empty", "running", "waiting_input",
                                   "terminal"},
                           of : Wids \cup {"none"}, says : Texts, gate : GateStates,
                           poll : BOOLEAN]]
  /\ card \in [Windows -> [payload : Choices \cup {"none"}, key : {"default", "own"},
                           loading : BOOLEAN, note : {"none", "replay", "error"}]]
  /\ panel \in [Windows -> [key : Ids, data : Ids \cup {"error"}, says : Texts,
                            loading : BOOLEAN, error : BOOLEAN, starting : Versions]]
  /\ drawer \in [Windows -> [open : BOOLEAN, op : Ops \cup {"none"}, reason : BOOLEAN,
                             busy : BOOLEAN, error : BOOLEAN]]
  /\ chat \in [Windows -> BOOLEAN] /\ stray \in [Windows -> BOOLEAN]
  /\ net \subseteq Requests
  /\ acts \in 0..MaxActs /\ errors \in 0..MaxErrors

Req(b, to, id, arg, key) ==
  [win |-> b, to |-> to, id |-> id, arg |-> arg, key |-> key, live |-> TRUE,
   reply |-> "sent", gate |-> "none"]
Send(rs) == net' = net \cup rs
\* When a component is unmounted, nobody is there for what it read; what it
\* posted is done, but its answer is lost.
Forgotten(flying, b) ==
  {[r EXCEPT !.live = @ /\ (r.win # b \/ r.to = "start")] :
     r \in {q \in flying : q.win # b \/ q.to \notin {"state", "read"}}}
Act == acts < MaxActs /\ acts' = acts + 1
-----------------------------------------------------------------------------
(***************************************************************************)
(* The server.                                                             *)
(***************************************************************************)
\* What the header shows of a row and a workflow: what ranks higher.  DBOS's
\* PENDING maps to ENQUEUED, ERROR to nothing, and the row is the first to know
\* of a success, so DBOS prevails with a cancellation only.
HeaderOf(row, workflow) ==
  IF workflow = "CANCELLED" /\ row \notin Ended THEN "CANCELLED" ELSE row
Header(w) == HeaderOf(status[w], dbos[w])

\* The row and the workflow of a run come to say this.  A timeline whose interval
\* was cleared at the run's end need not hear of it.
Becomes(w, row, workflow) ==
  /\ status' = [status EXCEPT ![w] = row] /\ dbos' = [dbos EXCEPT ![w] = workflow]
  /\ stray' = [b \in Windows |->
       \/ stray[b]
       \/ /\ page[b] = [board |-> "run", wid |-> w] /\ ~line[b].poll
          /\ Header(w) \in Ended /\ HeaderOf(row, workflow) # Header(w)]

\* What a run's row says next.  It keeps a cancellation until the run has ended.
RowGoesOn == [absent |-> {}, ENQUEUED |-> {"PENDING"},
              PENDING |-> {"WAITING_INPUT", "SUCCESS", "ERROR"}, WAITING_INPUT |-> {},
              CANCELLED |-> {"SUCCESS", "ERROR"}, SUCCESS |-> {}, ERROR |-> {}]
AtWork(w) == dbos[w] \in {"PENDING", "CANCELLED"}

\* A run goes on: somebody starts it, it is dequeued, opens its gate once and ends,
\* in its row and then in DBOS; or it is found cancelled.
RunGoesOn(w) ==
  /\ \/ status[w] = "absent" /\ Becomes(w, "ENQUEUED", "ENQUEUED") /\ UNCHANGED gate
     \/ dbos[w] = "ENQUEUED" /\ Becomes(w, status[w], "PENDING") /\ UNCHANGED gate
     \/ /\ AtWork(w) /\ (status[w] = "CANCELLED" => dbos[w] = "PENDING")
        /\ \E s \in RowGoesOn[status[w]] :
             /\ s = "SUCCESS" => gate[w] = "RESOLVED"
             /\ s = "WAITING_INPUT" => gate[w] = "none"
             /\ s \in Ended => gate[w] # "PENDING"
             /\ Becomes(w, s, dbos[w])
             /\ gate' = IF s = "WAITING_INPUT" THEN [gate EXCEPT ![w] = "PENDING"] ELSE gate
     \/ /\ status[w] = "CANCELLED" /\ dbos[w] = "PENDING" /\ gate[w] = "none"
        /\ gate' = [gate EXCEPT ![w] = "PENDING"] /\ UNCHANGED <<status, dbos, stray>>
     \/ /\ AtWork(w) /\ status[w] \in {"SUCCESS", "ERROR"}
        /\ Becomes(w, status[w], status[w]) /\ UNCHANGED gate
     \/ /\ dbos[w] = "CANCELLED" /\ status[w] \in {"ENQUEUED", "PENDING", "WAITING_INPUT"}
        /\ Becomes(w, "CANCELLED", "CANCELLED") /\ UNCHANGED gate
  /\ UNCHANGED <<answers, started, viewVars, net, acts, errors>>

\* The gate takes an answer, or times out.
GateCloses(w) ==
  /\ gate[w] = "PENDING" /\ dbos[w] = "PENDING" /\ status[w] \in {"WAITING_INPUT", "CANCELLED"}
  /\ \/ /\ \E a \in answers : a.wid = w
        /\ gate' = [gate EXCEPT ![w] = "RESOLVED"]
        /\ Becomes(w, IF status[w] = "CANCELLED" THEN "CANCELLED" ELSE "PENDING", "PENDING")
     \/ gate' = [gate EXCEPT ![w] = "TIMED_OUT"] /\ Becomes(w, "ERROR", "PENDING")
  /\ UNCHANGED <<answers, started, viewVars, net, acts, errors>>

Answered(r, a) == net' = (net \ {r}) \cup {[r EXCEPT !.reply = a]}

\* GET /api/runs/:wid and the gates, which the timeline asks for together
\* (they are answered at one time here).
ServeState(r) ==
  /\ r.to = "state" /\ r.reply = "sent"
  /\ net' = (net \ {r}) \cup {[r EXCEPT !.gate = gate[r.id],
               !.reply = IF status[r.id] = "absent" THEN "404" ELSE Header(r.id)]}
  /\ UNCHANGED <<serverVars, clientVars, acts, errors>>

\* The reads of the panels; of a workflow's detail the status matters, which is
\* DBOS's.
ServeRead(r) ==
  /\ r.to = "read" /\ r.reply = "sent"
  /\ Answered(r, IF r.id \in Wids THEN dbos[r.id] ELSE "200")
  /\ UNCHANGED <<serverVars, clientVars, acts, errors>>

\* POST .../reply: the run's row must say that it waits; one row per key, which a request with
\* the same payload replays and any other conflicts with.
Recorded(r) == {a \in answers : a.wid = r.id /\ a.key = r.key}
ServeReply(r) ==
  /\ r.to = "reply" /\ r.reply = "sent"
  /\ LET bad == \/ status[r.id] # "WAITING_INPUT"
                \/ \E a \in Recorded(r) : a.payload # r.arg IN
     /\ answers' = IF bad THEN answers
                   ELSE answers \cup {[wid |-> r.id, key |-> r.key, payload |-> r.arg]}
     /\ Answered(r, IF bad THEN "409" ELSE IF Recorded(r) # {} THEN "replay" ELSE "200")
  /\ UNCHANGED <<runVars, started, clientVars, acts, errors>>

\* POST /api/ops/wf/:wid/:op: cancel and resume look at what DBOS says, fork not.
\* The row stays as it is; a resumed workflow is enqueued once more.
ServeOp(r) ==
  /\ r.to = "op" /\ r.reply = "sent"
  /\ LET ok == CASE r.arg = "cancel" -> dbos[r.id] \in {"ENQUEUED", "PENDING"}
                 [] r.arg = "resume" -> dbos[r.id] \in {"ENQUEUED", "CANCELLED"}
                 [] r.arg = "fork" -> TRUE IN
     /\ Answered(r, IF ok THEN "200" ELSE "409")
     /\ IF ok /\ r.arg # "fork"
          THEN Becomes(r.id, status[r.id], IF r.arg = "cancel" THEN "CANCELLED" ELSE "ENQUEUED")
          ELSE UNCHANGED <<status, dbos, stray>>
  /\ UNCHANGED <<gate, answers, started, viewVars, acts, errors>>

\* POST /api/run: the goal's run, or its replay; or a run of a recipe.
ServeStart(r) ==
  /\ r.to = "start" /\ r.reply = "sent"
  /\ \/ r.id \in Wids /\ Answered(r, r.id) /\ UNCHANGED started
        /\ IF status[r.id] = "absent" THEN Becomes(r.id, "ENQUEUED", "ENQUEUED")
           ELSE UNCHANGED <<status, dbos, stray>>
     \/ r.id \in Recipes /\ started' = started \cup {<<r.id, r.arg>>}
        /\ UNCHANGED <<status, dbos, stray>>
        /\ \E w \in Wids : Answered(r, IF r.arg \in VersionsOf[r.id] THEN w ELSE "404")
  /\ UNCHANGED <<gate, answers, viewVars, acts, errors>>

\* A request, or its response, is lost; or the server fails.  Of a read it does
\* not matter which.
Lose(r) ==
  /\ r.reply \in {"sent"} \cup IF r.to \in {"state", "read"} THEN {} ELSE {"200", "409"} \cup Wids
  /\ r.live /\ errors < MaxErrors /\ errors' = errors + 1
  /\ Answered(r, "500")
  /\ UNCHANGED <<serverVars, clientVars, acts>>
-----------------------------------------------------------------------------
(***************************************************************************)
(* The timeline of a run, and navigation.                                  *)
(***************************************************************************)
FetchState(b, w) == Req(b, "state", w, "none", "none")
Timelines(b) == {r \in net : r.win = b /\ r.to = "state" /\ r.live}

OnMount(b, board, w) ==
  CASE board = "run" -> {FetchState(b, w)}
    [] board \in {"proof", "patches"} -> {Req(b, "read", w, "none", "none")}
    [] board \in {"signoff", "throughput", "hitl-inbox"} -> {Req(b, "read", "all", "none", "none")}
    [] OTHER -> {}
FirstPanel(board, w) ==
  IF board \in {"run", "recipe", "ops"} THEN NoPanel
  ELSE [NoPanel EXCEPT !.loading = board # "hitl-inbox",
                       !.key = IF board \in {"proof", "patches"} THEN w ELSE "all"]

\* The window turns to a board and a run.  Within one board the component
\* stays and its effect runs again: requests in flight stay alive, the
\* timeline forgets its run, and a panel keeps its data and its error.
TurnTo(b, board, w, flying) ==
  LET same == board = page[b].board IN
  /\ page' = [page EXCEPT ![b] = [board |-> board, wid |-> w]]
  /\ net' = OnMount(b, board, w) \cup IF same THEN flying ELSE Forgotten(flying, b)
  /\ line' = [line EXCEPT ![b] = IF board # "run" THEN NoLine
                                 ELSE [NoLine EXCEPT !.poll = TRUE]]
  /\ card' = [card EXCEPT ![b] = NoCard]
  /\ panel' = [panel EXCEPT ![b] =
                 IF same /\ board \in {"proof", "patches"}
                   THEN [@ EXCEPT !.key = w, !.loading = TRUE]
                 ELSE FirstPanel(board, w)]
  /\ drawer' = [drawer EXCEPT ![b] = NoDrawer]
  /\ stray' = [stray EXCEPT ![b] = FALSE]

Navigate(b) ==
  /\ Act
  /\ \E board \in BoardNames, w \in Wids :
       /\ [board |-> board, wid |-> w] # page[b]
       /\ board \in {"run", "proof", "patches"} \/ w = page[b].wid
       /\ TurnTo(b, board, w, net)
  /\ UNCHANGED <<serverVars, chat, errors>>

\* The interval, a chunk of the status stream, and the retry button.
Fetch(b) ==
  /\ page[b].board = "run" /\ Cardinality(Timelines(b)) < MaxInFlight
  /\ Send({FetchState(b, page[b].wid)})
Poll(b) ==
  /\ line[b].poll /\ Fetch(b) /\ UNCHANGED <<serverVars, clientVars, acts, errors>>
\* The stream may break, and is not opened again: a chunk may come or not.
StreamChunk(b) ==
  /\ status[page[b].wid] # "absent" /\ Fetch(b)
  /\ UNCHANGED <<serverVars, clientVars, acts, errors>>
RetryFetch(b) ==
  /\ line[b].kind = "error" /\ Act /\ Fetch(b) /\ UNCHANGED <<serverVars, clientVars, errors>>

\* selectTimelineState.
TimelineKind(head) ==
  CASE head \in Ended -> "terminal"
    [] head = "WAITING_INPUT" -> "waiting_input"
    [] OTHER -> "running"

\* Mutant: an error ends the interval as well.
StopsOnError(kind) == kind \notin {"terminal", "error"}
\* What a reply does to the interval.
StillPolls(kind) == kind # "terminal"

\* A reply clears the interval, or comes after it was cleared, and is not what
\* the header says of the run that is shown: it is about another run, something
\* else has come to be said since it left the server, or it is a failure.
Strays(r) ==
  LET b == r.win IN
  /\ r.reply \in Ended \/ ~line[b].poll
  /\ r.id # page[b].wid \/ r.reply # Header(r.id)

\* The reply of fetchState, whatever run it was asked for.  At the end of a run
\* the interval is cleared, whichever run's it is by now.
ReceiveState(r) ==
  /\ r.to = "state" /\ r.live /\ r.reply # "sent"
  /\ LET b == r.win
         kind == CASE r.reply = "404" -> "empty" [] r.reply = "500" -> "error"
                   [] OTHER -> TimelineKind(r.reply)
         shown == kind \notin {"empty", "error"} IN
     /\ net' = net \ {r}
     /\ line' = [line EXCEPT ![b].kind = kind,
                             ![b].of = IF shown THEN r.id ELSE "none",
                             ![b].says = IF shown THEN r.reply ELSE "none",
                             ![b].gate = IF shown THEN r.gate ELSE "none",
                             ![b].poll = @ /\ StillPolls(kind)]
     /\ card' = IF shown /\ r.gate # "none" /\ line[b].of = r.id /\ line[b].gate # "none"
                  THEN card ELSE [card EXCEPT ![b] = NoCard]
     /\ drawer' = IF shown THEN drawer
                  ELSE [drawer EXCEPT ![b].reason = FALSE, ![b].busy = FALSE, ![b].error = FALSE]
     /\ stray' = [stray EXCEPT ![b] = @ \/ Strays(r)]
  /\ UNCHANGED <<serverVars, page, panel, chat, acts, errors>>
-----------------------------------------------------------------------------
(***************************************************************************)
(* The gate card.  Its key is made of the run, the gate and the time the   *)
(* gate was opened, the same in every window.                              *)
(***************************************************************************)
CardOpen(b) == page[b].board = "run" /\ line[b].gate = "PENDING"

EditAnswer(b) ==
  /\ CardOpen(b) /\ Act
  /\ \E c \in Choices : c # card[b].payload /\ card' = [card EXCEPT ![b].payload = c]
  /\ UNCHANGED <<serverVars, page, line, panel, drawer, chat, stray, net, errors>>
EditKey(b) ==
  /\ CardOpen(b) /\ card[b].key = "default" /\ Act
  /\ card' = [card EXCEPT ![b].key = "own"]
  /\ UNCHANGED <<serverVars, page, line, panel, drawer, chat, stray, net, errors>>

\* Mutant: a key for each window.
KeyPerWindow(b) == b
DefaultKey(b) == "default"
KeyOf(b) == IF card[b].key = "own" THEN "own" ELSE DefaultKey(b)

SubmitAnswer(b) ==
  /\ CardOpen(b) /\ ~card[b].loading /\ Act
  /\ Send({Req(b, "reply", page[b].wid, card[b].payload, KeyOf(b))})
  /\ card' = [card EXCEPT ![b].loading = TRUE, ![b].note = "none"]
  /\ UNCHANGED <<serverVars, page, line, panel, drawer, chat, stray, errors>>

AnswerElsewhere(b) ==
  /\ Act
  /\ \E w \in Wids, c \in Choices :
       gate[w] # "none" /\ Send({[Req(b, "reply", w, c, DefaultKey(b)) EXCEPT !.live = FALSE]})
  /\ UNCHANGED <<serverVars, clientVars, errors>>

\* A refusal or a failure is shown and leaves payload and key; a success asks
\* for the state.
ReceiveReply(r) ==
  /\ r.to = "reply" /\ r.live /\ r.reply # "sent"
  /\ LET b == r.win  good == r.reply \in {"200", "replay"} IN
     /\ card' = [card EXCEPT ![b].loading = FALSE,
                 ![b].note = IF r.reply = "200" THEN "none"
                             ELSE IF good THEN "replay" ELSE "error"]
     /\ net' = (net \ {r}) \cup IF good THEN {FetchState(b, r.id)} ELSE {}
  /\ UNCHANGED <<serverVars, page, line, panel, drawer, chat, stray, acts, errors>>
-----------------------------------------------------------------------------
(***************************************************************************)
(* Panels.  Each shows a spinner, an error or data, and has its own way    *)
(* with a reply.                                                           *)
(***************************************************************************)
Good(r) == r.reply # "500"

ProofPanel(p, r) ==
  [p EXCEPT !.loading = FALSE, !.error = @ \/ ~Good(r), !.data = IF Good(r) THEN r.id ELSE @]
PatchReviewPanel(p, r) == ProofPanel(p, r)
SignoffBoard(p, r) == ProofPanel(p, r)
\* A failure is logged and the old data stay.
ThroughputBoard(p, r) ==
  [p EXCEPT !.loading = FALSE, !.data = IF Good(r) THEN r.id ELSE @]
OpsBoard(p, r) ==
  [p EXCEPT !.loading = FALSE, !.data = IF Good(r) THEN r.id ELSE @,
            !.says = IF Good(r) THEN r.reply ELSE @]
HitlInboxBoard(p, r) == [p EXCEPT !.error = ~Good(r), !.data = IF Good(r) THEN r.id ELSE @]
\* The body becomes the list whatever the status was.
RecipeRegistryBoard(p, r) ==
  [p EXCEPT !.loading = FALSE, !.data = IF Good(r) THEN r.id ELSE "error"]

Updated(board, p, r) ==
  CASE board = "proof" -> ProofPanel(p, r)
    [] board = "patches" -> PatchReviewPanel(p, r)
    [] board = "signoff" -> SignoffBoard(p, r)
    [] board = "throughput" -> ThroughputBoard(p, r)
    [] board = "hitl-inbox" -> HitlInboxBoard(p, r)
    [] board = "ops" -> OpsBoard(p, r)
    [] board = "recipe" -> RecipeRegistryBoard(p, r)

ReceiveRead(r) ==
  /\ r.to = "read" /\ r.live /\ r.reply # "sent" /\ net' = net \ {r}
  /\ panel' = [panel EXCEPT ![r.win] = Updated(page[r.win].board, @, r)]
  /\ UNCHANGED <<serverVars, page, line, card, drawer, chat, stray, acts, errors>>

\* A row of the registry or of the ops console is selected.
Select(b) ==
  /\ Act
  /\ \E id \in CASE page[b].board = "recipe" -> Recipes
                [] page[b].board = "ops" -> {w \in Wids : status[w] # "absent"}
                [] OTHER -> {} :
       /\ id # panel[b].key
       /\ panel' = [panel EXCEPT ![b].key = id, ![b].loading = TRUE]
       /\ Send({Req(b, "read", id, "none", "none")})
  /\ UNCHANGED <<serverVars, page, line, card, drawer, chat, stray, errors>>

\* The refresh buttons and the inbox's interval.
Refresh(b) ==
  /\ page[b].board \in {"ops", "throughput", "hitl-inbox"} /\ panel[b].key # "none" /\ Act
  /\ panel' = IF page[b].board = "hitl-inbox" THEN [panel EXCEPT ![b].error = FALSE]
              ELSE [panel EXCEPT ![b].loading = TRUE]
  /\ Send({Req(b, "read", panel[b].key, "none", "none")})
  /\ UNCHANGED <<serverVars, page, line, card, drawer, chat, stray, errors>>

\* Mutant: of the selected recipe rather than of the row.
RowOfSelection(b) == panel[b].key
RowOf(b) == panel[b].data

StartVersion(b) ==
  /\ page[b].board = "recipe" /\ panel[b].data \in Recipes /\ ~panel[b].loading /\ Act
  /\ \E v \in VersionsOf[panel[b].data] :
       /\ v # panel[b].starting /\ panel' = [panel EXCEPT ![b].starting = v]
       /\ Send({Req(b, "start", RowOf(b), v, "none")})
  /\ UNCHANGED <<serverVars, page, line, card, drawer, chat, stray, errors>>

\* ChatInput: one goal at a time.
RunGoal(b) ==
  /\ ~chat[b] /\ Act /\ chat' = [chat EXCEPT ![b] = TRUE]
  /\ \E w \in Wids : Send({Req(b, "start", w, "none", "none")})
  /\ UNCHANGED <<serverVars, page, line, card, panel, drawer, stray, errors>>

\* The window turns to the run that was started; a failure changes nothing.
ReceiveStart(r) ==
  /\ r.to = "start" /\ r.reply # "sent"
  /\ chat' = IF r.id \in Wids THEN [chat EXCEPT ![r.win] = FALSE] ELSE chat
  /\ IF r.reply \in Wids
       THEN TurnTo(r.win, "run", r.reply, net \ {r})
       ELSE /\ net' = net \ {r} /\ panel' = [panel EXCEPT ![r.win].starting = "none"]
            /\ UNCHANGED <<page, line, card, drawer, stray>>
  /\ UNCHANGED <<serverVars, acts, errors>>
-----------------------------------------------------------------------------
(***************************************************************************)
(* The drawer of operations, in the timeline and in the ops console.       *)
(***************************************************************************)
\* The workflow the drawer is for, and what is shown as its status.
Subject(b) == IF page[b].board = "run" THEN page[b].wid ELSE panel[b].key
Said(b) == CASE page[b].board = "run" -> line[b].says
             [] page[b].board = "ops" -> IF panel[b].loading THEN "none" ELSE panel[b].says
             [] OTHER -> "none"

Offered(says) ==
  {op \in Ops : says \in CASE op = "cancel" -> {"PENDING", "ENQUEUED"}
                           [] op = "resume" -> {"CANCELLED", "ENQUEUED"}
                           [] op = "fork" -> {"SUCCESS", "ERROR"}}
\* The drawer is there; in the timeline it goes with the timeline.
HasDrawer(b) == page[b].board = "ops" \/ line[b].says # "none"

OpenDrawer(b) ==
  /\ Act
  /\ page[b].board = "ops" \/ drawer[b].op = "none"
  /\ \E op \in Offered(Said(b)) :
       drawer' = [drawer EXCEPT ![b].open = TRUE, ![b].op = op]
  /\ UNCHANGED <<serverVars, page, line, card, panel, chat, stray, net, errors>>

\* The timeline forgets the operation as well; what was typed stays.
Closed(b) == [drawer EXCEPT ![b].open = FALSE,
                            ![b].op = IF page[b].board = "run" THEN "none" ELSE @]

CloseDrawer(b) ==
  /\ drawer[b].open /\ HasDrawer(b) /\ Act /\ drawer' = Closed(b)
  /\ UNCHANGED <<serverVars, page, line, card, panel, chat, stray, net, errors>>

\* A reason is required; the drawer keeps it for the next operation.
Confirm(b) ==
  /\ drawer[b].open /\ HasDrawer(b) /\ ~drawer[b].busy /\ Act
  /\ \/ drawer' = [drawer EXCEPT ![b].reason = TRUE, ![b].busy = TRUE, ![b].error = FALSE]
        /\ Send({Req(b, "op", Subject(b), drawer[b].op, "none")})
     \/ ~drawer[b].reason /\ drawer' = [drawer EXCEPT ![b].error = TRUE] /\ UNCHANGED net
  /\ UNCHANGED <<serverVars, page, line, card, panel, chat, stray, errors>>

\* A success asks for the state of what was operated on, and closes whatever
\* the drawer has come to show.
ReceiveOp(r) ==
  /\ r.to = "op" /\ r.live /\ r.reply # "sent"
  /\ LET b == r.win  good == r.reply = "200" IN
     /\ drawer' = IF good THEN [Closed(b) EXCEPT ![b].busy = FALSE]
                  ELSE [drawer EXCEPT ![b].busy = FALSE, ![b].error = TRUE]
     /\ net' = (net \ {r}) \cup
               IF ~good THEN {}
               ELSE IF page[b].board = "run" THEN {FetchState(b, r.id)}
               ELSE {Req(b, "read", r.id, "none", "none")}
     /\ panel' = IF good /\ page[b].board = "ops" THEN [panel EXCEPT ![b].loading = TRUE]
                 ELSE panel
  /\ UNCHANGED <<serverVars, page, line, card, chat, stray, acts, errors>>

\* Nobody is there for the reply.
Drop(r) ==
  /\ ~r.live /\ r.reply # "sent" /\ net' = net \ {r}
  /\ UNCHANGED <<serverVars, clientVars, acts, errors>>
-----------------------------------------------------------------------------
\* Windows that show some board, for a run that has ended, or one that is to come
\* or was cancelled; in the registry and in the ops console somebody has selected
\* a row.
Selected(p) ==
  CASE p.board = "recipe" -> Recipes
    [] p.board = "ops" -> {Fresh}
    [] OTHER -> {FirstPanel(p.board, p.wid).key}

ToCome ==
  LET s == IF \E b \in Windows : page[b].board = "ops" THEN "ENQUEUED" ELSE "absent" IN
  [row |-> s, workflow |-> s, gate |-> "none"]
CutShort ==
  {[row |-> "ENQUEUED", workflow |-> "CANCELLED", gate |-> "none"],
   [row |-> "WAITING_INPUT", workflow |-> "CANCELLED", gate |-> "PENDING"],
   [row |-> "CANCELLED", workflow |-> "CANCELLED", gate |-> "none"]}

Init ==
  /\ page \in [Windows -> [board : BoardNames, wid : Wids]]
  /\ \E fresh \in {ToCome} \cup CutShort :
       /\ status = [w \in Wids |-> IF w = Fresh THEN fresh.row ELSE "SUCCESS"]
       /\ dbos = [w \in Wids |-> IF w = Fresh THEN fresh.workflow ELSE "SUCCESS"]
       /\ gate = [w \in Wids |-> IF w = Fresh THEN fresh.gate ELSE "RESOLVED"]
  /\ answers = {} /\ started = {}
  /\ line = [b \in Windows |-> [NoLine EXCEPT !.poll = page[b].board = "run"]]
  /\ card = [b \in Windows |-> NoCard]
  /\ \E id \in [Windows -> Wids \cup Recipes \cup {"none", "all"}] :
       /\ \A b \in Windows : id[b] \in Selected(page[b])
       /\ panel = [b \in Windows |->
                     [FirstPanel(page[b].board, page[b].wid) EXCEPT !.key = id[b],
                        !.loading = @ \/ page[b].board \in {"recipe", "ops"}]]
       /\ net = UNION {IF page[b].board \in {"recipe", "ops"}
                         THEN {Req(b, "read", id[b], "none", "none")}
                         ELSE OnMount(b, page[b].board, page[b].wid) : b \in Windows}
  /\ drawer = [b \in Windows |-> NoDrawer] /\ chat = [b \in Windows |-> FALSE]
  /\ stray = [b \in Windows |-> FALSE] /\ acts = 0 /\ errors = 0

Serve(r) == ServeState(r) \/ ServeRead(r) \/ ServeReply(r)
              \/ ServeOp(r) \/ ServeStart(r)
Receive(r) == ReceiveState(r) \/ ReceiveRead(r) \/ ReceiveReply(r) \/ ReceiveStart(r)
                \/ ReceiveOp(r) \/ Drop(r)
Person(b) ==
  \/ Navigate(b) \/ RetryFetch(b) \/ EditAnswer(b) \/ EditKey(b) \/ SubmitAnswer(b)
  \/ Select(b) \/ Refresh(b) \/ StartVersion(b) \/ RunGoal(b)
  \/ OpenDrawer(b) \/ CloseDrawer(b) \/ Confirm(b)

Next ==
  \/ \E w \in Wids : RunGoesOn(w) \/ GateCloses(w)
  \/ \E r \in net : Serve(r) \/ Receive(r) \/ Lose(r)
  \/ \E b \in Windows : Poll(b) \/ StreamChunk(b) \/ Person(b)
  \/ \E b \in Elsewhere : AnswerElsewhere(b)

\* The interval fires, and requests to each service are answered and received;
\* people and runs need not do anything.
Spec ==
  /\ Init /\ [][Next]_vars
  /\ \A b \in Windows :
       /\ WF_vars(Poll(b))
       /\ WF_vars(\E r \in net : r.win = b /\ ServeState(r))
       /\ WF_vars(\E r \in net : r.win = b /\ ReceiveState(r))
-----------------------------------------------------------------------------
\* What is on its way fits the window it comes from and what it asks for: no
\* panel's read reaches a timeline, the reply of an operation finds a timeline
\* only if it was for a run, and a start of a recipe names one of its versions.
RequestFits(r) ==
  /\ r.win \in Windows \/ (r.to = "reply" /\ ~r.live)
  /\ r.to = "state" => r.id \in Wids
  /\ r.to = "read" => page[r.win].board # "run"
  /\ r.to = "reply" => r.id \in Wids /\ r.key # "none" /\ r.arg \in Choices \cup {"none"}
  /\ r.to = "op" /\ r.live /\ page[r.win].board = "run" => r.id \in Wids
  /\ r.to = "start" => r.id \in Wids \/ (r.id \in Recipes /\ r.arg \in VersionsOf[r.id])
RequestsFit == \A r \in net : RequestFits(r)

\* However often, from however many windows and with whatever failures a gate
\* is answered, it gets one answer, unless somebody edits the key: a key has one
\* payload.
OneAnswerPerGate ==
  /\ \A a, c \in answers : a.wid = c.wid /\ a.key = c.key => a.payload = c.payload
  /\ \A a, c \in answers :
       a.wid = c.wid /\ "own" \notin {a.key, c.key} => a.payload = c.payload

\* What the registry starts exists: the version is of the recipe of the row it is
\* started from, even when that row came late and another recipe is selected.
StartsWhatIsThere ==
  /\ TypeOK /\ RequestsFit
  /\ \A s \in started : s[2] \in VersionsOf[s[1]]

\* A window that stays with a run comes to show how it ended, unless what cleared
\* its interval, or came later, was about another run, overtaken or a failure, or
\* the run went on from the end that was shown.
EndIsShown ==
  \A b \in Windows, w \in Wids :
    LET on == page[b] = [board |-> "run", wid |-> w] IN
    on /\ Header(w) \in Ended
      ~> ~on \/ stray[b] \/ (line[b].of = w /\ line[b].says = Header(w))
=============================================================================
