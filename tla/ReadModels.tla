----------------------------- MODULE ReadModels -----------------------------
(***************************************************************************)
(* The views people are shown (src/server/run-view.ts, gate-view.ts,       *)
(* ui-api.ts, signoff-api.ts and src/lib/repro.ts).  None is read in one   *)
(* transaction: a view puts together what several queries found, of two    *)
(* databases and of files, while runs go on.                               *)
(*                                                                         *)
(* A reader reads one view, part by part; between two parts the world may  *)
(* move.  The world moves as the workflows move it: only what the view     *)
(* reads is in it, and the workflows themselves are in other modules.      *)
(***************************************************************************)
EXTENDS Naturals, Sequences, FiniteSets

Views == {"header", "proofs", "steps", "gate", "repro", "signoff"}

CONSTANTS MaxMoves,    \* bound: moves of the world, by view
          MaxReads     \* bound: reads, by view

ASSUME ReadModelsAssumption == MaxMoves \in [Views -> Nat] /\ MaxReads \in [Views -> Nat]

VARIABLES watch,   \* the view that is read
          saw,     \* the worlds since the read began, the present one last
          got,     \* what the read has found, by part
          moves,
          shown    \* what the reads showed, each with the worlds it spans
readVars == <<watch, saw, got, moves, shown>>

world == saw[Len(saw)]
Reading == got # <<>>
MayRead == Len(shown) < MaxReads[watch]
Move(w) ==
  /\ moves < MaxMoves[watch] /\ MayRead /\ moves' = moves + 1
  /\ saw' = Append(IF Reading THEN saw ELSE <<>>, w)
  /\ UNCHANGED <<watch, got, shown>>

-----------------------------------------------------------------------------
(* The run: its row in app.runs and its workflow in the DBOS database.     *)
RowNext == [queued |-> {"running"}, running |-> {"waiting_input", "succeeded", "failed"},
            waiting_input |-> {"running", "failed"}, canceled |-> {"succeeded", "failed"},
            repairing |-> {"waiting_input", "succeeded", "failed"},
            succeeded |-> {}, failed |-> {}]
RunEnded == {"succeeded", "failed", "canceled"}
SeesRun == watch \in {"header", "proofs", "signoff"}
RunWrites ==
  /\ SeesRun /\ (world.dbos \in {"PENDING", "CANCELLED"} \/ world.row = "repairing")
  /\ (world.row = "canceled" => world.dbos = "PENDING")
  /\ \E r \in RowNext[world.row] : Move([world EXCEPT !.row = r])
\* The workflow returns, or throws again what it has written in the row.
RunEnds ==
  /\ SeesRun /\ world.dbos \in {"PENDING", "CANCELLED"} /\ world.row \in {"succeeded", "failed"}
  /\ Move([world EXCEPT !.dbos = IF world.row = "succeeded" THEN "SUCCESS" ELSE "ERROR"])
Dequeue == SeesRun /\ world.dbos = "ENQUEUED" /\ Move([world EXCEPT !.dbos = "PENDING"])
CancelRun ==
  SeesRun /\ world.dbos \in {"ENQUEUED", "PENDING"} /\ Move([world EXCEPT !.dbos = "CANCELLED"])
\* An executor finds out and writes canceled.
CancelNoticed ==
  /\ SeesRun /\ world.dbos = "CANCELLED" /\ world.row \notin RunEnded
  /\ Move([world EXCEPT !.row = "canceled"])
ResumeRun ==
  /\ SeesRun /\ world.dbos = "CANCELLED"
  /\ Move([world EXCEPT !.dbos = "ENQUEUED", !.reopened = @ + 1])
\* The repair workflow is another one: that of the run stays where it was.
RepairBegins ==
  /\ SeesRun /\ world.dbos = "ERROR" /\ world.row = "failed"
  /\ Move([world EXCEPT !.row = "repairing", !.reopened = @ + 1])

(* Its steps: rows of run_steps, artifacts, completed calls of DBOS.       *)
StepKeys == {<<"CompileST", 1>>, <<"CompileST", 2>>}
Blames == {<<"BUDGET", 1>>, <<"BUDGET", 2>>}
SeesSteps == watch \in {"steps", "proofs"}
SaveStep ==
  \E k \in StepKeys \ world.rows : SeesSteps /\ Move([world EXCEPT !.rows = @ \cup {k}])
SaveArtifact ==
  \E k \in (StepKeys \cup Blames) \ world.arts :
    SeesSteps /\ Move([world EXCEPT !.arts = @ \cup {k}])
\* DBOS logs a step under the name of its function.
LogCall ==
  \E c \in {"compile"} \ world.calls : SeesSteps /\ Move([world EXCEPT !.calls = @ \cup {c}])

(* A gate: its row, then the prompt, result and decision events.           *)
GateNext == [none |-> {"opened"}, opened |-> {"PENDING"}, PENDING |-> {"RECEIVED", "TIMED_OUT"},
             RECEIVED |-> {"RESOLVED"}, TIMED_OUT |-> {"EXPIRED"}, RESOLVED |-> {}, EXPIRED |-> {}]
GateMoves == \E g \in GateNext[world.gate] : watch = "gate" /\ Move([world EXCEPT !.gate = g])

(* The workflows a run gave rise to.  An escalation, started from a step,  *)
(* need not name the run's workflow as its parent.                         *)
Parent == [task |-> "wf", sub |-> "task", esc |-> "-", escsub |-> "esc",
           other |-> "-", stray |-> "other"]
Kids(ids, born) == {c \in born : Parent[c] \in ids}
WorkflowBorn ==
  \E c \in DOMAIN Parent \ world.born :
    /\ watch = "repro" /\ Parent[c] \in world.born \cup {"wf", "-"}
    /\ c = "esc" => world.gates
    /\ Move([world EXCEPT !.born = @ \cup {c}])
SaveSbxRun ==
  watch = "repro" /\ "task" \in world.born /\ ~world.sbx /\ Move([world EXCEPT !.sbx = TRUE])
OpenGateRow == watch = "repro" /\ ~world.gates /\ Move([world EXCEPT !.gates = TRUE])

(* What a sign-off rests on.                                               *)
Tiles == {"pf", "proof"}
TileFiles == {"missing", "malformed", "red", "stale", "bare", "green"}
WriteTile ==
  \E t \in Tiles : \E f \in TileFiles \ {world.tiles[t]} :
    watch = "signoff" /\ Move([world EXCEPT !.tiles[t] = f])
\* emitBudgetArtifact writes the outcome "blocked"; after a day it is not read.
BudgetBroken ==
  \E o \in {"none", "blocked"} \ {world.outcome} :
    watch = "signoff" /\ Move([world EXCEPT !.outcome = o])
ReceiptTwice == watch = "signoff" /\ ~world.twice /\ Move([world EXCEPT !.twice = TRUE])

NewWorld == [row |-> "queued", dbos |-> "ENQUEUED", reopened |-> 0, rows |-> {}, arts |-> {},
             calls |-> {}, gate |-> "none", born |-> {}, sbx |-> FALSE, gates |-> FALSE,
             tiles |-> [t \in Tiles |-> "green"], outcome |-> "none", twice |-> FALSE,
             posture |-> TRUE]
RunMoves == RunWrites \/ RunEnds \/ Dequeue \/ CancelRun \/ CancelNoticed \/ ResumeRun
              \/ RepairBegins
WorldMoves == RunMoves \/ SaveStep \/ SaveArtifact \/ LogCall \/ GateMoves \/ WorkflowBorn
                \/ SaveSbxRun \/ OpenGateRow \/ WriteTile \/ BudgetBroken \/ ReceiptTwice

-----------------------------------------------------------------------------
(* The queries of a view, in order; those of one set are sent together.    *)
Queries ==
  [header  |-> <<{"row"}, {"dbos"}>>,
   proofs  |-> <<{"row"}, {"rows", "arts", "dbos"}>>,
   steps   |-> <<{"calls", "rows", "arts"}>>,
   gate    |-> <<{"openGate"}, {"prompt", "result", "decision"}>>,
   repro   |-> <<{"sbx", "gates"}>>,
   signoff |-> <<Tiles, {"posture"}, {"violation"}, {"twice"}, {"failures"}, {"succeeded"},
                 {"dbos"}>>]
eventOf(w, key) ==
  CASE key = "prompt" -> w.gate \notin {"none", "opened"}
    [] key = "decision" -> w.gate \in {"RESOLVED", "EXPIRED"}
    [] key = "result" -> IF w.gate \in {"RECEIVED", "RESOLVED"} THEN "RECEIVED"
                         ELSE IF w.gate \in {"TIMED_OUT", "EXPIRED"} THEN "TIMED_OUT" ELSE "none"
Found(w, q) ==
  CASE q \in Tiles -> w.tiles[q]
    [] q \in {"prompt", "result", "decision"} -> eventOf(w, q)
    [] q = "openGate" -> w.gate # "none"
    [] q = "violation" -> w.outcome = "VIOLATION"
    [] q = "failures" -> w.row \in {"failed", "retries_exceeded"}
    [] q = "succeeded" -> w.row = "succeeded"
    [] OTHER -> w[q]
Asks(q) ==
  \E i \in DOMAIN Queries[watch] :
    /\ q \in Queries[watch][i] \ DOMAIN got
    /\ \A j \in 1..(i - 1) : Queries[watch][j] \subseteq DOMAIN got
NoGate == watch = "gate" /\ "openGate" \in DOMAIN got /\ ~got.openGate
Complete == NoGate \/ (Reading /\ \A q \in UNION {Queries[watch][i] : i \in DOMAIN Queries[watch]} :
                                    q \in DOMAIN got)
Keep(found) ==
  /\ got' = [q \in DOMAIN found \cup DOMAIN got |->
               IF q \in DOMAIN found THEN found[q] ELSE got[q]]
  /\ saw' = IF Reading THEN saw ELSE <<world>>
  /\ UNCHANGED <<watch, moves, shown>>

Answer(q) == MayRead /\ ~NoGate /\ Asks(q) /\ Keep([p \in {q} |-> Found(world, q)])
\* What DBOS does not tell is left out.
AnswerFails(q) ==
  /\ MayRead /\ watch \in {"header", "proofs", "steps"} /\ q \in {"dbos", "calls"}
  /\ Asks(q) /\ Keep([p \in {q} |-> IF q = "dbos" THEN "unknown" ELSE {}])

(* discoverDbosWorkflowScope: from the ids the rows of the run name, the   *)
(* children of the last ones found, query by query.                        *)
RowIds == {"wf"} \cup (IF got.sbx THEN {"task"} ELSE {}) \cup (IF got.gates THEN {"esc"} ELSE {})
Known == IF "ids" \in DOMAIN got THEN got.ids ELSE RowIds
Frontier == IF "ids" \in DOMAIN got THEN got.frontier ELSE RowIds
discoverDbosWorkflowScope ==
  /\ watch = "repro" /\ Complete /\ Frontier # {}
  /\ LET kids == Kids(Frontier, world.born) \ Known
     IN Keep([ids |-> Known \cup kids, frontier |-> kids])

-----------------------------------------------------------------------------
(* The projections.                                                        *)
mapRunStatus == [queued |-> "ENQUEUED", running |-> "PENDING", waiting_input |-> "WAITING_INPUT",
                 succeeded |-> "SUCCESS", failed |-> "ERROR", canceled |-> "CANCELLED",
                 repairing |-> "PENDING"]
HeaderEnded == {"SUCCESS", "ERROR", "CANCELLED"}
DBOS_TO_HEADER_STATUS == [PENDING |-> "ENQUEUED", ENQUEUED |-> "ENQUEUED",
                          SUCCESS |-> "SUCCESS", CANCELLED |-> "CANCELLED"]
HEADER_STATUS_RANK == [ENQUEUED |-> 1, PENDING |-> 2, WAITING_INPUT |-> 3,
                       SUCCESS |-> 4, ERROR |-> 4, CANCELLED |-> 4]
mergeRunHeaderStatusWithDbos(status, dbos) ==
  IF /\ dbos \in DOMAIN DBOS_TO_HEADER_STATUS
     /\ HEADER_STATUS_RANK[DBOS_TO_HEADER_STATUS[dbos]] > HEADER_STATUS_RANK[status]
  THEN DBOS_TO_HEADER_STATUS[dbos] ELSE status
projectRunHeader(f) == mergeRunHeaderStatusWithDbos(mapRunStatus[f.row], f.dbos)

projectProofCards(f) ==
  {<<"app", f.row>>} \cup (IF f.dbos = "unknown" THEN {} ELSE {<<"dbos", f.dbos>>})
    \cup {<<"step", k>> : k \in f.rows} \cup {<<"artifact", k>> : k \in f.arts}

\* A line per row with the artifacts of its attempt, one per attempt a budget
\* was broken in, one per call of DBOS no line is named after.
Line(id, attempt, arts) == [id |-> id, attempt |-> attempt, arts |-> arts]
projectStepRows(f) ==
  {Line(k[1], k[2], {k} \cap f.arts) : k \in f.rows}
    \cup {Line(k[1], k[2], {k}) : k \in (f.arts \cap Blames) \ f.rows}
getStepRows(f) ==
  LET lines == projectStepRows(f)
  IN lines \cup {Line(c, 1, {}) : c \in f.calls \ {l.id : l \in lines}}

\* Mutant: a decision is taken for an answer; a gate that times out has one too.
GateViewByDecision(f) ==
  IF NoGate \/ ~f.prompt THEN "null"
  ELSE IF f.decision THEN "RESOLVED"
  ELSE IF f.result = "none" THEN "PENDING" ELSE f.result
projectGateView(f) ==
  IF NoGate \/ ~f.prompt THEN "null"
  ELSE IF f.result = "TIMED_OUT" THEN "TIMED_OUT"
  ELSE IF f.result = "RECEIVED" THEN IF f.decision THEN "RESOLVED" ELSE "RECEIVED"
  ELSE "PENDING"

\* A tile whose file is missing, malformed or of another build is NO_GO, and
\* so is one without evidence, whatever it says.
normalizeLoadedTile(file) ==
  [verdict |-> IF file \in {"green", "bare"} THEN "GO" ELSE "NO_GO", bare |-> file = "bare"]
finalizeMandatoryTiles(f) ==
  [t \in Tiles |-> IF normalizeLoadedTile(f[t]).bare THEN "NO_GO"
                   ELSE normalizeLoadedTile(f[t]).verdict]
falseGreen(f) == \E t \in Tiles : normalizeLoadedTile(f[t]).bare
terminalDivergence(f) == f.succeeded /\ f.dbos # "SUCCESS"
Triggers(f) ==
  {~f.posture, f.violation, f.twice, f.failures, terminalDivergence(f), falseGreen(f)}
getSignoffBoard(f) ==
  IF TRUE \notin Triggers(f) /\ \A t \in Tiles : finalizeMandatoryTiles(f)[t] = "GO"
  THEN "GO" ELSE "NO_GO"

View(f) ==
  CASE watch = "header" -> projectRunHeader(f)   [] watch = "proofs" -> projectProofCards(f)
    [] watch = "steps" -> getStepRows(f)         [] watch = "gate" -> projectGateView(f)
    [] watch = "repro" -> f.ids                  [] watch = "signoff" -> getSignoffBoard(f)
Show ==
  /\ MayRead /\ Complete /\ (watch = "repro" => Frontier = {})
  /\ shown' = Append(shown, [view |-> View(got), span |-> saw,
                             blind |-> "dbos" \in DOMAIN got /\ got.dbos = "unknown"])
  /\ got' = <<>> /\ saw' = <<world>> /\ UNCHANGED <<watch, moves>>

ReadIdle == watch = "none" /\ saw = <<NewWorld>> /\ got = <<>> /\ moves = 0 /\ shown = <<>>
\* A read may meet any tile, a gate at any point, a run that waits or failed.
ReadInit ==
  /\ watch \in Views /\ got = <<>> /\ moves = 0 /\ shown = <<>>
  /\ \/ saw = <<NewWorld>>
     \/ /\ SeesRun
        /\ saw = <<[NewWorld EXCEPT !.row = "waiting_input", !.dbos = "PENDING"]>>
     \/ /\ SeesRun
        /\ saw = <<[NewWorld EXCEPT !.row = "failed", !.dbos = "ERROR"]>>
     \/ /\ watch = "signoff"
        /\ \E file \in TileFiles, p \in BOOLEAN :
          saw = <<[NewWorld EXCEPT !.row = "succeeded", !.dbos = "PENDING",
                                   !.tiles["pf"] = file, !.posture = p]>>
AllQueries == UNION {UNION {Queries[v][i] : i \in DOMAIN Queries[v]} : v \in Views}
Reads ==
  \/ \E q \in AllQueries : Answer(q) \/ AnswerFails(q)
  \/ discoverDbosWorkflowScope \/ Show
ReadsStep == watch # "none" /\ (WorldMoves \/ Reads)
ReadsSpec == ReadInit /\ [][ReadsStep]_readVars

-----------------------------------------------------------------------------
RowStates == DOMAIN RowNext
DbosStates == {"ENQUEUED", "PENDING", "CANCELLED", "SUCCESS", "ERROR"}
Worlds == [row : RowStates, dbos : DbosStates, reopened : Nat, rows : SUBSET StepKeys,
           arts : SUBSET (StepKeys \cup Blames), calls : SUBSET {"compile"},
           gate : DOMAIN GateNext, born : SUBSET DOMAIN Parent, sbx : BOOLEAN,
           gates : BOOLEAN, tiles : [Tiles -> TileFiles], outcome : {"none", "blocked"},
           twice : BOOLEAN, posture : BOOLEAN]

ReadTypeOK ==
  /\ watch \in Views \cup {"none"} /\ moves \in Nat
  /\ saw \in Seq(Worlds) /\ saw # <<>>
  /\ shown \in Seq({shown[i] : i \in DOMAIN shown})
  /\ ~Reading => Len(saw) = 1
  /\ Reading => DOMAIN got \subseteq
       {"ids", "frontier"} \cup UNION {Queries[watch][i] : i \in DOMAIN Queries[watch]}

\* Each part of a view was found in a world of the read.
FoundInv ==
  \A q \in DOMAIN got \ {"ids", "frontier"} :
    \/ \E i \in DOMAIN saw : got[q] = Found(saw[i], q)
    \/ watch # "signoff" /\ q = "dbos" /\ got[q] = "unknown"
    \/ q = "calls" /\ got[q] = {}

\* What the header found against the first and the last world of the read, and
\* an end that was shown before: a run reopens only by resume and repair.
DbosEnded == {"CANCELLED", "ERROR", "SUCCESS"}
SameRun == saw[1].reopened = world.reopened
HeaderInv ==
  /\ \A i \in DOMAIN saw :
       /\ saw[1].reopened <= saw[i].reopened /\ saw[i].reopened <= world.reopened
       /\ saw[i].dbos = "SUCCESS" => saw[i].row = "succeeded"
  /\ SameRun /\ "row" \in DOMAIN got =>
       /\ saw[1].row \in RunEnded => got.row \in RunEnded
       /\ got.row \in RunEnded => world.row \in RunEnded
  /\ SameRun /\ saw[1].row \in RunEnded => world.row \in RunEnded
  /\ SameRun /\ saw[1].dbos \in DbosEnded => world.dbos \in DbosEnded
  /\ "dbos" \in DOMAIN got =>
       /\ got.dbos \in {"ERROR", "SUCCESS"} => world.dbos = got.dbos
       /\ SameRun /\ got.dbos \in DbosEnded => world.dbos \in DbosEnded
  /\ shown # <<>> /\ shown[Len(shown)].view \in HeaderEnded =>
       LET before == shown[Len(shown)].span[1].reopened
           Same == {i \in DOMAIN saw : saw[i].reopened = before} IN
       /\ before \in 0..saw[1].reopened
       /\ \/ \A i \in Same : saw[i].row \in RunEnded
          \/ \A i \in Same : saw[i].dbos \in DbosEnded

\* Rows, artifacts and calls are only added.
StepsInv ==
  LET Grown(w, v) == w.rows \subseteq v.rows /\ w.arts \subseteq v.arts IN
  /\ Grown(saw[1], world)
  /\ "rows" \in DOMAIN got => saw[1].rows \subseteq got.rows /\ got.rows \subseteq world.rows
  /\ "arts" \in DOMAIN got => saw[1].arts \subseteq got.arts /\ got.arts \subseteq world.arts
  /\ "calls" \in DOMAIN got => got.calls \subseteq world.calls

\* The states a gate was in during the read are a way through GateNext: it is
\* answered or times out, and nothing is skipped.
GatesSeen == {saw[i].gate : i \in DOMAIN saw}
GateInv ==
  LET early == {"none", "opened"}
      waiting == early \cup {"PENDING"}
      yes == {"RECEIVED", "RESOLVED"}
      no == {"TIMED_OUT", "EXPIRED"} IN
  /\ GatesSeen \cap yes # {} => world.gate \in yes
  /\ GatesSeen \cap no # {} => world.gate \in no
  /\ GatesSeen \cap early # {} /\ ~(GatesSeen \subseteq waiting) => "PENDING" \in GatesSeen
  /\ GatesSeen \cap waiting # {} /\ "RESOLVED" \in GatesSeen => "RECEIVED" \in GatesSeen

\* The workflows found so far, down to the frontier, are of the run's family.
Escalated(w) == IF w.gates THEN {"esc"} ELSE {}
FirstLine(w) == {"wf"} \cup Escalated(w) \cup Kids({"wf"}, w.born)
Family(w) == FirstLine(w) \cup Kids(FirstLine(w), w.born)
ReproInv ==
  /\ saw[1].born \subseteq world.born
  /\ saw[1].gates => world.gates
  /\ world.sbx \/ "sub" \in world.born => "task" \in world.born
  /\ "sbx" \in DOMAIN got /\ got.sbx => world.sbx
  /\ "gates" \in DOMAIN got => /\ saw[1].gates => got.gates
                               /\ got.gates => world.gates
  /\ "ids" \in DOMAIN got <=> "frontier" \in DOMAIN got
  /\ "ids" \in DOMAIN got =>
       /\ {"sbx", "gates"} \subseteq DOMAIN got
       /\ RowIds \subseteq got.ids /\ got.frontier \subseteq got.ids
       /\ Kids(got.ids \ got.frontier, saw[1].born) \subseteq got.ids
       /\ got.ids \subseteq Family(world)

\* What the trigger of the divergence found.
SignoffInv ==
  /\ "succeeded" \in DOMAIN got /\ got.succeeded => world.row = "succeeded"
  /\ "dbos" \in DOMAIN got => "succeeded" \in DOMAIN got
  /\ "dbos" \in DOMAIN got /\ terminalDivergence(got) =>
       \E i \in DOMAIN saw : saw[i].row = "succeeded" /\ saw[i].dbos # "SUCCESS"

Held(s, P(_)) == \E i \in DOMAIN s.span : P(s.span[i])
First(s) == s.span[1]
Last(s) == s.span[Len(s.span)]

(***************************************************************************)
(* The header shows a status the row had, or the cancellation DBOS had,    *)
(* during the read; and from a status that ends a run it goes back to one  *)
(* that does not only after a resume or a repair, where DBOS could not be  *)
(* asked, or where a cancelled run ended otherwise during the read.        *)
(***************************************************************************)
HeaderShown ==
  \A i \in DOMAIN shown :
    LET s == shown[i]
        Was(w) == \/ s.view = mapRunStatus[w.row]
                  \/ s.view = "CANCELLED" /\ w.dbos = "CANCELLED"
    IN /\ Held(s, Was)
       /\ (i > 1 /\ shown[i - 1].view \in HeaderEnded /\ s.view \notin HeaderEnded)
            => \/ s.blind \/ Last(s).reopened > First(shown[i - 1]).reopened
               \/ s.span[1].row \notin RunEnded /\ Last(s).dbos \in {"ERROR", "SUCCESS"}

(* Every card of proof claims what was so during the read.                 *)
ProofsShown ==
  \A i \in DOMAIN shown : \A card \in shown[i].view :
    LET Was(w) == CASE card[1] = "app" -> w.row = card[2]
                    [] card[1] = "dbos" -> w.dbos = card[2]
                    [] card[1] = "step" -> card[2] \in w.rows
                    [] card[1] = "artifact" -> card[2] \in w.arts
    IN Held(shown[i], Was)

(* Every step and every broken budget there was when the read began has    *)
(* one line, with the artifacts it had; none is made up.                   *)
StepsShown ==
  \A i \in DOMAIN shown :
    LET s == shown[i]
        Of(k) == {l \in s.view : <<l.id, l.attempt>> = k}
    IN /\ \A k \in First(s).rows \cup (First(s).arts \cap Blames) :
            Cardinality(Of(k)) = 1 /\ \A l \in Of(k) : {k} \cap First(s).arts \subseteq l.arts
       /\ \A l \in s.view : /\ <<l.id, l.attempt>> \in Last(s).rows \cup Last(s).arts
                                 \/ l.id \in Last(s).calls
                            /\ l.arts \subseteq Last(s).arts

(* A gate is shown in a state it was in during the read, though its row    *)
(* and its three events are read one by one.                               *)
GateShown ==
  \A i \in DOMAIN shown :
    LET State(g) == IF g \in {"none", "opened"} THEN "null"
                    ELSE IF g = "EXPIRED" THEN "TIMED_OUT" ELSE g
        Was(w) == shown[i].view = State(w.gate)
    IN Held(shown[i], Was)

(* A snapshot covers every workflow the run had given rise to when the     *)
(* read began, at any depth, and none of another run.                      *)
ReproShown ==
  \A i \in DOMAIN shown :
    LET s == shown[i]
    IN Family(First(s)) \subseteq s.view /\ s.view \subseteq Family(Last(s))

(* The board says GO only if every tile was green and every trigger clear, *)
(* each at some moment of the read, and NO_GO only if one was not.  A      *)
(* broken budget is not among them: the board looks for an outcome that no *)
(* artifact of the harness has (signoff-api.ts:175).                       *)
SignoffShown ==
  \A i \in DOMAIN shown :
    LET Facts == Tiles \cup {"posture", "receipts", "failures", "divergence"}
        Clear(w, x) == CASE x \in Tiles -> w.tiles[x] = "green"
                         [] x = "posture" -> w.posture
                         [] x = "receipts" -> ~w.twice
                         [] x = "failures" -> w.row # "failed"
                         [] x = "divergence" -> w.row = "succeeded" => w.dbos = "SUCCESS"
    IN IF shown[i].view = "GO"
       THEN \A x \in Facts : LET Was(w) == Clear(w, x) IN Held(shown[i], Was)
       ELSE \E x \in Facts : LET Was(w) == ~Clear(w, x) IN Held(shown[i], Was)

(***************************************************************************)
(* Whatever happens between the queries of a view, what it shows was so    *)
(* (src/server/ui-api.ts, signoff-api.ts and src/lib/repro.ts); and of a   *)
(* read that is under way, what makes it come out so.                      *)
(***************************************************************************)
ShownWasSo ==
  /\ ReadTypeOK /\ FoundInv
  /\ CASE watch = "header" -> HeaderInv /\ HeaderShown
       [] watch = "proofs" -> ProofsShown
       [] watch = "steps" -> StepsInv /\ StepsShown
       [] watch = "gate" -> GateInv /\ GateShown
       [] watch = "repro" -> ReproInv /\ ReproShown
       [] watch = "signoff" -> SignoffInv /\ SignoffShown
       [] OTHER -> TRUE
=============================================================================
