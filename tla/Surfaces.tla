------------------------------ MODULE Surfaces ------------------------------
(***************************************************************************)
(* The doors of the system: the manual router of src/server/http.ts        *)
(* ("node"), the route handlers of app/api ("next") and the router's older *)
(* routes without /api ("legacy").  The doors of one operation share its   *)
(* service, but each has its own order of checks and its own translation   *)
(* of errors into a status.                                                *)
(*                                                                         *)
(* One request is put to every door of one operation, in a world where     *)
(* some stages go wrong.  A handler is the sequence of its stages: the     *)
(* first that goes wrong decides the answer, those before it have done     *)
(* what they do.                                                           *)
(***************************************************************************)
EXTENDS Naturals, Sequences, FiniteSetsExt, TLC

CONSTANT MaxFaults      \* bound: stages that go wrong in one case

ASSUME SurfacesAssumption == MaxFaults \in Nat

VARIABLES op,      \* the operation asked for
          faults,  \* the stages that go wrong in this case
          replay,  \* the run asked for was there already
          at,      \* per door, the stages passed
          hit,     \* per door, the stage that went wrong
          wrote,   \* per door, what has been changed
          answer   \* per door, the status and how the body ended
surfaceVars == <<op, faults, replay, at, hit, wrote, answer>>

Doors == {"node", "next", "legacy"}

-----------------------------------------------------------------------------
(* Stages.                                                                 *)
Check(stage, error) == [at |-> stage, error |-> error, writes |-> FALSE]
Write(stage, error) == [at |-> stage, error |-> error, writes |-> TRUE]
parseJsonBody == <<Check("json", "validation")>>
Body  == <<Check("body", "validation")>>
Query == <<Check("query", "validation")>>
Ids   == <<Check("ids", "validation")>>
Shown == <<Check("shown", "validation")>>     \* validation of what goes out
Read  == <<Check("read", "other")>>
parseLegacyRunStartPayload == <<Check("fields", "validation")>>
\* The router makes a workflow id of blanks an empty one, which no body may have.
workflowIdFrom == <<Check("blank", "validation")>>
\* findRunByIdOrWorkflowId of a handler that answers itself
RunOr404 == <<Check("run", "e404")>>
Conflict(stage) == <<Check(stage, "opsConflict")>>
Missing(stage) == <<Check(stage, "opsNotFound")>>

-----------------------------------------------------------------------------
(* The services behind the doors.                                          *)
createIntentService == Body \o <<Write("intents row", "other")>>
startIntentRun == <<Check("policy", "queuePolicy"), Check("intent", "intentMissing"),
                    Write("runs row", "identity"), Write("enqueue", "notStarted")>>
startRunService ==
  Body \o <<Check("intent", "intentMissing")>> \o startIntentRun \o Shown
startRunFromRecipeService ==
  Body \o Missing("recipe") \o <<Check("template", "validation"),
  Write("intents row", "identity")>> \o startIntentRun \o Shown
postExternalEventService ==
  Body \o Ids \o Conflict("topic") \o Missing("run") \o Missing("gate")
       \o Conflict("waiting") \o Conflict("gate topic")
       \o <<Write("ledger", "opsConflict"), Write("send", "other")>>
postReplyService ==
  Ids \o Body \o Missing("run") \o Missing("gate") \o Conflict("waiting")
      \o Conflict("gate topic") \o <<Write("ledger", "opsConflict"), Write("send", "other")>>
forwardPlanApprovalSignalService == <<Write("send", "other")>>
getGateService == Ids \o <<Check("run", "e404"), Check("gate", "e404"),
                           Check("prompt", "e404")>> \o Shown
getGatesService == <<Check("run", "empty")>> \o Read \o Shown
getHitlInteractionsService == <<Check("run", "empty")>> \o Read \o Shown
getHitlInboxService == Read \o Shown
getStepRowsService == <<Check("run", "empty")>> \o Read \o Shown
getProofCardsService == <<Check("run", "empty")>> \o Read \o Shown
getRunHeaderService == RunOr404 \o Read \o Shown
generateReproSnapshot == <<Check("run", "runMissing")>> \o Read
getWorkflowOrThrow == Missing("workflow")
cancelWorkflow ==
  getWorkflowOrThrow \o Conflict("status")
    \o <<Write("cancel", "other"), Write("op intent", "other")>>
resumeWorkflow ==
  getWorkflowOrThrow \o Conflict("status")
    \o <<Write("resume", "other"), Write("op intent", "other")>>
\* What goes wrong from the fork on is a conflict if its message speaks of a
\* step, even if the fork is made and recording it failed.
forkWorkflow ==
  getWorkflowOrThrow \o Read \o Conflict("max step") \o Conflict("step")
    \o <<Write("fork", "other")>> \o Conflict("recorded step")
    \o <<Write("op intent", "other")>>
\* Looking a workflow up reads its audit trail, which makes up a run for it.
getWorkflow == getWorkflowOrThrow \o <<Write("made-up run", "other")>> \o Read \o Shown
startSleepWorkflow == <<Write("made-up run", "other"), Write("start", "other")>>

-----------------------------------------------------------------------------
(* The manual router.                                                      *)
Route(ok, stages) == [ok |-> ok, stages |-> stages]
NodeStarts ==
  [intents |-> Route(201, parseJsonBody \o createIntentService),
   runs |-> Route(0, parseJsonBody \o parseLegacyRunStartPayload \o startRunService),
   run |-> Route(0, parseJsonBody \o startRunFromRecipeService)]
NodeRecipes ==
  [recipes |-> Route(200, Read \o Shown),
   versions |-> Route(200, Read \o Shown),
   patches |-> Route(200, RunOr404 \o Read),
   import |-> Route(201, parseJsonBody \o Body \o <<Write("bundle", "immutable")>>),
   export |-> Route(200, parseJsonBody \o Body \o Read)]
NodeOpsReads ==
  [list |-> Route(200, Query \o Read \o Shown),
   depth |-> Route(200, Query \o Read \o Shown),
   throughput |-> Route(200, Read \o Shown),
   signoff |-> Route(200, Read \o Shown),
   workflow |-> Route(200, Ids \o getWorkflow \o Shown),
   workflowSteps |-> Route(200, Ids \o getWorkflowOrThrow \o Read \o Shown)]
NodeOps ==
  [cancel |-> Route(202, parseJsonBody \o Body \o Ids \o cancelWorkflow \o Shown),
   resume |-> Route(202, parseJsonBody \o Body \o Ids \o resumeWorkflow \o Shown),
   fork |-> Route(202, parseJsonBody \o Body \o Ids \o forkWorkflow \o Shown),
   event |-> Route(200, parseJsonBody \o postExternalEventService)]
NodeRuns ==
  [stream |-> Route(200, Read \o <<Check("chunk", "cut")>>),
   header |-> Route(200, getRunHeaderService),
   proofs |-> Route(200, getProofCardsService),
   repro |-> Route(200, generateReproSnapshot),
   steps |-> Route(200, getStepRowsService)]
NodeGates ==
  [gates |-> Route(200, getGatesService),
   gate |-> Route(200, Query \o getGateService),
   reply |-> Route(200, parseJsonBody \o postReplyService),
   interactions |-> Route(200, Query \o getHitlInteractionsService),
   inbox |-> Route(200, Query \o getHitlInboxService)]
NodeApproval ==
  [approve |-> Route(202, RunOr404 \o parseJsonBody \o Body
     \o <<Write("approval", "other")>> \o forwardPlanApprovalSignalService)]
NodeArtifact ==
  [artifact |-> Route(200, <<Check("uri", "other"), Check("artifact", "e404"),
                             Check("inline", "hung")>>)]
NodeSleep == [sleep |-> Route(202, workflowIdFrom \o Body \o startSleepWorkflow \o Shown)]
Node == NodeStarts @@ NodeRecipes @@ NodeOpsReads @@ NodeOps @@ NodeRuns
          @@ NodeGates @@ NodeApproval @@ NodeArtifact @@ NodeSleep

(* Its older routes.                                                       *)
LegacyStarts ==
  [intents |-> Route(201, parseJsonBody \o createIntentService),
   runs |-> Route(202, <<Check("legacy", "e410"), Check("intent", "e404")>>
                         \o parseJsonBody \o startRunService)]
LegacyRetry ==
  [retry |-> Route(202, RunOr404 \o <<Check("failed", "e409")>> \o Read
                          \o <<Write("repair", "other")>>)]
LegacyEvents ==
  [legacyEvent |-> Route(202, RunOr404 \o <<Check("waiting", "e409")>> \o parseJsonBody
                                \o Body \o <<Write("send", "other")>>)]
LegacyApproval ==
  [approve |-> Route(202, <<Check("legacy", "e410")>> \o RunOr404 \o parseJsonBody \o Body
     \o <<Write("approval", "other")>> \o forwardPlanApprovalSignalService)]
LegacyRunView == [header |-> Route(200, RunOr404 \o Read \o Shown)]
LegacyDemos ==
  [crashdemo |-> Route(202, <<Check("wf", "e400"), Write("start", "other")>>),
   slowstep |-> Route(202, <<Check("wf", "e400"), Write("start", "other")>>),
   slowmarks |-> Route(200, <<Check("wf", "e400")>> \o Read),
   marks |-> Route(200, <<Check("wf", "e400")>> \o Read)]
Legacy == LegacyStarts @@ LegacyRetry @@ LegacyEvents @@ LegacyApproval
            @@ LegacyRunView @@ LegacyDemos

-----------------------------------------------------------------------------
(* The route handlers of app/api: getServices may fail, and each handler   *)
(* says which catcher it has.                                              *)
getServices == <<Check("services", "other")>>
Caught(catch, ok, stages) == [ok |-> ok, stages |-> getServices \o stages, catch |-> catch]
NextIntents == Caught("start", 201, parseJsonBody \o createIntentService)
NextRuns == Caught("start", 0, parseJsonBody \o parseLegacyRunStartPayload \o startRunService)
NextRun == Caught("start", 0, parseJsonBody \o startRunFromRecipeService)
NextRecipes == Caught("none", 200, Read \o Shown)
NextVersions == Caught("none", 200, Read \o Shown)
NextPatches == Caught("none", 200, RunOr404 \o Read)
NextImport == Caught("import", 201, parseJsonBody \o Body \o <<Write("bundle", "immutable")>>)
NextExport == Caught("import", 200, parseJsonBody \o Body \o Read)
NextList == Caught("ops", 200, Query \o Read \o Shown)
NextDepth == Caught("ops", 200, Query \o Read \o Shown)
NextThroughput == Caught("none", 200, Read \o Shown)
NextSignoff ==        \* pools of its own
  [ok |-> 200, stages |-> Read \o Shown, catch |-> "none"]
NextWorkflow == Caught("ops", 200, Ids \o getWorkflow \o Shown)
NextWorkflowSteps == Caught("ops", 200, Ids \o getWorkflowOrThrow \o Read \o Shown)
NextCancel == Caught("ops", 202, parseJsonBody \o Body \o Ids \o cancelWorkflow \o Shown)
NextResume == Caught("ops", 202, parseJsonBody \o Body \o Ids \o resumeWorkflow \o Shown)
NextFork == Caught("ops", 202, parseJsonBody \o Body \o Ids \o forkWorkflow \o Shown)
NextEvent == Caught("ops", 200, parseJsonBody \o postExternalEventService)
NextStream == Caught("none", 200, Read \o <<Check("chunk", "aborted")>>)
NextHeader == Caught("none", 200, getRunHeaderService)
NextProofs == Caught("none", 200, getProofCardsService)
NextRepro == Caught("repro", 200, generateReproSnapshot)
NextSteps == Caught("none", 200, RunOr404 \o getStepRowsService)
NextGates == Caught("ops", 200, getGatesService)
NextGate == Caught("ops", 200, Query \o getGateService)
NextReply == Caught("ops", 200, parseJsonBody \o postReplyService)
NextInteractions == Caught("ops", 200, Query \o getHitlInteractionsService)
NextInbox == Caught("ops", 200, Query \o getHitlInboxService)
NextApprove ==        \* the gate comes before the services
  [ok |-> 202, catch |-> "import",
   stages |-> <<Check("legacy", "e410")>> \o getServices \o RunOr404 \o parseJsonBody \o Body
                \o <<Write("approval", "other")>> \o forwardPlanApprovalSignalService]
NextArtifact ==
  Caught("none", 200, <<Check("uri", "other"), Check("artifact", "e404")>>)
\* A blank id is one like any other.
NextSleep == Caught("ops", 202, Body \o startSleepWorkflow \o Shown)
AppApi == [intents |-> NextIntents, runs |-> NextRuns, run |-> NextRun,
           recipes |-> NextRecipes, versions |-> NextVersions, patches |-> NextPatches,
           import |-> NextImport, export |-> NextExport, list |-> NextList, depth |-> NextDepth,
           throughput |-> NextThroughput, signoff |-> NextSignoff, workflow |-> NextWorkflow,
           workflowSteps |-> NextWorkflowSteps, cancel |-> NextCancel, resume |-> NextResume,
           fork |-> NextFork, event |-> NextEvent, stream |-> NextStream, header |-> NextHeader,
           proofs |-> NextProofs, repro |-> NextRepro, steps |-> NextSteps, gates |-> NextGates,
           gate |-> NextGate, reply |-> NextReply, interactions |-> NextInteractions,
           inbox |-> NextInbox, approve |-> NextApprove, artifact |-> NextArtifact,
           sleep |-> NextSleep]

-----------------------------------------------------------------------------
(* From what went wrong to a status.                                       *)
\* What a handler answers by itself.  The head of a stream has gone out, and
\* the router's of an artifact whose content is not the JSON it should be: its
\* catcher cannot answer any more, and what it throws for that nobody catches, so
\* no body comes, and Node may end the process.
Direct == "e400" :> 400 @@ "e404" :> 404 @@ "e409" :> 409 @@ "e410" :> 410
            @@ "empty" :> 200 @@ "cut" :> 200 @@ "aborted" :> 200 @@ "hung" :> 200
NodeCatch == "validation" :> 400 @@ "intentMissing" :> 404 @@ "queuePolicy" :> 400
               @@ "opsNotFound" :> 404 @@ "opsConflict" :> 409 @@ "identity" :> 409
               @@ "immutable" :> 409
NodeReproCatch == "runMissing" :> 404
toOpsErrorResponse == "validation" :> 400 @@ "opsNotFound" :> 404 @@ "opsConflict" :> 409
toRunStartErrorResponse ==
  "validation" :> 400 @@ "queuePolicy" :> 400 @@ "opsNotFound" :> 404 @@ "identity" :> 409
    @@ "opsConflict" :> 409 @@ "intentMissing" :> 404
ImportCatch == "validation" :> 400 @@ "immutable" :> 409
ReproCatch == "runMissing" :> 404
Catcher(catch) == CASE catch = "ops" -> toOpsErrorResponse
                    [] catch = "start" -> toRunStartErrorResponse
                    [] catch = "import" -> ImportCatch
                    [] catch = "repro" -> ReproCatch
                    [] catch = "none" -> <<>>

Handlers == [node |-> Node, next |-> AppApi, legacy |-> Legacy]
Operations == UNION {DOMAIN Handlers[d] : d \in Doors}
DoorsOf(o) == {d \in Doors : o \in DOMAIN Handlers[d]}
Stages(d, o) == Handlers[d][o].stages
StagesOf(o) ==
  UNION {{Stages(d, o)[i].at : i \in DOMAIN Stages(d, o)} : d \in DoorsOf(o)}

StatusOf(d, o, error) ==
  LET known == Direct @@ IF d = "next" THEN Catcher(AppApi[o].catch)
                         ELSE NodeCatch @@ NodeReproCatch
  IN IF error \in DOMAIN known THEN known[error] ELSE 500
OkStatus(d, o, again) ==
  LET ok == Handlers[d][o].ok
  IN IF ok # 0 THEN ok ELSE IF again THEN 200 ELSE 201
Ending(error) == IF error \in {"cut", "aborted", "hung"} THEN error ELSE "whole"

-----------------------------------------------------------------------------
NoAnswer == [status |-> 0, ending |-> "none"]
NothingAsked == [d \in Doors |-> NoAnswer]
StartIdle ==
  /\ op = "none" /\ faults = {} /\ replay = FALSE
  /\ at = [d \in Doors |-> 0] /\ hit = [d \in Doors |-> "none"]
  /\ wrote = [d \in Doors |-> {}] /\ answer = NothingAsked
\* Runs are started by two operations, which may find theirs to be there.
Repeatable(o, again) == again => o \in {"runs", "run"}
StartCase ==
  /\ op \in Operations
  /\ faults \in UNION {kSubset(k, StagesOf(op)) : k \in 0..MaxFaults}
  /\ replay \in BOOLEAN /\ Repeatable(op, replay)
  /\ at = [d \in Doors |-> 0] /\ hit = [d \in Doors |-> "none"]
  /\ wrote = [d \in Doors |-> {}] /\ answer = NothingAsked

Asked(d) == op # "none" /\ d \in DoorsOf(op) /\ answer[d] = NoAnswer
Stage(d) == Stages(d, op)[at[d] + 1]
\* A replay takes the failure to enqueue for the run being there.
Wrong(stage, fs, again) == stage.at \in fs /\ ~(stage.error = "notStarted" /\ again)
Fails(d) == Wrong(Stage(d), faults, replay)

(* The handler passes a stage.                                             *)
Pass(d) ==
  /\ Asked(d) /\ at[d] < Len(Stages(d, op)) /\ ~Fails(d)
  /\ at' = [at EXCEPT ![d] = @ + 1]
  /\ wrote' = [wrote EXCEPT ![d] = @ \cup IF Stage(d).writes THEN {Stage(d).at} ELSE {}]
  /\ UNCHANGED <<op, faults, replay, hit, answer>>

Answers(d, status, ending) ==
  /\ answer' = [answer EXCEPT ![d] = [status |-> status, ending |-> ending]]
  /\ UNCHANGED <<op, faults, replay, at>>

\* Mutant: what is refused has been done by then.
RefuseLate(d) ==
  /\ Asked(d) /\ at[d] < Len(Stages(d, op)) /\ Fails(d)
  /\ hit' = [hit EXCEPT ![d] = Stage(d).at]
  /\ wrote' = [wrote EXCEPT ![d] = @ \cup IF Stage(d).writes THEN {Stage(d).at} ELSE {}]
  /\ Answers(d, StatusOf(d, op, Stage(d).error), Ending(Stage(d).error))

(* The stage goes wrong: the handler answers, or its catcher does.         *)
Refuse(d) ==
  /\ Asked(d) /\ at[d] < Len(Stages(d, op)) /\ Fails(d)
  /\ hit' = [hit EXCEPT ![d] = Stage(d).at] /\ UNCHANGED wrote
  /\ Answers(d, StatusOf(d, op, Stage(d).error), Ending(Stage(d).error))

Succeed(d) ==
  /\ Asked(d) /\ at[d] = Len(Stages(d, op)) /\ UNCHANGED <<hit, wrote>>
  /\ Answers(d, OkStatus(d, op, replay), "whole")

SurfacesStep == \E d \in Doors : Pass(d) \/ Refuse(d) \/ Succeed(d)

SurfacesSpec == (StartCase \/ StartIdle) /\ [][SurfacesStep]_surfaceVars
-----------------------------------------------------------------------------
\* What has become of the request at a door.
End(d) == [hit |-> hit[d], answer |-> answer[d], wrote |-> wrote[d]]
Accepted(e) == e.answer.status \in 200..299 /\ e.answer.ending = "whole"
Refused(e) == e.answer.status \in 400..499
Answered(ds) == ds \subseteq DoorsOf(op) /\ \A d \in ds : answer[d] # NoAnswer

\* Where the two routers are known to differ: services that cannot be had,
\* the flag of the older routes (on /api only app/api has it), the steps of a
\* run that is not there, a stream that breaks, an artifact that is not the
\* JSON it should be (app/api sends it as it is), a workflow to sleep whose id is
\* blank (app/api starts it), and an answer that fails its own validation where
\* the catcher of app/api does not tell it from others.
RoutersDiffer(o, node, next) ==
  \/ next.hit = "services"
  \/ o = "approve" /\ next.hit = "legacy"
  \/ o = "steps" /\ next.hit = "run"
  \/ o = "stream" /\ next.hit = "chunk"
  \/ o = "artifact" /\ node.hit = "inline"
  \/ o = "sleep" /\ node.hit = "blank"
  \/ /\ node.hit = "shown" /\ next.hit = "shown"
     /\ o \in {"recipes", "versions", "throughput", "signoff", "header", "proofs", "steps"}

RoutersAgree(o, fs, node, next) ==
  LET same == <<node.answer, node.wrote>> = <<next.answer, next.wrote>>
  IN /\ same \/ RoutersDiffer(o, node, next)
     /\ RoutersDiffer(o, node, next) /\ (\A f, g \in fs : f = g) => ~same
OlderAgrees(node, legacy) ==
  \/ legacy.hit = "legacy" \/ node.hit = "fields"
  \/ (Accepted(node) <=> Accepted(legacy)) /\ node.wrote = legacy.wrote
Untouched(e) ==
  Refused(e) /\ e.hit \notin {"shown", "recorded step"} => e.wrote \subseteq {"intents row"}

(***************************************************************************)
(* Whatever goes wrong with a request, the manual router and app/api       *)
(* answer it with the same status and have changed the same things, except *)
(* in the differences listed above, each real when nothing else is wrong;  *)
(* and an older route accepts what its /api twin accepts, and changes what *)
(* it changes.                                                             *)
(***************************************************************************)
SurfacesAgree ==
  /\ Answered({"node", "next"}) => RoutersAgree(op, faults, End("node"), End("next"))
  /\ Answered({"node", "legacy"}) => OlderAgrees(End("node"), End("legacy"))

(***************************************************************************)
(* A door that answers 4xx has changed nothing: no run was started, no     *)
(* answer or approval recorded, no workflow operated on.  Known exceptions *)
(* are the row of an intent whose run is refused, a refusal of the         *)
(* answer's own validation after the deed, and a fork that was made but    *)
(* could not be recorded.                                                  *)
(***************************************************************************)
RefusedUntouched == \A d \in Doors : Untouched(End(d))
SurfacesHonest == SurfacesAgree /\ RefusedUntouched
-----------------------------------------------------------------------------
(***************************************************************************)
(* The tables without the steps: what becomes of a request at a door if    *)
(* its i-th stage is the first to go wrong (the last plus one: none does), *)
(* and whether that is so if the stages fs go wrong.                       *)
(***************************************************************************)
Places(d, o) == 1..Len(Stages(d, o)) + 1
FailsFirst(d, o, fs, again, i) ==
  /\ \A k \in 1..i - 1 : ~Wrong(Stages(d, o)[k], fs, again)
  /\ i \in DOMAIN Stages(d, o) => Wrong(Stages(d, o)[i], fs, again)
Written(d, o, n) == {Stages(d, o)[k].at : k \in {k \in 1..n : Stages(d, o)[k].writes}}
EndAt(d, o, again, i) ==
  IF i \in DOMAIN Stages(d, o)
    THEN [hit |-> Stages(d, o)[i].at, wrote |-> Written(d, o, i - 1),
          answer |-> [status |-> StatusOf(d, o, Stages(d, o)[i].error),
                      ending |-> Ending(Stages(d, o)[i].error)]]
    ELSE [hit |-> "none", wrote |-> Written(d, o, i - 1),
          answer |-> [status |-> OkStatus(d, o, again), ending |-> "whole"]]
At(d, o, i) == {Stages(d, o)[k].at : k \in {i} \cap DOMAIN Stages(d, o)}

\* Two doors of an operation, each with its first fault and with no other.
Meet(o, again, d, i, e, j) ==
  LET fs == At(d, o, i) \cup At(e, o, j)
  IN FailsFirst(d, o, fs, again, i) /\ FailsFirst(e, o, fs, again, j)
RoutersMeet(o, again) ==
  {"node", "next"} \subseteq DoorsOf(o) =>
    \A i \in Places("node", o), j \in Places("next", o) :
      Meet(o, again, "node", i, "next", j) =>
        RoutersAgree(o, At("node", o, i) \cup At("next", o, j),
                     EndAt("node", o, again, i), EndAt("next", o, again, j))
OlderMeets(o, again) ==
  {"node", "legacy"} \subseteq DoorsOf(o) =>
    \A i \in Places("node", o), j \in Places("legacy", o) :
      Meet(o, again, "node", i, "legacy", j) =>
        OlderAgrees(EndAt("node", o, again, i), EndAt("legacy", o, again, j))

\* The tables keep what the doors promise if at most two stages go wrong.
TwoFaultsHonest ==
  \A o \in Operations, again \in BOOLEAN : Repeatable(o, again) =>
    /\ \A d \in DoorsOf(o) :
         /\ Len(Stages(d, o)) \in Nat /\ DOMAIN Stages(d, o) = 1..Len(Stages(d, o))
         /\ \A i \in Places(d, o) : Untouched(EndAt(d, o, again, i))
    /\ RoutersMeet(o, again) /\ OlderMeets(o, again)

\* How far a door has come, and why: the inductive invariant of the proofs.
DoorInv(d) ==
  /\ at[d] \in 0..Len(Stages(d, op)) /\ wrote[d] = Written(d, op, at[d])
  /\ \A k \in 1..at[d] : ~Wrong(Stages(d, op)[k], faults, replay)
  /\ answer[d] = NoAnswer => hit[d] = "none"
  /\ answer[d] # NoAnswer =>
       /\ FailsFirst(d, op, faults, replay, at[d] + 1)
       /\ End(d) = EndAt(d, op, replay, at[d] + 1)
SurfacesInv ==
  /\ DOMAIN at = Doors /\ DOMAIN hit = Doors /\ DOMAIN wrote = Doors /\ DOMAIN answer = Doors
  /\ op = "none" \/ (op \in Operations /\ replay \in BOOLEAN /\ Repeatable(op, replay))
  /\ \A d \in Doors : IF op # "none" /\ d \in DoorsOf(op) THEN DoorInv(d)
                                                          ELSE answer[d] = NoAnswer
=============================================================================
