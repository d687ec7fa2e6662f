------------------------------ MODULE StartRun ------------------------------
(***************************************************************************)
(* From a client's request to a workflow on the queue: startRunService and *)
(* startRunFromRecipeService (src/server/ui-api.ts) and startIntentRun     *)
(* (src/workflow/start-intent.ts), which every way into a run goes         *)
(* through.  The id of the workflow is the id of the intent, so the rows   *)
(* of app.intents and app.runs and the workflow of DBOS are all named by   *)
(* the intent, and requests for one intent have to converge on one run.    *)
(*                                                                         *)
(* A request writes in three places, one statement each, with nothing that *)
(* joins them: the intent, the run, the queue, and if the queue refuses,   *)
(* the run again.  Requests of any number of servers interleave between    *)
(* these statements and their servers may die there.  What the workflow    *)
(* does in the end is IntentRun's; here it starts, runs and ends.          *)
(***************************************************************************)
EXTENDS RunRow

CONSTANTS
  Intents,   \* ids of intents: ih_<hash> or, from POST /api/intents, it_<random>
  Recipes,   \* pinned recipe versions
  Idents,    \* what else identifies a run: trace, tenant, partition key, budget
  Keyed,     \* those of Idents that have a partition key
  Dedups,    \* deduplication ids; a request need not have one
  Offers,    \* what clients may ask for
  Requests   \* HTTP requests, retries included

\* recipe is "plain" when the request names an intent, not a recipe.
Starts == [intent : Intents, recipe : Recipes \cup {"plain"}, ident : Idents,
           dedup : Dedups \cup {"none"}]

ASSUME StartsAssumption == Offers \subseteq Starts /\ Keyed \subseteq Idents
ASSUME MarksAssumption == {"plain", "absent"} \cap Recipes = {} /\ "none" \notin Idents

VARIABLES
  partitioned,  \* whether the deployment partitions intentQ
  intent,       \* app.intents: the recipe an intent is bound to
  run,          \* app.runs
  wf,           \* the workflows of DBOS
  req           \* the requests

vars == <<partitioned, intent, run, wf, req>>
-----------------------------------------------------------------------------
NoRequest == [intent |-> "none"]
NoRow == [status |-> "absent", recipe |-> "absent", ident |-> "none"]
NoWorkflow == [state |-> "none", ident |-> "none", dedup |-> "none", outcome |-> "none"]

InFlight == {"upsert", "check", "insert", "enqueue", "mark"}
Answers == {"created", "replay", "refused", "error"}

TypeOK ==
  /\ partitioned \in BOOLEAN
  /\ intent \in [Intents -> Recipes \cup {"plain", "absent"}]
  /\ run \in [Intents ->
       [status : {"queued", "running", "succeeded", "failed"},
        recipe : Recipes \cup {"plain"}, ident : Idents] \cup {NoRow}]
  /\ wf \in [Intents ->
       [state : {"enqueued", "running", "done"}, ident : Idents,
        dedup : Dedups \cup {"none"}, outcome : {"none", "succeeded", "failed"}]
       \cup {NoWorkflow}]
  /\ req \in [Requests -> [at : InFlight \cup Answers \cup {"idle", "lost"},
                           start : Starts \cup {NoRequest}, inserted : BOOLEAN]]

\* Intents that no recipe leads to are there from the start.
Init ==
  /\ partitioned \in BOOLEAN
  /\ intent = [i \in Intents |->
       IF \E o \in Offers : o.intent = i /\ o.recipe # "plain" THEN "absent" ELSE "plain"]
  /\ run = [i \in Intents |-> NoRow]
  /\ wf = [i \in Intents |-> NoWorkflow]
  /\ req = [q \in Requests |-> [at |-> "idle", start |-> NoRequest, inserted |-> FALSE]]
-----------------------------------------------------------------------------
(* The statements of a request. *)

\* A request that arrives, on one of the two routes.
Ask(q) ==
  /\ req[q].at = "idle"
  /\ \E o \in Offers :
       req' = [req EXCEPT ![q] = [@ EXCEPT !.start = o,
                 !.at = IF o.recipe = "plain" THEN "check" ELSE "upsert"]]
  /\ UNCHANGED <<partitioned, intent, run, wf>>

Go(q, at) == req' = [req EXCEPT ![q].at = at]

\* Mutant: a conflict on the id is taken for a replay, whatever its recipe.
UpsertAny(q) ==
  LET s == req[q].start IN
  /\ req[q].at = "upsert"
  /\ intent' = [intent EXCEPT ![s.intent] = s.recipe]
  /\ Go(q, "check")
  /\ UNCHANGED <<partitioned, run, wf>>

\* upsertIntentByHash: the first recipe that leads to an intent owns it.
Upsert(q) ==
  LET s == req[q].start IN
  /\ req[q].at = "upsert"
  /\ \/ /\ intent[s.intent] = "absent"
        /\ intent' = [intent EXCEPT ![s.intent] = s.recipe]
        /\ Go(q, "check")
     \/ /\ intent[s.intent] # "absent"
        /\ Go(q, IF intent[s.intent] = s.recipe THEN "check" ELSE "refused")
        /\ UNCHANGED intent
  /\ UNCHANGED <<partitioned, run, wf>>

\* resolveQueuePolicy and findIntentById.
Check(q) ==
  LET s == req[q].start IN
  /\ req[q].at = "check"
  /\ Go(q, IF intent[s.intent] # "absent" /\ (partitioned => s.ident \in Keyed)
             THEN "insert" ELSE "refused")
  /\ UNCHANGED <<partitioned, intent, run, wf>>

\* Mutant: the row that is there is taken.
NoDrift(s) == FALSE

\* runIdentityDriftFields: the stored row and the request differ.
Drift(s) ==
  run[s.intent].recipe # intent[s.intent] \/ run[s.intent].ident # s.ident

\* Mutant: the last request's row stays.
InsertOver(q) ==
  LET s == req[q].start IN
  /\ req[q].at = "insert"
  /\ run' = [run EXCEPT ![s.intent] =
               [status |-> "queued", recipe |-> intent[s.intent], ident |-> s.ident]]
  /\ req' = [req EXCEPT ![q].at = "enqueue", ![q].inserted = TRUE]
  /\ UNCHANGED <<partitioned, intent, wf>>

\* insertRun.  The columns the drift check reads never change, so the SELECT
\* after a conflict is not a step of its own.
Insert(q) ==
  LET s == req[q].start IN
  /\ req[q].at = "insert"
  /\ \/ /\ run[s.intent] = NoRow
        /\ run' = [run EXCEPT ![s.intent] =
                     [status |-> "queued", recipe |-> intent[s.intent], ident |-> s.ident]]
        /\ req' = [req EXCEPT ![q].at = "enqueue", ![q].inserted = TRUE]
     \/ /\ run[s.intent] # NoRow
        /\ Go(q, IF Drift(s) THEN "refused" ELSE "enqueue")
        /\ UNCHANGED run
  /\ UNCHANGED <<partitioned, intent, wf>>

\* The deduplication id that reaches DBOS: none on a partitioned queue.
DedupOf(s) == IF partitioned THEN "none" ELSE s.dedup

\* Another workflow on the queue has the deduplication id.
Deduplicated(s) ==
  \E i \in Intents \ {s.intent} :
    wf[i].state \in {"enqueued", "running"} /\ wf[i].dedup = DedupOf(s)
    /\ wf[i].dedup # "none"

\* What startIntentRun does with an error of the trigger: mark the run it
\* inserted, or answer as a replay; a conflict is a replay in any case.
AnyFailure(q) == "mark"
ReplayOnFailure(q) == "replay"
CreatedOnFailure(q) == IF req[q].inserted THEN "created" ELSE "replay"
OnFailure(q) == IF req[q].inserted THEN "mark" ELSE "replay"

\* workflow.startIntentRun: DBOS returns the workflow that is there, starts
\* one, refuses, or fails before or after the start took effect.
Enqueue(q) ==
  LET s == req[q].start
      success == IF req[q].inserted THEN "created" ELSE "replay" IN
  /\ req[q].at = "enqueue"
  /\ \/ wf[s.intent] # NoWorkflow /\ UNCHANGED wf
        /\ \E at \in {success, "replay", OnFailure(q)} : Go(q, at)
     \/ wf[s.intent] = NoWorkflow /\ ~Deduplicated(s)
        /\ wf' = [wf EXCEPT ![s.intent] =
                    [state |-> "enqueued", ident |-> s.ident,
                     dedup |-> DedupOf(s), outcome |-> "none"]]
        /\ \E at \in {success, OnFailure(q)} : Go(q, at)
     \/ wf[s.intent] = NoWorkflow /\ UNCHANGED wf
        /\ Go(q, OnFailure(q))
  /\ UNCHANGED <<partitioned, intent, run>>

\* updateRunStatus(finalRunId, "failed"), and the error goes on to the client.
MarkFailed(q) ==
  /\ req[q].at = "mark"
  /\ run' = [run EXCEPT ![req[q].start.intent].status = Settle(@, "failed", FALSE)]
  /\ Go(q, "error")
  /\ UNCHANGED <<partitioned, intent, wf>>

\* The server dies, or the database is gone for this request.
Lose(q) ==
  /\ req[q].at \in InFlight /\ Go(q, "lost")
  /\ UNCHANGED <<partitioned, intent, run, wf>>
-----------------------------------------------------------------------------
(* The workflow. *)

Dequeue(i) ==
  /\ wf[i].state = "enqueued"
  /\ wf' = [wf EXCEPT ![i].state = "running"]
  /\ run' = [run EXCEPT ![i].status = Settle(@, "running", FALSE)]
  /\ UNCHANGED <<partitioned, intent, req>>

\* The last status the workflow writes.
Finish(i) ==
  /\ wf[i].state = "running"
  /\ \E outcome \in {"succeeded", "failed"} :
       /\ wf' = [wf EXCEPT ![i].state = "done", ![i].outcome = outcome]
       /\ run' = [run EXCEPT ![i].status = Settle(@, outcome, FALSE)]
  /\ UNCHANGED <<partitioned, intent, req>>

Next ==
  \/ \E q \in Requests : Ask(q) \/ Upsert(q) \/ Check(q) \/ Insert(q)
                           \/ Enqueue(q) \/ MarkFailed(q) \/ Lose(q)
  \/ \E i \in Intents : Dequeue(i) \/ Finish(i)

Spec == Init /\ [][Next]_vars
-----------------------------------------------------------------------------
(* Correctness. *)

\* The request q for the intent i is past the upsert; past the drift check.
Bound(q, i) ==
  /\ req[q].at \in {"check", "insert", "enqueue", "mark", "created", "replay", "error"}
  /\ req[q].start.intent = i
Past(q, i) ==
  /\ req[q].at \in {"enqueue", "mark", "created", "replay", "error"}
  /\ req[q].start.intent = i

\* A workflow has a run and a run an intent, of the same identity each.
RowsAgree ==
  \A i \in Intents :
    /\ run[i] # NoRow => intent[i] # "absent" /\ run[i].recipe = intent[i]
    /\ wf[i] # NoWorkflow => run[i] # NoRow /\ wf[i].ident = run[i].ident

\* The intent belongs to the recipe a request named; a request that inserts has
\* an intent, and one past insertRun has the run's identity.
AgreesAt(q, i) ==
  /\ Bound(q, i) /\ req[q].start.recipe \in Recipes => intent[i] = req[q].start.recipe
  /\ req[q].at = "insert" /\ req[q].start.intent = i => intent[i] # "absent"
  /\ Past(q, i) => run[i] # NoRow /\ run[i].ident = req[q].start.ident

RequestsAgree == \A q \in Requests : \A i \in Intents : AgreesAt(q, i)

\* Whoever marks a run or is told that it was created inserted it, and a run
\* is only said to be created when it has its workflow.
EarnedBy(q) ==
  /\ req[q].at # "idle" => req[q].start \in Starts
  /\ req[q].at \in {"mark", "created", "error"} => req[q].inserted
  /\ req[q].inserted =>
       /\ req[q].at \in {"enqueue", "mark", "created", "replay", "error", "lost"}
       /\ run[req[q].start.intent] # NoRow
  /\ req[q].at = "created" => wf[req[q].start.intent] # NoWorkflow

AnswersEarned == \A q \in Requests : EarnedBy(q)

\* One request inserted a run.
OneInserter ==
  \A p, q \in Requests :
    req[p].inserted /\ req[q].inserted /\ req[p].start.intent = req[q].start.intent
      => p = q

\* What all answers rely on: the three places written agree, one request
\* inserted the run, and an answer says what its request did.
StartInv == RowsAgree /\ RequestsAgree /\ AnswersEarned /\ OneInserter
IInv == TypeOK /\ StartInv

Accepted(q) == req[q].at \in {"created", "replay"}

\* Requests for one intent that were answered with a run, on one server or on
\* two, asked for the same run: the same trace, tenant, partition and budget
\* and, if they named recipes, the same recipe (the 409 of insertRun and of
\* upsertIntentByHash).
IdentityAgreed ==
  \A p, q \in Requests :
    Accepted(p) /\ Accepted(q) /\ req[p].start.intent = req[q].start.intent =>
      /\ req[p].start.ident = req[q].start.ident
      /\ {req[p].start.recipe, req[q].start.recipe} \subseteq Recipes =>
           req[p].start.recipe = req[q].start.recipe

\* A client that is told 201 has a workflow, and at most one client is told so.
CreatedIsStarted ==
  \A p \in Requests : req[p].at = "created" =>
    /\ wf[req[p].start.intent] # NoWorkflow
    /\ \A q \in Requests \ {p} :
         req[q].start.intent = req[p].start.intent => req[q].at # "created"

\* A queued run without a workflow has an inserter that has not got further,
\* or died.
Awaited(i) ==
  run[i].status = "queued" /\ wf[i] = NoWorkflow =>
    \E q \in Requests : /\ req[q].inserted /\ req[q].start.intent = i
                        /\ req[q].at \in {"enqueue", "mark", "lost"}

\* A run stays queued without a workflow only because the server that
\* inserted it has not got further or died: a trigger that failed is seen in
\* the run's status.
OrphanOnlyByCrash == \A i \in Intents : Awaited(i)

\* As long as the request that inserted a run has not given its trigger up, the
\* row follows the workflow: it is open until the workflow is done.
Told(q) ==
  req[q].inserted /\ req[q].at \in {"enqueue", "created", "replay"} =>
    LET i == req[q].start.intent IN
    IF wf[i].state = "done" THEN run[i].status = wf[i].outcome
                            ELSE run[i].status \in {"queued", "running"}
RowFollows == \A q \in Requests : Told(q)

\* Once the request that inserted a run was answered with the run, the end of
\* the workflow is the status of the run for good: no later request for the
\* intent, whatever happens to its trigger, writes over it.
OutcomeShown ==
  \A i \in Intents :
    /\ wf[i].state = "done"
    /\ \E q \in Requests : req[q].inserted /\ req[q].start.intent = i /\ Accepted(q)
    => run[i].status = wf[i].outcome

\* The row shows what became of the run: nothing lost without a crash, nothing
\* written over.
RowShown == OrphanOnlyByCrash /\ RowFollows /\ OutcomeShown
=============================================================================
