------------------------------ MODULE Recipes ------------------------------
(***************************************************************************)
(* Versions of recipes (src/db/recipeRepo.ts, fixtureRepo.ts) and the      *)
(* evaluation of what their runs produced (src/eval/evaluate-run.ts,       *)
(* src/db/evalRepo.ts).                                                    *)
(*                                                                         *)
(* A bundle of versions is imported in one transaction (READ COMMITTED):   *)
(* what it inserted is seen by nobody else before it commits, but a row of *)
(* the same key makes another transaction wait.  A version is a draft, a   *)
(* candidate, then stable, and never changes what it says.                 *)
(***************************************************************************)
EXTENDS Naturals, FiniteSets, Sequences, Relation

CONSTANTS
  Importers,
  Bundles,   \* sequences of RecipeSpecs a client may send
  Legacy,    \* the stable versions migration 022 makes of old recipes
  Checks,    \* the checks of a recipe: a sequence, in the order of their ids
  Needs,     \* what a check looks at: a set of artifacts
  Evaluators,
  MaxImports, MaxEvaluations \* bounds, per importer and per evaluator

Specs == (UNION {{b[i] : i \in DOMAIN b} : b \in Bundles}) \cup Legacy
Artifacts == UNION {Needs[c] : c \in DOMAIN Needs}
Key(s) == <<s.id, s.v>>
Keys == {Key(s) : s \in Specs}
Ids == {s.id : s \in Specs}
Row(rows, k) == CHOOSE s \in rows : Key(s) = k
None == [id |-> "none", v |-> 0, name |-> "none", evals |-> 0, fixtures |-> {}]
NoResult == {"none"}  \* a row of eval_results that is not there
CheckIds == {Checks[i] : i \in DOMAIN Checks}

\* A bundle has a version (RecipeBundle, minItems); app.recipes, whose rows
\* migration 022 makes versions of, has one row of an id.
ASSUME RecipesAssumption ==
  /\ \A b \in Bundles : b \in Seq({b[i] : i \in DOMAIN b}) /\ b # <<>>
  /\ None \notin Specs
  /\ \A s, l \in Legacy : s.id = l.id => s = l
  /\ "none" \notin Artifacts /\ {MaxImports, MaxEvaluations} \subseteq Nat

\* In the order of their ids, checks of one id follow each other.
ASSUME ChecksAssumption ==
  /\ Checks \in Seq(CheckIds)
  /\ \A i, j, l \in DOMAIN Checks :
       i <= j /\ j <= l /\ Checks[i] = Checks[l] => Checks[j] = Checks[i]

VARIABLES
  version,  \* app.recipe_versions: spec and status, by key
  fixture,  \* app.recipe_fixtures: <<key, fixture id, content>>
  recipe,   \* app.recipes: the name and the active version, by id
  imp,      \* importBundle of an importer: where it is, what it inserted
  left,     \* imports and evaluations that may still begin
  artifact, indexed, \* app.artifacts of the run, and whether its index is there
  result,   \* app.eval_results of the run
  eval,     \* evaluateRun of an evaluator
  reads     \* for the properties: what the evaluations so far have seen

registry == <<version, fixture, recipe>>
runVars == <<artifact, indexed, result, eval, reads>>
vars == <<registry, imp, left, runVars>>

Statuses == {"draft", "candidate", "stable"}
ImportSteps == {"idle", "check", "insert", "fixtures", "verify", "commit", "done", "refused"}
FixtureRows(s) == {<<Key(s), f[1], f[2]>> : f \in s.fixtures}
NoImport == [pc |-> "idle", bundle |-> <<>>, at |-> 0, rows |-> {}, fixtures |-> {}]
NoEval == [pc |-> "idle", saw |-> {}, at |-> 0]

InitWith(bound) ==
  /\ version = [k \in Keys |->
       IF \E s \in Legacy : Key(s) = k
         THEN [spec |-> Row(Legacy, k), status |-> "stable"]
         ELSE [spec |-> None, status |-> "none"]]
  /\ fixture = {}
  /\ recipe = [i \in Ids |->
       LET s == IF \E l \in Legacy : l.id = i THEN CHOOSE l \in Legacy : l.id = i ELSE None
       IN [name |-> s.name, active |-> s]]
  /\ imp = [i \in Importers |-> NoImport]
  /\ left = bound
  /\ artifact = {} /\ indexed = FALSE
  /\ result = [c \in CheckIds |-> NoResult]
  /\ eval = [e \in Evaluators |-> NoEval] /\ reads = {}

Init == InitWith([p \in Importers \cup Evaluators |->
                    IF p \in Importers THEN MaxImports ELSE MaxEvaluations])
-----------------------------------------------------------------------------
(* importBundle and insertVersion. *)

At(i) == imp[i].bundle[imp[i].at]  \* the version at hand
Others(i) == Importers \ {i}
Exists(i, k) == version[k].spec # None \/ \E s \in imp[i].rows : Key(s) = k
\* What SELECT finds: what is committed, or what this transaction inserted.
Stored(i, k) ==
  IF version[k].spec # None THEN version[k].spec ELSE Row(imp[i].rows, k)
SeenFixtures(i) == fixture \cup imp[i].fixtures
Step(i, r) == imp' = [imp EXCEPT ![i] = r] /\ UNCHANGED <<registry, left, runVars>>
Rollback(i) == Step(i, [NoImport EXCEPT !.pc = "refused"])
InTransaction(i) == imp[i].pc \notin {"idle", "done", "refused"}

Import(i, b) ==
  /\ ~InTransaction(i) /\ left[i] > 0
  /\ left' = [left EXCEPT ![i] = @ - 1]
  /\ imp' = [imp EXCEPT ![i] = [NoImport EXCEPT !.pc = "check", !.bundle = b, !.at = 1]]
  /\ UNCHANGED <<registry, runVars>>

\* Mutant: the refusal leaves the transaction open.
CheckStableOpen(i) ==
  /\ imp[i].pc = "check" /\ version[Key(At(i))].status # "stable"
  /\ Step(i, [imp[i] EXCEPT !.pc = "insert"])

\* A stable version is immutable: the whole bundle is refused.
CheckStable(i) ==
  /\ imp[i].pc = "check"
  /\ IF version[Key(At(i))].status = "stable"
       THEN Rollback(i)
       ELSE Step(i, [imp[i] EXCEPT !.pc = "insert"])

\* The uncommitted rows of others that an INSERT has to wait for.
WaitsFor(i) ==
  LET k == Key(At(i)) IN
  {j \in Others(i) :
     \/ imp[i].pc = "insert" /\ ~Exists(i, k) /\ \E s \in imp[j].rows : Key(s) = k
     \/ /\ imp[i].pc = "fixtures"
        /\ \E f \in At(i).fixtures :
             /\ ~\E r \in SeenFixtures(i) : r[1] = k /\ r[2] = f[1]
             /\ \E r \in imp[j].fixtures : r[1] = k /\ r[2] = f[1]}

\* Mutant: ON CONFLICT DO UPDATE.
InsertOver(i) ==
  /\ imp[i].pc = "insert"
  /\ version' = [version EXCEPT ![Key(At(i))].spec = IF @ = None THEN @ ELSE At(i)]
  /\ imp' = [imp EXCEPT ![i] = [@ EXCEPT !.pc = "fixtures",
       !.rows = IF Exists(i, Key(At(i))) THEN @ ELSE @ \cup {At(i)}]]
  /\ UNCHANGED <<fixture, recipe, left, runVars>>

\* INSERT ... ON CONFLICT DO NOTHING.
Insert(i) ==
  /\ imp[i].pc = "insert" /\ WaitsFor(i) = {}
  /\ Step(i, [imp[i] EXCEPT !.pc = "fixtures",
       !.rows = IF Exists(i, Key(At(i))) THEN @ ELSE @ \cup {At(i)}])

\* insertRecipeFixtures: those that are there must say the same.
Fixtures(i) ==
  LET k == Key(At(i))
      wanted == FixtureRows(At(i))
      differs == \E w \in wanted, r \in SeenFixtures(i) \cup wanted :
                   r[1] = w[1] /\ r[2] = w[2] /\ r[3] # w[3] IN
  /\ imp[i].pc = "fixtures" /\ WaitsFor(i) = {}
  /\ IF differs
       THEN Rollback(i)
       ELSE Step(i, [imp[i] EXCEPT !.pc = "verify",
                       !.fixtures = @ \cup (wanted \ SeenFixtures(i))])

\* Mutant: the row is not compared with the version that was sent.
VerifyNothing(i) ==
  /\ imp[i].pc = "verify"
  /\ Step(i, IF imp[i].at < Len(imp[i].bundle)
               THEN [imp[i] EXCEPT !.pc = "check", !.at = @ + 1]
               ELSE [imp[i] EXCEPT !.pc = "commit"])

\* The hash of the row must be the hash of the version.
Verify(i) ==
  /\ imp[i].pc = "verify"
  /\ IF Stored(i, Key(At(i))) # At(i)
       THEN Rollback(i)
       ELSE Step(i, IF imp[i].at < Len(imp[i].bundle)
                      THEN [imp[i] EXCEPT !.pc = "check", !.at = @ + 1]
                      ELSE [imp[i] EXCEPT !.pc = "commit"])

Commit(i) ==
  /\ imp[i].pc = "commit"
  /\ version' = [k \in Keys |->
       IF \E s \in imp[i].rows : Key(s) = k
         THEN [spec |-> Row(imp[i].rows, k), status |-> "draft"]
         ELSE version[k]]
  /\ fixture' = fixture \cup imp[i].fixtures
  /\ imp' = [imp EXCEPT ![i].pc = "done", ![i].rows = {}, ![i].fixtures = {}]
  /\ UNCHANGED <<recipe, left, runVars>>

\* PostgreSQL ends a cycle of waiting transactions by refusing one of them; a
\* server that dies leaves a transaction that is rolled back.
Deadlocked(i) ==
  LET waits == {e \in Importers \X Importers : InTransaction(e[1]) /\ e[2] \in WaitsFor(e[1])}
  IN TransitiveClosure([e \in Importers \X Importers |-> e \in waits], Importers)[i, i]
Abort(i) == InTransaction(i) /\ Rollback(i)
-----------------------------------------------------------------------------
(* setCandidate and promoteStable. *)

SetCandidate(k) ==
  /\ version[k].status = "draft"
  /\ version' = [version EXCEPT ![k].status = "candidate"]
  /\ UNCHANGED <<fixture, recipe, imp, left, runVars>>

\* Mutant: any version that exists may be promoted.
PromoteAny(k) ==
  /\ version[k].spec # None
  /\ version' = [version EXCEPT ![k].status = "stable"]
  /\ recipe' = [recipe EXCEPT ![k[1]].active = version[k].spec]
  /\ UNCHANGED <<fixture, imp, left, runVars>>

\* One transaction under the lock of the version's row.  Coverage is counted,
\* not evaluated; the unique name of a recipe may refuse it.
Promote(k) ==
  LET s == version[k].spec IN
  /\ version[k].status = "candidate"
  /\ s.evals >= 1 /\ \E r \in fixture : r[1] = k
  /\ recipe[s.id].active = None => \A i \in Ids : recipe[i].name # s.name
  /\ version' = [version EXCEPT ![k].status = "stable"]
  /\ recipe' = [recipe EXCEPT ![s.id].active = s,
                              ![s.id].name = IF @ = "none" THEN s.name ELSE @]
  /\ UNCHANGED <<fixture, imp, left, runVars>>
-----------------------------------------------------------------------------
(* evaluateRun of a run that may still be going on, and saveEvalResults.  A *)
(* result is what the check saw.                                            *)

AddArtifact(a) ==
  /\ a \notin artifact
  /\ artifact' = artifact \cup {a} /\ UNCHANGED <<registry, imp, left, indexed, result, eval, reads>>

AddIndex ==
  /\ ~indexed
  /\ indexed' = TRUE /\ UNCHANGED <<registry, imp, left, artifact, result, eval, reads>>

Result(c, saw) == saw \cap Needs[c]

\* A process that dies in the loop below saves no more; its evaluation may be
\* begun again by another.  Without an index the evaluation is refused and nothing changes.
Evaluate(e) ==
  /\ eval[e].pc # "save" /\ left[e] > 0 /\ indexed
  /\ left' = [left EXCEPT ![e] = @ - 1]
  /\ eval' = [eval EXCEPT ![e] = [pc |-> IF Checks = <<>> THEN "done" ELSE "save",
                                    saw |-> artifact, at |-> 1]]
  /\ reads' = reads \cup {artifact}
  /\ UNCHANGED <<registry, imp, artifact, indexed, result>>

After(e, ok, at) ==
  IF ~ok THEN "diverged" ELSE IF at = Len(Checks) THEN "done" ELSE "save"

\* Mutant: a row that is there is taken for the row meant.
SaveUnchecked(e) ==
  LET c == Checks[eval[e].at] IN
  /\ eval[e].pc = "save"
  /\ result' = [result EXCEPT ![c] = IF @ = NoResult THEN Result(c, eval[e].saw) ELSE @]
  /\ eval' = [eval EXCEPT ![e].pc = After(e, TRUE, eval[e].at), ![e].at = @ + 1]
  /\ UNCHANGED <<registry, imp, left, artifact, indexed, reads>>

\* INSERT ... ON CONFLICT DO NOTHING, and the comparison with what is there.
Save(e) ==
  LET c == Checks[eval[e].at]
      mine == Result(c, eval[e].saw) IN
  /\ eval[e].pc = "save"
  /\ result' = [result EXCEPT ![c] = IF @ = NoResult THEN mine ELSE @]
  /\ eval' = [eval EXCEPT ![e].pc = After(e, result'[c] = mine, eval[e].at), ![e].at = @ + 1]
  /\ UNCHANGED <<registry, imp, left, artifact, indexed, reads>>
-----------------------------------------------------------------------------
Transaction(i) ==
  CheckStable(i) \/ Insert(i) \/ Fixtures(i) \/ Verify(i) \/ Commit(i)

Next ==
  \/ \E i \in Importers :
       \/ \E b \in Bundles : Import(i, b)
       \/ CheckStable(i) \/ Insert(i) \/ Fixtures(i) \/ Verify(i) \/ Commit(i) \/ Abort(i)
  \/ \E k \in Keys : SetCandidate(k) \/ Promote(k)
  \/ (\E a \in Artifacts : AddArtifact(a)) \/ AddIndex
  \/ \E e \in Evaluators : Evaluate(e) \/ Save(e)

\* The server goes on with a transaction it began, and PostgreSQL finds cycles.
Fairness ==
  \A i \in Importers :
    WF_vars(Transaction(i)) /\ WF_vars(Deadlocked(i) /\ Abort(i))
Spec == Init /\ [][Next]_vars /\ Fairness
-----------------------------------------------------------------------------
(* Correctness. *)

TypeOK ==
  /\ version \in [Keys -> [spec : Specs \cup {None}, status : Statuses \cup {"none"}]]
  /\ recipe \in [Ids -> [name : {s.name : s \in Specs} \cup {"none"},
                          active : Specs \cup {None}]]
  /\ imp \in [Importers -> [pc : ImportSteps, bundle : Bundles \cup {<<>>}, at : Nat,
                            rows : SUBSET Specs,
                            fixtures : SUBSET UNION {FixtureRows(s) : s \in Specs}]]

\* A version is what its key says; what migration 022 made is stable.
VersionInv ==
  /\ \A k \in Keys : /\ version[k].spec # None => Key(version[k].spec) = k
                     /\ version[k].spec = None <=> version[k].status = "none"
  /\ \A s \in Legacy : version[Key(s)] = [spec |-> s, status |-> "stable"]

RowsOf(i, k) == {s \in imp[i].rows : Key(s) = k}
FixturesOf(i, k) == {r \in imp[i].fixtures : r[1] = k}
Settled(i, k) == FixturesOf(i, k) = UNION {FixtureRows(s) : s \in RowsOf(i, k)}

\* What a transaction has inserted: versions that are nobody's yet, each once,
\* and for each of them its fixtures, save where the version at hand is not yet
\* compared or not the one that is there.
ImportInv(i) ==
  LET k == Key(At(i)) IN
  /\ InTransaction(i) => imp[i].bundle \in Bundles /\ imp[i].at \in DOMAIN imp[i].bundle
  /\ ~InTransaction(i) => imp[i].rows = {} /\ imp[i].fixtures = {}
  /\ \A s \in imp[i].rows :
       /\ version[Key(s)].spec = None
       /\ \A t \in imp[i].rows : Key(s) = Key(t) => s = t
       /\ \A j \in Others(i) : \A t \in imp[j].rows : Key(s) # Key(t)
  /\ imp[i].pc \in {"insert", "fixtures", "verify"} => At(i) \notin Legacy
  /\ imp[i].pc \in {"fixtures", "verify"} => Exists(i, k)
  /\ \A q \in Keys :
       \/ Settled(i, q)
       \/ q = k /\ imp[i].pc = "fixtures" /\ At(i) \in imp[i].rows /\ FixturesOf(i, q) = {}
       \/ q = k /\ imp[i].pc = "verify" /\ Stored(i, q) # At(i)

\* The fixtures kept for a version are those it lists: a bundle that says
\* something else of the version leaves none of its own behind (insertVersion
\* inserts fixtures before it compares the hash).
FixturesAreTheSpecs ==
  \A k \in Keys :
    {r \in fixture : r[1] = k} =
      IF version[k].spec = None \/ version[k].spec \in Legacy
        THEN {} ELSE FixtureRows(version[k].spec)

\* findStable finds the version runs are to use: the active version of a recipe
\* is stable, says what app.recipes says, and has a check and a fixture
\* (docs/adr/009-data-first-recipe-flywheel.md, "fail-closed unless coverage
\* floor met").
ActiveIsStable ==
  \A i \in Ids : recipe[i].active # None =>
    LET s == recipe[i].active IN
    /\ version[Key(s)] = [spec |-> s, status |-> "stable"]
    /\ s \in Legacy \/ (s.evals >= 1 /\ \E r \in fixture : r[1] = Key(s))

\* The registry hangs together, whatever transactions are open: fixtures are
\* the spec's, and what runs are to use is stable and covered.
RegistryCoherent ==
  /\ TypeOK /\ VersionInv /\ \A i \in Importers : ImportInv(i)
  /\ FixturesAreTheSpecs /\ ActiveIsStable

\* What a version says never changes, its status only goes up, and no import
\* touches a stable version ("append-only, immutable").
StableKept ==
  [][\A k \in Keys :
       version[k].spec # None =>
         /\ version'[k].spec = version[k].spec
         /\ version[k].status = "stable" => version'[k].status = "stable"
         /\ {r \in fixture' : r[1] = k} = {r \in fixture : r[1] = k}]_vars

\* Every import comes to an end, by commit or refusal, also when two wait for each
\* other (importBundle's transaction).
ImportsEnd == \A i \in Importers : InTransaction(i) ~> ~InTransaction(i)

\* An evaluation that is saving has found or left its own results so far, and
\* results are left in the order of the checks.
EvalInv ==
  /\ artifact \subseteq Artifacts
  /\ eval \in [Evaluators -> [pc : {"idle", "save", "done", "diverged"},
                              saw : SUBSET Artifacts, at : Nat]]
  /\ result \in [CheckIds -> (SUBSET Artifacts) \cup {NoResult}]
  /\ \A e \in Evaluators : eval[e].pc \in {"save", "done"} =>
       /\ eval[e].saw \in reads
       /\ eval[e].pc = "save" => eval[e].at \in DOMAIN Checks
       /\ \A j \in DOMAIN Checks : j < eval[e].at \/ eval[e].pc = "done" =>
            result[Checks[j]] = Result(Checks[j], eval[e].saw)
  /\ \A i, j \in DOMAIN Checks :
       i < j /\ result[Checks[j]] # NoResult => result[Checks[i]] # NoResult

\* The results kept of a run are those of one evaluation, although evaluations
\* of different states of the run save theirs row by row; an evaluation that
\* ends well is that one.
ResultsCohere ==
  /\ EvalInv
  /\ (\E c \in CheckIds : result[c] # NoResult) =>
       \E saw \in reads : \A c \in CheckIds : result[c] \in {NoResult, Result(c, saw)}
  /\ \A e \in Evaluators : eval[e].pc = "done" =>
       \A c \in CheckIds : result[c] = Result(c, eval[e].saw)
=============================================================================
