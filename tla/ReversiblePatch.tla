--------------------------- MODULE ReversiblePatch ---------------------------
(***************************************************************************)
(* What ApplyPatchST and the rollback of a failed run do to the files of   *)
(* the workspace (src/workflow/patch/reversible.ts), statement by          *)
(* statement: runs of one worker interleave wherever the code awaits the   *)
(* database, the worker dies between two statements, other programs edit   *)
(* the files, and an operator forks a run, which executes the same run id  *)
(* again over the rows of app.patch_history that are already there.        *)
(*                                                                         *)
(* IntentRun says when a run applies and rolls back; here a run that has   *)
(* applied its patches either succeeds or is given up.  Reading a file,    *)
(* comparing its hash and writing it is synchronous code and one action.   *)
(* The artifacts of the patches are left out.                              *)
(***************************************************************************)
EXTENDS Naturals, Sequences

CONSTANTS
  Runs,        \* runs that share the workspace
  Paths,       \* files
  Texts,       \* contents of files
  Plans,       \* the patch plans the compiler may return for a run
  MaxPatches,  \* the length of the longest plan
  EditTexts,   \* what other programs write into a file
  MaxCrashes, MaxEdits, MaxForks  \* bounds on what happens from outside

Patch == [path : Paths, post : Texts]

ASSUME TextsAssumption ==
  {"empty", "old"} \subseteq Texts /\ Texts \cap {"none", "absent"} = {} /\ EditTexts \subseteq Texts
ASSUME PlansAssumption ==
  MaxPatches \in Nat /\ \A r \in Runs : \A q \in Plans[r] :
    /\ Len(q) \in 0..MaxPatches /\ DOMAIN q = 1..Len(q)
    /\ \A k \in 1..Len(q) : q[k] \in Patch
ASSUME BoundsAssumption ==
  MaxCrashes \in Nat /\ MaxEdits \in Nat /\ MaxForks \in Nat

VARIABLES
  files,    \* the workspace: a text, or "absent"
   \* the workspace at the beginning (for the properties)
  history,  \* app.patch_history, by run and patch index
  plan,     \* the plan of the run's current workflow
  phase,    \* how far the run's current workflow has got
  i, at,    \* patch index and statement in the loop of its step
  seen,     \* preimageContent, read before the INSERT
  crashes, edits, forks

posVars == <<phase, i, at>>
outsideVars == <<crashes, edits, forks>>
vars == <<files, history, plan, posVars, seen, outsideVars>>
-----------------------------------------------------------------------------
Indices == 1..MaxPatches

NoRow == [path |-> "none", pre |-> "none", post |-> "none",
          applied |-> FALSE, rolledBack |-> FALSE]

Rows == [path : Paths, pre : Texts, post : Texts,
         applied : BOOLEAN, rolledBack : BOOLEAN]

\* A run is settled when its workflow has ended.
SettledPhases == {"succeeded", "refused", "rolled", "stuck"}
Phases == {"apply", "applied", "rollback"} \cup SettledPhases

TypeOK ==
  /\ files \in [Paths -> Texts \cup {"absent"}]
  /\ history \in [Runs -> [Indices -> Rows \cup {NoRow}]]
  /\ DOMAIN plan = Runs /\ \A r \in Runs : plan[r] \in Plans[r]
  /\ phase \in [Runs -> Phases] /\ i \in [Runs -> 0..MaxPatches + 1]
  /\ at \in [Runs -> {"read", "insert", "write", "mark", "threw"}]
  /\ seen \in [Runs -> Texts]
  /\ crashes \in Nat /\ edits \in Nat /\ forks \in Nat

Init ==
  /\ files \in [Paths -> {"absent", "old"}]
  /\ history = [r \in Runs |-> [k \in Indices |-> NoRow]]
  /\ plan \in {q \in [Runs -> UNION {Plans[r] : r \in Runs}] :
                 \A r \in Runs : q[r] \in Plans[r]}
  /\ phase = [r \in Runs |-> "apply"] /\ i = [r \in Runs |-> 1]
  /\ at = [r \in Runs |-> "read"] /\ seen = [r \in Runs |-> "empty"]
  /\ crashes = 0 /\ edits = 0 /\ forks = 0
-----------------------------------------------------------------------------
\* readUtf8: a file that cannot be read is an empty one.
Read(p) == IF files[p] = "absent" THEN "empty" ELSE files[p]

At(r, ph, s) == phase[r] = ph /\ at[r] = s
GoTo(r, s) == at' = [at EXCEPT ![r] = s]
TheRow(r) == history[r][i[r]]

ReadPreimage(r) ==
  /\ At(r, "apply", "read") /\ i[r] <= Len(plan[r])
  /\ seen' = [seen EXCEPT ![r] = Read(plan[r][i[r]].path)] /\ GoTo(r, "insert")
  /\ UNCHANGED <<files, history, plan, phase, i, outsideVars>>

NewRow(r) == [path |-> plan[r][i[r]].path, pre |-> seen[r],
              post |-> plan[r][i[r]].post, applied |-> FALSE, rolledBack |-> FALSE]

\* Mutant: ON CONFLICT DO UPDATE.
InsertOrUpdate(r) ==
  /\ At(r, "apply", "insert") /\ GoTo(r, "write")
  /\ history' = [history EXCEPT ![r][i[r]] = NewRow(r)]
  /\ UNCHANGED <<files, plan, phase, i, seen, outsideVars>>

\* Mutant: no row for a file that holds the postimage already.
InsertUnlessPresent(r) ==
  /\ At(r, "apply", "insert") /\ GoTo(r, "write")
  /\ history' = IF TheRow(r) = NoRow /\ seen[r] # plan[r][i[r]].post
                  THEN [history EXCEPT ![r][i[r]] = NewRow(r)] ELSE history
  /\ UNCHANGED <<files, plan, phase, i, seen, outsideVars>>

\* ON CONFLICT DO NOTHING: the first execution's row stays.
InsertPatchHistory(r) ==
  /\ At(r, "apply", "insert") /\ GoTo(r, "write")
  /\ history' = IF TheRow(r) = NoRow
                  THEN [history EXCEPT ![r][i[r]] = NewRow(r)] ELSE history
  /\ UNCHANGED <<files, plan, phase, i, seen, outsideVars>>

\* Mutants: the file is not read again; a postimage is not recognised.
WriteWhatWasRead(r) ==
  /\ At(r, "apply", "write")
  /\ LET p == plan[r][i[r]].path IN
     \/ seen[r] = TheRow(r).post /\ GoTo(r, "mark") /\ UNCHANGED files
     \/ /\ seen[r] = TheRow(r).pre /\ GoTo(r, "mark")
        /\ files' = [files EXCEPT ![p] = TheRow(r).post]
     \/ /\ seen[r] \notin {TheRow(r).pre, TheRow(r).post}
        /\ GoTo(r, "threw") /\ UNCHANGED files
  /\ UNCHANGED <<history, plan, phase, i, seen, outsideVars>>
WriteOnlyOverPreimage(r) ==
  /\ At(r, "apply", "write")
  /\ LET p == plan[r][i[r]].path IN
     \/ /\ Read(p) = TheRow(r).pre /\ GoTo(r, "mark")
        /\ files' = [files EXCEPT ![p] = TheRow(r).post]
     \/ Read(p) # TheRow(r).pre /\ GoTo(r, "threw") /\ UNCHANGED files
  /\ UNCHANGED <<history, plan, phase, i, seen, outsideVars>>

\* The second read, the comparison with the row and the write.
WritePostimage(r) ==
  /\ At(r, "apply", "write")
  /\ LET p == plan[r][i[r]].path IN
     \/ Read(p) = TheRow(r).post /\ GoTo(r, "mark") /\ UNCHANGED files
     \/ /\ Read(p) # TheRow(r).post /\ Read(p) = TheRow(r).pre
        /\ files' = [files EXCEPT ![p] = TheRow(r).post] /\ GoTo(r, "mark")
     \/ /\ Read(p) \notin {TheRow(r).pre, TheRow(r).post}
        /\ GoTo(r, "threw") /\ UNCHANGED files
  /\ UNCHANGED <<history, plan, phase, i, seen, outsideVars>>

MarkApplied(r) ==
  /\ At(r, "apply", "mark") /\ GoTo(r, "read")
  /\ history' = [history EXCEPT ![r][i[r]] = [TheRow(r) EXCEPT !.applied = TRUE]]
  /\ i' = [i EXCEPT ![r] = @ + 1]
  /\ UNCHANGED <<files, plan, phase, seen, outsideVars>>

\* The loop is over and DBOS records the step.
Applied(r) ==
  /\ At(r, "apply", "read") /\ i[r] > Len(plan[r])
  /\ phase' = [phase EXCEPT ![r] = "applied"]
  /\ UNCHANGED <<files, history, plan, i, at, seen, outsideVars>>

\* The exception of apply leaves the workflow; that of rollback replaces the
\* error that is being handled.
Threw(r) ==
  /\ at[r] = "threw" /\ GoTo(r, "read")
  /\ phase' = [phase EXCEPT ![r] = IF @ = "apply" THEN "refused" ELSE "stuck"]
  /\ UNCHANGED <<files, history, plan, i, seen, outsideVars>>
-----------------------------------------------------------------------------
Succeed(r) ==
  /\ phase[r] = "applied" /\ phase' = [phase EXCEPT ![r] = "succeeded"]
  /\ UNCHANGED <<files, history, plan, i, at, seen, outsideVars>>

\* The catch of runCoreSteps: the rows of the step, whatever plan they are of,
\* from the last to the first.
GiveUp(r) ==
  /\ phase[r] = "applied" /\ phase' = [phase EXCEPT ![r] = "rollback"]
  /\ i' = [i EXCEPT ![r] = MaxPatches]
  /\ UNCHANGED <<files, history, plan, at, seen, outsideVars>>

SkipRow(r) ==
  /\ At(r, "rollback", "read") /\ i[r] > 0
  /\ ~TheRow(r).applied \/ TheRow(r).rolledBack
  /\ i' = [i EXCEPT ![r] = @ - 1]
  /\ UNCHANGED <<files, history, plan, phase, at, seen, outsideVars>>

\* Mutant: the rollback does not look at what it overwrites.
RestoreBlindly(r) ==
  /\ At(r, "rollback", "read") /\ i[r] > 0
  /\ TheRow(r).applied /\ ~TheRow(r).rolledBack
  /\ files' = [files EXCEPT ![TheRow(r).path] = TheRow(r).pre] /\ GoTo(r, "mark")
  /\ UNCHANGED <<history, plan, phase, i, seen, outsideVars>>

RestorePreimage(r) ==
  /\ At(r, "rollback", "read") /\ i[r] > 0
  /\ TheRow(r).applied /\ ~TheRow(r).rolledBack
  /\ LET p == TheRow(r).path IN
     \/ Read(p) = TheRow(r).pre /\ GoTo(r, "mark") /\ UNCHANGED files
     \/ /\ Read(p) # TheRow(r).pre /\ Read(p) = TheRow(r).post
        /\ files' = [files EXCEPT ![p] = TheRow(r).pre] /\ GoTo(r, "mark")
     \/ /\ Read(p) \notin {TheRow(r).pre, TheRow(r).post}
        /\ GoTo(r, "threw") /\ UNCHANGED files
  /\ UNCHANGED <<history, plan, phase, i, seen, outsideVars>>

MarkRolledBack(r) ==
  /\ At(r, "rollback", "mark") /\ GoTo(r, "read")
  /\ history' = [history EXCEPT ![r][i[r]] = [TheRow(r) EXCEPT !.rolledBack = TRUE]]
  /\ i' = [i EXCEPT ![r] = @ - 1]
  /\ UNCHANGED <<files, plan, phase, seen, outsideVars>>

RolledBack(r) ==
  /\ At(r, "rollback", "read") /\ i[r] = 0
  /\ phase' = [phase EXCEPT ![r] = "rolled"]
  /\ UNCHANGED <<files, history, plan, i, at, seen, outsideVars>>
-----------------------------------------------------------------------------
\* The worker dies; on recovery every step that was under way begins again.
Crash ==
  /\ crashes < MaxCrashes /\ crashes' = crashes + 1
  /\ i' = [r \in Runs |-> CASE phase[r] = "apply" -> 1
                            [] phase[r] = "rollback" -> MaxPatches
                            [] OTHER -> i[r]]
  /\ at' = [r \in Runs |-> "read"] /\ seen' = [r \in Runs |-> "empty"]
  /\ UNCHANGED <<files, history, plan, phase, edits, forks>>

Edit ==
  /\ edits < MaxEdits /\ edits' = edits + 1
  /\ \E p \in Paths, t \in EditTexts : files' = [files EXCEPT ![p] = t]
  /\ UNCHANGED <<history, plan, posVars, seen, crashes, forks>>

\* server/ops-api.ts forkWorkflow, of a workflow that has ended (the code forks
\* running ones as well, which this module leaves out): from CompileST,
\* with whatever plan it returns now, from ApplyPatchST with the same plan, or
\* from a later step if the log has the output of ApplyPatchST.
Fork(r) ==
  /\ forks < MaxForks /\ forks' = forks + 1
  /\ phase[r] \in SettledPhases
  /\ \/ /\ \E q \in Plans[r] : plan' = [plan EXCEPT ![r] = q]
        /\ phase' = [phase EXCEPT ![r] = "apply"] /\ i' = [i EXCEPT ![r] = 1]
     \/ /\ phase[r] # "refused" /\ phase' = [phase EXCEPT ![r] = "applied"]
        /\ UNCHANGED <<plan, i>>
  /\ UNCHANGED <<files, history, at, seen, crashes, edits>>

RunStep(r) ==
  \/ ReadPreimage(r) \/ InsertPatchHistory(r) \/ WritePostimage(r) \/ MarkApplied(r)
  \/ Applied(r) \/ Threw(r) \/ Succeed(r) \/ GiveUp(r) \/ SkipRow(r)
  \/ RestorePreimage(r) \/ MarkRolledBack(r) \/ RolledBack(r) \/ Fork(r)

Next == Crash \/ Edit \/ \E r \in Runs : RunStep(r)

Spec == Init /\ [][Next]_vars
-----------------------------------------------------------------------------
PathsOf(r) == UNION {{q[k].path : k \in 1..Len(q)} : q \in Plans[r]}
Shares(r, o) == o # r /\ PathsOf(r) \cap PathsOf(o) # {}

\* Nobody but the run has written its files.
Alone(r) ==
  /\ edits = 0
  /\ \A o \in Runs : Shares(r, o) => \A k \in Indices : history[o][k] = NoRow

\* Every file of the plan holds the text of the plan's last patch of it.
InPlace(r) ==
  \A k \in 1..Len(plan[r]) :
    (\A m \in k + 1..Len(plan[r]) : plan[r][m].path # plan[r][k].path)
      => files[plan[r][k].path] = plan[r][k].post

\* A run whose ApplyPatchST ended, and that was not given up, has its plan in
\* the workspace, although other runs patched the same files and were rolled
\* back again and workers died on the way.  (Not so for a fork with another
\* plan, which writes what the rows of the old plan say.)
AppliedKept ==
  \A r \in Runs :
    /\ phase[r] \in {"applied", "succeeded"} /\ edits = 0 /\ forks = 0
    /\ \A o \in Runs : Shares(r, o) => phase[o] = "rolled"
    => InPlace(r)

\* No text a run wrote is in the workspace once its rollback has ended, even
\* when crashes made apply and rollback begin again and others patched on top.
RollbackRestores ==
  \A r \in Runs, k \in Indices :
    forks = 0 /\ phase[r] = "rolled" /\ history[r][k] # NoRow
      => files[history[r][k].path] # history[r][k].post

\* Without a fork a row is of the plan and the rows have no gaps; they are
\* applied up to where the loop of ApplyPatchST stands, and rolled back down to
\* where that of the rollback stands.
PlanRow(r, k) ==
  LET h == history[r][k] IN
  /\ h # NoRow => /\ k <= Len(plan[r])
                  /\ h.path = plan[r][k].path /\ h.post = plan[r][k].post
                  /\ \A m \in 1..k - 1 : history[r][m] # NoRow
  /\ h.rolledBack => phase[r] \in {"rollback", "rolled", "stuck"}
  /\ phase[r] = "apply" /\ k < i[r] => h.applied
  /\ phase[r] \in Phases \ {"apply", "refused"} /\ k <= Len(plan[r]) => h.applied
  /\ h # NoRow /\ (phase[r] = "rolled" \/ (phase[r] = "rollback" /\ k > i[r])) =>
       h.rolledBack

PlanInv == forks = 0 => \A r \in Runs, k \in Indices : PlanRow(r, k)

\* The rows there are; those of a file.
Row(a) == history[a[1]][a[2]]
Inserted == {a \in Runs \X Indices : Row(a) # NoRow}
On(p) == {a \in Inserted : Row(a).path = p}
PostsOn(p) == {Row(a).post : a \in On(p)}

\* The texts that were in a file, are in it or may come into it again.
KnownAt(p) == {"empty", "old"} \cup EditTexts \cup PostsOn(p)

KnownInv ==
  forks = 0 =>
    /\ \A p \in Paths : files[p] \in KnownAt(p) \cup {"absent"}
    /\ \A a \in Inserted : Row(a).pre \in KnownAt(Row(a).path)
    /\ \A r \in Runs : At(r, "apply", "insert") => seen[r] \in KnownAt(plan[r][i[r]].path)

\* D holds the text of the row a and all that was written on top of it, and
\* nothing that was there before.
Above(a, D) ==
  /\ Row(a).post \in D /\ Row(a).pre \notin D
  /\ \A b \in On(Row(a).path) \ {a} : Row(b).post \in D <=> Row(b).pre \in D
  /\ \A b \in On(Row(a).path) : b[1] = a[1] /\ b[2] < a[2] => Row(b).post \notin D

\* The text of the row was taken out of the file; it was put in and nobody
\* but the runs touched the file.
TakenOut(a) ==
  Row(a).rolledBack \/ (At(a[1], "rollback", "mark") /\ i[a[1]] = a[2])
Standing(a) ==
  /\ phase[a[1]] \in {"apply", "applied", "succeeded"} /\ edits = 0
  /\ Row(a).applied \/ (At(a[1], "apply", "mark") /\ i[a[1]] = a[2])

\* The texts on a file form a stack, whatever order the runs come in: what was
\* taken out of it does not come back, and what is standing is in it.
StackInv ==
  forks = 0 =>
    \A a \in Inserted : \E D \in SUBSET PostsOn(Row(a).path) :
      /\ Above(a, D)
      /\ TakenOut(a) => files[Row(a).path] \notin D
      /\ Standing(a) => files[Row(a).path] \in D

\* The workspace is as the phases of the runs say.
FilesFit == KnownInv /\ StackInv /\ AppliedKept /\ RollbackRestores

\* What a run alone with its files finds there: one side of its row.
AloneInv ==
  forks = 0 =>
    \A r \in Runs : Alone(r) =>
      /\ at[r] # "threw" /\ phase[r] \notin {"refused", "stuck"}
      /\ At(r, "apply", "insert") => seen[r] = Read(plan[r][i[r]].path)
      /\ \A k \in Indices : history[r][k] # NoRow =>
           Read(history[r][k].path) \in {history[r][k].pre, history[r][k].post}

\* Crashes alone never make ApplyPatchST or the rollback throw.  (Plans that
\* patch a file twice are not replayed, see the README.)
ReplayConverges ==
  /\ PlanInv /\ AloneInv
  /\ \A r \in Runs : forks = 0 /\ Alone(r) => phase[r] \notin {"refused", "stuck"}

\* What the theorems on these two ask of the plans: no two patches, of one run
\* or of two, leave the same text in the same file, or one that was there
\* without them; no plan patches a file twice.
FreshTexts ==
  \A r, o \in Runs : \A q \in Plans[r], u \in Plans[o] : r # o \/ q = u =>
    \A k \in 1..Len(q) :
      /\ q[k].post \notin {"empty", "old"} \cup EditTexts
      /\ \A m \in 1..Len(u) : q[k] = u[m] => r = o /\ k = m
PatchesOnce ==
  \A r \in Runs : \A q \in Plans[r] : \A k, m \in 1..Len(q) :
    q[k].path = q[m].path => k = m

\* Whatever text a run takes out of the workspace is kept in a row of the
\* patch history: no edit of another program or run is lost.
NothingLost ==
  [][\A p \in Paths : files'[p] # files[p] /\ edits' = edits =>
       \E r \in Runs, k \in Indices :
         Read(p) \in {history[r][k].pre, history[r][k].post}]_vars
-----------------------------------------------------------------------------
\* What the position in the loops tells about the history: with TypeOK the
\* inductive invariant of the proofs.
RowInv ==
  \A r \in Runs :
    /\ phase[r] \notin {"apply", "rollback"} => at[r] = "read"
    /\ phase[r] = "rollback" => at[r] \in {"read", "mark", "threw"}
    /\ at[r] # "read" /\ phase[r] = "apply" => i[r] \in 1..Len(plan[r])
    /\ phase[r] = "apply" => i[r] \in 1..Len(plan[r]) + 1
    /\ phase[r] = "rollback" => i[r] \in 0..MaxPatches
    /\ at[r] \in {"write", "mark", "threw"} => i[r] \in Indices /\ TheRow(r) # NoRow
IInv == TypeOK /\ RowInv
=============================================================================
