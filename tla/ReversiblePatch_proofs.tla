------------------------ MODULE ReversiblePatch_proofs ------------------------
(***************************************************************************)
(* Proofs about ReversiblePatch for every set of runs, files, texts and    *)
(* plans, and any number of crashes, edits and forks.                      *)
(***************************************************************************)
EXTENDS ReversiblePatch, TLAPS
-----------------------------------------------------------------------------
\* The patches of a plan are typed, and their indices fit the history.
LEMMA PlanTyped ==
  ASSUME TypeOK, NEW r \in Runs
  PROVE  /\ Len(plan[r]) \in 0..MaxPatches
         /\ \A k \in 1..Len(plan[r]) :
              k \in Indices /\ plan[r][k].path \in Paths /\ plan[r][k].post \in Texts
  <1>1. plan[r] \in Plans[r]
    BY DEF TypeOK
  <1>2. /\ Len(plan[r]) \in 0..MaxPatches
        /\ \A k \in 1..Len(plan[r]) : plan[r][k] \in Patch
    BY <1>1, PlansAssumption
  <1> QED
    BY <1>2, PlansAssumption DEF Patch, Indices

\* What a file reads as is a text.
LEMMA ReadTyped ==
  ASSUME TypeOK, NEW p \in Paths
  PROVE  Read(p) \in Texts
  BY TextsAssumption DEF TypeOK, Read

\* A row that is there is a typed row.
LEMMA RowTyped ==
  ASSUME IInv, NEW r \in Runs, at[r] \in {"write", "mark", "threw"}
  PROVE  TheRow(r) \in Rows /\ i[r] \in Indices
  <1>1. i[r] \in Indices /\ TheRow(r) # NoRow
    BY DEF IInv, RowInv
  <1>2. history[r][i[r]] \in Rows \cup {NoRow}
    BY <1>1 DEF IInv, TypeOK
  <1> QED
    BY <1>1, <1>2 DEF TheRow

LEMMA InitIInv == Init => IInv
  <1> SUFFICES ASSUME Init PROVE IInv
    OBVIOUS
  <1>1. TypeOK
    BY TextsAssumption, PlansAssumption DEF Init, TypeOK, Indices, Rows, Phases
  <1>2. \A r \in Runs : Len(plan[r]) \in 0..MaxPatches
    BY <1>1, PlanTyped
  <1>3. RowInv
    <2> SUFFICES ASSUME NEW r \in Runs
                 PROVE  /\ phase[r] = "apply" /\ at[r] = "read"
                        /\ i[r] \in 1..Len(plan[r]) + 1
      BY DEF RowInv
    <2>1. Len(plan[r]) \in Nat
      BY <1>2, PlansAssumption
    <2> QED
      BY <2>1 DEF Init
  <1> QED
    BY <1>1, <1>3 DEF IInv
-----------------------------------------------------------------------------
(* Every step preserves the invariant: the steps of apply. *)

LEMMA ApplySteps ==
  ASSUME IInv, NEW r \in Runs,
         \/ ReadPreimage(r) \/ InsertPatchHistory(r) \/ WritePostimage(r)
         \/ MarkApplied(r) \/ Applied(r) \/ Threw(r)
  PROVE  IInv'
  <1> USE DEF IInv
  <1>1. Len(plan[r]) \in 0..MaxPatches /\ MaxPatches \in Nat
    BY PlanTyped, PlansAssumption
  <1>2. CASE ReadPreimage(r)
    <2>1. i[r] \in 1..Len(plan[r])
      BY <1>1, <1>2 DEF ReadPreimage, RowInv, At
    <2>2. Read(plan[r][i[r]].path) \in Texts
      BY <2>1, PlanTyped, ReadTyped
    <2>3. TypeOK'
      BY <1>2, <2>2 DEF ReadPreimage, TypeOK, GoTo, outsideVars
    <2>4. RowInv'
      BY <1>2, <2>1 DEF ReadPreimage, RowInv, TypeOK, GoTo, At, TheRow, outsideVars
    <2> QED
      BY <2>3, <2>4
  <1>3. CASE InsertPatchHistory(r)
    <2>1. i[r] \in 1..Len(plan[r]) /\ i[r] \in Indices
      BY <1>3, PlanTyped DEF InsertPatchHistory, RowInv, At
    <2>2. NewRow(r) \in Rows
      BY <2>1, PlanTyped DEF NewRow, Rows, TypeOK
    <2>3. NewRow(r) # NoRow
      BY <2>2, TextsAssumption DEF Rows, NoRow
    <2>4. TypeOK'
      BY <1>3, <2>1, <2>2 DEF InsertPatchHistory, TypeOK, GoTo, outsideVars
    <2>5. history'[r][i[r]] # NoRow
      BY <1>3, <2>1, <2>3 DEF InsertPatchHistory, TypeOK, TheRow
    <2>6. \A o \in Runs \ {r} : history'[o] = history[o]
      BY <1>3 DEF InsertPatchHistory, TypeOK
    <2>7. RowInv'
      BY <1>3, <2>1, <2>5, <2>6 DEF InsertPatchHistory, RowInv, TypeOK, GoTo, At, TheRow, outsideVars
    <2> QED
      BY <2>4, <2>7
  <1>4. CASE WritePostimage(r)
    <2>1. i[r] \in 1..Len(plan[r]) /\ at[r] = "write" /\ phase[r] = "apply"
      BY <1>4 DEF WritePostimage, RowInv, At
    <2>2. TheRow(r) \in Rows /\ i[r] \in Indices
      BY <2>1, RowTyped
    <2>3. files' \in [Paths -> Texts \cup {"absent"}]
      BY <1>4, <2>1, <2>2, PlanTyped DEF WritePostimage, TypeOK, Rows
    <2>4. TypeOK'
      BY <1>4, <2>3 DEF WritePostimage, TypeOK, GoTo, outsideVars
    <2>5. RowInv'
      BY <1>4, <2>1 DEF WritePostimage, RowInv, TypeOK, GoTo, At, TheRow, outsideVars
    <2> QED
      BY <2>4, <2>5
  <1>5. CASE MarkApplied(r)
    <2>1. i[r] \in 1..Len(plan[r]) /\ at[r] = "mark" /\ phase[r] = "apply"
      BY <1>5 DEF MarkApplied, RowInv, At
    <2>2. TheRow(r) \in Rows /\ i[r] \in Indices
      BY <2>1, RowTyped
    <2>3. [TheRow(r) EXCEPT !.applied = TRUE] \in Rows
      BY <2>2 DEF Rows
    <2>4. history' = [history EXCEPT ![r][i[r]] = [TheRow(r) EXCEPT !.applied = TRUE]]
      BY <1>5 DEF MarkApplied
    <2>5. history' \in [Runs -> [Indices -> Rows \cup {NoRow}]]
      BY <2>2, <2>3, <2>4 DEF TypeOK
    <2>6. TypeOK'
      BY <1>1, <1>5, <2>1, <2>5 DEF MarkApplied, TypeOK, GoTo, outsideVars
    <2>7. \A o \in Runs \ {r} : history'[o] = history[o]
      BY <2>4 DEF TypeOK
    <2>8. RowInv'
      BY <1>1, <1>5, <2>1, <2>7 DEF MarkApplied, RowInv, TypeOK, GoTo, At, TheRow, outsideVars
    <2> QED
      BY <2>6, <2>8
  <1>6. CASE Applied(r)
    <2>1. TypeOK'
      BY <1>6 DEF Applied, TypeOK, Phases, outsideVars
    <2>2. RowInv'
      BY <1>6 DEF Applied, RowInv, TypeOK, At, TheRow, outsideVars
    <2> QED
      BY <2>1, <2>2
  <1>7. CASE Threw(r)
    <2>1. TypeOK'
      BY <1>7 DEF Threw, TypeOK, Phases, SettledPhases, GoTo, outsideVars
    <2>2. RowInv'
      BY <1>7 DEF Threw, RowInv, TypeOK, GoTo, TheRow, outsideVars
    <2> QED
      BY <2>1, <2>2
  <1> QED
    BY <1>2, <1>3, <1>4, <1>5, <1>6, <1>7

-----------------------------------------------------------------------------
(* The steps of success and rollback. *)

LEMMA RollbackSteps ==
  ASSUME IInv, NEW r \in Runs,
         \/ Succeed(r) \/ GiveUp(r) \/ SkipRow(r) \/ RestorePreimage(r)
         \/ MarkRolledBack(r) \/ RolledBack(r)
  PROVE  IInv'
  <1> USE DEF IInv
  <1>1. MaxPatches \in Nat
    BY PlansAssumption
  <1>2. CASE Succeed(r)
    <2>1. TypeOK'
      BY <1>2 DEF Succeed, TypeOK, Phases, SettledPhases, outsideVars
    <2>2. RowInv'
      BY <1>2 DEF Succeed, RowInv, TypeOK, TheRow, outsideVars
    <2> QED
      BY <2>1, <2>2
  <1>3. CASE GiveUp(r)
    <2>1. TypeOK'
      BY <1>1, <1>3 DEF GiveUp, TypeOK, Phases, outsideVars
    <2>2. RowInv'
      BY <1>1, <1>3 DEF GiveUp, RowInv, TypeOK, TheRow, outsideVars
    <2> QED
      BY <2>1, <2>2
  <1>4. CASE SkipRow(r)
    <2>1. TypeOK'
      BY <1>1, <1>4 DEF SkipRow, TypeOK, outsideVars
    <2>2. RowInv'
      BY <1>1, <1>4 DEF SkipRow, RowInv, TypeOK, At, TheRow, outsideVars
    <2> QED
      BY <2>1, <2>2
  <1>5. CASE RestorePreimage(r)
    <2>1. i[r] \in Indices /\ phase[r] = "rollback" /\ at[r] = "read"
      BY <1>1, <1>5 DEF RestorePreimage, RowInv, At, Indices
    <2>2. TheRow(r) # NoRow
      BY <1>5 DEF RestorePreimage, NoRow
    <2>3. TheRow(r) \in Rows
      BY <2>1, <2>2 DEF TypeOK, TheRow
    <2>4. files' \in [Paths -> Texts \cup {"absent"}]
      BY <1>5, <2>3 DEF RestorePreimage, TypeOK, Rows
    <2>5. TypeOK'
      BY <1>5, <2>4 DEF RestorePreimage, TypeOK, GoTo, outsideVars
    <2>6. RowInv'
      BY <1>5, <2>1, <2>2 DEF RestorePreimage, RowInv, TypeOK, GoTo, At, TheRow, outsideVars
    <2> QED
      BY <2>5, <2>6
  <1>6. CASE MarkRolledBack(r)
    <2>1. at[r] = "mark" /\ phase[r] = "rollback"
      BY <1>6 DEF MarkRolledBack, At
    <2>2. TheRow(r) \in Rows /\ i[r] \in Indices
      BY <2>1, RowTyped
    <2>3. [TheRow(r) EXCEPT !.rolledBack = TRUE] \in Rows
      BY <2>2 DEF Rows
    <2>4. history' = [history EXCEPT ![r][i[r]] = [TheRow(r) EXCEPT !.rolledBack = TRUE]]
      BY <1>6 DEF MarkRolledBack
    <2>5. history' \in [Runs -> [Indices -> Rows \cup {NoRow}]]
      BY <2>2, <2>3, <2>4 DEF TypeOK
    <2>6. TypeOK'
      BY <1>1, <1>6, <2>2, <2>5 DEF MarkRolledBack, TypeOK, GoTo, Indices, outsideVars
    <2>7. \A o \in Runs \ {r} : history'[o] = history[o]
      BY <2>4 DEF TypeOK
    <2>8. RowInv'
      BY <1>1, <1>6, <2>1, <2>2, <2>7 DEF MarkRolledBack, RowInv, TypeOK, GoTo, At, TheRow, Indices, outsideVars
    <2> QED
      BY <2>6, <2>8
  <1>7. CASE RolledBack(r)
    <2>1. TypeOK'
      BY <1>7 DEF RolledBack, TypeOK, Phases, SettledPhases, outsideVars
    <2>2. RowInv'
      BY <1>7 DEF RolledBack, RowInv, TypeOK, At, TheRow, outsideVars
    <2> QED
      BY <2>1, <2>2
  <1> QED
    BY <1>2, <1>3, <1>4, <1>5, <1>6, <1>7
-----------------------------------------------------------------------------
(* What happens from outside. *)

LEMMA CrashStep == IInv /\ Crash => IInv'
  <1> SUFFICES ASSUME IInv, Crash PROVE IInv'
    OBVIOUS
  <1> USE DEF IInv
  <1>1. MaxPatches \in Nat /\ \A r \in Runs : Len(plan[r]) \in 0..MaxPatches
    BY PlansAssumption, PlanTyped
  <1>2. TypeOK'
    BY <1>1, TextsAssumption DEF Crash, TypeOK
  <1>3. RowInv'
    BY <1>1 DEF Crash, RowInv, TypeOK, TheRow
  <1> QED
    BY <1>2, <1>3

LEMMA EditStep == IInv /\ Edit => IInv'
  <1> SUFFICES ASSUME IInv, Edit PROVE IInv'
    OBVIOUS
  <1>1. TypeOK'
    BY TextsAssumption DEF IInv, Edit, TypeOK, posVars
  <1>2. RowInv'
    BY DEF IInv, Edit, RowInv, TheRow, posVars
  <1> QED
    BY <1>1, <1>2 DEF IInv

LEMMA ForkStep ==
  ASSUME IInv, NEW r \in Runs, Fork(r)
  PROVE  IInv'
  <1> USE DEF IInv
  <1>1. at[r] = "read" /\ MaxPatches \in Nat
    BY PlansAssumption DEF Fork, RowInv, SettledPhases
  <1>2. TypeOK'
    <2>1. CASE plan' = plan /\ i' = i
      BY <2>1 DEF Fork, TypeOK, Phases
    <2>2. CASE \E q \in Plans[r] : plan' = [plan EXCEPT ![r] = q] /\ i' = [i EXCEPT ![r] = 1]
      BY <1>1, <2>2 DEF Fork, TypeOK, Phases
    <2> QED
      BY <2>1, <2>2 DEF Fork
  <1>3. \A o \in Runs : Len(plan'[o]) \in 0..MaxPatches
    BY <1>2, PlansAssumption DEF TypeOK
  <1>4. \A o \in Runs \ {r} : i'[o] = i[o] /\ plan'[o] = plan[o] /\ phase'[o] = phase[o]
    BY DEF Fork, TypeOK
  <1>5. phase'[r] \in {"apply", "applied"} /\ (phase'[r] = "apply" => i'[r] = 1)
    BY DEF Fork, TypeOK
  <1>6. RowInv'
    BY <1>1, <1>3, <1>4, <1>5 DEF Fork, RowInv, TheRow
  <1> QED
    BY <1>2, <1>6

LEMMA StutterStep == IInv /\ UNCHANGED vars => IInv'
  BY DEF IInv, TypeOK, RowInv, TheRow, vars, posVars, outsideVars

\* The history's rows are where the loops stand, for every instance.
THEOREM Invariance == Spec => []IInv
  <1>1. Init => IInv
    BY InitIInv
  <1>2. IInv /\ [Next]_vars => IInv'
    BY ApplySteps, RollbackSteps, CrashStep, EditStep, ForkStep, StutterStep
       DEF Next, RunStep
  <1> QED
    BY <1>1, <1>2, PTL DEF Spec, IInv
-----------------------------------------------------------------------------
\* The text that a step of a run takes out of a file is in the history.
LEMMA WritesKeepTexts ==
  ASSUME IInv, [Next]_vars, NEW p \in Paths, files'[p] # files[p], edits' = edits
  PROVE  \E r \in Runs, k \in Indices : Read(p) \in {history[r][k].pre, history[r][k].post}
  <1>1. ~Crash /\ ~Edit /\ ~UNCHANGED vars
    BY DEF Crash, Edit, vars, IInv, TypeOK
  <1>2. PICK r \in Runs : RunStep(r)
    BY <1>1 DEF Next
  <1>3. WritePostimage(r) \/ RestorePreimage(r)
    BY <1>2 DEF RunStep, ReadPreimage, InsertPatchHistory, MarkApplied, Applied, Threw,
                Succeed, GiveUp, SkipRow, MarkRolledBack, RolledBack, Fork
  <1>4. CASE WritePostimage(r)
    <2>1. i[r] \in Indices
      BY <1>4 DEF WritePostimage, IInv, RowInv, At
    <2>2. p = plan[r][i[r]].path /\ Read(p) = TheRow(r).pre
      BY <1>4 DEF WritePostimage, IInv, TypeOK
    <2> QED
      BY <2>1, <2>2 DEF TheRow
  <1>5. CASE RestorePreimage(r)
    <2>1. i[r] \in Indices
      BY <1>5, PlansAssumption DEF RestorePreimage, IInv, RowInv, At, Indices
    <2>2. p = TheRow(r).path /\ Read(p) = TheRow(r).post
      BY <1>5 DEF RestorePreimage, IInv, TypeOK
    <2> QED
      BY <2>1, <2>2 DEF TheRow
  <1> QED
    BY <1>3, <1>4, <1>5

\* No run destroys a text that is not kept in the patch history, however runs,
\* edits, crashes and forks interleave (applyReversiblePatch, rollbackReversiblePatch).
THEOREM TextsAreKept == Spec => NothingLost
  <1>1. IInv /\ [Next]_vars =>
          [\A p \in Paths : files'[p] # files[p] /\ edits' = edits =>
             \E r \in Runs, k \in Indices :
               Read(p) \in {history[r][k].pre, history[r][k].post}]_vars
    BY WritesKeepTexts
  <1>2. Spec => []IInv
    BY Invariance DEF IInv
  <1> QED
    BY <1>1, <1>2, PTL DEF Spec, NothingLost
-----------------------------------------------------------------------------
(* The history and the plans, without a fork. *)

\* A statement on the row of the loop's index touches this row alone.
LEMMA Updated ==
  ASSUME TypeOK, NEW r \in Runs, i[r] \in Indices, NEW h,
         history' = [history EXCEPT ![r][i[r]] = h]
  PROVE  /\ history'[r][i[r]] = h
         /\ \A k \in Indices : k # i[r] => history'[r][k] = history[r][k]
         /\ \A o \in Runs : o # r => history'[o] = history[o]
  BY DEF TypeOK

\* A step of a run leaves the others where they are.
LEMMA OthersStay ==
  ASSUME TypeOK, NEW r \in Runs, RunStep(r), NEW o \in Runs, o # r
  PROVE  /\ history'[o] = history[o] /\ plan'[o] = plan[o] /\ phase'[o] = phase[o]
         /\ i'[o] = i[o] /\ at'[o] = at[o] /\ seen'[o] = seen[o]
  BY DEF RunStep, TypeOK, ReadPreimage, InsertPatchHistory, WritePostimage, MarkApplied,
         Applied, Threw, Succeed, GiveUp, SkipRow, RestorePreimage, MarkRolledBack,
         RolledBack, Fork, GoTo, posVars, outsideVars

\* A step without a fork keeps the plans.
LEMMA Unforked ==
  ASSUME IInv, [Next]_vars, forks' = 0
  PROVE  forks = 0 /\ plan' = plan
  <1>1. forks \in Nat
    BY DEF IInv, TypeOK
  <1>2. CASE Crash \/ Edit \/ UNCHANGED vars
    BY <1>2 DEF Crash, Edit, vars, outsideVars
  <1>3. ASSUME NEW r \in Runs, RunStep(r) PROVE forks = 0 /\ plan' = plan
    <2>1. ~Fork(r)
      BY <1>1 DEF Fork
    <2> QED
      BY <2>1, <1>3 DEF RunStep, ReadPreimage, InsertPatchHistory, WritePostimage,
         MarkApplied, Applied, Threw, Succeed, GiveUp, SkipRow, RestorePreimage,
         MarkRolledBack, RolledBack, outsideVars
  <1> QED
    BY <1>2, <1>3 DEF Next

LEMMA InitPlanInv == Init => PlanInv
  <1> SUFFICES ASSUME Init, NEW r \in Runs, NEW k \in Indices PROVE PlanRow(r, k)
    BY DEF PlanInv
  <1>1. /\ history[r][k] = NoRow /\ phase[r] = "apply" /\ i[r] = 1
        /\ k >= 1 /\ k \in Nat
    BY PlansAssumption DEF Init, Indices
  <1> QED
    BY <1>1 DEF PlanRow, NoRow, Phases

\* The steps that neither write a row nor move a loop.
LEMMA FramePlanInv ==
  ASSUME PlanInv, UNCHANGED <<history, plan, phase, i, forks>>
  PROVE  PlanInv'
  BY DEF PlanInv, PlanRow

LEMMA RunPlanInv ==
  ASSUME IInv, PlanInv, forks = 0, NEW r \in Runs, RunStep(r), ~Fork(r), plan' = plan
  PROVE  PlanInv'
  <1>1. TypeOK /\ RowInv /\ MaxPatches \in Nat
    BY PlansAssumption DEF IInv
  <1>2. \A o \in Runs, k \in Indices : PlanRow(o, k)
    BY DEF PlanInv
  <1>3. Len(plan[r]) \in 0..MaxPatches /\ i[r] \in 0..MaxPatches + 1
    BY <1>1, PlanTyped DEF TypeOK
  <1> SUFFICES ASSUME NEW o \in Runs, NEW k \in Indices PROVE PlanRow(o, k)'
    BY DEF PlanInv
  <1>4. CASE o # r
    BY <1>1, <1>2, <1>4, OthersStay DEF PlanRow
  <1> SUFFICES ASSUME o = r PROVE PlanRow(r, k)'
    BY <1>4
  <1>5. k \in 1..MaxPatches /\ PlanRow(r, k) /\ \A m \in 1..MaxPatches : PlanRow(r, m)
    BY <1>2 DEF Indices
  <1>6. CASE ReadPreimage(r) \/ WritePostimage(r) \/ RestorePreimage(r)
    BY <1>5, <1>6 DEF ReadPreimage, WritePostimage, RestorePreimage, PlanRow, outsideVars
  <1>7. CASE InsertPatchHistory(r)
    <2>1. /\ i[r] \in 1..Len(plan[r]) /\ i[r] \in Indices /\ phase[r] = "apply"
          /\ UNCHANGED <<phase, i>>
      BY <1>1, <1>3, <1>7 DEF InsertPatchHistory, RowInv, At, Indices
    <2>2. CASE history[r][i[r]] # NoRow
      BY <1>5, <1>7, <2>1, <2>2 DEF InsertPatchHistory, TheRow, PlanRow
    <2>3. CASE history[r][i[r]] = NoRow
      <3>1. /\ history'[r][i[r]] = NewRow(r)
            /\ \A m \in Indices : m # i[r] => history'[r][m] = history[r][m]
        BY <1>1, <1>7, <2>1, <2>3, Updated DEF InsertPatchHistory, TheRow
      <3>2. \A m \in 1..i[r] - 1 : history[r][m] # NoRow
        <4> SUFFICES ASSUME NEW m \in 1..i[r] - 1 PROVE history[r][m].applied
          BY DEF NoRow
        <4>1. m \in 1..MaxPatches /\ m < i[r]
          BY <1>1, <1>3
        <4> QED
          BY <4>1, <1>5, <2>1 DEF PlanRow
      <3>3. \A m \in 1..MaxPatches : m > i[r] => history[r][m] = NoRow
        BY <1>3, <1>5, <2>1, <2>3 DEF PlanRow
      <3>4. CASE k = i[r]
        <4>1. /\ history'[r][k].path = plan[r][k].path /\ history'[r][k].post = plan[r][k].post
              /\ ~history'[r][k].rolledBack /\ k <= Len(plan[r]) /\ ~(k < i[r])
          BY <1>3, <1>5, <2>1, <3>1, <3>4 DEF NewRow
        <4>2. \A m \in 1..k - 1 : history'[r][m] # NoRow
          <5> SUFFICES ASSUME NEW m \in 1..k - 1 PROVE history'[r][m] # NoRow
            OBVIOUS
          <5>1. m \in Indices /\ m # i[r] /\ m \in 1..i[r] - 1
            BY <1>1, <1>3, <1>5, <3>4 DEF Indices
          <5> QED
            BY <5>1, <3>1, <3>2
        <4> QED
          BY <2>1, <4>1, <4>2 DEF PlanRow, Phases
      <3>5. CASE k # i[r]
        <4>1. history'[r][k] = history[r][k]
          BY <3>1, <3>5
        <4>2. \A m \in 1..k - 1 : history[r][m] # NoRow => history'[r][m] # NoRow
          <5> SUFFICES ASSUME NEW m \in 1..k - 1, history[r][m] # NoRow
                       PROVE  history'[r][m] # NoRow
            OBVIOUS
          <5>1. m \in Indices /\ m # i[r]
            BY <1>1, <1>5, <2>3 DEF Indices
          <5> QED
            BY <5>1, <3>1
        <4> QED
          BY <1>5, <2>1, <4>1, <4>2 DEF PlanRow
      <3> QED
        BY <3>4, <3>5
    <2> QED
      BY <2>2, <2>3
  <1>8. CASE MarkApplied(r)
    <2>1. /\ i[r] \in 1..Len(plan[r]) /\ i[r] \in Indices /\ phase[r] = "apply" /\ at[r] = "mark"
          /\ UNCHANGED phase /\ i'[r] = i[r] + 1
      BY <1>1, <1>3, <1>8 DEF MarkApplied, RowInv, At, Indices, TypeOK
    <2>2. TheRow(r) \in Rows /\ TheRow(r) = history[r][i[r]] /\ TheRow(r) # NoRow
      BY <1>1, <2>1, RowTyped DEF TheRow, RowInv, IInv
    <2>3. /\ history'[r][i[r]] = [TheRow(r) EXCEPT !.applied = TRUE]
          /\ \A m \in Indices : m # i[r] => history'[r][m] = history[r][m]
      BY <1>1, <1>8, <2>1, Updated DEF MarkApplied
    <2>4. \A m \in Indices : history[r][m] # NoRow => history'[r][m] # NoRow
      BY <2>2, <2>3 DEF Rows, NoRow
    <2>5. CASE k = i[r]
      <3>1. /\ history'[r][k].path = history[r][k].path /\ history'[r][k].post = history[r][k].post
            /\ history'[r][k].rolledBack = history[r][k].rolledBack /\ history'[r][k].applied
        BY <2>2, <2>3, <2>5 DEF Rows
      <3>2. \A m \in 1..k - 1 : history[r][m] # NoRow => history'[r][m] # NoRow
        BY <1>1, <1>5, <2>4 DEF Indices
      <3> QED
        BY <1>5, <2>1, <2>2, <2>5, <3>1, <3>2 DEF PlanRow, Phases
    <2>6. CASE k # i[r]
      <3>1. history'[r][k] = history[r][k]
        BY <2>3, <2>6
      <3>2. \A m \in 1..k - 1 : history[r][m] # NoRow => history'[r][m] # NoRow
        BY <1>1, <1>5, <2>4 DEF Indices
      <3>3. k < i'[r] => k < i[r]
        BY <1>3, <1>5, <2>1, <2>6
      <3> QED
        BY <1>5, <2>1, <3>1, <3>2, <3>3 DEF PlanRow, Phases
    <2> QED
      BY <2>5, <2>6
  <1>9. CASE Applied(r)
    <2>1. i[r] > Len(plan[r]) /\ phase[r] = "apply" /\ phase'[r] = "applied" /\ UNCHANGED <<history, i>>
      BY <1>1, <1>9 DEF Applied, At, TypeOK
    <2>2. k <= Len(plan[r]) => k < i[r]
      BY <1>3, <1>5, <2>1
    <2> QED
      BY <1>5, <2>1, <2>2 DEF PlanRow, Phases
  <1>10. CASE Threw(r)
    <2>1. /\ at[r] = "threw" /\ UNCHANGED <<history, i>>
          /\ phase'[r] = IF phase[r] = "apply" THEN "refused" ELSE "stuck"
      BY <1>1, <1>10 DEF Threw, TypeOK
    <2>2. phase[r] \in {"apply", "rollback"}
      BY <1>1, <2>1 DEF RowInv, TypeOK
    <2> QED
      BY <1>3, <1>5, <2>1, <2>2 DEF PlanRow, Phases
  <1>11. CASE Succeed(r) \/ GiveUp(r)
    <2>1. /\ phase[r] = "applied" /\ UNCHANGED history
          /\ phase'[r] = "succeeded" \/ (phase'[r] = "rollback" /\ ~(k > i'[r]))
      BY <1>1, <1>5, <1>11 DEF Succeed, GiveUp, TypeOK
    <2> QED
      BY <1>5, <2>1 DEF PlanRow, Phases, SettledPhases
  <1>12. CASE SkipRow(r)
    <2>1. /\ phase[r] = "rollback" /\ i[r] > 0 /\ UNCHANGED <<history, phase>> /\ i'[r] = i[r] - 1
          /\ ~history[r][i[r]].applied \/ history[r][i[r]].rolledBack
      BY <1>1, <1>12 DEF SkipRow, At, TypeOK, TheRow
    <2>2. history[r][k] # NoRow => history[r][k].applied
      BY <1>5, <2>1 DEF PlanRow, Phases
    <2>3. k > i'[r] => k > i[r] \/ k = i[r]
      BY <1>3, <1>5, <2>1
    <2> QED
      BY <1>5, <2>1, <2>2, <2>3 DEF PlanRow
  <1>13. CASE MarkRolledBack(r)
    <2>1. /\ phase[r] = "rollback" /\ at[r] = "mark" /\ UNCHANGED phase /\ i'[r] = i[r] - 1
      BY <1>1, <1>13 DEF MarkRolledBack, At, TypeOK
    <2>2. /\ i[r] \in Indices /\ TheRow(r) \in Rows /\ TheRow(r) = history[r][i[r]]
          /\ TheRow(r) # NoRow
      BY <1>1, <2>1, RowTyped DEF TheRow, RowInv, IInv
    <2>3. /\ history'[r][i[r]] = [TheRow(r) EXCEPT !.rolledBack = TRUE]
          /\ \A m \in Indices : m # i[r] => history'[r][m] = history[r][m]
      BY <1>1, <1>13, <2>2, Updated DEF MarkRolledBack
    <2>4. \A m \in Indices : history[r][m] # NoRow => history'[r][m] # NoRow
      BY <2>2, <2>3 DEF Rows, NoRow
    <2>5. CASE k = i[r]
      <3>1. /\ history'[r][k].path = history[r][k].path /\ history'[r][k].post = history[r][k].post
            /\ history'[r][k].applied = history[r][k].applied /\ history'[r][k].rolledBack
        BY <2>2, <2>3, <2>5 DEF Rows
      <3>2. \A m \in 1..k - 1 : history[r][m] # NoRow => history'[r][m] # NoRow
        BY <1>1, <1>5, <2>4 DEF Indices
      <3> QED
        BY <1>5, <2>1, <2>2, <2>5, <3>1, <3>2 DEF PlanRow, Phases
    <2>6. CASE k # i[r]
      <3>1. history'[r][k] = history[r][k]
        BY <2>3, <2>6
      <3>2. k > i'[r] => k > i[r]
        BY <1>3, <1>5, <2>1, <2>6
      <3>3. \A m \in 1..k - 1 : history[r][m] # NoRow => history'[r][m] # NoRow
        BY <1>1, <1>5, <2>4 DEF Indices
      <3> QED
        BY <1>5, <2>1, <3>1, <3>2, <3>3 DEF PlanRow, Phases
    <2> QED
      BY <2>5, <2>6
  <1>14. CASE RolledBack(r)
    <2>1. /\ phase[r] = "rollback" /\ i[r] = 0 /\ UNCHANGED history /\ phase'[r] = "rolled"
      BY <1>1, <1>14 DEF RolledBack, At, TypeOK
    <2> QED
      BY <1>3, <1>5, <2>1 DEF PlanRow, Phases, SettledPhases
  <1> QED
    BY <1>6, <1>7, <1>8, <1>9, <1>10, <1>11, <1>12, <1>13, <1>14 DEF RunStep

LEMMA CrashPlanInv ==
  ASSUME IInv, PlanInv, Crash
  PROVE  PlanInv'
  <1> SUFFICES ASSUME forks = 0, NEW r \in Runs, NEW k \in Indices PROVE PlanRow(r, k)'
    BY DEF PlanInv, Crash
  <1>1. PlanRow(r, k) /\ k \in 1..MaxPatches /\ MaxPatches \in Nat
    BY PlansAssumption DEF PlanInv, Indices
  <1>2. /\ UNCHANGED <<history, plan, phase>>
        /\ i'[r] = CASE phase[r] = "apply" -> 1
                     [] phase[r] = "rollback" -> MaxPatches
                     [] OTHER -> i[r]
    BY DEF Crash
  <1>3. /\ phase[r] = "apply" => i'[r] = 1
        /\ phase[r] = "rollback" => i'[r] = MaxPatches
    BY <1>2
  <1> QED
    BY <1>1, <1>2, <1>3 DEF PlanRow

LEMMA NextPlanInv == IInv /\ PlanInv /\ [Next]_vars => PlanInv'
  <1> SUFFICES ASSUME IInv, PlanInv, [Next]_vars, forks' = 0 PROVE PlanInv'
    BY DEF PlanInv
  <1>1. forks = 0 /\ plan' = plan /\ forks # forks + 1
    BY Unforked
  <1>2. CASE Edit \/ UNCHANGED vars
    BY <1>2, FramePlanInv DEF Edit, vars, posVars, outsideVars
  <1>3. CASE Crash
    BY <1>3, CrashPlanInv
  <1>4. ASSUME NEW r \in Runs, RunStep(r) PROVE PlanInv'
    BY <1>1, <1>4, RunPlanInv DEF Fork
  <1> QED
    BY <1>2, <1>3, <1>4 DEF Next
-----------------------------------------------------------------------------
(* The texts on the files, without a fork. *)

\* A row of the history is typed and says what its plan says.
LEMMA InsertedFacts ==
  ASSUME IInv, PlanInv, forks = 0, NEW a \in Inserted
  PROVE  /\ a[1] \in Runs /\ a[2] \in Indices /\ a = <<a[1], a[2]>>
         /\ Row(a) \in Rows /\ Row(a) # NoRow /\ Row(a).path \in Paths
         /\ a[2] \in 1..Len(plan[a[1]])
         /\ plan[a[1]] \in Plans[a[1]] /\ plan[a[1]][a[2]] \in Patch
         /\ Row(a).path = plan[a[1]][a[2]].path /\ Row(a).post = plan[a[1]][a[2]].post
         /\ PlanRow(a[1], a[2])
  <1>1. a[1] \in Runs /\ a[2] \in Indices /\ a = <<a[1], a[2]>> /\ Row(a) # NoRow
    BY DEF Inserted
  <1>2. history[a[1]][a[2]] \in Rows \cup {NoRow} /\ plan[a[1]] \in Plans[a[1]]
    BY <1>1 DEF IInv, TypeOK
  <1>3. PlanRow(a[1], a[2])
    BY <1>1 DEF PlanInv
  <1>4. a[2] \in 1..Len(plan[a[1]])
    BY <1>1, <1>2, <1>3, PlansAssumption DEF PlanRow, Row, Indices
  <1>5. plan[a[1]][a[2]] \in Patch
    BY <1>1, <1>2, <1>4, PlansAssumption
  <1>6. Row(a) \in Rows /\ Row(a).path \in Paths
    BY <1>1, <1>2 DEF Row, Rows
  <1> QED
    BY <1>1, <1>2, <1>3, <1>4, <1>5, <1>6 DEF PlanRow, Row

\* A text on a file is of one row, and none that was there without the runs.
LEMMA TextsFresh ==
  ASSUME FreshTexts, IInv, PlanInv, forks = 0
  PROVE  /\ \A a \in Inserted : Row(a).post \notin {"empty", "old"} \cup EditTexts
         /\ \A a, b \in Inserted :
              Row(a).path = Row(b).path /\ Row(a).post = Row(b).post => a = b
  <1>1. ASSUME NEW a \in Inserted
        PROVE  Row(a).post \notin {"empty", "old"} \cup EditTexts
    <2>1. /\ plan[a[1]] \in Plans[a[1]] /\ a[1] \in Runs /\ a[2] \in 1..Len(plan[a[1]])
          /\ Row(a).post = plan[a[1]][a[2]].post
      BY InsertedFacts
    <2> QED
      BY <2>1 DEF FreshTexts
  <1>2. ASSUME NEW a \in Inserted, NEW b \in Inserted,
               Row(a).path = Row(b).path, Row(a).post = Row(b).post
        PROVE  a = b
    <2>1. /\ plan[a[1]] \in Plans[a[1]] /\ a[1] \in Runs /\ a[2] \in 1..Len(plan[a[1]])
          /\ plan[b[1]] \in Plans[b[1]] /\ b[1] \in Runs /\ b[2] \in 1..Len(plan[b[1]])
          /\ a = <<a[1], a[2]>> /\ b = <<b[1], b[2]>>
      BY InsertedFacts
    <2>2. plan[a[1]][a[2]] = plan[b[1]][b[2]]
      <3> DEFINE q == plan[a[1]][a[2]]
                 u == plan[b[1]][b[2]]
      <3>1. q \in Patch /\ u \in Patch /\ q.path = u.path /\ q.post = u.post
        BY <1>2, InsertedFacts
      <3> HIDE DEF q, u
      <3>2. q = u
        BY <3>1 DEF Patch
      <3> QED
        BY <3>2 DEF q, u
    <2>3. a[1] # b[1] \/ plan[a[1]] = plan[b[1]]
      OBVIOUS
    <2>4. a[1] = b[1] /\ a[2] = b[2]
      BY <2>1, <2>2, <2>3 DEF FreshTexts
    <2> QED
      BY <2>1, <2>4
  <1> QED
    BY <1>1, <1>2

\* The text of a patch without a row is not on its file and never was.
LEMMA TextIsNew ==
  ASSUME FreshTexts, IInv, PlanInv, forks = 0, NEW r \in Runs,
         i[r] \in 1..Len(plan[r]), i[r] \in Indices, TheRow(r) = NoRow
  PROVE  plan[r][i[r]].post \notin KnownAt(plan[r][i[r]].path)
  <1>1. plan[r] \in Plans[r] /\ plan[r][i[r]] \in Patch
    BY PlansAssumption DEF IInv, TypeOK
  <1>2. plan[r][i[r]].post \notin {"empty", "old"} \cup EditTexts
    BY <1>1 DEF FreshTexts
  <1>3. ASSUME NEW a \in Inserted, Row(a).path = plan[r][i[r]].path,
               Row(a).post = plan[r][i[r]].post
        PROVE  FALSE
    <2>1. /\ plan[a[1]] \in Plans[a[1]] /\ a[1] \in Runs /\ a[2] \in 1..Len(plan[a[1]])
          /\ a = <<a[1], a[2]>> /\ Row(a) # NoRow
      BY InsertedFacts
    <2>2. plan[a[1]][a[2]] = plan[r][i[r]]
      BY <1>1, <1>3, InsertedFacts DEF Patch
    <2>3. a[1] = r /\ a[2] = i[r]
      BY <1>1, <2>1, <2>2 DEF FreshTexts
    <2> QED
      BY <2>1, <2>3 DEF Row, TheRow
  <1> QED
    BY <1>2, <1>3 DEF KnownAt, PostsOn, On

\* A file holds one of the texts of a stack if it reads as one.
LEMMA ReadIn ==
  ASSUME FreshTexts, IInv, PlanInv, forks = 0, NEW p \in Paths, NEW D \in SUBSET PostsOn(p)
  PROVE  /\ files[p] \in D <=> Read(p) \in D
         /\ "empty" \notin D /\ D \cap EditTexts = {}
  <1>1. \A t \in D : t \notin {"empty", "old"} \cup EditTexts
    BY TextsFresh DEF PostsOn, On
  <1>2. "absent" \notin D
    <2>1. \A a \in Inserted : Row(a).post \in Texts
      BY InsertedFacts DEF Rows
    <2> QED
      BY <2>1, TextsAssumption DEF PostsOn, On
  <1> QED
    BY <1>1, <1>2 DEF Read
-----------------------------------------------------------------------------
(* Steps that keep the rows but for their marks. *)

RowsKept ==
  \A r \in Runs, k \in Indices :
    /\ history'[r][k] = NoRow <=> history[r][k] = NoRow
    /\ history'[r][k].path = history[r][k].path
    /\ history'[r][k].pre = history[r][k].pre
    /\ history'[r][k].post = history[r][k].post

\* A row and its marks after a step.
RowNext(a) == history'[a[1]][a[2]]
TakenOutNext(a) == TakenOut(a)'
StandingNext(a) == Standing(a)'

LEMMA KeptFacts ==
  ASSUME RowsKept, NEW p
  PROVE  /\ Inserted' = Inserted
         /\ \A a \in Inserted : /\ RowNext(a).path = Row(a).path
                                /\ RowNext(a).pre = Row(a).pre /\ RowNext(a).post = Row(a).post
         /\ On(p)' = On(p) /\ PostsOn(p)' = PostsOn(p) /\ KnownAt(p)' = KnownAt(p)
  <1>1. \A a \in Runs \X Indices :
          /\ RowNext(a) = NoRow <=> Row(a) = NoRow
          /\ RowNext(a).path = Row(a).path /\ RowNext(a).pre = Row(a).pre
          /\ RowNext(a).post = Row(a).post
    BY DEF RowsKept, Row, RowNext
  <1>2. Inserted' = {a \in Runs \X Indices : RowNext(a) # NoRow}
    BY DEF Inserted, Row, RowNext
  <1>3. Inserted' = Inserted
    BY <1>1, <1>2 DEF Inserted
  <1>4. \A a \in Inserted : /\ RowNext(a).path = Row(a).path
                            /\ RowNext(a).pre = Row(a).pre /\ RowNext(a).post = Row(a).post
    BY <1>1 DEF Inserted
  <1>5. On(p)' = {a \in Inserted' : RowNext(a).path = p}
    BY DEF On, Row, RowNext
  <1>6. On(p)' = On(p)
    BY <1>3, <1>4, <1>5 DEF On
  <1>7. PostsOn(p)' = {RowNext(a).post : a \in On(p)'}
    BY DEF PostsOn, Row, RowNext
  <1>8. PostsOn(p)' = PostsOn(p)
    BY <1>4, <1>6, <1>7 DEF PostsOn, On
  <1>9. KnownAt(p)' = KnownAt(p)
    BY <1>8 DEF KnownAt
  <1> QED
    BY <1>3, <1>4, <1>6, <1>8, <1>9

\* They keep the stacks if they treat the file as the stacks say.
LEMMA KeptStack ==
  ASSUME StackInv, forks = 0, RowsKept,
         \A a \in Inserted : \A D \in SUBSET PostsOn(Row(a).path) :
           /\ Above(a, D)
           /\ TakenOut(a) => files[Row(a).path] \notin D
           /\ Standing(a) => files[Row(a).path] \in D
           => /\ TakenOutNext(a) => files'[Row(a).path] \notin D
              /\ StandingNext(a) => files'[Row(a).path] \in D
  PROVE  StackInv'
  <1> SUFFICES ASSUME NEW a \in Inserted'
               PROVE  (\E D \in SUBSET PostsOn(Row(a).path) :
                        /\ Above(a, D)
                        /\ TakenOut(a) => files[Row(a).path] \notin D
                        /\ Standing(a) => files[Row(a).path] \in D)'
    BY DEF StackInv
  <1>1. PICK p : p = Row(a).path
    OBVIOUS
  <1>2. a \in Inserted /\ Row(a)' = RowNext(a) /\ RowNext(a).path = p
    BY <1>1, KeptFacts DEF Row, RowNext
  <1>3. PICK D \in SUBSET PostsOn(p) :
          /\ Above(a, D)
          /\ TakenOut(a) => files[p] \notin D
          /\ Standing(a) => files[p] \in D
    BY <1>1, <1>2 DEF StackInv
  <1>4. D \in SUBSET PostsOn(p)'
    BY <1>3, KeptFacts
  <1>5. Above(a, D)'
    <2>1. /\ On(p)' = On(p) /\ On(p) \subseteq Inserted
          /\ RowNext(a).post = Row(a).post /\ RowNext(a).pre = Row(a).pre
          /\ \A b \in On(p) : RowNext(b).post = Row(b).post /\ RowNext(b).pre = Row(b).pre
      BY <1>2, KeptFacts DEF On
    <2>2. Above(a, D)' <=>
            /\ RowNext(a).post \in D /\ RowNext(a).pre \notin D
            /\ \A b \in On(p)' \ {a} : RowNext(b).post \in D <=> RowNext(b).pre \in D
            /\ \A b \in On(p)' : b[1] = a[1] /\ b[2] < a[2] => RowNext(b).post \notin D
      <3>1. Above(a, D)' <=>
            /\ RowNext(a).post \in D /\ RowNext(a).pre \notin D
            /\ \A b \in On(Row(a).path)' \ {a} : RowNext(b).post \in D <=> RowNext(b).pre \in D
            /\ \A b \in On(Row(a).path)' : b[1] = a[1] /\ b[2] < a[2] => RowNext(b).post \notin D
        BY DEF Above, Row, RowNext
      <3>2. On(Row(a).path)' = On(p)'
        BY <1>2 DEF On
      <3> QED
        BY <3>1, <3>2
    <2> QED
      BY <1>1, <1>3, <2>1, <2>2 DEF Above
  <1>6. /\ TakenOutNext(a) => files'[p] \notin D
        /\ StandingNext(a) => files'[p] \in D
    BY <1>1, <1>2, <1>3
  <1>7. PostsOn(Row(a).path)' = PostsOn(p)'
    BY <1>2 DEF PostsOn, On
  <1> QED
    BY <1>2, <1>4, <1>5, <1>6, <1>7 DEF TakenOutNext, StandingNext
-----------------------------------------------------------------------------
(* Every step keeps the stacks. *)

\* The marks that were not made in this step.
LEMMA OtherMarks ==
  ASSUME IInv, NEW r \in Runs, RunStep(r), ~Fork(r), NEW a \in Inserted, a[1] # r
  PROVE  /\ TakenOut(a)' => TakenOut(a)
         /\ Standing(a)' => Standing(a)
  <1>1. a[1] \in Runs
    BY DEF Inserted
  <1>2. /\ history'[a[1]] = history[a[1]] /\ phase'[a[1]] = phase[a[1]]
        /\ i'[a[1]] = i[a[1]] /\ at'[a[1]] = at[a[1]]
    BY <1>1, OthersStay DEF IInv
  <1>3. edits' = edits
    BY DEF RunStep, ReadPreimage, InsertPatchHistory, WritePostimage, MarkApplied,
       Applied, Threw, Succeed, GiveUp, SkipRow, RestorePreimage, MarkRolledBack,
       RolledBack, outsideVars
  <1> QED
    BY <1>2, <1>3 DEF TakenOut, Standing, Row, At

\* The steps that leave the rows alone keep them.
LEMMA SameKept ==
  ASSUME UNCHANGED history
  PROVE  RowsKept
  BY DEF RowsKept

\* A mark on a row keeps what it says.
LEMMA MarkKept ==
  ASSUME IInv, NEW r \in Runs, MarkApplied(r) \/ MarkRolledBack(r)
  PROVE  /\ RowsKept /\ i[r] \in Indices
         /\ \A k \in Indices : k # i[r] => history'[r][k] = history[r][k]
         /\ MarkApplied(r) => history'[r][i[r]].rolledBack = history[r][i[r]].rolledBack
         /\ MarkRolledBack(r) => history'[r][i[r]].applied = history[r][i[r]].applied
  <1>1. at[r] = "mark"
    BY DEF MarkApplied, MarkRolledBack, At
  <1>2. TheRow(r) \in Rows /\ i[r] \in Indices /\ TheRow(r) = history[r][i[r]]
        /\ TheRow(r) # NoRow
    BY <1>1, RowTyped DEF TheRow, IInv, RowInv
  <1>3. PICK h \in {[TheRow(r) EXCEPT !.applied = TRUE], [TheRow(r) EXCEPT !.rolledBack = TRUE]} :
          /\ history' = [history EXCEPT ![r][i[r]] = h]
          /\ MarkApplied(r) => h.rolledBack = TheRow(r).rolledBack
          /\ MarkRolledBack(r) => h.applied = TheRow(r).applied
    <2>1. CASE MarkApplied(r)
      <3>1. ~MarkRolledBack(r)
        BY <2>1 DEF MarkApplied, MarkRolledBack, At
      <3> QED
        BY <2>1, <3>1, <1>2 DEF MarkApplied, Rows
    <2>2. CASE MarkRolledBack(r)
      <3>1. ~MarkApplied(r)
        BY <2>2 DEF MarkApplied, MarkRolledBack, At
      <3> QED
        BY <2>2, <3>1, <1>2 DEF MarkRolledBack, Rows
    <2> QED
      BY <2>1, <2>2
  <1>4. /\ history'[r][i[r]] = h
        /\ \A k \in Indices : k # i[r] => history'[r][k] = history[r][k]
        /\ \A o \in Runs : o # r => history'[o] = history[o]
    BY <1>2, <1>3, Updated DEF IInv
  <1>5. /\ h \in Rows /\ h.path = TheRow(r).path /\ h.pre = TheRow(r).pre
        /\ h.post = TheRow(r).post
    BY <1>2, <1>3 DEF Rows
  <1>6. h # NoRow
    BY <1>5, TextsAssumption DEF Rows, NoRow
  <1>7. RowsKept
    <2> SUFFICES ASSUME NEW o \in Runs, NEW k \in Indices
                 PROVE  /\ history'[o][k] = NoRow <=> history[o][k] = NoRow
                        /\ history'[o][k].path = history[o][k].path
                        /\ history'[o][k].pre = history[o][k].pre
                        /\ history'[o][k].post = history[o][k].post
      BY DEF RowsKept
    <2>1. CASE o = r /\ k = i[r]
      BY <2>1, <1>2, <1>4, <1>5, <1>6
    <2>2. CASE ~(o = r /\ k = i[r])
      BY <2>2, <1>4
    <2> QED
      BY <2>1, <2>2
  <1> QED
    BY <1>2, <1>3, <1>4, <1>7

\* Whatever neither inserts a row nor touches a file.
LEMMA QuietStack ==
  ASSUME IInv, StackInv, forks = 0, NEW r \in Runs,
         \/ ReadPreimage(r) \/ MarkApplied(r) \/ Applied(r) \/ Threw(r)
         \/ Succeed(r) \/ GiveUp(r) \/ SkipRow(r) \/ MarkRolledBack(r) \/ RolledBack(r)
  PROVE  StackInv' /\ RowsKept /\ files' = files
  <1>1. files' = files /\ edits' = edits
    BY DEF ReadPreimage, MarkApplied, Applied, Threw, Succeed, GiveUp, SkipRow,
       MarkRolledBack, RolledBack, outsideVars
  <1>2. RowsKept
    BY SameKept, MarkKept DEF ReadPreimage, Applied, Threw, Succeed, GiveUp, SkipRow, RolledBack
  <1>3. ASSUME NEW a \in Inserted
        PROVE  (TakenOut(a)' => TakenOut(a)) /\ (Standing(a)' => Standing(a))
    <2>1. CASE a[1] # r
      <3>1. RunStep(r) /\ ~Fork(r)
        <4>1. forks' = forks /\ forks \in Nat
          BY DEF ReadPreimage, MarkApplied, Applied, Threw, Succeed, GiveUp, SkipRow,
             MarkRolledBack, RolledBack, outsideVars, IInv, TypeOK
        <4> QED
          BY <4>1 DEF RunStep, Fork
      <3> QED
        BY <2>1, <3>1, OtherMarks
    <2>2. CASE a[1] = r
      <3> DEFINE k == a[2]
      <3>1. k \in Indices /\ Row(a) = history[r][k] /\ Row(a)' = history'[r][k]
        BY <2>2 DEF Inserted, Row
      <3>2. TypeOK /\ RowInv
        BY DEF IInv
      <3> HIDE DEF k
      <3>3. CASE MarkApplied(r)
        <4>1. /\ phase[r] = "apply" /\ at[r] = "mark" /\ at'[r] = "read" /\ phase' = phase
          BY <3>2, <3>3 DEF MarkApplied, At, GoTo, TypeOK
        <4>2. Row(a)'.rolledBack = Row(a).rolledBack
          BY <3>1, <3>3, MarkKept
        <4>3. k # i[r] => Row(a)' = Row(a)
          BY <3>1, <3>3, MarkKept
        <4> QED
          BY <1>1, <2>2, <3>1, <4>1, <4>2, <4>3 DEF TakenOut, Standing, At, k
      <3>4. CASE MarkRolledBack(r)
        <4>1. /\ phase[r] = "rollback" /\ at[r] = "mark" /\ at'[r] = "read" /\ phase' = phase
          BY <3>2, <3>4 DEF MarkRolledBack, At, GoTo, TypeOK
        <4>2. k # i[r] => Row(a)' = Row(a)
          BY <3>1, <3>4, MarkKept
        <4> QED
          BY <1>1, <2>2, <3>1, <4>1, <4>2 DEF TakenOut, Standing, At, k
      <3>5. CASE ReadPreimage(r) \/ SkipRow(r)
        <4>1. at'[r] # "mark" /\ phase' = phase /\ history' = history
          BY <3>2, <3>5 DEF ReadPreimage, SkipRow, At, GoTo, TypeOK
        <4> QED
          BY <1>1, <2>2, <3>1, <4>1 DEF TakenOut, Standing, At
      <3>6. CASE Applied(r) \/ Threw(r) \/ Succeed(r) \/ GiveUp(r) \/ RolledBack(r)
        <4>1. /\ at'[r] = "read" /\ history' = history
              /\ phase'[r] \in {"apply", "applied", "succeeded"} =>
                   phase[r] \in {"apply", "applied", "succeeded"}
          BY <3>2, <3>6 DEF Applied, Threw, Succeed, GiveUp, RolledBack, At, GoTo, TypeOK, RowInv
        <4> QED
          BY <1>1, <2>2, <3>1, <4>1 DEF TakenOut, Standing, At
      <3> QED
        BY <3>3, <3>4, <3>5, <3>6
    <2> QED
      BY <2>1, <2>2
  <1>4. StackInv'
    BY <1>1, <1>2, <1>3, KeptStack DEF TakenOutNext, StandingNext
  <1> QED
    BY <1>1, <1>2, <1>4

LEMMA CrashStack ==
  ASSUME IInv, StackInv, forks = 0, Crash
  PROVE  StackInv' /\ RowsKept
  <1>1. UNCHANGED <<files, history, phase, edits>> /\ \A r \in Runs : at'[r] = "read"
    BY DEF Crash
  <1>2. RowsKept
    BY <1>1, SameKept
  <1>3. \A a \in Inserted : (TakenOut(a)' => TakenOut(a)) /\ (Standing(a)' => Standing(a))
    BY <1>1 DEF TakenOut, Standing, At, Row, Inserted
  <1> QED
    BY <1>1, <1>2, <1>3, KeptStack DEF TakenOutNext, StandingNext

LEMMA EditStack ==
  ASSUME FreshTexts, IInv, PlanInv, StackInv, forks = 0, Edit
  PROVE  StackInv' /\ RowsKept
  <1>1. UNCHANGED <<history, phase, i, at>> /\ edits' = edits + 1 /\ edits' # 0
    BY DEF Edit, posVars, IInv, TypeOK
  <1>2. PICK p \in Paths, t \in EditTexts : files' = [files EXCEPT ![p] = t]
    BY DEF Edit
  <1>3. RowsKept
    BY <1>1, SameKept
  <1>4. ASSUME NEW a \in Inserted, NEW D \in SUBSET PostsOn(Row(a).path),
               TakenOut(a) => files[Row(a).path] \notin D
        PROVE  /\ TakenOut(a)' => files'[Row(a).path] \notin D
               /\ ~Standing(a)'
    <2>1. Row(a).path \in Paths
      BY InsertedFacts
    <2>2. D \cap EditTexts = {}
      BY <2>1, ReadIn
    <2>3. TakenOut(a)' = TakenOut(a)
      BY <1>1 DEF TakenOut, Row, At
    <2>4. files'[Row(a).path] = files[Row(a).path] \/ files'[Row(a).path] = t
      BY <1>2, <2>1 DEF IInv, TypeOK
    <2> QED
      BY <1>1, <1>4, <2>2, <2>3, <2>4 DEF Standing
  <1> QED
    BY <1>3, <1>4, KeptStack DEF TakenOutNext, StandingNext

\* A write or a restoration marks the row of the index only.
LEMMA MarksElsewhere ==
  ASSUME IInv, forks = 0, NEW r \in Runs, WritePostimage(r) \/ RestorePreimage(r),
         NEW a \in Inserted, a # <<r, i[r]>>
  PROVE  (TakenOut(a)' => TakenOut(a)) /\ (Standing(a)' => Standing(a))
  <1>1. UNCHANGED <<history, phase, i, edits, forks>> /\ \A o \in Runs : o # r => at'[o] = at[o]
    BY DEF WritePostimage, RestorePreimage, GoTo, IInv, TypeOK, outsideVars
  <1>2. a[1] \in Runs /\ a = <<a[1], a[2]>>
    BY DEF Inserted
  <1>3. CASE a[1] # r
    BY <1>1, <1>2, <1>3 DEF TakenOut, Standing, At, Row
  <1>4. CASE a[1] = r
    BY <1>1, <1>2, <1>4 DEF TakenOut, Standing, At, Row
  <1> QED
    BY <1>3, <1>4

LEMMA WriteStack ==
  ASSUME FreshTexts, IInv, PlanInv, StackInv, forks = 0, NEW r \in Runs, WritePostimage(r)
  PROVE  StackInv' /\ RowsKept
  <1> DEFINE b == <<r, i[r]>>
             p == plan[r][i[r]].path
  <1>1. /\ phase[r] = "apply" /\ at[r] = "write" /\ UNCHANGED <<history, phase, i, edits>>
        /\ \/ at'[r] = "mark" /\ Read(p) = TheRow(r).post /\ files' = files
           \/ /\ at'[r] = "mark" /\ Read(p) = TheRow(r).pre
              /\ files' = [files EXCEPT ![p] = TheRow(r).post]
           \/ at'[r] = "threw" /\ files' = files
    BY DEF WritePostimage, At, GoTo, IInv, TypeOK, outsideVars
  <1>2. RowsKept
    BY <1>1, SameKept
  <1>3. b \in Inserted /\ Row(b) = TheRow(r) /\ b[1] = r /\ b[2] = i[r]
    BY <1>1 DEF IInv, RowInv, Inserted, Row, TheRow
  <1>4. p = Row(b).path /\ p \in Paths /\ ~Row(b).rolledBack
    BY <1>1, <1>3, InsertedFacts DEF PlanRow, Row
  <1> HIDE DEF b, p
  <1>5. ASSUME NEW a \in Inserted, NEW D \in SUBSET PostsOn(Row(a).path), Above(a, D),
               TakenOut(a) => files[Row(a).path] \notin D,
               Standing(a) => files[Row(a).path] \in D
        PROVE  /\ TakenOutNext(a) => files'[Row(a).path] \notin D
               /\ StandingNext(a) => files'[Row(a).path] \in D
    <2>1. CASE a = b
      <3>1. Row(b).post \in D /\ (files[p] \in D <=> Read(p) \in D)
        BY <1>4, <1>5, <2>1, ReadIn DEF Above
      <3>2. ~TakenOutNext(a)
        BY <1>1, <1>3, <1>4, <2>1 DEF TakenOutNext, TakenOut, At, Row
      <3>3. CASE at'[r] = "mark"
        <4>1. files'[p] \in D
          BY <1>1, <1>3, <1>4, <3>1, <3>3 DEF IInv, TypeOK
        <4> QED
          BY <1>4, <2>1, <3>2, <4>1
      <3>4. CASE at'[r] = "threw"
        <4>1. StandingNext(a) => Standing(a)
          BY <1>1, <1>3, <2>1, <3>4 DEF StandingNext, Standing, At, Row
        <4> QED
          BY <1>1, <1>5, <3>2, <3>4, <4>1
      <3> QED
        BY <1>1, <3>3, <3>4
    <2>2. CASE a # b
      <3>1. (TakenOutNext(a) => TakenOut(a)) /\ (StandingNext(a) => Standing(a))
        BY <2>2, MarksElsewhere DEF TakenOutNext, StandingNext, b
      <3>2. Row(a).path \in Paths
        BY InsertedFacts
      <3>3. files'[Row(a).path] \in D <=> files[Row(a).path] \in D
        <4>1. CASE files' = files \/ Row(a).path # p
          BY <1>1, <3>2, <4>1 DEF IInv, TypeOK
        <4>2. CASE Row(a).path = p /\ files' # files
          <5>1. files'[p] = Row(b).post /\ Read(p) = Row(b).pre
            BY <1>1, <1>3, <1>4, <4>2 DEF IInv, TypeOK
          <5>2. Row(b).post \in D <=> Row(b).pre \in D
            BY <1>3, <1>4, <1>5, <2>2, <4>2 DEF Above, On
          <5> QED
            BY <4>2, <5>1, <5>2, <1>4, ReadIn
        <4> QED
          BY <4>1, <4>2
      <3> QED
        BY <1>5, <3>1, <3>3
    <2> QED
      BY <2>1, <2>2
  <1>6. StackInv'
    BY <1>2, <1>5, KeptStack
  <1> QED
    BY <1>2, <1>6

LEMMA RestoreStack ==
  ASSUME FreshTexts, IInv, PlanInv, StackInv, forks = 0, NEW r \in Runs, RestorePreimage(r)
  PROVE  /\ StackInv' /\ RowsKept /\ <<r, i[r]>> \in Inserted
         /\ files' = files \/ files' = [files EXCEPT ![TheRow(r).path] = TheRow(r).pre]
  <1> DEFINE b == <<r, i[r]>>
             p == TheRow(r).path
  <1>1. /\ phase[r] = "rollback" /\ UNCHANGED <<history, phase, i, edits>>
        /\ TheRow(r).applied /\ ~TheRow(r).rolledBack
        /\ \/ at'[r] = "mark" /\ Read(p) = TheRow(r).pre /\ files' = files
           \/ /\ at'[r] = "mark" /\ Read(p) = TheRow(r).post
              /\ files' = [files EXCEPT ![p] = TheRow(r).pre]
           \/ at'[r] = "threw" /\ files' = files
    BY DEF RestorePreimage, At, GoTo, IInv, TypeOK, outsideVars
  <1>2. RowsKept
    BY <1>1, SameKept
  <1>3. b \in Inserted /\ Row(b) = TheRow(r) /\ b[1] = r /\ b[2] = i[r]
    <2>1. i[r] \in Indices
      BY PlansAssumption DEF RestorePreimage, IInv, RowInv, At, Indices
    <2> QED
      BY <1>1, <2>1 DEF Inserted, Row, TheRow, NoRow
  <1>4. p = Row(b).path /\ p \in Paths
    BY <1>3, InsertedFacts
  <1> HIDE DEF b, p
  <1>5. ASSUME NEW a \in Inserted, NEW D \in SUBSET PostsOn(Row(a).path), Above(a, D),
               TakenOut(a) => files[Row(a).path] \notin D,
               Standing(a) => files[Row(a).path] \in D
        PROVE  /\ TakenOutNext(a) => files'[Row(a).path] \notin D
               /\ StandingNext(a) => files'[Row(a).path] \in D
    <2>1. CASE a = b
      <3>1. Row(b).pre \notin D /\ (files[p] \in D <=> Read(p) \in D)
        BY <1>4, <1>5, <2>1, ReadIn DEF Above
      <3>2. ~StandingNext(a)
        BY <1>1, <1>3, <2>1 DEF StandingNext, Standing
      <3>3. CASE at'[r] = "mark"
        <4>1. files'[p] \notin D
          BY <1>1, <1>3, <1>4, <3>1, <3>3 DEF IInv, TypeOK
        <4> QED
          BY <1>4, <2>1, <3>2, <4>1
      <3>4. CASE at'[r] = "threw"
        <4>1. ~TakenOutNext(a)
          BY <1>1, <1>3, <2>1, <3>4 DEF TakenOutNext, TakenOut, At, Row, TheRow
        <4> QED
          BY <3>2, <4>1
      <3> QED
        BY <1>1, <3>3, <3>4
    <2>2. CASE a # b
      <3>1. (TakenOutNext(a) => TakenOut(a)) /\ (StandingNext(a) => Standing(a))
        BY <2>2, MarksElsewhere DEF TakenOutNext, StandingNext, b
      <3>2. Row(a).path \in Paths
        BY InsertedFacts
      <3>3. files'[Row(a).path] \in D <=> files[Row(a).path] \in D
        <4>1. CASE files' = files \/ Row(a).path # p
          BY <1>1, <3>2, <4>1 DEF IInv, TypeOK
        <4>2. CASE Row(a).path = p /\ files' # files
          <5>1. files'[p] = Row(b).pre /\ Read(p) = Row(b).post
            BY <1>1, <1>3, <1>4, <4>2 DEF IInv, TypeOK
          <5>2. Row(b).post \in D <=> Row(b).pre \in D
            BY <1>3, <1>4, <1>5, <2>2, <4>2 DEF Above, On
          <5> QED
            BY <4>2, <5>1, <5>2, <1>4, ReadIn
        <4> QED
          BY <4>1, <4>2
      <3> QED
        BY <1>5, <3>1, <3>3
    <2> QED
      BY <2>1, <2>2
  <1>6. StackInv'
    BY <1>2, <1>5, KeptStack
  <1> QED
    BY <1>1, <1>2, <1>3, <1>6 DEF b, p

\* The row that is inserted, with what the history then holds.
LEMMA InsertFacts ==
  ASSUME FreshTexts, IInv, PlanInv, KnownInv, forks = 0, NEW r \in Runs,
         InsertPatchHistory(r), TheRow(r) = NoRow, NEW b, b = <<r, i[r]>>
  PROVE  /\ UNCHANGED <<files, plan, phase, i, seen, edits, forks>>
         /\ phase[r] = "apply" /\ at'[r] = "write" /\ \A o \in Runs : o # r => at'[o] = at[o]
         /\ b \notin Inserted /\ Inserted' = Inserted \cup {b}
         /\ \A a \in Inserted : RowNext(a) = Row(a)
         /\ RowNext(b) = NewRow(r) /\ NewRow(r).path \in Paths
         /\ NewRow(r).post \notin KnownAt(NewRow(r).path)
         /\ NewRow(r).pre \in KnownAt(NewRow(r).path)
         /\ \A a \in Inserted : a[1] = r => a[2] < i[r]
         /\ i[r] \in Indices /\ b[1] = r /\ b[2] = i[r]
  <1>1. /\ UNCHANGED <<files, plan, phase, i, seen, edits, forks>>
        /\ phase[r] = "apply" /\ at[r] = "insert" /\ at'[r] = "write"
        /\ \A o \in Runs : o # r => at'[o] = at[o]
        /\ history' = [history EXCEPT ![r][i[r]] = NewRow(r)]
    BY DEF InsertPatchHistory, At, GoTo, IInv, TypeOK, outsideVars
  <1>2. i[r] \in 1..Len(plan[r]) /\ i[r] \in Indices
    BY <1>1, PlanTyped DEF IInv, RowInv
  <1>3. /\ history'[r][i[r]] = NewRow(r)
        /\ \A k \in Indices : k # i[r] => history'[r][k] = history[r][k]
        /\ \A o \in Runs : o # r => history'[o] = history[o]
    BY <1>1, <1>2, Updated DEF IInv
  <1>4. NewRow(r).path \in Paths /\ NewRow(r).path = plan[r][i[r]].path
        /\ NewRow(r).post = plan[r][i[r]].post /\ NewRow(r).pre = seen[r]
    BY <1>2, PlanTyped DEF NewRow, IInv
  <1>5. NewRow(r) # NoRow
    BY <1>4, <1>2, PlanTyped, TextsAssumption DEF NoRow, NewRow, IInv
  <1>6. \A a \in Runs \X Indices : a # b => RowNext(a) = Row(a)
    <2> SUFFICES ASSUME NEW a \in Runs \X Indices, a # b PROVE RowNext(a) = Row(a)
      OBVIOUS
    <2>1. a[1] \in Runs /\ a[2] \in Indices /\ (a[1] # r \/ a[2] # i[r])
      OBVIOUS
    <2> QED
      BY <2>1, <1>3 DEF RowNext, Row
  <1>7. b \in Runs \X Indices /\ RowNext(b) = NewRow(r) /\ Row(b) = NoRow /\ b[1] = r /\ b[2] = i[r]
    BY <1>2, <1>3 DEF RowNext, Row, TheRow
  <1>8. Inserted' = {a \in Runs \X Indices : RowNext(a) # NoRow}
    BY DEF Inserted, Row, RowNext
  <1>9. b \notin Inserted /\ Inserted' = Inserted \cup {b}
    BY <1>5, <1>6, <1>7, <1>8 DEF Inserted
  <1>10. \A a \in Inserted : RowNext(a) = Row(a)
    BY <1>6, <1>9 DEF Inserted
  <1>11. /\ NewRow(r).post \notin KnownAt(NewRow(r).path)
         /\ NewRow(r).pre \in KnownAt(NewRow(r).path)
    BY <1>1, <1>2, <1>4, TextIsNew DEF KnownInv, At
  <1>12. \A a \in Inserted : a[1] = r => a[2] < i[r]
    <2> SUFFICES ASSUME NEW a \in Inserted, a[1] = r, ~(a[2] < i[r]) PROVE FALSE
      OBVIOUS
    <2>1. a[2] \in Nat /\ i[r] \in Nat /\ i[r] >= 1 /\ a \in Runs \X Indices /\ a[2] \in Indices
      BY <1>2, PlansAssumption DEF Inserted, Indices
    <2>2. a[2] # i[r]
      BY <1>9, <2>1
    <2>3. i[r] \in 1..a[2] - 1
      BY <2>1, <2>2
    <2>4. history[r][a[2]] # NoRow /\ PlanRow(r, a[2])
      BY <2>1 DEF PlanInv, Inserted, Row
    <2> QED
      BY <2>3, <2>4 DEF PlanRow, TheRow
  <1> QED
    BY <1>1, <1>2, <1>4, <1>7, <1>9, <1>10, <1>11, <1>12

\* A new row is put on the stack of what was read: on those that hold this, and
\* on no others.
LEMMA InsertStack ==
  ASSUME FreshTexts, IInv, PlanInv, KnownInv, StackInv, forks = 0, NEW r \in Runs,
         InsertPatchHistory(r), TheRow(r) = NoRow
  PROVE  StackInv'
  <1>1. PICK b : b = <<r, i[r]>>
    OBVIOUS
  <1>2. PICK n : n = NewRow(r)
    OBVIOUS
  <1>3. /\ UNCHANGED <<files, plan, phase, i, edits, forks>>
        /\ phase[r] = "apply" /\ at'[r] = "write" /\ \A o \in Runs : o # r => at'[o] = at[o]
        /\ b \notin Inserted /\ Inserted' = Inserted \cup {b}
        /\ \A a \in Inserted : RowNext(a) = Row(a)
        /\ RowNext(b) = n /\ n.path \in Paths
        /\ n.post \notin KnownAt(n.path) /\ n.pre \in KnownAt(n.path)
        /\ \A a \in Inserted : a[1] = r => a[2] < i[r]
        /\ i[r] \in Nat /\ b[1] = r /\ b[2] = i[r]
    BY <1>1, <1>2, InsertFacts, PlansAssumption DEF Indices
  <1>4. ~n.rolledBack /\ ~n.applied
    BY <1>2 DEF NewRow
  <1> SUFFICES ASSUME NEW a \in Inserted'
               PROVE  (\E D \in SUBSET PostsOn(Row(a).path) :
                        /\ Above(a, D)
                        /\ TakenOut(a) => files[Row(a).path] \notin D
                        /\ Standing(a) => files[Row(a).path] \in D)'
    BY DEF StackInv
  <1>5. PICK p : p = RowNext(a).path
    OBVIOUS
  <1>6. Row(a)' = RowNext(a) /\ Row(a).path' = p
    BY <1>5 DEF Row, RowNext
  <1>7. On(p)' = {c \in Inserted' : RowNext(c).path = p}
    BY DEF On, Row, RowNext
  <1>8. PostsOn(p)' = {RowNext(c).post : c \in On(p)'}
    BY DEF PostsOn, Row, RowNext
  <1>9. PostsOn(Row(a).path)' = PostsOn(p)' /\ On(Row(a).path)' = On(p)'
    BY <1>6 DEF PostsOn, On
  <1>10. \A D : Above(a, D)' <=>
            /\ RowNext(a).post \in D /\ RowNext(a).pre \notin D
            /\ \A c \in On(p)' \ {a} : RowNext(c).post \in D <=> RowNext(c).pre \in D
            /\ \A c \in On(p)' : c[1] = a[1] /\ c[2] < a[2] => RowNext(c).post \notin D
    <2> SUFFICES ASSUME NEW D
                 PROVE  Above(a, D)' <=>
            /\ RowNext(a).post \in D /\ RowNext(a).pre \notin D
            /\ \A c \in On(p)' \ {a} : RowNext(c).post \in D <=> RowNext(c).pre \in D
            /\ \A c \in On(p)' : c[1] = a[1] /\ c[2] < a[2] => RowNext(c).post \notin D
      OBVIOUS
    <2>1. Above(a, D)' <=>
            /\ RowNext(a).post \in D /\ RowNext(a).pre \notin D
            /\ \A c \in On(Row(a).path)' \ {a} : RowNext(c).post \in D <=> RowNext(c).pre \in D
            /\ \A c \in On(Row(a).path)' : c[1] = a[1] /\ c[2] < a[2] => RowNext(c).post \notin D
      BY DEF Above, Row, RowNext
    <2> QED
      BY <2>1, <1>9
  <1>11. SUFFICES \E D \in SUBSET PostsOn(p)' :
                    /\ Above(a, D)'
                    /\ TakenOutNext(a) => files[p] \notin D
                    /\ StandingNext(a) => files[p] \in D
    BY <1>3, <1>6, <1>9 DEF TakenOutNext, StandingNext
  <1>12. CASE a = b
    <2>1. p = n.path /\ b \in On(p)' /\ \A c \in On(p)' : c # b => c \in On(p) /\ RowNext(c) = Row(c)
      BY <1>3, <1>5, <1>7, <1>12 DEF On
    <2>2. n.post \notin PostsOn(p) /\ n.pre # n.post
      BY <1>3, <2>1 DEF KnownAt
    <2>3. \A c \in On(p) : Row(c).post # n.post /\ Row(c).pre # n.post
      <3> SUFFICES ASSUME NEW c \in On(p) PROVE Row(c).post # n.post /\ Row(c).pre # n.post
        OBVIOUS
      <3>1. Row(c).pre \in KnownAt(p) /\ Row(c).post \in KnownAt(p)
        BY DEF KnownInv, On, KnownAt, PostsOn
      <3> QED
        BY <1>3, <2>1, <3>1
    <2>4. Above(a, {n.post})'
      BY <1>3, <1>10, <1>12, <2>1, <2>2, <2>3
    <2>5. {n.post} \in SUBSET PostsOn(p)'
      BY <1>3, <1>8, <2>1
    <2>6. ~TakenOutNext(a) /\ ~StandingNext(a)
      BY <1>3, <1>4, <1>6, <1>12 DEF TakenOutNext, StandingNext, TakenOut, Standing, At
    <2> QED
      BY <2>4, <2>5, <2>6
  <1>13. CASE a # b
    <2>1. a \in Inserted /\ RowNext(a) = Row(a) /\ p = Row(a).path /\ p \in Paths
      BY <1>3, <1>5, <1>13, InsertedFacts
    <2>2. PICK D \in SUBSET PostsOn(p) :
            /\ Above(a, D)
            /\ TakenOut(a) => files[p] \notin D
            /\ Standing(a) => files[p] \in D
      BY <2>1 DEF StackInv
    <2>3. (TakenOutNext(a) => TakenOut(a)) /\ (StandingNext(a) => Standing(a))
      <3>1. Row(a)' = Row(a) /\ a[1] \in Runs
        BY <1>6, <2>1 DEF Inserted
      <3>2. a[1] = r => at'[a[1]] = "write"
        BY <1>3
      <3>3. a[1] # r => at'[a[1]] = at[a[1]]
        BY <1>3, <3>1
      <3> QED
        BY <1>3, <3>1, <3>2, <3>3 DEF TakenOutNext, StandingNext, TakenOut, Standing, At
    <2>4. PICK E : E = IF n.path = p /\ n.pre \in D THEN D \cup {n.post} ELSE D
      OBVIOUS
    <2>5. \A c \in On(p) : Row(c).pre \in KnownAt(p) /\ Row(c).post \in KnownAt(p)
      BY DEF KnownInv, On, KnownAt, PostsOn
    <2>6. \A t \in KnownAt(p) : t \in E <=> t \in D
      BY <1>3, <2>4
    <2>7. /\ On(p) \subseteq On(p)'
          /\ \A c \in On(p)' : (c \in On(p) /\ RowNext(c) = Row(c)) \/ (c = b /\ n.path = p)
      BY <1>3, <1>7 DEF On
    <2>8. D \subseteq PostsOn(p)'
      <3> SUFFICES ASSUME NEW t \in D PROVE t \in PostsOn(p)'
        OBVIOUS
      <3>1. PICK c \in On(p) : t = Row(c).post
        BY DEF PostsOn
      <3>2. c \in On(p)' /\ RowNext(c) = Row(c)
        BY <1>3, <2>7 DEF On
      <3> QED
        BY <1>8, <3>1, <3>2
    <2>9. E \in SUBSET PostsOn(p)'
      <3>1. n.path = p => n.post \in PostsOn(p)'
        BY <1>3, <1>7, <1>8
      <3> QED
        BY <2>4, <2>8, <3>1
    <2>10. files[p] \in E <=> files[p] \in D
      <3>1. CASE files[p] \in KnownAt(p)
        BY <2>6, <3>1
      <3>2. CASE files[p] = "absent"
        <4>1. n.post \in Texts /\ D \subseteq Texts
          <5>1. n.post \in Texts
            <6>1. i[r] \in 1..Len(plan[r])
              BY DEF InsertPatchHistory, At, IInv, RowInv
            <6> QED
              BY <1>2, <6>1, PlanTyped DEF NewRow, IInv
          <5>2. \A c \in Inserted : Row(c).post \in Texts
            BY InsertedFacts DEF Rows
          <5> QED
            BY <5>1, <5>2 DEF PostsOn, On
        <4> QED
          BY <2>4, <3>2, <4>1, TextsAssumption
      <3> QED
        BY <2>1, <3>1, <3>2 DEF KnownInv
    <2>11. Above(a, E)'
      <3>1. a \in On(p)
        BY <2>1 DEF On
      <3>2. RowNext(a).post \in E /\ RowNext(a).pre \notin E
        BY <2>1, <2>2, <2>5, <2>6, <3>1 DEF Above
      <3>3. \A c \in On(p)' \ {a} : RowNext(c).post \in E <=> RowNext(c).pre \in E
        <4> SUFFICES ASSUME NEW c \in On(p)', c # a
                     PROVE  RowNext(c).post \in E <=> RowNext(c).pre \in E
          OBVIOUS
        <4>1. CASE c \in On(p) /\ RowNext(c) = Row(c)
          BY <2>1, <2>2, <2>5, <2>6, <4>1 DEF Above
        <4>2. CASE c = b /\ n.path = p
          <5>1. n.pre \in E <=> n.pre \in D
            BY <1>3, <2>6, <4>2
          <5>2. n.post \notin D
            BY <1>3, <2>2, <4>2 DEF KnownAt
          <5> QED
            BY <1>3, <2>4, <4>2, <5>1, <5>2
        <4> QED
          BY <2>7, <4>1, <4>2
      <3>4. \A c \in On(p)' : c[1] = a[1] /\ c[2] < a[2] => RowNext(c).post \notin E
        <4> SUFFICES ASSUME NEW c \in On(p)', c[1] = a[1], c[2] < a[2]
                     PROVE  RowNext(c).post \notin E
          OBVIOUS
        <4>1. CASE c \in On(p) /\ RowNext(c) = Row(c)
          BY <2>1, <2>2, <2>5, <2>6, <4>1 DEF Above
        <4>2. CASE c = b
          <5>1. a[2] < i[r] /\ i[r] < a[2] /\ a[2] \in Nat
            BY <1>3, <2>1, <4>2, PlansAssumption DEF Inserted, Indices
          <5> QED
            BY <1>3, <5>1
        <4> QED
          BY <2>7, <4>1, <4>2
      <3> QED
        BY <1>10, <3>2, <3>3, <3>4
    <2> QED
      BY <2>2, <2>3, <2>9, <2>10, <2>11
  <1> QED
    BY <1>12, <1>13
-----------------------------------------------------------------------------
(* Every text is known before it is seen. *)

\* The rows of the history and the files keep to known texts where the rows are
\* kept and a step writes known texts only.
LEMMA KeptKnown ==
  ASSUME KnownInv, forks = 0, RowsKept, plan' = plan,
         \A p \in Paths : files'[p] \in KnownAt(p) \cup {"absent"},
         \A r \in Runs : At(r, "apply", "insert")' =>
           /\ i'[r] = i[r]
           /\ \/ At(r, "apply", "insert") /\ seen'[r] = seen[r]
              \/ seen'[r] \in KnownAt(plan[r][i[r]].path)
  PROVE  KnownInv'
  <1>1. ASSUME NEW p \in Paths PROVE files'[p] \in KnownAt(p)' \cup {"absent"}
    BY KeptFacts
  <1>2. ASSUME NEW a \in Inserted' PROVE (Row(a).pre \in KnownAt(Row(a).path))'
    <2>1. PICK p : p = Row(a).path
      OBVIOUS
    <2>2. /\ a \in Inserted /\ RowNext(a).path = p /\ RowNext(a).pre = Row(a).pre
          /\ KnownAt(p)' = KnownAt(p)
      BY <2>1, KeptFacts
    <2>3. RowNext(a) = Row(a)'
      BY DEF RowNext, Row
    <2>4. KnownAt(Row(a).path)' = KnownAt(p)'
      BY <2>2, <2>3 DEF KnownAt, PostsOn, On
    <2> QED
      BY <2>1, <2>2, <2>3, <2>4 DEF KnownInv
  <1>3. ASSUME NEW r \in Runs, At(r, "apply", "insert")'
        PROVE  (seen[r] \in KnownAt(plan[r][i[r]].path))'
    <2>1. PICK p : p = plan[r][i[r]].path
      OBVIOUS
    <2>2. seen'[r] \in KnownAt(p) /\ (plan[r][i[r]].path)' = p
      BY <1>3, <2>1 DEF KnownInv
    <2>3. KnownAt(p)' = KnownAt(p)
      BY KeptFacts
    <2>4. KnownAt(plan[r][i[r]].path)' = KnownAt(p)'
      BY <2>2 DEF KnownAt, PostsOn, On
    <2> QED
      BY <2>2, <2>3, <2>4
  <1> QED
    BY <1>1, <1>2, <1>3 DEF KnownInv

LEMMA InsertKnown ==
  ASSUME FreshTexts, IInv, PlanInv, KnownInv, forks = 0, NEW r \in Runs,
         InsertPatchHistory(r), TheRow(r) = NoRow
  PROVE  KnownInv'
  <1>1. PICK b : b = <<r, i[r]>>
    OBVIOUS
  <1>2. /\ UNCHANGED <<files, plan, phase, i, seen>> /\ at'[r] = "write"
        /\ \A o \in Runs : o # r => at'[o] = at[o]
        /\ Inserted' = Inserted \cup {b} /\ \A a \in Inserted : RowNext(a) = Row(a)
        /\ RowNext(b) = NewRow(r) /\ NewRow(r).pre \in KnownAt(NewRow(r).path)
        /\ b \notin Inserted
    BY <1>1, InsertFacts
  <1>3. ASSUME NEW p PROVE KnownAt(p) \subseteq KnownAt(p)'
    <2>1. On(p)' = {c \in Inserted' : RowNext(c).path = p}
      BY DEF On, Row, RowNext
    <2>2. PostsOn(p)' = {RowNext(c).post : c \in On(p)'}
      BY DEF PostsOn, Row, RowNext
    <2>3. ASSUME NEW c \in On(p) PROVE c \in On(p)' /\ RowNext(c).post = Row(c).post
      BY <1>2, <2>1, <2>3 DEF On
    <2>4. PostsOn(p) \subseteq PostsOn(p)'
      BY <2>2, <2>3 DEF PostsOn
    <2> QED
      BY <2>4 DEF KnownAt
  <1>4. \A p \in Paths : files'[p] \in KnownAt(p)' \cup {"absent"}
    BY <1>2, <1>3 DEF KnownInv
  <1>5. ASSUME NEW a \in Inserted' PROVE (Row(a).pre \in KnownAt(Row(a).path))'
    <2>1. PICK p : p = RowNext(a).path
      OBVIOUS
    <2>2. RowNext(a) = Row(a)'
      BY DEF RowNext, Row
    <2>3. KnownAt(Row(a).path)' = KnownAt(p)'
      BY <2>1, <2>2 DEF KnownAt, PostsOn, On
    <2>4. RowNext(a).pre \in KnownAt(p)
      BY <1>2, <2>1 DEF KnownInv
    <2> QED
      BY <1>3, <2>2, <2>3, <2>4
  <1>6. ASSUME NEW o \in Runs, At(o, "apply", "insert")'
        PROVE  (seen[o] \in KnownAt(plan[o][i[o]].path))'
    <2>1. PICK p : p = plan[o][i[o]].path
      OBVIOUS
    <2>2. At(o, "apply", "insert") /\ (plan[o][i[o]].path)' = p
      BY <1>2, <1>6, <2>1 DEF At
    <2>3. seen'[o] \in KnownAt(p)
      BY <1>2, <2>1, <2>2 DEF KnownInv
    <2>4. KnownAt(plan[o][i[o]].path)' = KnownAt(p)'
      BY <2>2 DEF KnownAt, PostsOn, On
    <2> QED
      BY <1>3, <2>3, <2>4
  <1> QED
    BY <1>4, <1>5, <1>6 DEF KnownInv

LEMMA NextKnown ==
  ASSUME FreshTexts, IInv, PlanInv, KnownInv, StackInv, [Next]_vars, forks' = 0
  PROVE  KnownInv' /\ StackInv'
  <1>1. forks = 0 /\ plan' = plan /\ TypeOK /\ RowInv
    BY Unforked DEF IInv
  <1>2. \A p \in Paths : files[p] \in KnownAt(p) \cup {"absent"}
    BY <1>1 DEF KnownInv
  <1>3. CASE UNCHANGED vars
    <2>1. RowsKept
      BY <1>3, SameKept DEF vars
    <2>2. KnownInv'
      BY <1>1, <1>2, <1>3, <2>1, KeptKnown DEF vars, posVars, At
    <2>3. StackInv'
      BY <1>1, <1>3, <2>1, KeptStack DEF vars, posVars, outsideVars, TakenOutNext, StandingNext,
         TakenOut, Standing, At, Row
    <2> QED
      BY <2>2, <2>3
  <1>4. CASE Crash
    <2>1. RowsKept /\ StackInv'
      BY <1>1, <1>4, CrashStack
    <2>2. files' = files /\ \A r \in Runs : at'[r] = "read"
      BY <1>4 DEF Crash
    <2> QED
      BY <1>1, <1>2, <2>1, <2>2, KeptKnown DEF At
  <1>5. CASE Edit
    <2>1. RowsKept /\ StackInv'
      BY <1>1, <1>5, EditStack
    <2>2. PICK p \in Paths, t \in EditTexts : files' = [files EXCEPT ![p] = t]
      BY <1>5 DEF Edit
    <2>3. \A o \in Paths : files'[o] \in KnownAt(o) \cup {"absent"}
      BY <1>1, <1>2, <2>2 DEF TypeOK, KnownAt
    <2> QED
      BY <1>1, <1>5, <2>1, <2>3, KeptKnown DEF Edit, posVars, At
  <1>6. ASSUME NEW r \in Runs, RunStep(r)
        PROVE  KnownInv' /\ StackInv'
    <2>1. ~Fork(r)
      BY <1>1 DEF Fork, TypeOK
    <2>2. \A o \in Runs : o # r =>
            at'[o] = at[o] /\ phase'[o] = phase[o] /\ i'[o] = i[o] /\ seen'[o] = seen[o]
      BY <1>1, <1>6, OthersStay
    <2>3. CASE ReadPreimage(r)
      <3>1. RowsKept /\ StackInv' /\ files' = files
        BY <1>1, <2>3, QuietStack
      <3>2. i[r] \in 1..Len(plan[r]) /\ i' = i /\ seen'[r] = Read(plan[r][i[r]].path)
        BY <1>1, <2>3, PlanTyped DEF ReadPreimage, RowInv, TypeOK, At
      <3>3. plan[r][i[r]].path \in Paths
        BY <1>1, <3>2, PlanTyped
      <3>4. seen'[r] \in KnownAt(plan[r][i[r]].path)
        BY <1>2, <3>2, <3>3 DEF Read, KnownAt
      <3> QED
        BY <1>1, <1>2, <2>2, <3>1, <3>2, <3>4, KeptKnown DEF At
    <2>4. CASE \/ MarkApplied(r) \/ Applied(r) \/ Threw(r) \/ Succeed(r) \/ GiveUp(r)
               \/ SkipRow(r) \/ MarkRolledBack(r) \/ RolledBack(r)
      <3>1. RowsKept /\ StackInv' /\ files' = files
        BY <1>1, <2>4, QuietStack
      <3>2. at'[r] # "insert" \/ phase'[r] # "apply"
        BY <1>1, <2>4 DEF MarkApplied, Applied, Threw, Succeed, GiveUp, SkipRow,
           MarkRolledBack, RolledBack, At, GoTo, TypeOK
      <3> QED
        BY <1>1, <1>2, <2>2, <3>1, <3>2, KeptKnown DEF At
    <2>5. CASE InsertPatchHistory(r)
      <3>1. CASE TheRow(r) = NoRow
        BY <1>1, <2>5, <3>1, InsertKnown, InsertStack
      <3>2. CASE TheRow(r) # NoRow
        <4>1. /\ UNCHANGED <<files, history, phase, i, edits>> /\ at'[r] = "write"
          BY <1>1, <2>5, <3>2 DEF InsertPatchHistory, At, GoTo, TypeOK, outsideVars
        <4>2. RowsKept
          BY <4>1, SameKept
        <4>3. KnownInv'
          BY <1>1, <1>2, <2>2, <4>1, <4>2, KeptKnown DEF At
        <4>4. ASSUME NEW a \in Inserted
              PROVE  (TakenOutNext(a) => TakenOut(a)) /\ (StandingNext(a) => Standing(a))
          <5>1. a[1] \in Runs
            BY DEF Inserted
          <5> QED
            BY <2>2, <4>1, <5>1 DEF TakenOutNext, StandingNext, TakenOut, Standing, At, Row
        <4>5. StackInv'
          BY <1>1, <4>1, <4>2, <4>4, KeptStack
        <4> QED
          BY <4>3, <4>5
      <3> QED
        BY <3>1, <3>2
    <2>6. CASE WritePostimage(r)
      <3>1. StackInv' /\ RowsKept
        BY <1>1, <2>6, WriteStack
      <3>2. at'[r] # "insert" /\ at[r] = "write"
        BY <1>1, <2>6 DEF WritePostimage, At, GoTo, TypeOK
      <3>3. /\ i[r] \in Indices /\ <<r, i[r]>> \in Inserted /\ Row(<<r, i[r]>>) = TheRow(r)
        BY <1>1, <3>2 DEF RowInv, Inserted, Row, TheRow
      <3>4. plan[r][i[r]].path = TheRow(r).path
        BY <1>1, <3>3, InsertedFacts
      <3>5. TheRow(r).post \in KnownAt(TheRow(r).path)
        BY <3>3 DEF KnownAt, PostsOn, On
      <3>6. files' = files \/ files' = [files EXCEPT ![TheRow(r).path] = TheRow(r).post]
        BY <2>6, <3>4 DEF WritePostimage
      <3>7. \A p \in Paths : files'[p] \in KnownAt(p) \cup {"absent"}
        BY <1>1, <1>2, <3>5, <3>6 DEF TypeOK
      <3> QED
        BY <1>1, <2>2, <3>1, <3>2, <3>7, KeptKnown DEF At
    <2>7. CASE RestorePreimage(r)
      <3>1. /\ StackInv' /\ RowsKept /\ <<r, i[r]>> \in Inserted
            /\ files' = files \/ files' = [files EXCEPT ![TheRow(r).path] = TheRow(r).pre]
        BY <1>1, <2>7, RestoreStack
      <3>2. phase'[r] = "rollback"
        BY <1>1, <2>7 DEF RestorePreimage, At
      <3>3. TheRow(r).pre \in KnownAt(TheRow(r).path)
        <4>1. Row(<<r, i[r]>>) = TheRow(r)
          BY DEF Row, TheRow
        <4>2. Row(<<r, i[r]>>).pre \in KnownAt(Row(<<r, i[r]>>).path)
          BY <1>1, <3>1 DEF KnownInv
        <4> QED
          BY <4>1, <4>2
      <3>4. \A p \in Paths : files'[p] \in KnownAt(p) \cup {"absent"}
        BY <1>1, <1>2, <3>1, <3>3 DEF TypeOK
      <3> QED
        BY <1>1, <2>2, <3>1, <3>2, <3>4, KeptKnown DEF At
    <2> QED
      BY <1>6, <2>1, <2>3, <2>4, <2>5, <2>6, <2>7 DEF RunStep
  <1> QED
    BY <1>3, <1>4, <1>5, <1>6 DEF Next

LEMMA InitKnown == Init => KnownInv /\ StackInv
  <1> SUFFICES ASSUME Init PROVE KnownInv /\ StackInv
    OBVIOUS
  <1>1. Inserted = {}
    BY DEF Init, Inserted, Row
  <1>2. StackInv
    BY <1>1 DEF StackInv
  <1>3. KnownInv
    BY <1>1 DEF Init, KnownInv, KnownAt, At
  <1> QED
    BY <1>2, <1>3
-----------------------------------------------------------------------------
\* Whoever is rolled back has none of its texts on a file.
LEMMA StackRestores ==
  ASSUME IInv, PlanInv, StackInv
  PROVE  RollbackRestores
  <1> SUFFICES ASSUME NEW r \in Runs, NEW k \in Indices,
                      forks = 0, phase[r] = "rolled", history[r][k] # NoRow
               PROVE  files[history[r][k].path] # history[r][k].post
    BY DEF RollbackRestores
  <1>1. PICK a : a = <<r, k>>
    OBVIOUS
  <1>2. a \in Inserted /\ Row(a) = history[r][k]
    BY <1>1 DEF Inserted, Row
  <1>3. TakenOut(a)
    BY <1>1, <1>2 DEF PlanInv, PlanRow, TakenOut
  <1> QED
    BY <1>2, <1>3 DEF StackInv, Above

\* The files of a run's plans.
LEMMA InPathsOf ==
  ASSUME NEW r \in Runs, NEW q \in Plans[r], NEW k \in 1..Len(q)
  PROVE  q[k].path \in PathsOf(r)
  <1>1. q[k].path \in {q[m].path : m \in 1..Len(q)}
    OBVIOUS
  <1> QED
    BY <1>1 DEF PathsOf

\* What is standing has nothing on top of it once all others are rolled back.
LEMMA StackKeeps ==
  ASSUME IInv, PlanInv, StackInv
  PROVE  AppliedKept
  <1> SUFFICES ASSUME NEW r \in Runs, phase[r] \in {"applied", "succeeded"}, edits = 0, forks = 0,
                      \A o \in Runs : Shares(r, o) => phase[o] = "rolled",
                      NEW k \in 1..Len(plan[r]),
                      \A m \in k + 1..Len(plan[r]) : plan[r][m].path # plan[r][k].path
               PROVE  files[plan[r][k].path] = plan[r][k].post
    BY DEF AppliedKept, InPlace
  <1>1. PICK a : a = <<r, k>>
    OBVIOUS
  <1>2. k \in Indices /\ plan[r] \in Plans[r]
    BY PlanTyped DEF IInv, TypeOK
  <1>3. history[r][k].applied
    BY <1>2 DEF PlanInv, PlanRow, Phases, SettledPhases
  <1>4. a \in Inserted /\ Row(a) = history[r][k] /\ a[1] = r /\ a[2] = k
    BY <1>1, <1>2, <1>3 DEF Inserted, Row, NoRow
  <1>5. Row(a).path = plan[r][k].path /\ Row(a).post = plan[r][k].post /\ Standing(a)
    BY <1>3, <1>4, InsertedFacts DEF Standing
  <1>6. PICK D \in SUBSET PostsOn(Row(a).path) : Above(a, D) /\ files[Row(a).path] \in D
    BY <1>4, <1>5 DEF StackInv
  <1>7. PICK b \in On(Row(a).path) : Row(b).post = files[Row(a).path]
    BY <1>6 DEF PostsOn
  <1>8. /\ b \in Inserted /\ b[1] \in Runs /\ Row(b).path = Row(a).path
        /\ b[2] \in 1..Len(plan[b[1]]) /\ Row(b).path = plan[b[1]][b[2]].path
        /\ plan[b[1]] \in Plans[b[1]] /\ b = <<b[1], b[2]>> /\ b[2] \in Indices
    BY <1>7, InsertedFacts DEF On
  <1>9. CASE b[1] # r
    <2>1. plan[r][k].path \in PathsOf(r) /\ plan[r][k].path \in PathsOf(b[1])
      BY <1>2, <1>5, <1>8, InPathsOf
    <2>2. phase[b[1]] = "rolled"
      BY <1>8, <1>9, <2>1 DEF Shares
    <2>3. RollbackRestores
      BY StackRestores
    <2> QED
      BY <1>7, <1>8, <2>2, <2>3 DEF RollbackRestores, Row, Inserted
  <1>10. CASE b[1] = r
    <2>1. b[2] \in Nat /\ k \in Nat /\ Len(plan[r]) \in Nat
      BY <1>2, <1>8, PlansAssumption DEF Indices
    <2>2. ~(b[2] > k)
      BY <1>5, <1>8, <1>10, <2>1
    <2>3. ~(b[2] < k)
      BY <1>4, <1>6, <1>7, <1>10 DEF Above
    <2>4. b = a
      BY <1>1, <1>8, <1>10, <2>1, <2>2, <2>3
    <2> QED
      BY <1>5, <1>7, <2>4
  <1> QED
    BY <1>9, <1>10

\* For plans that leave no text twice in one file: what was rolled back is not in
\* the workspace, and what was applied is, when the others were rolled back.
THEOREM Fits == FreshTexts => (Spec => []FilesFit)
  <1> SUFFICES ASSUME FreshTexts PROVE Spec => []FilesFit
    OBVIOUS
  <1> DEFINE I == IInv /\ PlanInv /\ KnownInv /\ StackInv
  <1>1. Init => I
    BY InitIInv, InitPlanInv, InitKnown
  <1>2. I /\ [Next]_vars => I'
    <2> SUFFICES ASSUME I, [Next]_vars PROVE I'
      OBVIOUS
    <2>1. IInv'
      BY ApplySteps, RollbackSteps, CrashStep, EditStep, ForkStep, StutterStep
         DEF Next, RunStep
    <2>2. PlanInv'
      BY NextPlanInv
    <2>3. KnownInv' /\ StackInv'
      <3>1. CASE forks' = 0
        BY <3>1, NextKnown
      <3>2. CASE forks' # 0
        BY <3>2 DEF KnownInv, StackInv
      <3> QED
        BY <3>1, <3>2
    <2> QED
      BY <2>1, <2>2, <2>3
  <1>3. I => FilesFit
    BY StackRestores, StackKeeps DEF FilesFit
  <1> HIDE DEF I
  <1> QED
    BY <1>1, <1>2, <1>3, PTL DEF Spec
-----------------------------------------------------------------------------
(* A run alone with its files. *)

AloneAt(r) ==
  /\ at[r] # "threw" /\ phase[r] \notin {"refused", "stuck"}
  /\ At(r, "apply", "insert") => seen[r] = Read(plan[r][i[r]].path)
  /\ \A k \in Indices : history[r][k] # NoRow =>
       Read(history[r][k].path) \in {history[r][k].pre, history[r][k].post}

LEMMA AloneParts == AloneInv <=> (forks = 0 => \A r \in Runs : Alone(r) => AloneAt(r))
  BY DEF AloneInv, AloneAt

\* The path of a row is one of the files of its run.
LEMMA RowPath ==
  ASSUME IInv, PlanInv, forks = 0, NEW o \in Runs, NEW k \in Indices, history[o][k] # NoRow
  PROVE  /\ k \in 1..Len(plan[o]) /\ history[o][k].path = plan[o][k].path
         /\ history[o][k].path \in PathsOf(o) /\ history[o][k] \in Rows
  <1>1. PICK a : a = <<o, k>>
    OBVIOUS
  <1>2. a \in Inserted /\ Row(a) = history[o][k]
    BY <1>1 DEF Inserted, Row
  <1>3. /\ k \in 1..Len(plan[o]) /\ history[o][k].path = plan[o][k].path
        /\ plan[o] \in Plans[o] /\ history[o][k] \in Rows
    BY <1>1, <1>2, InsertedFacts
  <1> QED
    BY <1>3, InPathsOf

\* Who is alone after a step was alone before it.
LEMMA AloneBefore ==
  ASSUME IInv, [Next]_vars, forks' = 0, NEW r \in Runs, Alone(r)'
  PROVE  Alone(r) /\ edits' = edits
  <1>1. edits \in Nat /\ forks = 0 /\ TypeOK /\ RowInv
    BY Unforked DEF IInv, TypeOK
  <1>2. edits' = 0 /\ \A o \in Runs : Shares(r, o) => \A k \in Indices : history'[o][k] = NoRow
    BY DEF Alone, Shares, PathsOf
  <1>3. ASSUME NEW o \in Runs, NEW k \in Indices, history'[o][k] = NoRow
        PROVE  history[o][k] = NoRow
    <2>1. CASE history' = history
      BY <1>3, <2>1
    <2>2. CASE \E w \in Runs : MarkApplied(w) \/ MarkRolledBack(w)
      <3>1. RowsKept
        BY <2>2, MarkKept
      <3> QED
        BY <1>3, <3>1 DEF RowsKept
    <2>3. ASSUME NEW w \in Runs, InsertPatchHistory(w), history' # history
          PROVE  history[o][k] = NoRow
      <3>1. TheRow(w) = NoRow /\ history' = [history EXCEPT ![w][i[w]] = NewRow(w)]
        BY <2>3 DEF InsertPatchHistory
      <3>2. i[w] \in Indices
        BY <1>1, <2>3, PlanTyped DEF InsertPatchHistory, RowInv, At
      <3>3. /\ \A m \in Indices : m # i[w] => history'[w][m] = history[w][m]
            /\ \A v \in Runs : v # w => history'[v] = history[v]
        BY <1>1, <3>1, <3>2, Updated
      <3> QED
        BY <1>3, <3>1, <3>3 DEF TheRow
    <2> QED
      BY <2>1, <2>2, <2>3 DEF Next, RunStep, Crash, Edit, vars, ReadPreimage,
         WritePostimage, Applied, Threw, Succeed, GiveUp, SkipRow, RestorePreimage,
         RolledBack, Fork
  <1>4. edits = 0
    <2>1. edits' = edits \/ edits' = edits + 1
      BY DEF Next, RunStep, Crash, Edit, vars, outsideVars, ReadPreimage, InsertPatchHistory,
         WritePostimage, MarkApplied, Applied, Threw, Succeed, GiveUp, SkipRow,
         RestorePreimage, MarkRolledBack, RolledBack, Fork
    <2> QED
      BY <1>1, <1>2, <2>1
  <1> QED
    BY <1>2, <1>3, <1>4 DEF Alone

\* A file of a run that is alone is not written by another run.
LEMMA FileAlone ==
  ASSUME IInv, PlanInv, forks = 0, NEW r \in Runs, Alone(r), NEW w \in Runs, w # r,
         WritePostimage(w) \/ RestorePreimage(w), NEW p \in PathsOf(r), p \in Paths
  PROVE  files'[p] = files[p]
  <1>1. TheRow(w) # NoRow /\ i[w] \in Indices
    <2>1. CASE WritePostimage(w)
      BY <2>1 DEF WritePostimage, At, IInv, RowInv
    <2>2. CASE RestorePreimage(w)
      BY <2>2, PlansAssumption DEF RestorePreimage, At, IInv, RowInv, NoRow, Indices
    <2> QED
      BY <2>1, <2>2
  <1>2. TheRow(w).path \in PathsOf(w) /\ TheRow(w).path = plan[w][i[w]].path
    BY <1>1, RowPath DEF TheRow
  <1>3. ~Shares(r, w)
    BY <1>1 DEF Alone, TheRow
  <1>4. p # TheRow(w).path
    BY <1>2, <1>3 DEF Shares
  <1> QED
    BY <1>2, <1>4 DEF WritePostimage, RestorePreimage, IInv, TypeOK

\* Another run's step leaves a run that is alone, and its files.
LEMMA OtherAlone ==
  ASSUME IInv, PlanInv, forks = 0, NEW r \in Runs, Alone(r), AloneAt(r),
         NEW w \in Runs, w # r, RunStep(w), ~Fork(w), plan' = plan
  PROVE  AloneAt(r)'
  <1>1. /\ history'[r] = history[r] /\ phase'[r] = phase[r]
        /\ i'[r] = i[r] /\ at'[r] = at[r] /\ seen'[r] = seen[r]
    BY OthersStay DEF IInv
  <1>2. ASSUME NEW p \in PathsOf(r), p \in Paths PROVE files'[p] = files[p]
    <2>1. CASE WritePostimage(w) \/ RestorePreimage(w)
      BY <1>2, <2>1, FileAlone
    <2>2. CASE ~(WritePostimage(w) \/ RestorePreimage(w))
      BY <2>2 DEF RunStep, ReadPreimage, InsertPatchHistory, MarkApplied, Applied, Threw,
         Succeed, GiveUp, SkipRow, MarkRolledBack, RolledBack
    <2> QED
      BY <2>1, <2>2
  <1>3. At(r, "apply", "insert") =>
          plan[r][i[r]].path \in PathsOf(r) /\ plan[r][i[r]].path \in Paths
    <2> SUFFICES ASSUME At(r, "apply", "insert")
                 PROVE  plan[r][i[r]].path \in PathsOf(r) /\ plan[r][i[r]].path \in Paths
      OBVIOUS
    <2>1. i[r] \in 1..Len(plan[r]) /\ plan[r] \in Plans[r]
      BY DEF At, IInv, RowInv, TypeOK
    <2> QED
      BY <2>1, InPathsOf, PlanTyped DEF IInv
  <1>4. At(r, "apply", "insert") => seen[r] = (IF files'[plan[r][i[r]].path] = "absent" THEN "empty"
                                               ELSE files'[plan[r][i[r]].path])
    BY <1>2, <1>3 DEF AloneAt, Read
  <1>5. ASSUME NEW k \in Indices, history[r][k] # NoRow
        PROVE  files'[history[r][k].path] = files[history[r][k].path]
    BY <1>2, <1>5, RowPath DEF Rows
  <1> QED
    BY <1>1, <1>4, <1>5 DEF AloneAt, At, Read

\* What a run reads stays on one side of its rows when it writes itself.
LEMMA OwnAlone ==
  ASSUME PatchesOnce, IInv, PlanInv, forks = 0, NEW r \in Runs, AloneAt(r),
         RunStep(r), ~Fork(r), plan' = plan
  PROVE  AloneAt(r)'
  <1>1. TypeOK /\ RowInv
    BY DEF IInv
  <1>2. CASE ReadPreimage(r)
    <2>1. /\ UNCHANGED <<files, history, phase, i>> /\ at'[r] = "insert"
          /\ seen'[r] = Read(plan[r][i[r]].path)
      BY <1>1, <1>2 DEF ReadPreimage, GoTo, TypeOK
    <2> QED
      BY <2>1 DEF AloneAt, At, Read
  <1>3. CASE InsertPatchHistory(r)
    <2>1. /\ UNCHANGED <<files, phase, i>> /\ at'[r] = "write" /\ At(r, "apply", "insert")
      BY <1>1, <1>3 DEF InsertPatchHistory, GoTo, TypeOK
    <2>2. ASSUME NEW k \in Indices, history'[r][k] # NoRow
          PROVE  (Read(history[r][k].path))' \in {history'[r][k].pre, history'[r][k].post}
      <3>1. CASE history'[r][k] = history[r][k]
        BY <2>1, <2>2, <3>1 DEF AloneAt, Read
      <3>2. CASE history'[r][k] # history[r][k]
        <4>1. i[r] \in Indices
          BY <1>1, <2>1, PlanTyped DEF RowInv, At
        <4>2. history' = [history EXCEPT ![r][i[r]] = NewRow(r)]
          BY <1>3, <3>2 DEF InsertPatchHistory
        <4>3. k = i[r] /\ history'[r][k] = NewRow(r)
          BY <1>1, <3>2, <4>1, <4>2, Updated
        <4>4. NewRow(r).path = plan[r][i[r]].path /\ NewRow(r).pre = Read(plan[r][i[r]].path)
          BY <2>1 DEF NewRow, AloneAt
        <4> QED
          BY <2>1, <4>3, <4>4 DEF Read
      <3> QED
        BY <3>1, <3>2
    <2> QED
      BY <2>1, <2>2 DEF AloneAt, At
  <1>4. CASE WritePostimage(r) \/ RestorePreimage(r)
    <2>1. /\ UNCHANGED <<history, phase, i>> /\ at'[r] \in {"mark", "threw"}
          /\ i[r] \in Indices /\ TheRow(r) # NoRow
      <3>1. CASE WritePostimage(r)
        BY <1>1, <3>1 DEF WritePostimage, At, GoTo, TypeOK, RowInv
      <3>2. CASE RestorePreimage(r)
        BY <1>1, <3>2, PlansAssumption
           DEF RestorePreimage, At, GoTo, TypeOK, RowInv, NoRow, Indices
      <3> QED
        BY <1>4, <3>1, <3>2
    <2>2. /\ TheRow(r).path = plan[r][i[r]].path /\ TheRow(r) \in Rows
          /\ i[r] \in 1..Len(plan[r])
      BY <2>1, RowPath DEF TheRow
    <2>3. Read(TheRow(r).path) \in {TheRow(r).pre, TheRow(r).post}
      BY <2>1 DEF AloneAt, TheRow
    <2>4. /\ at'[r] = "mark"
          /\ \/ files' = files
             \/ \E t \in {TheRow(r).pre, TheRow(r).post} :
                  files' = [files EXCEPT ![TheRow(r).path] = t]
      BY <1>1, <1>4, <2>2, <2>3 DEF WritePostimage, RestorePreimage, GoTo, TypeOK
    <2>5. ASSUME NEW k \in Indices, history[r][k] # NoRow
          PROVE  (Read(history[r][k].path))' \in {history[r][k].pre, history[r][k].post}
      <3>1. /\ k \in 1..Len(plan[r]) /\ history[r][k].path = plan[r][k].path
            /\ history[r][k] \in Rows
        BY <2>5, RowPath
      <3>2. CASE files' = files
        BY <2>1, <2>5, <3>2 DEF AloneAt, Read
      <3>3. ASSUME NEW t \in {TheRow(r).pre, TheRow(r).post},
                   files' = [files EXCEPT ![TheRow(r).path] = t]
            PROVE  (Read(history[r][k].path))' \in {history[r][k].pre, history[r][k].post}
        <4>1. CASE k = i[r]
          <5>1. files'[history[r][k].path] = t /\ t \in Texts /\ t # "absent"
            BY <1>1, <2>2, <3>1, <3>3, <4>1, TextsAssumption DEF TypeOK, Rows, TheRow
          <5> QED
            BY <2>1, <3>3, <4>1, <5>1 DEF Read, TheRow
        <4>2. CASE k # i[r]
          <5>1. history[r][k].path # TheRow(r).path
            BY <1>1, <2>2, <3>1, <4>2 DEF PatchesOnce, TypeOK
          <5>2. files'[history[r][k].path] = files[history[r][k].path]
            BY <1>1, <3>1, <3>3, <5>1 DEF TypeOK, Rows
          <5> QED
            BY <2>1, <2>5, <5>2 DEF AloneAt, Read
        <4> QED
          BY <4>1, <4>2
      <3> QED
        BY <2>4, <3>2, <3>3
    <2> QED
      BY <2>1, <2>4, <2>5 DEF AloneAt, At
  <1>5. CASE MarkApplied(r) \/ MarkRolledBack(r)
    <2>1. /\ UNCHANGED <<files, phase>> /\ at'[r] = "read" /\ RowsKept
      BY <1>1, <1>5, MarkKept DEF MarkApplied, MarkRolledBack, GoTo, TypeOK
    <2>2. ASSUME NEW k \in Indices, history'[r][k] # NoRow
          PROVE  (Read(history[r][k].path))' \in {history'[r][k].pre, history'[r][k].post}
      <3>1. /\ history[r][k] # NoRow /\ history'[r][k].path = history[r][k].path
            /\ history'[r][k].pre = history[r][k].pre /\ history'[r][k].post = history[r][k].post
        BY <2>1, <2>2 DEF RowsKept
      <3> QED
        BY <2>1, <3>1 DEF AloneAt, Read
    <2> QED
      BY <2>1, <2>2 DEF AloneAt, At
  <1>6. CASE \/ Applied(r) \/ Threw(r) \/ Succeed(r) \/ GiveUp(r) \/ SkipRow(r)
             \/ RolledBack(r)
    <2>1. /\ UNCHANGED <<files, history>> /\ at'[r] = "read"
          /\ phase'[r] \notin {"refused", "stuck"}
      BY <1>1, <1>6 DEF Applied, Threw, Succeed, GiveUp, SkipRow, RolledBack, At, GoTo,
         TypeOK, RowInv, AloneAt
    <2> QED
      BY <2>1 DEF AloneAt, At, Read
  <1> QED
    BY <1>2, <1>3, <1>4, <1>5, <1>6 DEF RunStep

LEMMA NextAlone ==
  ASSUME PatchesOnce, IInv, PlanInv, AloneInv, [Next]_vars
  PROVE  AloneInv'
  <1> SUFFICES ASSUME forks' = 0, NEW r \in Runs, Alone(r)' PROVE AloneAt(r)'
    BY AloneParts DEF AloneInv, AloneAt
  <1>1. forks = 0 /\ plan' = plan /\ Alone(r) /\ edits' = edits /\ edits \in Nat
    BY Unforked, AloneBefore DEF IInv, TypeOK
  <1>2. AloneAt(r)
    BY <1>1, AloneParts
  <1>3. CASE UNCHANGED vars
    BY <1>2, <1>3 DEF vars, posVars, AloneAt, At, Read
  <1>4. CASE Crash
    BY <1>2, <1>4 DEF Crash, AloneAt, At, Read
  <1>5. CASE Edit
    BY <1>1, <1>5 DEF Edit
  <1>6. ASSUME NEW w \in Runs, RunStep(w) PROVE AloneAt(r)'
    <2>1. ~Fork(w)
      BY <1>1 DEF Fork
    <2> QED
      BY <1>1, <1>2, <1>6, <2>1, OtherAlone, OwnAlone
  <1> QED
    BY <1>3, <1>4, <1>5, <1>6 DEF Next

\* For plans that patch no file twice: a run that is alone with its files, and
\* whose worker dies any number of times, neither refuses to apply its patches
\* nor gets stuck in its rollback.
THEOREM Converges == PatchesOnce => (Spec => []ReplayConverges)
  <1> SUFFICES ASSUME PatchesOnce PROVE Spec => []ReplayConverges
    OBVIOUS
  <1> DEFINE I == IInv /\ PlanInv /\ AloneInv
  <1>1. Init => I
    <2> SUFFICES ASSUME Init PROVE AloneInv
      BY InitIInv, InitPlanInv
    <2> QED
      BY DEF Init, AloneInv, At
  <1>2. I /\ [Next]_vars => I'
    <2> SUFFICES ASSUME I, [Next]_vars PROVE I'
      OBVIOUS
    <2>1. IInv'
      BY ApplySteps, RollbackSteps, CrashStep, EditStep, ForkStep, StutterStep
         DEF Next, RunStep
    <2> QED
      BY <2>1, NextPlanInv, NextAlone
  <1>3. I => ReplayConverges
    BY DEF ReplayConverges, AloneInv
  <1> HIDE DEF I
  <1> QED
    BY <1>1, <1>2, <1>3, PTL DEF Spec
=============================================================================
