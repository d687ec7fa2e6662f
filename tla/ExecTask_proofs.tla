--------------------------- MODULE ExecTask_proofs ---------------------------
(***************************************************************************)
(* Proofs about ExecTask for every set of plans, every configuration, any  *)
(* budget and any number of deaths of the worker.                          *)
(***************************************************************************)
EXTENDS ExecTask, TLAPS, WellFoundedInduction, SequenceTheorems

-----------------------------------------------------------------------------
(* Least and greatest elements, and prefixes. *)

\* Every set of natural numbers that is not empty has a least element.
LEMMA LeastNat ==
  ASSUME NEW S, S \subseteq Nat, S # {}
  PROVE  \E n \in S : \A m \in S : n <= m
  <1> DEFINE R == OpToRel(<, Nat)
  <1>1. IsWellFoundedOn(R, Nat)
    BY NatLessThanWellFounded
  <1>2. PICK x \in S : \A y \in S : ~ (<<y, x>> \in R)
    <2> HIDE DEF R
    <2> QED
      BY <1>1, WFMin
  <1>3. \A y \in S : ~ (y < x)
    BY <1>2 DEF OpToRel
  <1> QED
    BY <1>3

\* Min of the community modules is that element.
LEMMA MinIsLeast ==
  ASSUME NEW S, S \subseteq Nat, S # {}
  PROVE  Min(S) \in S /\ \A m \in S : Min(S) <= m
  BY LeastNat DEF Min

\* Max of a few attempts is one of them, and none is greater.
LEMMA MaxIsGreatest ==
  ASSUME NEW S, S \subseteq 0..MaxAttempts, S # {}
  PROVE  Max(S) \in S /\ \A m \in S : m <= Max(S)
  <1>1. \E n \in S : \A m \in S : n >= m
    <2>1. CASE 3 \in S
      BY <2>1 DEF MaxAttempts
    <2>2. CASE 3 \notin S /\ 2 \in S
      BY <2>2 DEF MaxAttempts
    <2>3. CASE 3 \notin S /\ 2 \notin S /\ 1 \in S
      BY <2>3 DEF MaxAttempts
    <2>4. CASE 3 \notin S /\ 2 \notin S /\ 1 \notin S
      <3>1. \A n \in S : n = 0
        BY <2>4 DEF MaxAttempts
      <3>2. PICK n \in S : TRUE
        OBVIOUS
      <3> QED
        BY <3>1, <3>2
    <2> QED
      BY <2>1, <2>2, <2>3, <2>4
  <1> QED
    BY <1>1 DEF Max

\* A prefix agrees with the whole in every place it has.
LEMMA PrefixIff ==
  ASSUME NEW S, NEW s \in Seq(S), NEW t \in Seq(S)
  PROVE  IsPrefix(s, t) <=> Len(s) <= Len(t) /\ \A i \in 1..Len(s) : s[i] = t[i]
  <1>0. Len(s) \in Nat /\ Len(t) \in Nat
    OBVIOUS
  <1>1. CASE ~(Len(s) <= Len(t))
    BY <1>1 DEF IsPrefix
  <1>2. CASE Len(s) <= Len(t)
    <2>1. SubSeq(s, 1, Len(s)) = s
      BY <1>0, SubSeqFull
    <2>2. /\ SubSeq(t, 1, Len(s)) \in Seq(S) /\ Len(SubSeq(t, 1, Len(s))) = Len(s)
          /\ \A i \in 1..Len(s) : SubSeq(t, 1, Len(s))[i] = t[i]
      BY <1>0, <1>2
    <2>3. SubSeq(t, 1, Len(s)) = s <=> \A i \in 1..Len(s) : s[i] = t[i]
      BY <2>2, SeqEqual
    <2> QED
      BY <1>2, <2>1, <2>3 DEF IsPrefix
  <1> QED
    BY <1>0, <1>1, <1>2
-----------------------------------------------------------------------------
(* What an execution leaves. *)

\* A result is told by its first artifact, the index, which hashes it.
LEMMA ItemsFacts ==
  ASSUME NEW out \in Outputs
  PROVE  /\ Items(out) \in Seq(ItemSet) /\ Len(Items(out)) \in 3..4
         /\ 1 <= Len(Items(out)) /\ Items(out) # <<>>
         /\ Items(out)[1] = <<"index", out>>
  <1>1. out.code \in ErrCodes /\ out.mark \in {1, 2} /\ "NONE" \in ErrCodes
    BY DEF Outputs, ErrCodes
  <1>2. /\ <<"index", out>> \in ItemSet /\ <<"file", "NONE">> \in ItemSet
        /\ <<"metrics", out.mark>> \in ItemSet /\ <<"stdout", out.code>> \in ItemSet
        /\ <<"stdout", "NONE">> \in ItemSet
    BY <1>1 DEF ItemSet
  <1> QED
    BY <1>2 DEF Items

LEMMA ItemsInjective ==
  ASSUME NEW out \in Outputs, NEW o \in Outputs, Items(out)[1] = Items(o)[1]
  PROVE  out = o
  <1>1. <<"index", out>> = <<"index", o>>
    BY ItemsFacts
  <1> QED
    BY <1>1

\* Rows that begin with an execution's index are a prefix of its items, and
\* those of an attempt that has a row are all of them.
LEMMA RowsAreItems ==
  ASSUME NEW s \in Seq(ItemSet), NEW out \in Outputs, s # <<>>,
         s[1] = Items(out)[1], \E o \in Outputs : IsPrefix(s, Items(o))
  PROVE  Len(s) <= Len(Items(out)) /\ \A i \in 1..Len(s) : s[i] = Items(out)[i]
  <1>1. PICK o \in Outputs : IsPrefix(s, Items(o))
    OBVIOUS
  <1>2. Items(o) \in Seq(ItemSet) /\ Len(s) >= 1
    BY ItemsFacts
  <1>3. Len(s) <= Len(Items(o)) /\ \A i \in 1..Len(s) : s[i] = Items(o)[i]
    BY <1>1, <1>2, PrefixIff
  <1>4. out = o
    BY <1>2, <1>3, ItemsInjective
  <1> QED
    BY <1>3, <1>4

\* Classify names a failure.
LEMMA ClassifyTyped ==
  ASSUME NEW words, NEW nonzero
  PROVE  Classify(words, nonzero) \in ErrCodes
  <1> DEFINE found == {i \in DOMAIN WordOrder : WordOrder[i] \in words}
  <1>1. DOMAIN WordOrder = 1..5
    BY DEF WordOrder
  <1>2. CASE found # {}
    <2>1. Min(found) \in 1..5
      BY <1>1, <1>2, MinIsLeast
    <2>2. WordOrder[Min(found)] \in ErrCodes
      BY <2>1 DEF WordOrder, ErrCodes, RetryableInfra
    <2> QED
      BY <1>2, <2>2 DEF Classify
  <1>3. CASE found = {}
    BY <1>3 DEF Classify, ErrCodes, RetryableInfra
  <1> QED
    BY <1>2, <1>3

LEMMA MockCodeTyped == \A c : MockCode(c) \in ErrCodes
  BY DEF MockCode, ErrCodes, RetryableInfra
-----------------------------------------------------------------------------
(* Type correctness. *)

WorkStates == {"idle", "boot", "run", "kill", "artifacts", "row", "return", "throw"}
Held == [st : WorkStates, attempt : 0..MaxAttempts, box : BOOLEAN,
         out : Outputs \cup {None}, next : 1..5]
Known == [st : {"none", "queued", "running", "done", "error"},
          attempt : 0..MaxAttempts, out : Outputs \cup {None}]

\* The keys of a plan's tests, and its length.
LEMMA PlansTyped ==
  ASSUME NEW p \in Plans
  PROVE  p \in Seq(Keys) /\ Len(p) \in Nat \ {0}
  <1>1. Range(p) \subseteq Keys
    BY DEF Keys
  <1>2. p \in Seq(Range(p)) /\ p # <<>>
    BY PlansAssumption
  <1> QED
    BY <1>1, <1>2, SeqMonotonic

WorkInv == \A k \in Keys : WorkOf(k)

\* The merged result of tasks that are all done.
LEMMA MergedTyped ==
  ASSUME TypeOK, WorkInv, Joined
  PROVE  /\ Merged(Ends) \in [code : ErrCodes, attempt : Attempts]
         /\ \E i \in DOMAIN main.keys : Merged(Ends).attempt = wf[main.keys[i]].attempt
         /\ Merged(Ends).code = "NONE" <=>
              \A i \in DOMAIN main.keys : wf[main.keys[i]].out.code = "NONE"
  <1> DEFINE bad == {i \in DOMAIN Ends : Ends[i].out.code # "NONE"}
             att == {e.attempt : e \in Range(Ends)}
  <1>1. /\ main.keys \in Seq(Keys) /\ main.keys # <<>>
        /\ DOMAIN main.keys = 1..Len(main.keys) /\ Len(main.keys) \in Nat \ {0}
    BY DEF TypeOK, Joined
  <1>2. /\ DOMAIN Ends = DOMAIN main.keys
        /\ \A i \in DOMAIN main.keys : Ends[i] = wf[main.keys[i]]
    BY DEF Ends
  <1>3. \A i \in DOMAIN main.keys :
          /\ main.keys[i] \in Keys /\ Ends[i].attempt \in Attempts
          /\ Ends[i].out \in Outputs /\ Ends[i].out.code \in ErrCodes
    BY <1>1, <1>2 DEF Joined, WorkInv, WorkOf, Outputs
  <1>4. att \subseteq 0..MaxAttempts /\ att # {} /\ att \subseteq Attempts
    BY <1>1, <1>2, <1>3 DEF Range, Attempts, MaxAttempts
  <1>5. MaxAttempt(Ends) \in att
    BY <1>4, MaxIsGreatest DEF MaxAttempt
  <1>6. bad # {} => Min(bad) \in bad
    <2>1. bad \subseteq Nat
      BY <1>1, <1>2
    <2> QED
      BY <2>1, MinIsLeast
  <1>7. /\ FirstError(Ends) \in ErrCodes
        /\ FirstError(Ends) = "NONE" <=> bad = {}
    <2>1. CASE bad = {}
      BY <2>1 DEF FirstError, ErrCodes
    <2>2. CASE bad # {}
      <3>1. FirstError(Ends) = Ends[Min(bad)].out.code
        BY <2>2 DEF FirstError
      <3> QED
        BY <3>1, <2>2, <1>2, <1>3, <1>6
    <2> QED
      BY <2>1, <2>2
  <1>8. Merged(Ends).code = FirstError(Ends) /\ Merged(Ends).attempt = MaxAttempt(Ends)
        /\ Merged(Ends) = [code |-> FirstError(Ends), attempt |-> MaxAttempt(Ends)]
    BY DEF Merged
  <1>9. \E i \in DOMAIN main.keys : MaxAttempt(Ends) = wf[main.keys[i]].attempt
    BY <1>2, <1>5 DEF Range
  <1> QED
    BY <1>2, <1>4, <1>5, <1>7, <1>8, <1>9

LEMMA InitTyped == Init => TypeOK
  <1> SUFFICES ASSUME Init PROVE TypeOK
    OBVIOUS
  <1>1. crashes \in 0..MaxCrashes[main.tests]
    BY LimitsAssumption DEF Init
  <1>2. main \in [at : MainSteps, tests : Plans, keys : Seq(Keys), started : Nat]
    BY DEF Init, MainSteps
  <1>3. wf \in [Keys -> Known]
    BY DEF Init, NoEnd, Known, MaxAttempts
  <1>4. work \in [Keys -> Held]
    BY DEF Init, Idle, Held, WorkStates, MaxAttempts
  <1>5. artifacts \in [Keys -> [Attempts -> Seq(ItemSet)]]
    BY DEF Init
  <1>6. sbxRuns \in [Keys -> [Attempts -> Outputs \cup {None}]]
    BY DEF Init
  <1>7. stepRow \in [code : ErrCodes \cup {"none"}, attempt : 0..MaxAttempts]
    BY DEF Init, MaxAttempts
  <1>8. history \in [Keys -> SUBSET Attempts]
    BY DEF Init
  <1> QED
    BY <1>1, <1>2, <1>3, <1>4, <1>5, <1>6, <1>7, <1>8
       DEF Init, TypeOK, Known, Held, WorkStates

\* A task's record that stays one keeps the type of the map.
LEMMA StaysHeld ==
  ASSUME work \in [Keys -> Held], NEW k \in Keys, NEW n \in Held,
         work' = [work EXCEPT ![k] = n]
  PROVE  work' \in [Keys -> Held]
  OBVIOUS

\* The steps that move a task on, give or take its sandbox.
LEMMA MovesHeld ==
  ASSUME work \in [Keys -> Held], NEW k \in Keys, NEW st \in WorkStates,
         \/ work' = [work EXCEPT ![k].st = st]
         \/ \E b \in BOOLEAN : work' = [work EXCEPT ![k].st = st, ![k].box = b]
  PROVE  work' \in [Keys -> Held]
  <1>1. CASE work' = [work EXCEPT ![k].st = st]
    <2> DEFINE n == [work[k] EXCEPT !.st = st]
    <2>1. n \in Held
      <3>1. work[k] \in Held
        OBVIOUS
      <3> QED
        BY <3>1 DEF Held
    <2>2. work' = [work EXCEPT ![k] = n]
      BY <1>1
    <2> HIDE DEF n
    <2> QED
      BY <2>1, <2>2, StaysHeld
  <1>2. ASSUME NEW b \in BOOLEAN, work' = [work EXCEPT ![k].st = st, ![k].box = b]
        PROVE  work' \in [Keys -> Held]
    <2> DEFINE n == [work[k] EXCEPT !.st = st, !.box = b]
    <2>1. n \in Held
      <3>1. work[k] \in Held
        OBVIOUS
      <3> QED
        BY <3>1 DEF Held
    <2>2. work' = [work EXCEPT ![k] = n]
      BY <1>2
    <2> HIDE DEF n
    <2> QED
      BY <2>1, <2>2, StaysHeld
  <1> QED
    BY <1>1, <1>2

\* The steps of a task's attempt up to the statement that keeps its result.
LEMMA YieldTyped ==
  ASSUME TypeOK, NEW k \in Keys, NEW c \in ErrCodes, NEW m \in Marks,
         NEW next \in {"kill", "artifacts"},
         Yield(k, [code |-> c, mark |-> m], next)
  PROVE  /\ work' \in [Keys -> Held]
         /\ work' = [work EXCEPT ![k] = [work[k] EXCEPT !.out = work'[k].out, !.st = next]]
         /\ work'[k].out \in Outputs
  <1>1. [code |-> c, mark |-> m] \in Outputs
    BY DEF Outputs, Marks
  <1>2. work \in [Keys -> Held]
    BY DEF TypeOK, Held, WorkStates
  <1> DEFINE out == [code |-> c, mark |-> m]
             n == [work[k] EXCEPT !.out = out, !.st = next]
  <1>3. n \in Held
    BY <1>1, <1>2 DEF Held, WorkStates
  <1>4. work' = [work EXCEPT ![k] = n]
    BY DEF Yield
  <1>5. work' \in [Keys -> Held]
    <2> HIDE DEF n
    <2> QED
      BY <1>2, <1>3, <1>4, StaysHeld
  <1>6. work'[k].out = out
    BY <1>2, <1>4 DEF Held
  <1> QED
    BY <1>1, <1>4, <1>5, <1>6

\* Every step that ends with a result ends with one of the known codes.
LEMMA ResultSteps ==
  ASSUME NEW k \in Keys
  PROVE  /\ RunMock(k) \/ RunMicro(k) => \E c \in ErrCodes, m \in Marks :
              Yield(k, [code |-> c, mark |-> m], "artifacts")
         /\ RunCommand(k) => \E c \in ErrCodes, m \in Marks :
              Yield(k, [code |-> c, mark |-> m], "kill")
         /\ Boot(k) =>
              \/ /\ boxes' = [boxes EXCEPT ![k] = @ + 1]
                 /\ work' = [work EXCEPT ![k].st = "run", ![k].box = TRUE]
              \/ /\ \E c \in ErrCodes, m \in Marks :
                      Yield(k, [code |-> c, mark |-> m], "artifacts")
                 /\ UNCHANGED boxes
  <1>1. 1 \in Marks
    BY DEF Marks
  <1>2. "BOOT_FAIL" \in ErrCodes /\ "NONE" \in ErrCodes
    BY DEF ErrCodes, RetryableInfra
  <1>3. RunMock(k) => Yield(k, [code |-> MockCode(command), mark |-> 1], "artifacts")
    BY DEF RunMock
  <1>4. RunMicro(k) => \E m \in Marks :
          Yield(k, [code |-> "BOOT_FAIL", mark |-> m], "artifacts")
    BY DEF RunMicro
  <1>5. RunCommand(k) => \E m \in Marks :
          \/ Yield(k, [code |-> "NONE", mark |-> m], "kill")
          \/ \E w \in Texts, nonzero \in BOOLEAN :
               Yield(k, [code |-> Classify(w, nonzero), mark |-> m], "kill")
    BY DEF RunCommand
  <1>6. Boot(k) =>
          \/ /\ boxes' = [boxes EXCEPT ![k] = @ + 1]
             /\ work' = [work EXCEPT ![k].st = "run", ![k].box = TRUE]
          \/ /\ \E w \in Texts, m \in Marks :
                  Yield(k, [code |-> Classify(w, FALSE), mark |-> m], "artifacts")
             /\ UNCHANGED boxes
    BY DEF Boot
  <1> QED
    BY <1>1, <1>2, <1>3, <1>4, <1>5, <1>6, MockCodeTyped, ClassifyTyped

\* What a step with a result leaves alone, and where it starts.
LEMMA ResultFrame ==
  ASSUME NEW k \in Keys, RunMock(k) \/ RunMicro(k) \/ RunCommand(k) \/ Boot(k)
  PROVE  /\ UNCHANGED <<mainRest, wf, lost, artifacts, sbxRuns, history>>
         /\ RunMock(k) \/ RunMicro(k) \/ RunCommand(k) => UNCHANGED boxes
         /\ RunMock(k) \/ RunMicro(k) \/ Boot(k) => work[k].st = "boot"
         /\ RunCommand(k) => work[k].st = "run"
         /\ flaky \in 0..2 => flaky' \in 0..2
  <1>1. UNCHANGED flaky \/ (flaky < 2 /\ flaky' = flaky + 1)
    <2>1. CASE RunMock(k)
      BY <2>1 DEF RunMock
    <2>2. CASE RunMicro(k) \/ RunCommand(k) \/ Boot(k)
      BY <2>2 DEF RunMicro, RunCommand, Boot
    <2> QED
      BY <2>1, <2>2
  <1>2. flaky \in 0..2 => flaky' \in 0..2
    BY <1>1
  <1> QED
    BY <1>2 DEF RunMock, RunMicro, RunCommand, Boot

LEMMA NextTyped == TypeOK /\ WorkInv /\ MainInv /\ [Next]_vars => TypeOK'
  <1> SUFFICES ASSUME TypeOK, WorkInv, MainInv, [Next]_vars PROVE TypeOK'
    OBVIOUS
  <1>0. /\ main \in [at : MainSteps, tests : Plans, keys : Seq(Keys), started : Nat]
        /\ wf \in [Keys -> Known] /\ work \in [Keys -> Held] /\ boxes \in [Keys -> Nat]
        /\ crashes \in 0..MaxCrashes[main.tests] /\ MaxCrashes[main.tests] \in Nat
    BY LimitsAssumption DEF TypeOK, Known, Held, WorkStates
  <1>m. \A at \in MainSteps : MainTo(at) =>
          /\ main' \in [at : MainSteps, tests : Plans, keys : Seq(Keys), started : Nat]
          /\ main'.tests = main.tests
    BY <1>0 DEF MainTo
  <1> USE DEF runVars, mainVars, taskVars, mainRest
  <1>1. CASE BuildTasks
    <2>1. main' \in [at : MainSteps, tests : Plans, keys : Seq(Keys), started : Nat]
          /\ main'.tests = main.tests
      <3>1. main.tests \in Seq(Keys)
        BY <1>0, PlansTyped
      <3> QED
        BY <1>1, <1>0, <1>m, <3>1 DEF BuildTasks, MainSteps
    <2> QED
      BY <1>1, <2>1 DEF BuildTasks, TypeOK
  <1>2. CASE StartTask
    <2>1. /\ main' \in [at : MainSteps, tests : Plans, keys : Seq(Keys), started : Nat]
          /\ main'.tests = main.tests
      <3>1. PICK at \in {"join", "start"} :
              main' = [main EXCEPT !.started = main.started + 1, !.at = at]
        BY <1>2 DEF StartTask
      <3>2. at \in MainSteps /\ main.started + 1 \in Nat
        BY <1>0 DEF MainSteps
      <3> QED
        BY <1>0, <3>1, <3>2
    <2>2. main.keys[main.started + 1] \in Keys
      BY <1>2, <1>0 DEF StartTask, MainInv
    <2>3. wf' \in [Keys -> Known]
      <3> DEFINE k == main.keys[main.started + 1]
      <3>1. wf' = [wf EXCEPT ![k].st = "queued"] \/ wf' = wf
        BY <1>2 DEF StartTask
      <3>2. [wf[k] EXCEPT !.st = "queued"] \in Known
        BY <1>0, <2>2 DEF Known
      <3> HIDE DEF k
      <3> QED
        BY <1>0, <3>1, <3>2
    <2> QED
      BY <1>2, <2>1, <2>3 DEF StartTask, TypeOK, Known
  <1>3. CASE Join \/ SaveReceipt
    <2>1. /\ main' \in [at : MainSteps, tests : Plans, keys : Seq(Keys), started : Nat]
          /\ main'.tests = main.tests /\ receipts' \in Nat
      BY <1>3, <1>m DEF Join, SaveReceipt, MainSteps, TypeOK
    <2> QED
      BY <1>3, <2>1 DEF Join, SaveReceipt, TypeOK
  <1>4. CASE SaveStep
    <2>1. /\ main' \in [at : MainSteps, tests : Plans, keys : Seq(Keys), started : Nat]
          /\ main'.tests = main.tests
      BY <1>4, <1>m DEF SaveStep, MainSteps
    <2>2. stepRow' \in [code : ErrCodes \cup {"none"}, attempt : 0..MaxAttempts]
      <3>1. Joined /\ stepRow' = Merged(Ends)
        BY <1>4 DEF SaveStep, MainInv
      <3>2. Attempts \subseteq 0..MaxAttempts
        BY DEF Attempts, MaxAttempts
      <3> QED
        BY <3>1, <3>2, MergedTyped
    <2> QED
      BY <1>4, <2>1, <2>2 DEF SaveStep, TypeOK
  <1>5. CASE Crash
    <2>1. work' \in [Keys -> Held]
      BY <1>5 DEF Crash, Idle, Held, WorkStates, MaxAttempts
    <2>2. history' \in [Keys -> SUBSET Attempts]
      BY <1>5 DEF Crash, TypeOK, WorkInv, WorkOf
    <2>3. /\ main' \in [at : MainSteps, tests : Plans, keys : Seq(Keys), started : Nat]
          /\ main'.tests = main.tests
      BY <1>5, <1>0 DEF Crash, MainSteps
    <2>4. crashes' \in 0..MaxCrashes[main'.tests]
      BY <1>5, <1>0, <2>3 DEF Crash
    <2> QED
      BY <1>5, <2>1, <2>2, <2>3, <2>4 DEF Crash, TypeOK, Held, WorkStates
  <1>6. ASSUME NEW k \in Keys, Dequeue(k) PROVE TypeOK'
    <2>1. wf' \in [Keys -> Known]
      BY <1>6, <1>0 DEF Dequeue, Known
    <2> QED
      BY <1>6, <2>1 DEF Dequeue, TypeOK, Known
  <1>7. ASSUME NEW k \in Keys, Begin(k) PROVE TypeOK'
    <2>1. work' \in [Keys -> Held]
      <3>1. work[k].attempt + 1 \in 0..MaxAttempts
        <4>1. work[k].attempt \in 0..3 /\ work[k].attempt < 3
          BY <1>7, <1>0 DEF Begin, Held, MaxAttempts
        <4> QED
          BY <4>1 DEF MaxAttempts
      <3>2. [Idle EXCEPT !.st = "boot", !.attempt = work[k].attempt + 1] \in Held
        <4>1. Idle \in Held
          BY DEF Idle, Held, WorkStates, MaxAttempts
        <4> QED
          BY <3>1, <4>1 DEF Held, WorkStates
      <3> QED
        BY <1>7, <1>0, <3>2 DEF Begin
    <2> QED
      BY <1>7, <2>1 DEF Begin, TypeOK, Held, WorkStates
  <1>8. ASSUME NEW k \in Keys, RunMock(k) \/ RunMicro(k) \/ RunCommand(k) \/ Boot(k)
        PROVE  TypeOK'
    <2>1. work' \in [Keys -> Held]
      <3>1. CASE \E c \in ErrCodes, m \in Marks, next \in {"kill", "artifacts"} :
                   Yield(k, [code |-> c, mark |-> m], next)
        BY <3>1, YieldTyped
      <3>2. CASE work' = [work EXCEPT ![k].st = "run", ![k].box = TRUE]
        <4>1. "run" \in WorkStates
          BY DEF WorkStates
        <4> QED
          BY <3>2, <4>1, <1>0, MovesHeld
      <3> QED
        BY <1>8, <3>1, <3>2, ResultSteps
    <2>2. boxes' \in [Keys -> Nat]
      <3>1. boxes' = boxes \/ boxes' = [boxes EXCEPT ![k] = boxes[k] + 1]
        BY <1>8, ResultSteps, ResultFrame
      <3> QED
        BY <1>0, <3>1
    <2>3. flaky' \in 0..2 /\ UNCHANGED <<mainRest, wf, lost, artifacts, sbxRuns, history>>
      BY <1>8, ResultFrame DEF TypeOK
    <2> QED
      BY <2>1, <2>2, <2>3 DEF TypeOK, Held, WorkStates
  <1>9. ASSUME NEW k \in Keys, Kill(k) PROVE TypeOK'
    <2>1. work' \in [Keys -> Held]
      <3>1. "artifacts" \in WorkStates
        BY DEF WorkStates
      <3> QED
        BY <1>9, <3>1, <1>0, MovesHeld DEF Kill
    <2>2. boxes[k] > 0
      BY <1>9 DEF Kill, WorkInv, WorkOf
    <2>3. boxes' \in [Keys -> Nat]
      BY <1>9, <1>0, <2>2 DEF Kill
    <2>4. lost' \in [Keys -> Nat]
      <3>1. lost \in [Keys -> Nat] /\ (lost' = lost \/ lost' = [lost EXCEPT ![k] = lost[k] + 1])
        BY <1>9 DEF Kill, TypeOK
      <3> QED
        BY <3>1
    <2> QED
      BY <1>9, <2>1, <2>3, <2>4 DEF Kill, TypeOK, Held, WorkStates
  <1>10. ASSUME NEW k \in Keys, SaveArtifact(k) PROVE TypeOK'
    <2> DEFINE a == work[k].attempt
               i == work[k].next
               items == Items(work[k].out)
    <2>1. /\ a \in Attempts /\ work[k].out \in Outputs
          /\ i \in 1..5 /\ i <= Len(items) /\ work[k] \in Held
      BY <1>10, <1>0 DEF SaveArtifact, WorkInv, WorkOf, Held
    <2>2. items \in Seq(ItemSet) /\ Len(items) \in 3..4
      BY <2>1, ItemsFacts
    <2>3. items[i] \in ItemSet /\ i + 1 \in 1..5
      <3> HIDE DEF i, items
      <3> QED
        BY <2>1, <2>2
    <2>4. work' \in [Keys -> Held]
      <3>1. \/ work' = [work EXCEPT ![k].st = "throw"]
            \/ \E st \in {"row", "artifacts"} :
                 work' = [work EXCEPT ![k].next = i + 1, ![k].st = st]
        BY <1>10 DEF SaveArtifact, Throw
      <3>2. CASE work' = [work EXCEPT ![k].st = "throw"]
        <4>1. "throw" \in WorkStates
          BY DEF WorkStates
        <4> QED
          BY <3>2, <4>1, <1>0, MovesHeld
      <3>3. ASSUME NEW st \in {"row", "artifacts"},
                   work' = [work EXCEPT ![k].next = i + 1, ![k].st = st]
            PROVE  work' \in [Keys -> Held]
        <4>1. st \in WorkStates
          BY DEF WorkStates
        <4> DEFINE n == [work[k] EXCEPT !.next = i + 1, !.st = st]
        <4> HIDE DEF i
        <4>2. n \in Held
          BY <4>1, <1>0, <2>3 DEF Held
        <4>3. work' = [work EXCEPT ![k] = n]
          BY <3>3
        <4> HIDE DEF n
        <4> QED
          BY <4>2, <4>3, <1>0, StaysHeld
      <3> QED
        BY <3>1, <3>2, <3>3
    <2>5. artifacts' \in [Keys -> [Attempts -> Seq(ItemSet)]]
      <3>1. artifacts' = artifacts
              \/ artifacts' = [artifacts EXCEPT ![k][a] = Append(artifacts[k][a], items[i])]
        BY <1>10 DEF SaveArtifact
      <3>2. artifacts[k][a] \in Seq(ItemSet)
        BY <2>1 DEF TypeOK
      <3>3. Append(artifacts[k][a], items[i]) \in Seq(ItemSet)
        BY <2>3, <3>2
      <3>4. artifacts \in [Keys -> [Attempts -> Seq(ItemSet)]]
        BY DEF TypeOK
      <3>5. [artifacts EXCEPT ![k][a] = Append(artifacts[k][a], items[i])]
              \in [Keys -> [Attempts -> Seq(ItemSet)]]
        <4> HIDE DEF a, i, items
        <4> QED
          BY <2>1, <3>3, <3>4
      <3> QED
        BY <3>1, <3>4, <3>5
    <2> QED
      BY <1>10, <2>4, <2>5 DEF SaveArtifact, TypeOK, Held, WorkStates
  <1>11. ASSUME NEW k \in Keys, SaveSbxRun(k) PROVE TypeOK'
    <2>1. work[k].attempt \in Attempts /\ work[k].out \in Outputs
      BY <1>11 DEF SaveSbxRun, WorkInv, WorkOf
    <2>2. work' \in [Keys -> Held]
      <3>1. PICK st \in {"throw", "return"} : work' = [work EXCEPT ![k].st = st]
        BY <1>11 DEF SaveSbxRun, Throw
      <3>2. st \in WorkStates
        BY DEF WorkStates
      <3> QED
        BY <1>0, <3>1, <3>2 DEF Held
    <2>3. sbxRuns' \in [Keys -> [Attempts -> Outputs \cup {None}]]
      <3>1. sbxRuns' = sbxRuns
              \/ sbxRuns' = [sbxRuns EXCEPT ![k][work[k].attempt] = work[k].out]
        BY <1>11 DEF SaveSbxRun
      <3>2. sbxRuns \in [Keys -> [Attempts -> Outputs \cup {None}]]
        BY DEF TypeOK
      <3>3. [sbxRuns EXCEPT ![k][work[k].attempt] = work[k].out]
              \in [Keys -> [Attempts -> Outputs \cup {None}]]
        BY <2>1, <3>2
      <3> QED
        BY <3>1, <3>2, <3>3
    <2>4. history' \in [Keys -> SUBSET Attempts]
      <3>1. history' = history
              \/ history' = [history EXCEPT ![k] = history[k] \cup {work[k].attempt}]
        BY <1>11 DEF SaveSbxRun
      <3>2. history \in [Keys -> SUBSET Attempts]
        BY DEF TypeOK
      <3>3. history[k] \cup {work[k].attempt} \in SUBSET Attempts
        BY <2>1, <3>2
      <3> QED
        BY <3>1, <3>2, <3>3
    <2> QED
      BY <1>11, <2>2, <2>3, <2>4 DEF SaveSbxRun, TypeOK, Held, WorkStates
  <1>12. ASSUME NEW k \in Keys, Record(k) PROVE TypeOK'
    <2>1. work' \in [Keys -> Held]
      BY <1>12, <1>0 DEF Record, Idle, Held, WorkStates, MaxAttempts
    <2>2. wf' \in [Keys -> Known]
      <3>1. PICK v \in {[st |-> "done", attempt |-> work[k].attempt, out |-> work[k].out],
                        [NoEnd EXCEPT !.st = "error"]} : wf' = [wf EXCEPT ![k] = v]
        BY <1>12 DEF Record
      <3>2. [st |-> "done", attempt |-> work[k].attempt, out |-> work[k].out] \in Known
        BY <1>0 DEF Held, Known
      <3>3. [NoEnd EXCEPT !.st = "error"] \in Known
        BY DEF NoEnd, Known, MaxAttempts
      <3> QED
        BY <1>0, <3>1, <3>2, <3>3
    <2> QED
      BY <1>12, <2>1, <2>2 DEF Record, TypeOK, Held, WorkStates, Known
  <1>13. CASE UNCHANGED vars
    BY <1>13 DEF vars, TypeOK
  <1> QED
    BY <1>1, <1>2, <1>3, <1>4, <1>5, <1>6, <1>7, <1>8, <1>9, <1>10, <1>11, <1>12,
       <1>13 DEF Next
-----------------------------------------------------------------------------
(* One task. *)

TaskOf(k) == WorkOf(k) /\ RowsOf(k) /\ EvidenceOf(k) /\ CauseOf(k)
               /\ (wf[k].st = "error" => history[k] = Attempts)

\* The attempts that have asked for a sandbox in this life of the worker; of
\* a task that is over, as many as there can have been.
Begun(k) ==
  IF wf[k].st \in {"done", "error"} THEN MaxAttempts
  ELSE IF work[k].st = "boot" THEN work[k].attempt - 1 ELSE work[k].attempt

BoxOf(k) == /\ boxes[k] <= crashes + lost[k] + (IF work[k].box THEN 1 ELSE 0)
            /\ boxes[k] <= MaxAttempts * crashes + Begun(k)

Untouched(k) == /\ work'[k] = work[k] /\ wf'[k] = wf[k]
                /\ boxes'[k] = boxes[k] /\ lost'[k] = lost[k]
                /\ artifacts'[k] = artifacts[k] /\ sbxRuns'[k] = sbxRuns[k]
                /\ history'[k] = history[k]

\* What is not touched keeps its invariant.
LEMMA UntouchedKeeps ==
  ASSUME NEW k \in Keys, TaskOf(k), BoxOf(k), Untouched(k), UNCHANGED crashes
  PROVE  TaskOf(k)' /\ BoxOf(k)'
  BY DEF TaskOf, BoxOf, Begun, Untouched, WorkOf, RowsOf, EvidenceOf, CauseOf

\* A step of one task does not touch another.
LEMMA StepsAreLocal ==
  ASSUME TypeOK, NEW k \in Keys, Dequeue(k) \/ TaskStep(k), NEW j \in Keys, j # k
  PROVE  Untouched(j) /\ UNCHANGED crashes
  <1> USE DEF Untouched, mainRest
  <1>1. CASE Dequeue(k)
    BY <1>1 DEF Dequeue, TypeOK
  <1>2. CASE Begin(k)
    BY <1>2 DEF Begin, TypeOK
  <1>3. CASE RunMock(k) \/ RunMicro(k) \/ RunCommand(k) \/ Boot(k)
    <2>1. UNCHANGED <<wf, lost, artifacts, sbxRuns, history, crashes>>
      BY <1>3, ResultFrame
    <2>2. work'[j] = work[j]
      <3>1. work \in [Keys -> Held]
        BY DEF TypeOK, Held, WorkStates
      <3>2. CASE \E c \in ErrCodes, m \in Marks, next \in {"kill", "artifacts"} :
                   Yield(k, [code |-> c, mark |-> m], next)
        BY <3>1, <3>2 DEF Yield
      <3>3. CASE work' = [work EXCEPT ![k].st = "run", ![k].box = TRUE]
        BY <3>1, <3>3
      <3> QED
        BY <1>3, <3>2, <3>3, ResultSteps
    <2>3. boxes'[j] = boxes[j]
      BY <1>3, ResultSteps, ResultFrame DEF TypeOK
    <2> QED
      BY <2>1, <2>2, <2>3
  <1>4. CASE Kill(k)
    BY <1>4 DEF Kill, TypeOK
  <1>5. CASE SaveArtifact(k)
    <2>1. work'[j] = work[j] /\ artifacts'[j] = artifacts[j]
      BY <1>5 DEF SaveArtifact, Throw, TypeOK
    <2> QED
      BY <1>5, <2>1 DEF SaveArtifact
  <1>6. CASE SaveSbxRun(k)
    <2>1. work'[j] = work[j] /\ sbxRuns'[j] = sbxRuns[j] /\ history'[j] = history[j]
      BY <1>6 DEF SaveSbxRun, Throw, TypeOK
    <2> QED
      BY <1>6, <2>1 DEF SaveSbxRun
  <1>7. CASE Record(k)
    BY <1>7 DEF Record, TypeOK
  <1> QED
    BY <1>1, <1>2, <1>3, <1>4, <1>5, <1>6, <1>7 DEF TaskStep

\* No result is a row that is not there.
LEMMA NoneIsNoResult == None \notin Outputs
  BY DEF None, Outputs

\* What the invariant says of one task, in terms of its types.
LEMMA TaskTyped ==
  ASSUME TypeOK, NEW k \in Keys
  PROVE  /\ work[k] \in Held /\ wf[k] \in Known /\ crashes \in Nat
         /\ boxes[k] \in Nat /\ lost[k] \in Nat /\ work[k].attempt \in 0..3
         /\ history[k] \subseteq Attempts
         /\ \A a \in Attempts : artifacts[k][a] \in Seq(ItemSet)
                                  /\ sbxRuns[k][a] \in Outputs \cup {None}
         /\ work \in [Keys -> Held] /\ wf \in [Keys -> Known] /\ boxes \in [Keys -> Nat]
         /\ history \in [Keys -> SUBSET Attempts]
         /\ artifacts \in [Keys -> [Attempts -> Seq(ItemSet)]]
         /\ sbxRuns \in [Keys -> [Attempts -> Outputs \cup {None}]]
  <1>1. crashes \in Nat
    BY LimitsAssumption DEF TypeOK
  <1> QED
    BY <1>1 DEF TypeOK, Held, WorkStates, Known, MaxAttempts

\* A step that makes and ends no sandbox, in an attempt that has asked for one.
LEMMA BoxStays ==
  ASSUME NEW k \in Keys, BoxOf(k), UNCHANGED <<boxes, lost, crashes>>,
         work'[k].box = work[k].box, Begun(k)' = Begun(k)
  PROVE  BoxOf(k)'
  BY DEF BoxOf

\* The numbers of a task.
LEMMA BoxTyped ==
  ASSUME TypeOK, NEW k \in Keys
  PROVE  /\ boxes[k] \in Nat /\ lost[k] \in Nat /\ crashes \in Nat
         /\ work[k].attempt \in Nat /\ work[k].attempt <= 3
         /\ Begun(k) \in Int /\ Begun(k) <= 3
  <1>0. work[k].attempt \in 0..3
    BY TaskTyped
  <1>1. /\ boxes[k] \in Nat /\ lost[k] \in Nat /\ crashes \in Nat
        /\ work[k].attempt \in Nat /\ work[k].attempt <= 3
    <2>1. boxes[k] \in Nat /\ lost[k] \in Nat /\ crashes \in Nat
      BY TaskTyped
    <2> QED
      BY ONLY <1>0, <2>1
  <1>2. Begun(k) \in {3, work[k].attempt - 1, work[k].attempt}
    BY DEF Begun, MaxAttempts
  <1> QED
    BY ONLY <1>1, <1>2

LEMMA BeginKeeps ==
  ASSUME TypeOK, NEW k \in Keys, TaskOf(k), BoxOf(k), Begin(k)
  PROVE  TaskOf(k)' /\ BoxOf(k)'
  <1>1. /\ work'[k] = [Idle EXCEPT !.st = "boot", !.attempt = work[k].attempt + 1]
        /\ UNCHANGED <<wf, boxes, lost, artifacts, sbxRuns, history, crashes>>
        /\ wf[k].st = "running" /\ work[k].st \in {"idle", "throw"}
        /\ work[k].attempt \in 0..3 /\ work[k].attempt < 3
    BY TaskTyped DEF Begin, mainRest, Held, MaxAttempts
  <1>2. /\ work'[k].st = "boot" /\ work'[k].attempt = work[k].attempt + 1
        /\ work'[k].box = FALSE /\ work'[k].next = 1
    BY <1>1 DEF Idle
  <1>3. WorkOf(k)'
    BY <1>1, <1>2 DEF TaskOf, WorkOf, Attempts, MaxAttempts
  <1>4. RowsOf(k)' /\ EvidenceOf(k)'
    BY <1>1, <1>2 DEF TaskOf, RowsOf, EvidenceOf
  <1>5. CauseOf(k)'
    <2>1. 1..work[k].attempt \subseteq history[k]
      BY <1>1 DEF TaskOf, CauseOf, WorkOf
    <2> QED
      BY <1>1, <1>2, <2>1 DEF TaskOf, CauseOf
  <1>6. BoxOf(k)'
    <2>1. Begun(k)' = work[k].attempt /\ Begun(k) = work[k].attempt
      BY <1>1, <1>2 DEF Begun
    <2>2. work'[k].box = work[k].box
      BY <1>1, <1>2, TaskTyped DEF TaskOf, WorkOf, Held
    <2> QED
      BY <1>1, <2>1, <2>2, BoxStays
  <1> QED
    BY <1>1, <1>3, <1>4, <1>5, <1>6 DEF TaskOf

LEMMA YieldKeeps ==
  ASSUME TypeOK, NEW k \in Keys, TaskOf(k), BoxOf(k),
         RunMock(k) \/ RunMicro(k) \/ RunCommand(k) \/ Boot(k)
  PROVE  TaskOf(k)' /\ BoxOf(k)'
  <1>0. UNCHANGED <<wf, lost, artifacts, sbxRuns, history, crashes>>
    BY ResultFrame DEF mainRest
  <1>t. work[k] \in Held /\ work \in [Keys -> Held] /\ boxes \in [Keys -> Nat] /\ crashes \in Nat
    BY TaskTyped
  <1>1. ASSUME NEW c \in ErrCodes, NEW m \in Marks,
               Yield(k, [code |-> c, mark |-> m], "artifacts"),
               work[k].st = "boot", UNCHANGED boxes
        PROVE  TaskOf(k)' /\ BoxOf(k)'
    <2>1. work'[k].out \in Outputs
      BY <1>1, YieldTyped
    <2>2. /\ work'[k].st = "artifacts" /\ work'[k].attempt = work[k].attempt
          /\ work'[k].box = work[k].box /\ work'[k].next = work[k].next
      BY <1>1, <1>t DEF Yield, Held
    <2>3. Len(Items(work'[k].out)) \in 3..4
      BY <2>1, ItemsFacts
    <2>4. work[k].attempt \in Attempts /\ Len(artifacts[k][work[k].attempt]) \in Nat
      BY <1>1, TaskTyped DEF TaskOf, WorkOf
    <2>5. WorkOf(k)'
      <3>1. 1 <= Len(Items(work'[k].out))
        BY <2>1, ItemsFacts, Zenon
      <3>2. work'[k].next = 1 /\ work'[k].box = FALSE
        BY <1>1, <1>t, <2>2 DEF TaskOf, WorkOf, Held
      <3> QED
        BY <1>0, <1>1, <2>1, <2>2, <3>1, <3>2 DEF TaskOf, WorkOf
    <2>8. BoxOf(k)'
      <3>1. Begun(k)' = work[k].attempt /\ Begun(k) = work[k].attempt - 1
        BY <1>0, <1>1, <2>2 DEF Begun, TaskOf, WorkOf
      <3>2. /\ boxes[k] <= crashes + lost[k] + (IF work[k].box THEN 1 ELSE 0)
            /\ boxes[k] <= 3 * crashes + Begun(k)
        BY DEF BoxOf, MaxAttempts
      <3>t. boxes[k] \in Nat /\ crashes \in Nat /\ work[k].attempt \in Nat
        BY BoxTyped
      <3>3. boxes[k] <= 3 * crashes + work[k].attempt
        BY ONLY <3>1, <3>2, <3>t
      <3>4. boxes'[k] = boxes[k] /\ lost'[k] = lost[k] /\ crashes' = crashes
        BY <1>0, <1>1
      <3> QED
        BY <2>2, <3>1, <3>2, <3>3, <3>4 DEF BoxOf, MaxAttempts
    <2>6. RowsOf(k)'
      BY <1>0, <1>1, <2>2, <2>4 DEF TaskOf, WorkOf, RowsOf
    <2>7. EvidenceOf(k)' /\ CauseOf(k)'
      BY <1>0, <1>1, <2>2 DEF TaskOf, EvidenceOf, CauseOf
    <2> QED
      BY <1>0, <2>5, <2>6, <2>7, <2>8 DEF TaskOf
  <1>2. ASSUME NEW c \in ErrCodes, NEW m \in Marks,
               Yield(k, [code |-> c, mark |-> m], "kill"),
               work[k].st = "run", UNCHANGED boxes
        PROVE  TaskOf(k)' /\ BoxOf(k)'
    <2>1. work'[k].out \in Outputs
      BY <1>2, YieldTyped
    <2>2. /\ work'[k].st = "kill" /\ work'[k].attempt = work[k].attempt
          /\ work'[k].box = work[k].box /\ work'[k].next = work[k].next
      BY <1>2, <1>t DEF Yield, Held
    <2>3. WorkOf(k)'
      BY <1>0, <1>2, <2>1, <2>2 DEF TaskOf, WorkOf
    <2>5. BoxOf(k)'
      <3>1. Begun(k)' = Begun(k)
        BY <1>0, <1>2, <2>2 DEF Begun
      <3>2. UNCHANGED <<boxes, lost, crashes>>
        BY <1>0, <1>2
      <3> QED
        BY <2>2, <3>1, <3>2, BoxStays
    <2>4. RowsOf(k)' /\ EvidenceOf(k)' /\ CauseOf(k)'
      BY <1>0, <1>2, <2>2 DEF TaskOf, RowsOf, EvidenceOf, CauseOf
    <2> QED
      BY <1>0, <2>3, <2>4, <2>5 DEF TaskOf
  <1>3. CASE boxes' = [boxes EXCEPT ![k] = @ + 1] /\ work[k].st = "boot"
               /\ work' = [work EXCEPT ![k].st = "run", ![k].box = TRUE]
    <2>1. /\ work'[k].st = "run" /\ work'[k].attempt = work[k].attempt
          /\ work'[k].box = TRUE /\ work'[k].next = work[k].next
          /\ boxes'[k] = boxes[k] + 1 /\ boxes[k] \in Nat /\ work[k].box = FALSE
      BY <1>3, <1>t DEF Held, TaskOf, WorkOf
    <2>2. WorkOf(k)'
      BY <1>0, <1>3, <2>1, <1>t DEF TaskOf, WorkOf
    <2>3. BoxOf(k)'
      <3>1. Begun(k)' = work[k].attempt /\ Begun(k) = work[k].attempt - 1
        BY <1>0, <1>3, <2>1 DEF Begun, TaskOf, WorkOf
      <3>2. /\ boxes[k] <= crashes + lost[k] + 0
            /\ boxes[k] <= 3 * crashes + Begun(k)
        BY <2>1 DEF BoxOf, MaxAttempts
      <3>t. /\ boxes[k] \in Nat /\ lost[k] \in Nat /\ crashes \in Nat
            /\ work[k].attempt \in Nat
        BY BoxTyped
      <3>3. /\ boxes[k] + 1 <= crashes + lost[k] + 1
            /\ boxes[k] + 1 <= 3 * crashes + work[k].attempt
        BY ONLY <3>1, <3>2, <3>t
      <3>4. boxes'[k] = boxes[k] + 1 /\ lost'[k] = lost[k] /\ crashes' = crashes
        BY <1>0, <2>1
      <3> QED
        BY <2>1, <3>1, <3>3, <3>4 DEF BoxOf, MaxAttempts
    <2>4. RowsOf(k)' /\ EvidenceOf(k)' /\ CauseOf(k)'
      BY <1>0, <1>3, <2>1 DEF TaskOf, RowsOf, EvidenceOf, CauseOf
    <2> QED
      BY <1>0, <2>2, <2>3, <2>4 DEF TaskOf
  <1> QED
    BY <1>1, <1>2, <1>3, ResultSteps, ResultFrame

LEMMA KillKeeps ==
  ASSUME TypeOK, NEW k \in Keys, TaskOf(k), BoxOf(k), Kill(k)
  PROVE  TaskOf(k)' /\ BoxOf(k)'
  <1>1. /\ work'[k].st = "artifacts" /\ work'[k].attempt = work[k].attempt
        /\ work'[k].box = FALSE /\ work'[k].next = work[k].next
        /\ work'[k].out = work[k].out /\ work[k].st = "kill"
        /\ UNCHANGED <<wf, artifacts, sbxRuns, history, crashes>>
    BY TaskTyped DEF Kill, Held, mainRest
  <1>2. work[k].out \in Outputs /\ work[k].attempt \in Attempts /\ work[k].next = 1
    BY <1>1 DEF TaskOf, WorkOf
  <1>3. Len(Items(work[k].out)) \in 3..4 /\ Len(artifacts[k][work[k].attempt]) \in Nat
    BY <1>2, ItemsFacts, TaskTyped
  <1>4. WorkOf(k)'
    <2>0. work'[k].out \in Outputs
      BY <1>1, <1>2
    <2>1. 1 <= Len(Items(work'[k].out))
      BY <2>0, ItemsFacts, Zenon
    <2> QED
      BY <1>1, <1>2, <2>1 DEF TaskOf, WorkOf
  <1>7. BoxOf(k)'
    <2>1. work[k].box = TRUE
      BY <1>1, TaskTyped DEF TaskOf, WorkOf, Held
    <2>2. Begun(k)' = Begun(k) /\ Begun(k) = work[k].attempt
      BY <1>1 DEF Begun, TaskOf, WorkOf
    <2>3. /\ boxes[k] <= crashes + lost[k] + 1
          /\ boxes[k] <= 3 * crashes + work[k].attempt
      BY <2>1, <2>2 DEF BoxOf, MaxAttempts
    <2>4. \/ boxes'[k] = boxes[k] - 1 /\ lost'[k] = lost[k]
          \/ boxes'[k] = boxes[k] /\ lost'[k] = lost[k] + 1
      <3>1. boxes \in [Keys -> Nat] /\ lost \in [Keys -> Nat]
        BY DEF TypeOK
      <3> QED
        BY <3>1 DEF Kill
    <2>5. /\ boxes'[k] <= crashes + lost'[k]
          /\ boxes'[k] <= 3 * crashes + work[k].attempt
      <3>1. /\ boxes[k] \in Nat /\ lost[k] \in Nat /\ crashes \in Nat
            /\ work[k].attempt \in Nat
        BY BoxTyped
      <3> QED
        BY ONLY <2>3, <2>4, <3>1
    <2>6. crashes + lost'[k] = crashes + lost'[k] + 0
      BY <2>4, BoxTyped
    <2> QED
      BY <1>1, <2>2, <2>5, <2>6 DEF BoxOf, MaxAttempts
  <1>5. RowsOf(k)'
    BY <1>1, <1>2, <1>3 DEF RowsOf
  <1>6. EvidenceOf(k)' /\ CauseOf(k)'
    BY <1>1 DEF TaskOf, EvidenceOf, CauseOf
  <1> QED
    BY <1>1, <1>4, <1>5, <1>6, <1>7 DEF TaskOf
\* A prefix as long as the whole is the whole.
LEMMA WholePrefix ==
  ASSUME NEW s \in Seq(ItemSet), NEW t \in Seq(ItemSet), IsPrefix(s, t), Len(t) <= Len(s)
  PROVE  s = t
  <1>1. Len(s) \in Nat /\ Len(t) \in Nat
    OBVIOUS
  <1>2. Len(s) <= Len(t) /\ \A i \in 1..Len(s) : s[i] = t[i]
    BY PrefixIff
  <1>3. Len(s) = Len(t)
    BY <1>1, <1>2
  <1> QED
    BY <1>2, <1>3, SeqEqual

\* Rows that begin a list of items, and the next of them.
LEMMA RowAppended ==
  ASSUME NEW s \in Seq(ItemSet), NEW t \in Seq(ItemSet), NEW n \in 1..Len(t),
         Len(s) = n - 1, \A j \in 1..(n - 1) : s[j] = t[j]
  PROVE  /\ Append(s, t[n]) \in Seq(ItemSet) /\ Len(Append(s, t[n])) = n
         /\ IsPrefix(Append(s, t[n]), t)
         /\ \A j \in 1..n : Append(s, t[n])[j] = t[j]
         /\ n = Len(t) => Append(s, t[n]) = t
  <1> DEFINE u == Append(s, t[n])
  <1>1. Len(s) \in Nat /\ Len(t) \in Nat /\ n = Len(s) + 1 /\ n <= Len(t) /\ t[n] \in ItemSet
    OBVIOUS
  <1>2. /\ u \in Seq(ItemSet) /\ Len(u) = n /\ u[n] = t[n]
        /\ \A j \in 1..(n - 1) : u[j] = s[j]
    BY <1>1
  <1>3. ASSUME NEW j \in 1..n PROVE u[j] = t[j]
    <2>1. CASE j = n
      BY <1>2, <2>1
    <2>2. CASE j # n
      <3>1. j \in 1..(n - 1)
        BY <1>1, <2>2
      <3> QED
        BY <1>2, <3>1
    <2> QED
      BY <2>1, <2>2
  <1>4. IsPrefix(u, t)
    BY <1>1, <1>2, <1>3, PrefixIff
  <1>5. n = Len(t) => u = t
    BY <1>1, <1>2, <1>4, WholePrefix
  <1> QED
    BY <1>2, <1>3, <1>4, <1>5

\* The rows under an attempt that is at its artifacts: what is there before
\* the step, in terms of this execution's items.
LEMMA RowsFound ==
  ASSUME TypeOK, NEW k \in Keys, TaskOf(k), work[k].st = "artifacts",
         NEW a, a = work[k].attempt, NEW i, i = work[k].next,
         NEW items, items = Items(work[k].out), NEW stored, stored = artifacts[k][a]
  PROVE  /\ a \in Attempts /\ work[k].out \in Outputs /\ wf[k].st = "running"
         /\ stored \in Seq(ItemSet) /\ items \in Seq(ItemSet)
         /\ Len(stored) \in Nat /\ Len(items) \in 3..4
         /\ i \in 1..5 /\ i <= Len(items) /\ i <= Len(stored) + 1
         /\ \A j \in 1..(i - 1) : stored[j] = items[j]
         /\ \E o \in Outputs : IsPrefix(stored, Items(o))
         /\ sbxRuns[k][a] # None => sbxRuns[k][a] \in Outputs /\ stored = Items(sbxRuns[k][a])
  <1>1. /\ a \in Attempts /\ work[k].out \in Outputs /\ wf[k].st = "running"
        /\ i <= Len(items)
    BY DEF TaskOf, WorkOf
  <1>2. items \in Seq(ItemSet) /\ Len(items) \in 3..4
    BY <1>1, ItemsFacts
  <1>3. stored \in Seq(ItemSet) /\ Len(stored) \in Nat /\ i \in 1..5
    BY <1>1, TaskTyped DEF Held
  <1>4. i <= Len(stored) + 1 /\ \A j \in 1..(i - 1) : stored[j] = items[j]
    BY DEF TaskOf, RowsOf
  <1>5. sbxRuns[k][a] \in Outputs \cup {None}
    BY <1>1, TaskTyped
  <1>6. /\ \E o \in Outputs : IsPrefix(stored, Items(o))
        /\ sbxRuns[k][a] # None => stored = Items(sbxRuns[k][a])
    BY <1>1 DEF TaskOf, EvidenceOf
  <1> QED
    BY <1>1, <1>2, <1>3, <1>4, <1>5, <1>6

\* Where a row agrees with the item, or is free and now holds it, the rows up
\* to it are this execution's, and nothing follows that is not.
LEMMA RowsSaved ==
  ASSUME TypeOK, NEW k \in Keys, TaskOf(k), work[k].st = "artifacts",
         NEW a, a = work[k].attempt, NEW i, i = work[k].next,
         NEW items, items = Items(work[k].out), NEW stored, stored = artifacts[k][a],
         NEW saved,
         \/ i <= Len(stored) /\ stored[i] = items[i] /\ saved = stored
         \/ i > Len(stored) /\ saved = Append(stored, items[i])
  PROVE  /\ saved \in Seq(ItemSet) /\ i <= Len(saved) /\ Len(saved) \in Nat
         /\ IsPrefix(saved, items)
         /\ \A j \in 1..i : saved[j] = items[j]
         /\ i = Len(items) => saved = items
         /\ saved # stored => sbxRuns[k][a] = None
  <1>0. /\ a \in Attempts /\ work[k].out \in Outputs /\ wf[k].st = "running"
        /\ stored \in Seq(ItemSet) /\ items \in Seq(ItemSet)
        /\ Len(stored) \in Nat /\ Len(items) \in 3..4
        /\ i \in 1..5 /\ i <= Len(items) /\ i <= Len(stored) + 1
        /\ \A j \in 1..(i - 1) : stored[j] = items[j]
        /\ \E o \in Outputs : IsPrefix(stored, Items(o))
        /\ sbxRuns[k][a] # None => sbxRuns[k][a] \in Outputs /\ stored = Items(sbxRuns[k][a])
    BY ONLY TypeOK, TaskOf(k), work[k].st = "artifacts", a = work[k].attempt,
       i = work[k].next, items = Items(work[k].out), stored = artifacts[k][a], RowsFound
  <1>1. CASE i <= Len(stored) /\ stored[i] = items[i] /\ saved = stored
    <2>1. stored # <<>> /\ stored[1] = items[1]
      BY <1>0, <1>1
    <2>2. Len(stored) <= Len(items) /\ \A j \in 1..Len(stored) : stored[j] = items[j]
      BY <1>0, <2>1, RowsAreItems
    <2>3. IsPrefix(stored, items)
      BY <1>0, <2>2, PrefixIff
    <2>4. i = Len(items) => stored = items
      BY <1>0, <1>1, <2>3, WholePrefix
    <2>5. \A j \in 1..i : stored[j] = items[j]
      <3>1. \A j \in 1..i : j \in 1..Len(stored)
        BY ONLY <1>0, <1>1
      <3> QED
        BY <2>2, <3>1
    <2> QED
      BY <1>0, <1>1, <2>3, <2>4, <2>5
  <1>2. CASE i > Len(stored) /\ saved = Append(stored, items[i])
    <2>1. i \in 1..Len(items) /\ Len(stored) = i - 1
      <3>1. i \in Nat /\ i >= 1 /\ i <= Len(items) /\ Len(items) \in Nat /\ Len(stored) \in Nat
        BY ONLY <1>0
      <3>2. i <= Len(stored) + 1 /\ i > Len(stored)
        BY <1>0, <1>2
      <3> QED
        BY ONLY <3>1, <3>2
    <2>2. /\ saved \in Seq(ItemSet) /\ Len(saved) = i /\ IsPrefix(saved, items)
          /\ \A j \in 1..i : saved[j] = items[j]
          /\ i = Len(items) => saved = items
      <3>1. /\ stored \in Seq(ItemSet) /\ items \in Seq(ItemSet)
            /\ \A j \in 1..(i - 1) : stored[j] = items[j]
        BY <1>0
      <3>2. saved = Append(stored, items[i])
        BY <1>2
      <3> QED
        BY ONLY <2>1, <3>1, <3>2, RowAppended
    <2>6. sbxRuns[k][a] = None
      <3> SUFFICES ASSUME sbxRuns[k][a] # None PROVE FALSE
        OBVIOUS
      <3>1. sbxRuns[k][a] \in Outputs /\ stored = Items(sbxRuns[k][a])
        BY <1>0
      <3>2. Len(stored) \in 3..4
        BY <3>1, ItemsFacts
      <3>3. stored[1] = items[1]
        <4>1. 1 \in 1..(i - 1)
          BY ONLY <2>1, <3>2
        <4> QED
          BY <1>0, <4>1
      <3>4. sbxRuns[k][a] = work[k].out
        <4>1. Items(work[k].out)[1] = Items(sbxRuns[k][a])[1]
          BY <3>1, <3>3
        <4>2. work[k].out \in Outputs /\ sbxRuns[k][a] \in Outputs
          BY ONLY <1>0, <3>1
        <4> QED
          BY ONLY <4>1, <4>2, ItemsInjective
      <3>5. Len(stored) = Len(items)
        BY <3>1, <3>4
      <3> QED
        BY ONLY <2>1, <3>2, <3>5
    <2> QED
      BY <2>1, <2>2, <2>6
  <1> QED
    BY <1>1, <1>2

LEMMA SaveArtifactKeeps ==
  ASSUME TypeOK, NEW k \in Keys, TaskOf(k), BoxOf(k), SaveArtifact(k)
  PROVE  TaskOf(k)' /\ BoxOf(k)'
  <1> DEFINE a == work[k].attempt
             i == work[k].next
             items == Items(work[k].out)
             stored == artifacts[k][a]
  <1>0. /\ work[k].st = "artifacts"
        /\ UNCHANGED <<wf, boxes, lost, sbxRuns, history, crashes>>
        /\ work[k] \in Held /\ work \in [Keys -> Held]
        /\ artifacts \in [Keys -> [Attempts -> Seq(ItemSet)]]
    BY TaskTyped DEF SaveArtifact, mainRest
  <1>1. /\ a \in Attempts /\ work[k].out \in Outputs /\ wf[k].st = "running"
        /\ stored \in Seq(ItemSet) /\ items \in Seq(ItemSet)
        /\ Len(stored) \in Nat /\ Len(items) \in 3..4
        /\ i \in 1..5 /\ i <= Len(items) /\ i <= Len(stored) + 1
        /\ \A j \in 1..(i - 1) : stored[j] = items[j]
    BY <1>0, RowsFound
  <1>2. work[k].box = FALSE
    BY <1>0 DEF TaskOf, WorkOf, Held
  <1>3. CASE i <= Len(stored) /\ stored[i] # items[i] /\ Throw(k) /\ UNCHANGED artifacts
    <2>1. /\ work'[k].st = "throw" /\ work'[k].attempt = work[k].attempt
          /\ work'[k].box = FALSE
      BY <1>0, <1>2, <1>3 DEF Throw, Held
    <2>2. a \in history[k]
      <3>1. ~ IsPrefix(stored, items)
        BY <1>1, <1>3, PrefixIff
      <3>2. stored # <<>>
        BY <1>1, <1>3
      <3> QED
        BY <1>1, <3>1, <3>2 DEF TaskOf, CauseOf
    <2>3. WorkOf(k)'
      BY <1>0, <1>1, <2>1 DEF TaskOf, WorkOf
    <2>4. RowsOf(k)' /\ EvidenceOf(k)'
      BY <1>0, <1>3, <2>1 DEF TaskOf, RowsOf, EvidenceOf
    <2>5. CauseOf(k)'
      BY <1>0, <1>1, <1>3, <2>1, <2>2 DEF TaskOf, CauseOf
    <2>6. BoxOf(k)'
      BY <1>0, <1>2, <2>1, TaskTyped DEF BoxOf, Begun, MaxAttempts
    <2> QED
      BY <1>0, <2>3, <2>4, <2>5, <2>6 DEF TaskOf
  <1>4. ASSUME NEW saved,
               \/ i <= Len(stored) /\ stored[i] = items[i] /\ saved = stored
               \/ i > Len(stored) /\ saved = Append(stored, items[i]),
               artifacts'[k] = [artifacts[k] EXCEPT ![a] = saved],
               work' = [work EXCEPT ![k].next = i + 1,
                          ![k].st = IF i = Len(items) THEN "row" ELSE "artifacts"]
        PROVE  TaskOf(k)' /\ BoxOf(k)'
    <2>1. /\ saved \in Seq(ItemSet) /\ i <= Len(saved) /\ Len(saved) \in Nat
          /\ IsPrefix(saved, items)
          /\ \A j \in 1..i : saved[j] = items[j]
          /\ i = Len(items) => saved = items
          /\ saved # stored => sbxRuns[k][a] = None
      <3>1. /\ a = work[k].attempt /\ i = work[k].next
            /\ items = Items(work[k].out) /\ stored = artifacts[k][a]
        OBVIOUS
      <3>2. work[k].st = "artifacts"
        BY <1>0
      <3>3. \/ i <= Len(stored) /\ stored[i] = items[i] /\ saved = stored
            \/ i > Len(stored) /\ saved = Append(stored, items[i])
        BY <1>4
      <3> HIDE DEF a, i, items, stored
      <3> QED
        BY <3>1, <3>2, <3>3, RowsSaved
    <2>2. /\ work'[k].attempt = work[k].attempt /\ work'[k].out = work[k].out
          /\ work'[k].box = FALSE /\ work'[k].next = work[k].next + 1
          /\ work'[k].st = IF i = Len(items) THEN "row" ELSE "artifacts"
      BY <1>0, <1>2, <1>4 DEF Held
    <2>3. /\ artifacts'[k][a] = saved
          /\ \A b \in Attempts : b # a => artifacts'[k][b] = artifacts[k][b]
      BY <1>0, <1>1, <1>4
    <2>4. WorkOf(k)'
      <3>1. i # Len(items) => i + 1 <= Len(items)
        BY <1>1
      <3>2. work'[k].st \in {"row", "artifacts"}
        BY <2>2
      <3>3. work'[k].st = "artifacts" => work'[k].next <= Len(Items(work'[k].out))
        BY <2>2, <3>1
      <3> QED
        BY <1>0, <1>1, <2>2, <3>2, <3>3 DEF TaskOf, WorkOf
    <2>5. RowsOf(k)'
      <3>1. work'[k].st = "artifacts" =>
              /\ work'[k].next <= Len(artifacts'[k][work'[k].attempt]) + 1
              /\ \A j \in 1..(work'[k].next - 1) :
                   artifacts'[k][work'[k].attempt][j] = Items(work'[k].out)[j]
        BY <1>1, <2>1, <2>2, <2>3
      <3>2. work'[k].st = "row" => artifacts'[k][work'[k].attempt] = Items(work'[k].out)
        BY <2>1, <2>2, <2>3
      <3>3. work'[k].st # "return"
        BY <2>2
      <3> QED
        BY <3>1, <3>2, <3>3 DEF RowsOf
    <2>6. EvidenceOf(k)'
      <3>1. \A b \in Attempts : sbxRuns[k][b] # None => artifacts'[k][b] = Items(sbxRuns[k][b])
        BY <2>1, <2>3 DEF TaskOf, EvidenceOf
      <3>2. \A b \in Attempts : \E o \in Outputs : IsPrefix(artifacts'[k][b], Items(o))
        BY <1>1, <2>1, <2>3 DEF TaskOf, EvidenceOf
      <3>3. wf[k].st # "done"
        BY <1>1
      <3> QED
        BY <1>0, <3>1, <3>2, <3>3 DEF EvidenceOf
    <2>7. CauseOf(k)'
      <3>1. work'[k].st \in {"row", "artifacts"}
        BY <2>2
      <3>2. work[k].st # "idle" => 1..(work[k].attempt - 1) \subseteq history[k]
        BY DEF TaskOf, CauseOf
      <3>3. ASSUME NEW b \in Attempts, artifacts'[k][b] # <<>>
            PROVE  \/ b \in history[k]
                   \/ /\ work'[k].attempt = b
                      /\ IsPrefix(artifacts'[k][b], Items(work'[k].out))
        <4>1. CASE b = a
          BY <4>1, <2>1, <2>2, <2>3
        <4>2. CASE b # a
          BY <3>3, <4>2, <1>1, <2>3 DEF TaskOf, CauseOf
        <4> QED
          BY <4>1, <4>2
      <3> QED
        BY <1>0, <2>2, <3>1, <3>2, <3>3 DEF CauseOf
    <2>8. BoxOf(k)'
      BY <1>0, <1>2, <2>2, TaskTyped DEF BoxOf, Begun, MaxAttempts
    <2> QED
      BY <1>0, <1>1, <2>4, <2>5, <2>6, <2>7, <2>8 DEF TaskOf
  <1>5. CASE ~(i <= Len(stored) /\ stored[i] # items[i])
    <2>1. /\ artifacts' = IF i > Len(stored)
                            THEN [artifacts EXCEPT ![k][a] = Append(@, items[i])]
                            ELSE artifacts
          /\ work' = [work EXCEPT ![k].next = i + 1,
                        ![k].st = IF i = Len(items) THEN "row" ELSE "artifacts"]
      BY <1>5 DEF SaveArtifact
    <2>2. CASE i > Len(stored)
      <3>1. artifacts'[k] = [artifacts[k] EXCEPT ![a] = Append(stored, items[i])]
        <4>1. artifacts' = [artifacts EXCEPT ![k][a] = Append(artifacts[k][a], items[i])]
          BY <2>1, <2>2
        <4> HIDE DEF items, i
        <4> QED
          BY <4>1, <1>0, <1>1
      <3> HIDE DEF a, i, items, stored
      <3> QED
        BY <1>4, <2>1, <2>2, <3>1
    <2>3. CASE i <= Len(stored) /\ stored[i] = items[i]
      <3>1. artifacts'[k] = [artifacts[k] EXCEPT ![a] = stored]
        BY <1>0, <1>1, <2>1, <2>3
      <3> HIDE DEF a, i, items, stored
      <3> QED
        BY <1>4, <2>1, <2>3, <3>1
    <2>4. i > Len(stored) \/ i <= Len(stored)
      <3> HIDE DEF i, stored
      <3> QED
        BY <1>1
    <2> HIDE DEF a, i, items, stored
    <2> QED
      BY <1>5, <2>2, <2>3, <2>4
  <1>6. i <= Len(stored) /\ stored[i] # items[i] => Throw(k) /\ UNCHANGED artifacts
    BY DEF SaveArtifact
  <1> QED
    BY <1>3, <1>5, <1>6

LEMMA SaveSbxRunKeeps ==
  ASSUME TypeOK, NEW k \in Keys, TaskOf(k), BoxOf(k), SaveSbxRun(k)
  PROVE  TaskOf(k)' /\ BoxOf(k)'
  <1> DEFINE a == work[k].attempt
             out == work[k].out
  <1>0. /\ work[k].st = "row" /\ UNCHANGED <<wf, boxes, lost, artifacts, crashes>>
        /\ work[k] \in Held /\ work \in [Keys -> Held]
        /\ sbxRuns \in [Keys -> [Attempts -> Outputs \cup {None}]]
        /\ history \in [Keys -> SUBSET Attempts]
    BY TaskTyped DEF SaveSbxRun, mainRest
  <1>1. /\ a \in Attempts /\ out \in Outputs /\ wf[k].st = "running"
        /\ work[k].box = FALSE /\ artifacts[k][a] = Items(out)
    BY <1>0 DEF TaskOf, WorkOf, RowsOf, Held
  <1>2. sbxRuns[k][a] \in {None, out}
    <2> SUFFICES ASSUME sbxRuns[k][a] # None PROVE sbxRuns[k][a] = out
      OBVIOUS
    <2>1. sbxRuns[k][a] \in Outputs /\ artifacts[k][a] = Items(sbxRuns[k][a])
      BY <1>0, <1>1 DEF TaskOf, EvidenceOf
    <2> QED
      BY <1>1, <2>1, ItemsInjective
  <1>3. /\ sbxRuns' = [sbxRuns EXCEPT ![k][a] = out]
        /\ \/ work' = [work EXCEPT ![k].st = "throw"]
                /\ history' = [history EXCEPT ![k] = @ \cup {a}]
           \/ work' = [work EXCEPT ![k].st = "return"] /\ UNCHANGED history
    BY <1>2 DEF SaveSbxRun, Throw
  <1>4. /\ sbxRuns'[k][a] = out
        /\ \A b \in Attempts : b # a => sbxRuns'[k][b] = sbxRuns[k][b]
    BY <1>0, <1>1, <1>3
  <1>5. /\ work'[k].attempt = a /\ work'[k].out = out /\ work'[k].box = FALSE
        /\ \/ work'[k].st = "throw" /\ history'[k] = history[k] \cup {a}
           \/ work'[k].st = "return" /\ history'[k] = history[k]
    <2>1. ASSUME NEW st \in WorkStates, work' = [work EXCEPT ![k].st = st]
          PROVE  work'[k].st = st /\ work'[k].attempt = a /\ work'[k].out = out
                   /\ work'[k].box = FALSE
      BY <1>0, <1>1, <2>1 DEF Held
    <2>2. "throw" \in WorkStates /\ "return" \in WorkStates
      BY DEF WorkStates
    <2> HIDE DEF a, out
    <2> QED
      BY <1>0, <1>3, <2>1, <2>2
  <1> HIDE DEF a, out
  <1>6. WorkOf(k)'
    BY <1>0, <1>1, <1>5 DEF TaskOf, WorkOf
  <1>7. RowsOf(k)'
    BY <1>0, <1>1, <1>4, <1>5 DEF RowsOf
  <1>8. EvidenceOf(k)'
    <2>1. \A b \in Attempts : sbxRuns'[k][b] # None => artifacts[k][b] = Items(sbxRuns'[k][b])
      BY <1>1, <1>4 DEF TaskOf, EvidenceOf
    <2> QED
      BY <1>0, <1>1, <2>1 DEF TaskOf, EvidenceOf
  <1>9. CauseOf(k)'
    <2>1. 1..(a - 1) \subseteq history[k]
      BY <1>0 DEF TaskOf, CauseOf, a
    <2>2. work'[k].st = "throw" => a \in history'[k]
      BY <1>5
    <2>3. ASSUME NEW b \in Attempts, artifacts[k][b] # <<>>
          PROVE  \/ b \in history'[k]
                 \/ /\ b = a /\ work'[k].st = "return"
                    /\ IsPrefix(artifacts[k][b], Items(out))
      <3>1. b \in history[k] \/ (b = a /\ IsPrefix(artifacts[k][b], Items(out)))
        BY <1>0, <1>1, <2>3 DEF TaskOf, CauseOf, a, out
      <3> QED
        BY <1>5, <3>1
    <2> QED
      BY <1>0, <1>5, <2>1, <2>2, <2>3 DEF CauseOf
  <1>10. BoxOf(k)'
    <2>1. Begun(k)' = Begun(k)
      BY <1>0, <1>1, <1>5 DEF Begun, a
    <2> QED
      BY <1>0, <1>1, <1>5, <2>1, BoxStays
  <1> QED
    BY <1>0, <1>1, <1>6, <1>7, <1>8, <1>9, <1>10 DEF TaskOf

LEMMA RecordKeeps ==
  ASSUME TypeOK, NEW k \in Keys, TaskOf(k), BoxOf(k), Record(k)
  PROVE  TaskOf(k)' /\ BoxOf(k)'
  <1>0. /\ UNCHANGED <<boxes, lost, artifacts, sbxRuns, history, crashes>>
        /\ work'[k] = Idle /\ work[k] \in Held /\ history[k] \subseteq Attempts
        /\ \/ /\ work[k].st = "return" /\ wf'[k].st = "done"
              /\ wf'[k].attempt = work[k].attempt /\ wf'[k].out = work[k].out
           \/ work[k].st = "throw" /\ work[k].attempt = MaxAttempts /\ wf'[k].st = "error"
    BY TaskTyped DEF Record, mainRest, Known, NoEnd
  <1>1. /\ work'[k].st = "idle" /\ work'[k].attempt = 0 /\ work'[k].box = FALSE
        /\ work[k].box = FALSE /\ work[k].attempt \in Attempts
        /\ work[k].st = "return" => work[k].out \in Outputs
    BY <1>0 DEF Idle, TaskOf, WorkOf, Held
  <1>2. WorkOf(k)'
    BY <1>0, <1>1 DEF WorkOf
  <1>3. RowsOf(k)'
    BY <1>1 DEF RowsOf
  <1>4. EvidenceOf(k)'
    BY <1>0, <1>1 DEF TaskOf, RowsOf, EvidenceOf
  <1>5. CauseOf(k)'
    BY <1>0, <1>1 DEF TaskOf, CauseOf, WorkOf
  <1>6. wf'[k].st = "error" => history[k] = Attempts
    <2> SUFFICES ASSUME wf'[k].st = "error" PROVE history[k] = Attempts
      OBVIOUS
    <2>1. work[k].st = "throw" /\ work[k].attempt = 3
      BY <1>0 DEF MaxAttempts
    <2>2. 3 \in history[k] /\ 1..2 \subseteq history[k]
      BY <2>1 DEF TaskOf, CauseOf
    <2> QED
      BY <1>0, <2>2 DEF Attempts, MaxAttempts
  <1>7. BoxOf(k)'
    BY <1>0, <1>1, TaskTyped DEF BoxOf, Begun, MaxAttempts
  <1> QED
    BY <1>0, <1>2, <1>3, <1>4, <1>5, <1>6, <1>7 DEF TaskOf

LEMMA DequeueKeeps ==
  ASSUME TypeOK, NEW k \in Keys, TaskOf(k), BoxOf(k), Dequeue(k)
  PROVE  TaskOf(k)' /\ BoxOf(k)'
  <1>0. /\ UNCHANGED <<work, boxes, lost, artifacts, sbxRuns, history, crashes>>
        /\ wf[k].st = "queued" /\ wf'[k].st = "running" /\ work[k] \in Held
    BY TaskTyped DEF Dequeue, mainRest, Known
  <1>1. work[k].st = "idle"
    BY <1>0 DEF TaskOf, WorkOf
  <1>2. WorkOf(k)'
    BY <1>0, <1>1 DEF TaskOf, WorkOf
  <1>3. RowsOf(k)' /\ EvidenceOf(k)' /\ CauseOf(k)'
    BY <1>0, <1>1 DEF TaskOf, RowsOf, EvidenceOf, CauseOf
  <1>4. BoxOf(k)'
    <2>1. Begun(k)' = Begun(k)
      BY <1>0, <1>1 DEF Begun
    <2> QED
      BY <1>0, <2>1, BoxStays
  <1> QED
    BY <1>0, <1>2, <1>3, <1>4 DEF TaskOf

\* The death of the worker ends what it held, of every task.
LEMMA CrashKeeps ==
  ASSUME TypeOK, NEW k \in Keys, TaskOf(k), BoxOf(k), Crash
  PROVE  TaskOf(k)' /\ BoxOf(k)'
  <1>0. /\ UNCHANGED <<wf, boxes, lost, artifacts, sbxRuns>> /\ work'[k] = Idle
        /\ history'[k] = IF work[k].st = "idle" THEN history[k]
                         ELSE history[k] \cup {work[k].attempt}
        /\ crashes' = crashes + 1
        /\ work[k] \in Held /\ boxes[k] \in Nat /\ crashes \in Nat
        /\ history[k] \subseteq Attempts
    BY TaskTyped DEF Crash
  <1>1. work'[k].st = "idle" /\ work'[k].attempt = 0 /\ work'[k].box = FALSE
    BY <1>0 DEF Idle
  <1>2. WorkOf(k)'
    BY <1>0, <1>1 DEF TaskOf, WorkOf
  <1>3. RowsOf(k)' /\ EvidenceOf(k)'
    BY <1>0, <1>1 DEF TaskOf, RowsOf, EvidenceOf
  <1>4. CauseOf(k)'
    BY <1>0, <1>1 DEF TaskOf, CauseOf
  <1>5. wf[k].st = "error" => history'[k] = Attempts
    BY <1>0 DEF TaskOf, WorkOf
  <1>6. BoxOf(k)'
    <2>1. Begun(k) <= 3 /\ Begun(k) \in Int
      BY BoxTyped
    <2>2. Begun(k)' >= 0 /\ Begun(k)' \in Int
      BY <1>0, <1>1 DEF Begun, MaxAttempts
    <2>3. boxes[k] <= crashes + lost[k] + (IF work[k].box THEN 1 ELSE 0)
            /\ boxes[k] <= 3 * crashes + Begun(k)
      BY DEF BoxOf, MaxAttempts
    <2>4. boxes[k] <= (crashes + 1) + lost[k] + 0
      BY <2>3, TaskTyped
    <2>5. boxes[k] <= 3 * (crashes + 1) + Begun(k)'
      BY <2>1, <2>2, <2>3, TaskTyped
    <2> QED
      BY <1>0, <1>1, <2>4, <2>5 DEF BoxOf, MaxAttempts
  <1> QED
    BY <1>0, <1>2, <1>3, <1>4, <1>5, <1>6 DEF TaskOf

\* The run's workflow touches a task only to queue it.
LEMMA MainKeeps ==
  ASSUME TypeOK, NEW k \in Keys, TaskOf(k), BoxOf(k),
         BuildTasks \/ StartTask \/ Join \/ SaveReceipt \/ SaveStep
  PROVE  TaskOf(k)' /\ BoxOf(k)'
  <1>1. CASE BuildTasks \/ Join \/ SaveReceipt \/ SaveStep
    <2>1. Untouched(k) /\ UNCHANGED crashes
      BY <1>1 DEF BuildTasks, Join, SaveReceipt, SaveStep, taskVars, Untouched
    <2> QED
      BY <2>1, UntouchedKeeps
  <1>2. CASE StartTask
    <2>0. /\ UNCHANGED <<work, boxes, lost, artifacts, sbxRuns, history, crashes>>
          /\ wf'[k] = wf[k] \/ (wf[k].st = "none" /\ wf'[k].st = "queued")
      BY <1>2, TaskTyped DEF StartTask, Known
    <2>1. CASE wf'[k] = wf[k]
      BY <2>0, <2>1, UntouchedKeeps DEF Untouched
    <2>2. CASE wf[k].st = "none" /\ wf'[k].st = "queued"
      <3>1. WorkOf(k)'
        BY <2>0, <2>2 DEF TaskOf, WorkOf
      <3>2. RowsOf(k)' /\ EvidenceOf(k)' /\ CauseOf(k)'
        BY <2>0, <2>2 DEF TaskOf, RowsOf, EvidenceOf, CauseOf
      <3>3. BoxOf(k)'
        <4>1. Begun(k)' = Begun(k)
          BY <2>0, <2>2 DEF Begun
        <4> QED
          BY <2>0, <4>1, BoxStays
      <3> QED
        BY <2>0, <2>2, <3>1, <3>2, <3>3 DEF TaskOf
    <2> QED
      BY <2>0, <2>1, <2>2
  <1> QED
    BY <1>1, <1>2

TasksInv == \A k \in Keys : TaskOf(k) /\ BoxOf(k)

LEMMA InitTasks == Init => TasksInv
  <1> SUFFICES ASSUME Init, NEW k \in Keys PROVE TaskOf(k) /\ BoxOf(k)
    BY DEF TasksInv
  <1>1. /\ work[k] = Idle /\ wf[k] = NoEnd
        /\ boxes[k] = 0 /\ lost[k] = 0 /\ crashes = 0
        /\ \A a \in Attempts : artifacts[k][a] = <<>> /\ sbxRuns[k][a] = None
    BY DEF Init
  <1>2. /\ work[k].st = "idle" /\ work[k].attempt = 0 /\ work[k].box = FALSE
        /\ wf[k].st = "none"
    BY <1>1 DEF Idle, NoEnd
  <1>3. WorkOf(k)
    BY <1>2 DEF WorkOf
  <1>4. \E o \in Outputs : IsPrefix(<<>>, Items(o))
    <2>1. [code |-> "NONE", mark |-> 1] \in Outputs
      BY DEF Outputs, ErrCodes
    <2>2. PICK o \in Outputs : TRUE
      BY <2>1
    <2>3. Items(o) \in Seq(ItemSet) /\ <<>> \in Seq(ItemSet)
      BY ItemsFacts
    <2>4. Len(<<>>) = 0 /\ Len(Items(o)) \in Nat
      BY <2>3
    <2>5. IsPrefix(<<>>, Items(o))
      <3>1. ASSUME NEW s \in Seq(ItemSet), Len(s) = 0 PROVE IsPrefix(s, Items(o))
        <4>1. Len(s) <= Len(Items(o))
          BY <2>4, <3>1
        <4>2. \A i \in 1..Len(s) : s[i] = Items(o)[i]
          BY <3>1
        <4> QED
          BY <2>3, <4>1, <4>2, PrefixIff
      <3> QED
        BY <2>3, <2>4, <3>1
    <2> QED
      BY <2>5
  <1>5. BoxOf(k)
    BY <1>1, <1>2 DEF BoxOf, Begun, MaxAttempts
  <1> QED
    BY <1>1, <1>2, <1>3, <1>4, <1>5 DEF TaskOf, RowsOf, EvidenceOf, CauseOf

LEMMA NextTasks == TypeOK /\ TasksInv /\ [Next]_vars => TasksInv'
  <1> SUFFICES ASSUME TypeOK, TasksInv, [Next]_vars, NEW k \in Keys
               PROVE  TaskOf(k)' /\ BoxOf(k)'
    BY DEF TasksInv
  <1>0. TaskOf(k) /\ BoxOf(k)
    BY DEF TasksInv
  <1>1. CASE BuildTasks \/ StartTask \/ Join \/ SaveReceipt \/ SaveStep
    BY <1>0, <1>1, MainKeeps
  <1>2. CASE Crash
    BY <1>0, <1>2, CrashKeeps
  <1>3. ASSUME NEW j \in Keys, Dequeue(j) \/ TaskStep(j)
        PROVE  TaskOf(k)' /\ BoxOf(k)'
    <2>1. CASE j # k
      BY <1>0, <1>3, <2>1, StepsAreLocal, UntouchedKeeps
    <2>2. CASE j = k
      BY <1>0, <1>3, <2>2, BeginKeeps, YieldKeeps, KillKeeps, SaveArtifactKeeps,
         SaveSbxRunKeeps, RecordKeeps, DequeueKeeps DEF TaskStep
    <2> QED
      BY <2>1, <2>2
  <1>4. CASE UNCHANGED vars
    <2>1. Untouched(k) /\ UNCHANGED crashes
      BY <1>4 DEF vars, taskVars, Untouched
    <2> QED
      BY <1>0, <2>1, UntouchedKeeps
  <1> QED
    BY <1>1, <1>2, <1>3, <1>4 DEF Next, TaskStep
-----------------------------------------------------------------------------
(* The run's workflow. *)

\* What has ended stays as it ended.
LEMMA DoneStays ==
  ASSUME TypeOK, TasksInv, [Next]_vars, NEW k \in Keys, wf[k].st = "done"
  PROVE  wf'[k] = wf[k] /\ sbxRuns'[k][wf[k].attempt] = sbxRuns[k][wf[k].attempt]
  <1>0. work[k].st = "idle" /\ wf \in [Keys -> Known]
    BY TaskTyped DEF TasksInv, TaskOf, WorkOf
  <1>1. CASE BuildTasks \/ Join \/ SaveReceipt \/ SaveStep \/ Crash \/ UNCHANGED vars
    BY <1>1 DEF BuildTasks, Join, SaveReceipt, SaveStep, Crash, vars, taskVars
  <1>2. CASE StartTask
    BY <1>0, <1>2 DEF StartTask
  <1>3. ASSUME NEW j \in Keys, Dequeue(j) \/ TaskStep(j)
        PROVE  wf'[k] = wf[k] /\ sbxRuns'[k] = sbxRuns[k]
    <2>1. CASE j # k
      BY <1>3, <2>1, StepsAreLocal DEF Untouched
    <2>2. CASE j = k
      <3>1. ~ Dequeue(k) /\ ~ Begin(k) /\ ~ Kill(k) /\ ~ SaveArtifact(k)
            /\ ~ SaveSbxRun(k) /\ ~ Record(k)
        BY <1>0 DEF Dequeue, Begin, Kill, SaveArtifact, SaveSbxRun, Record
      <3>2. ~ (RunMock(k) \/ RunMicro(k) \/ RunCommand(k) \/ Boot(k))
        BY <1>0, ResultFrame
      <3> QED
        BY <1>3, <2>2, <3>1, <3>2 DEF TaskStep
    <2> QED
      BY <2>1, <2>2
  <1> QED
    BY <1>1, <1>2, <1>3 DEF Next, TaskStep

\* So does what the run's workflow makes of its tasks.
LEMMA JoinedStays ==
  ASSUME TypeOK, TasksInv, Joined, [Next]_vars, main'.keys = main.keys
  PROVE  Joined' /\ Ends' = Ends /\ Merged(Ends)' = Merged(Ends)
  <1>1. \A i \in DOMAIN main.keys : main.keys[i] \in Keys
    BY DEF TypeOK
  <1>2. \A i \in DOMAIN main.keys : wf'[main.keys[i]] = wf[main.keys[i]]
    BY <1>1, DoneStays DEF Joined
  <1>3. Ends' = Ends
    BY <1>2 DEF Ends
  <1>4. Merged(Ends)' = Merged(Ends)
    BY <1>3 DEF Merged, FirstError, MaxAttempt
  <1> QED
    BY <1>2, <1>3, <1>4 DEF Joined

\* The keys are those of the plan from the moment the tasks are built.
LEMMA KeysStay ==
  ASSUME TypeOK, [Next]_vars, main.at # "build"
  PROVE  main'.keys = main.keys
  <1> USE DEF runVars, mainVars, mainRest
  <1>0. main \in [at : MainSteps, tests : Plans, keys : Seq(Keys), started : Nat]
    BY DEF TypeOK
  <1>1. CASE StartTask \/ Join \/ SaveReceipt \/ SaveStep \/ Crash \/ BuildTasks
    BY <1>0, <1>1 DEF StartTask, Join, SaveReceipt, SaveStep, Crash, MainTo, BuildTasks
  <1>2. ASSUME NEW k \in Keys, Dequeue(k) \/ TaskStep(k) PROVE main' = main
    BY <1>2, ResultFrame
       DEF TaskStep, Dequeue, Begin, Kill, SaveArtifact, SaveSbxRun, Record
  <1>3. CASE UNCHANGED vars
    BY <1>3 DEF vars
  <1> QED
    BY <1>1, <1>2, <1>3 DEF Next, TaskStep
LEMMA NextMain == TypeOK /\ TasksInv /\ MainInv /\ [Next]_vars => MainInv'
  <1> SUFFICES ASSUME TypeOK, TasksInv, MainInv, [Next]_vars PROVE MainInv'
    OBVIOUS
  <1> USE DEF runVars, mainVars, mainRest
  <1>0. /\ main \in [at : MainSteps, tests : Plans, keys : Seq(Keys), started : Nat]
        /\ Len(main.keys) \in Nat
        /\ Len(main.tests) \in Nat \ {0} /\ main.tests # <<>>
    <2>1. main \in [at : MainSteps, tests : Plans, keys : Seq(Keys), started : Nat]
      BY DEF TypeOK
    <2> QED
      BY <2>1, PlansTyped, PlansAssumption
  <1>j. Joined /\ main'.keys = main.keys =>
          Joined' /\ Ends' = Ends /\ Merged(Ends)' = Merged(Ends)
    BY JoinedStays
  <1>w. WorkInv
    BY DEF TasksInv, TaskOf, WorkInv
  <1>1. CASE BuildTasks
    <2>1. \/ main'.at = "failed"
          \/ main'.at = "start" /\ main'.keys = main.tests /\ main'.started = 0
      BY <1>0, <1>1 DEF BuildTasks, MainTo, MainInv
    <2>2. stepRow'.code = "none"
      BY <1>1 DEF BuildTasks, MainInv
    <2> QED
      BY <1>0, <2>1, <2>2 DEF MainInv
  <1>2. CASE StartTask
    <2>1. /\ main'.started = main.started + 1 /\ main'.keys = main.keys
          /\ main'.at = IF main.started + 1 = Len(main.keys) THEN "join" ELSE "start"
          /\ main.started < Len(main.keys) /\ stepRow'.code = "none"
      BY <1>0, <1>2 DEF StartTask, MainInv
    <2>2. main.started + 1 # Len(main.keys) => main.started + 1 < Len(main.keys)
      BY <1>0, <2>1
    <2>3. main.keys # <<>>
      BY <1>0, <2>1
    <2> QED
      BY <2>1, <2>2, <2>3 DEF MainInv
  <1>3. CASE Join
    <2>1. main'.keys = main.keys /\ stepRow'.code = "none" /\ main.keys # <<>>
      BY <1>0, <1>3, KeysStay DEF Join, MainInv
    <2>2. main'.at = "failed" \/ (main'.at = "receipt" /\ Joined)
      <3>1. CASE \A e \in Range(Ends) : e.st = "done"
        <4>1. \A i \in DOMAIN main.keys : wf[main.keys[i]].st = "done"
          BY <3>1 DEF Range, Ends
        <4>2. main'.at = "failed"
                \/ (main'.at = "receipt" /\ ~ (Merged(Ends).attempt - 1 > MaxRetries))
          BY <1>0, <1>3, <3>1 DEF Join, MainTo
        <4>3. ASSUME Merged(Ends).attempt <= MaxRetries + 1 PROVE Joined
          BY <2>1, <4>1, <4>3 DEF Joined
        <4>4. Merged(Ends).attempt \in Int
          <5>1. \A e \in Range(Ends) : e.attempt \in 0..MaxAttempts
            <6>1. \A i \in DOMAIN main.keys : Ends[i].attempt \in 0..MaxAttempts
              BY <1>0 DEF Ends, TypeOK
            <6> QED
              BY <6>1 DEF Range, Ends
          <5>2. {e.attempt : e \in Range(Ends)} # {}
            <6>1. 1 \in DOMAIN main.keys
              BY <1>0, <2>1
            <6>2. Ends[1] \in Range(Ends)
              BY <6>1 DEF Range, Ends
            <6> QED
              BY <6>2
          <5>3. MaxAttempt(Ends) \in 0..MaxAttempts
            BY <5>1, <5>2, MaxIsGreatest DEF MaxAttempt
          <5> QED
            BY <5>3 DEF Merged, MaxAttempts
        <4>5. MaxRetries \in Nat
          BY LimitsAssumption
        <4> QED
          BY <4>2, <4>3, <4>4, <4>5
      <3>2. CASE \E e \in Range(Ends) : e.st = "error"
        BY <1>0, <1>3, <3>2 DEF Join, MainTo
      <3> QED
        BY <1>3, <3>1, <3>2 DEF Join
    <2>3. Joined => Joined'
      BY <2>1, <1>j
    <2> QED
      BY <2>1, <2>2, <2>3 DEF MainInv
  <1>4. CASE SaveReceipt
    <2>1. /\ main'.keys = main.keys /\ stepRow'.code = "none" /\ Joined
          /\ main'.at \in {"failed", "row"}
      BY <1>0, <1>4, KeysStay DEF SaveReceipt, MainInv, MainTo
    <2> QED
      BY <2>1, <1>j DEF MainInv
  <1>5. CASE SaveStep
    <2>1. /\ main'.keys = main.keys /\ stepRow' = Merged(Ends) /\ Joined
          /\ main'.at \in {"failed", "done"}
      BY <1>0, <1>5, KeysStay DEF SaveStep, MainInv, MainTo
    <2> QED
      BY <2>1, <1>j DEF MainInv
  <1>6. CASE Crash
    <2>1. /\ main'.keys = main.keys /\ stepRow' = stepRow /\ main'.started = main.started
          /\ main'.at = IF main.at = "row" THEN "receipt" ELSE main.at
      BY <1>0, <1>6 DEF Crash
    <2>2. main'.at \in {"build", "start", "join"} => main'.at = main.at
      BY <2>1
    <2>3. main'.at \in {"receipt", "row", "done"} => main.at \in {"receipt", "row", "done"}
      BY <2>1
    <2>4. main.at \in {"done", "failed"} => main'.at = main.at
      BY <2>1
    <2> QED
      BY <2>1, <2>2, <2>3, <2>4, <1>j DEF MainInv
  <1>7. CASE UNCHANGED <<main, stepRow>>
    BY <1>7, <1>j DEF MainInv
  <1>8. ASSUME NEW k \in Keys, Dequeue(k) \/ TaskStep(k) PROVE UNCHANGED <<main, stepRow>>
    BY <1>8, ResultFrame
       DEF TaskStep, Dequeue, Begin, Kill, SaveArtifact, SaveSbxRun, Record
  <1>9. CASE UNCHANGED vars
    BY <1>7, <1>9 DEF vars
  <1> QED
    BY <1>1, <1>2, <1>3, <1>4, <1>5, <1>6, <1>7, <1>8, <1>9 DEF Next, TaskStep

\* The row of the run's step follows from the tasks' evidence.
LEMMA RowFollows == TypeOK /\ TasksInv /\ MainInv => ExecutedIsEvidenced
  <1> SUFFICES ASSUME TypeOK, TasksInv, MainInv, stepRow.code # "none"
               PROVE  /\ \A k \in Range(main.keys) : wf[k].st = "done"
                      /\ stepRow.code = "NONE" <=>
                           \A k \in Range(main.keys) : sbxRuns[k][wf[k].attempt].code = "NONE"
                      /\ \E k \in Range(main.keys) : stepRow.attempt = wf[k].attempt
                      /\ stepRow.attempt <= MaxRetries + 1
    BY DEF ExecutedIsEvidenced
  <1>0. WorkInv
    BY DEF TasksInv, TaskOf, WorkInv
  <1>1. Joined /\ stepRow = Merged(Ends)
    BY DEF MainInv
  <1>2. \A k \in Range(main.keys) : wf[k].st = "done"
    BY <1>1 DEF Joined, Range
  <1>3. Range(main.keys) \subseteq Keys
    BY DEF TypeOK, Range
  <1>4. \A k \in Range(main.keys) : sbxRuns[k][wf[k].attempt] = wf[k].out
    BY <1>2, <1>3 DEF TasksInv, TaskOf, EvidenceOf
  <1>5. stepRow.code = "NONE" <=> \A k \in Range(main.keys) : wf[k].out.code = "NONE"
    BY <1>0, <1>1, MergedTyped DEF Range
  <1>6. \E k \in Range(main.keys) : stepRow.attempt = wf[k].attempt
    BY <1>0, <1>1, MergedTyped DEF Range
  <1>7. stepRow.attempt <= MaxRetries + 1
    BY <1>1 DEF Joined
  <1> QED
    BY <1>2, <1>4, <1>5, <1>6, <1>7

Inv == TypeOK /\ TasksInv /\ MainInv

LEMMA Invariant == Spec => []Inv
  <1>1. Init => Inv
    <2>1. Init => MainInv
      BY DEF Init, MainInv
    <2> QED
      BY <2>1, InitTyped, InitTasks DEF Inv
  <1>2. Inv /\ [Next]_vars => Inv'
    <2> SUFFICES ASSUME Inv, [Next]_vars PROVE Inv'
      OBVIOUS
    <2>1. TypeOK /\ WorkInv /\ MainInv /\ TasksInv
      BY DEF Inv, TasksInv, TaskOf, WorkInv
    <2> QED
      BY <2>1, NextTyped, NextTasks, NextMain DEF Inv
  <1> QED
    BY <1>1, <1>2, PTL DEF Spec

\* No attempt leaves or keeps evidence that is not one execution's, and what a
\* task workflow returned is what its attempt's row says
\* (SaveArtifactsStepImpl.execute, insertArtifact, insertSbxRun).
THEOREM Evidence == Spec => []EvidenceInv
  <1>1. Inv => EvidenceInv
    BY DEF Inv, TasksInv, TaskOf, EvidenceInv
  <1> QED
    BY <1>1, Invariant, PTL

\* Tasks fail only of failures, and the run's step row says of its tasks what
\* they left evidence of (executeTask, mergeResults, saveExecuteStep).
THEOREM EvidenceRules == Spec => []EvidenceDecides
  <1>1. Inv => EvidenceDecides
    <2>1. Inv => FailedForCause
      BY DEF Inv, TasksInv, TaskOf, FailedForCause
    <2> QED
      BY <2>1, RowFollows DEF Inv, EvidenceDecides
  <1> QED
    BY <1>1, Invariant, PTL

\* A sandbox that is there and not in use was left by a kill that failed or by a
\* death of the worker, and there are at most three of a task for each life of
\* the worker (the finally of E2BProvider.run, maxAttempts of executeTask).
THEOREM Released == Spec => []SandboxesReleased
  <1>1. Inv => SandboxesReleased
    <2> SUFFICES ASSUME Inv, NEW k \in Keys
                 PROVE  /\ boxes[k] <= crashes + lost[k] + (IF work[k].box THEN 1 ELSE 0)
                        /\ boxes[k] <= MaxAttempts * (crashes + 1)
      BY DEF SandboxesReleased
    <2>1. TypeOK /\ BoxOf(k)
      BY DEF Inv, TasksInv
    <2>2. Begun(k) <= 3 /\ Begun(k) \in Int
      BY <2>1, BoxTyped
    <2>3. boxes[k] <= 3 * crashes + Begun(k)
      BY <2>1 DEF BoxOf, MaxAttempts
    <2>4. boxes[k] <= 3 * (crashes + 1)
      BY <2>1, <2>2, <2>3, TaskTyped
    <2> QED
      BY <2>1, <2>4 DEF BoxOf, MaxAttempts
  <1> QED
    BY <1>1, Invariant, PTL

\* What a task workflow returned and the row it rests on never change: a step
\* executed again cannot revise them (insertSbxRun's ON CONFLICT DO NOTHING).
THEOREM DoneIsDone ==
  Spec => [][\A k \in Keys : wf[k].st = "done" =>
               /\ wf'[k] = wf[k]
               /\ sbxRuns'[k][wf[k].attempt] = sbxRuns[k][wf[k].attempt]]_vars
  <1> DEFINE P == \A k \in Keys : wf[k].st = "done" =>
                    /\ wf'[k] = wf[k]
                    /\ sbxRuns'[k][wf[k].attempt] = sbxRuns[k][wf[k].attempt]
  <1>1. Inv /\ [Next]_vars => [P]_vars
    BY DoneStays DEF Inv
  <1> QED
    BY <1>1, Invariant, PTL DEF Spec
=============================================================================
