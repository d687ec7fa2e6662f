------------------------------ MODULE OcCalls ------------------------------
(***************************************************************************)
(* The two steps of a run that ask the OpenCode provider, CompileST and    *)
(* DecideST (src/workflow/steps/compile.step.ts, decide.step.ts), and the  *)
(* OCWrapper they ask through (src/oc/wrapper.ts): sessions in memory, a   *)
(* cache in memory, the ledger app.opencode_calls, a stall detector with   *)
(* one retry, and the fixture that stands in for the provider.             *)
(*                                                                         *)
(* The provider need not answer, and what it answers differs from call to  *)
(* call.  What it answered is to be asked once: a step executed again,     *)
(* after a crash or by the repair workflow, has the same operation key and *)
(* finds the answer, or the error, in the ledger.                          *)
(***************************************************************************)
EXTENDS Naturals

CONSTANTS
  Modes,          \* "replay": producers answer; "live": the provider, else the
                  \* producer; "strict": the provider or nothing
  Texts,          \* answers that can be told apart
  MessageBudget,  \* of a session (20)
  MaxCrashes, MaxRepairs  \* bounds

ASSUME BudgetAssumption == MessageBudget \in Nat \ {0}
ASSUME BoundsAssumption == MaxCrashes \in Nat /\ MaxRepairs \in Nat

VARIABLES
  mode,
  pc, step,  \* where the executor is, and in which step
  try,       \* the prompt that is waited for: 1, or 2 after a stall
  quiet,     \* no activity for ocTimeoutMs
  late,      \* the first prompt was given up and is not answered yet
  out,       \* the answer or the error in hand
  cache,     \* OCWrapperCache
  sid, used, \* the run's entry of SessionStore: whose session, messages
  beat,      \* steps with a heartbeat artifact on its way
  ledger,    \* app.opencode_calls
  card,      \* the artifact with what a step produced, at index 0
  slot,      \* the artifact at index 999
  row,       \* app.run_steps
  done,      \* what DBOS recorded of a step
  crashes, repairs,
  lost, why  \* for the properties: rows the ledger missed; why the run failed

callVars == <<try, quiet, late, out>>
memVars == <<cache, sid, used>>
dataVars == <<ledger, card, slot, row, done>>
countVars == <<crashes, repairs, lost, why>>
ocVars == <<mode, pc, step, callVars, memVars, beat, dataVars, countVars>>
-----------------------------------------------------------------------------
Steps == {"CompileST", "DecideST"}

\* text "bad" does not fit the step's contract; files says whether there is
\* anything to keep as an artifact (a plan card always, patches perhaps).
Outputs == [from : {"sdk", "producer"}, text : Texts \cup {"bad"},
            denied : BOOLEAN, files : BOOLEAN]
NoOutput == [from |-> "none", text |-> "none", denied |-> FALSE, files |-> FALSE]
Error == [from |-> "error", text |-> "none", denied |-> FALSE, files |-> FALSE]

\* The producers of the two steps: an empty plan, an empty patch.
Produced(s) == [from |-> "producer", text |-> "empty", denied |-> FALSE,
                files |-> s = "CompileST"]
Answers(s) == {o \in Outputs : o.from = "sdk" /\ (s = "CompileST" => o.files)}

\* Whatever a call can come to, or a table hold of it.
Outcomes == Outputs \cup {NoOutput, Error} \cup {Produced(s) : s \in Steps}

Live == mode \in {"live", "strict"}

Positions == {"idle", "session", "log", "lookup", "wait", "revert", "ledger", "check",
              "use", "slot", "none", "row", "record", "failed"}

OcTypeOK ==
  /\ mode \in Modes /\ pc \in Positions /\ step \in Steps
  /\ try \in {1, 2} /\ quiet \in BOOLEAN /\ late \in BOOLEAN /\ out \in Outcomes
  /\ sid \in {"none", "provider", "fixture"} /\ used \in 0..MessageBudget
  /\ beat \subseteq Steps
  /\ slot \in [Steps -> {"free", "heartbeat", "none"}]
  /\ cache \in [Steps -> Outcomes] /\ ledger \in [Steps -> Outcomes]
  /\ card \in [Steps -> Outcomes] /\ row \in [Steps -> Outcomes]
  /\ done \in [Steps -> Outcomes]
  /\ crashes \in Nat /\ repairs \in Nat /\ lost \subseteq Steps
  /\ why \in {"none", "provider", "denied", "contract", "diverged", "slot"}

OcInit ==
  /\ mode \in Modes
  /\ pc = "idle" /\ step = "CompileST"
  /\ try = 1 /\ quiet = FALSE /\ late = FALSE /\ out = NoOutput
  /\ cache = [s \in Steps |-> NoOutput] /\ sid = "none" /\ used = 0
  /\ beat = {}
  /\ ledger = [s \in Steps |-> NoOutput] /\ card = [s \in Steps |-> NoOutput]
  /\ row = [s \in Steps |-> NoOutput] /\ done = [s \in Steps |-> NoOutput]
  /\ slot = [s \in Steps |-> "free"]
  /\ crashes = 0 /\ repairs = 0 /\ lost = {} /\ why = "none"
-----------------------------------------------------------------------------
Goto(p) == pc' = p /\ UNCHANGED why
Fail(reason) == pc' = "failed" /\ why' = reason

\* The workflow comes to a step that is not recorded.
Begin ==
  /\ pc = "idle" /\ done[step] = NoOutput
  /\ Goto("session")
  /\ UNCHANGED <<mode, step, callVars, memVars, beat, dataVars, crashes, repairs, lost>>

\* rethrowIfStrictLive: an error of the provider ends the operation in strict
\* mode and makes way for the fixture in live mode.
Unavailable(fallback) ==
  \/ mode = "strict" /\ Fail("provider")
  \/ mode = "live" /\ Goto(fallback)

\* OCWrapper.createSession, through SessionStore.
CreateSession ==
  LET next == IF step = "CompileST" THEN "log" ELSE "lookup" IN
  /\ pc = "session"
  /\ \/ sid # "none" /\ Goto(next) /\ UNCHANGED <<sid, used>>
     \/ sid = "none" /\ Live /\ Goto(next) /\ sid' = "provider" /\ used' = 0
     \/ sid = "none" /\ ~Live /\ Goto(next) /\ sid' = "fixture" /\ used' = 0
     \/ /\ sid = "none" /\ Live /\ Unavailable(next)
        /\ sid' = IF mode = "live" THEN "fixture" ELSE "none"
        /\ used' = 0
  /\ UNCHANGED <<mode, step, callVars, cache, beat, dataVars, crashes, repairs, lost>>

\* OCWrapper.log, which only CompileST calls.
Log ==
  /\ pc = "log"
  /\ Goto("lookup") \/ (Live /\ Unavailable("lookup"))
  /\ UNCHANGED <<mode, step, callVars, memVars, beat, dataVars, crashes, repairs, lost>>

\* Mutant: the ledger is not read.
AskAgain ==
  /\ pc = "lookup" /\ Goto("wait")
  /\ try' = 1 /\ quiet' = FALSE /\ late' = FALSE /\ out' = NoOutput
  /\ UNCHANGED <<mode, step, memVars, beat, dataVars, crashes, repairs, lost>>

\* promptStructured before the call: the cache, the ledger, and StallDetector's
\* start.  What is found is returned as it is.
Lookup ==
  LET found == IF cache[step] # NoOutput THEN cache[step] ELSE ledger[step] IN
  /\ pc = "lookup"
  /\ IF found # NoOutput
       THEN /\ out' = found /\ cache' = [cache EXCEPT ![step] = found]
            /\ Goto("use") /\ UNCHANGED <<try, quiet, late>>
       ELSE /\ try' = 1 /\ quiet' = FALSE /\ late' = FALSE /\ out' = NoOutput
            /\ Goto("wait") /\ UNCHANGED cache
  /\ UNCHANGED <<mode, step, sid, used, beat, dataVars, crashes, repairs, lost>>

\* The call is over, one way or the other; detector.stop.
Over(o) ==
  out' = o /\ late' = FALSE /\ quiet' = FALSE /\ try' = 1 /\ Goto("ledger")

\* executePrompt, when the provider is not asked: the fixture's producer.
Produce ==
  /\ pc = "wait" /\ ~Live
  /\ Over(Produced(step))
  /\ UNCHANGED <<mode, step, memVars, beat, dataVars, crashes, repairs, lost>>

\* OCSDKAdapter.promptStructured returns for the prompt that is waited for.
Answer ==
  /\ pc = "wait" /\ Live
  /\ \E o \in Answers(step) : Over(o)
  /\ UNCHANGED <<mode, step, memVars, beat, dataVars, crashes, repairs, lost>>

\* It throws: an HTTP error, no structured output, a malformed reply.
Refuse ==
  /\ pc = "wait" /\ Live
  /\ Over(IF mode = "strict" THEN Error ELSE Produced(step))
  /\ UNCHANGED <<mode, step, memVars, beat, dataVars, crashes, repairs, lost>>

\* ocTimeoutMs pass without an answer.
GrowQuiet ==
  /\ pc \in {"wait", "revert"} /\ Live /\ ~quiet
  /\ quiet' = TRUE
  /\ UNCHANGED <<mode, pc, step, try, late, out, memVars, beat, dataVars, countVars>>

\* Mutant: every stall is answered with another prompt.
StallRetries ==
  /\ pc = "wait" /\ quiet
  /\ late' = TRUE /\ Goto("revert") /\ UNCHANGED <<try, quiet, out>>
  /\ UNCHANGED <<mode, step, memVars, beat, dataVars, crashes, repairs, lost>>

\* StallDetector.race and runWithTimeoutPolicy: one retry, then the end.
Stall ==
  /\ pc = "wait" /\ quiet
  /\ \/ try = 2 /\ Over(Error)
     \/ try = 1 /\ late' = TRUE /\ Goto("revert") /\ UNCHANGED <<try, quiet, out>>
  /\ UNCHANGED <<mode, step, memVars, beat, dataVars, crashes, repairs, lost>>

\* onRetry: revert the session, then prompt again, tightened.  The activity
\* of the detector stays as old as it was.
Revert ==
  /\ pc = "revert"
  /\ \/ try' = 2 /\ Goto("wait") /\ UNCHANGED <<quiet, late, out>>
     \/ mode = "strict" /\ Over(Error)
  /\ UNCHANGED <<mode, step, memVars, beat, dataVars, crashes, repairs, lost>>

\* The prompt given up is answered after all: a heartbeat, and its answer is
\* dropped.
AnswerLate ==
  /\ late /\ pc \in {"wait", "revert"}
  /\ late' = FALSE /\ quiet' \in {FALSE, quiet}
  /\ UNCHANGED <<mode, pc, step, try, out, memVars, beat, dataVars, countVars>>

\* The detector's interval fires; its insert is not awaited.
Beat ==
  /\ pc \in {"wait", "revert"} /\ Live /\ slot[step] = "free"
  /\ beat' = beat \cup {step}
  /\ UNCHANGED <<mode, pc, step, callVars, memVars, dataVars, countVars>>

BeatLands(s) ==
  /\ s \in beat
  /\ beat' = beat \ {s}
  /\ slot' = [slot EXCEPT ![s] = IF @ = "free" THEN "heartbeat" ELSE @]
  /\ UNCHANGED <<mode, pc, step, callVars, memVars, ledger, card, row, done, countVars>>
-----------------------------------------------------------------------------
\* insertOpencodeCall in the finally, whose own failure is only logged.
SaveCall ==
  /\ pc = "ledger"
  /\ \/ /\ ledger' = IF ledger[step] # NoOutput THEN ledger
                     ELSE [ledger EXCEPT ![step] = out]
        /\ UNCHANGED lost
     \/ lost' = lost \cup {step} /\ UNCHANGED ledger
  /\ IF out = Error THEN Fail("provider") ELSE Goto("check")
  /\ UNCHANGED <<mode, step, callVars, memVars, beat, card, slot, row, done,
                 crashes, repairs>>

\* Mutant: the budget may be exceeded before the session is dropped.
RotatePast(n) == n > MessageBudget
\* SessionRotationPolicy.shouldRotate
ShouldRotate(n) == n >= MessageBudget

\* assertToolAllowlist, the cache, and the rotation of the session.
Check ==
  /\ pc = "check"
  /\ IF out.denied
       THEN Fail("denied") /\ UNCHANGED memVars
       ELSE /\ cache' = [cache EXCEPT ![step] = out]
            /\ IF ShouldRotate(used + 1)
                 THEN sid' = "none" /\ used' = 0
                 ELSE used' = used + 1 /\ UNCHANGED sid
            /\ Goto("use")
  /\ UNCHANGED <<mode, step, callVars, beat, dataVars, crashes, repairs, lost>>

\* CompileStepImpl and DecideStepImpl: the contract, then the artifacts.
Use ==
  /\ pc = "use"
  /\ \/ (out = Error \/ out.text = "bad") /\ Fail("contract") /\ UNCHANGED card
     \/ /\ out # Error /\ out.text # "bad"
        /\ IF out.files /\ card[step] \notin {NoOutput, out}
             THEN Fail("diverged") /\ UNCHANGED card
             ELSE /\ card' = IF out.files THEN [card EXCEPT ![step] = out] ELSE card
                  /\ Goto("slot")
  /\ UNCHANGED <<mode, step, callVars, memVars, beat, ledger, slot, row, done,
                 crashes, repairs, lost>>

\* runTrackedStep: a step without artifacts gets one that says so.
CheckSlot ==
  /\ pc = "slot"
  /\ Goto(IF card[step] = NoOutput /\ slot[step] = "free" THEN "none" ELSE "row")
  /\ UNCHANGED <<mode, step, callVars, memVars, beat, dataVars, crashes, repairs, lost>>

FillSlot ==
  /\ pc = "none"
  /\ IF slot[step] = "heartbeat"
       THEN Fail("slot") /\ UNCHANGED slot
       ELSE slot' = [slot EXCEPT ![step] = "none"] /\ Goto("row")
  /\ UNCHANGED <<mode, step, callVars, memVars, beat, ledger, card, row, done,
                 crashes, repairs, lost>>

\* insertRunStep.
SaveRow ==
  /\ pc = "row"
  /\ IF row[step] \notin {NoOutput, out}
       THEN Fail("diverged") /\ UNCHANGED row
       ELSE row' = [row EXCEPT ![step] = out] /\ Goto("record")
  /\ UNCHANGED <<mode, step, callVars, memVars, beat, ledger, card, slot, done,
                 crashes, repairs, lost>>

\* DBOS records the step, and the workflow goes on to the next one.
Record ==
  /\ pc = "record"
  /\ done' = [done EXCEPT ![step] = out]
  /\ step' = "DecideST" /\ Goto("idle") /\ out' = NoOutput
  /\ UNCHANGED <<mode, try, quiet, late, memVars, beat, ledger, card, slot, row,
                 crashes, repairs, lost>>
-----------------------------------------------------------------------------
\* The worker dies; the workflow is recovered and executes the step again.
Crash ==
  /\ crashes < MaxCrashes /\ pc \notin {"idle", "failed"}
  /\ crashes' = crashes + 1
  /\ Goto("idle")
  /\ cache' = [s \in Steps |-> NoOutput] /\ sid' = "none" /\ used' = 0
  /\ beat' = {} /\ late' = FALSE /\ quiet' = FALSE /\ try' = 1 /\ out' = NoOutput
  /\ UNCHANGED <<mode, step, dataVars, repairs, lost>>

\* repairRunWorkflow: steps that have a row are taken from it, the others are
\* executed again, by the same process and as attempt 1.
Repair ==
  /\ pc = "failed" /\ repairs < MaxRepairs
  /\ repairs' = repairs + 1
  /\ pc' = "idle" /\ why' = "none" /\ out' = NoOutput
  /\ done' = row
  /\ step' = IF row["CompileST"] = NoOutput THEN "CompileST" ELSE "DecideST"
  /\ UNCHANGED <<mode, try, quiet, late, memVars, beat, ledger, card, slot, row,
                 crashes, lost>>

Call ==
  \/ CreateSession \/ Log \/ Lookup \/ Produce \/ Stall \/ Revert
  \/ SaveCall \/ Check \/ Use \/ CheckSlot \/ FillSlot \/ SaveRow \/ Record

OcNext ==
  \/ Begin \/ CreateSession \/ Log \/ Lookup \/ Produce \/ Answer \/ Refuse
  \/ GrowQuiet \/ Stall \/ Revert \/ AnswerLate \/ Beat
  \/ (\E s \in Steps : BeatLands(s))
  \/ SaveCall \/ Check \/ Use \/ CheckSlot \/ FillSlot \/ SaveRow \/ Record
  \/ Crash \/ Repair

\* The process runs and its timers fire.  The provider need not answer a
\* prompt; that it answers or refuses the short requests (session, log, revert)
\* is assumed, for nothing limits them.
OcSpec == OcInit /\ [][OcNext]_ocVars /\ WF_ocVars(Call) /\ WF_ocVars(GrowQuiet)
-----------------------------------------------------------------------------
(* Correctness. *)

\* What a step is recorded to have produced is what the ledger says the
\* provider answered, and what its artifact shows, through crashes and repairs,
\* as long as the ledger did not miss the row (insertOpencodeCall's catch).
RecordedIsLedgered ==
  \A s \in Steps :
    done[s] # NoOutput /\ s \notin lost =>
      /\ done[s] = ledger[s]
      /\ done[s].files => card[s] = done[s]

\* A step is refused for differing from what an earlier execution of it left
\* only if the ledger missed a row: executing a step again does not ask again.
DivergesOnlyUnledgered == why = "diverged" => step \in lost

\* Why: nothing is asked for while the ledger has an answer, everything that
\* is kept of a step is what the ledger has or missed, and the answer in hand
\* is one of the two.  With OcTypeOK this is inductive.
LedgerInv ==
  /\ pc # "failed" => why = "none"
  /\ \A s \in Steps : \A kept \in {cache[s], card[s], row[s], done[s]} :
       kept # NoOutput /\ s \notin lost => kept = ledger[s]
  /\ \A s \in Steps : \A kept \in {row[s], done[s]} : kept.files => card[s] = kept
  /\ pc \in {"wait", "revert", "ledger"} => ledger[step] = NoOutput
  /\ pc = "ledger" => out # NoOutput
  /\ pc \in {"check", "use", "slot", "none", "row", "record"} =>
       out # NoOutput /\ (step \notin lost => out = ledger[step])
  /\ pc \in {"slot", "none", "row", "record"} /\ out.files => card[step] = out
  /\ DivergesOnlyUnledgered

\* The ledger decides what a step produces.
LedgerDecides == OcTypeOK /\ LedgerInv /\ RecordedIsLedgered

\* Every call comes to an end although the provider never answers.
CallEnds == (pc = "lookup") ~> (pc \in {"use", "check", "failed", "idle"})
=============================================================================
