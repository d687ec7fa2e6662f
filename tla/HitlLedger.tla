------------------------------ MODULE HitlLedger ------------------------------
(***************************************************************************)
(* The way of a human's answer into the mailbox of a waiting workflow:     *)
(* postReplyService and postExternalEventService (src/server/ui-api.ts),   *)
(* the approval that is forwarded on another way, and below them the       *)
(* ledger app.human_interactions (src/db/humanGateRepo.ts), which every    *)
(* answer passes statement by statement, most of them twice: once in the   *)
(* service and once more in sendMessage of the engine.                     *)
(*                                                                         *)
(* Requests of any number of servers interleave between statements; the    *)
(* servers may die at any point, and a client that heard nothing may ask   *)
(* again with the same deduplication key.  IntentRun has the workflow's    *)
(* side in detail; here it opens its gates one after the other, and each   *)
(* takes the first message of its topic or times out.                      *)
(***************************************************************************)
EXTENDS Naturals, Sequences, SequencesExt

CONSTANTS
  Gates,      \* gate keys of the run, opened in some order
  Keys,       \* deduplication keys clients choose
  Payloads,   \* hashes of payloads
  Offers,     \* what clients may send: records of Messages
  LegacyKey,  \* buildLegacyHitlDedupeKey: a gate's key of a forwarded approval
  Approval,   \* the payload of such an approval
  PlanGate,   \* the gate key of the plan approval
  Requests    \* HTTP requests, retries included

\* "human" is the gate's topic human:<gate>; "sys" any other topic.
Messages == [gate : Gates, lane : {"human", "sys"}, key : Keys, payload : Payloads]

ASSUME OffersAssumption == Offers \subseteq Messages
ASSUME LegacyAssumption == /\ LegacyKey \in [Gates -> Keys]
                            /\ Approval \in Payloads /\ PlanGate \in Gates

VARIABLES
  opened,   \* app.human_gates, in the order of created_at
  waiting,  \* the run's status is waiting_input
  taken,    \* what the workflow's recv returned for a gate
  ledger,   \* app.human_interactions, in the order of created_at
  sent,     \* messages DBOS delivered to the workflow, in order
  req       \* the requests: position, pass through the ledger, message

runVars == <<opened, waiting, taken>>
vars == <<runVars, ledger, sent, req>>
-----------------------------------------------------------------------------
None == [gate |-> "none"]
TimedOut == [gate |-> "timeout"]

Positions == {"idle", "select", "insert", "reselect", "send", "ok", "refused", "lost"}
InFlight == {"select", "insert", "reselect", "send"}

TypeOK ==
  /\ opened \in Seq(Gates) /\ waiting \in BOOLEAN
  /\ taken \in [Gates -> Messages \cup {None, TimedOut}]
  /\ ledger \in Seq(Messages) /\ sent \in Seq(Messages)
  /\ req \in [Requests -> [at : Positions, pass : {1, 2}, msg : Messages \cup {None}]]

Init ==
  /\ opened = <<>> /\ waiting = FALSE /\ taken = [g \in Gates |-> None]
  /\ ledger = <<>> /\ sent = <<>>
  /\ req = [q \in Requests |-> [at |-> "idle", pass |-> 1, msg |-> None]]
-----------------------------------------------------------------------------
(* The workflow. *)

OpenGate ==
  /\ ~waiting /\ waiting' = TRUE
  /\ \E g \in Gates \ ToSet(opened) : opened' = Append(opened, g)
  /\ UNCHANGED <<taken, ledger, sent, req>>

LatestGate == opened[Len(opened)]

\* The message of an approval that is forwarded to a gate.
Forwarded(g) == [gate |-> g, lane |-> "human", key |-> LegacyKey[g], payload |-> Approval]

OnTopic(m, g) == m.gate = g /\ m.lane = "human"

\* The position of the gate's first message, if there is one.
FirstOn(g, a) ==
  OnTopic(sent[a], g) /\ \A b \in 1..a - 1 : ~OnTopic(sent[b], g)

\* recv takes the first message of the topic, or gives up waiting for one.
TakeAnswer ==
  /\ waiting /\ waiting' = FALSE
  /\ \/ \E a \in 1..Len(sent) :
          FirstOn(LatestGate, a) /\ taken' = [taken EXCEPT ![LatestGate] = sent[a]]
     \/ /\ \A m \in ToSet(sent) : ~OnTopic(m, LatestGate)
        /\ taken' = [taken EXCEPT ![LatestGate] = TimedOut]
  /\ UNCHANGED <<opened, ledger, sent, req>>
-----------------------------------------------------------------------------
(* A request: its checks, the ledger, the message. *)

Move(q, at) == req' = [req EXCEPT ![q].at = at]

\* The service's own checks: a gate that exists and a run that waits.
Admit(q) ==
  /\ req[q].at = "idle" /\ waiting
  /\ \E m \in Offers :
       /\ m.gate \in ToSet(opened)
       /\ req' = [req EXCEPT ![q] = [at |-> "select", pass |-> 1, msg |-> m]]
  /\ UNCHANGED <<runVars, ledger, sent>>

\* forwardPlanApprovalSignalService: to the latest gate, waiting or not, or to
\* the gate there will be, and through the engine's pass of the ledger only.
Forward(q) ==
  /\ req[q].at = "idle"
  /\ LET g == IF opened = <<>> THEN PlanGate ELSE LatestGate IN
       req' = [req EXCEPT ![q] = [at |-> "select", pass |-> 2, msg |-> Forwarded(g)]]
  /\ UNCHANGED <<runVars, ledger, sent>>

SameKey(m, n) == m.gate = n.gate /\ m.key = n.key
SameRow(m, n) == SameKey(m, n) /\ m.lane = n.lane

\* The position of the latest row with the gate and key of a message.
LatestRow(m, a) ==
  SameKey(m, ledger[a]) /\ \A b \in a + 1..Len(ledger) : ~SameKey(m, ledger[b])

\* Mutant: a row with the key is a replay, whatever it says.
SelectReplay(q) ==
  /\ req[q].at = "select"
  /\ Move(q, IF \E n \in ToSet(ledger) : SameKey(req[q].msg, n) THEN "send" ELSE "insert")
  /\ UNCHANGED <<runVars, ledger, sent>>

\* The drift check: the latest row with gate and key, if any, is the same answer.
SelectDrift(q) ==
  /\ req[q].at = "select"
  /\ LET m == req[q].msg IN
     \/ /\ \A n \in ToSet(ledger) : ~SameKey(m, n)
        /\ Move(q, "insert")
     \/ \E a \in 1..Len(ledger) :
          LatestRow(m, a) /\ Move(q, IF ledger[a] = m THEN "insert" ELSE "refused")
  /\ UNCHANGED <<runVars, ledger, sent>>

\* A passed row goes on to the engine, whose pass only a human topic has.
Passed(q) ==
  req' = [req EXCEPT ![q] =
            IF @.pass = 1 /\ @.msg.lane = "human" THEN [@ EXCEPT !.at = "select", !.pass = 2]
                                                  ELSE [@ EXCEPT !.at = "send"]]

\* Mutant: the payload is part of the unique key.
InsertByPayload(q) ==
  /\ req[q].at = "insert"
  /\ LET m == req[q].msg IN
     \/ /\ \A n \in ToSet(ledger) : n # m
        /\ ledger' = Append(ledger, m) /\ Passed(q)
     \/ /\ m \in ToSet(ledger)
        /\ Move(q, "reselect") /\ UNCHANGED ledger
  /\ UNCHANGED <<runVars, sent>>

\* INSERT ... ON CONFLICT (workflow_id, gate_key, topic, dedupe_key) DO NOTHING.
Insert(q) ==
  /\ req[q].at = "insert"
  /\ LET m == req[q].msg IN
     \/ /\ \A n \in ToSet(ledger) : ~SameRow(m, n)
        /\ ledger' = Append(ledger, m) /\ Passed(q)
     \/ /\ \E n \in ToSet(ledger) : SameRow(m, n)
        /\ Move(q, "reselect") /\ UNCHANGED ledger
  /\ UNCHANGED <<runVars, sent>>

\* Mutants: whoever won the insert, the request goes on; and a row that is
\* there already is refused.
ReselectUnchecked(q) ==
  /\ req[q].at = "reselect" /\ Passed(q)
  /\ UNCHANGED <<runVars, ledger, sent>>
ReselectRefuses(q) ==
  /\ req[q].at = "reselect" /\ Move(q, "refused")
  /\ UNCHANGED <<runVars, ledger, sent>>

\* The row that was in the way: the same answer again, or another one.
Reselect(q) ==
  /\ req[q].at = "reselect"
  /\ LET m == req[q].msg IN
     \/ m \in ToSet(ledger) /\ Passed(q)
     \/ m \notin ToSet(ledger) /\ Move(q, "refused")
  /\ UNCHANGED <<runVars, ledger, sent>>

\* Mutants: a send without its idempotency key; no send for a row that was there.
SendAlways(q) ==
  /\ req[q].at = "send" /\ Move(q, "ok")
  /\ sent' = Append(sent, req[q].msg)
  /\ UNCHANGED <<runVars, ledger>>
SendIfWaiting(q) ==
  /\ req[q].at = "send" /\ Move(q, "ok")
  /\ sent' = IF waiting /\ \A n \in ToSet(sent) : n.key # req[q].msg.key
               THEN Append(sent, req[q].msg) ELSE sent
  /\ UNCHANGED <<runVars, ledger>>

\* DBOS.send(workflow, message, topic, dedupeKey): the key is DBOS's idempotency
\* key, one per destination whatever the topic; a key used before sends nothing.
Send(q) ==
  /\ req[q].at = "send" /\ Move(q, "ok")
  /\ sent' = IF \A n \in ToSet(sent) : n.key # req[q].msg.key
               THEN Append(sent, req[q].msg) ELSE sent
  /\ UNCHANGED <<runVars, ledger>>

\* A server dies with the request, or its connection breaks.
Lose(q) ==
  /\ req[q].at \in InFlight /\ Move(q, "lost")
  /\ UNCHANGED <<runVars, ledger, sent>>

RequestStep(q) ==
  \/ Admit(q) \/ Forward(q) \/ SelectDrift(q) \/ Insert(q) \/ Reselect(q)
  \/ Send(q) \/ Lose(q)

Next == OpenGate \/ TakeAnswer \/ \E q \in Requests : RequestStep(q)

Spec == Init /\ [][Next]_vars
-----------------------------------------------------------------------------
\* The unique key of the ledger, and what the positions of the requests tell
\* about it: with TypeOK the inductive invariant of the proofs.
LedgerInv ==
  /\ \A a, b \in 1..Len(ledger) : SameRow(ledger[a], ledger[b]) => a = b
  /\ \A a, b \in 1..Len(sent) : sent[a].key = sent[b].key => a = b
  /\ ToSet(sent) \subseteq ToSet(ledger)
  /\ waiting => opened # <<>>
  /\ \A q \in Requests :
       /\ req[q].at # "idle" => req[q].msg \in Messages
       /\ req[q].at = "reselect" => \E n \in ToSet(ledger) : SameRow(req[q].msg, n)
       /\ req[q].at \in {"send", "ok"} => req[q].msg \in ToSet(ledger)

\* A gate that waits, or that is still to be opened, is not decided.
GateInv ==
  /\ waiting => taken[LatestGate] = None
  /\ \A g \in Gates \ ToSet(opened) : taken[g] = None

\* Well typed states in which the ledger, the requests and the gates agree.
IInv == TypeOK /\ LedgerInv /\ GateInv

\* The workflow decides on nothing the ledger does not show: what a gate took
\* is a row of the ledger, with the same key, topic and payload.
TakenIsRecorded ==
  \A g \in Gates : taken[g] \in Messages => taken[g] \in ToSet(ledger)

Contract == INSTANCE AnswerContract
  WITH Answers <- Messages, Open <- None, Expired <- TimedOut,
       book <- ToSet(ledger), mail <- sent, outcome <- taken

\* Through all requests, retries, races and losses the ledger, the mailbox and
\* the gates keep the contract: one answer per key and topic, noted before it is
\* delivered, delivered once, and every gate decided once, by its first.
KeepsAnswers == Contract!ASpec

\* A request that was answered 200 is in the mailbox, whatever became of the
\* requests before it.
AcceptedIsDelivered ==
  \A q \in Requests : req[q].at = "ok" => req[q].msg \in ToSet(sent)

\* A refusal means that somebody used the key for something else: rows left
\* behind by requests that were lost never make a retry fail.
RefusedForCause ==
  \A q \in Requests : req[q].at = "refused" =>
    \E n \in ToSet(ledger) : SameKey(req[q].msg, n) /\ n # req[q].msg

Sendable == Offers \cup {Forwarded(g) : g \in Gates}

\* Whatever is on its way or recorded is what a client may send or an approval.
OnlyAnswersEnter ==
  /\ ToSet(ledger) \subseteq Sendable
  /\ \A q \in Requests : req[q].at # "idle" => req[q].msg \in Sendable

\* What clients have to keep to: a key is for one topic of one gate.  The ledger
\* does not ask for it, DBOS takes the key alone.
KeysOfOneTopic ==
  \A m, n \in Sendable : m.key = n.key => m.gate = n.gate /\ m.lane = n.lane

\* What a client is told of its answer is so.
AnswersHonest == OnlyAnswersEnter /\ AcceptedIsDelivered /\ RefusedForCause

\* No two different answers of one lane are both accepted under one key.
ConflictRefused ==
  \A p, q \in Requests :
    req[p].at = "ok" /\ req[q].at = "ok" /\ SameRow(req[p].msg, req[q].msg)
      => req[p].msg = req[q].msg
=============================================================================
