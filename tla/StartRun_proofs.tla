--------------------------- MODULE StartRun_proofs ---------------------------
(***************************************************************************)
(* Proofs about StartRun for every set of intents, recipes, identities,    *)
(* offers and requests, on partitioned and unpartitioned queues.           *)
(***************************************************************************)
EXTENDS StartRun, TLAPS

\* The rows, workflows and requests there may be.
Rows == [status : {"queued", "running", "succeeded", "failed"},
         recipe : Recipes \cup {"plain"}, ident : Idents]
Workflows == [state : {"enqueued", "running", "done"}, ident : Idents,
              dedup : Dedups \cup {"none"}, outcome : {"none", "succeeded", "failed"}]
Reqs == [at : InFlight \cup Answers \cup {"idle", "lost"},
         start : Starts \cup {NoRequest}, inserted : BOOLEAN]
-----------------------------------------------------------------------------
\* The markers are not rows and not workflows.
LEMMA Markers == NoRow \notin Rows /\ NoWorkflow \notin Workflows
  BY DEF NoRow, NoWorkflow, Rows, Workflows

\* The type invariant, with the names of the sets.
LEMMA Typed ==
  TypeOK <=> /\ partitioned \in BOOLEAN
             /\ intent \in [Intents -> Recipes \cup {"plain", "absent"}]
             /\ run \in [Intents -> Rows \cup {NoRow}]
             /\ wf \in [Intents -> Workflows \cup {NoWorkflow}]
             /\ req \in [Requests -> Reqs]
  BY DEF TypeOK, Rows, Workflows, Reqs

\* A request that has arrived asks for a start, of an intent there may be.
LEMMA StartTyped ==
  ASSUME IInv, NEW q \in Requests, req[q].at # "idle"
  PROVE  /\ req[q].start \in Starts
         /\ req[q].start.intent \in Intents /\ req[q].start.ident \in Idents
         /\ req[q].start.recipe \in Recipes \cup {"plain"}
         /\ req[q].start.dedup \in Dedups \cup {"none"}
  BY DEF IInv, StartInv, AnswersEarned, EarnedBy, Starts

\* Only the position of a request changes.
LEMMA GoFacts ==
  ASSUME req \in [Requests -> Reqs], NEW q \in Requests,
         NEW at \in InFlight \cup Answers \cup {"idle", "lost"}, Go(q, at)
  PROVE  /\ req' \in [Requests -> Reqs]
         /\ req'[q] = [req[q] EXCEPT !.at = at]
         /\ req'[q].at = at
         /\ req'[q].start = req[q].start /\ req'[q].inserted = req[q].inserted
         /\ \A p \in Requests : p # q => req'[p] = req[p]
  <1>1. req[q] \in Reqs
    OBVIOUS
  <1>2. [req[q] EXCEPT !.at = at] \in Reqs
    BY <1>1 DEF Reqs
  <1>3. req' = [req EXCEPT ![q] = [req[q] EXCEPT !.at = at]]
    BY <1>1 DEF Go
  <1> QED
    BY <1>1, <1>2, <1>3 DEF Reqs

LEMMA InitIInv == Init => IInv
  <1> SUFFICES ASSUME Init PROVE IInv
    OBVIOUS
  <1>1. TypeOK
    BY DEF Init, TypeOK
  <1>2. StartInv
    BY DEF Init, StartInv, RowsAgree, RequestsAgree, AgreesAt,
           AnswersEarned, EarnedBy, OneInserter, Bound, Past
  <1> QED
    BY <1>1, <1>2 DEF IInv
-----------------------------------------------------------------------------
(* The steps. *)

LEMMA AskIInv == ASSUME IInv, NEW q \in Requests, Ask(q) PROVE IInv'
  <1> USE StartsAssumption
  <1>1. PICK o \in Offers :
          req' = [req EXCEPT ![q] = [@ EXCEPT !.start = o,
                    !.at = IF o.recipe = "plain" THEN "check" ELSE "upsert"]]
    BY DEF Ask
  <1>2. UNCHANGED <<partitioned, intent, run, wf>> /\ req[q].at = "idle" /\ o \in Starts
    BY DEF Ask
  <1>3. req \in [Requests -> Reqs] /\ req[q] \in Reqs
    BY Typed DEF IInv
  <1>4. /\ req'[q] = [req[q] EXCEPT !.start = o,
                        !.at = IF o.recipe = "plain" THEN "check" ELSE "upsert"]
        /\ req'[q] \in Reqs /\ req'[q].start = o /\ req'[q].inserted = req[q].inserted
        /\ req'[q].at \in {"check", "upsert"}
        /\ req'[q].at = "check" => o.recipe = "plain"
        /\ \A p \in Requests : p # q => req'[p] = req[p]
    BY <1>1, <1>2, <1>3 DEF Reqs, InFlight
  <1>5. TypeOK'
    BY <1>1, <1>2, <1>3, <1>4, Typed DEF IInv, TypeOK, Rows, Workflows, Reqs
  <1>6. ~req[q].inserted
    BY <1>2 DEF IInv, StartInv, AnswersEarned, EarnedBy
  <1>7. RowsAgree'
    BY <1>2 DEF IInv, StartInv, RowsAgree
  <1>8. RequestsAgree'
    <2> SUFFICES ASSUME NEW p \in Requests, NEW i \in Intents PROVE AgreesAt(p, i)'
      BY DEF RequestsAgree
    <2>1. CASE p = q
      BY <2>1, <1>2, <1>4, MarksAssumption DEF AgreesAt, Bound, Past
    <2>2. CASE p # q
      BY <2>2, <1>2, <1>4 DEF IInv, StartInv, RequestsAgree, AgreesAt, Bound, Past
    <2> QED
      BY <2>1, <2>2
  <1>9. AnswersEarned'
    <2> SUFFICES ASSUME NEW p \in Requests PROVE EarnedBy(p)'
      BY DEF AnswersEarned
    <2>1. CASE p = q
      BY <2>1, <1>2, <1>4, <1>6 DEF EarnedBy
    <2>2. CASE p # q
      BY <2>2, <1>2, <1>4 DEF IInv, StartInv, AnswersEarned, EarnedBy
    <2> QED
      BY <2>1, <2>2
  <1>10. OneInserter'
    BY <1>4, <1>6 DEF IInv, StartInv, OneInserter
  <1> QED
    BY <1>5, <1>7, <1>8, <1>9, <1>10 DEF IInv, StartInv

LEMMA UpsertIInv == ASSUME IInv, NEW q \in Requests, Upsert(q) PROVE IInv'
  <1> DEFINE s == req[q].start
  <1>1. UNCHANGED <<partitioned, run, wf>> /\ req[q].at = "upsert"
    BY DEF Upsert
  <1>2. s \in Starts /\ s.intent \in Intents /\ s.recipe \in Recipes \cup {"plain"}
    BY <1>1, StartTyped
  <1>3. PICK at \in {"check", "refused"} :
          /\ Go(q, at)
          /\ at = "check" => intent'[s.intent] = s.recipe
          /\ intent' \in [Intents -> Recipes \cup {"plain", "absent"}]
          /\ \A i \in Intents : intent[i] # "absent" => intent'[i] = intent[i]
    BY <1>2 DEF Upsert, IInv, TypeOK
  <1>4. req \in [Requests -> Reqs]
    BY Typed DEF IInv
  <1>5. at \in InFlight \cup Answers \cup {"idle", "lost"}
    BY DEF InFlight, Answers
  <1>6. /\ req' \in [Requests -> Reqs] /\ req'[q].at = at
        /\ req'[q].start = req[q].start /\ req'[q].inserted = req[q].inserted
        /\ \A p \in Requests : p # q => req'[p] = req[p]
    BY <1>3, <1>4, <1>5, GoFacts
  <1>7. TypeOK'
    BY <1>1, <1>3, <1>6 DEF IInv, TypeOK, Reqs
  <1>8. ~req[q].inserted
    BY <1>1 DEF IInv, StartInv, AnswersEarned, EarnedBy
  <1>9. RowsAgree'
    BY <1>1, <1>3 DEF IInv, StartInv, RowsAgree
  <1>10. RequestsAgree'
    <2> SUFFICES ASSUME NEW p \in Requests, NEW i \in Intents PROVE AgreesAt(p, i)'
      BY DEF RequestsAgree
    <2>1. CASE p = q
      BY <2>1, <1>1, <1>3, <1>6 DEF AgreesAt, Bound, Past
    <2>2. CASE p # q
      BY <2>2, <1>1, <1>3, <1>6, MarksAssumption
         DEF IInv, StartInv, RequestsAgree, AgreesAt, Bound, Past
    <2> QED
      BY <2>1, <2>2
  <1>11. AnswersEarned'
    BY <1>1, <1>6, <1>8 DEF IInv, StartInv, AnswersEarned, EarnedBy
  <1>12. OneInserter'
    BY <1>6, <1>8 DEF IInv, StartInv, OneInserter
  <1> QED
    BY <1>7, <1>9, <1>10, <1>11, <1>12 DEF IInv, StartInv

\* A step that only moves a request on, without an insertion, keeps the
\* invariant when what the new position says holds.
LEMMA MoveIInv ==
  ASSUME IInv, NEW q \in Requests,
         NEW at \in InFlight \cup Answers \cup {"idle", "lost"}, Go(q, at),
         UNCHANGED <<partitioned, intent, run, wf>>,
         EarnedBy(q)', \A i \in Intents : AgreesAt(q, i)'
  PROVE  IInv'
  <1>1. req \in [Requests -> Reqs]
    BY Typed DEF IInv
  <1>2. /\ req' \in [Requests -> Reqs]
        /\ req'[q].start = req[q].start /\ req'[q].inserted = req[q].inserted
        /\ \A p \in Requests : p # q => req'[p] = req[p]
    BY <1>1, GoFacts
  <1>3. TypeOK'
    BY <1>2 DEF IInv, TypeOK, Reqs
  <1>4. RowsAgree'
    BY DEF IInv, StartInv, RowsAgree
  <1>5. RequestsAgree'
    BY <1>2 DEF IInv, StartInv, RequestsAgree, AgreesAt, Bound, Past
  <1>6. AnswersEarned'
    BY <1>2 DEF IInv, StartInv, AnswersEarned, EarnedBy
  <1>7. OneInserter'
    BY <1>2 DEF IInv, StartInv, OneInserter
  <1> QED
    BY <1>3, <1>4, <1>5, <1>6, <1>7 DEF IInv, StartInv

LEMMA CheckIInv == ASSUME IInv, NEW q \in Requests, Check(q) PROVE IInv'
  <1>1. UNCHANGED <<partitioned, intent, run, wf>> /\ req[q].at = "check"
    BY DEF Check
  <1>2. PICK at \in {"insert", "refused"} :
          Go(q, at) /\ (at = "insert" => intent[req[q].start.intent] # "absent")
    BY DEF Check
  <1>3. at \in InFlight \cup Answers \cup {"idle", "lost"}
    BY DEF InFlight, Answers
  <1>4. /\ req'[q].at = at
        /\ req'[q].start = req[q].start /\ req'[q].inserted = req[q].inserted
    BY <1>2, <1>3, Typed, GoFacts DEF IInv
  <1>5. EarnedBy(q)'
    BY <1>1, <1>4 DEF IInv, StartInv, AnswersEarned, EarnedBy
  <1>6. \A i \in Intents : AgreesAt(q, i)'
    BY <1>1, <1>2, <1>4 DEF IInv, StartInv, RequestsAgree, AgreesAt, Bound, Past
  <1> QED
    BY <1>1, <1>2, <1>3, <1>5, <1>6, MoveIInv

LEMMA LoseIInv == ASSUME IInv, NEW q \in Requests, Lose(q) PROVE IInv'
  <1>1. /\ UNCHANGED <<partitioned, intent, run, wf>>
        /\ req[q].at \in InFlight /\ Go(q, "lost")
    BY DEF Lose
  <1>2. /\ req'[q].at = "lost"
        /\ req'[q].start = req[q].start /\ req'[q].inserted = req[q].inserted
    BY <1>1, Typed, GoFacts DEF IInv
  <1>3. EarnedBy(q)'
    BY <1>1, <1>2 DEF IInv, StartInv, AnswersEarned, EarnedBy, InFlight
  <1>4. \A i \in Intents : AgreesAt(q, i)'
    BY <1>2 DEF AgreesAt, Bound, Past
  <1> QED
    BY <1>1, <1>3, <1>4, MoveIInv

LEMMA InsertIInv == ASSUME IInv, NEW q \in Requests, Insert(q) PROVE IInv'
  <1> DEFINE s == req[q].start
             r == [status |-> "queued", recipe |-> intent[s.intent], ident |-> s.ident]
  <1>1. UNCHANGED <<partitioned, intent, wf>> /\ req[q].at = "insert"
    BY DEF Insert
  <1>2. s \in Starts /\ s.intent \in Intents /\ s.ident \in Idents
    BY <1>1, StartTyped
  <1>3. /\ intent[s.intent] \in Recipes \cup {"plain"}
        /\ s.recipe \in Recipes => intent[s.intent] = s.recipe
    BY <1>1, <1>2 DEF IInv, TypeOK, StartInv, RequestsAgree, AgreesAt, Bound
  <1>4. /\ run \in [Intents -> Rows \cup {NoRow}] /\ req \in [Requests -> Reqs]
        /\ req[q] \in Reqs
    BY Typed DEF IInv
  <1>5. CASE run[s.intent] # NoRow
    <2>1. UNCHANGED run
      BY <1>5 DEF Insert
    <2>2. PICK at \in {"refused", "enqueue"} : Go(q, at) /\ (at = "enqueue" => ~Drift(s))
      BY <1>5 DEF Insert
    <2>3. at \in InFlight \cup Answers \cup {"idle", "lost"}
      BY DEF InFlight, Answers
    <2>4. /\ req'[q].at = at
          /\ req'[q].start = req[q].start /\ req'[q].inserted = req[q].inserted
      BY <2>2, <2>3, Typed, GoFacts DEF IInv
    <2>5. EarnedBy(q)'
      BY <1>1, <2>1, <2>4 DEF IInv, StartInv, AnswersEarned, EarnedBy
    <2>6. \A i \in Intents : AgreesAt(q, i)'
      BY <1>1, <1>3, <1>5, <2>1, <2>2, <2>4 DEF AgreesAt, Bound, Past, Drift
    <2> QED
      BY <1>1, <2>1, <2>2, <2>3, <2>5, <2>6, MoveIInv
  <1>6. CASE run[s.intent] = NoRow
    <2>1. /\ run' = [run EXCEPT ![s.intent] = r]
          /\ req' = [req EXCEPT ![q].at = "enqueue", ![q].inserted = TRUE]
      BY <1>6 DEF Insert
    <2>2. r \in Rows
      BY <1>2, <1>3 DEF Rows
    <2>3. run'[s.intent] = r /\ r # NoRow
          /\ \A i \in Intents : i # s.intent => run'[i] = run[i]
      BY <2>1, <2>2, <1>2, <1>4, Markers
    <2>4. /\ req' \in [Requests -> Reqs] /\ req'[q].at = "enqueue"
          /\ req'[q].start = s /\ req'[q].inserted
          /\ \A p \in Requests : p # q => req'[p] = req[p]
      BY <2>1, <1>4 DEF Reqs, InFlight
    <2>5. run' \in [Intents -> Rows \cup {NoRow}]
      BY <2>1, <2>2, <1>4
    <2>6. TypeOK'
      BY <1>1, <2>4, <2>5 DEF IInv, TypeOK, Rows, Reqs
    <2>7. RowsAgree'
      BY <1>1, <1>2, <1>3, <1>6, <2>2, <2>3, MarksAssumption DEF IInv, StartInv, RowsAgree
    <2>8. \A p \in Requests : p # q /\ req[p].inserted => req[p].start.intent # s.intent
      BY <1>6 DEF IInv, StartInv, AnswersEarned, EarnedBy
    <2>9. RequestsAgree'
      <3> SUFFICES ASSUME NEW p \in Requests, NEW i \in Intents PROVE AgreesAt(p, i)'
        BY DEF RequestsAgree
      <3>1. AgreesAt(p, i)
        BY DEF IInv, StartInv, RequestsAgree
      <3>2. CASE p = q
        BY <3>2, <1>1, <1>3, <2>3, <2>4 DEF AgreesAt, Bound, Past
      <3>3. CASE p # q
        BY <3>1, <3>3, <1>1, <1>6, <2>3, <2>4 DEF AgreesAt, Bound, Past
      <3> QED
        BY <3>2, <3>3
    <2>10. AnswersEarned'
      <3> SUFFICES ASSUME NEW p \in Requests PROVE EarnedBy(p)'
        BY DEF AnswersEarned
      <3>1. EarnedBy(p)
        BY DEF IInv, StartInv, AnswersEarned, EarnedBy
      <3>2. CASE p = q
        BY <3>2, <1>2, <2>3, <2>4 DEF EarnedBy
      <3>3. CASE p # q
        BY <3>1, <3>3, <1>1, <2>3, <2>4, <2>8, StartTyped DEF EarnedBy
      <3> QED
        BY <3>2, <3>3
    <2>11. OneInserter'
      BY <2>4, <2>8 DEF IInv, StartInv, OneInserter
    <2> QED
      BY <2>6, <2>7, <2>9, <2>10, <2>11 DEF IInv, StartInv
  <1> QED
    BY <1>5, <1>6

LEMMA EnqueueIInv == ASSUME IInv, NEW q \in Requests, Enqueue(q) PROVE IInv'
  <1> DEFINE s == req[q].start
             w == [state |-> "enqueued", ident |-> s.ident,
                   dedup |-> DedupOf(s), outcome |-> "none"]
  <1>1. UNCHANGED <<partitioned, intent, run>> /\ req[q].at = "enqueue"
    BY DEF Enqueue
  <1>2. s \in Starts /\ s.intent \in Intents /\ s.ident \in Idents /\ s.dedup \in Dedups \cup {"none"}
    BY <1>1, StartTyped
  <1>3. run[s.intent] # NoRow /\ run[s.intent].ident = s.ident
    BY <1>1, <1>2 DEF IInv, StartInv, RequestsAgree, AgreesAt, Past
  <1>4. /\ wf \in [Intents -> Workflows \cup {NoWorkflow}] /\ req \in [Requests -> Reqs]
    BY Typed DEF IInv
  <1>5. PICK at \in {"created", "replay", "mark"} :
          /\ Go(q, at)
          /\ at \in {"created", "mark"} => req[q].inserted
          /\ \/ UNCHANGED wf /\ (at = "created" => wf[s.intent] # NoWorkflow)
             \/ wf[s.intent] = NoWorkflow /\ wf' = [wf EXCEPT ![s.intent] = w]
    BY DEF Enqueue, OnFailure
  <1>6. at \in InFlight \cup Answers \cup {"idle", "lost"}
    BY DEF InFlight, Answers
  <1>7. w \in Workflows
    BY <1>2 DEF Workflows, DedupOf
  <1>8. /\ wf' \in [Intents -> Workflows \cup {NoWorkflow}]
        /\ at = "created" => wf'[s.intent] # NoWorkflow
        /\ \A i \in Intents : wf[i] # NoWorkflow => wf'[i] = wf[i]
        /\ \A i \in Intents : wf'[i] = wf[i] \/ (i = s.intent /\ wf'[i].ident = s.ident)
    BY <1>2, <1>4, <1>5, <1>7, Markers
  <1>9. /\ req' \in [Requests -> Reqs] /\ req'[q].at = at
        /\ req'[q].start = req[q].start /\ req'[q].inserted = req[q].inserted
        /\ \A p \in Requests : p # q => req'[p] = req[p]
    BY <1>4, <1>5, <1>6, GoFacts
  <1>10. TypeOK'
    BY <1>1, <1>8, <1>9 DEF IInv, TypeOK, Workflows, Reqs
  <1>11. RowsAgree'
    BY <1>1, <1>3, <1>8 DEF IInv, StartInv, RowsAgree
  <1>12. RequestsAgree'
    BY <1>1, <1>9 DEF IInv, StartInv, RequestsAgree, AgreesAt, Bound, Past
  <1>13. AnswersEarned'
    <2> SUFFICES ASSUME NEW p \in Requests PROVE EarnedBy(p)'
      BY DEF AnswersEarned
    <2>1. EarnedBy(p)
      BY DEF IInv, StartInv, AnswersEarned
    <2>2. CASE p = q
      BY <2>1, <2>2, <1>1, <1>2, <1>3, <1>5, <1>8, <1>9 DEF EarnedBy
    <2>3. CASE p # q
      BY <2>1, <2>3, <1>1, <1>8, <1>9, StartTyped DEF EarnedBy
    <2> QED
      BY <2>2, <2>3
  <1>14. OneInserter'
    BY <1>9 DEF IInv, StartInv, OneInserter
  <1> QED
    BY <1>10, <1>11, <1>12, <1>13, <1>14 DEF IInv, StartInv

\* A row keeps all but its status, a workflow that goes on its identity.
LEMMA StatusIInv ==
  ASSUME IInv, NEW i \in Intents, run[i] # NoRow,
         NEW status \in {"queued", "running", "succeeded", "failed"},
         run' = [run EXCEPT ![i].status = status],
         UNCHANGED <<partitioned, intent>>,
         wf' \in [Intents -> Workflows \cup {NoWorkflow}],
         \A j \in Intents : /\ wf'[j] = NoWorkflow <=> wf[j] = NoWorkflow
                            /\ wf'[j].ident = wf[j].ident,
         req' \in [Requests -> Reqs],
         \A p \in Requests :
           req'[p] = req[p] \/ /\ req'[p].start = req[p].start
                               /\ req'[p].inserted = req[p].inserted
                               /\ req[p].at = "mark" /\ req'[p].at = "error"
  PROVE  IInv'
  <1>1. run \in [Intents -> Rows \cup {NoRow}] /\ run[i] \in Rows
    BY Typed DEF IInv
  <1>2. [run[i] EXCEPT !.status = status] \in Rows
    BY <1>1 DEF Rows
  <1>3. run' = [run EXCEPT ![i] = [run[i] EXCEPT !.status = status]]
    BY <1>1
  <1>4. /\ run' \in [Intents -> Rows \cup {NoRow}]
        /\ run'[i] = [run[i] EXCEPT !.status = status]
        /\ \A j \in Intents : j # i => run'[j] = run[j]
    BY <1>1, <1>2, <1>3
  <1>5. \A j \in Intents :
          /\ run'[j] = NoRow <=> run[j] = NoRow
          /\ run[j] # NoRow => run'[j].recipe = run[j].recipe /\ run'[j].ident = run[j].ident
    BY <1>1, <1>2, <1>4, Markers DEF Rows
  <1>6. TypeOK'
    BY <1>4 DEF IInv, TypeOK, Rows, Workflows, Reqs
  <1>7. RowsAgree'
    BY <1>5 DEF IInv, StartInv, RowsAgree
  <1>8. RequestsAgree'
    <2> SUFFICES ASSUME NEW p \in Requests, NEW j \in Intents PROVE AgreesAt(p, j)'
      BY DEF RequestsAgree
    <2>1. AgreesAt(p, j)
      BY DEF IInv, StartInv, RequestsAgree
    <2> QED
      BY <2>1, <1>5 DEF AgreesAt, Bound, Past
  <1>9. AnswersEarned'
    <2> SUFFICES ASSUME NEW p \in Requests PROVE EarnedBy(p)'
      BY DEF AnswersEarned
    <2>1. EarnedBy(p)
      BY DEF IInv, StartInv, AnswersEarned, EarnedBy
    <2> QED
      BY <2>1, <1>5, StartTyped DEF EarnedBy
  <1>10. OneInserter'
    BY DEF IInv, StartInv, OneInserter
  <1> QED
    BY <1>6, <1>7, <1>8, <1>9, <1>10 DEF IInv, StartInv

LEMMA MarkFailedIInv == ASSUME IInv, NEW q \in Requests, MarkFailed(q) PROVE IInv'
  <1> DEFINE i == req[q].start.intent
  <1>1. /\ UNCHANGED <<partitioned, intent, wf>> /\ req[q].at = "mark" /\ Go(q, "error")
        /\ run' = [run EXCEPT ![i].status = Settle(@, "failed", FALSE)]
    BY DEF MarkFailed
  <1>2. i \in Intents
    BY <1>1, StartTyped
  <1>3. run[i] # NoRow
    BY <1>1, <1>2 DEF IInv, StartInv, RequestsAgree, AgreesAt, Past
  <1>4. /\ run \in [Intents -> Rows \cup {NoRow}] /\ req \in [Requests -> Reqs]
        /\ wf \in [Intents -> Workflows \cup {NoWorkflow}]
    BY Typed DEF IInv
  <1>5. PICK status \in {"queued", "running", "succeeded", "failed"} :
          status = Settle(run[i].status, "failed", FALSE)
    BY <1>2, <1>3, <1>4 DEF Rows, Settle
  <1>6. run' = [run EXCEPT ![i].status = status]
    BY <1>1, <1>2, <1>4, <1>5
  <1>7. "error" \in InFlight \cup Answers \cup {"idle", "lost"}
    BY DEF Answers
  <1>8. /\ req' \in [Requests -> Reqs] /\ req'[q].at = "error"
        /\ req'[q].start = req[q].start /\ req'[q].inserted = req[q].inserted
        /\ \A p \in Requests : p # q => req'[p] = req[p]
    BY <1>1, <1>4, <1>7, GoFacts
  <1> QED
    BY <1>1, <1>2, <1>3, <1>4, <1>6, <1>8, StatusIInv

LEMMA WorkflowIInv == ASSUME IInv, NEW i \in Intents, Dequeue(i) \/ Finish(i) PROVE IInv'
  <1>1. UNCHANGED <<partitioned, intent, req>> /\ wf[i].state \in {"enqueued", "running"}
    BY DEF Dequeue, Finish
  <1>2. /\ run \in [Intents -> Rows \cup {NoRow}] /\ req \in [Requests -> Reqs]
        /\ wf \in [Intents -> Workflows \cup {NoWorkflow}]
    BY Typed DEF IInv
  <1>3. wf[i] # NoWorkflow /\ wf[i] \in Workflows /\ run[i] # NoRow /\ run[i] \in Rows
    BY <1>1, <1>2 DEF NoWorkflow, IInv, StartInv, RowsAgree
  <1>4. PICK new \in {"running", "succeeded", "failed"},
             state \in {"running", "done"}, outcome \in {"none", "succeeded", "failed"} :
          /\ run' = [run EXCEPT ![i].status = Settle(@, new, FALSE)]
          /\ wf' = [wf EXCEPT ![i] = [wf[i] EXCEPT !.state = state, !.outcome = outcome]]
    <2>1. CASE Dequeue(i)
      <3>1. run' = [run EXCEPT ![i].status = Settle(@, "running", FALSE)]
        BY <2>1 DEF Dequeue
      <3>2. wf' = [wf EXCEPT ![i].state = "running"]
        BY <2>1 DEF Dequeue
      <3>3. wf[i].outcome \in {"none", "succeeded", "failed"}
        BY <1>3 DEF Workflows
      <3>4. wf' = [wf EXCEPT ![i] =
                     [wf[i] EXCEPT !.state = "running", !.outcome = wf[i].outcome]]
        BY <3>2, <1>2, <1>3 DEF Workflows
      <3> QED
        BY <3>1, <3>3, <3>4
    <2>2. CASE Finish(i)
      BY <2>2, <1>2 DEF Finish
    <2> QED
      BY <1>1, <2>1, <2>2
  <1>5. PICK status \in {"queued", "running", "succeeded", "failed"} :
          status = Settle(run[i].status, new, FALSE)
    BY <1>3 DEF Rows, Settle
  <1>6. run' = [run EXCEPT ![i].status = status]
    BY <1>2, <1>4, <1>5
  <1>7. [wf[i] EXCEPT !.state = state, !.outcome = outcome] \in Workflows
    BY <1>3 DEF Workflows
  <1>8. /\ wf' \in [Intents -> Workflows \cup {NoWorkflow}]
        /\ \A j \in Intents : /\ wf'[j] = NoWorkflow <=> wf[j] = NoWorkflow
                              /\ wf'[j].ident = wf[j].ident
    BY <1>2, <1>3, <1>4, <1>7, Markers DEF Workflows
  <1> QED
    BY <1>1, <1>2, <1>3, <1>6, <1>8, StatusIInv
-----------------------------------------------------------------------------
LEMMA NextIInv == IInv /\ [Next]_vars => IInv'
  <1> SUFFICES ASSUME IInv, [Next]_vars PROVE IInv'
    OBVIOUS
  <1>1. CASE UNCHANGED vars
    BY <1>1 DEF vars, IInv, TypeOK, StartInv, RowsAgree, RequestsAgree, AgreesAt,
                Bound, Past, AnswersEarned, EarnedBy, OneInserter
  <1>2. ASSUME NEW q \in Requests,
               Ask(q) \/ Upsert(q) \/ Check(q) \/ Insert(q) \/ Enqueue(q)
                 \/ MarkFailed(q) \/ Lose(q)
        PROVE  IInv'
    BY <1>2, AskIInv, UpsertIInv, CheckIInv, InsertIInv, EnqueueIInv, MarkFailedIInv,
       LoseIInv
  <1>3. ASSUME NEW i \in Intents, Dequeue(i) \/ Finish(i) PROVE IInv'
    BY <1>3, WorkflowIInv
  <1> QED
    BY <1>1, <1>2, <1>3 DEF Next

\* The three places a start writes agree, one request inserted the run, and no
\* answer says more than its request did.
THEOREM Invariance == Spec => []IInv
  <1>1. IInv /\ [Next]_vars => IInv'
    BY NextIInv
  <1> QED
    BY InitIInv, <1>1, PTL DEF Spec, IInv

\* Requests for one intent that were answered with a run asked for the same
\* identity and the same recipe, on any number of servers.
THEOREM Agreement == Spec => []IdentityAgreed
  <1>1. TypeOK /\ StartInv => IdentityAgreed
    <2> SUFFICES ASSUME TypeOK, StartInv, NEW p \in Requests, NEW q \in Requests,
                        Accepted(p), Accepted(q), req[p].start.intent = req[q].start.intent
                 PROVE  /\ req[p].start.ident = req[q].start.ident
                        /\ {req[p].start.recipe, req[q].start.recipe} \subseteq Recipes =>
                             req[p].start.recipe = req[q].start.recipe
      BY DEF IdentityAgreed
    <2>1. req[p].start.intent \in Intents
      BY StartTyped DEF Accepted, IInv
    <2>2. AgreesAt(p, req[p].start.intent) /\ AgreesAt(q, req[p].start.intent)
      BY <2>1 DEF StartInv, RequestsAgree
    <2> QED
      BY <2>2 DEF AgreesAt, Accepted, Bound, Past
  <1> QED
    BY <1>1, Invariance, PTL DEF IInv

\* A request answered with 201 has a workflow, and it is the only one of its
\* intent.
THEOREM Created == Spec => []CreatedIsStarted
  <1>1. TypeOK /\ StartInv => CreatedIsStarted
    BY DEF StartInv, AnswersEarned, EarnedBy, OneInserter, CreatedIsStarted
  <1> QED
    BY <1>1, Invariance, PTL DEF IInv
-----------------------------------------------------------------------------
(* The row and what becomes of the run. *)

\* RowFollows and OrphanOnlyByCrash: with IInv they are inductive.
Shown == (\A q \in Requests : Told(q)) /\ (\A i \in Intents : Awaited(i))

LEMMA ShownParts == Shown <=> RowFollows /\ OrphanOnlyByCrash
  BY DEF Shown, RowFollows, OrphanOnlyByCrash

\* A run that is open takes every status its workflow writes.
LEMMA SettleFacts ==
  \A old \in {"queued", "running"}, new \in {"running", "succeeded", "failed"} :
    Settle(old, new, FALSE) = new
  BY DEF Settle, TerminalStatus

LEMMA InitShown == Init => Shown
  BY DEF Init, Shown, Told, Awaited, NoRow

\* A request that moves on where nothing was inserted.
LEMMA EarlyShown ==
  ASSUME IInv, Shown, NEW q \in Requests, Ask(q) \/ Upsert(q) \/ Check(q)
  PROVE  Shown'
  <1>1. UNCHANGED <<run, wf>> /\ req[q].at \in {"idle", "upsert", "check"}
    BY DEF Ask, Upsert, Check
  <1>2. req \in [Requests -> Reqs] /\ req[q] \in Reqs
    BY Typed DEF IInv
  <1>3. ~req[q].inserted
    BY <1>1 DEF IInv, StartInv, AnswersEarned, EarnedBy
  <1>4. ~req'[q].inserted /\ \A p \in Requests : p # q => req'[p] = req[p]
    <2>1. req[q] = [at |-> req[q].at, start |-> req[q].start, inserted |-> req[q].inserted]
      BY <1>2 DEF Reqs
    <2>2. PICK n : req' = [req EXCEPT ![q] = n] /\ n.inserted = req[q].inserted
      <3>1. CASE Ask(q)
        <4>1. PICK o : req' = [req EXCEPT ![q] = [@ EXCEPT !.start = o,
                         !.at = IF o.recipe = "plain" THEN "check" ELSE "upsert"]]
          BY <3>1 DEF Ask
        <4> DEFINE n == [req[q] EXCEPT !.start = o,
                           !.at = IF o.recipe = "plain" THEN "check" ELSE "upsert"]
        <4>2. n.inserted = req[q].inserted
          BY <2>1
        <4>3. req' = [req EXCEPT ![q] = n]
          BY <4>1
        <4> QED
          BY <4>2, <4>3
      <3>2. CASE \E a : Go(q, a)
        <4>1. PICK a : req' = [req EXCEPT ![q].at = a]
          BY <3>2 DEF Go
        <4> DEFINE n == [req[q] EXCEPT !.at = a]
        <4>2. n.inserted = req[q].inserted
          BY <2>1
        <4>3. req' = [req EXCEPT ![q] = n]
          BY <4>1
        <4> QED
          BY <4>2, <4>3
      <3> QED
        BY <3>1, <3>2 DEF Upsert, Check
    <2> QED
      BY <1>2, <1>3, <2>2
  <1>5. \A p \in Requests : Told(p)'
    BY <1>1, <1>4 DEF Shown, Told
  <1>6. \A i \in Intents : Awaited(i)'
    BY <1>1, <1>3, <1>4 DEF Shown, Awaited
  <1> QED
    BY <1>5, <1>6 DEF Shown

LEMMA InsertShown ==
  ASSUME IInv, Shown, NEW q \in Requests, Insert(q)
  PROVE  Shown'
  <1> DEFINE s == req[q].start
             r == [status |-> "queued", recipe |-> intent[s.intent], ident |-> s.ident]
  <1>1. UNCHANGED <<partitioned, intent, wf>> /\ req[q].at = "insert"
    BY DEF Insert
  <1>2. s.intent \in Intents /\ ~req[q].inserted
    BY <1>1, StartTyped DEF IInv, StartInv, AnswersEarned, EarnedBy
  <1>3. run \in [Intents -> Rows \cup {NoRow}] /\ req \in [Requests -> Reqs] /\ req[q] \in Reqs
    BY Typed DEF IInv
  <1>4. CASE run[s.intent] # NoRow
    <2>1. UNCHANGED run
      BY <1>4 DEF Insert
    <2>2. ~req'[q].inserted /\ \A p \in Requests : p # q => req'[p] = req[p]
      BY <1>2, <1>3, <1>4 DEF Insert, Go, Reqs
    <2>3. \A p \in Requests : Told(p)'
      BY <1>1, <2>1, <2>2 DEF Shown, Told
    <2>4. \A i \in Intents : Awaited(i)'
      BY <1>1, <1>2, <2>1, <2>2 DEF Shown, Awaited
    <2> QED
      BY <2>3, <2>4 DEF Shown
  <1>5. CASE run[s.intent] = NoRow
    <2>1. /\ run' = [run EXCEPT ![s.intent] = r]
          /\ req' = [req EXCEPT ![q].at = "enqueue", ![q].inserted = TRUE]
      BY <1>5 DEF Insert
    <2>2. run'[s.intent].status = "queued" /\ \A i \in Intents : i # s.intent => run'[i] = run[i]
      BY <2>1, <1>2, <1>3
    <2>3. /\ req'[q].at = "enqueue" /\ req'[q].start = s /\ req'[q].inserted
          /\ \A p \in Requests : p # q => req'[p] = req[p]
      BY <2>1, <1>3 DEF Reqs
    <2>4. wf'[s.intent] = NoWorkflow
      BY <1>1, <1>2, <1>5 DEF IInv, StartInv, RowsAgree
    <2>5. \A p \in Requests : p # q /\ req[p].inserted =>
            req[p].start.intent # s.intent /\ req[p].start.intent \in Intents
      BY <1>5, StartTyped DEF IInv, StartInv, AnswersEarned, EarnedBy
    <2>6. \A p \in Requests : Told(p)'
      BY <1>1, <2>2, <2>3, <2>4, <2>5 DEF Shown, Told, NoWorkflow
    <2>7. \A i \in Intents : Awaited(i)'
      BY <1>1, <1>2, <2>2, <2>3 DEF Shown, Awaited
    <2> QED
      BY <2>6, <2>7 DEF Shown
  <1> QED
    BY <1>4, <1>5

LEMMA EnqueueShown ==
  ASSUME IInv, Shown, NEW q \in Requests, Enqueue(q)
  PROVE  Shown'
  <1> DEFINE s == req[q].start
             w == [state |-> "enqueued", ident |-> s.ident,
                   dedup |-> DedupOf(s), outcome |-> "none"]
  <1>1. UNCHANGED <<partitioned, intent, run>> /\ req[q].at = "enqueue"
    BY DEF Enqueue
  <1>2. s \in Starts /\ s.intent \in Intents /\ s.ident \in Idents /\ s.dedup \in Dedups \cup {"none"}
    BY <1>1, StartTyped
  <1>3. wf \in [Intents -> Workflows \cup {NoWorkflow}] /\ req \in [Requests -> Reqs]
    BY Typed DEF IInv
  <1>4. PICK at \in {"created", "replay", "mark"} :
          /\ Go(q, at)
          /\ \/ /\ UNCHANGED wf
                /\ req[q].inserted /\ wf[s.intent] = NoWorkflow => at = "mark"
             \/ wf[s.intent] = NoWorkflow /\ wf' = [wf EXCEPT ![s.intent] = w]
    BY DEF Enqueue, OnFailure
  <1>5. at \in InFlight \cup Answers \cup {"idle", "lost"}
    BY DEF InFlight, Answers
  <1>6. w \in Workflows
    BY <1>2 DEF Workflows, DedupOf
  <1>7. /\ req' \in [Requests -> Reqs] /\ req'[q].at = at
        /\ req'[q].start = req[q].start /\ req'[q].inserted = req[q].inserted
        /\ \A p \in Requests : p # q => req'[p] = req[p]
    BY <1>3, <1>4, <1>5, GoFacts
  <1>8. /\ \A i \in Intents : wf'[i] = wf[i] \/ (wf[i] = NoWorkflow /\ wf'[i] = w)
        /\ \A i \in Intents : i # s.intent => wf'[i] = wf[i]
    BY <1>2, <1>3, <1>4
  <1>9. wf'[s.intent] = NoWorkflow /\ req[q].inserted => at = "mark"
    BY <1>2, <1>3, <1>4, <1>6, Markers
  <1>10. \A i \in Intents : wf'[i].state = "done" => wf[i].state = "done" /\ wf'[i] = wf[i]
    BY <1>8
  <1>11. \A i \in Intents : wf[i].state = "done" => wf'[i] = wf[i]
    BY <1>8 DEF NoWorkflow
  <1>12. \A p \in Requests : Told(p)'
    <2> SUFFICES ASSUME NEW p \in Requests, req[p].inserted,
                        req'[p].at \in {"enqueue", "created", "replay"}
                 PROVE  Told(p)'
      BY <1>7 DEF Told
    <2>1. req'[p].start = req[p].start /\ req[p].at \in {"enqueue", "created", "replay"}
      BY <1>1, <1>7
    <2>2. req[p].start.intent \in Intents
      BY <2>1, StartTyped
    <2>3. Told(p)
      BY DEF Shown
    <2> QED
      BY <2>1, <2>2, <2>3, <1>1, <1>10, <1>11 DEF Told
  <1>13. \A i \in Intents : Awaited(i)'
    <2> SUFFICES ASSUME NEW i \in Intents, run[i].status = "queued", wf'[i] = NoWorkflow
                 PROVE  Awaited(i)'
      BY <1>1 DEF Awaited
    <2>1. wf[i] = NoWorkflow
      BY <1>6, <1>8, Markers
    <2>2. PICK p \in Requests : /\ req[p].inserted /\ req[p].start.intent = i
                                /\ req[p].at \in {"enqueue", "mark", "lost"}
      BY <2>1 DEF Shown, Awaited
    <2>3. req'[p].inserted /\ req'[p].start.intent = i /\ req'[p].at \in {"enqueue", "mark", "lost"}
      BY <2>2, <1>7, <1>9
    <2> QED
      BY <2>3 DEF Awaited
  <1> QED
    BY <1>12, <1>13 DEF Shown

LEMMA LoseShown ==
  ASSUME IInv, Shown, NEW q \in Requests, Lose(q)
  PROVE  Shown'
  <1>1. UNCHANGED <<run, wf>> /\ req[q].at \in InFlight /\ Go(q, "lost")
    BY DEF Lose
  <1>2. /\ req'[q].at = "lost"
        /\ req'[q].start = req[q].start /\ req'[q].inserted = req[q].inserted
        /\ \A p \in Requests : p # q => req'[p] = req[p]
    BY <1>1, Typed, GoFacts DEF IInv
  <1>3. \A p \in Requests : Told(p)'
    BY <1>1, <1>2 DEF Shown, Told
  <1>4. \A i \in Intents : Awaited(i)'
    <2> SUFFICES ASSUME NEW i \in Intents, run[i].status = "queued", wf[i] = NoWorkflow
                 PROVE  Awaited(i)'
      BY <1>1 DEF Awaited
    <2>1. PICK p \in Requests : /\ req[p].inserted /\ req[p].start.intent = i
                                /\ req[p].at \in {"enqueue", "mark", "lost"}
      BY DEF Shown, Awaited
    <2>2. req'[p].inserted /\ req'[p].start.intent = i /\ req'[p].at \in {"enqueue", "mark", "lost"}
      BY <2>1, <1>2
    <2> QED
      BY <2>2 DEF Awaited
  <1> QED
    BY <1>3, <1>4 DEF Shown

\* The request that marks the run is the one that inserted it, so no request
\* that trusts the row has inserted it.
LEMMA MarkFailedShown ==
  ASSUME IInv, Shown, NEW q \in Requests, MarkFailed(q)
  PROVE  Shown'
  <1> DEFINE i == req[q].start.intent
  <1>1. /\ UNCHANGED wf /\ req[q].at = "mark" /\ Go(q, "error")
        /\ run' = [run EXCEPT ![i].status = Settle(@, "failed", FALSE)]
    BY DEF MarkFailed
  <1>2. i \in Intents /\ req[q].inserted
    BY <1>1, StartTyped DEF IInv, StartInv, AnswersEarned, EarnedBy
  <1>3. run[i] # NoRow
    BY <1>1, <1>2 DEF IInv, StartInv, RequestsAgree, AgreesAt, Past
  <1>4. run \in [Intents -> Rows \cup {NoRow}] /\ run[i] \in Rows
    BY <1>2, <1>3, Typed DEF IInv
  <1>5. run'[i].status # "queued" /\ \A j \in Intents : j # i => run'[j] = run[j]
    <2>1. Settle(run[i].status, "failed", FALSE) # "queued"
      BY DEF Settle, TerminalStatus
    <2> QED
      BY <2>1, <1>1, <1>2, <1>4 DEF Rows
  <1>6. "error" \in InFlight \cup Answers \cup {"idle", "lost"}
    BY DEF Answers
  <1>7. /\ req'[q].at = "error"
        /\ req'[q].start = req[q].start /\ req'[q].inserted = req[q].inserted
        /\ \A p \in Requests : p # q => req'[p] = req[p]
    BY <1>1, <1>6, Typed, GoFacts DEF IInv
  <1>8. \A p \in Requests : Told(p)'
    <2> SUFFICES ASSUME NEW p \in Requests, p # q, req[p].inserted,
                        req[p].at \in {"enqueue", "created", "replay"}
                 PROVE  Told(p)'
      BY <1>7 DEF Told
    <2>1. req[p].start.intent \in Intents /\ req[p].start.intent # i
      BY <1>2, StartTyped DEF IInv, StartInv, OneInserter
    <2>2. Told(p)
      BY DEF Shown
    <2>3. /\ req'[p] = req[p] /\ run'[req[p].start.intent] = run[req[p].start.intent]
          /\ wf' = wf
      BY <2>1, <1>1, <1>5, <1>7
    <2> QED
      BY <2>2, <2>3 DEF Told
  <1>9. \A j \in Intents : Awaited(j)'
    <2> SUFFICES ASSUME NEW j \in Intents, j # i, run[j].status = "queued", wf[j] = NoWorkflow
                 PROVE  Awaited(j)'
      BY <1>1, <1>5 DEF Awaited
    <2>1. PICK p \in Requests : /\ req[p].inserted /\ req[p].start.intent = j
                                /\ req[p].at \in {"enqueue", "mark", "lost"}
      BY DEF Shown, Awaited
    <2>2. p # q
      BY <2>1
    <2> QED
      BY <2>1, <2>2, <1>7 DEF Awaited
  <1> QED
    BY <1>8, <1>9 DEF Shown

\* The workflow of a run writes its row alone: what it writes stays while the
\* run is open, and its last status is the outcome.
LEMMA WorkflowShown ==
  ASSUME IInv, Shown, NEW i \in Intents, Dequeue(i) \/ Finish(i)
  PROVE  Shown'
  <1>1. UNCHANGED req /\ wf[i].state \in {"enqueued", "running"}
    BY DEF Dequeue, Finish
  <1>2. /\ run \in [Intents -> Rows \cup {NoRow}]
        /\ wf \in [Intents -> Workflows \cup {NoWorkflow}]
    BY Typed DEF IInv
  <1>3. wf[i] # NoWorkflow /\ wf[i] \in Workflows /\ run[i] # NoRow /\ run[i] \in Rows
    BY <1>1, <1>2 DEF NoWorkflow, IInv, StartInv, RowsAgree
  <1>4. PICK new \in {"running", "succeeded", "failed"} :
          /\ run' = [run EXCEPT ![i].status = Settle(@, new, FALSE)]
          /\ \A j \in Intents : j # i => wf'[j] = wf[j]
          /\ wf'[i] \in Workflows
          /\ IF wf'[i].state = "done" THEN wf'[i].outcome = new ELSE new = "running"
    <2>1. CASE Dequeue(i)
      BY <2>1, <1>2, <1>3 DEF Dequeue, Workflows
    <2>2. CASE Finish(i)
      <3>1. PICK outcome \in {"succeeded", "failed"} :
              /\ wf' = [wf EXCEPT ![i].state = "done", ![i].outcome = outcome]
              /\ run' = [run EXCEPT ![i].status = Settle(@, outcome, FALSE)]
        BY <2>2 DEF Finish
      <3>2. wf'[i] = [wf[i] EXCEPT !.state = "done", !.outcome = outcome]
            /\ \A j \in Intents : j # i => wf'[j] = wf[j]
        BY <3>1, <1>2
      <3>3. wf'[i] \in Workflows /\ wf'[i].state = "done" /\ wf'[i].outcome = outcome
        BY <3>2, <1>3 DEF Workflows
      <3> QED
        BY <3>1, <3>2, <3>3
    <2> QED
      BY <2>1, <2>2
  <1>5. /\ run'[i].status = Settle(run[i].status, new, FALSE)
        /\ \A j \in Intents : j # i => run'[j] = run[j]
    BY <1>2, <1>3, <1>4 DEF Rows
  <1>6. \A q \in Requests : Told(q)'
    <2> SUFFICES ASSUME NEW q \in Requests, req[q].inserted,
                        req[q].at \in {"enqueue", "created", "replay"}
                 PROVE  Told(q)'
      BY <1>1 DEF Told
    <2>1. Told(q) /\ req[q].start.intent \in Intents
      BY StartTyped DEF Shown
    <2>2. CASE req[q].start.intent # i
      BY <2>1, <2>2, <1>1, <1>4, <1>5 DEF Told
    <2>3. CASE req[q].start.intent = i
      <3>1. run[i].status \in {"queued", "running"}
        BY <2>1, <2>3, <1>1 DEF Told
      <3>2. run'[i].status = new
        BY <3>1, <1>5, SettleFacts
      <3> QED
        BY <2>3, <3>2, <1>1, <1>4 DEF Told
    <2> QED
      BY <2>2, <2>3
  <1>7. \A j \in Intents : Awaited(j)'
    <2> SUFFICES ASSUME NEW j \in Intents, wf'[j] = NoWorkflow, run'[j].status = "queued"
                 PROVE  Awaited(j)'
      BY DEF Awaited
    <2>1. j # i
      BY <1>4, Markers
    <2>2. wf[j] = NoWorkflow /\ run[j].status = "queued"
      BY <2>1, <1>4, <1>5
    <2> QED
      BY <2>2, <1>1 DEF Shown, Awaited
  <1> QED
    BY <1>6, <1>7 DEF Shown

\* A run that is queued without a workflow was left so by a dead server, and
\* the row of a run that was answered for shows the end of its workflow.
THEOREM TheRowTells == Spec => []RowShown
  <1>1. IInv /\ Shown /\ [Next]_vars => Shown'
    <2> SUFFICES ASSUME IInv, Shown, [Next]_vars PROVE Shown'
      OBVIOUS
    <2>1. CASE UNCHANGED vars
      BY <2>1 DEF vars, Shown, Told, Awaited
    <2>2. ASSUME NEW q \in Requests,
                 Ask(q) \/ Upsert(q) \/ Check(q) \/ Insert(q) \/ Enqueue(q)
                   \/ MarkFailed(q) \/ Lose(q)
          PROVE  Shown'
      BY <2>2, EarlyShown, InsertShown, EnqueueShown, MarkFailedShown, LoseShown
    <2>3. ASSUME NEW i \in Intents, Dequeue(i) \/ Finish(i) PROVE Shown'
      BY <2>3, WorkflowShown
    <2> QED
      BY <2>1, <2>2, <2>3 DEF Next
  <1>2. Shown => RowShown
    <2> SUFFICES ASSUME Shown, NEW i \in Intents, wf[i].state = "done", NEW q \in Requests,
                        req[q].inserted, req[q].start.intent = i, Accepted(q)
                 PROVE  run[i].status = wf[i].outcome
      BY ShownParts DEF RowShown, OutcomeShown
    <2> QED
      BY DEF Shown, Told, Accepted
  <1>3. Spec => []IInv
    BY Invariance DEF IInv
  <1> QED
    BY InitShown, <1>1, <1>2, <1>3, PTL DEF Spec
=============================================================================
