---------------------- MODULE HitlLedgerSurfaces_proofs ----------------------
(***************************************************************************)
(* Proofs about HitlLedger for every set of gates, keys, payloads, offers  *)
(* and requests, and about Surfaces, the doors these requests come         *)
(* through, for every number of faults.                                    *)
(***************************************************************************)
EXTENDS HitlLedger, Surfaces, TLAPS
-----------------------------------------------------------------------------
\* Appending adds one element to the set of a sequence's elements, at its end.
LEMMA AppendFacts ==
  ASSUME NEW S, NEW s \in Seq(S), NEW e \in S
  PROVE  /\ Append(s, e) \in Seq(S)
         /\ Len(Append(s, e)) = Len(s) + 1 /\ Len(s) \in Nat
         /\ Append(s, e)[Len(s) + 1] = e
         /\ \A a \in 1..Len(s) : Append(s, e)[a] = s[a]
         /\ ToSet(Append(s, e)) = ToSet(s) \cup {e}
  <1>1. /\ Append(s, e) \in Seq(S)
        /\ Len(Append(s, e)) = Len(s) + 1 /\ Len(s) \in Nat
        /\ Append(s, e)[Len(s) + 1] = e
        /\ \A a \in 1..Len(s) : Append(s, e)[a] = s[a]
    OBVIOUS
  <1>2. DOMAIN s = 1..Len(s) /\ DOMAIN Append(s, e) = 1..Len(s) + 1
    BY <1>1
  <1>3. 1..Len(s) + 1 = (1..Len(s)) \cup {Len(s) + 1}
    BY <1>1
  <1>4. ToSet(Append(s, e)) = ToSet(s) \cup {e}
    BY <1>1, <1>2, <1>3 DEF ToSet
  <1> QED
    BY <1>1, <1>4

\* The elements of a sequence by their positions.
LEMMA ToSetFacts ==
  ASSUME NEW S, NEW s \in Seq(S)
  PROVE  /\ ToSet(s) \subseteq S
         /\ \A a \in 1..Len(s) : s[a] \in ToSet(s)
         /\ \A e \in ToSet(s) : \E a \in 1..Len(s) : s[a] = e
  <1>1. DOMAIN s = 1..Len(s)
    OBVIOUS
  <1> QED
    BY <1>1 DEF ToSet

\* A message is no marker of a gate that was not answered.
LEMMA MarkersAreNoMessages == None \notin Messages /\ TimedOut \notin Messages
  BY DEF None, TimedOut, Messages

\* A request that is under way has a message.
LEMMA RequestTyped ==
  ASSUME IInv, NEW q \in Requests, req[q].at # "idle"
  PROVE  req[q].msg \in Messages /\ req[q].pass \in {1, 2}
  BY DEF IInv, LedgerInv, TypeOK

LEMMA InitIInv == Init => IInv
  <1> SUFFICES ASSUME Init PROVE IInv
    OBVIOUS
  <1>1. opened \in Seq(Gates) /\ ledger \in Seq(Messages) /\ sent \in Seq(Messages)
    BY DEF Init
  <1>2. TypeOK
    BY <1>1 DEF Init, TypeOK, Positions
  <1>3. Len(<< >>) = 0 /\ 1..0 = {}
    OBVIOUS
  <1>4. /\ \A a, b \in 1..Len(ledger) : SameRow(ledger[a], ledger[b]) => a = b
        /\ \A a, b \in 1..Len(sent) : sent[a].key = sent[b].key => a = b
    BY <1>3 DEF Init
  <1>5. ToSet(sent) \subseteq ToSet(ledger) /\ ~waiting
    BY DEF Init
  <1>6. \A q \in Requests : req[q].at = "idle"
    BY DEF Init
  <1>7. LedgerInv
    BY <1>4, <1>5, <1>6 DEF LedgerInv
  <1>8. GateInv
    BY DEF Init, GateInv
  <1> QED
    BY <1>2, <1>7, <1>8 DEF IInv
-----------------------------------------------------------------------------
(* Every step preserves the invariant. *)

\* The gates are the workflow's: no request touches them.
LEMMA GatesStay ==
  ASSUME GateInv, UNCHANGED runVars
  PROVE  GateInv'
  BY DEF GateInv, runVars, LatestGate

LEMMA GateSteps ==
  ASSUME IInv, OpenGate \/ TakeAnswer
  PROVE  GateInv'
  <1> USE DEF IInv
  <1>1. CASE OpenGate
    <2>1. PICK g \in Gates \ ToSet(opened) : opened' = Append(opened, g)
      BY <1>1 DEF OpenGate
    <2>2. LatestGate' = g
      BY <2>1, AppendFacts DEF TypeOK, LatestGate
    <2>3. ToSet(opened') = ToSet(opened) \cup {g}
      BY <2>1, AppendFacts DEF TypeOK
    <2>4. UNCHANGED taken
      BY <1>1 DEF OpenGate
    <2> QED
      BY <2>2, <2>3, <2>4 DEF GateInv
  <1>2. CASE TakeAnswer
    <2>1. LatestGate \in ToSet(opened)
      <3>1. Len(opened) \in 1..Len(opened)
        BY <1>2 DEF TakeAnswer, LedgerInv, TypeOK
      <3> QED
        BY <3>1, ToSetFacts DEF TypeOK, LatestGate
    <2>2. \A g \in Gates : g # LatestGate => taken'[g] = taken[g]
      BY <1>2 DEF TakeAnswer, TypeOK
    <2>3. ~waiting' /\ UNCHANGED opened
      BY <1>2 DEF TakeAnswer
    <2> QED
      BY <2>1, <2>2, <2>3 DEF GateInv
  <1> QED
    BY <1>1, <1>2

LEMMA WorkflowSteps ==
  ASSUME IInv, OpenGate \/ TakeAnswer
  PROVE  IInv'
  <1> USE DEF IInv
  <1>1. CASE OpenGate
    <2>1. PICK g \in Gates : opened' = Append(opened, g)
      BY <1>1 DEF OpenGate
    <2>2. opened' \in Seq(Gates) /\ opened' # <<>>
      BY <2>1, AppendFacts DEF TypeOK
    <2>3. TypeOK'
      BY <1>1, <2>2 DEF OpenGate, TypeOK
    <2>4. LedgerInv'
      BY <1>1, <2>2 DEF OpenGate, LedgerInv
    <2> QED
      BY <1>1, <2>3, <2>4, GateSteps
  <1>2. CASE TakeAnswer
    <2>1. taken' \in [Gates -> Messages \cup {None, TimedOut}]
      <3>1. LatestGate \in Gates
        BY <1>2 DEF TakeAnswer, LedgerInv, TypeOK, LatestGate
      <3>2. \A a \in 1..Len(sent) : sent[a] \in Messages
        BY DEF TypeOK
      <3>3. CASE taken' = [taken EXCEPT ![LatestGate] = TimedOut]
        BY <3>1, <3>3 DEF TypeOK
      <3>4. CASE \E a \in 1..Len(sent) : taken' = [taken EXCEPT ![LatestGate] = sent[a]]
        BY <3>1, <3>2, <3>4 DEF TypeOK
      <3> QED
        BY <1>2, <3>3, <3>4 DEF TakeAnswer
    <2>2. TypeOK'
      BY <1>2, <2>1 DEF TakeAnswer, TypeOK
    <2>3. LedgerInv'
      BY <1>2 DEF TakeAnswer, LedgerInv
    <2> QED
      BY <1>2, <2>2, <2>3, GateSteps
  <1> QED
    BY <1>1, <1>2

\* A request that only moves on, to a position its message justifies.
LEMMA MovePreserves ==
  ASSUME IInv, NEW q \in Requests, UNCHANGED <<runVars, ledger, sent>>,
         NEW r \in [at : Positions, pass : {1, 2}, msg : Messages \cup {None}],
         req' = [req EXCEPT ![q] = r],
         r.at # "idle" => r.msg \in Messages,
         r.at = "reselect" => \E n \in ToSet(ledger) : SameRow(r.msg, n),
         r.at \in {"send", "ok"} => r.msg \in ToSet(ledger)
  PROVE  IInv'
  <1>1. TypeOK'
    BY DEF IInv, TypeOK, runVars
  <1>2. LedgerInv'
    BY DEF IInv, LedgerInv, TypeOK, runVars
  <1> QED
    BY <1>1, <1>2, GatesStay DEF IInv

\* What a pass through the ledger makes of a request whose row is there.
LEMMA PassedTyped ==
  ASSUME IInv, NEW q \in Requests, req[q].at # "idle", Passed(q)
  PROVE  \E r \in [at : {"select", "send"}, pass : {1, 2}, msg : {req[q].msg}] :
           req' = [req EXCEPT ![q] = r]
  <1>1. req[q] \in [at : Positions, pass : {1, 2}, msg : Messages \cup {None}]
    BY DEF IInv, TypeOK
  <1>2. CASE req[q].pass = 1 /\ req[q].msg.lane = "human"
    <2>1. req' = [req EXCEPT ![q] = [req[q] EXCEPT !.at = "select", !.pass = 2]]
      BY <1>2 DEF Passed
    <2> QED
      BY <1>1, <2>1
  <1>3. CASE ~(req[q].pass = 1 /\ req[q].msg.lane = "human")
    <2>1. req' = [req EXCEPT ![q] = [req[q] EXCEPT !.at = "send"]]
      BY <1>3 DEF Passed
    <2> QED
      BY <1>1, <2>1
  <1> QED
    BY <1>2, <1>3

\* Move sets the position and nothing else.
LEMMA MoveTyped ==
  ASSUME IInv, NEW q \in Requests, NEW pos \in Positions, Move(q, pos)
  PROVE  \E r \in [at : {pos}, pass : {1, 2}, msg : {req[q].msg}] :
           req' = [req EXCEPT ![q] = r]
  <1>1. req[q] \in [at : Positions, pass : {1, 2}, msg : Messages \cup {None}]
    BY DEF IInv, TypeOK
  <1>2. req' = [req EXCEPT ![q] = [req[q] EXCEPT !.at = pos]]
    BY DEF Move
  <1> QED
    BY <1>1, <1>2

LEMMA RequestSteps ==
  ASSUME IInv, NEW q \in Requests,
         Admit(q) \/ Forward(q) \/ SelectDrift(q) \/ Reselect(q) \/ Lose(q)
  PROVE  IInv'
  <1>1. CASE Admit(q)
    <2>1. PICK m \in Offers : req' = [req EXCEPT ![q] = [at |-> "select", pass |-> 1, msg |-> m]]
      BY <1>1 DEF Admit
    <2>2. m \in Messages
      BY OffersAssumption
    <2> QED
      BY <1>1, <2>1, <2>2, MovePreserves DEF Admit, Positions
  <1>2. CASE Forward(q)
    <2>1. PICK g \in Gates :
            req' = [req EXCEPT ![q] = [at |-> "select", pass |-> 2, msg |-> Forwarded(g)]]
      <3>1. opened # <<>> => LatestGate \in Gates
        BY DEF IInv, TypeOK, LatestGate
      <3> QED
        BY <1>2, <3>1, LegacyAssumption DEF Forward
    <2>2. Forwarded(g) \in Messages
      BY LegacyAssumption DEF Forwarded, Messages
    <2> QED
      BY <1>2, <2>1, <2>2, MovePreserves DEF Forward, Positions
  <1>3. CASE SelectDrift(q)
    <2>1. req[q].msg \in Messages
      BY <1>3, RequestTyped DEF SelectDrift
    <2>2. Move(q, "insert") \/ Move(q, "refused")
      BY <1>3 DEF SelectDrift
    <2>3. PICK r \in [at : {"insert", "refused"}, pass : {1, 2}, msg : {req[q].msg}] :
            req' = [req EXCEPT ![q] = r]
      BY <2>2, MoveTyped DEF Positions
    <2> QED
      BY <1>3, <2>1, <2>3, MovePreserves DEF SelectDrift, Positions
  <1>4. CASE Reselect(q)
    <2>1. req[q].msg \in Messages
      BY <1>4, RequestTyped DEF Reselect
    <2>2. CASE req[q].msg \in ToSet(ledger) /\ Passed(q)
      <3>1. PICK r \in [at : {"select", "send"}, pass : {1, 2}, msg : {req[q].msg}] :
              req' = [req EXCEPT ![q] = r]
        BY <1>4, <2>2, PassedTyped DEF Reselect
      <3> QED
        BY <1>4, <2>1, <2>2, <3>1, MovePreserves DEF Reselect, Positions
    <2>3. CASE Move(q, "refused")
      <3>1. PICK r \in [at : {"refused"}, pass : {1, 2}, msg : {req[q].msg}] :
              req' = [req EXCEPT ![q] = r]
        BY <2>3, MoveTyped DEF Positions
      <3> QED
        BY <1>4, <2>1, <3>1, MovePreserves DEF Reselect, Positions
    <2> QED
      BY <1>4, <2>2, <2>3 DEF Reselect
  <1>5. CASE Lose(q)
    <2>1. req[q].msg \in Messages
      BY <1>5, RequestTyped DEF Lose, InFlight
    <2>2. PICK r \in [at : {"lost"}, pass : {1, 2}, msg : {req[q].msg}] :
            req' = [req EXCEPT ![q] = r]
      BY <1>5, MoveTyped DEF Lose, Positions
    <2> QED
      BY <1>5, <2>1, <2>2, MovePreserves DEF Lose, Positions
  <1> QED
    BY <1>1, <1>2, <1>3, <1>4, <1>5

LEMMA InsertStep ==
  ASSUME IInv, NEW q \in Requests, Insert(q)
  PROVE  IInv'
  <1> DEFINE m == req[q].msg
  <1> USE DEF IInv
  <1>1. m \in Messages
    BY RequestTyped DEF Insert
  <1>2. CASE (\E n \in ToSet(ledger) : SameRow(m, n)) /\ Move(q, "reselect") /\ UNCHANGED ledger
    <2>1. PICK r \in [at : {"reselect"}, pass : {1, 2}, msg : {m}] : req' = [req EXCEPT ![q] = r]
      BY <1>2, MoveTyped DEF Positions
    <2> QED
      BY <1>1, <1>2, <2>1, MovePreserves DEF Insert, Positions
  <1>3. CASE (\A n \in ToSet(ledger) : ~SameRow(m, n)) /\ ledger' = Append(ledger, m) /\ Passed(q)
    <2>1. PICK r \in [at : {"select", "send"}, pass : {1, 2}, msg : {m}] : req' = [req EXCEPT ![q] = r]
      BY <1>3, PassedTyped DEF Insert
    <2>2. /\ ledger' \in Seq(Messages)
          /\ Len(ledger') = Len(ledger) + 1 /\ Len(ledger) \in Nat
          /\ ledger'[Len(ledger) + 1] = m
          /\ \A a \in 1..Len(ledger) : ledger'[a] = ledger[a]
          /\ ToSet(ledger') = ToSet(ledger) \cup {m}
      BY <1>1, <1>3, AppendFacts DEF TypeOK
    <2>3. \A a \in 1..Len(ledger) : ~SameRow(m, ledger[a]) /\ ~SameRow(ledger[a], m)
      BY <1>3, ToSetFacts DEF TypeOK, SameRow, SameKey
    <2>4. \A a, b \in 1..Len(ledger') : SameRow(ledger'[a], ledger'[b]) => a = b
      BY <2>2, <2>3 DEF LedgerInv
    <2>5. UNCHANGED <<opened, waiting, taken, sent>>
      BY DEF Insert, runVars
    <2>6. TypeOK'
      BY <1>1, <2>1, <2>2, <2>5 DEF TypeOK, Positions
    <2>7. \A p \in Requests :
            /\ req'[p].at # "idle" => req'[p].msg \in Messages
            /\ req'[p].at = "reselect" => \E n \in ToSet(ledger') : SameRow(req'[p].msg, n)
            /\ req'[p].at \in {"send", "ok"} => req'[p].msg \in ToSet(ledger')
      BY <1>1, <2>1, <2>2 DEF TypeOK, LedgerInv
    <2>8. LedgerInv'
      BY <2>2, <2>4, <2>5, <2>7 DEF LedgerInv
    <2> QED
      BY <2>5, <2>6, <2>8, GatesStay DEF runVars
  <1> QED
    BY <1>2, <1>3 DEF Insert

LEMMA SendStep ==
  ASSUME IInv, NEW q \in Requests, Send(q)
  PROVE  IInv'
  <1> DEFINE m == req[q].msg
  <1> USE DEF IInv
  <1>1. m \in Messages /\ m \in ToSet(ledger)
    BY RequestTyped DEF Send, LedgerInv
  <1>2. PICK r \in [at : {"ok"}, pass : {1, 2}, msg : {m}] : req' = [req EXCEPT ![q] = r]
    BY MoveTyped DEF Send, Positions
  <1>3. CASE UNCHANGED sent
    BY <1>1, <1>2, <1>3, MovePreserves DEF Send, Positions
  <1>4. CASE (\A n \in ToSet(sent) : n.key # m.key) /\ sent' = Append(sent, m)
    <2>1. /\ sent' \in Seq(Messages)
          /\ Len(sent') = Len(sent) + 1 /\ Len(sent) \in Nat
          /\ sent'[Len(sent) + 1] = m
          /\ \A a \in 1..Len(sent) : sent'[a] = sent[a]
          /\ ToSet(sent') = ToSet(sent) \cup {m}
      BY <1>1, <1>4, AppendFacts DEF TypeOK
    <2>2. \A a \in 1..Len(sent) : sent[a].key # m.key
      BY <1>4, ToSetFacts DEF TypeOK
    <2>3. \A a, b \in 1..Len(sent') : sent'[a].key = sent'[b].key => a = b
      BY <2>1, <2>2 DEF LedgerInv
    <2>4. UNCHANGED <<opened, waiting, taken, ledger>>
      BY DEF Send, runVars
    <2>5. TypeOK'
      BY <1>1, <1>2, <2>1, <2>4 DEF TypeOK, Positions
    <2>6. \A p \in Requests :
            /\ req'[p].at # "idle" => req'[p].msg \in Messages
            /\ req'[p].at = "reselect" => \E n \in ToSet(ledger) : SameRow(req'[p].msg, n)
            /\ req'[p].at \in {"send", "ok"} => req'[p].msg \in ToSet(ledger)
      BY <1>1, <1>2 DEF TypeOK, LedgerInv
    <2>7. LedgerInv'
      BY <1>1, <2>1, <2>3, <2>4, <2>6 DEF LedgerInv
    <2> QED
      BY <2>4, <2>5, <2>7, GatesStay DEF runVars
  <1> QED
    BY <1>3, <1>4 DEF Send

LEMMA StepIInv == IInv /\ [Next]_vars => IInv'
  <1> SUFFICES ASSUME IInv, [Next]_vars PROVE IInv'
    OBVIOUS
  <1>1. CASE UNCHANGED vars
    <2>1. TypeOK' /\ LedgerInv'
      BY <1>1 DEF IInv, TypeOK, LedgerInv, vars, runVars
    <2> QED
      BY <1>1, <2>1, GatesStay DEF IInv, vars
  <1> QED
    BY <1>1, WorkflowSteps, RequestSteps, InsertStep, SendStep DEF Next, RequestStep

\* The ledger's key is unique, what DBOS delivered is recorded, and a request
\* that goes on to the send has its row, for every instance.
THEOREM Invariance == Spec => []IInv
  <1>1. Init => IInv
    BY InitIInv
  <1> QED
    BY <1>1, StepIInv, PTL DEF Spec, IInv
-----------------------------------------------------------------------------
\* Two accepted requests of one lane with one key carried the same answer
\* (insertHumanInteraction's check of the row that was in the way).
THEOREM Conflicts == Spec => []ConflictRefused
  <1>1. IInv => ConflictRefused
    <2> SUFFICES ASSUME IInv, NEW p \in Requests, NEW q \in Requests,
                        req[p].at = "ok", req[q].at = "ok", SameRow(req[p].msg, req[q].msg)
                 PROVE  req[p].msg = req[q].msg
      BY DEF ConflictRefused
    <2>1. req[p].msg \in ToSet(ledger) /\ req[q].msg \in ToSet(ledger)
      BY DEF IInv, LedgerInv
    <2>2. PICK a \in 1..Len(ledger), b \in 1..Len(ledger) :
            ledger[a] = req[p].msg /\ ledger[b] = req[q].msg
      BY <2>1, ToSetFacts DEF IInv, TypeOK
    <2> QED
      BY <2>2 DEF IInv, LedgerInv
  <1> QED
    BY <1>1, Invariance, PTL DEF IInv

\* What a gate decides on is a row of the ledger.
THEOREM Recorded == Spec => []TakenIsRecorded
  <1>1. Init => TakenIsRecorded
    BY MarkersAreNoMessages DEF Init, TakenIsRecorded
  <1>2. IInv /\ TakenIsRecorded /\ [Next]_vars => TakenIsRecorded'
    <2> SUFFICES ASSUME IInv, TakenIsRecorded, [Next]_vars,
                        NEW g \in Gates, taken'[g] \in Messages
                 PROVE  taken'[g] \in ToSet(ledger')
      BY DEF TakenIsRecorded
    <2>1. ToSet(ledger) \subseteq ToSet(ledger')
      <3>1. CASE UNCHANGED ledger
        BY <3>1
      <3>2. CASE \E q \in Requests : Insert(q) /\ ledger' = Append(ledger, req[q].msg)
        BY <3>2, RequestTyped, AppendFacts DEF IInv, TypeOK, Insert
      <3> QED
        BY <3>1, <3>2 DEF Next, RequestStep, OpenGate, TakeAnswer, Admit, Forward,
                          SelectDrift, Insert, Reselect, Send, Lose, vars
    <2>2. CASE UNCHANGED taken
      BY <2>1, <2>2 DEF TakenIsRecorded
    <2>3. CASE TakeAnswer
      <3>1. UNCHANGED taken \/ taken'[g] = taken[g] \/ taken'[g] = TimedOut
              \/ \E a \in 1..Len(sent) : taken'[g] = sent[a]
        BY <2>3 DEF TakeAnswer, IInv, TypeOK
      <3>2. \A a \in 1..Len(sent) : sent[a] \in ToSet(ledger)
        BY ToSetFacts DEF IInv, TypeOK, LedgerInv
      <3> QED
        BY <2>1, <3>1, <3>2, MarkersAreNoMessages DEF TakenIsRecorded
    <2> QED
      BY <2>2, <2>3 DEF Next, RequestStep, OpenGate, Admit, Forward, SelectDrift,
                        Insert, Reselect, Send, Lose, vars, runVars
  <1> QED
    BY <1>1, <1>2, Invariance, PTL DEF Spec, IInv
-----------------------------------------------------------------------------
(* The contract. *)

\* A step of the workflow decides the gate that waits, or none.
LEMMA WorkflowKeeps ==
  ASSUME IInv, OpenGate \/ TakeAnswer
  PROVE  Contract!ANext \/ UNCHANGED Contract!avars
  <1> USE DEF IInv, Contract!ANext, Contract!avars
  <1>1. CASE OpenGate
    BY <1>1 DEF OpenGate
  <1>2. CASE TakeAnswer
    <2>1. UNCHANGED <<ToSet(ledger), sent>>
      BY <1>2 DEF TakeAnswer
    <2>2. LatestGate \in Gates /\ taken[LatestGate] = None
      BY <1>2 DEF TakeAnswer, LedgerInv, GateInv, TypeOK, LatestGate
    <2>3. CASE \E a \in 1..Len(sent) :
                 FirstOn(LatestGate, a) /\ taken' = [taken EXCEPT ![LatestGate] = sent[a]]
      <3>1. Contract!Decided(LatestGate)
        BY <2>1, <2>2, <2>3 DEF Contract!Decided, Contract!For, FirstOn, OnTopic
      <3> QED
        BY <2>2, <3>1
    <2>4. CASE /\ \A m \in ToSet(sent) : ~OnTopic(m, LatestGate)
               /\ taken' = [taken EXCEPT ![LatestGate] = TimedOut]
      <3>1. Contract!GivesUp(LatestGate)
        BY <2>1, <2>2, <2>4 DEF Contract!GivesUp, Contract!For, Contract!ToSet, ToSet, OnTopic
      <3> QED
        BY <2>2, <3>1
    <2> QED
      BY <1>2, <2>3, <2>4 DEF TakeAnswer
  <1> QED
    BY <1>1, <1>2

\* A step of a request notes its answer, delivers it, or does neither.
LEMMA RequestKeeps ==
  ASSUME IInv, NEW q \in Requests, RequestStep(q)
  PROVE  Contract!ANext \/ UNCHANGED Contract!avars
  <1> USE DEF IInv, Contract!ANext, Contract!avars
  <1> DEFINE m == req[q].msg
  <1>1. CASE Insert(q) /\ ledger' = Append(ledger, m)
    <2>1. m \in Messages /\ UNCHANGED <<sent, taken>>
      BY <1>1, RequestTyped DEF Insert, runVars
    <2>2. ToSet(ledger') = ToSet(ledger) \cup {m}
      BY <1>1, <2>1, AppendFacts DEF TypeOK
    <2>3. \A n \in ToSet(ledger) : ~SameRow(m, n)
      BY <1>1, <2>1, AppendFacts DEF Insert, TypeOK
    <2>4. Contract!Note
      BY <2>1, <2>2, <2>3 DEF Contract!Note, SameRow, SameKey
    <2> QED
      BY <2>4
  <1>2. CASE Send(q) /\ sent' = Append(sent, m) /\ \A n \in ToSet(sent) : n.key # m.key
    <2>1. m \in ToSet(ledger)
      BY <1>2 DEF Send, LedgerInv
    <2>2. UNCHANGED <<ledger, taken>>
      BY <1>2 DEF Send, runVars
    <2>3. Contract!Deliver
      BY <1>2, <2>1, <2>2 DEF Contract!Deliver, Contract!ToSet, ToSet
    <2> QED
      BY <2>3
  <1>3. CASE UNCHANGED <<ledger, sent, taken>>
    BY <1>3
  <1> QED
    BY <1>1, <1>2, <1>3 DEF RequestStep, Admit, Forward, SelectDrift, Insert,
                            Reselect, Send, Lose, runVars

\* The requests, the ledger, the mailbox and the gates implement the contract:
\* every statement and every death of a server is a step of it, or none.
THEOREM Refinement == Spec => KeepsAnswers
  <1>1. Init => Contract!AInit
    BY DEF Init, Contract!AInit, ToSet
  <1>2. IInv /\ [Next]_vars => [Contract!ANext]_(Contract!avars)
    <2> SUFFICES ASSUME IInv, [Next]_vars
                 PROVE  Contract!ANext \/ UNCHANGED Contract!avars
      OBVIOUS
    <2>1. CASE UNCHANGED vars
      BY <2>1 DEF vars, runVars, Contract!avars
    <2> QED
      BY <2>1, WorkflowKeeps, RequestKeeps DEF Next
  <1> QED
    BY <1>1, <1>2, Invariance, PTL DEF Spec, KeepsAnswers, Contract!ASpec
-----------------------------------------------------------------------------
LEMMA SendableAreMessages == Sendable \subseteq Messages
  BY OffersAssumption, LegacyAssumption DEF Sendable, Forwarded, Messages

\* What a step leaves in the ledger and the mailbox, and what it makes of the
\* request whose step it is.
LEMMA StepShape ==
  ASSUME IInv, NEW q \in Requests, RequestStep(q)
  PROVE  /\ \A p \in Requests : p # q => req'[p] = req[p]
         /\ \/ req[q].at # "idle" /\ req'[q].msg = req[q].msg
            \/ req'[q].at = "select" /\ req'[q].msg \in Sendable
         /\ \/ ledger' = ledger
            \/ ledger' = Append(ledger, req[q].msg) /\ req[q].at = "insert"
         /\ \/ sent' = sent /\ (req'[q].at # "ok" \/ req[q].at = "ok")
            \/ /\ req[q].at = "send" /\ ledger' = ledger
               /\ \/ sent' = Append(sent, req[q].msg)
                  \/ sent' = sent /\ \E n \in ToSet(sent) : n.key = req[q].msg.key
         /\ req'[q].at = "refused" => SelectDrift(q) \/ Reselect(q)
  <1>0. req[q] \in [at : Positions, pass : {1, 2}, msg : Messages \cup {None}]
    BY DEF IInv, TypeOK
  <1>a. \A pos \in Positions : Move(q, pos) =>
          /\ req'[q].msg = req[q].msg /\ req'[q].at = pos
          /\ \A p \in Requests : p # q => req'[p] = req[p]
    BY DEF IInv, TypeOK, Move
  <1>b. Passed(q) /\ req[q].at # "idle" =>
          /\ req'[q].msg = req[q].msg /\ req'[q].at \in {"select", "send"}
          /\ \A p \in Requests : p # q => req'[p] = req[p]
    <2> SUFFICES ASSUME Passed(q), req[q].at # "idle"
                 PROVE  /\ req'[q].msg = req[q].msg /\ req'[q].at \in {"select", "send"}
                        /\ \A p \in Requests : p # q => req'[p] = req[p]
      OBVIOUS
    <2>1. PICK r \in [at : {"select", "send"}, pass : {1, 2}, msg : {req[q].msg}] :
            req' = [req EXCEPT ![q] = r]
      BY PassedTyped
    <2> QED
      BY <2>1 DEF IInv, TypeOK
  <1>1. CASE Admit(q)
    <2>1. PICK m \in Offers : req' = [req EXCEPT ![q] = [at |-> "select", pass |-> 1, msg |-> m]]
      BY <1>1 DEF Admit
    <2>2. /\ req'[q].at = "select" /\ req'[q].msg = m
          /\ \A p \in Requests : p # q => req'[p] = req[p]
      BY <2>1 DEF IInv, TypeOK
    <2> QED
      BY <1>1, <2>2 DEF Admit, Sendable
  <1>2. CASE Forward(q)
    <2>1. PICK g \in Gates :
            req' = [req EXCEPT ![q] = [at |-> "select", pass |-> 2, msg |-> Forwarded(g)]]
      <3>1. opened # <<>> => LatestGate \in Gates
        BY DEF IInv, TypeOK, LatestGate
      <3> QED
        BY <1>2, <3>1, LegacyAssumption DEF Forward
    <2>2. /\ req'[q].at = "select" /\ req'[q].msg = Forwarded(g)
          /\ \A p \in Requests : p # q => req'[p] = req[p]
      BY <2>1 DEF IInv, TypeOK
    <2> QED
      BY <1>2, <2>2 DEF Forward, Sendable
  <1>3. CASE SelectDrift(q)
    <2>1. Move(q, "insert") \/ Move(q, "refused")
      BY <1>3 DEF SelectDrift
    <2> QED
      BY <1>3, <1>a, <2>1 DEF SelectDrift, Positions
  <1>4. CASE Insert(q)
    BY <1>4, <1>a, <1>b DEF Insert, Positions
  <1>5. CASE Reselect(q)
    BY <1>5, <1>a, <1>b DEF Reselect, Positions
  <1>6. CASE Send(q)
    BY <1>6, <1>a DEF Send, Positions
  <1>7. CASE Lose(q)
    BY <1>7, <1>a DEF Lose, Positions, InFlight
  <1> QED
    BY <1>1, <1>2, <1>3, <1>4, <1>5, <1>6, <1>7 DEF RequestStep

\* The ledger and the mailbox only grow, by what a request carries.
LEMMA Growth ==
  ASSUME IInv, NEW q \in Requests, RequestStep(q)
  PROVE  /\ ToSet(ledger') \in {ToSet(ledger), ToSet(ledger) \cup {req[q].msg}}
         /\ ToSet(ledger') # ToSet(ledger) => req[q].at = "insert"
         /\ ToSet(sent) \subseteq ToSet(sent')
         /\ sent' # sent => req[q].msg \in ToSet(sent')
  <1>1. req[q].at # "idle" => req[q].msg \in Messages
    BY RequestTyped
  <1>2. CASE ledger' = Append(ledger, req[q].msg) /\ req[q].at = "insert"
    <2>1. ToSet(ledger') = ToSet(ledger) \cup {req[q].msg}
      BY <1>1, <1>2, AppendFacts DEF IInv, TypeOK
    <2>2. sent' = sent
      BY <1>2, StepShape
    <2> QED
      BY <1>2, <2>1, <2>2
  <1>3. CASE ledger' = ledger
    <2>1. CASE sent' = Append(sent, req[q].msg) /\ req[q].at = "send"
      <3>1. ToSet(sent') = ToSet(sent) \cup {req[q].msg}
        BY <1>1, <2>1, AppendFacts DEF IInv, TypeOK
      <3> QED
        BY <1>3, <3>1
    <2>2. CASE sent' = sent
      BY <1>3, <2>2
    <2> QED
      BY <2>1, <2>2, StepShape
  <1> QED
    BY <1>2, <1>3, StepShape

\* A request is refused because another answer has its key.
LEMMA RefusalCause ==
  ASSUME IInv, NEW q \in Requests, SelectDrift(q) \/ Reselect(q), req'[q].at = "refused"
  PROVE  \E n \in ToSet(ledger) : SameKey(req[q].msg, n) /\ n # req[q].msg
  <1>0. req \in [Requests -> [at : Positions, pass : {1, 2}, msg : Messages \cup {None}]]
    BY DEF IInv, TypeOK
  <1>1. \A pos \in Positions : Move(q, pos) => req'[q].at = pos
    BY <1>0 DEF Move
  <1>2. CASE SelectDrift(q)
    <2>1. ~Move(q, "insert")
      BY <1>1 DEF Positions
    <2>2. PICK a \in 1..Len(ledger) : /\ LatestRow(req[q].msg, a)
                                      /\ Move(q, IF ledger[a] = req[q].msg THEN "insert" ELSE "refused")
      BY <1>2, <2>1 DEF SelectDrift
    <2>3. ledger[a] # req[q].msg /\ SameKey(req[q].msg, ledger[a])
      BY <2>1, <2>2 DEF LatestRow
    <2>4. ledger[a] \in ToSet(ledger)
      BY ToSetFacts DEF IInv, TypeOK
    <2> QED
      BY <2>3, <2>4
  <1>3. CASE Reselect(q)
    <2>1. ~Passed(q)
      <3> SUFFICES ASSUME Passed(q) PROVE FALSE
        OBVIOUS
      <3>1. PICK r \in [at : {"select", "send"}, pass : {1, 2}, msg : {req[q].msg}] :
              req' = [req EXCEPT ![q] = r]
        BY <1>3, PassedTyped DEF Reselect
      <3> QED
        BY <1>0, <3>1
    <2>2. req[q].msg \notin ToSet(ledger)
      BY <1>3, <2>1 DEF Reselect
    <2>3. PICK n \in ToSet(ledger) : SameRow(req[q].msg, n)
      BY <1>3 DEF Reselect, IInv, LedgerInv
    <2> QED
      BY <2>2, <2>3 DEF SameRow
  <1> QED
    BY <1>2, <1>3

\* Where a key is for one topic of one gate, an answer whose key was used before
\* is the answer that was sent.
LEMMA SentAlready ==
  ASSUME IInv, OnlyAnswersEnter, KeysOfOneTopic, NEW q \in Requests, req[q].at = "send",
         NEW n \in ToSet(sent), n.key = req[q].msg.key
  PROVE  req[q].msg \in ToSet(sent)
  <1>1. n \in ToSet(ledger) /\ req[q].msg \in ToSet(ledger)
    BY DEF IInv, LedgerInv
  <1>2. n \in Sendable /\ req[q].msg \in Sendable
    BY <1>1 DEF OnlyAnswersEnter
  <1>3. SameRow(n, req[q].msg)
    BY <1>2 DEF KeysOfOneTopic, SameRow, SameKey
  <1>4. PICK a \in 1..Len(ledger), b \in 1..Len(ledger) : ledger[a] = n /\ ledger[b] = req[q].msg
    BY <1>1, ToSetFacts DEF IInv, TypeOK
  <1> QED
    BY <1>3, <1>4 DEF IInv, LedgerInv

\* Whoever was told "ok" is in the mailbox, and whoever was refused was in
\* conflict with another answer, provided that clients use a key for one topic
\* of one gate (the code does not make them).
THEOREM Honest == KeysOfOneTopic => (Spec => []AnswersHonest)
  <1> SUFFICES ASSUME KeysOfOneTopic PROVE Spec => []AnswersHonest
    OBVIOUS
  <1>1. Init => AnswersHonest
    <2> SUFFICES ASSUME Init PROVE AnswersHonest
      OBVIOUS
    <2>1. ToSet(ledger) = {}
      BY DEF Init, ToSet
    <2> QED
      BY <2>1 DEF Init, AnswersHonest, OnlyAnswersEnter, AcceptedIsDelivered, RefusedForCause
  <1>2. IInv /\ AnswersHonest /\ [Next]_vars => AnswersHonest'
    <2> SUFFICES ASSUME IInv, AnswersHonest, [Next]_vars PROVE AnswersHonest'
      OBVIOUS
    <2>1. CASE UNCHANGED <<ledger, sent, req>>
      BY <2>1 DEF AnswersHonest, OnlyAnswersEnter, AcceptedIsDelivered, RefusedForCause
    <2>2. CASE \E q \in Requests : RequestStep(q)
      <3>1. PICK q \in Requests : RequestStep(q)
        BY <2>2
      <3>2. /\ \A p \in Requests : p # q => req'[p] = req[p]
            /\ \/ req[q].at # "idle" /\ req'[q].msg = req[q].msg
               \/ req'[q].at = "select" /\ req'[q].msg \in Sendable
        BY <3>1, StepShape
      <3>3. /\ ToSet(ledger') \in {ToSet(ledger), ToSet(ledger) \cup {req[q].msg}}
            /\ ToSet(ledger') # ToSet(ledger) => req[q].at = "insert"
            /\ ToSet(sent) \subseteq ToSet(sent')
            /\ sent' # sent => req[q].msg \in ToSet(sent')
        BY <3>1, Growth
      <3>4. OnlyAnswersEnter'
        BY <3>2, <3>3 DEF AnswersHonest, OnlyAnswersEnter
      <3>5. AcceptedIsDelivered'
        <4> SUFFICES ASSUME NEW p \in Requests, req'[p].at = "ok"
                     PROVE  req'[p].msg \in ToSet(sent')
          BY DEF AcceptedIsDelivered
        <4>1. CASE p # q
          BY <3>2, <3>3, <4>1 DEF AnswersHonest, AcceptedIsDelivered
        <4>2. CASE p = q
          <5>1. req'[q].msg = req[q].msg
            BY <3>2, <4>2
          <5>2. CASE sent' # sent
            BY <3>3, <4>2, <5>1, <5>2
          <5>3. CASE sent' = sent /\ req[q].at = "ok"
            BY <4>2, <5>1, <5>3 DEF AnswersHonest, AcceptedIsDelivered
          <5>4. CASE sent' = sent /\ req[q].at = "send" /\ \E n \in ToSet(sent) : n.key = req[q].msg.key
            BY <4>2, <5>1, <5>4, SentAlready DEF AnswersHonest
          <5> QED
            BY <3>1, <4>2, <5>2, <5>3, <5>4, StepShape
        <4> QED
          BY <4>1, <4>2
      <3>6. RefusedForCause'
        <4> SUFFICES ASSUME NEW p \in Requests, req'[p].at = "refused"
                     PROVE  \E n \in ToSet(ledger') : SameKey(req'[p].msg, n) /\ n # req'[p].msg
          BY DEF RefusedForCause
        <4>1. CASE p # q
          BY <3>2, <3>3, <4>1 DEF AnswersHonest, RefusedForCause
        <4>2. CASE p = q
          <5>1. SelectDrift(q) \/ Reselect(q)
            BY <3>1, <4>2, StepShape
          <5>2. \E n \in ToSet(ledger) : SameKey(req[q].msg, n) /\ n # req[q].msg
            BY <4>2, <5>1, RefusalCause
          <5> QED
            BY <3>2, <3>3, <4>2, <5>2
        <4> QED
          BY <4>1, <4>2
      <3> QED
        BY <3>4, <3>5, <3>6 DEF AnswersHonest
    <2> QED
      BY <2>1, <2>2 DEF Next, OpenGate, TakeAnswer, vars
  <1> QED
    BY <1>1, <1>2, Invariance, PTL DEF Spec
-----------------------------------------------------------------------------
(* The doors. *)

\* The doors' tables make sequences of stages.
LEMMA StagesTyped ==
  ASSUME TwoFaultsHonest, NEW o \in Operations, NEW d \in DoorsOf(o)
  PROVE  /\ Len(Stages(d, o)) \in Nat /\ DOMAIN Stages(d, o) = 1..Len(Stages(d, o))
         /\ d \in Doors
  <1>1. Repeatable(o, FALSE)
    BY DEF Repeatable
  <1> QED
    BY <1>1 DEF TwoFaultsHonest, DoorsOf

\* Passing one more stage does what that stage does.
LEMMA WrittenNext ==
  ASSUME NEW d, NEW o, NEW n \in Nat
  PROVE  Written(d, o, n + 1) =
           Written(d, o, n) \cup IF Stages(d, o)[n + 1].writes
                                   THEN {Stages(d, o)[n + 1].at} ELSE {}
  <1>1. 1..n + 1 = (1..n) \cup {n + 1}
    OBVIOUS
  <1> QED
    BY <1>1 DEF Written

LEMMA SurfacesInit == TwoFaultsHonest /\ (StartCase \/ StartIdle) => SurfacesInv
  <1> SUFFICES ASSUME TwoFaultsHonest, StartCase \/ StartIdle PROVE SurfacesInv
    OBVIOUS
  <1>1. /\ at = [d \in Doors |-> 0] /\ hit = [d \in Doors |-> "none"]
        /\ wrote = [d \in Doors |-> {}] /\ answer = [d \in Doors |-> NoAnswer]
    BY DEF StartCase, StartIdle, NothingAsked
  <1>2. op = "none" \/ (op \in Operations /\ replay \in BOOLEAN /\ Repeatable(op, replay))
    BY DEF StartCase, StartIdle
  <1>3. ASSUME NEW d \in Doors, op # "none", d \in DoorsOf(op) PROVE DoorInv(d)
    <2>1. Len(Stages(d, op)) \in Nat
      BY <1>2, <1>3, StagesTyped
    <2>2. at[d] = 0 /\ wrote[d] = {} /\ answer[d] = NoAnswer /\ hit[d] = "none"
      BY <1>1
    <2>3. Written(d, op, 0) = {}
      BY DEF Written
    <2> QED
      BY <2>1, <2>2, <2>3 DEF DoorInv
  <1> QED
    BY <1>1, <1>2, <1>3 DEF SurfacesInv

\* A step at one door keeps the invariant at that door.
LEMMA DoorStep ==
  ASSUME TwoFaultsHonest, SurfacesInv, NEW d \in Doors,
         Pass(d) \/ Refuse(d) \/ Succeed(d)
  PROVE  DoorInv(d)'
  <1>1. /\ op \in Operations /\ d \in DoorsOf(op) /\ DoorInv(d) /\ answer[d] = NoAnswer
        /\ UNCHANGED <<op, faults, replay>>
    BY DEF Pass, Refuse, Succeed, Asked, Answers, SurfacesInv
  <1>2. /\ Len(Stages(d, op)) \in Nat /\ DOMAIN Stages(d, op) = 1..Len(Stages(d, op))
        /\ at[d] \in 0..Len(Stages(d, op))
    BY <1>1, StagesTyped DEF DoorInv
  <1>3. CASE Pass(d)
    <2>1. /\ at'[d] = at[d] + 1 /\ answer' = answer
          /\ wrote'[d] = wrote[d] \cup IF Stages(d, op)[at[d] + 1].writes
                                         THEN {Stages(d, op)[at[d] + 1].at} ELSE {}
          /\ at[d] < Len(Stages(d, op)) /\ ~Wrong(Stages(d, op)[at[d] + 1], faults, replay)
      BY <1>3 DEF Pass, SurfacesInv, Stage, Fails
    <2>2. wrote'[d] = Written(d, op, at[d] + 1)
      <3>1. wrote[d] = Written(d, op, at[d]) /\ at[d] \in Nat
        BY <1>1, <1>2 DEF DoorInv
      <3>2. Written(d, op, at[d] + 1) =
              Written(d, op, at[d]) \cup IF Stages(d, op)[at[d] + 1].writes
                                          THEN {Stages(d, op)[at[d] + 1].at} ELSE {}
        BY <3>1, WrittenNext
      <3> QED
        BY <2>1, <3>1, <3>2
    <2>3. \A k \in 1..at[d] + 1 : ~Wrong(Stages(d, op)[k], faults, replay)
      BY <1>1, <1>2, <2>1 DEF DoorInv
    <2>4. at'[d] \in 0..Len(Stages(d, op)) /\ answer'[d] = NoAnswer /\ hit'[d] = "none"
      BY <1>1, <1>2, <1>3, <2>1 DEF Pass, DoorInv
    <2> QED
      BY <1>1, <2>1, <2>2, <2>3, <2>4 DEF DoorInv
  <1>4. CASE Refuse(d) \/ Succeed(d)
    <2>1. UNCHANGED <<at, wrote>>
      BY <1>4 DEF Refuse, Succeed, Answers
    <2>2. /\ FailsFirst(d, op, faults, replay, at[d] + 1)
          /\ [hit |-> hit'[d], answer |-> answer'[d], wrote |-> wrote[d]]
               = EndAt(d, op, replay, at[d] + 1)
      <3>1. /\ (at[d] + 1) - 1 = at[d]
            /\ \A k \in 1..(at[d] + 1) - 1 : ~Wrong(Stages(d, op)[k], faults, replay)
            /\ wrote[d] = Written(d, op, (at[d] + 1) - 1)
        BY <1>1, <1>2 DEF DoorInv
      <3>2. CASE Refuse(d)
        <4>1. /\ at[d] + 1 \in DOMAIN Stages(d, op)
              /\ Wrong(Stages(d, op)[at[d] + 1], faults, replay)
          BY <1>2, <3>2 DEF Refuse, Fails, Stage
        <4>2. /\ hit'[d] = Stages(d, op)[at[d] + 1].at
              /\ answer'[d] = [status |-> StatusOf(d, op, Stages(d, op)[at[d] + 1].error),
                               ending |-> Ending(Stages(d, op)[at[d] + 1].error)]
          BY <3>2 DEF Refuse, Answers, Stage, SurfacesInv
        <4>3. FailsFirst(d, op, faults, replay, at[d] + 1)
          BY <3>1, <4>1 DEF FailsFirst
        <4>4. EndAt(d, op, replay, at[d] + 1) =
                [hit |-> hit'[d], wrote |-> wrote[d], answer |-> answer'[d]]
          BY <3>1, <4>1, <4>2 DEF EndAt
        <4> QED
          BY <4>3, <4>4
      <3>3. CASE Succeed(d)
        <4>1. at[d] + 1 \notin DOMAIN Stages(d, op)
          BY <1>2, <3>3 DEF Succeed
        <4>2. /\ hit'[d] = hit[d]
              /\ answer'[d] = [status |-> OkStatus(d, op, replay), ending |-> "whole"]
          BY <3>3 DEF Succeed, Answers, SurfacesInv
        <4>3. hit[d] = "none"
          BY <1>1 DEF DoorInv
        <4>4. FailsFirst(d, op, faults, replay, at[d] + 1)
          BY <3>1, <4>1 DEF FailsFirst
        <4>5. EndAt(d, op, replay, at[d] + 1) =
                [hit |-> hit'[d], wrote |-> wrote[d], answer |-> answer'[d]]
          BY <3>1, <4>1, <4>2, <4>3 DEF EndAt
        <4> QED
          BY <4>4, <4>5
      <3> QED
        BY <1>4, <3>2, <3>3
    <2>3. answer'[d] # NoAnswer
      BY <1>4 DEF Refuse, Succeed, Answers, SurfacesInv, NoAnswer, Ending
    <2> QED
      BY <1>1, <2>1, <2>2, <2>3 DEF DoorInv, End
  <1> QED
    BY <1>3, <1>4

LEMMA SurfacesNext ==
  TwoFaultsHonest /\ SurfacesInv /\ [SurfacesStep]_surfaceVars => SurfacesInv'
  <1> SUFFICES ASSUME TwoFaultsHonest, SurfacesInv, [SurfacesStep]_surfaceVars
               PROVE  SurfacesInv'
    OBVIOUS
  <1>1. CASE UNCHANGED surfaceVars
    BY <1>1 DEF surfaceVars, SurfacesInv, DoorInv, End
  <1>2. ASSUME NEW d \in Doors, Pass(d) \/ Refuse(d) \/ Succeed(d)
        PROVE  SurfacesInv'
    <2>1. op # "none" /\ d \in DoorsOf(op) /\ UNCHANGED <<op, faults, replay>>
      BY <1>2 DEF Pass, Refuse, Succeed, Asked, Answers
    <2>2. /\ DOMAIN at' = Doors /\ DOMAIN hit' = Doors
          /\ DOMAIN wrote' = Doors /\ DOMAIN answer' = Doors
      BY <1>2 DEF Pass, Refuse, Succeed, Answers, SurfacesInv
    <2>3. DoorInv(d)'
      BY <1>2, DoorStep
    <2>4. ASSUME NEW e \in Doors, e # d
          PROVE  /\ at'[e] = at[e] /\ hit'[e] = hit[e]
                 /\ wrote'[e] = wrote[e] /\ answer'[e] = answer[e]
      BY <1>2, <2>4 DEF Pass, Refuse, Succeed, Answers, SurfacesInv
    <2>5. ASSUME NEW e \in Doors, e # d, DoorInv(e)
          PROVE  DoorInv(e)'
      BY <2>1, <2>4, <2>5 DEF DoorInv, End
    <2>6. \A e \in Doors : IF op # "none" /\ e \in DoorsOf(op) THEN DoorInv(e)'
                                                             ELSE answer'[e] = NoAnswer
      BY <2>1, <2>3, <2>4, <2>5 DEF SurfacesInv
    <2> QED
      BY <2>1, <2>2, <2>6 DEF SurfacesInv
  <1> QED
    BY <1>1, <1>2 DEF SurfacesStep

\* The stage that goes wrong first is one that goes wrong.
LEMMA FirstIsWrong ==
  ASSUME NEW d, NEW o, NEW fs, NEW again, NEW i, FailsFirst(d, o, fs, again, i)
  PROVE  At(d, o, i) \subseteq fs
  BY DEF FailsFirst, At, Wrong

\* It is the first still if fewer stages go wrong, as long as it does.
LEMMA FirstOfFewer ==
  ASSUME NEW d, NEW o, NEW fs, NEW few, NEW again, NEW i, FailsFirst(d, o, fs, again, i),
         few \subseteq fs, At(d, o, i) \subseteq few
  PROVE  FailsFirst(d, o, few, again, i)
  BY DEF FailsFirst, At, Wrong

\* Any two doors that have answered meet as they would if nothing but their own
\* first faults had gone wrong.
LEMMA DoorsMeet ==
  ASSUME TwoFaultsHonest, SurfacesInv, NEW d \in Doors, NEW e \in Doors, Answered({d, e})
  PROVE  /\ op \in Operations /\ replay \in BOOLEAN /\ Repeatable(op, replay)
         /\ {d, e} \subseteq DoorsOf(op)
         /\ \E i \in Places(d, op), j \in Places(e, op) :
              /\ Meet(op, replay, d, i, e, j)
              /\ At(d, op, i) \cup At(e, op, j) \subseteq faults
              /\ End(d) = EndAt(d, op, replay, i) /\ End(e) = EndAt(e, op, replay, j)
  <1>1. {d, e} \subseteq DoorsOf(op) /\ answer[d] # NoAnswer /\ answer[e] # NoAnswer
    BY DEF Answered
  <1>2. op # "none" /\ DoorInv(d) /\ DoorInv(e)
    BY <1>1 DEF SurfacesInv
  <1>3. op \in Operations /\ replay \in BOOLEAN /\ Repeatable(op, replay)
    BY <1>2 DEF SurfacesInv
  <1> DEFINE i == at[d] + 1
             j == at[e] + 1
             few == At(d, op, i) \cup At(e, op, j)
  <1>4. /\ FailsFirst(d, op, faults, replay, i) /\ End(d) = EndAt(d, op, replay, i)
        /\ FailsFirst(e, op, faults, replay, j) /\ End(e) = EndAt(e, op, replay, j)
    BY <1>1, <1>2 DEF DoorInv
  <1>5. i \in Places(d, op) /\ j \in Places(e, op)
    <2>1. Len(Stages(d, op)) \in Nat /\ Len(Stages(e, op)) \in Nat
      BY <1>1, <1>3, StagesTyped
    <2>2. at[d] \in 0..Len(Stages(d, op)) /\ at[e] \in 0..Len(Stages(e, op))
      BY <1>2 DEF DoorInv
    <2> QED
      BY <2>1, <2>2 DEF Places
  <1>6. few \subseteq faults
    BY <1>4, FirstIsWrong
  <1>7. Meet(op, replay, d, i, e, j)
    <2>1. FailsFirst(d, op, few, replay, i)
      BY <1>4, <1>6, FirstOfFewer
    <2>2. FailsFirst(e, op, few, replay, j)
      BY <1>4, <1>6, FirstOfFewer
    <2> QED
      BY <2>1, <2>2 DEF Meet
  <1> QED
    BY <1>1, <1>3, <1>4, <1>5, <1>6, <1>7

LEMMA DoorsHonest == TwoFaultsHonest /\ SurfacesInv => SurfacesHonest
  <1> SUFFICES ASSUME TwoFaultsHonest, SurfacesInv PROVE SurfacesHonest
    OBVIOUS
  <1>0. {"node", "next", "legacy"} = Doors
    BY DEF Doors
  <1>1. ASSUME Answered({"node", "next"})
        PROVE  RoutersAgree(op, faults, End("node"), End("next"))
    <2>1. PICK i \in Places("node", op), j \in Places("next", op) :
            /\ Meet(op, replay, "node", i, "next", j)
            /\ At("node", op, i) \cup At("next", op, j) \subseteq faults
            /\ End("node") = EndAt("node", op, replay, i)
            /\ End("next") = EndAt("next", op, replay, j)
      BY <1>0, <1>1, DoorsMeet
    <2>2. /\ op \in Operations /\ replay \in BOOLEAN /\ Repeatable(op, replay)
          /\ {"node", "next"} \subseteq DoorsOf(op)
      BY <1>0, <1>1, DoorsMeet
    <2>3. RoutersMeet(op, replay)
      BY <2>2 DEF TwoFaultsHonest
    <2>4. RoutersAgree(op, At("node", op, i) \cup At("next", op, j), End("node"), End("next"))
      BY <2>1, <2>2, <2>3 DEF RoutersMeet
    <2> QED
      BY <2>1, <2>4 DEF RoutersAgree
  <1>2. ASSUME Answered({"node", "legacy"})
        PROVE  OlderAgrees(End("node"), End("legacy"))
    <2>1. PICK i \in Places("node", op), j \in Places("legacy", op) :
            /\ Meet(op, replay, "node", i, "legacy", j)
            /\ End("node") = EndAt("node", op, replay, i)
            /\ End("legacy") = EndAt("legacy", op, replay, j)
      BY <1>0, <1>2, DoorsMeet
    <2>2. /\ op \in Operations /\ replay \in BOOLEAN /\ Repeatable(op, replay)
          /\ {"node", "legacy"} \subseteq DoorsOf(op)
      BY <1>0, <1>2, DoorsMeet
    <2>3. OlderMeets(op, replay)
      BY <2>2 DEF TwoFaultsHonest
    <2> QED
      BY <2>1, <2>2, <2>3 DEF OlderMeets
  <1>3. ASSUME NEW d \in Doors PROVE Untouched(End(d))
    <2>1. CASE answer[d] = NoAnswer
      <3>1. End(d).answer.status = 0
        BY <2>1 DEF End, NoAnswer
      <3>2. ~Refused(End(d))
        BY <3>1 DEF Refused
      <3> QED
        BY <3>2 DEF Untouched
    <2>2. CASE answer[d] # NoAnswer
      <3>1. Answered({d, d})
        BY <2>2 DEF Answered, SurfacesInv
      <3>2. PICK i \in Places(d, op) : End(d) = EndAt(d, op, replay, i)
        BY <3>1, DoorsMeet
      <3>3. /\ op \in Operations /\ replay \in BOOLEAN /\ Repeatable(op, replay)
            /\ d \in DoorsOf(op)
        BY <3>1, DoorsMeet
      <3> QED
        BY <3>2, <3>3 DEF TwoFaultsHonest
    <2> QED
      BY <2>1, <2>2
  <1> QED
    BY <1>1, <1>2, <1>3 DEF SurfacesHonest, SurfacesAgree, RefusedUntouched

\* However many stages go wrong with a request, its doors agree and a refusal
\* has changed nothing, if that is so of the tables for two stages at most: every
\* door answers at its first fault, so two doors never tell more than two apart.
THEOREM TwoFaultsAreEnough == TwoFaultsHonest => (SurfacesSpec => []SurfacesHonest)
  <1> SUFFICES ASSUME TwoFaultsHonest PROVE SurfacesSpec => []SurfacesHonest
    OBVIOUS
  <1>1. StartCase \/ StartIdle => SurfacesInv
    BY SurfacesInit
  <1>2. SurfacesInv /\ [SurfacesStep]_surfaceVars => SurfacesInv'
    BY SurfacesNext
  <1>3. SurfacesInv => SurfacesHonest
    BY DoorsHonest
  <1> QED
    BY <1>1, <1>2, <1>3, PTL DEF SurfacesSpec
=============================================================================
