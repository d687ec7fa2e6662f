----------------------- MODULE BoardsReadModels_proofs -----------------------
(***************************************************************************)
(* Proofs about what people see: Boards, for every set of windows, runs    *)
(* and recipes and any number of acts, of requests in flight and of        *)
(* errors, and the views they ask for (ReadModels), for any number of      *)
(* moves of the world and of reads.                                        *)
(*                                                                         *)
(* The inductive invariant of Boards is what its run checks: TypeOK, that  *)
(* the requests under way fit the windows they come from (RequestsFit),    *)
(* that a key has one payload and that what was started is there.  That of *)
(* the views is ShownWasSo itself: what was found, against the worlds the  *)
(* read spans (FoundInv, HeaderInv, StepsInv, GateInv, ReproInv,           *)
(* SignoffInv).                                                            *)
(***************************************************************************)
EXTENDS Boards, ReadModels, FiniteSetTheorems, TLAPS

Inv == OneAnswerPerGate /\ StartsWhatIsThere
-----------------------------------------------------------------------------
(* Requests. *)

\* An answered request is the request with its reply.
LEMMA AnsweredFits ==
  ASSUME TypeOK, RequestsFit, NEW r \in net, NEW a \in Texts, Answered(r, a), page' = page
  PROVE  (net \subseteq Requests)' /\ RequestsFit'
  <1>1. r \in Requests /\ net \subseteq Requests
    BY DEF TypeOK
  <1> DEFINE q == [r EXCEPT !.reply = a]
  <1>2. /\ q \in Requests /\ q.win = r.win /\ q.to = r.to /\ q.id = r.id /\ q.key = r.key
        /\ q.arg = r.arg /\ q.live = r.live
    BY <1>1 DEF Requests
  <1>3. net' = (net \ {r}) \cup {q}
    BY DEF Answered
  <1> HIDE DEF q
  <1> QED
    BY <1>1, <1>2, <1>3 DEF RequestsFit, RequestFits

\* Requests that are received are gone.
LEMMA FewerFit ==
  ASSUME TypeOK, RequestsFit, page' = page, net' \subseteq net
  PROVE  (net \subseteq Requests)' /\ RequestsFit'
  BY DEF TypeOK, RequestsFit, RequestFits

\* One new request.
LEMMA OneSentFits ==
  ASSUME TypeOK, RequestsFit, NEW q, q \in Requests, RequestFits(q), page' = page,
         net' \subseteq net \cup {q}
  PROVE  (net \subseteq Requests)' /\ RequestsFit'
  BY DEF TypeOK, RequestsFit, RequestFits

\* A request of a window.
LEMMA ReqFacts ==
  ASSUME NEW b, NEW to, NEW id, NEW arg, NEW key
  PROVE  LET q == Req(b, to, id, arg, key) IN
         /\ q.win = b /\ q.to = to /\ q.id = id /\ q.arg = arg /\ q.key = key /\ q.live
         /\ (/\ b \in Windows /\ to \in {"state", "read", "reply", "op", "start"}
             /\ id \in Ids /\ arg \in Choices \cup Ops \cup Versions \cup {"none"}
             /\ key \in {"none", "default", "own"})
              => q \in Requests
  BY DEF Req, Requests, Texts, GateStates

\* The requests of the timeline and of the panels.
LEMMA FetchFits ==
  ASSUME NEW b \in Windows
  PROVE  /\ \A w \in Wids : /\ FetchState(b, w) \in Requests
                            /\ RequestFits(FetchState(b, w)) /\ RequestFits(FetchState(b, w))'
         /\ \A id \in Ids :
              /\ Req(b, "read", id, "none", "none") \in Requests
              /\ page[b].board # "run" => RequestFits(Req(b, "read", id, "none", "none"))
              /\ page'[b].board # "run" => RequestFits(Req(b, "read", id, "none", "none"))'
  <1>1. ASSUME NEW w \in Wids
        PROVE  /\ FetchState(b, w) \in Requests
               /\ RequestFits(FetchState(b, w)) /\ RequestFits(FetchState(b, w))'
    <2>1. w \in Ids
      BY DEF Ids
    <2>2. FetchState(b, w) = Req(b, "state", w, "none", "none")
      BY DEF FetchState
    <2> QED
      BY <2>1, <2>2, ReqFacts DEF RequestFits
  <1>2. ASSUME NEW id \in Ids
        PROVE  /\ Req(b, "read", id, "none", "none") \in Requests
               /\ page[b].board # "run" => RequestFits(Req(b, "read", id, "none", "none"))
               /\ page'[b].board # "run" => RequestFits(Req(b, "read", id, "none", "none"))'
    BY ReqFacts DEF RequestFits
  <1> QED
    BY <1>1, <1>2

\* What a component asks for when it is mounted.
LEMMA OnMountFits ==
  ASSUME NEW b \in Windows, NEW board \in BoardNames, NEW w \in Wids
  PROVE  /\ OnMount(b, board, w) \subseteq Requests
         /\ page[b].board = board => \A q \in OnMount(b, board, w) : RequestFits(q)
         /\ page'[b].board = board => \A q \in OnMount(b, board, w) : RequestFits(q)'
  <1>1. w \in Ids /\ "all" \in Ids
    BY DEF Ids
  <1>2. \/ OnMount(b, board, w) = {FetchState(b, w)}
        \/ board # "run" /\ OnMount(b, board, w) = {Req(b, "read", w, "none", "none")}
        \/ board # "run" /\ OnMount(b, board, w) = {Req(b, "read", "all", "none", "none")}
        \/ OnMount(b, board, w) = {}
    BY DEF OnMount
  <1> QED
    BY <1>1, <1>2, FetchFits

\* What a panel and a timeline begin with.
LEMMA FirstPanelTyped ==
  ASSUME NEW board \in BoardNames, NEW w \in Wids
  PROVE  FirstPanel(board, w) \in [key : Ids, data : Ids \cup {"error"}, says : Texts,
                            loading : BOOLEAN, error : BOOLEAN, starting : Versions]
  <1>1. w \in Ids /\ "all" \in Ids /\ "none" \in Ids /\ "none" \in Texts /\ "none" \in Versions
    <2>1. w \in Ids /\ "all" \in Ids /\ "none" \in Ids
      BY DEF Ids
    <2>2. "none" \in Texts
      BY DEF Texts
    <2>3. "none" \in Versions
      BY DEF Versions
    <2> QED
      BY <2>1, <2>2, <2>3
  <1>2. NoPanel \in [key : Ids, data : Ids \cup {"error"}, says : Texts,
                     loading : BOOLEAN, error : BOOLEAN, starting : Versions]
    BY <1>1 DEF NoPanel
  <1> QED
    BY <1>1, <1>2 DEF FirstPanel

\* A timeline, a gate card and a drawer that know of nothing yet.
LEMMA FreshTyped ==
  /\ NoLine \in [kind : {"loading", "error", "empty", "running", "waiting_input", "terminal"},
                 of : Wids \cup {"none"}, says : Texts, gate : GateStates, poll : BOOLEAN]
  /\ [NoLine EXCEPT !.poll = TRUE] \in
       [kind : {"loading", "error", "empty", "running", "waiting_input", "terminal"},
        of : Wids \cup {"none"}, says : Texts, gate : GateStates, poll : BOOLEAN]
  /\ NoCard \in [payload : Choices \cup {"none"}, key : {"default", "own"},
                 loading : BOOLEAN, note : {"none", "replay", "error"}]
  /\ NoDrawer \in [open : BOOLEAN, op : Ops \cup {"none"}, reason : BOOLEAN,
                   busy : BOOLEAN, error : BOOLEAN]
  BY DEF NoLine, NoCard, NoDrawer, Texts, GateStates

-----------------------------------------------------------------------------
(* The invariant. *)

\* Windows that show any board for the first time.
LEMMA InitInv == Init => Inv
  <1> SUFFICES ASSUME Init PROVE Inv
    OBVIOUS
  <1>0. page \in [Windows -> [board : BoardNames, wid : Wids]]
    BY DEF Init
  <1>1. PICK id \in [Windows -> Wids \cup Recipes \cup {"none", "all"}] :
          /\ panel = [b \in Windows |->
                     [FirstPanel(page[b].board, page[b].wid) EXCEPT !.key = id[b],
                        !.loading = @ \/ page[b].board \in {"recipe", "ops"}]]
          /\ net = UNION {IF page[b].board \in {"recipe", "ops"}
                         THEN {Req(b, "read", id[b], "none", "none")}
                         ELSE OnMount(b, page[b].board, page[b].wid) : b \in Windows}
    BY DEF Init
  <1>2. \A b \in Windows : id[b] \in Ids /\ page[b].board \in BoardNames /\ page[b].wid \in Wids
    BY <1>0 DEF Ids
  <1>3. \A q \in net : q \in Requests /\ RequestFits(q)
    <2> SUFFICES ASSUME NEW q \in net PROVE q \in Requests /\ RequestFits(q)
      OBVIOUS
    <2>1. PICK b \in Windows :
            q \in IF page[b].board \in {"recipe", "ops"}
                    THEN {Req(b, "read", id[b], "none", "none")}
                    ELSE OnMount(b, page[b].board, page[b].wid)
      BY <1>1
    <2> QED
      BY <1>2, <2>1, OnMountFits, FetchFits
  <1>4. panel \in [Windows -> [key : Ids, data : Ids \cup {"error"}, says : Texts,
                            loading : BOOLEAN, error : BOOLEAN, starting : Versions]]
    <2>1. ASSUME NEW b \in Windows
          PROVE  [FirstPanel(page[b].board, page[b].wid) EXCEPT !.key = id[b],
                        !.loading = @ \/ page[b].board \in {"recipe", "ops"}]
                 \in [key : Ids, data : Ids \cup {"error"}, says : Texts,
                      loading : BOOLEAN, error : BOOLEAN, starting : Versions]
      <3> DEFINE f == FirstPanel(page[b].board, page[b].wid)
                 k == id[b]
                 l == page[b].board \in {"recipe", "ops"}
      <3>1. /\ k \in Ids /\ l \in BOOLEAN
            /\ f \in [key : Ids, data : Ids \cup {"error"}, says : Texts,
                      loading : BOOLEAN, error : BOOLEAN, starting : Versions]
        BY <1>2, FirstPanelTyped
      <3> HIDE DEF f, k, l
      <3>2. [f EXCEPT !.key = k, !.loading = @ \/ l]
              \in [key : Ids, data : Ids \cup {"error"}, says : Texts,
                   loading : BOOLEAN, error : BOOLEAN, starting : Versions]
        BY <3>1
      <3> QED
        BY <3>2 DEF f, k, l
    <2> QED
      BY <1>1, <2>1
  <1>5. /\ status \in [Wids -> HeaderStatus] /\ dbos \in [Wids -> HeaderStatus]
        /\ gate \in [Wids -> GateStates]
    <2>1. PICK fresh \in {ToCome} \cup CutShort :
       /\ status = [w \in Wids |-> IF w = Fresh THEN fresh.row ELSE "SUCCESS"]
       /\ dbos = [w \in Wids |-> IF w = Fresh THEN fresh.workflow ELSE "SUCCESS"]
       /\ gate = [w \in Wids |-> IF w = Fresh THEN fresh.gate ELSE "RESOLVED"]
      BY DEF Init
    <2>2. fresh.row \in HeaderStatus /\ fresh.workflow \in HeaderStatus
          /\ fresh.gate \in GateStates
      BY DEF ToCome, CutShort, HeaderStatus, Ended, GateStates
    <2>3. "SUCCESS" \in HeaderStatus /\ "RESOLVED" \in GateStates
      BY DEF HeaderStatus, Ended, GateStates
    <2> QED
      BY ONLY <2>1, <2>2, <2>3
  <1>6. acts \in 0..MaxActs /\ errors \in 0..MaxErrors
    <2>1. acts = 0 /\ errors = 0 /\ MaxActs \in Nat /\ MaxErrors \in Nat
      BY BoardsAssumption DEF Init
    <2> QED
      BY <2>1
  <1>7. /\ line \in [Windows -> [kind : {"loading", "error", "empty", "running", "waiting_input",
                                   "terminal"},
                           of : Wids \cup {"none"}, says : Texts, gate : GateStates,
                           poll : BOOLEAN]]
        /\ card \in [Windows -> [payload : Choices \cup {"none"}, key : {"default", "own"},
                           loading : BOOLEAN, note : {"none", "replay", "error"}]]
        /\ drawer \in [Windows -> [open : BOOLEAN, op : Ops \cup {"none"}, reason : BOOLEAN,
                             busy : BOOLEAN, error : BOOLEAN]]
    <2>1. \A b \in Windows : [NoLine EXCEPT !.poll = page[b].board = "run"]
            \in [kind : {"loading", "error", "empty", "running", "waiting_input", "terminal"},
                 of : Wids \cup {"none"}, says : Texts, gate : GateStates, poll : BOOLEAN]
      BY FreshTyped
    <2>2. /\ card = [b \in Windows |-> NoCard] /\ drawer = [b \in Windows |-> NoDrawer]
          /\ line = [b \in Windows |-> [NoLine EXCEPT !.poll = page[b].board = "run"]]
      BY DEF Init
    <2> QED
      BY ONLY <2>1, <2>2, FreshTyped
  <1>8. TypeOK
    BY <1>0, <1>3, <1>4, <1>5, <1>6, <1>7 DEF Init, TypeOK
  <1>9. RequestsFit
    BY <1>3 DEF RequestsFit
  <1> QED
    BY <1>8, <1>9 DEF Inv, OneAnswerPerGate, StartsWhatIsThere, Init
-----------------------------------------------------------------------------
\* A run that moves stays one of a row, a workflow and a gate.
LEMMA BecomesTyped ==
  ASSUME TypeOK, NEW w, NEW row, NEW workflow, Becomes(w, row, workflow),
         w \in Wids => row \in HeaderStatus /\ workflow \in HeaderStatus
  PROVE  /\ status' \in [Wids -> HeaderStatus] /\ dbos' \in [Wids -> HeaderStatus]
         /\ stray' \in [Windows -> BOOLEAN]
  <1>1. /\ status' \in [Wids -> HeaderStatus] /\ dbos' \in [Wids -> HeaderStatus]
    BY DEF Becomes, TypeOK
  <1>2. stray' \in [Windows -> BOOLEAN]
    <2> DEFINE Latch(b) == \/ stray[b]
                          \/ /\ page[b] = [board |-> "run", wid |-> w] /\ ~line[b].poll
                             /\ Header(w) \in Ended /\ HeaderOf(row, workflow) # Header(w)
    <2>1. stray' = [b \in Windows |-> Latch(b)]
      BY DEF Becomes
    <2>2. \A b \in Windows : Latch(b) \in BOOLEAN
      BY DEF TypeOK
    <2> HIDE DEF Latch
    <2> QED
      BY <2>1, <2>2
  <1> QED
    BY <1>1, <1>2

\* What remains of the invariant when a run has moved.
LEMMA RunKept ==
  ASSUME Inv, (net \subseteq Requests)', RequestsFit',
         UNCHANGED <<answers, started, viewVars, acts, errors>>,
         gate' \in [Wids -> GateStates],
         status' \in [Wids -> HeaderStatus], dbos' \in [Wids -> HeaderStatus],
         stray' \in [Windows -> BOOLEAN]
  PROVE  Inv'
  <1>1. TypeOK /\ OneAnswerPerGate /\ \A s \in started : s[2] \in VersionsOf[s[1]]
    BY DEF Inv, StartsWhatIsThere
  <1>2. TypeOK'
    BY <1>1 DEF TypeOK, viewVars
  <1> QED
    BY <1>1, <1>2 DEF Inv, OneAnswerPerGate, StartsWhatIsThere

\* The server's steps: of what a request names only the key of an answer and
\* the version of a start are kept.
LEMMA ServerSteps ==
  ASSUME Inv, NEW r \in net, Serve(r)
  PROVE  Inv'
  <1>1. TypeOK /\ RequestsFit /\ OneAnswerPerGate /\ RequestFits(r)
        /\ r \in Requests /\ \A s \in started : s[2] \in VersionsOf[s[1]]
    BY DEF Inv, StartsWhatIsThere, TypeOK, RequestsFit
  <1>2. CASE ServeState(r)
    <2> DEFINE a == IF status[r.id] = "absent" THEN "404" ELSE Header(r.id)
               g == gate[r.id]
               q == [r EXCEPT !.gate = g, !.reply = a]
    <2>1. r.id \in Wids /\ g \in GateStates /\ a \in Texts
      BY <1>1, <1>2 DEF ServeState, RequestFits, TypeOK, Texts, Header, HeaderOf,
         HeaderStatus, Ended
    <2>2. net' = (net \ {r}) \cup {q} /\ UNCHANGED <<serverVars, clientVars, acts, errors>>
      BY <1>2 DEF ServeState
    <2> HIDE DEF a, g
    <2>3. /\ q \in Requests /\ q.win = r.win /\ q.to = r.to /\ q.id = r.id /\ q.key = r.key
          /\ q.arg = r.arg /\ q.live = r.live
      BY <1>1, <2>1 DEF Requests
    <2> HIDE DEF q
    <2>4. (net \subseteq Requests)' /\ RequestsFit'
      BY <1>1, <2>2, <2>3 DEF TypeOK, RequestsFit, RequestFits, clientVars, viewVars
    <2> QED
      BY <1>1, <2>2, <2>4 DEF Inv, OneAnswerPerGate, StartsWhatIsThere, TypeOK, serverVars,
         runVars, clientVars, viewVars
  <1>3. CASE ServeRead(r)
    <2> DEFINE a == IF r.id \in Wids THEN dbos[r.id] ELSE "200"
    <2>1. a \in Texts
      BY <1>1 DEF TypeOK, Texts, HeaderStatus
    <2>2. Answered(r, a) /\ UNCHANGED <<serverVars, clientVars, acts, errors>>
      BY <1>3 DEF ServeRead
    <2> HIDE DEF a
    <2>3. (net \subseteq Requests)' /\ RequestsFit'
      BY <1>1, <2>1, <2>2, AnsweredFits DEF clientVars, viewVars
    <2> QED
      BY <1>1, <2>2, <2>3 DEF Inv, OneAnswerPerGate, StartsWhatIsThere, TypeOK, serverVars,
         runVars, clientVars, viewVars
  <1>4. CASE ServeReply(r)
    <2> DEFINE bad == \/ status[r.id] # "WAITING_INPUT"
                      \/ \E a \in Recorded(r) : a.payload # r.arg
               a == IF bad THEN "409" ELSE IF Recorded(r) # {} THEN "replay" ELSE "200"
               n == [wid |-> r.id, key |-> r.key, payload |-> r.arg]
    <2>1. a \in Texts
      BY DEF Texts
    <2>2. Answered(r, a) /\ UNCHANGED <<runVars, started, clientVars, acts, errors>>
          /\ r.to = "reply"
      BY <1>4 DEF ServeReply
    <2>3. answers' = IF bad THEN answers ELSE answers \cup {n}
      BY <1>4 DEF ServeReply
    <2>4. n \in [wid : Wids, key : {"default", "own"}, payload : Choices \cup {"none"}]
      BY <1>1, <2>2 DEF RequestFits, Requests
    <2>5. ~bad => \A c \in answers : c.wid = n.wid /\ c.key = n.key => c.payload = n.payload
      BY DEF Recorded
    <2> HIDE DEF a, bad, n
    <2>6. (net \subseteq Requests)' /\ RequestsFit'
      BY <1>1, <2>1, <2>2, AnsweredFits DEF clientVars, viewVars
    <2>7. answers \subseteq [wid : Wids, key : {"default", "own"}, payload : Choices \cup {"none"}]
      BY <1>1 DEF TypeOK
    <2>8. (answers \subseteq [wid : Wids, key : {"default", "own"},
                              payload : Choices \cup {"none"}])'
      BY <2>3, <2>4, <2>7
    <2>9. OneAnswerPerGate'
      <3>1. \A x, c \in answers' : x.wid = c.wid /\ x.key = c.key => x.payload = c.payload
        BY <1>1, <2>3, <2>5 DEF OneAnswerPerGate
      <3>2. \A x \in answers' : x.key \in {"default", "own"}
        BY <2>8
      <3> QED
        BY <3>1, <3>2 DEF OneAnswerPerGate
    <2>10. TypeOK'
      BY <1>1, <2>2, <2>6, <2>8 DEF TypeOK, clientVars, viewVars, runVars
    <2> QED
      BY <1>1, <2>2, <2>6, <2>9, <2>10 DEF Inv, StartsWhatIsThere
  <1>5. CASE ServeOp(r)
    <2> DEFINE ok == CASE r.arg = "cancel" -> dbos[r.id] \in {"ENQUEUED", "PENDING"}
                 [] r.arg = "resume" -> dbos[r.id] \in {"ENQUEUED", "CANCELLED"}
                 [] r.arg = "fork" -> TRUE
               a == IF ok THEN "200" ELSE "409"
               n == IF r.arg = "cancel" THEN "CANCELLED" ELSE "ENQUEUED"
    <2>1. a \in Texts
      BY DEF Texts
    <2>2. /\ Answered(r, a) /\ UNCHANGED <<gate, answers, started, viewVars, acts, errors>>
          /\ \/ ok /\ r.arg # "fork" /\ Becomes(r.id, status[r.id], n)
             \/ UNCHANGED <<status, dbos, stray>>
      BY <1>5 DEF ServeOp
    <2>3. n \in HeaderStatus
      BY DEF HeaderStatus, Ended
    <2>4. (net \subseteq Requests)' /\ RequestsFit'
      BY <1>1, <2>1, <2>2, AnsweredFits DEF viewVars
    <2>5. /\ status' \in [Wids -> HeaderStatus] /\ dbos' \in [Wids -> HeaderStatus]
          /\ stray' \in [Windows -> BOOLEAN]
      <3>1. CASE ok /\ r.arg # "fork" /\ Becomes(r.id, status[r.id], n)
        <4>1. r.id \in Wids => status[r.id] \in HeaderStatus
          BY <1>1 DEF TypeOK
        <4> HIDE DEF n
        <4> QED
          BY <1>1, <2>3, <3>1, <4>1, BecomesTyped
      <3>2. CASE UNCHANGED <<status, dbos, stray>>
        BY <1>1, <3>2 DEF TypeOK
      <3> QED
        BY <2>2, <3>1, <3>2
    <2>6. gate' \in [Wids -> GateStates]
      BY <1>1, <2>2 DEF TypeOK
    <2> QED
      BY <2>2, <2>4, <2>5, <2>6, RunKept
  <1>6. CASE ServeStart(r)
    <2>1. UNCHANGED <<gate, answers, viewVars, acts, errors>> /\ r.to = "start"
      BY <1>6 DEF ServeStart
    <2>2. PICK a \in Texts : Answered(r, a)
      BY <1>6 DEF ServeStart, Texts
    <2>3. (net \subseteq Requests)' /\ RequestsFit'
      BY <1>1, <2>1, <2>2, AnsweredFits DEF viewVars
    <2>4. /\ status' \in [Wids -> HeaderStatus] /\ dbos' \in [Wids -> HeaderStatus]
          /\ stray' \in [Windows -> BOOLEAN]
      <3>1. CASE r.id \in Wids /\ Becomes(r.id, "ENQUEUED", "ENQUEUED")
        <4>1. "ENQUEUED" \in HeaderStatus
          BY DEF HeaderStatus
        <4> QED
          BY <1>1, <3>1, <4>1, BecomesTyped
      <3>2. CASE UNCHANGED <<status, dbos, stray>>
        BY <1>1, <3>2 DEF TypeOK
      <3> QED
        BY <1>6, <3>1, <3>2 DEF ServeStart
    <2>5. /\ \A s \in started' : s[2] \in VersionsOf[s[1]]
          /\ started' \subseteq Recipes \X Versions
      <3>1. CASE started' = started
        BY <1>1, <3>1 DEF TypeOK
      <3>2. CASE r.id \in Recipes /\ started' = started \cup {<<r.id, r.arg>>}
        <4>1. r.arg \in VersionsOf[r.id]
          BY <1>1, <2>1, <3>2, BoardsAssumption DEF RequestFits
        <4>2. r.arg \in Versions
          BY <4>1, <3>2 DEF Versions
        <4> QED
          BY <1>1, <3>2, <4>1, <4>2 DEF TypeOK
      <3> QED
        BY <1>6, <3>1, <3>2 DEF ServeStart
    <2> QED
      BY <1>1, <2>1, <2>3, <2>4, <2>5 DEF Inv, OneAnswerPerGate, StartsWhatIsThere, TypeOK,
         clientVars, viewVars
  <1> QED
    BY <1>2, <1>3, <1>4, <1>5, <1>6 DEF Serve
-----------------------------------------------------------------------------
\* People act, and things go wrong, no more often than the bounds allow.
LEMMA CountsKept ==
  ASSUME TypeOK
  PROVE  /\ Act => acts' \in 0..MaxActs
         /\ errors < MaxErrors /\ errors' = errors + 1 => errors' \in 0..MaxErrors
  <1>1. /\ acts \in 0..MaxActs /\ errors \in 0..MaxErrors /\ MaxActs \in Nat /\ MaxErrors \in Nat
    BY BoardsAssumption DEF TypeOK
  <1> QED
    BY <1>1 DEF Act

\* A step of a window leaves the server alone.
LEMMA ClientKept ==
  ASSUME Inv, UNCHANGED serverVars,
         (/\ page \in [Windows -> [board : BoardNames, wid : Wids]]
          /\ line \in [Windows -> [kind : {"loading", "error", "empty", "running",
                                           "waiting_input", "terminal"},
                                   of : Wids \cup {"none"}, says : Texts, gate : GateStates,
                                   poll : BOOLEAN]]
          /\ card \in [Windows -> [payload : Choices \cup {"none"}, key : {"default", "own"},
                                   loading : BOOLEAN, note : {"none", "replay", "error"}]]
          /\ panel \in [Windows -> [key : Ids, data : Ids \cup {"error"}, says : Texts,
                                    loading : BOOLEAN, error : BOOLEAN, starting : Versions]]
          /\ drawer \in [Windows -> [open : BOOLEAN, op : Ops \cup {"none"}, reason : BOOLEAN,
                                     busy : BOOLEAN, error : BOOLEAN]]
          /\ chat \in [Windows -> BOOLEAN] /\ stray \in [Windows -> BOOLEAN]
          /\ acts \in 0..MaxActs /\ errors \in 0..MaxErrors)',
         (net \subseteq Requests)', RequestsFit'
  PROVE  Inv'
  <1>1. TypeOK /\ OneAnswerPerGate /\ \A s \in started : s[2] \in VersionsOf[s[1]]
    BY DEF Inv, StartsWhatIsThere
  <1>2. TypeOK'
    BY <1>1 DEF TypeOK, serverVars, runVars
  <1> QED
    BY <1>1, <1>2 DEF Inv, OneAnswerPerGate, StartsWhatIsThere, serverVars, runVars

\* The steps of runs and gates, and what is lost.
LEMMA RunSteps ==
  ASSUME Inv,
         \/ \E w \in Wids : RunGoesOn(w) \/ GateCloses(w)
         \/ \E r \in net : Lose(r)
  PROVE  Inv'
  <1>1. TypeOK /\ RequestsFit /\ OneAnswerPerGate /\ \A s \in started : s[2] \in VersionsOf[s[1]]
    BY DEF Inv, StartsWhatIsThere
  <1> DEFINE Moved == /\ gate' \in [Wids -> GateStates]
                      /\ status' \in [Wids -> HeaderStatus] /\ dbos' \in [Wids -> HeaderStatus]
                      /\ stray' \in [Windows -> BOOLEAN]
  <1>a. /\ status \in [Wids -> HeaderStatus] /\ dbos \in [Wids -> HeaderStatus]
        /\ gate \in [Wids -> GateStates] /\ stray \in [Windows -> BOOLEAN]
        /\ \A s \in {"ENQUEUED", "PENDING", "CANCELLED", "WAITING_INPUT", "SUCCESS", "ERROR"} :
             s \in HeaderStatus
        /\ \A g \in {"none", "PENDING", "RESOLVED", "TIMED_OUT"} : g \in GateStates
    BY <1>1 DEF TypeOK, HeaderStatus, Ended, GateStates
  <1>b. ASSUME Moved, UNCHANGED <<answers, started, viewVars, net, acts, errors>>
        PROVE  Inv'
    <2>1. (net \subseteq Requests)' /\ RequestsFit'
      BY <1>1, <1>b, FewerFit DEF viewVars
    <2> QED
      BY <1>b, <2>1, RunKept
  <1>2. ASSUME NEW w \in Wids, RunGoesOn(w) PROVE Inv'
    <2>1. UNCHANGED <<answers, started, viewVars, net, acts, errors>>
      BY <1>2 DEF RunGoesOn
    <2>2. \/ Becomes(w, "ENQUEUED", "ENQUEUED") /\ gate' = gate
          \/ Becomes(w, status[w], "PENDING") /\ gate' = gate
          \/ \E s \in RowGoesOn[status[w]] :
               /\ Becomes(w, s, dbos[w])
               /\ gate' = IF s = "WAITING_INPUT" THEN [gate EXCEPT ![w] = "PENDING"] ELSE gate
          \/ gate' = [gate EXCEPT ![w] = "PENDING"] /\ UNCHANGED <<status, dbos, stray>>
          \/ Becomes(w, status[w], status[w]) /\ gate' = gate
          \/ Becomes(w, "CANCELLED", "CANCELLED") /\ gate' = gate
      BY <1>2 DEF RunGoesOn
    <2>3. status[w] \in HeaderStatus /\ dbos[w] \in HeaderStatus
      BY <1>a
    <2>4. \A s \in RowGoesOn[status[w]] : s \in HeaderStatus
      <3>1. RowGoesOn[status[w]] \subseteq {"PENDING", "WAITING_INPUT", "SUCCESS", "ERROR"}
        BY <2>3 DEF RowGoesOn, HeaderStatus, Ended
      <3> QED
        BY <1>a, <3>1
    <2>5. gate' \in [Wids -> GateStates]
      BY <1>a, <2>2
    <2>6. CASE \E s \in HeaderStatus, d \in HeaderStatus : Becomes(w, s, d)
      <3>1. Moved
        BY <1>1, <2>5, <2>6, BecomesTyped
      <3> QED
        BY <1>b, <2>1, <3>1
    <2>7. CASE UNCHANGED <<status, dbos, stray>>
      <3>1. Moved
        BY <1>a, <2>5, <2>7
      <3> QED
        BY <1>b, <2>1, <3>1
    <2>8. (\E s \in HeaderStatus, d \in HeaderStatus : Becomes(w, s, d))
            \/ UNCHANGED <<status, dbos, stray>>
      BY <1>a, <2>2, <2>3, <2>4
    <2> QED
      BY <2>6, <2>7, <2>8
  <1>3. ASSUME NEW w \in Wids, GateCloses(w) PROVE Inv'
    <2>1. UNCHANGED <<answers, started, viewVars, net, acts, errors>>
      BY <1>3 DEF GateCloses
    <2>2. PICK s \in HeaderStatus, g \in GateStates :
            Becomes(w, s, "PENDING") /\ gate' = [gate EXCEPT ![w] = g]
      BY <1>3, <1>a DEF GateCloses
    <2>3. Moved
      BY <1>1, <1>a, <2>2, BecomesTyped
    <2> QED
      BY <1>b, <2>1, <2>3
  <1>4. ASSUME NEW r \in net, Lose(r) PROVE Inv'
    <2>1. /\ Answered(r, "500") /\ UNCHANGED <<serverVars, clientVars, acts>>
          /\ errors < MaxErrors /\ errors' = errors + 1
      BY <1>4 DEF Lose
    <2>2. "500" \in Texts
      BY DEF Texts
    <2>3. (net \subseteq Requests)' /\ RequestsFit'
      BY <1>1, <2>1, <2>2, AnsweredFits DEF clientVars, viewVars
    <2>4. errors' \in 0..MaxErrors
      BY <1>1, <2>1, CountsKept
    <2> QED
      BY <1>1, <2>1, <2>3, <2>4, ClientKept DEF clientVars, viewVars, TypeOK
  <1> QED
    BY <1>2, <1>3, <1>4
-----------------------------------------------------------------------------
\* A window that turns to a board and a run.
LEMMA TurnedTo ==
  ASSUME TypeOK, RequestsFit, NEW b \in Windows, NEW board \in BoardNames, NEW w \in Wids,
         NEW flying \in SUBSET net, TurnTo(b, board, w, flying)
  PROVE  /\ page' \in [Windows -> [board : BoardNames, wid : Wids]]
         /\ line' \in [Windows -> [kind : {"loading", "error", "empty", "running",
                                           "waiting_input", "terminal"},
                                   of : Wids \cup {"none"}, says : Texts, gate : GateStates,
                                   poll : BOOLEAN]]
         /\ card' \in [Windows -> [payload : Choices \cup {"none"}, key : {"default", "own"},
                                   loading : BOOLEAN, note : {"none", "replay", "error"}]]
         /\ panel' \in [Windows -> [key : Ids, data : Ids \cup {"error"}, says : Texts,
                                    loading : BOOLEAN, error : BOOLEAN, starting : Versions]]
         /\ drawer' \in [Windows -> [open : BOOLEAN, op : Ops \cup {"none"}, reason : BOOLEAN,
                                     busy : BOOLEAN, error : BOOLEAN]]
         /\ stray' \in [Windows -> BOOLEAN]
         /\ (net \subseteq Requests)' /\ RequestsFit'
  <1> DEFINE kept == IF board = page[b].board THEN flying ELSE Forgotten(flying, b)
  <1>1. /\ page' = [page EXCEPT ![b] = [board |-> board, wid |-> w]]
        /\ net' = OnMount(b, board, w) \cup kept
    BY DEF TurnTo
  <1>2. page' \in [Windows -> [board : BoardNames, wid : Wids]]
    BY <1>1 DEF TypeOK
  <1>3. line' \in [Windows -> [kind : {"loading", "error", "empty", "running",
                                       "waiting_input", "terminal"},
                               of : Wids \cup {"none"}, says : Texts, gate : GateStates,
                               poll : BOOLEAN]]
    BY FreshTyped DEF TurnTo, TypeOK
  <1>4. /\ card' \in [Windows -> [payload : Choices \cup {"none"}, key : {"default", "own"},
                                  loading : BOOLEAN, note : {"none", "replay", "error"}]]
        /\ drawer' \in [Windows -> [open : BOOLEAN, op : Ops \cup {"none"}, reason : BOOLEAN,
                                    busy : BOOLEAN, error : BOOLEAN]]
        /\ stray' \in [Windows -> BOOLEAN]
    BY FreshTyped DEF TurnTo, TypeOK
  <1>5. panel' \in [Windows -> [key : Ids, data : Ids \cup {"error"}, says : Texts,
                                loading : BOOLEAN, error : BOOLEAN, starting : Versions]]
    <2> DEFINE P == [key : Ids, data : Ids \cup {"error"}, says : Texts,
                     loading : BOOLEAN, error : BOOLEAN, starting : Versions]
               f == FirstPanel(board, w)
               o == [panel[b] EXCEPT !.key = w, !.loading = TRUE]
    <2>1. f \in P
      BY FirstPanelTyped
    <2>2. o \in P
      <3>1. w \in Ids
        BY DEF Ids
      <3>2. panel[b] \in P
        BY DEF TypeOK
      <3>3. PICK p \in P : p = panel[b]
        BY <3>2
      <3>4. [p EXCEPT !.key = w, !.loading = TRUE] \in P
        BY <3>1
      <3> QED
        BY <3>3, <3>4
    <2>3. panel' = [panel EXCEPT ![b] = o] \/ panel' = [panel EXCEPT ![b] = f]
      BY DEF TurnTo
    <2>4. panel \in [Windows -> P]
      BY DEF TypeOK
    <2> HIDE DEF P, f, o
    <2>5. panel' \in [Windows -> P]
      BY <2>1, <2>2, <2>3, <2>4
    <2> QED
      BY <2>5 DEF P
  <1>6. ASSUME NEW q \in kept PROVE q \in Requests /\ RequestFits(q)'
    <2>1. page \in [Windows -> [board : BoardNames, wid : Wids]] /\ net \subseteq Requests
      BY DEF TypeOK
    <2>2. CASE board = page[b].board
      <3>1. q \in net /\ q \in Requests /\ RequestFits(q)
        BY <1>6, <2>1, <2>2 DEF RequestsFit
      <3>2. \A v \in Windows : page'[v].board = page[v].board
        BY <1>1, <2>1, <2>2
      <3> QED
        BY <3>1, <3>2 DEF RequestFits
    <2>3. CASE board # page[b].board
      <3>1. PICK r \in {x \in flying : x.win # b \/ x.to \notin {"state", "read"}} :
              q = [r EXCEPT !.live = @ /\ (r.win # b \/ r.to = "start")]
        BY <1>6, <2>3 DEF Forgotten
      <3>2. r \in Requests /\ RequestFits(r)
        BY <2>1 DEF RequestsFit
      <3> DEFINE l == r.live /\ (r.win # b \/ r.to = "start")
      <3>3. q = [r EXCEPT !.live = l] /\ l \in BOOLEAN
        BY <3>1
      <3>4. l => r.live /\ (r.win # b \/ r.to = "start")
        OBVIOUS
      <3> HIDE DEF l
      <3>5. /\ q \in Requests /\ q.win = r.win /\ q.to = r.to /\ q.id = r.id /\ q.key = r.key
            /\ q.arg = r.arg /\ q.live = l
        BY <3>2, <3>3 DEF Requests
      <3>6. \A v \in Windows : v # b => page'[v].board = page[v].board
        BY <1>1, <2>1
      <3>7. r.win \in Windows \/ (r.to = "reply" /\ ~r.live)
        BY <3>2 DEF RequestFits
      <3>8. r.to = "reply" /\ ~r.live => ~l
        BY <3>4
      <3>9. r.to = "op" /\ l /\ page'[r.win].board = "run" => r.id \in Wids
        BY <3>2, <3>4, <3>6 DEF RequestFits
      <3>10. r.win # b \/ r.to \notin {"state", "read"}
        BY <3>1
      <3>11. q.to = "read" => page'[q.win].board # "run"
        BY <3>2, <3>5, <3>6, <3>10 DEF RequestFits
      <3>12. q.to \in {"state", "reply", "start"} => RequestFits(q)'
        BY <3>2, <3>5, <3>7, <3>8 DEF RequestFits
      <3> QED
        BY <3>2, <3>5, <3>7, <3>8, <3>9, <3>11, <3>12 DEF RequestFits, Requests
    <2> QED
      BY <2>2, <2>3
  <1>7. (net \subseteq Requests)' /\ RequestsFit'
    <2>1. page'[b].board = board
      BY <1>1 DEF TypeOK
    <2>2. \A q \in OnMount(b, board, w) : q \in Requests /\ RequestFits(q)'
      BY <2>1, OnMountFits
    <2>3. \A q \in net' : q \in Requests /\ RequestFits(q)'
      BY <1>1, <1>6, <2>2
    <2> QED
      BY <2>3 DEF RequestsFit
  <1> QED
    BY <1>2, <1>3, <1>4, <1>5, <1>7
-----------------------------------------------------------------------------
\* The timeline.
LEMMA TimelineSteps ==
  ASSUME Inv,
         \/ \E b \in Windows : Poll(b) \/ StreamChunk(b) \/ RetryFetch(b) \/ Navigate(b)
         \/ \E r \in net : ReceiveState(r)
  PROVE  Inv'
  <1>1. TypeOK /\ RequestsFit /\ net \subseteq Requests
    BY DEF Inv, StartsWhatIsThere, TypeOK
  <1>2. ASSUME NEW b \in Windows, Poll(b) \/ StreamChunk(b) \/ RetryFetch(b) PROVE Inv'
    <2>1. /\ Send({FetchState(b, page[b].wid)}) /\ UNCHANGED <<serverVars, clientVars, errors>>
          /\ acts' = acts \/ Act
      BY <1>2 DEF Poll, StreamChunk, RetryFetch, Fetch
    <2>2. page[b].wid \in Wids
      BY <1>1 DEF TypeOK
    <2>3. (net \subseteq Requests)' /\ RequestsFit'
      <3> DEFINE q == FetchState(b, page[b].wid)
      <3>1. q \in Requests /\ RequestFits(q)
        BY <2>2, FetchFits
      <3>2. net' = net \cup {q} /\ page' = page
        BY <2>1 DEF Send, clientVars, viewVars
      <3> QED
        BY <1>1, <3>1, <3>2, OneSentFits
    <2>4. acts' \in 0..MaxActs
      BY <1>1, <2>1, CountsKept DEF TypeOK
    <2> QED
      BY <1>1, <2>1, <2>3, <2>4, ClientKept DEF clientVars, viewVars, TypeOK
  <1>3. ASSUME NEW b \in Windows, Navigate(b) PROVE Inv'
    <2>1. PICK board \in BoardNames, w \in Wids : TurnTo(b, board, w, net)
      BY <1>3 DEF Navigate
    <2>2. Act /\ UNCHANGED <<serverVars, chat, errors>>
      BY <1>3 DEF Navigate
    <2>3. acts' \in 0..MaxActs /\ chat' \in [Windows -> BOOLEAN] /\ errors' \in 0..MaxErrors
      BY <1>1, <2>2, CountsKept DEF TypeOK
    <2>4. net \in SUBSET net
      OBVIOUS
    <2> QED
      BY <1>1, <2>1, <2>2, <2>3, <2>4, TurnedTo, ClientKept
  <1>4. ASSUME NEW r \in net, ReceiveState(r) PROVE Inv'
    <2> DEFINE b == r.win
               kind == CASE r.reply = "404" -> "empty" [] r.reply = "500" -> "error"
                         [] OTHER -> TimelineKind(r.reply)
               drawn == kind \notin {"empty", "error"}
               of == IF drawn THEN r.id ELSE "none"
               says == IF drawn THEN r.reply ELSE "none"
               g == IF drawn THEN r.gate ELSE "none"
               L == [kind : {"loading", "error", "empty", "running", "waiting_input", "terminal"},
                     of : Wids \cup {"none"}, says : Texts, gate : GateStates, poll : BOOLEAN]
               D == [open : BOOLEAN, op : Ops \cup {"none"}, reason : BOOLEAN,
                     busy : BOOLEAN, error : BOOLEAN]
    <2>1. r \in Requests /\ RequestFits(r) /\ r.to = "state" /\ r.live
      BY <1>1, <1>4 DEF RequestsFit, ReceiveState
    <2>2. b \in Windows /\ r.id \in Wids /\ r.reply \in Texts /\ r.gate \in GateStates
      BY <2>1 DEF RequestFits, Requests
    <2>3. /\ of \in Wids \cup {"none"} /\ says \in Texts /\ g \in GateStates
          /\ kind \in {"loading", "error", "empty", "running", "waiting_input", "terminal"}
      BY <2>2 DEF Texts, GateStates, TimelineKind
    <2>4. /\ line' = [line EXCEPT ![b].kind = kind, ![b].of = of, ![b].says = says,
                                  ![b].gate = g, ![b].poll = @ /\ StillPolls(kind)]
          /\ card' = card \/ card' = [card EXCEPT ![b] = NoCard]
          /\ \/ drawer' = drawer
             \/ drawer' = [drawer EXCEPT ![b].reason = FALSE, ![b].busy = FALSE, ![b].error = FALSE]
          /\ stray' = [stray EXCEPT ![b] = @ \/ Strays(r)]
          /\ net' = net \ {r} /\ UNCHANGED <<serverVars, page, panel, chat, acts, errors>>
      BY <1>4 DEF ReceiveState
    <2>5. line \in [Windows -> L] /\ line[b] \in L /\ drawer \in [Windows -> D]
          /\ card \in [Windows -> [payload : Choices \cup {"none"}, key : {"default", "own"},
                                   loading : BOOLEAN, note : {"none", "replay", "error"}]]
          /\ stray \in [Windows -> BOOLEAN]
      BY <1>1, <2>2 DEF TypeOK
    <2> HIDE DEF kind, of, says, g, b
    <2>6. line' \in [Windows -> L]
      <3> DEFINE p == StillPolls(kind)
      <3>1. p \in BOOLEAN
        BY DEF StillPolls
      <3> HIDE DEF p
      <3>2. ASSUME NEW l \in L
            PROVE  [l EXCEPT !.kind = kind, !.of = of, !.says = says, !.gate = g,
                             !.poll = @ /\ p] \in L
        BY <2>3, <3>1
      <3>3. line' = [line EXCEPT ![b] = [line[b] EXCEPT !.kind = kind, !.of = of, !.says = says,
                                                        !.gate = g, !.poll = @ /\ p]]
        BY <2>2, <2>4, <2>5 DEF p
      <3> HIDE DEF L
      <3> QED
        BY <2>2, <2>5, <3>2, <3>3
    <2>7. drawer' \in [Windows -> D]
      <3>1. ASSUME NEW d \in D
            PROVE  [d EXCEPT !.reason = FALSE, !.busy = FALSE, !.error = FALSE] \in D
        OBVIOUS
      <3>2. \/ drawer' = drawer
            \/ drawer' = [drawer EXCEPT ![b] = [drawer[b] EXCEPT !.reason = FALSE, !.busy = FALSE,
                                                                !.error = FALSE]]
        BY <2>2, <2>4, <2>5
      <3>3. drawer[b] \in D
        BY <2>2, <2>5
      <3>4. [drawer[b] EXCEPT !.reason = FALSE, !.busy = FALSE, !.error = FALSE] \in D
        BY <3>1, <3>3
      <3> HIDE DEF D
      <3> QED
        BY <2>2, <2>5, <3>2, <3>4
    <2>8. /\ stray' \in [Windows -> BOOLEAN]
          /\ card' \in [Windows -> [payload : Choices \cup {"none"}, key : {"default", "own"},
                                    loading : BOOLEAN, note : {"none", "replay", "error"}]]
      <3>1. card' \in [Windows -> [payload : Choices \cup {"none"}, key : {"default", "own"},
                                   loading : BOOLEAN, note : {"none", "replay", "error"}]]
        <4> DEFINE K == [payload : Choices \cup {"none"}, key : {"default", "own"},
                         loading : BOOLEAN, note : {"none", "replay", "error"}]
        <4>1. NoCard \in K
          BY FreshTyped
        <4> HIDE DEF K
        <4>2. card \in [Windows -> K] /\ (card' = card \/ card' = [card EXCEPT ![b] = NoCard])
          BY <2>4, <2>5 DEF K
        <4>3. card' \in [Windows -> K]
          BY ONLY <2>2, <4>1, <4>2
        <4> QED
          BY <4>3 DEF K
      <3>2. stray' \in [Windows -> BOOLEAN]
        <4> DEFINE x == Strays(r)
        <4>1. x \in BOOLEAN
          BY DEF Strays
        <4> HIDE DEF x
        <4>2. stray' = [stray EXCEPT ![b] = @ \/ x]
          BY <2>4 DEF x
        <4> QED
          BY <2>2, <2>5, <4>1, <4>2
      <3> QED
        BY <3>1, <3>2
    <2>9. (net \subseteq Requests)' /\ RequestsFit'
      BY <1>1, <2>4, FewerFit
    <2> QED
      BY <1>1, <2>4, <2>6, <2>7, <2>8, <2>9, ClientKept DEF TypeOK
  <1> QED
    BY <1>2, <1>3, <1>4
-----------------------------------------------------------------------------
\* The gate card, and answers from other windows.
LEMMA CardSteps ==
  ASSUME Inv,
         \/ \E b \in Windows : EditAnswer(b) \/ EditKey(b) \/ SubmitAnswer(b)
         \/ \E b \in Elsewhere : AnswerElsewhere(b)
         \/ \E r \in net : ReceiveReply(r) \/ Drop(r)
  PROVE  Inv'
  <1> DEFINE C == [payload : Choices \cup {"none"}, key : {"default", "own"},
                   loading : BOOLEAN, note : {"none", "replay", "error"}]
  <1>1. TypeOK /\ RequestsFit /\ net \subseteq Requests /\ card \in [Windows -> C]
    BY DEF Inv, StartsWhatIsThere, TypeOK
  <1>2. ASSUME NEW b \in Windows, EditAnswer(b) \/ EditKey(b) PROVE Inv'
    <2>1. /\ Act /\ UNCHANGED <<serverVars, page, line, panel, drawer, chat, stray, net, errors>>
          /\ \/ \E c \in Choices : card' = [card EXCEPT ![b].payload = c]
             \/ card' = [card EXCEPT ![b].key = "own"]
      BY <1>2 DEF EditAnswer, EditKey
    <2>2. card' \in [Windows -> C]
      BY <1>1, <2>1
    <2>3. acts' \in 0..MaxActs
      BY <1>1, <2>1, CountsKept
    <2>4. (net \subseteq Requests)' /\ RequestsFit'
      BY <1>1, <2>1 DEF RequestsFit, RequestFits
    <2> QED
      BY <1>1, <2>1, <2>2, <2>3, <2>4, ClientKept DEF TypeOK
  <1>3. ASSUME NEW b \in Windows, SubmitAnswer(b) PROVE Inv'
    <2> DEFINE q == Req(b, "reply", page[b].wid, card[b].payload, KeyOf(b))
    <2>1. /\ Act /\ UNCHANGED <<serverVars, page, line, panel, drawer, chat, stray, errors>>
          /\ card' = [card EXCEPT ![b].loading = TRUE, ![b].note = "none"]
          /\ net' = net \cup {q}
      BY <1>3 DEF SubmitAnswer, Send
    <2>2. page[b].wid \in Wids /\ card[b].payload \in Choices \cup {"none"}
          /\ KeyOf(b) \in {"default", "own"} /\ page[b].wid \in Ids
      BY <1>1 DEF TypeOK, KeyOf, DefaultKey, Ids
    <2>3. q \in Requests /\ RequestFits(q)
      BY <2>2, ReqFacts DEF RequestFits
    <2>4. (net \subseteq Requests)' /\ RequestsFit'
      BY <1>1, <2>1, <2>3, OneSentFits
    <2>5. card' \in [Windows -> C]
      BY <1>1, <2>1
    <2>6. acts' \in 0..MaxActs
      BY <1>1, <2>1, CountsKept
    <2> QED
      BY <1>1, <2>1, <2>4, <2>5, <2>6, ClientKept DEF TypeOK
  <1>4. ASSUME NEW b \in Elsewhere, AnswerElsewhere(b) PROVE Inv'
    <2>1. PICK w \in Wids, c \in Choices :
            net' = net \cup {[Req(b, "reply", w, c, DefaultKey(b)) EXCEPT !.live = FALSE]}
      BY <1>4 DEF AnswerElsewhere, Send
    <2> DEFINE q == [Req(b, "reply", w, c, DefaultKey(b)) EXCEPT !.live = FALSE]
    <2>2. w \in Ids /\ "sent" \in Texts
      BY DEF Ids, Texts
    <2>3. /\ q \in Requests /\ q.to = "reply" /\ ~q.live /\ q.id = w /\ q.arg = c
          /\ q.key = "default"
      BY <2>2 DEF Req, Requests, DefaultKey, GateStates
    <2>4. RequestFits(q)
      BY <2>3 DEF RequestFits
    <2>5. Act /\ UNCHANGED <<serverVars, clientVars, errors>>
      BY <1>4 DEF AnswerElsewhere
    <2> HIDE DEF q
    <2>6. (net \subseteq Requests)' /\ RequestsFit'
      <3>1. net' = net \cup {q}
        BY <2>1 DEF q
      <3> QED
        BY <1>1, <2>3, <2>4, <2>5, <3>1, OneSentFits DEF clientVars, viewVars
    <2>7. acts' \in 0..MaxActs
      BY <1>1, <2>5, CountsKept
    <2> QED
      BY <1>1, <2>5, <2>6, <2>7, ClientKept DEF TypeOK, clientVars, viewVars
  <1>5. ASSUME NEW r \in net, ReceiveReply(r) PROVE Inv'
    <2> DEFINE b == r.win
               n == IF r.reply = "200" THEN "none"
                    ELSE IF r.reply \in {"200", "replay"} THEN "replay" ELSE "error"
    <2>1. r \in Requests /\ RequestFits(r) /\ r.to = "reply" /\ r.live
      BY <1>1, <1>5 DEF RequestsFit, ReceiveReply
    <2>2. b \in Windows /\ r.id \in Wids /\ n \in {"none", "replay", "error"}
      BY <2>1 DEF RequestFits, Requests
    <2>3. /\ card' = [card EXCEPT ![b].loading = FALSE, ![b].note = n]
          /\ net' \subseteq net \cup {FetchState(b, r.id)}
          /\ UNCHANGED <<serverVars, page, line, panel, drawer, chat, stray, acts, errors>>
      BY <1>5 DEF ReceiveReply
    <2> HIDE DEF n
    <2>4. card' \in [Windows -> C]
      <3>1. card[b] \in C
        BY <1>1, <2>2
      <3>2. [card[b] EXCEPT !.loading = FALSE, !.note = n] \in C
        BY ONLY <2>2, <3>1
      <3>3. card' = [card EXCEPT ![b] = [card[b] EXCEPT !.loading = FALSE, !.note = n]]
        BY <2>3
      <3> HIDE DEF C
      <3> QED
        BY <1>1, <3>2, <3>3
    <2>5. (net \subseteq Requests)' /\ RequestsFit'
      <3> DEFINE q == FetchState(b, r.id)
      <3>1. q \in Requests /\ RequestFits(q)
        BY <2>2, FetchFits
      <3> QED
        BY <1>1, <2>3, <3>1, OneSentFits
    <2> QED
      BY <1>1, <2>3, <2>4, <2>5, ClientKept DEF TypeOK
  <1>6. ASSUME NEW r \in net, Drop(r) PROVE Inv'
    <2>1. net' \subseteq net /\ UNCHANGED <<serverVars, clientVars, acts, errors>>
      BY <1>6 DEF Drop
    <2>2. (net \subseteq Requests)' /\ RequestsFit'
      BY <1>1, <2>1 DEF RequestsFit, RequestFits, clientVars, viewVars
    <2> QED
      BY <1>1, <2>1, <2>2, ClientKept DEF TypeOK, clientVars, viewVars
  <1> QED
    BY <1>2, <1>3, <1>4, <1>5, <1>6
-----------------------------------------------------------------------------
\* The panels, the registry and the goal.
LEMMA PanelSteps ==
  ASSUME Inv,
         \/ \E b \in Windows : Select(b) \/ Refresh(b) \/ StartVersion(b) \/ RunGoal(b)
         \/ \E r \in net : ReceiveRead(r) \/ ReceiveStart(r)
  PROVE  Inv'
  <1> DEFINE P == [key : Ids, data : Ids \cup {"error"}, says : Texts,
                   loading : BOOLEAN, error : BOOLEAN, starting : Versions]
  <1>1. TypeOK /\ RequestsFit /\ net \subseteq Requests /\ panel \in [Windows -> P]
    BY DEF Inv, StartsWhatIsThere, TypeOK
  <1>2. ASSUME NEW b \in Windows, Select(b) \/ Refresh(b) PROVE Inv'
    <2>1. PICK id \in Ids : net' = net \cup {Req(b, "read", id, "none", "none")}
      <3>1. CASE Select(b)
        <4>1. PICK id \in CASE page[b].board = "recipe" -> Recipes
                [] page[b].board = "ops" -> {w \in Wids : status[w] # "absent"}
                [] OTHER -> {} : Send({Req(b, "read", id, "none", "none")})
          BY <3>1 DEF Select
        <4>2. id \in Recipes \cup Wids
          BY <4>1
        <4> QED
          BY <4>1, <4>2 DEF Send, Ids
      <3>2. CASE Refresh(b)
        BY <1>1, <3>2 DEF Refresh, Send
      <3> QED
        BY <1>2, <3>1, <3>2
    <2>a. page[b].board # "run"
      BY <1>2 DEF Select, Refresh
    <2>2. panel' \in [Windows -> P]
      <3>1. ASSUME NEW p \in P, NEW item \in Ids
            PROVE  /\ [p EXCEPT !.key = item, !.loading = TRUE] \in P
                   /\ [p EXCEPT !.error = FALSE] \in P
                   /\ [p EXCEPT !.loading = TRUE] \in P
        OBVIOUS
      <3>2. CASE Select(b)
        <4>1. PICK item \in CASE page[b].board = "recipe" -> Recipes
                [] page[b].board = "ops" -> {w \in Wids : status[w] # "absent"}
                [] OTHER -> {} : panel' = [panel EXCEPT ![b].key = item, ![b].loading = TRUE]
          BY <3>2 DEF Select
        <4>2. item \in Recipes \cup Wids
          BY <4>1
        <4>3. item \in Ids
          BY <4>2 DEF Ids
        <4>4. panel' = [panel EXCEPT ![b] = [panel[b] EXCEPT !.key = item, !.loading = TRUE]]
          BY <1>1, <4>1
        <4> HIDE DEF P
        <4> QED
          BY <1>1, <3>1, <4>3, <4>4
      <3>3. CASE Refresh(b)
        <4>1. \/ panel' = [panel EXCEPT ![b] = [panel[b] EXCEPT !.error = FALSE]]
              \/ panel' = [panel EXCEPT ![b] = [panel[b] EXCEPT !.loading = TRUE]]
          BY <1>1, <3>3 DEF Refresh
        <4>2. "all" \in Ids
          BY DEF Ids
        <4> HIDE DEF P
        <4> QED
          BY <1>1, <3>1, <4>1, <4>2
      <3> QED
        BY <1>2, <3>2, <3>3
    <2>3. Act /\ UNCHANGED <<serverVars, page, line, card, drawer, chat, stray, errors>>
      BY <1>2 DEF Select, Refresh
    <2>4. acts' \in 0..MaxActs
      BY <1>1, <2>3, CountsKept
    <2>5. (net \subseteq Requests)' /\ RequestsFit'
      <3> DEFINE q == Req(b, "read", id, "none", "none")
      <3>1. q \in Requests /\ RequestFits(q)
        BY <2>a, FetchFits
      <3> QED
        BY <1>1, <2>1, <2>3, <3>1, OneSentFits
    <2> QED
      BY <1>1, <2>2, <2>3, <2>4, <2>5, ClientKept DEF TypeOK
  <1>3. ASSUME NEW b \in Windows, StartVersion(b) PROVE Inv'
    <2>1. PICK v \in VersionsOf[panel[b].data] :
            /\ panel' = [panel EXCEPT ![b].starting = v]
            /\ Send({Req(b, "start", RowOf(b), v, "none")})
      BY <1>3 DEF StartVersion
    <2>2. /\ Act /\ UNCHANGED <<serverVars, page, line, card, drawer, chat, stray, errors>>
          /\ panel[b].data \in Recipes
      BY <1>3 DEF StartVersion
    <2> DEFINE q == Req(b, "start", RowOf(b), v, "none")
    <2>3. RowOf(b) = panel[b].data /\ RowOf(b) \in Ids /\ v \in Versions
      BY <2>2 DEF RowOf, Ids, Versions
    <2>4. q \in Requests /\ RequestFits(q)
      BY <2>1, <2>2, <2>3, ReqFacts DEF RequestFits
    <2>5. (net \subseteq Requests)' /\ RequestsFit'
      BY <1>1, <2>1, <2>2, <2>4, OneSentFits DEF Send
    <2>6. panel' \in [Windows -> P]
      <3>1. ASSUME NEW p \in P PROVE [p EXCEPT !.starting = v] \in P
        BY <2>3
      <3>2. panel' = [panel EXCEPT ![b] = [panel[b] EXCEPT !.starting = v]]
        BY <1>1, <2>1
      <3> HIDE DEF P
      <3> QED
        BY <1>1, <3>1, <3>2
    <2>7. acts' \in 0..MaxActs
      BY <1>1, <2>2, CountsKept
    <2> QED
      BY <1>1, <2>2, <2>5, <2>6, <2>7, ClientKept DEF TypeOK
  <1>4. ASSUME NEW b \in Windows, RunGoal(b) PROVE Inv'
    <2>1. PICK w \in Wids : Send({Req(b, "start", w, "none", "none")})
      BY <1>4 DEF RunGoal
    <2>2. /\ Act /\ UNCHANGED <<serverVars, page, line, card, panel, drawer, stray, errors>>
          /\ chat' = [chat EXCEPT ![b] = TRUE]
      BY <1>4 DEF RunGoal
    <2> DEFINE q == Req(b, "start", w, "none", "none")
    <2>3. w \in Ids
      BY DEF Ids
    <2>4. q \in Requests /\ RequestFits(q)
      BY <2>3, ReqFacts DEF RequestFits
    <2>5. (net \subseteq Requests)' /\ RequestsFit'
      BY <1>1, <2>1, <2>2, <2>4, OneSentFits DEF Send
    <2>6. chat' \in [Windows -> BOOLEAN]
      BY <1>1, <2>2 DEF TypeOK
    <2>7. acts' \in 0..MaxActs
      BY <1>1, <2>2, CountsKept
    <2> QED
      BY <1>1, <2>2, <2>5, <2>6, <2>7, ClientKept DEF TypeOK
  <1>5. ASSUME NEW r \in net, ReceiveRead(r) PROVE Inv'
    <2>1. /\ r \in Requests /\ RequestFits(r) /\ r.live /\ r.to = "read" /\ net' = net \ {r}
          /\ panel' = [panel EXCEPT ![r.win] = Updated(page[r.win].board, @, r)]
          /\ UNCHANGED <<serverVars, page, line, card, drawer, chat, stray, acts, errors>>
      BY <1>1, <1>5 DEF RequestsFit, ReceiveRead
    <2>2. r.win \in Windows /\ r.id \in Ids /\ r.reply \in Texts
      BY <2>1 DEF RequestFits, Requests
    <2>3. ASSUME NEW p \in P, NEW board \in BoardNames \ {"run"} PROVE Updated(board, p, r) \in P
      <3> DEFINE good == Good(r)
      <3>1. good \in BOOLEAN
        BY DEF Good
      <3>2. \/ Updated(board, p, r) = [p EXCEPT !.loading = FALSE, !.error = @ \/ ~good,
                                                !.data = IF good THEN r.id ELSE @]
            \/ Updated(board, p, r) = [p EXCEPT !.loading = FALSE,
                                                !.data = IF good THEN r.id ELSE @]
            \/ Updated(board, p, r) = [p EXCEPT !.loading = FALSE,
                                                !.data = IF good THEN r.id ELSE @,
                                                !.says = IF good THEN r.reply ELSE @]
            \/ Updated(board, p, r) = [p EXCEPT !.error = ~good,
                                                !.data = IF good THEN r.id ELSE @]
            \/ Updated(board, p, r) = [p EXCEPT !.loading = FALSE,
                                                !.data = IF good THEN r.id ELSE "error"]
        BY DEF Updated, BoardNames, ProofPanel, PatchReviewPanel, SignoffBoard, ThroughputBoard,
               OpsBoard, HitlInboxBoard, RecipeRegistryBoard
      <3> HIDE DEF good
      <3> QED
        BY <2>2, <3>1, <3>2
    <2>4. panel' \in [Windows -> P]
      <3>1. page[r.win].board \in BoardNames \ {"run"}
        BY <1>1, <2>1, <2>2 DEF RequestFits, TypeOK
      <3>2. panel' = [panel EXCEPT ![r.win] = Updated(page[r.win].board, panel[r.win], r)]
        BY <2>1
      <3> HIDE DEF P
      <3> QED
        BY <1>1, <2>2, <2>3, <3>1, <3>2
    <2>5. (net \subseteq Requests)' /\ RequestsFit'
      BY <1>1, <2>1, FewerFit
    <2> QED
      BY <1>1, <2>1, <2>4, <2>5, ClientKept DEF TypeOK
  <1>6. ASSUME NEW r \in net, ReceiveStart(r) PROVE Inv'
    <2>1. r \in Requests /\ RequestFits(r) /\ r.to = "start" /\ r.win \in Windows
      BY <1>1, <1>6 DEF RequestsFit, RequestFits, ReceiveStart
    <2>2. /\ chat' \in [Windows -> BOOLEAN] /\ UNCHANGED <<serverVars, acts, errors>>
      BY <1>1, <1>6, <2>1 DEF TypeOK, ReceiveStart
    <2>3. CASE r.reply \in Wids
      <3>1. TurnTo(r.win, "run", r.reply, net \ {r}) /\ net \ {r} \in SUBSET net
            /\ "run" \in BoardNames
        BY <1>6, <2>3 DEF ReceiveStart, BoardNames
      <3> QED
        BY <1>1, <2>1, <2>2, <2>3, <3>1, TurnedTo, ClientKept DEF TypeOK
    <2>4. CASE r.reply \notin Wids
      <3>1. /\ net' = net \ {r} /\ panel' = [panel EXCEPT ![r.win].starting = "none"]
            /\ UNCHANGED <<page, line, card, drawer, stray>>
        BY <1>6, <2>4 DEF ReceiveStart
      <3>2. panel' \in [Windows -> P]
        <4>1. "none" \in Versions
          BY DEF Versions
        <4>2. ASSUME NEW p \in P PROVE [p EXCEPT !.starting = "none"] \in P
          BY <4>1
        <4>3. panel' = [panel EXCEPT ![r.win] = [panel[r.win] EXCEPT !.starting = "none"]]
          BY <1>1, <3>1
        <4> HIDE DEF P
        <4> QED
          BY <1>1, <2>1, <4>2, <4>3
      <3>3. (net \subseteq Requests)' /\ RequestsFit'
        BY <1>1, <3>1, FewerFit
      <3> QED
        BY <1>1, <2>2, <3>1, <3>2, <3>3, ClientKept DEF TypeOK
    <2> QED
      BY <2>3, <2>4
  <1> QED
    BY <1>2, <1>3, <1>4, <1>5, <1>6
-----------------------------------------------------------------------------
\* The drawer of operations.
LEMMA DrawerSteps ==
  ASSUME Inv,
         \/ \E b \in Windows : OpenDrawer(b) \/ CloseDrawer(b) \/ Confirm(b)
         \/ \E r \in net : ReceiveOp(r)
  PROVE  Inv'
  <1> DEFINE D == [open : BOOLEAN, op : Ops \cup {"none"}, reason : BOOLEAN,
                   busy : BOOLEAN, error : BOOLEAN]
             P == [key : Ids, data : Ids \cup {"error"}, says : Texts,
                   loading : BOOLEAN, error : BOOLEAN, starting : Versions]
  <1>1. /\ TypeOK /\ RequestsFit /\ net \subseteq Requests
        /\ drawer \in [Windows -> D] /\ panel \in [Windows -> P]
    BY DEF Inv, StartsWhatIsThere, TypeOK
  <1>2. ASSUME NEW d \in D, NEW op \in Ops, NEW e \in BOOLEAN
        PROVE  /\ [d EXCEPT !.open = TRUE, !.op = op] \in D
               /\ [d EXCEPT !.reason = TRUE, !.busy = TRUE, !.error = FALSE] \in D
               /\ [d EXCEPT !.error = TRUE] \in D
               /\ [d EXCEPT !.busy = FALSE] \in D
               /\ [d EXCEPT !.busy = FALSE, !.error = TRUE] \in D
    OBVIOUS
  <1>3. ASSUME NEW b \in Windows PROVE drawer[b] \in D
    BY <1>1
  <1>4. ASSUME NEW b \in Windows PROVE Closed(b) \in [Windows -> D] /\ Closed(b)[b] \in D
    <2> DEFINE o == IF page[b].board = "run" THEN "none" ELSE drawer[b].op
    <2>1. Closed(b) = [drawer EXCEPT ![b] = [drawer[b] EXCEPT !.open = FALSE, !.op = o]]
      BY <1>1 DEF Closed
    <2>2. o \in Ops \cup {"none"}
      BY <1>3
    <2>3. [drawer[b] EXCEPT !.open = FALSE, !.op = o] \in D
      <3> HIDE DEF o
      <3> QED
        BY <1>3, <2>2
    <2> HIDE DEF D
    <2> QED
      BY <1>1, <2>1, <2>3
  <1>5. ASSUME NEW b \in Windows, OpenDrawer(b) \/ CloseDrawer(b) PROVE Inv'
    <2>1. /\ Act /\ UNCHANGED <<serverVars, page, line, card, panel, chat, stray, net, errors>>
          /\ \/ drawer' = Closed(b)
             \/ \E op \in Ops : drawer' = [drawer EXCEPT ![b].open = TRUE, ![b].op = op]
      BY <1>5 DEF OpenDrawer, CloseDrawer, Offered
    <2>2. drawer' \in [Windows -> D]
      <3>1. CASE drawer' = Closed(b)
        BY <1>4, <3>1
      <3>2. ASSUME NEW op \in Ops, drawer' = [drawer EXCEPT ![b].open = TRUE, ![b].op = op]
            PROVE  drawer' \in [Windows -> D]
        <4>1. drawer' = [drawer EXCEPT ![b] = [drawer[b] EXCEPT !.open = TRUE, !.op = op]]
          BY <1>1, <3>2
        <4>2. [drawer[b] EXCEPT !.open = TRUE, !.op = op] \in D
          BY <1>2, <1>3
        <4> HIDE DEF D
        <4> QED
          BY <1>1, <4>1, <4>2
      <3> QED
        BY <2>1, <3>1, <3>2
    <2>3. acts' \in 0..MaxActs
      BY <1>1, <2>1, CountsKept
    <2>4. (net \subseteq Requests)' /\ RequestsFit'
      BY <1>1, <2>1, FewerFit
    <2> QED
      BY <1>1, <2>1, <2>2, <2>3, <2>4, ClientKept DEF TypeOK
  <1>6. ASSUME NEW b \in Windows, Confirm(b) PROVE Inv'
    <2> DEFINE q == Req(b, "op", Subject(b), drawer[b].op, "none")
    <2>1. /\ Act /\ UNCHANGED <<serverVars, page, line, card, panel, chat, stray, errors>>
          /\ \/ drawer' = [drawer EXCEPT ![b].reason = TRUE, ![b].busy = TRUE, ![b].error = FALSE]
             \/ drawer' = [drawer EXCEPT ![b].error = TRUE]
          /\ net' \subseteq net \cup {q}
      BY <1>6 DEF Confirm, Send
    <2>2. drawer' \in [Windows -> D]
      <3>1. \/ drawer' = [drawer EXCEPT ![b] = [drawer[b] EXCEPT !.reason = TRUE, !.busy = TRUE,
                                                                 !.error = FALSE]]
            \/ drawer' = [drawer EXCEPT ![b] = [drawer[b] EXCEPT !.error = TRUE]]
        BY <1>1, <2>1
      <3>2. /\ [drawer[b] EXCEPT !.reason = TRUE, !.busy = TRUE, !.error = FALSE] \in D
            /\ [drawer[b] EXCEPT !.error = TRUE] \in D
        BY <1>3
      <3> HIDE DEF D
      <3> QED
        BY <1>1, <3>1, <3>2
    <2>3. /\ Subject(b) \in Ids /\ (page[b].board = "run" => Subject(b) \in Wids)
          /\ drawer[b].op \in Ops \cup {"none"}
      <3>1. page[b].wid \in Wids /\ panel[b].key \in Ids /\ drawer[b].op \in Ops \cup {"none"}
        BY <1>1 DEF TypeOK
      <3> QED
        BY <3>1 DEF Subject, Ids
    <2>4. q \in Requests /\ RequestFits(q)
      BY <2>3, ReqFacts DEF RequestFits
    <2>5. (net \subseteq Requests)' /\ RequestsFit'
      BY <1>1, <2>1, <2>4, OneSentFits
    <2>6. acts' \in 0..MaxActs
      BY <1>1, <2>1, CountsKept
    <2> QED
      BY <1>1, <2>1, <2>2, <2>5, <2>6, ClientKept DEF TypeOK
  <1>7. ASSUME NEW r \in net, ReceiveOp(r) PROVE Inv'
    <2> DEFINE b == r.win
               q == IF page[b].board = "run" THEN FetchState(b, r.id)
                    ELSE Req(b, "read", r.id, "none", "none")
    <2>1. r \in Requests /\ RequestFits(r) /\ r.to = "op" /\ r.live
      BY <1>1, <1>7 DEF RequestsFit, ReceiveOp
    <2>2. b \in Windows /\ r.id \in Ids
      BY <2>1 DEF RequestFits, Requests
    <2>3. /\ \/ drawer' = [Closed(b) EXCEPT ![b].busy = FALSE]
             \/ drawer' = [drawer EXCEPT ![b].busy = FALSE, ![b].error = TRUE]
          /\ panel' = panel \/ panel' = [panel EXCEPT ![b].loading = TRUE]
          /\ UNCHANGED <<serverVars, page, line, card, chat, stray, acts, errors>>
          /\ net' \subseteq net \cup {q}
      BY <1>7 DEF ReceiveOp
    <2>4. q \in Requests /\ RequestFits(q)
      <3>1. CASE page[b].board = "run"
        <4>1. r.id \in Wids
          BY <2>1, <3>1 DEF RequestFits
        <4> QED
          BY <2>2, <3>1, <4>1, FetchFits
      <3>2. CASE page[b].board # "run"
        BY <2>2, <3>2, FetchFits
      <3> QED
        BY <3>1, <3>2
    <2> HIDE DEF q
    <2>5. (net \subseteq Requests)' /\ RequestsFit'
      BY <1>1, <2>3, <2>4, OneSentFits
    <2>6. drawer' \in [Windows -> D]
      <3>1. Closed(b) \in [Windows -> D] /\ Closed(b)[b] \in D /\ drawer[b] \in D
        BY <1>3, <1>4, <2>2
      <3>2. \/ drawer' = [Closed(b) EXCEPT ![b] = [Closed(b)[b] EXCEPT !.busy = FALSE]]
            \/ drawer' = [drawer EXCEPT ![b] = [drawer[b] EXCEPT !.busy = FALSE, !.error = TRUE]]
        BY <1>1, <2>2, <2>3, <3>1
      <3>4. /\ [Closed(b)[b] EXCEPT !.busy = FALSE] \in D
            /\ [drawer[b] EXCEPT !.busy = FALSE, !.error = TRUE] \in D
        BY ONLY <3>1
      <3> HIDE DEF D
      <3> QED
        BY <1>1, <2>2, <3>1, <3>2, <3>4
    <2>7. panel' \in [Windows -> P]
      <3>1. panel[b] \in P
        BY <1>1, <2>2
      <3>2. ASSUME NEW p \in P PROVE [p EXCEPT !.loading = TRUE] \in P
        OBVIOUS
      <3>3. [panel[b] EXCEPT !.loading = TRUE] \in P
        BY <3>1, <3>2
      <3>4. panel' = panel \/ panel' = [panel EXCEPT ![b] = [panel[b] EXCEPT !.loading = TRUE]]
        BY <1>1, <2>2, <2>3
      <3> HIDE DEF P
      <3> QED
        BY <1>1, <2>2, <3>3, <3>4
    <2> QED
      BY <1>1, <2>3, <2>5, <2>6, <2>7, ClientKept DEF TypeOK
  <1> QED
    BY <1>5, <1>6, <1>7
-----------------------------------------------------------------------------
(* The theorems. *)

\* The invariant speaks of nothing but the variables.
LEMMA StutterInv == Inv /\ UNCHANGED vars => Inv'
  BY DEF Inv, OneAnswerPerGate, StartsWhatIsThere, TypeOK, RequestsFit, RequestFits, vars,
     serverVars, clientVars, runVars, viewVars

\* Every step keeps it.
LEMMA StepInv == Inv /\ [Next]_vars => Inv'
  <1> SUFFICES ASSUME Inv, [Next]_vars PROVE Inv'
    OBVIOUS
  <1>1. CASE \E w \in Wids : RunGoesOn(w) \/ GateCloses(w)
    BY <1>1, RunSteps
  <1>2. ASSUME NEW r \in net, Serve(r) \/ Receive(r) \/ Lose(r) PROVE Inv'
    BY <1>2, RunSteps, ServerSteps, TimelineSteps, CardSteps, PanelSteps, DrawerSteps
       DEF Receive
  <1>3. ASSUME NEW b \in Windows, Poll(b) \/ StreamChunk(b) \/ Person(b) PROVE Inv'
    BY <1>3, TimelineSteps, CardSteps, PanelSteps, DrawerSteps DEF Person
  <1>4. CASE \E b \in Elsewhere : AnswerElsewhere(b)
    BY <1>4, CardSteps
  <1>5. CASE UNCHANGED vars
    BY <1>5, StutterInv
  <1> QED
    BY <1>1, <1>2, <1>3, <1>4, <1>5 DEF Next

\* However often and from however many windows a gate is answered, whatever is
\* lost or comes late, the ledger has one payload for it, unless somebody edits
\* the key (HitlGateCard's default key names run, gate and opening time).
THEOREM OneAnswer == Spec => []OneAnswerPerGate
  <1>1. Init => Inv
    BY InitInv
  <1>2. Inv /\ [Next]_vars => Inv'
    BY StepInv
  <1>3. Inv => OneAnswerPerGate
    BY DEF Inv
  <1> QED
    BY <1>1, <1>2, <1>3, PTL DEF Spec

\* The registry starts versions of the recipe whose row was clicked, and the
\* state of windows and requests keeps its shape, although replies come late,
\* to a window that has turned to another board or recipe since.
THEOREM StartsExisting == Spec => []StartsWhatIsThere
  <1>1. Init => Inv
    BY InitInv
  <1>2. Inv /\ [Next]_vars => Inv'
    BY StepInv
  <1>3. Inv => StartsWhatIsThere
    BY DEF Inv
  <1> QED
    BY <1>1, <1>2, <1>3, PTL DEF Spec
-----------------------------------------------------------------------------
(* Views: the worlds of a read. *)

\* The first and the present world are among the worlds of the read.
LEMMA WorldsTyped ==
  ASSUME ReadTypeOK
  PROVE  /\ world \in Worlds /\ saw[1] \in Worlds
         /\ Len(saw) \in Nat \ {0} /\ DOMAIN saw = 1..Len(saw)
         /\ 1 \in DOMAIN saw /\ Len(saw) \in DOMAIN saw
         /\ \A i \in DOMAIN saw : saw[i] \in Worlds
         /\ ~Reading => saw = <<world>> /\ DOMAIN saw = {1} /\ saw[1] = world
  <1>1. saw \in Seq(Worlds) /\ saw # <<>>
    BY DEF ReadTypeOK
  <1>2. Len(saw) \in Nat \ {0} /\ DOMAIN saw = 1..Len(saw)
    BY <1>1
  <1>3. /\ 1 \in DOMAIN saw /\ Len(saw) \in DOMAIN saw
        /\ \A i \in DOMAIN saw : saw[i] \in Worlds
    BY <1>1, <1>2
  <1>4. ASSUME ~Reading
        PROVE  saw = <<world>> /\ DOMAIN saw = {1} /\ saw[1] = world
    <2>1. Len(saw) = 1
      BY <1>4 DEF ReadTypeOK
    <2> QED
      BY <1>1, <1>2, <2>1 DEF world
  <1> QED
    BY <1>2, <1>3, <1>4 DEF world

\* A move adds a world to a read that is under way, and replaces the world
\* otherwise.
LEMMA MoveFacts ==
  ASSUME ReadTypeOK, NEW w \in Worlds, Move(w)
  PROVE  /\ UNCHANGED <<watch, got, shown>>
         /\ world' = w /\ Len(saw') \in DOMAIN saw' /\ saw'[Len(saw')] = w
         /\ 1 \in DOMAIN saw'
         /\ \A i \in DOMAIN saw' : saw'[i] = w \/ (i \in DOMAIN saw /\ saw'[i] = saw[i])
         /\ Reading => /\ saw'[1] = saw[1]
                       /\ \A i \in DOMAIN saw : i \in DOMAIN saw' /\ saw'[i] = saw[i]
         /\ ~Reading => saw'[1] = w /\ DOMAIN saw' = {1} /\ DOMAIN got = {}
         /\ ReadTypeOK'
  <1>1. /\ saw \in Seq(Worlds) /\ saw # <<>> /\ moves \in Nat
        /\ UNCHANGED <<watch, got, shown>> /\ moves' = moves + 1
        /\ saw' = Append(IF Reading THEN saw ELSE <<>>, w)
    BY DEF ReadTypeOK, Move
  <1>2. Reading' = Reading
    BY <1>1 DEF Reading
  <1>3. CASE Reading
    <2>1. /\ saw' = Append(saw, w) /\ saw' \in Seq(Worlds) /\ saw' # <<>>
          /\ Len(saw') = Len(saw) + 1
      BY <1>1, <1>3
    <2>2. /\ world' = w /\ Len(saw') \in DOMAIN saw' /\ saw'[Len(saw')] = w
          /\ 1 \in DOMAIN saw'
          /\ \A i \in DOMAIN saw' : saw'[i] = w \/ (i \in DOMAIN saw /\ saw'[i] = saw[i])
          /\ saw'[1] = saw[1]
          /\ \A i \in DOMAIN saw : i \in DOMAIN saw' /\ saw'[i] = saw[i]
      BY <1>1, <2>1 DEF world
    <2>3. ReadTypeOK'
      BY <1>1, <1>2, <1>3, <2>1 DEF ReadTypeOK
    <2> QED
      BY <1>1, <1>3, <2>2, <2>3
  <1>4. CASE ~Reading
    <2>1. saw' = <<w>> /\ got = <<>>
      BY <1>1, <1>4 DEF Reading
    <2>2. /\ world' = w /\ Len(saw') = 1 /\ DOMAIN saw' = {1} /\ saw'[1] = w
          /\ saw' \in Seq(Worlds) /\ saw' # <<>> /\ DOMAIN got = {}
      BY <2>1 DEF world
    <2>3. ReadTypeOK'
      BY <1>1, <1>2, <1>4, <2>2 DEF ReadTypeOK
    <2> QED
      BY <1>1, <1>4, <2>2, <2>3
  <1> QED
    BY <1>3, <1>4

\* What was found stays found.
LEMMA MoveFound ==
  ASSUME ReadTypeOK, FoundInv, NEW w \in Worlds, Move(w)
  PROVE  FoundInv'
  <1> SUFFICES ASSUME NEW q \in DOMAIN got \ {"ids", "frontier"}
               PROVE  \/ \E i \in DOMAIN saw' : got[q] = Found(saw'[i], q)
                      \/ watch # "signoff" /\ q = "dbos" /\ got[q] = "unknown"
                      \/ q = "calls" /\ got[q] = {}
    BY MoveFacts DEF FoundInv
  <1>1. Reading
    BY MoveFacts
  <1>2. \A i \in DOMAIN saw : i \in DOMAIN saw' /\ saw'[i] = saw[i]
    BY <1>1, MoveFacts
  <1> QED
    BY <1>2 DEF FoundInv

\* A query adds what it found and moves nothing.
LEMMA KeepFacts ==
  ASSUME ReadTypeOK, NEW found, Keep(found), DOMAIN found # {}
  PROVE  /\ UNCHANGED <<watch, moves, shown, saw>> /\ world' = world
         /\ DOMAIN got' = DOMAIN found \cup DOMAIN got /\ Reading'
         /\ \A q \in DOMAIN found : got'[q] = found[q]
         /\ \A q \in DOMAIN got \ DOMAIN found : got'[q] = got[q]
  <1>1. saw' = saw
    BY WorldsTyped DEF Keep
  <1>2. /\ DOMAIN got' = DOMAIN found \cup DOMAIN got
        /\ \A q \in DOMAIN found : got'[q] = found[q]
        /\ \A q \in DOMAIN got \ DOMAIN found : got'[q] = got[q]
    BY DEF Keep
  <1>3. got' # <<>>
    <2>1. DOMAIN got' # {}
      BY <1>2
    <2>2. DOMAIN <<>> = {}
      OBVIOUS
    <2> QED
      BY <2>1, <2>2
  <1> QED
    BY <1>1, <1>2, <1>3 DEF Keep, world, Reading

\* The queries of each view.
QueriesOf(v) == UNION {Queries[v][i] : i \in DOMAIN Queries[v]}
LEMMA QueriesAre ==
  /\ QueriesOf("header") = {"row", "dbos"}
  /\ QueriesOf("proofs") = {"row", "rows", "arts", "dbos"}
  /\ QueriesOf("steps") = {"calls", "rows", "arts"}
  /\ QueriesOf("gate") = {"openGate", "prompt", "result", "decision"}
  /\ QueriesOf("repro") = {"sbx", "gates"}
  /\ QueriesOf("signoff") = {"pf", "proof", "posture", "violation", "twice", "failures",
                             "succeeded", "dbos"}
  <1>1. /\ Queries["header"] = <<{"row"}, {"dbos"}>>
        /\ Queries["proofs"] = <<{"row"}, {"rows", "arts", "dbos"}>>
        /\ Queries["steps"] = <<{"calls", "rows", "arts"}>>
        /\ Queries["gate"] = <<{"openGate"}, {"prompt", "result", "decision"}>>
        /\ Queries["repro"] = <<{"sbx", "gates"}>>
        /\ Queries["signoff"] = <<{"pf", "proof"}, {"posture"}, {"violation"}, {"twice"},
                                  {"failures"}, {"succeeded"}, {"dbos"}>>
    BY DEF Queries, Tiles
  <1>2. ASSUME NEW s, NEW A, s = <<A>> PROVE UNION {s[i] : i \in DOMAIN s} = A
    <2>1. DOMAIN s = {1} /\ s[1] = A
      BY <1>2
    <2> QED
      BY <2>1
  <1>3. ASSUME NEW s, NEW A, NEW B, s = <<A, B>>
        PROVE  UNION {s[i] : i \in DOMAIN s} = A \cup B
    <2>1. DOMAIN s = {1, 2} /\ s[1] = A /\ s[2] = B
      BY <1>3
    <2> QED
      BY <2>1
  <1>4. QueriesOf("header") = {"row"} \cup {"dbos"}
    BY <1>1, <1>3 DEF QueriesOf
  <1>5. QueriesOf("proofs") = {"row"} \cup {"rows", "arts", "dbos"}
    BY <1>1, <1>3 DEF QueriesOf
  <1>6. QueriesOf("steps") = {"calls", "rows", "arts"}
    BY <1>1, <1>2 DEF QueriesOf
  <1>7. QueriesOf("gate") = {"openGate"} \cup {"prompt", "result", "decision"}
    BY <1>1, <1>3 DEF QueriesOf
  <1>8. QueriesOf("repro") = {"sbx", "gates"}
    BY <1>1, <1>2 DEF QueriesOf
  <1>9. QueriesOf("signoff") = {"pf", "proof", "posture", "violation", "twice", "failures",
                                "succeeded", "dbos"}
    <2> DEFINE s == Queries["signoff"]
    <2>1. /\ DOMAIN s = 1..7 /\ s[1] = {"pf", "proof"} /\ s[2] = {"posture"}
          /\ s[3] = {"violation"} /\ s[4] = {"twice"} /\ s[5] = {"failures"}
          /\ s[6] = {"succeeded"} /\ s[7] = {"dbos"}
      BY <1>1
    <2>2. DOMAIN s = {1, 2, 3, 4, 5, 6, 7}
      BY <2>1
    <2> HIDE DEF s
    <2>3. UNION {s[i] : i \in DOMAIN s} =
            s[1] \cup s[2] \cup s[3] \cup s[4] \cup s[5] \cup s[6] \cup s[7]
      BY <2>2
    <2>4. UNION {s[i] : i \in DOMAIN s} = {"pf", "proof", "posture", "violation", "twice",
                                           "failures", "succeeded", "dbos"}
      BY <2>1, <2>3
    <2> QED
      BY <2>4 DEF QueriesOf, s
  <1> QED
    BY <1>4, <1>5, <1>6, <1>7, <1>8, <1>9

\* An answer, or a failure to give one, is about one query of the view that was
\* not asked before, and is what the present world has.
LEMMA AnswerFacts ==
  ASSUME ReadTypeOK, watch \in Views, NEW q, Answer(q) \/ AnswerFails(q)
  PROVE  /\ UNCHANGED <<watch, moves, shown, saw>> /\ world' = world
         /\ q \in QueriesOf(watch) \ DOMAIN got
         /\ q \notin {"ids", "frontier"}
         /\ DOMAIN got' = {q} \cup DOMAIN got /\ Reading'
         /\ \A p \in DOMAIN got : got'[p] = got[p]
         /\ \/ got'[q] = Found(world, q)
            \/ /\ watch \in {"header", "proofs", "steps"}
               /\ \/ q = "dbos" /\ got'[q] = "unknown"
                  \/ q = "calls" /\ got'[q] = {}
  <1>1. q \in QueriesOf(watch) \ DOMAIN got
    BY DEF Answer, AnswerFails, Asks, QueriesOf
  <1>2. q \notin {"ids", "frontier"}
    BY <1>1, QueriesAre DEF Views
  <1>3. CASE Answer(q)
    <2> DEFINE f == [p \in {q} |-> Found(world, q)]
    <2>1. Keep(f) /\ DOMAIN f = {q} /\ f[q] = Found(world, q)
      BY <1>3 DEF Answer
    <2> HIDE DEF f
    <2> QED
      BY <1>1, <1>2, <2>1, KeepFacts
  <1>4. CASE AnswerFails(q)
    <2> DEFINE f == [p \in {q} |-> IF q = "dbos" THEN "unknown" ELSE {}]
    <2>1. /\ Keep(f) /\ DOMAIN f = {q}
          /\ f[q] = IF q = "dbos" THEN "unknown" ELSE {}
          /\ watch \in {"header", "proofs", "steps"} /\ q \in {"dbos", "calls"}
      BY <1>4 DEF AnswerFails
    <2> HIDE DEF f
    <2> QED
      BY <1>1, <1>2, <2>1, KeepFacts
  <1> QED
    BY <1>3, <1>4

LEMMA DiscoverFacts ==
  ASSUME ReadTypeOK, discoverDbosWorkflowScope
  PROVE  LET kids == Kids(Frontier, world.born) \ Known IN
         /\ UNCHANGED <<watch, moves, shown, saw>> /\ world' = world
         /\ watch = "repro" /\ Complete /\ Reading'
         /\ DOMAIN got' = {"ids", "frontier"} \cup DOMAIN got
         /\ \A p \in DOMAIN got \ {"ids", "frontier"} : got'[p] = got[p]
         /\ got'["ids"] = Known \cup kids /\ got'["frontier"] = kids
  <1> DEFINE kids == Kids(Frontier, world.born) \ Known
             f == [ids |-> Known \cup kids, frontier |-> kids]
  <1>1. /\ Keep(f) /\ DOMAIN f = {"ids", "frontier"} /\ f["ids"] = Known \cup kids
        /\ f["frontier"] = kids /\ watch = "repro" /\ Complete
    BY DEF discoverDbosWorkflowScope
  <1> HIDE DEF f, kids
  <1> QED
    BY <1>1, KeepFacts DEF kids

\* A view is shown when every query was answered; what is shown stays, and the
\* next read begins in the present world.
NewShown == [view |-> View(got), span |-> saw,
             blind |-> "dbos" \in DOMAIN got /\ got.dbos = "unknown"]
LEMMA ShowFacts ==
  ASSUME ReadTypeOK, Show
  PROVE  /\ UNCHANGED <<watch, moves>> /\ Complete /\ Reading
         /\ got' = <<>> /\ DOMAIN got' = {}
         /\ world' = world /\ saw' = <<world>> /\ DOMAIN saw' = {1} /\ saw'[1] = world
         /\ Len(shown) \in Nat /\ DOMAIN shown = 1..Len(shown)
         /\ Len(shown') = Len(shown) + 1 /\ DOMAIN shown' = 1..(Len(shown) + 1)
         /\ \A i \in DOMAIN shown : shown'[i] = shown[i]
         /\ shown'[Len(shown) + 1] = NewShown
         /\ ReadTypeOK'
  <1>1. shown \in Seq({shown[i] : i \in DOMAIN shown})
    BY DEF ReadTypeOK
  <1>2. shown' = Append(shown, NewShown)
    BY DEF Show, NewShown
  <1>3. /\ Len(shown) \in Nat /\ DOMAIN shown = 1..Len(shown)
        /\ Len(shown') = Len(shown) + 1 /\ DOMAIN shown' = 1..(Len(shown) + 1)
        /\ \A i \in DOMAIN shown : shown'[i] = shown[i]
        /\ shown'[Len(shown) + 1] = NewShown
    BY <1>1, <1>2
  <1>4. /\ UNCHANGED <<watch, moves>> /\ Complete /\ got' = <<>> /\ saw' = <<world>>
    BY DEF Show
  <1>5. DOMAIN got' = {} /\ DOMAIN saw' = {1} /\ saw'[1] = world /\ Len(saw') = 1
    BY <1>4
  <1>6. world' = world
    BY <1>4, <1>5 DEF world
  <1>7. Reading
    <2>1. CASE NoGate
      <3>1. DOMAIN <<>> = {}
        OBVIOUS
      <3> QED
        BY <2>1, <3>1 DEF NoGate, Reading
    <2> QED
      BY <1>4, <2>1 DEF Complete
  <1>8. ReadTypeOK'
    <2>1. saw' \in Seq(Worlds) /\ saw' # <<>>
      BY <1>4, WorldsTyped
    <2>2. shown' \in Seq({shown'[i] : i \in DOMAIN shown'})
      BY <1>3, <1>1, <1>2
    <2>3. ~Reading'
      BY <1>4 DEF Reading
    <2> QED
      BY <1>4, <1>5, <2>1, <2>2, <2>3 DEF ReadTypeOK
  <1> QED
    BY <1>3, <1>4, <1>5, <1>6, <1>7, <1>8

\* Nothing but the queries of the view has an answer.
LEMMA GotIsAsked ==
  ASSUME ReadTypeOK
  PROVE  DOMAIN got \subseteq QueriesOf(watch) \cup {"ids", "frontier"}
  <1>1. CASE Reading
    BY <1>1 DEF ReadTypeOK, QueriesOf
  <1>2. CASE ~Reading
    <2>1. got = <<>> /\ DOMAIN <<>> = {}
      BY <1>2 DEF Reading
    <2> QED
      BY <2>1
  <1> QED
    BY <1>1, <1>2

\* Type correctness and FoundInv of the reads.
LEMMA AnswerKeeps ==
  ASSUME ReadTypeOK, FoundInv, watch \in Views, NEW q, Answer(q) \/ AnswerFails(q)
  PROVE  ReadTypeOK' /\ FoundInv'
  <1>1. ReadTypeOK'
    <2>1. DOMAIN got \subseteq QueriesOf(watch) \cup {"ids", "frontier"}
      BY GotIsAsked
    <2>2. /\ UNCHANGED <<watch, moves, shown, saw>> /\ Reading'
          /\ DOMAIN got' \subseteq QueriesOf(watch) \cup {"ids", "frontier"}
      BY <2>1, AnswerFacts
    <2> QED
      BY <2>2 DEF ReadTypeOK, QueriesOf
  <1>2. ASSUME NEW p \in DOMAIN got' \ {"ids", "frontier"}
        PROVE  \/ \E i \in DOMAIN saw' : got'[p] = Found(saw'[i], p)
               \/ watch' # "signoff" /\ p = "dbos" /\ got'[p] = "unknown"
               \/ p = "calls" /\ got'[p] = {}
    <2>1. CASE p \in DOMAIN got
      BY <1>2, <2>1, AnswerFacts DEF FoundInv
    <2>2. CASE p = q
      <3>1. Len(saw) \in DOMAIN saw /\ world = saw[Len(saw)] /\ saw' = saw
        BY WorldsTyped, AnswerFacts DEF world
      <3> QED
        BY <2>2, <3>1, AnswerFacts
    <2> QED
      BY <1>2, <2>1, <2>2, AnswerFacts
  <1> QED
    BY <1>1, <1>2 DEF FoundInv

LEMMA DiscoverKeeps ==
  ASSUME ReadTypeOK, FoundInv, discoverDbosWorkflowScope
  PROVE  ReadTypeOK' /\ FoundInv'
  <1>1. ReadTypeOK'
    <2>1. DOMAIN got \subseteq QueriesOf(watch) \cup {"ids", "frontier"}
      BY GotIsAsked
    <2>2. DOMAIN got' \subseteq QueriesOf(watch) \cup {"ids", "frontier"}
      BY <2>1, DiscoverFacts
    <2>3. UNCHANGED <<watch, moves, shown, saw>> /\ Reading'
      BY DiscoverFacts
    <2> QED
      BY <2>2, <2>3 DEF ReadTypeOK, QueriesOf
  <1> QED
    BY <1>1, DiscoverFacts DEF FoundInv

LEMMA ShowKeeps ==
  ASSUME ReadTypeOK, FoundInv, Show
  PROVE  ReadTypeOK' /\ FoundInv'
  BY ShowFacts DEF FoundInv

\* A complete view has an answer to every query, a gate that is not there needs
\* one only.
LEMMA CompleteFacts ==
  ASSUME ReadTypeOK, Complete
  PROVE  NoGate \/ QueriesOf(watch) \subseteq DOMAIN got
  BY DEF Complete, QueriesOf

-----------------------------------------------------------------------------
(* Where the world moves. *)

\* The run: nothing but a resume or a repair reopens it.
RunStep(v, w) ==
  /\ w.reopened >= v.reopened
  /\ w.reopened = v.reopened => /\ v.row \in RunEnded => w.row \in RunEnded
                                /\ v.dbos \in DbosEnded => w.dbos \in DbosEnded
  /\ v.dbos \in {"ERROR", "SUCCESS"} => w.dbos = v.dbos
  /\ (v.dbos = "SUCCESS" => v.row = "succeeded") =>
       (w.dbos = "SUCCESS" => w.row = "succeeded")
  /\ v.row = "succeeded" => w.row = "succeeded"

\* Steps, artifacts and calls are added; a gate goes on; workflows are born.
StepsStep(v, w) == v.rows \subseteq w.rows /\ v.arts \subseteq w.arts /\ v.calls \subseteq w.calls
GateStep(v, w) == w.gate = v.gate \/ w.gate \in GateNext[v.gate]
BirthsInv(v) == v.sbx \/ "sub" \in v.born => "task" \in v.born
ReproStep(v, w) ==
  /\ v.born \subseteq w.born /\ (v.gates => w.gates) /\ (v.sbx => w.sbx)
  /\ BirthsInv(v) => BirthsInv(w)
Steps(v, w) == RunStep(v, w) /\ StepsStep(v, w) /\ GateStep(v, w) /\ ReproStep(v, w)

LEMMA StatesAre ==
  /\ RowStates = {"queued", "running", "waiting_input", "canceled", "repairing",
                  "succeeded", "failed"}
  /\ \A r \in RowStates : RowNext[r] \subseteq RowStates
  /\ RowNext["succeeded"] = {} /\ RowNext["failed"] = {}
  /\ RowNext["canceled"] = {"succeeded", "failed"}
  /\ DOMAIN GateNext = {"none", "opened", "PENDING", "RECEIVED", "TIMED_OUT", "RESOLVED",
                        "EXPIRED"}
  /\ GateNext["none"] = {"opened"} /\ GateNext["opened"] = {"PENDING"}
  /\ GateNext["PENDING"] = {"RECEIVED", "TIMED_OUT"}
  /\ GateNext["RECEIVED"] = {"RESOLVED"} /\ GateNext["TIMED_OUT"] = {"EXPIRED"}
  /\ GateNext["RESOLVED"] = {} /\ GateNext["EXPIRED"] = {}
  /\ DOMAIN Parent = {"task", "sub", "esc", "escsub", "other", "stray"}
  /\ Parent["task"] = "wf" /\ Parent["sub"] = "task" /\ Parent["esc"] = "-"
  /\ Parent["escsub"] = "esc" /\ Parent["other"] = "-" /\ Parent["stray"] = "other"
  <1>1. RowStates = {"queued", "running", "waiting_input", "canceled", "repairing",
                     "succeeded", "failed"}
    BY DEF RowStates, RowNext
  <1>2. /\ RowNext["queued"] = {"running"}
        /\ RowNext["running"] = {"waiting_input", "succeeded", "failed"}
        /\ RowNext["waiting_input"] = {"running", "failed"}
        /\ RowNext["canceled"] = {"succeeded", "failed"}
        /\ RowNext["repairing"] = {"waiting_input", "succeeded", "failed"}
        /\ RowNext["succeeded"] = {} /\ RowNext["failed"] = {}
    BY DEF RowNext
  <1>3. \A r \in RowStates : RowNext[r] \subseteq RowStates
    BY <1>1, <1>2
  <1> QED
    BY <1>1, <1>2, <1>3 DEF GateNext, Parent

\* A change of one field of a world.
LEMMA WorldChanges ==
  ASSUME NEW v \in Worlds
  PROVE  /\ \A r \in RowStates : [v EXCEPT !.row = r] \in Worlds
         /\ \A d \in DbosStates : [v EXCEPT !.dbos = d] \in Worlds
         /\ \A r \in RowStates, n \in Nat : [v EXCEPT !.row = r, !.reopened = n] \in Worlds
         /\ \A d \in DbosStates, n \in Nat : [v EXCEPT !.dbos = d, !.reopened = n] \in Worlds
         /\ \A k \in StepKeys : [v EXCEPT !.rows = @ \cup {k}] \in Worlds
         /\ \A k \in StepKeys \cup Blames : [v EXCEPT !.arts = @ \cup {k}] \in Worlds
         /\ \A c \in {"compile"} : [v EXCEPT !.calls = @ \cup {c}] \in Worlds
         /\ \A g \in DOMAIN GateNext : [v EXCEPT !.gate = g] \in Worlds
         /\ \A c \in DOMAIN Parent : [v EXCEPT !.born = @ \cup {c}] \in Worlds
         /\ [v EXCEPT !.sbx = TRUE] \in Worlds /\ [v EXCEPT !.gates = TRUE] \in Worlds
         /\ \A t \in Tiles, f \in TileFiles : [v EXCEPT !.tiles[t] = f] \in Worlds
         /\ \A o \in {"none", "blocked"} : [v EXCEPT !.outcome = o] \in Worlds
         /\ [v EXCEPT !.twice = TRUE] \in Worlds
  BY DEF Worlds

\* Every move of the world is one of these steps.
LEMMA MovesTo ==
  ASSUME ReadTypeOK, WorldMoves
  PROVE  \E w \in Worlds : Move(w) /\ Steps(world, w)
  <1>1. world \in Worlds
    BY WorldsTyped
  <1>2. /\ world.row \in RowStates /\ world.dbos \in DbosStates /\ world.reopened \in Nat
        /\ world.gate \in DOMAIN GateNext
    BY <1>1 DEF Worlds
  <1> DEFINE Same(w) == /\ w.row = world.row /\ w.dbos = world.dbos
                        /\ w.reopened = world.reopened
  <1>3. ASSUME NEW w \in Worlds, Same(w) PROVE RunStep(world, w)
    BY <1>2, <1>3 DEF RunStep
  <1>4. ASSUME NEW w \in Worlds, w.rows = world.rows, w.arts = world.arts,
               w.calls = world.calls
        PROVE  StepsStep(world, w)
    BY <1>4 DEF StepsStep
  <1>5. ASSUME NEW w \in Worlds, w.born = world.born, w.gates = world.gates,
               w.sbx = world.sbx
        PROVE  ReproStep(world, w)
    BY <1>5 DEF ReproStep, BirthsInv
  <1>6. ASSUME NEW w \in Worlds, Move(w), RunStep(world, w),
               w = [world EXCEPT !.row = w.row, !.dbos = w.dbos, !.reopened = w.reopened]
        PROVE  Move(w) /\ Steps(world, w)
    <2>1. /\ w.rows = world.rows /\ w.arts = world.arts /\ w.calls = world.calls
          /\ w.born = world.born /\ w.gates = world.gates /\ w.sbx = world.sbx
          /\ w.gate = world.gate
      BY <1>1, <1>6 DEF Worlds
    <2> QED
      BY <1>4, <1>5, <1>6, <2>1 DEF Steps, GateStep
  <1>7. CASE RunWrites
    <2>1. PICK r \in RowNext[world.row] : Move([world EXCEPT !.row = r])
      BY <1>7 DEF RunWrites
    <2> DEFINE w == [world EXCEPT !.row = r]
    <2>2. r \in RowStates /\ w \in Worlds
      BY <1>1, <1>2, <2>1, StatesAre, WorldChanges
    <2>3. w.row = r /\ w.dbos = world.dbos /\ w.reopened = world.reopened
      BY <1>1 DEF Worlds
    <2>4. w = [world EXCEPT !.row = w.row, !.dbos = w.dbos, !.reopened = w.reopened]
      BY <1>1, <2>3 DEF Worlds
    <2>5. world.dbos \in {"PENDING", "CANCELLED"} \/ world.row = "repairing"
      BY <1>7 DEF RunWrites
    <2> HIDE DEF w
    <2>6. world.row \in RunEnded => world.row = "canceled" /\ r \in RunEnded
      BY <2>1, <1>2, StatesAre DEF RunEnded
    <2>7. RunStep(world, w)
      BY <1>2, <2>1, <2>3, <2>5, <2>6, StatesAre DEF RunStep, RunEnded
    <2> QED
      BY <1>6, <2>1, <2>2, <2>4, <2>7 DEF w
  <1>8. CASE RunEnds
    <2> DEFINE d == IF world.row = "succeeded" THEN "SUCCESS" ELSE "ERROR"
               w == [world EXCEPT !.dbos = d]
    <2>1. /\ Move(w) /\ d \in DbosStates /\ w \in Worlds
          /\ world.dbos \in {"PENDING", "CANCELLED"}
      BY <1>1, <1>8, WorldChanges DEF RunEnds, DbosStates
    <2>2. w.row = world.row /\ w.dbos = d /\ w.reopened = world.reopened
      BY <1>1 DEF Worlds
    <2>3. w = [world EXCEPT !.row = w.row, !.dbos = w.dbos, !.reopened = w.reopened]
      BY <1>1, <2>2 DEF Worlds
    <2> HIDE DEF w
    <2>4. RunStep(world, w)
      BY <1>2, <2>1, <2>2 DEF RunStep, DbosEnded
    <2> QED
      BY <1>6, <2>1, <2>3, <2>4
  <1>9. CASE Dequeue
    <2> DEFINE w == [world EXCEPT !.dbos = "PENDING"]
    <2>1. Move(w) /\ w \in Worlds /\ world.dbos = "ENQUEUED"
      BY <1>1, <1>9, WorldChanges DEF Dequeue, DbosStates
    <2>2. w.row = world.row /\ w.dbos = "PENDING" /\ w.reopened = world.reopened
      BY <1>1 DEF Worlds
    <2>3. w = [world EXCEPT !.row = w.row, !.dbos = w.dbos, !.reopened = w.reopened]
      BY <1>1, <2>2 DEF Worlds
    <2> HIDE DEF w
    <2>4. RunStep(world, w)
      BY <1>2, <2>1, <2>2 DEF RunStep, DbosEnded
    <2> QED
      BY <1>6, <2>1, <2>3, <2>4
  <1>10. CASE CancelRun
    <2> DEFINE w == [world EXCEPT !.dbos = "CANCELLED"]
    <2>1. Move(w) /\ w \in Worlds /\ world.dbos \in {"ENQUEUED", "PENDING"}
      BY <1>1, <1>10, WorldChanges DEF CancelRun, DbosStates
    <2>2. w.row = world.row /\ w.dbos = "CANCELLED" /\ w.reopened = world.reopened
      BY <1>1 DEF Worlds
    <2>3. w = [world EXCEPT !.row = w.row, !.dbos = w.dbos, !.reopened = w.reopened]
      BY <1>1, <2>2 DEF Worlds
    <2> HIDE DEF w
    <2>4. RunStep(world, w)
      BY <1>2, <2>1, <2>2 DEF RunStep, DbosEnded
    <2> QED
      BY <1>6, <2>1, <2>3, <2>4
  <1>11. CASE CancelNoticed
    <2> DEFINE w == [world EXCEPT !.row = "canceled"]
    <2>1. /\ Move(w) /\ w \in Worlds /\ world.dbos = "CANCELLED"
          /\ world.row \notin RunEnded
      BY <1>1, <1>2, <1>11, WorldChanges, StatesAre DEF CancelNoticed
    <2>2. w.row = "canceled" /\ w.dbos = world.dbos /\ w.reopened = world.reopened
      BY <1>1 DEF Worlds
    <2>3. w = [world EXCEPT !.row = w.row, !.dbos = w.dbos, !.reopened = w.reopened]
      BY <1>1, <2>2 DEF Worlds
    <2> HIDE DEF w
    <2>4. RunStep(world, w)
      BY <1>2, <2>1, <2>2 DEF RunStep, RunEnded
    <2> QED
      BY <1>6, <2>1, <2>3, <2>4
  <1>12. CASE ResumeRun
    <2> DEFINE n == world.reopened + 1
               w == [world EXCEPT !.dbos = "ENQUEUED", !.reopened = n]
    <2>1. w = [world EXCEPT !.dbos = "ENQUEUED", !.reopened = @ + 1]
      BY <1>1 DEF Worlds
    <2>2. Move(w) /\ world.dbos = "CANCELLED"
      BY <1>12, <2>1 DEF ResumeRun
    <2>3. w \in Worlds
      <3>1. n \in Nat /\ "ENQUEUED" \in DbosStates
        BY <1>2 DEF DbosStates
      <3> HIDE DEF n
      <3> QED
        BY <1>1, <3>1, WorldChanges
    <2>4. w.row = world.row /\ w.dbos = "ENQUEUED" /\ w.reopened = n
      BY <1>1 DEF Worlds
    <2>5. w = [world EXCEPT !.row = w.row, !.dbos = w.dbos, !.reopened = w.reopened]
      BY <1>1, <2>4 DEF Worlds
    <2> HIDE DEF w
    <2>6. RunStep(world, w)
      BY <1>2, <2>2, <2>4 DEF RunStep
    <2> QED
      BY <1>6, <2>2, <2>3, <2>5, <2>6
  <1>13. CASE RepairBegins
    <2> DEFINE n == world.reopened + 1
               w == [world EXCEPT !.row = "repairing", !.reopened = n]
    <2>1. w = [world EXCEPT !.row = "repairing", !.reopened = @ + 1]
      BY <1>1 DEF Worlds
    <2>2. Move(w) /\ world.dbos = "ERROR" /\ world.row = "failed"
      BY <1>13, <2>1 DEF RepairBegins
    <2>3. w \in Worlds
      <3>1. n \in Nat /\ "repairing" \in RowStates
        BY <1>2, StatesAre
      <3> HIDE DEF n
      <3> QED
        BY <1>1, <3>1, WorldChanges
    <2>4. w.row = "repairing" /\ w.dbos = world.dbos /\ w.reopened = n
      BY <1>1 DEF Worlds
    <2>5. w = [world EXCEPT !.row = w.row, !.dbos = w.dbos, !.reopened = w.reopened]
      BY <1>1, <2>4 DEF Worlds
    <2> HIDE DEF w
    <2>6. RunStep(world, w)
      BY <1>2, <2>2, <2>4 DEF RunStep
    <2> QED
      BY <1>6, <2>2, <2>3, <2>5, <2>6
  <1>14. CASE SaveStep
    <2>1. PICK k \in StepKeys : Move([world EXCEPT !.rows = @ \cup {k}])
      BY <1>14 DEF SaveStep
    <2> DEFINE w == [world EXCEPT !.rows = @ \cup {k}]
    <2>2. w \in Worlds
      BY <1>1, WorldChanges
    <2>3. /\ Same(w) /\ w.rows = world.rows \cup {k} /\ w.arts = world.arts
          /\ w.calls = world.calls /\ w.born = world.born /\ w.gates = world.gates
          /\ w.sbx = world.sbx /\ w.gate = world.gate
      BY <1>1 DEF Worlds
    <2> QED
      BY <1>3, <1>5, <2>1, <2>2, <2>3 DEF Steps, StepsStep, GateStep
  <1>15. CASE SaveArtifact
    <2>1. PICK k \in StepKeys \cup Blames : Move([world EXCEPT !.arts = @ \cup {k}])
      BY <1>15 DEF SaveArtifact
    <2> DEFINE w == [world EXCEPT !.arts = @ \cup {k}]
    <2>2. w \in Worlds
      BY <1>1, WorldChanges
    <2>3. /\ Same(w) /\ w.arts = world.arts \cup {k} /\ w.rows = world.rows
          /\ w.calls = world.calls /\ w.born = world.born /\ w.gates = world.gates
          /\ w.sbx = world.sbx /\ w.gate = world.gate
      BY <1>1 DEF Worlds
    <2> QED
      BY <1>3, <1>5, <2>1, <2>2, <2>3 DEF Steps, StepsStep, GateStep
  <1>16. CASE LogCall
    <2>1. PICK c \in {"compile"} : Move([world EXCEPT !.calls = @ \cup {c}])
      BY <1>16 DEF LogCall
    <2> DEFINE w == [world EXCEPT !.calls = @ \cup {c}]
    <2>2. w \in Worlds
      BY <1>1, WorldChanges
    <2>3. /\ Same(w) /\ w.calls = world.calls \cup {c} /\ w.rows = world.rows
          /\ w.arts = world.arts /\ w.born = world.born /\ w.gates = world.gates
          /\ w.sbx = world.sbx /\ w.gate = world.gate
      BY <1>1 DEF Worlds
    <2> QED
      BY <1>3, <1>5, <2>1, <2>2, <2>3 DEF Steps, StepsStep, GateStep
  <1>17. CASE GateMoves
    <2>1. PICK g \in GateNext[world.gate] : Move([world EXCEPT !.gate = g])
      BY <1>17 DEF GateMoves
    <2> DEFINE w == [world EXCEPT !.gate = g]
    <2>2. g \in DOMAIN GateNext
      BY <1>2, <2>1, StatesAre
    <2>3. w \in Worlds
      BY <1>1, <2>2, WorldChanges
    <2>4. /\ Same(w) /\ w.rows = world.rows /\ w.arts = world.arts /\ w.calls = world.calls
          /\ w.born = world.born /\ w.gates = world.gates /\ w.sbx = world.sbx /\ w.gate = g
      BY <1>1 DEF Worlds
    <2> QED
      BY <1>3, <1>4, <1>5, <2>1, <2>3, <2>4 DEF Steps, GateStep
  <1>18. CASE WorkflowBorn
    <2>1. PICK c \in DOMAIN Parent : /\ Parent[c] \in world.born \cup {"wf", "-"}
                                     /\ Move([world EXCEPT !.born = @ \cup {c}])
      BY <1>18 DEF WorkflowBorn
    <2> DEFINE w == [world EXCEPT !.born = @ \cup {c}]
    <2>2. w \in Worlds
      BY <1>1, WorldChanges
    <2>3. /\ Same(w) /\ w.rows = world.rows /\ w.arts = world.arts /\ w.calls = world.calls
          /\ w.born = world.born \cup {c} /\ w.gates = world.gates /\ w.sbx = world.sbx
          /\ w.gate = world.gate
      BY <1>1 DEF Worlds
    <2>4. c = "sub" => "task" \in world.born
      BY <2>1, StatesAre
    <2>5. ReproStep(world, w)
      BY <2>3, <2>4 DEF ReproStep, BirthsInv
    <2> QED
      BY <1>3, <1>4, <2>1, <2>2, <2>3, <2>5 DEF Steps, GateStep
  <1>19. CASE SaveSbxRun
    <2> DEFINE w == [world EXCEPT !.sbx = TRUE]
    <2>1. Move(w) /\ w \in Worlds /\ "task" \in world.born
      BY <1>1, <1>19, WorldChanges DEF SaveSbxRun
    <2>2. /\ Same(w) /\ w.rows = world.rows /\ w.arts = world.arts /\ w.calls = world.calls
          /\ w.born = world.born /\ w.gates = world.gates /\ w.sbx = TRUE
          /\ w.gate = world.gate
      BY <1>1 DEF Worlds
    <2> QED
      BY <1>3, <1>4, <2>1, <2>2 DEF Steps, GateStep, ReproStep, BirthsInv
  <1>20. CASE OpenGateRow
    <2> DEFINE w == [world EXCEPT !.gates = TRUE]
    <2>1. Move(w) /\ w \in Worlds
      BY <1>1, <1>20, WorldChanges DEF OpenGateRow
    <2>2. /\ Same(w) /\ w.rows = world.rows /\ w.arts = world.arts /\ w.calls = world.calls
          /\ w.born = world.born /\ w.gates = TRUE /\ w.sbx = world.sbx
          /\ w.gate = world.gate
      BY <1>1 DEF Worlds
    <2> QED
      BY <1>3, <1>4, <2>1, <2>2 DEF Steps, GateStep, ReproStep, BirthsInv
  <1>21. ASSUME NEW w \in Worlds, Move(w), Same(w), w.rows = world.rows,
                w.arts = world.arts, w.calls = world.calls, w.born = world.born,
                w.gates = world.gates, w.sbx = world.sbx, w.gate = world.gate
         PROVE  Move(w) /\ Steps(world, w)
    BY <1>3, <1>4, <1>5, <1>21 DEF Steps, GateStep
  <1>22. CASE WriteTile
    <2>1. PICK t \in Tiles, f \in TileFiles : Move([world EXCEPT !.tiles[t] = f])
      BY <1>22 DEF WriteTile
    <2> DEFINE w == [world EXCEPT !.tiles[t] = f]
    <2>2. w \in Worlds
      BY <1>1, WorldChanges
    <2>3. /\ Same(w) /\ w.rows = world.rows /\ w.arts = world.arts /\ w.calls = world.calls
          /\ w.born = world.born /\ w.gates = world.gates /\ w.sbx = world.sbx
          /\ w.gate = world.gate
      BY <1>1 DEF Worlds
    <2> QED
      BY <1>21, <2>1, <2>2, <2>3
  <1>23. CASE BudgetBroken
    <2>1. PICK o \in {"none", "blocked"} : Move([world EXCEPT !.outcome = o])
      BY <1>23 DEF BudgetBroken
    <2> DEFINE w == [world EXCEPT !.outcome = o]
    <2>2. w \in Worlds
      BY <1>1, WorldChanges
    <2>3. /\ Same(w) /\ w.rows = world.rows /\ w.arts = world.arts /\ w.calls = world.calls
          /\ w.born = world.born /\ w.gates = world.gates /\ w.sbx = world.sbx
          /\ w.gate = world.gate
      BY <1>1 DEF Worlds
    <2> QED
      BY <1>21, <2>1, <2>2, <2>3
  <1>24. CASE ReceiptTwice
    <2> DEFINE w == [world EXCEPT !.twice = TRUE]
    <2>1. Move(w) /\ w \in Worlds
      BY <1>1, <1>24, WorldChanges DEF ReceiptTwice
    <2>2. /\ Same(w) /\ w.rows = world.rows /\ w.arts = world.arts /\ w.calls = world.calls
          /\ w.born = world.born /\ w.gates = world.gates /\ w.sbx = world.sbx
          /\ w.gate = world.gate
      BY <1>1 DEF Worlds
    <2> QED
      BY <1>21, <2>1, <2>2
  <1> QED
    BY <1>7, <1>8, <1>9, <1>10, <1>11, <1>12, <1>13, <1>14, <1>15, <1>16, <1>17, <1>18,
       <1>19, <1>20, <1>22, <1>23, <1>24 DEF WorldMoves, RunMoves

-----------------------------------------------------------------------------
(* What every step does: the world moves, a query is answered, or the view is *)
(* shown.                                                                     *)

LEMMA StepIs ==
  ASSUME ReadsStep
  PROVE  \/ WorldMoves \/ (\E q : Answer(q) \/ AnswerFails(q))
         \/ discoverDbosWorkflowScope \/ Show
  BY DEF ReadsStep, Reads

LEMMA StepKeeps ==
  ASSUME ReadTypeOK, FoundInv, watch \in Views, ReadsStep
  PROVE  /\ ReadTypeOK' /\ FoundInv' /\ watch' = watch
         /\ Show \/ shown' = shown
  <1>1. CASE WorldMoves
    BY <1>1, MovesTo, MoveFacts, MoveFound
  <1>2. CASE \E q : Answer(q) \/ AnswerFails(q)
    BY <1>2, AnswerFacts, AnswerKeeps
  <1>3. CASE discoverDbosWorkflowScope
    BY <1>3, DiscoverFacts, DiscoverKeeps
  <1>4. CASE Show
    BY <1>4, ShowFacts, ShowKeeps
  <1> QED
    BY <1>1, <1>2, <1>3, <1>4, StepIs

\* What is to be said of each thing shown need be said of the last one only.
LEMMA LastShown ==
  ASSUME ReadTypeOK, FoundInv, watch \in Views, ReadsStep, NEW i \in DOMAIN shown'
  PROVE  \/ i \in DOMAIN shown /\ shown'[i] = shown[i]
         \/ Show /\ i = Len(shown) + 1 /\ shown'[i] = NewShown
  BY StepKeeps, ShowFacts

\* A part of a complete view was found in some world.
LEMMA WasFound ==
  ASSUME FoundInv, NEW q \in DOMAIN got, q \notin {"ids", "frontier", "dbos", "calls"}
  PROVE  \E i \in DOMAIN saw : got[q] = Found(saw[i], q)
  BY DEF FoundInv

LEMMA FoundIs ==
  ASSUME NEW w
  PROVE  /\ Found(w, "row") = w.row /\ Found(w, "dbos") = w.dbos
         /\ Found(w, "rows") = w.rows /\ Found(w, "arts") = w.arts
         /\ Found(w, "calls") = w.calls
         /\ Found(w, "sbx") = w.sbx /\ Found(w, "gates") = w.gates
         /\ Found(w, "posture") = w.posture /\ Found(w, "twice") = w.twice
         /\ Found(w, "violation") = (w.outcome = "VIOLATION")
         /\ Found(w, "failures") = (w.row \in {"failed", "retries_exceeded"})
         /\ Found(w, "succeeded") = (w.row = "succeeded")
         /\ Found(w, "pf") = w.tiles["pf"] /\ Found(w, "proof") = w.tiles["proof"]
         /\ Found(w, "openGate") = (w.gate # "none")
         /\ \A q \in {"prompt", "result", "decision"} : Found(w, q) = eventOf(w, q)
  BY DEF Found, Tiles

-----------------------------------------------------------------------------
(* The cards of proof. *)

LEMMA ProofsKept ==
  ASSUME ReadTypeOK, FoundInv, watch = "proofs", ProofsShown, ReadsStep
  PROVE  ProofsShown'
  <1>0. watch \in Views
    BY DEF Views
  <1> SUFFICES ASSUME NEW i \in DOMAIN shown', NEW claim \in shown'[i].view
               PROVE  \E j \in DOMAIN shown'[i].span :
                        LET w == shown'[i].span[j] IN
                        CASE claim[1] = "app" -> w.row = claim[2]
                          [] claim[1] = "dbos" -> w.dbos = claim[2]
                          [] claim[1] = "step" -> claim[2] \in w.rows
                          [] claim[1] = "artifact" -> claim[2] \in w.arts
    BY DEF ProofsShown, Held
  <1>1. CASE i \in DOMAIN shown /\ shown'[i] = shown[i]
    BY <1>1 DEF ProofsShown, Held
  <1>2. CASE Show /\ shown'[i] = NewShown
    <2>1. shown'[i].span = saw /\ shown'[i].view = projectProofCards(got)
      BY <1>2 DEF NewShown, View
    <2>2. {"row", "rows", "arts", "dbos"} \subseteq DOMAIN got
      BY <1>2, ShowFacts, CompleteFacts, QueriesAre DEF NoGate
    <2>3. CASE claim = <<"app", got.row>>
      <3>1. \E j \in DOMAIN saw : got["row"] = saw[j].row
        BY <2>2, WasFound, FoundIs
      <3> QED
        BY <2>1, <2>3, <3>1
    <2>4. CASE claim = <<"dbos", got.dbos>> /\ got.dbos # "unknown"
      <3>1. \E j \in DOMAIN saw : got["dbos"] = saw[j].dbos
        BY <2>2, <2>4, FoundIs DEF FoundInv
      <3> QED
        BY <2>1, <2>4, <3>1
    <2>5. ASSUME NEW k \in got.rows, claim = <<"step", k>>
          PROVE  \E j \in DOMAIN saw : k \in saw[j].rows
      BY <2>2, <2>5, WasFound, FoundIs
    <2>6. ASSUME NEW k \in got.arts, claim = <<"artifact", k>>
          PROVE  \E j \in DOMAIN saw : k \in saw[j].arts
      BY <2>2, <2>6, WasFound, FoundIs
    <2>7. CASE \E k \in got.rows : claim = <<"step", k>>
      BY <2>1, <2>5, <2>7
    <2>8. CASE \E k \in got.arts : claim = <<"artifact", k>>
      BY <2>1, <2>6, <2>8
    <2> QED
      BY <2>1, <2>3, <2>4, <2>7, <2>8 DEF projectProofCards
  <1> QED
    BY <1>0, <1>1, <1>2, LastShown

-----------------------------------------------------------------------------
(* The rows of the steps. *)

LEMMA StepsGrow ==
  ASSUME ReadTypeOK, FoundInv, watch = "steps", StepsInv, ReadsStep
  PROVE  StepsInv'
  <1>0. watch \in Views /\ watch # "repro"
    BY DEF Views
  <1>1. CASE WorldMoves
    <2>1. PICK w \in Worlds : Move(w) /\ StepsStep(world, w)
      BY <1>1, MovesTo DEF Steps
    <2>2. world' = w /\ got' = got
      BY <2>1, MoveFacts
    <2>3. CASE Reading
      <3>1. saw'[1] = saw[1]
        BY <2>1, <2>3, MoveFacts
      <3> QED
        BY <2>1, <2>2, <3>1 DEF StepsInv, StepsStep
    <2>4. CASE ~Reading
      <3>1. saw'[1] = w /\ DOMAIN got = {}
        BY <2>1, <2>4, MoveFacts
      <3> QED
        BY <2>2, <3>1 DEF StepsInv
    <2> QED
      BY <2>3, <2>4
  <1>2. ASSUME NEW q, Answer(q) \/ AnswerFails(q) PROVE StepsInv'
    <2>1. /\ saw' = saw /\ world' = world /\ q \in {"calls", "rows", "arts"}
          /\ DOMAIN got' = {q} \cup DOMAIN got /\ q \notin DOMAIN got
          /\ \A p \in DOMAIN got : got'[p] = got[p]
          /\ got'[q] = Found(world, q) \/ (q = "calls" /\ got'[q] = {})
      BY <1>0, <1>2, AnswerFacts, QueriesAre
    <2>2. q = "rows" => got'["rows"] = world.rows
      BY <2>1, FoundIs
    <2>3. q = "arts" => got'["arts"] = world.arts
      BY <2>1, FoundIs
    <2>4. q = "calls" => got'["calls"] \subseteq world.calls
      BY <2>1, FoundIs
    <2> QED
      BY <2>1, <2>2, <2>3, <2>4 DEF StepsInv
  <1>3. CASE discoverDbosWorkflowScope
    BY <1>0, <1>3, DiscoverFacts
  <1>4. CASE Show
    <2>1. saw'[1] = world /\ world' = world /\ DOMAIN got' = {}
      BY <1>4, ShowFacts
    <2> QED
      BY <2>1 DEF StepsInv
  <1> QED
    BY <1>1, <1>2, <1>3, <1>4, StepIs

LEMMA StepsKept ==
  ASSUME ReadTypeOK, FoundInv, watch = "steps", StepsInv, StepsShown, ReadsStep
  PROVE  StepsShown'
  <1>0. watch \in Views
    BY DEF Views
  <1> DEFINE Truly(s) ==
        LET Of(k) == {l \in s.view : <<l.id, l.attempt>> = k} IN
        /\ \A k \in First(s).rows \cup (First(s).arts \cap Blames) :
             Cardinality(Of(k)) = 1 /\ \A l \in Of(k) : {k} \cap First(s).arts \subseteq l.arts
        /\ \A l \in s.view : /\ <<l.id, l.attempt>> \in Last(s).rows \cup Last(s).arts
                                  \/ l.id \in Last(s).calls
                             /\ l.arts \subseteq Last(s).arts
  <1>1. StepsShown <=> \A i \in DOMAIN shown : Truly(shown[i])
    BY DEF StepsShown
  <1>2. StepsShown' <=> \A i \in DOMAIN shown' : Truly(shown'[i])
    BY DEF StepsShown
  <1>3. ASSUME Show PROVE Truly(NewShown)
    <2> DEFINE f == got
               old == saw[1]
    <2>1. {"calls", "rows", "arts"} \subseteq DOMAIN got
      BY <1>0, <1>3, ShowFacts, CompleteFacts, QueriesAre DEF NoGate
    <2>2. /\ old.rows \subseteq f.rows /\ f.rows \subseteq world.rows
          /\ old.arts \subseteq f.arts /\ f.arts \subseteq world.arts
          /\ f.calls \subseteq world.calls
      BY <2>1 DEF StepsInv
    <2>3. world \in Worlds /\ saw[1] \in Worlds
      BY WorldsTyped
    <2>4. /\ world.rows \subseteq StepKeys /\ world.arts \subseteq StepKeys \cup Blames
          /\ world.calls \subseteq {"compile"}
      BY <2>3 DEF Worlds
    <2>5. \A k \in StepKeys \cup Blames :
            k = <<k[1], k[2]>> /\ k[1] \in {"CompileST", "BUDGET"}
      BY DEF StepKeys, Blames
    <2> DEFINE A == {Line(k[1], k[2], {k} \cap f.arts) : k \in f.rows}
               B == {Line(k[1], k[2], {k}) : k \in (f.arts \cap Blames) \ f.rows}
               C == {Line(c, 1, {}) : c \in f.calls \ {l.id : l \in A \cup B}}
    <2>6. /\ NewShown.view = A \cup B \cup C /\ First(NewShown) = old
          /\ Last(NewShown) = world
      BY DEF NewShown, View, getStepRows, projectStepRows, First, Last, world
    <2>7. \A l \in A : /\ l.arts \subseteq {<<l.id, l.attempt>>} \cap f.arts
                       /\ {<<l.id, l.attempt>>} \cap f.arts \subseteq l.arts
                       /\ <<l.id, l.attempt>> \in f.rows
      BY <2>2, <2>4, <2>5 DEF Line
    <2>8. \A l \in B : /\ l.arts = {<<l.id, l.attempt>>}
                       /\ <<l.id, l.attempt>> \in (f.arts \cap Blames) \ f.rows
      BY <2>2, <2>4, <2>5 DEF Line
    <2>9. \A l \in C : l.arts = {} /\ l.id \in f.calls /\ l.id = "compile"
      BY <2>2, <2>4 DEF Line
    <2> DEFINE Of(k) == {l \in A \cup B \cup C : <<l.id, l.attempt>> = k}
    <2>10. ASSUME NEW k \in old.rows \cup (old.arts \cap Blames)
           PROVE  Cardinality(Of(k)) = 1 /\ \A l \in Of(k) : {k} \cap old.arts \subseteq l.arts
      <3>1. k \in f.rows \cup (f.arts \cap Blames) /\ k \in StepKeys \cup Blames
        BY <2>2, <2>4
      <3>2. ASSUME NEW l \in Of(k) PROVE l \notin C
        <4>1. l \in C => l.id = "compile"
          BY <2>9
        <4>2. k = <<l.id, l.attempt>>
          OBVIOUS
        <4>3. k[1] = l.id /\ k[1] # "compile"
          BY <2>5, <3>1, <4>2
        <4> QED
          BY <4>1, <4>3
      <3>3. CASE k \in f.rows
        <4> DEFINE entry == Line(k[1], k[2], {k} \cap f.arts)
        <4>1. entry \in A /\ <<entry.id, entry.attempt>> = k /\ {k} \cap f.arts = entry.arts
          BY <2>5, <3>1, <3>3 DEF Line
        <4>2. ASSUME NEW l \in Of(k) PROVE l = entry
          <5>1. l \in A
            BY <2>8, <3>2, <3>3
          <5>2. PICK m \in f.rows : l = Line(m[1], m[2], {m} \cap f.arts)
            BY <5>1
          <5>3. m = k
            BY <2>2, <2>4, <2>5, <5>2 DEF Line
          <5> QED
            BY <5>2, <5>3
        <4> HIDE DEF entry, A, B, C
        <4>3. Of(k) = {entry}
          BY <4>1, <4>2
        <4> QED
          BY <2>2, <4>1, <4>3, FS_Singleton
      <3>4. CASE k \in (f.arts \cap Blames) \ f.rows
        <4> DEFINE entry == Line(k[1], k[2], {k})
        <4>1. entry \in B /\ <<entry.id, entry.attempt>> = k /\ {k} = entry.arts
          BY <2>5, <3>1, <3>4 DEF Line
        <4>2. ASSUME NEW l \in Of(k) PROVE l = entry
          <5>1. l \in B
            BY <2>7, <3>2, <3>4
          <5>2. PICK m \in (f.arts \cap Blames) \ f.rows : l = Line(m[1], m[2], {m})
            BY <5>1
          <5>3. m = k
            BY <2>2, <2>4, <2>5, <5>2 DEF Line
          <5> QED
            BY <5>2, <5>3
        <4> HIDE DEF entry, A, B, C
        <4>3. Of(k) = {entry}
          BY <4>1, <4>2
        <4> QED
          BY <2>2, <4>1, <4>3, FS_Singleton
      <3> QED
        BY <3>1, <3>3, <3>4
    <2>11. \A l \in A \cup B \cup C :
             /\ <<l.id, l.attempt>> \in world.rows \cup world.arts \/ l.id \in world.calls
             /\ l.arts \subseteq world.arts
      <3> SUFFICES ASSUME NEW l \in A \cup B \cup C
                   PROVE  /\ \/ <<l.id, l.attempt>> \in world.rows \cup world.arts
                             \/ l.id \in world.calls
                          /\ l.arts \subseteq world.arts
        OBVIOUS
      <3>1. CASE l \in A
        BY <2>2, <2>7, <3>1
      <3>2. CASE l \in B
        BY <2>2, <2>8, <3>2
      <3>3. CASE l \in C
        BY <2>2, <2>9, <3>3
      <3> HIDE DEF A, B, C
      <3> QED
        BY <3>1, <3>2, <3>3
    <2> HIDE DEF A, B, C
    <2> QED
      BY <2>6, <2>10, <2>11
  <1> HIDE DEF Truly
  <1>4. \A i \in DOMAIN shown' : Truly(shown'[i])
    BY <1>0, <1>1, <1>3, LastShown
  <1> QED
    BY <1>2, <1>4

-----------------------------------------------------------------------------
(* The gate. *)

LEMMA GateGoesOn ==
  ASSUME ReadTypeOK, FoundInv, watch = "gate", GateInv, ReadsStep
  PROVE  GateInv'
  <1>0. watch \in Views /\ watch # "repro"
    BY DEF Views
  <1>a. world.gate \in GatesSeen
    BY WorldsTyped DEF GatesSeen, world
  <1>b. world.gate \in DOMAIN GateNext
    BY WorldsTyped DEF Worlds
  <1>1. CASE WorldMoves
    <2>1. PICK w \in Worlds : Move(w) /\ GateStep(world, w)
      BY <1>1, MovesTo DEF Steps
    <2>2. world' = w
      BY <2>1, MoveFacts
    <2>3. CASE Reading
      <3>1. GatesSeen' = GatesSeen \cup {w.gate}
        <4>1. /\ \A i \in DOMAIN saw' : saw'[i] = w \/ (i \in DOMAIN saw /\ saw'[i] = saw[i])
              /\ \A i \in DOMAIN saw : i \in DOMAIN saw' /\ saw'[i] = saw[i]
              /\ Len(saw') \in DOMAIN saw' /\ saw'[Len(saw')] = w
          BY <2>1, <2>3, MoveFacts
        <4> QED
          BY <4>1 DEF GatesSeen
      <3>2. world.gate = "none" => w.gate \in {"none", "opened"}
        BY <2>1, StatesAre DEF GateStep
      <3>3. world.gate = "opened" => w.gate \in {"opened", "PENDING"}
        BY <2>1, StatesAre DEF GateStep
      <3>4. world.gate = "PENDING" => w.gate \in {"PENDING", "RECEIVED", "TIMED_OUT"}
        BY <2>1, StatesAre DEF GateStep
      <3>5. /\ world.gate = "RECEIVED" => w.gate \in {"RECEIVED", "RESOLVED"}
            /\ world.gate = "RESOLVED" => w.gate = "RESOLVED"
        BY <2>1, StatesAre DEF GateStep
      <3>6. /\ world.gate = "TIMED_OUT" => w.gate \in {"TIMED_OUT", "EXPIRED"}
            /\ world.gate = "EXPIRED" => w.gate = "EXPIRED"
        BY <2>1, StatesAre DEF GateStep
      <3>7. world.gate \in {"none", "opened", "PENDING", "RECEIVED", "TIMED_OUT",
                            "RESOLVED", "EXPIRED"}
        BY <1>b, StatesAre
      <3> QED
        BY <1>a, <2>2, <3>1, <3>2, <3>3, <3>4, <3>5, <3>6, <3>7 DEF GateInv
    <2>4. CASE ~Reading
      <3>1. DOMAIN saw' = {1} /\ saw'[1] = w
        BY <2>1, <2>4, MoveFacts
      <3>2. GatesSeen' = {w.gate}
        BY <3>1 DEF GatesSeen
      <3> QED
        BY <2>2, <3>2 DEF GateInv
    <2> QED
      BY <2>3, <2>4
  <1>2. ASSUME NEW q, Answer(q) \/ AnswerFails(q) PROVE GateInv'
    <2>1. saw' = saw /\ world' = world
      BY <1>0, <1>2, AnswerFacts
    <2> QED
      BY <2>1 DEF GateInv, GatesSeen
  <1>3. CASE discoverDbosWorkflowScope
    BY <1>0, <1>3, DiscoverFacts
  <1>4. CASE Show
    <2>1. DOMAIN saw' = {1} /\ saw'[1] = world /\ world' = world
      BY <1>4, ShowFacts
    <2>2. GatesSeen' = {world.gate}
      BY <2>1 DEF GatesSeen
    <2> QED
      BY <2>1, <2>2 DEF GateInv
  <1> QED
    BY <1>1, <1>2, <1>3, <1>4, StepIs

\* The state a gate is shown in.
StateOf(g) == IF g \in {"none", "opened"} THEN "null"
              ELSE IF g = "EXPIRED" THEN "TIMED_OUT" ELSE g
LEMMA GateKept ==
  ASSUME ReadTypeOK, FoundInv, watch = "gate", GateInv, GateShown, ReadsStep
  PROVE  GateShown'
  <1>0. watch \in Views
    BY DEF Views
  <1> DEFINE Truly(s) == \E j \in DOMAIN s.span : s.view = StateOf(s.span[j].gate)
  <1>1. GateShown <=> \A i \in DOMAIN shown : Truly(shown[i])
    BY DEF GateShown, Held, StateOf
  <1>2. GateShown' <=> \A i \in DOMAIN shown' : Truly(shown'[i])
    BY DEF GateShown, Held, StateOf
  <1>3. ASSUME Show PROVE Truly(NewShown)
    <2>1. NewShown.view = projectGateView(got) /\ NewShown.span = saw
      BY DEF NewShown, View
    <2>2. SUFFICES \E g \in GatesSeen : projectGateView(got) = StateOf(g)
      BY <2>1 DEF GatesSeen
    <2>3. GatesSeen \subseteq {"none", "opened", "PENDING", "RECEIVED", "TIMED_OUT",
                               "RESOLVED", "EXPIRED"}
      BY WorldsTyped, StatesAre DEF GatesSeen, Worlds
    <2>4. CASE NoGate
      <3>1. \E j \in DOMAIN saw : got["openGate"] = (saw[j].gate # "none")
        BY <2>4, WasFound, FoundIs DEF NoGate
      <3>2. "none" \in GatesSeen
        BY <2>4, <3>1 DEF GatesSeen, NoGate
      <3>3. projectGateView(got) = "null"
        BY <2>4 DEF projectGateView
      <3> QED
        BY <3>2, <3>3 DEF StateOf
    <2>5. CASE ~NoGate
      <3>1. {"prompt", "result", "decision"} \subseteq DOMAIN got
        BY <1>3, <2>5, ShowFacts, CompleteFacts, QueriesAre
      <3>2. PICK a \in DOMAIN saw : got["prompt"] = eventOf(saw[a], "prompt")
        BY <3>1, WasFound, FoundIs
      <3>3. PICK b \in DOMAIN saw : got["result"] = eventOf(saw[b], "result")
        BY <3>1, WasFound, FoundIs
      <3>4. PICK c \in DOMAIN saw : got["decision"] = eventOf(saw[c], "decision")
        BY <3>1, WasFound, FoundIs
      <3> DEFINE p == saw[a].gate
                 r == saw[b].gate
                 d == saw[c].gate
      <3>5. p \in GatesSeen /\ r \in GatesSeen /\ d \in GatesSeen
        BY DEF GatesSeen
      <3>6. /\ got.prompt = (p \notin {"none", "opened"})
            /\ got.decision = (d \in {"RESOLVED", "EXPIRED"})
            /\ got.result = IF r \in {"RECEIVED", "RESOLVED"} THEN "RECEIVED"
                            ELSE IF r \in {"TIMED_OUT", "EXPIRED"} THEN "TIMED_OUT" ELSE "none"
        BY <3>2, <3>3, <3>4 DEF eventOf
      <3> HIDE DEF p, r, d
      <3>7. CASE ~got.prompt
        BY <2>5, <3>5, <3>6, <3>7 DEF projectGateView, StateOf
      <3>8. CASE got.prompt /\ r \in {"TIMED_OUT", "EXPIRED"}
        BY <2>5, <3>5, <3>6, <3>8 DEF projectGateView, StateOf
      <3>9. CASE got.prompt /\ r \in {"RECEIVED", "RESOLVED"} /\ got.decision
        <4>1. projectGateView(got) = "RESOLVED"
          BY <2>5, <3>6, <3>9 DEF projectGateView
        <4>2. d = "RESOLVED"
          BY <3>5, <3>6, <3>9 DEF GateInv
        <4> QED
          BY <3>5, <4>1, <4>2 DEF StateOf
      <3>10. CASE got.prompt /\ r \in {"RECEIVED", "RESOLVED"} /\ ~got.decision
        <4>1. projectGateView(got) = "RECEIVED"
          BY <2>5, <3>6, <3>10 DEF projectGateView
        <4>2. "RECEIVED" \in GatesSeen
          BY <2>3, <3>5, <3>6, <3>10 DEF GateInv
        <4> QED
          BY <4>1, <4>2 DEF StateOf
      <3>11. CASE got.prompt /\ r \in {"none", "opened", "PENDING"}
        <4>1. projectGateView(got) = "PENDING"
          BY <2>5, <3>6, <3>11 DEF projectGateView
        <4>2. "PENDING" \in GatesSeen
          BY <2>3, <3>5, <3>6, <3>11 DEF GateInv
        <4> QED
          BY <4>1, <4>2 DEF StateOf
      <3> QED
        BY <2>3, <3>5, <3>7, <3>8, <3>9, <3>10, <3>11
    <2> QED
      BY <2>4, <2>5
  <1> HIDE DEF Truly
  <1>4. \A i \in DOMAIN shown' : Truly(shown'[i])
    BY <1>0, <1>1, <1>3, LastShown
  <1> QED
    BY <1>2, <1>4

-----------------------------------------------------------------------------
(* The workflows of a run. *)

\* The family of a run is its workflow, tasks and escalations, and theirs.
LEMMA FamilyIs ==
  ASSUME NEW v \in Worlds, NEW c
  PROVE  c \in Family(v) <=>
           \/ c = "wf" \/ (c = "esc" /\ v.gates) \/ (c = "task" /\ "task" \in v.born)
           \/ (c = "sub" /\ {"task", "sub"} \subseteq v.born)
           \/ (c = "escsub" /\ "escsub" \in v.born /\ v.gates)
  <1>1. v.born \subseteq {"task", "sub", "esc", "escsub", "other", "stray"}
    BY StatesAre DEF Worlds
  <1>2. \A k : k \in Kids({"wf"}, v.born) <=> k = "task" /\ "task" \in v.born
    BY <1>1, StatesAre DEF Kids
  <1>3. \A k : k \in FirstLine(v) <=>
                 \/ k = "wf" \/ (k = "esc" /\ v.gates) \/ (k = "task" /\ "task" \in v.born)
    BY <1>2 DEF FirstLine, Escalated
  <1>4. \A k : k \in Kids(FirstLine(v), v.born) <=>
                 \/ k = "task" /\ "task" \in v.born
                 \/ k = "sub" /\ {"task", "sub"} \subseteq v.born
                 \/ k = "escsub" /\ "escsub" \in v.born /\ v.gates
    BY <1>1, <1>3, StatesAre DEF Kids
  <1> QED
    BY <1>3, <1>4 DEF Family

\* It grows, and has the children of all in it.
LEMMA FamilyGrows ==
  ASSUME NEW v \in Worlds, NEW w \in Worlds, ReproStep(v, w)
  PROVE  Family(v) \subseteq Family(w)
  BY FamilyIs DEF ReproStep

LEMMA FamilyHasKids ==
  ASSUME NEW v \in Worlds, BirthsInv(v), NEW ids, ids \subseteq Family(v)
  PROVE  Kids(ids, v.born) \subseteq Family(v)
  <1> SUFFICES ASSUME NEW c \in v.born, Parent[c] \in ids PROVE c \in Family(v)
    BY DEF Kids
  <1>1. c \in {"task", "sub", "esc", "escsub", "other", "stray"}
    BY StatesAre DEF Worlds
  <1>2. Parent[c] \in Family(v)
    OBVIOUS
  <1> QED
    BY <1>1, <1>2, FamilyIs, StatesAre DEF BirthsInv

LEMMA ReproGoesOn ==
  ASSUME ReadTypeOK, FoundInv, watch = "repro", ReproInv, ReadsStep
  PROVE  ReproInv'
  <1>0. watch \in Views /\ world \in Worlds /\ saw[1] \in Worlds
    BY WorldsTyped DEF Views
  <1>1. CASE WorldMoves
    <2>1. PICK w \in Worlds : Move(w) /\ ReproStep(world, w)
      BY <1>1, MovesTo DEF Steps
    <2>2. world' = w /\ got' = got
      BY <2>1, MoveFacts
    <2>3. /\ world.born \subseteq w.born /\ (world.gates => w.gates)
          /\ (world.sbx => w.sbx)
          /\ w.sbx \/ "sub" \in w.born => "task" \in w.born
      BY <2>1 DEF ReproStep, BirthsInv, ReproInv
    <2>4. CASE Reading
      <3>1. saw'[1] = saw[1]
        BY <2>1, <2>4, MoveFacts
      <3>2. Family(world) \subseteq Family(w)
        BY <1>0, <2>1, FamilyGrows
      <3>3. RowIds' = RowIds
        BY <2>2 DEF RowIds
      <3> QED
        BY <2>2, <2>3, <3>1, <3>2, <3>3 DEF ReproInv
    <2>5. CASE ~Reading
      <3>1. saw'[1] = w /\ DOMAIN got = {}
        BY <2>1, <2>5, MoveFacts
      <3> QED
        BY <2>2, <2>3, <3>1 DEF ReproInv
    <2> QED
      BY <2>4, <2>5
  <1>2. ASSUME NEW q, Answer(q) \/ AnswerFails(q) PROVE ReproInv'
    <2>1. /\ saw' = saw /\ world' = world /\ q \in {"sbx", "gates"}
          /\ DOMAIN got' = {q} \cup DOMAIN got /\ q \notin DOMAIN got
          /\ \A p \in DOMAIN got : got'[p] = got[p]
          /\ got'[q] = Found(world, q)
      BY <1>0, <1>2, AnswerFacts, QueriesAre
    <2>2. "ids" \notin DOMAIN got' /\ "frontier" \notin DOMAIN got'
      BY <2>1 DEF ReproInv
    <2>3. /\ q = "sbx" => got'["sbx"] = world.sbx
          /\ q = "gates" => got'["gates"] = world.gates
      BY <2>1, FoundIs
    <2> QED
      BY <2>1, <2>2, <2>3 DEF ReproInv
  <1>3. CASE discoverDbosWorkflowScope
    <2> DEFINE kids == Kids(Frontier, world.born) \ Known
    <2>1. /\ saw' = saw /\ world' = world /\ Complete
          /\ DOMAIN got' = {"ids", "frontier"} \cup DOMAIN got
          /\ \A p \in DOMAIN got \ {"ids", "frontier"} : got'[p] = got[p]
          /\ got'["ids"] = Known \cup kids /\ got'["frontier"] = kids
      BY <1>3, DiscoverFacts
    <2>2. {"sbx", "gates"} \subseteq DOMAIN got
      BY <1>0, <2>1, CompleteFacts, QueriesAre DEF NoGate
    <2>3. got'.sbx = got.sbx /\ got'.gates = got.gates
      BY <2>1, <2>2
    <2>4. RowIds' = RowIds
      BY <2>3 DEF RowIds
    <2>5. BirthsInv(world)
      BY DEF ReproInv, BirthsInv
    <2>6. RowIds \subseteq Family(world)
      BY <1>0, <2>2, <2>5, FamilyIs DEF RowIds, ReproInv, BirthsInv
    <2>7. RowIds \subseteq Known /\ Frontier \subseteq Known /\ Known \subseteq Family(world)
      BY <2>6 DEF Known, Frontier, ReproInv
    <2>8. Kids(Known \ Frontier, saw[1].born) \subseteq Known
      <3>1. CASE "ids" \in DOMAIN got
        BY <3>1 DEF Known, Frontier, ReproInv
      <3>2. CASE "ids" \notin DOMAIN got
        BY <3>2 DEF Known, Frontier, Kids
      <3> QED
        BY <3>1, <3>2
    <2>9. kids \subseteq Family(world)
      <3>1. Frontier \subseteq Family(world)
        BY <2>7
      <3> QED
        BY <1>0, <2>5, <3>1, FamilyHasKids
    <2>10. Kids(Known, saw[1].born) \subseteq Known \cup kids
      <3> SUFFICES ASSUME NEW c \in saw[1].born, Parent[c] \in Known
                   PROVE  c \in Known \cup kids
        BY DEF Kids
      <3>1. CASE Parent[c] \in Frontier
        <4>1. c \in world.born
          BY DEF ReproInv
        <4> QED
          BY <3>1, <4>1 DEF Kids
      <3>2. CASE Parent[c] \notin Frontier
        BY <2>8, <3>2 DEF Kids
      <3> QED
        BY <3>1, <3>2
    <2>11. (Known \cup kids) \ kids = Known
      OBVIOUS
    <2> HIDE DEF kids
    <2> QED
      BY <2>1, <2>2, <2>3, <2>4, <2>7, <2>9, <2>10, <2>11 DEF ReproInv
  <1>4. CASE Show
    <2>1. saw'[1] = world /\ world' = world /\ DOMAIN got' = {}
      BY <1>4, ShowFacts
    <2> QED
      BY <2>1 DEF ReproInv
  <1> QED
    BY <1>1, <1>2, <1>3, <1>4, StepIs

LEMMA ReproKept ==
  ASSUME ReadTypeOK, FoundInv, watch = "repro", ReproInv, ReproShown, ReadsStep
  PROVE  ReproShown'
  <1>0. watch \in Views /\ world \in Worlds /\ saw[1] \in Worlds
    BY WorldsTyped DEF Views
  <1> DEFINE Truly(s) == Family(First(s)) \subseteq s.view /\ s.view \subseteq Family(Last(s))
  <1>1. ReproShown <=> \A i \in DOMAIN shown : Truly(shown[i])
    BY DEF ReproShown
  <1>2. ReproShown' <=> \A i \in DOMAIN shown' : Truly(shown'[i])
    BY DEF ReproShown
  <1>3. ASSUME Show PROVE Truly(NewShown)
    <2>1. /\ NewShown.view = got.ids /\ First(NewShown) = saw[1]
          /\ Last(NewShown) = world
      BY DEF NewShown, View, First, Last, world
    <2>2. {"sbx", "gates"} \subseteq DOMAIN got
      BY <1>0, <1>3, ShowFacts, CompleteFacts, QueriesAre DEF NoGate
    <2>3. Frontier = {}
      BY <1>3 DEF Show
    <2>4. "ids" \in DOMAIN got
      BY <2>3 DEF Frontier, RowIds
    <2>5. got.frontier = {}
      BY <2>3, <2>4 DEF Frontier
    <2>6. /\ RowIds \subseteq got.ids /\ got.ids \subseteq Family(world)
          /\ Kids(got.ids, saw[1].born) \subseteq got.ids
      BY <2>4, <2>5 DEF ReproInv
    <2>7. "wf" \in got.ids /\ (saw[1].gates => "esc" \in got.ids)
      BY <2>2, <2>6 DEF RowIds, ReproInv
    <2>8. Kids({"wf"}, saw[1].born) \subseteq got.ids
      BY <2>6, <2>7 DEF Kids
    <2>9. FirstLine(saw[1]) \subseteq got.ids
      BY <2>7, <2>8 DEF FirstLine, Escalated
    <2>10. Kids(FirstLine(saw[1]), saw[1].born) \subseteq got.ids
      BY <2>6, <2>9 DEF Kids
    <2> QED
      BY <2>1, <2>6, <2>9, <2>10 DEF Family
  <1> HIDE DEF Truly
  <1>4. \A i \in DOMAIN shown' : Truly(shown'[i])
    BY <1>0, <1>1, <1>3, LastShown
  <1> QED
    BY <1>2, <1>4

-----------------------------------------------------------------------------
(* The header. *)

\* What was shown last, if it ended the run, and where the read that showed it
\* began.
EndShown == shown # <<>> /\ shown[Len(shown)].view \in HeaderEnded
Before == shown[Len(shown)].span[1].reopened
EndHolds(s) ==
  \/ \A i \in DOMAIN s : s[i].reopened = Before => s[i].row \in RunEnded
  \/ \A i \in DOMAIN s : s[i].reopened = Before => s[i].dbos \in DbosEnded
LEMMA LinkIs ==
  HeaderInv => (EndShown => Before \in 0..saw[1].reopened /\ EndHolds(saw))
  BY DEF HeaderInv, EndShown, Before, EndHolds

LEMMA HeaderMoves ==
  ASSUME ReadTypeOK, FoundInv, watch = "header", HeaderInv,
         NEW w \in Worlds, Move(w), RunStep(world, w)
  PROVE  HeaderInv'
  <1>1. /\ world' = w /\ got' = got /\ shown' = shown
        /\ \A i \in DOMAIN saw' : saw'[i] = w \/ (i \in DOMAIN saw /\ saw'[i] = saw[i])
    BY MoveFacts
  <1>2. /\ world.reopened \in Nat /\ w.reopened \in Nat /\ saw[1].reopened \in Nat
        /\ \A i \in DOMAIN saw : saw[i].reopened \in Nat
    BY WorldsTyped DEF Worlds
  <1>3. Len(saw) \in DOMAIN saw /\ world = saw[Len(saw)] /\ 1 \in DOMAIN saw
    BY WorldsTyped DEF world
  <1>4. /\ \A i \in DOMAIN saw : /\ saw[1].reopened <= saw[i].reopened
                                 /\ saw[i].reopened <= world.reopened
                                 /\ saw[i].dbos = "SUCCESS" => saw[i].row = "succeeded"
    BY DEF HeaderInv
  <1>5. /\ world.reopened <= w.reopened /\ saw[1].reopened <= world.reopened
        /\ w.dbos = "SUCCESS" => w.row = "succeeded"
    BY <1>2, <1>3, <1>4 DEF RunStep
  <1>6. saw'[1] = saw[1] \/ (saw'[1] = w /\ DOMAIN saw' = {1} /\ DOMAIN got = {})
    BY MoveFacts
  <1>7. \A i \in DOMAIN saw' :
          /\ saw'[1].reopened <= saw'[i].reopened /\ saw'[i].reopened <= w.reopened
          /\ saw'[i].dbos = "SUCCESS" => saw'[i].row = "succeeded"
    <2> SUFFICES ASSUME NEW i \in DOMAIN saw'
                 PROVE  /\ saw'[1].reopened <= saw'[i].reopened /\ saw'[i].reopened <= w.reopened
                        /\ saw'[i].dbos = "SUCCESS" => saw'[i].row = "succeeded"
      OBVIOUS
    <2>1. CASE saw'[1] = saw[1] /\ saw'[i] = w
      BY <1>2, <1>5, <2>1
    <2>2. CASE saw'[1] = saw[1] /\ i \in DOMAIN saw /\ saw'[i] = saw[i]
      BY <1>2, <1>4, <1>5, <2>2
    <2>3. CASE saw'[1] = w /\ DOMAIN saw' = {1}
      BY <1>2, <1>5, <2>3
    <2> QED
      BY <1>1, <1>6, <2>1, <2>2, <2>3
  <1>8. ASSUME saw[1].reopened = w.reopened
        PROVE  /\ SameRun /\ world.reopened = w.reopened
               /\ world.row \in RunEnded => w.row \in RunEnded
               /\ world.dbos \in DbosEnded => w.dbos \in DbosEnded
    BY <1>2, <1>5, <1>8 DEF SameRun, RunStep
  <1>9. /\ SameRun' /\ "row" \in DOMAIN got' =>
             /\ saw'[1].row \in RunEnded => got'.row \in RunEnded
             /\ got'.row \in RunEnded => w.row \in RunEnded
        /\ SameRun' /\ saw'[1].row \in RunEnded => w.row \in RunEnded
        /\ SameRun' /\ saw'[1].dbos \in DbosEnded => w.dbos \in DbosEnded
        /\ "dbos" \in DOMAIN got' =>
             /\ got'.dbos \in {"ERROR", "SUCCESS"} => w.dbos = got'.dbos
             /\ SameRun' /\ got'.dbos \in DbosEnded => w.dbos \in DbosEnded
    <2>1. CASE saw'[1] = saw[1]
      <3>1. SameRun' => saw[1].reopened = w.reopened
        BY <1>1, <2>1 DEF SameRun
      <3>2. ASSUME "dbos" \in DOMAIN got, got.dbos \in {"ERROR", "SUCCESS"}
            PROVE  w.dbos = got.dbos
        BY <3>2 DEF HeaderInv, RunStep
      <3> QED
        BY <1>1, <1>8, <2>1, <3>1, <3>2 DEF HeaderInv
    <2>2. CASE saw'[1] = w /\ DOMAIN got = {}
      BY <1>1, <2>2
    <2> QED
      BY <1>6, <2>1, <2>2
  <1>10. ASSUME EndShown PROVE Before \in 0..saw'[1].reopened /\ EndHolds(saw')
    <2>1. Before \in 0..saw[1].reopened /\ EndHolds(saw)
      BY <1>10, LinkIs
    <2>2. Before \in 0..saw'[1].reopened
      BY <1>2, <1>5, <1>6, <2>1
    <2>3. w.reopened = Before => world.reopened = Before
      BY <1>2, <1>5, <2>1
    <2>4. w.reopened = Before => /\ world.row \in RunEnded => w.row \in RunEnded
                                 /\ world.dbos \in DbosEnded => w.dbos \in DbosEnded
      BY <2>3 DEF RunStep
    <2>5. CASE \A i \in DOMAIN saw : saw[i].reopened = Before => saw[i].row \in RunEnded
      BY <1>1, <1>3, <2>2, <2>3, <2>4, <2>5 DEF EndHolds
    <2>6. CASE \A i \in DOMAIN saw : saw[i].reopened = Before => saw[i].dbos \in DbosEnded
      BY <1>1, <1>3, <2>2, <2>3, <2>4, <2>6 DEF EndHolds
    <2> QED
      BY <2>1, <2>5, <2>6 DEF EndHolds
  <1> QED
    BY <1>1, <1>7, <1>9, <1>10 DEF HeaderInv, EndShown, Before, EndHolds

\* A header that ends the run found its row or its workflow ended.
LEMMA EndedBy ==
  ASSUME NEW f, f.row \in RowStates, projectRunHeader(f) \in HeaderEnded
  PROVE  f.row \in RunEnded \/ f.dbos \in {"SUCCESS", "CANCELLED"}
  <1>1. mapRunStatus[f.row] \in HeaderEnded => f.row \in RunEnded
    BY StatesAre DEF mapRunStatus, HeaderEnded, RunEnded
  <1>2. CASE projectRunHeader(f) = mapRunStatus[f.row]
    BY <1>1, <1>2
  <1>3. CASE /\ f.dbos \in DOMAIN DBOS_TO_HEADER_STATUS
             /\ projectRunHeader(f) = DBOS_TO_HEADER_STATUS[f.dbos]
    BY <1>3 DEF DBOS_TO_HEADER_STATUS, HeaderEnded
  <1> QED
    BY <1>2, <1>3 DEF projectRunHeader, mergeRunHeaderStatusWithDbos

\* What is shown is the status of the row, or that of a workflow that ended
\* while the row had not; and such an end is never left out.
LEMMA HeaderIs ==
  ASSUME NEW f, f.row \in RowStates
  PROVE  LET s == projectRunHeader(f) IN
         /\ \/ s = mapRunStatus[f.row]
            \/ s = f.dbos /\ f.dbos \in {"SUCCESS", "CANCELLED"}
         /\ s \notin HeaderEnded =>
              f.row \notin RunEnded /\ f.dbos \notin {"SUCCESS", "CANCELLED"}
  <1> DEFINE r == mapRunStatus[f.row]
             s == projectRunHeader(f)
  <1>1. /\ r \in {"ENQUEUED", "PENDING", "WAITING_INPUT", "SUCCESS", "ERROR", "CANCELLED"}
        /\ r \in HeaderEnded <=> f.row \in RunEnded
    BY StatesAre DEF mapRunStatus, HeaderEnded, RunEnded
  <1>2. /\ DOMAIN DBOS_TO_HEADER_STATUS = {"PENDING", "ENQUEUED", "SUCCESS", "CANCELLED"}
        /\ DBOS_TO_HEADER_STATUS["PENDING"] = "ENQUEUED"
        /\ DBOS_TO_HEADER_STATUS["ENQUEUED"] = "ENQUEUED"
        /\ DBOS_TO_HEADER_STATUS["SUCCESS"] = "SUCCESS"
        /\ DBOS_TO_HEADER_STATUS["CANCELLED"] = "CANCELLED"
    BY DEF DBOS_TO_HEADER_STATUS
  <1>3. /\ HEADER_STATUS_RANK["ENQUEUED"] = 1 /\ HEADER_STATUS_RANK["PENDING"] = 2
        /\ HEADER_STATUS_RANK["WAITING_INPUT"] = 3 /\ HEADER_STATUS_RANK["SUCCESS"] = 4
        /\ HEADER_STATUS_RANK["ERROR"] = 4 /\ HEADER_STATUS_RANK["CANCELLED"] = 4
    BY DEF HEADER_STATUS_RANK
  <1>4. s = IF /\ f.dbos \in DOMAIN DBOS_TO_HEADER_STATUS
               /\ HEADER_STATUS_RANK[DBOS_TO_HEADER_STATUS[f.dbos]] > HEADER_STATUS_RANK[r]
            THEN DBOS_TO_HEADER_STATUS[f.dbos] ELSE r
    BY DEF projectRunHeader, mergeRunHeaderStatusWithDbos
  <1> HIDE DEF r, s
  <1>5. s = r \/ (s = f.dbos /\ f.dbos \in {"SUCCESS", "CANCELLED"})
    <2>1. CASE f.dbos \in {"SUCCESS", "CANCELLED"}
      BY <1>2, <1>4, <2>1
    <2>2. CASE f.dbos \in {"PENDING", "ENQUEUED"}
      BY <1>1, <1>2, <1>3, <1>4, <2>2
    <2>3. CASE f.dbos \notin {"PENDING", "ENQUEUED", "SUCCESS", "CANCELLED"}
      BY <1>2, <1>4, <2>3
    <2> QED
      BY <2>1, <2>2, <2>3
  <1>6. ASSUME f.row \in RunEnded PROVE s \in HeaderEnded
    BY <1>1, <1>5, <1>6 DEF HeaderEnded
  <1>7. ASSUME f.dbos \in {"SUCCESS", "CANCELLED"} PROVE s \in HeaderEnded
    <2>1. CASE r \in HeaderEnded
      BY <1>1, <1>6, <2>1
    <2>2. CASE r \notin HeaderEnded
      <3>1. HEADER_STATUS_RANK[r] \in {1, 2, 3}
        BY <1>1, <1>3, <2>2 DEF HeaderEnded
      <3>2. HEADER_STATUS_RANK[DBOS_TO_HEADER_STATUS[f.dbos]] = 4
        BY <1>2, <1>3, <1>7
      <3>3. s = f.dbos
        BY <1>2, <1>4, <1>7, <3>1, <3>2
      <3> QED
        BY <1>7, <3>3 DEF HeaderEnded
    <2> QED
      BY <2>1, <2>2
  <1> QED
    BY <1>5, <1>6, <1>7 DEF r, s

\* What a complete header found.
LEMMA HeaderFound ==
  ASSUME ReadTypeOK, FoundInv, watch = "header", Show
  PROVE  /\ {"row", "dbos"} \subseteq DOMAIN got /\ got.row \in RowStates
         /\ \E j \in DOMAIN saw : got.row = saw[j].row
         /\ got.dbos = "unknown" \/ \E j \in DOMAIN saw : got.dbos = saw[j].dbos
         /\ NewShown.view = projectRunHeader(got) /\ NewShown.span = saw
         /\ NewShown.blind = (got.dbos = "unknown")
  <1>0. watch \in Views
    BY DEF Views
  <1>1. {"row", "dbos"} \subseteq DOMAIN got
    BY ShowFacts, CompleteFacts, QueriesAre DEF NoGate
  <1>2. \E j \in DOMAIN saw : got["row"] = saw[j].row
    BY <1>1, WasFound, FoundIs
  <1>3. got["dbos"] = "unknown" \/ \E j \in DOMAIN saw : got["dbos"] = saw[j].dbos
    BY <1>1, FoundIs DEF FoundInv
  <1>4. got.row \in RowStates
    BY <1>2, WorldsTyped DEF Worlds
  <1>5. /\ NewShown.view = projectRunHeader(got) /\ NewShown.span = saw
        /\ NewShown.blind = ("dbos" \in DOMAIN got /\ got.dbos = "unknown")
    BY DEF NewShown, View
  <1> QED
    BY <1>1, <1>2, <1>3, <1>4, <1>5

LEMMA HeaderGoesOn ==
  ASSUME ReadTypeOK, FoundInv, watch = "header", HeaderInv, ReadsStep
  PROVE  HeaderInv'
  <1>0. watch \in Views /\ watch # "repro"
    BY DEF Views
  <1>1. CASE WorldMoves
    BY <1>1, MovesTo, HeaderMoves DEF Steps
  <1>2. ASSUME NEW q, Answer(q) \/ AnswerFails(q) PROVE HeaderInv'
    <2>1. /\ saw' = saw /\ world' = world /\ shown' = shown /\ q \in {"row", "dbos"}
          /\ DOMAIN got' = {q} \cup DOMAIN got /\ q \notin DOMAIN got
          /\ \A p \in DOMAIN got : got'[p] = got[p]
          /\ got'[q] = Found(world, q) \/ (q = "dbos" /\ got'[q] = "unknown")
      BY <1>0, <1>2, AnswerFacts, QueriesAre
    <2>2. q = "row" => got'["row"] = world.row
      BY <2>1, FoundIs
    <2>3. q = "dbos" => got'["dbos"] \in {world.dbos, "unknown"}
      BY <2>1, FoundIs
    <2>4. SameRun' = SameRun
      BY <2>1 DEF SameRun
    <2>5. SameRun' /\ "row" \in DOMAIN got' =>
            /\ saw'[1].row \in RunEnded => got'.row \in RunEnded
            /\ got'.row \in RunEnded => world'.row \in RunEnded
      BY <2>1, <2>2, <2>4 DEF HeaderInv
    <2>6. "dbos" \in DOMAIN got' =>
            /\ got'.dbos \in {"ERROR", "SUCCESS"} => world'.dbos = got'.dbos
            /\ SameRun' /\ got'.dbos \in DbosEnded => world'.dbos \in DbosEnded
      <3>1. CASE q = "dbos"
        BY <2>1, <2>3, <3>1 DEF DbosEnded
      <3>2. CASE q # "dbos"
        BY <2>1, <2>4, <3>2 DEF HeaderInv
      <3> QED
        BY <3>1, <3>2
    <2> QED
      BY <2>1, <2>4, <2>5, <2>6 DEF HeaderInv
  <1>3. CASE discoverDbosWorkflowScope
    BY <1>0, <1>3, DiscoverFacts
  <1>4. CASE Show
    <2>1. /\ saw' = <<world>> /\ DOMAIN saw' = {1} /\ saw'[1] = world /\ world' = world
          /\ DOMAIN got' = {}
          /\ shown'[Len(shown')] = NewShown
      BY <1>4, ShowFacts
    <2>2. /\ world.reopened \in Nat /\ saw[1].reopened \in Nat
          /\ Len(saw) \in DOMAIN saw /\ world = saw[Len(saw)] /\ 1 \in DOMAIN saw
      BY WorldsTyped DEF Worlds, world
    <2>3. /\ saw[1].reopened <= world.reopened
          /\ world.dbos = "SUCCESS" => world.row = "succeeded"
      BY <2>2 DEF HeaderInv
    <2>4. NewShown.span = saw
      BY <1>4, HeaderFound
    <2>5. ASSUME NewShown.view \in HeaderEnded, world.reopened = saw[1].reopened
          PROVE  world.row \in RunEnded \/ world.dbos \in DbosEnded
      <3>1. got.row \in RunEnded \/ got.dbos \in {"SUCCESS", "CANCELLED"}
        BY <1>4, <2>5, HeaderFound, EndedBy
      <3>2. SameRun
        BY <2>5 DEF SameRun
      <3> QED
        BY <1>4, <3>1, <3>2, HeaderFound DEF HeaderInv, DbosEnded
    <2>6. EndShown' => Before' \in 0..saw'[1].reopened
      BY <2>1, <2>2, <2>3, <2>4 DEF Before
    <2>7. EndShown' => EndHolds(saw)'
      BY <2>1, <2>4, <2>5 DEF EndShown, Before, EndHolds
    <2>8. (EndShown => Before \in 0..saw[1].reopened /\ EndHolds(saw))'
      BY <2>6, <2>7
    <2>9. \A i \in DOMAIN saw' :
            /\ saw'[1].reopened <= saw'[i].reopened /\ saw'[i].reopened <= world'.reopened
            /\ saw'[i].dbos = "SUCCESS" => saw'[i].row = "succeeded"
      BY <2>1, <2>2, <2>3
    <2> QED
      BY <2>1, <2>8, <2>9 DEF HeaderInv, EndShown, Before, EndHolds
  <1> QED
    BY <1>1, <1>2, <1>3, <1>4, StepIs

LEMMA HeaderKept ==
  ASSUME ReadTypeOK, FoundInv, watch = "header", HeaderInv, HeaderShown, ReadsStep
  PROVE  HeaderShown'
  <1>0. watch \in Views
    BY DEF Views
  <1> DEFINE Was(s) == \E j \in DOMAIN s.span :
                         \/ s.view = mapRunStatus[s.span[j].row]
                         \/ s.view = "CANCELLED" /\ s.span[j].dbos = "CANCELLED"
             Back(p, s) ==
               (p.view \in HeaderEnded /\ s.view \notin HeaderEnded) =>
                  \/ s.blind \/ Last(s).reopened > First(p).reopened
                  \/ s.span[1].row \notin RunEnded /\ Last(s).dbos \in {"ERROR", "SUCCESS"}
  <1>1. HeaderShown <=> \A i \in DOMAIN shown :
                          Was(shown[i]) /\ (i > 1 => Back(shown[i - 1], shown[i]))
    BY DEF HeaderShown, Held
  <1>2. HeaderShown' <=> \A i \in DOMAIN shown' :
                           Was(shown'[i]) /\ (i > 1 => Back(shown'[i - 1], shown'[i]))
    BY DEF HeaderShown, Held
  <1>3. ASSUME Show PROVE Was(NewShown)
    <2>1. CASE NewShown.view = mapRunStatus[got.row]
      BY <1>3, <2>1, HeaderFound
    <2>2. CASE NewShown.view = got.dbos /\ got.dbos = "CANCELLED"
      BY <1>3, <2>2, HeaderFound
    <2>3. CASE NewShown.view = got.dbos /\ got.dbos = "SUCCESS"
      <3>1. PICK j \in DOMAIN saw : saw[j].dbos = "SUCCESS"
        BY <1>3, <2>3, HeaderFound
      <3>2. saw[j].row = "succeeded"
        BY <3>1 DEF HeaderInv
      <3>3. mapRunStatus["succeeded"] = "SUCCESS"
        BY DEF mapRunStatus
      <3> QED
        BY <1>3, <2>3, <3>2, <3>3, HeaderFound
    <2> QED
      BY <1>3, <2>1, <2>2, <2>3, HeaderFound, HeaderIs
  <1>4. ASSUME Show, Len(shown) > 0 PROVE Back(shown[Len(shown)], NewShown)
    <2> DEFINE p == shown[Len(shown)]
    <2>1. SUFFICES ASSUME p.view \in HeaderEnded, NewShown.view \notin HeaderEnded,
                          ~NewShown.blind, ~(world.reopened > p.span[1].reopened)
                   PROVE  saw[1].row \notin RunEnded /\ world.dbos \in {"ERROR", "SUCCESS"}
      BY <1>4, HeaderFound DEF First, Last, world
    <2>2. EndShown
      <3>1. shown # <<>>
        BY <1>4
      <3> QED
        BY <2>1, <3>1 DEF EndShown
    <2>3. Before \in 0..saw[1].reopened /\ EndHolds(saw) /\ Before = p.span[1].reopened
      BY <2>2, LinkIs DEF Before
    <2>4. /\ \A i \in DOMAIN saw : saw[i].reopened \in Nat
          /\ Len(saw) \in DOMAIN saw /\ world = saw[Len(saw)] /\ 1 \in DOMAIN saw
      BY WorldsTyped DEF Worlds, world
    <2>5. \A i \in DOMAIN saw : /\ saw[1].reopened <= saw[i].reopened
                                /\ saw[i].reopened <= world.reopened
      BY DEF HeaderInv
    <2> HIDE DEF p
    <2>6. \A i \in DOMAIN saw : saw[i].reopened = Before
      BY <2>1, <2>3, <2>4, <2>5
    <2>7. SameRun
      BY <2>4, <2>6 DEF SameRun
    <2>8. got.row \notin RunEnded /\ got.dbos \notin {"SUCCESS", "CANCELLED"}
      BY <1>4, <2>1, HeaderFound, HeaderIs
    <2>9. saw[1].row \notin RunEnded
      BY <1>4, <2>7, <2>8, HeaderFound DEF HeaderInv
    <2>10. \A i \in DOMAIN saw : saw[i].dbos \in DbosEnded
      BY <2>3, <2>4, <2>6, <2>9 DEF EndHolds
    <2>11. got.dbos = "ERROR"
      BY <1>4, <2>1, <2>8, <2>10, HeaderFound DEF DbosEnded
    <2> QED
      BY <1>4, <2>9, <2>11, HeaderFound DEF HeaderInv
  <1> HIDE DEF Was, Back
  <1>5. ASSUME Show
        PROVE  \A i \in DOMAIN shown' :
                 Was(shown'[i]) /\ (i > 1 => Back(shown'[i - 1], shown'[i]))
    <2>1. /\ Len(shown) \in Nat /\ DOMAIN shown = 1..Len(shown)
          /\ DOMAIN shown' = 1..(Len(shown) + 1)
          /\ \A i \in DOMAIN shown : shown'[i] = shown[i]
          /\ shown'[Len(shown) + 1] = NewShown
      BY <1>5, ShowFacts
    <2> SUFFICES ASSUME NEW i \in DOMAIN shown'
                 PROVE  Was(shown'[i]) /\ (i > 1 => Back(shown'[i - 1], shown'[i]))
      OBVIOUS
    <2>2. CASE i \in DOMAIN shown
      <3>1. i > 1 => i - 1 \in DOMAIN shown
        BY <2>1, <2>2
      <3> QED
        BY <1>1, <2>1, <2>2, <3>1
    <2>3. CASE i = Len(shown) + 1
      <3>1. i > 1 => i - 1 = Len(shown) /\ i - 1 \in DOMAIN shown /\ Len(shown) > 0
        BY <2>1, <2>3
      <3> QED
        BY <1>3, <1>4, <1>5, <2>1, <2>3, <3>1
    <2> QED
      BY <2>1, <2>2, <2>3
  <1> QED
    BY <1>0, <1>1, <1>2, <1>5, StepKeeps

-----------------------------------------------------------------------------
(* The board. *)

\* The workflow is asked for after the row.
LEMMA DbosAskedLast ==
  ASSUME watch = "signoff", Asks("dbos")
  PROVE  "succeeded" \in DOMAIN got
  <1> DEFINE s == Queries["signoff"]
  <1>1. /\ DOMAIN s = 1..7 /\ s[1] = {"pf", "proof"} /\ s[2] = {"posture"}
        /\ s[3] = {"violation"} /\ s[4] = {"twice"} /\ s[5] = {"failures"}
        /\ s[6] = {"succeeded"} /\ s[7] = {"dbos"}
    BY DEF Queries, Tiles
  <1> HIDE DEF s
  <1>2. PICK i \in DOMAIN s : /\ "dbos" \in s[i]
                              /\ \A j \in 1..(i - 1) : s[j] \subseteq DOMAIN got
    BY DEF Asks, s
  <1>3. i \in {1, 2, 3, 4, 5, 6, 7}
    BY <1>1, <1>2
  <1>4. i = 7
    BY <1>1, <1>2, <1>3
  <1>5. s[6] \subseteq DOMAIN got
    BY <1>2, <1>4
  <1> QED
    BY <1>1, <1>5

LEMMA SignoffGoesOn ==
  ASSUME ReadTypeOK, FoundInv, watch = "signoff", SignoffInv, ReadsStep
  PROVE  SignoffInv'
  <1>0. watch \in Views /\ watch \notin {"repro", "header", "proofs", "steps"}
    BY DEF Views
  <1>1. CASE WorldMoves
    <2>1. PICK w \in Worlds : Move(w) /\ RunStep(world, w)
      BY <1>1, MovesTo DEF Steps
    <2>2. world' = w /\ got' = got
      BY <2>1, MoveFacts
    <2>3. CASE Reading
      <3>1. \A i \in DOMAIN saw : i \in DOMAIN saw' /\ saw'[i] = saw[i]
        BY <2>1, <2>3, MoveFacts
      <3>2. terminalDivergence(got)' = terminalDivergence(got)
        BY <2>2 DEF terminalDivergence
      <3>3. world.row = "succeeded" => w.row = "succeeded"
        BY <2>1 DEF RunStep
      <3> QED
        BY <2>2, <3>1, <3>2, <3>3 DEF SignoffInv
    <2>4. CASE ~Reading
      <3>1. DOMAIN got = {}
        BY <2>1, <2>4, MoveFacts
      <3> QED
        BY <2>2, <3>1 DEF SignoffInv
    <2> QED
      BY <2>3, <2>4
  <1>2. ASSUME NEW q, Answer(q) \/ AnswerFails(q) PROVE SignoffInv'
    <2>1. /\ saw' = saw /\ world' = world
          /\ DOMAIN got' = {q} \cup DOMAIN got /\ q \notin DOMAIN got
          /\ \A p \in DOMAIN got : got'[p] = got[p]
          /\ got'[q] = Found(world, q)
      BY <1>0, <1>2, AnswerFacts
    <2>2. q = "succeeded" => got'["succeeded"] = (world.row = "succeeded")
      BY <2>1, FoundIs
    <2>3. q = "dbos" => got'["dbos"] = world.dbos /\ "succeeded" \in DOMAIN got
      BY <1>2, <2>1, FoundIs, DbosAskedLast DEF Answer, AnswerFails
    <2>4. "succeeded" \in DOMAIN got' /\ got'.succeeded => world.row = "succeeded"
      BY <2>1, <2>2 DEF SignoffInv
    <2>5. "dbos" \in DOMAIN got' => "succeeded" \in DOMAIN got'
      BY <2>1, <2>3 DEF SignoffInv
    <2>6. ASSUME "dbos" \in DOMAIN got', got'.succeeded, got'.dbos # "SUCCESS"
          PROVE  \E i \in DOMAIN saw : saw[i].row = "succeeded" /\ saw[i].dbos # "SUCCESS"
      <3>1. CASE q = "dbos"
        <4>1. Len(saw) \in DOMAIN saw /\ world = saw[Len(saw)]
          BY WorldsTyped DEF world
        <4>2. world.row = "succeeded" /\ world.dbos # "SUCCESS"
          BY <2>3, <2>4, <2>5, <2>6, <3>1
        <4> QED
          BY <4>1, <4>2
      <3>2. CASE q # "dbos"
        <4>1. "dbos" \in DOMAIN got /\ "succeeded" \in DOMAIN got
          BY <2>1, <2>6, <3>2 DEF SignoffInv
        <4>2. got'.succeeded = got.succeeded /\ got'.dbos = got.dbos
          BY <2>1, <4>1
        <4> QED
          BY <2>6, <4>1, <4>2 DEF SignoffInv, terminalDivergence
      <3> QED
        BY <3>1, <3>2
    <2> QED
      BY <2>1, <2>4, <2>5, <2>6 DEF SignoffInv, terminalDivergence
  <1>3. CASE discoverDbosWorkflowScope
    BY <1>0, <1>3, DiscoverFacts
  <1>4. CASE Show
    <2>1. DOMAIN got' = {}
      BY <1>4, ShowFacts
    <2> QED
      BY <2>1 DEF SignoffInv
  <1> QED
    BY <1>1, <1>2, <1>3, <1>4, StepIs

\* What a complete board found.
LEMMA BoardFound ==
  ASSUME ReadTypeOK, FoundInv, watch = "signoff", Show
  PROVE  /\ "dbos" \in DOMAIN got
         /\ \A t \in Tiles : \E j \in DOMAIN saw : got[t] = saw[j].tiles[t]
         /\ \E j \in DOMAIN saw : got.posture = saw[j].posture /\ saw[j].posture \in BOOLEAN
         /\ got.violation = FALSE
         /\ \E j \in DOMAIN saw : got.twice = saw[j].twice /\ saw[j].twice \in BOOLEAN
         /\ \E j \in DOMAIN saw : got.failures = (saw[j].row = "failed")
         /\ \E j \in DOMAIN saw : got.succeeded = (saw[j].row = "succeeded")
         /\ \E j \in DOMAIN saw : got.dbos = saw[j].dbos
         /\ NewShown.view = getSignoffBoard(got) /\ NewShown.span = saw
  <1>0. watch \in Views
    BY DEF Views
  <1>1. {"pf", "proof", "posture", "violation", "twice", "failures", "succeeded", "dbos"}
          \subseteq DOMAIN got
    BY ShowFacts, CompleteFacts, QueriesAre DEF NoGate
  <1>2. \A i \in DOMAIN saw : saw[i] \in Worlds
    BY WorldsTyped
  <1>3. /\ \E j \in DOMAIN saw : got["pf"] = saw[j].tiles["pf"]
        /\ \E j \in DOMAIN saw : got["proof"] = saw[j].tiles["proof"]
    BY <1>1, WasFound, FoundIs
  <1>4. \E j \in DOMAIN saw : got["posture"] = saw[j].posture
    BY <1>1, WasFound, FoundIs
  <1>5. \E j \in DOMAIN saw : got["violation"] = (saw[j].outcome = "VIOLATION")
    BY <1>1, WasFound, FoundIs
  <1>6. \E j \in DOMAIN saw : got["twice"] = saw[j].twice
    BY <1>1, WasFound, FoundIs
  <1>7. \E j \in DOMAIN saw : got["failures"] = (saw[j].row \in {"failed", "retries_exceeded"})
    BY <1>1, WasFound, FoundIs
  <1>8. \E j \in DOMAIN saw : got["succeeded"] = (saw[j].row = "succeeded")
    BY <1>1, WasFound, FoundIs
  <1>9. \E j \in DOMAIN saw : got["dbos"] = saw[j].dbos
    BY <1>1, FoundIs DEF FoundInv
  <1>10. got.violation = FALSE
    BY <1>2, <1>5 DEF Worlds
  <1>11. \A i \in DOMAIN saw : /\ saw[i].posture \in BOOLEAN /\ saw[i].twice \in BOOLEAN
                               /\ saw[i].row # "retries_exceeded"
    BY <1>2, StatesAre DEF Worlds
  <1>12. NewShown.view = getSignoffBoard(got) /\ NewShown.span = saw
    BY DEF NewShown, View
  <1>13. \A t \in Tiles : \E j \in DOMAIN saw : got[t] = saw[j].tiles[t]
    BY <1>3 DEF Tiles
  <1>14. \E j \in DOMAIN saw : got.failures = (saw[j].row = "failed")
    BY <1>7, <1>11
  <1> QED
    BY <1>1, <1>4, <1>6, <1>8, <1>9, <1>10, <1>11, <1>12, <1>13, <1>14

\* What is clear in a world.
ClearIn(w, x) ==
  CASE x \in Tiles -> w.tiles[x] = "green"
    [] x = "posture" -> w.posture
    [] x = "receipts" -> ~w.twice
    [] x = "failures" -> w.row # "failed"
    [] x = "divergence" -> w.row = "succeeded" => w.dbos = "SUCCESS"
AllFacts == Tiles \cup {"posture", "receipts", "failures", "divergence"}
LEMMA ClearIs ==
  ASSUME NEW w
  PROVE  /\ \A t \in Tiles : ClearIn(w, t) = (w.tiles[t] = "green")
         /\ ClearIn(w, "posture") = w.posture
         /\ ClearIn(w, "receipts") = ~w.twice
         /\ ClearIn(w, "failures") = (w.row # "failed")
         /\ ClearIn(w, "divergence") = (w.row = "succeeded" => w.dbos = "SUCCESS")
  BY DEF ClearIn, Tiles

\* The triggers and the tiles, one by one.
LEMMA BoardIs ==
  ASSUME NEW f, f.posture \in BOOLEAN, f.violation \in BOOLEAN, f.twice \in BOOLEAN,
         f.failures \in BOOLEAN, f.succeeded \in BOOLEAN
  PROVE  /\ getSignoffBoard(f) = "GO" <=>
              /\ f.posture /\ ~f.violation /\ ~f.twice /\ ~f.failures
              /\ ~(f.succeeded /\ f.dbos # "SUCCESS")
              /\ \A t \in Tiles : f[t] = "green"
         /\ getSignoffBoard(f) \in {"GO", "NO_GO"}
  <1>1. \A t \in Tiles : finalizeMandatoryTiles(f)[t] = "GO" <=> f[t] = "green"
    BY DEF finalizeMandatoryTiles, normalizeLoadedTile
  <1>2. falseGreen(f) <=> \E t \in Tiles : f[t] = "bare"
    BY DEF falseGreen, normalizeLoadedTile
  <1>3. falseGreen(f) \in BOOLEAN
    BY DEF falseGreen
  <1>4. terminalDivergence(f) \in BOOLEAN
    BY DEF terminalDivergence
  <1>5. ASSUME NEW a \in BOOLEAN, NEW b \in BOOLEAN, NEW c \in BOOLEAN, NEW d \in BOOLEAN,
               NEW e \in BOOLEAN, NEW g \in BOOLEAN
        PROVE  TRUE \notin {a, b, c, d, e, g} <=> ~a /\ ~b /\ ~c /\ ~d /\ ~e /\ ~g
    OBVIOUS
  <1>6. TRUE \notin Triggers(f) <=>
          /\ ~~f.posture /\ ~f.violation /\ ~f.twice /\ ~f.failures
          /\ ~terminalDivergence(f) /\ ~falseGreen(f)
    <2> DEFINE a == ~f.posture
    <2>1. a \in BOOLEAN /\ (~a <=> f.posture)
      OBVIOUS
    <2>2. Triggers(f) = {a, f.violation, f.twice, f.failures, terminalDivergence(f),
                         falseGreen(f)}
      BY DEF Triggers
    <2> HIDE DEF a
    <2> QED
      BY <1>3, <1>4, <1>5, <2>1, <2>2
  <1>7. getSignoffBoard(f) = IF /\ TRUE \notin Triggers(f)
                                /\ \A t \in Tiles : finalizeMandatoryTiles(f)[t] = "GO"
                             THEN "GO" ELSE "NO_GO"
    BY DEF getSignoffBoard
  <1>8. terminalDivergence(f) <=> f.succeeded /\ f.dbos # "SUCCESS"
    BY DEF terminalDivergence
  <1>9. (\A t \in Tiles : f[t] = "green") => ~falseGreen(f)
    BY <1>2
  <1> HIDE DEF Triggers
  <1>10. getSignoffBoard(f) = "GO" <=>
           /\ TRUE \notin Triggers(f)
           /\ \A t \in Tiles : finalizeMandatoryTiles(f)[t] = "GO"
    BY <1>7
  <1> QED
    BY <1>1, <1>6, <1>7, <1>8, <1>9, <1>10

LEMMA SignoffKept ==
  ASSUME ReadTypeOK, FoundInv, watch = "signoff", SignoffInv, SignoffShown, ReadsStep
  PROVE  SignoffShown'
  <1>0. watch \in Views
    BY DEF Views
  <1> DEFINE Truly(s) ==
               IF s.view = "GO"
               THEN \A x \in AllFacts : \E j \in DOMAIN s.span : ClearIn(s.span[j], x)
               ELSE \E x \in AllFacts : \E j \in DOMAIN s.span : ~ClearIn(s.span[j], x)
  <1>1. SignoffShown <=> \A i \in DOMAIN shown : Truly(shown[i])
    BY DEF SignoffShown, Held, ClearIn, AllFacts
  <1>2. SignoffShown' <=> \A i \in DOMAIN shown' : Truly(shown'[i])
    BY DEF SignoffShown, Held, ClearIn, AllFacts
  <1>3. ASSUME Show PROVE Truly(NewShown)
    <2>1. NewShown.view = getSignoffBoard(got) /\ NewShown.span = saw
      BY <1>3, BoardFound
    <2>2. PICK jp \in DOMAIN saw : got.posture = saw[jp].posture /\ saw[jp].posture \in BOOLEAN
      BY <1>3, BoardFound
    <2>3. PICK jt \in DOMAIN saw : got.twice = saw[jt].twice /\ saw[jt].twice \in BOOLEAN
      BY <1>3, BoardFound
    <2>4. PICK jf \in DOMAIN saw : got.failures = (saw[jf].row = "failed")
      BY <1>3, BoardFound
    <2>5. PICK js \in DOMAIN saw : got.succeeded = (saw[js].row = "succeeded")
      BY <1>3, BoardFound
    <2>6. PICK jd \in DOMAIN saw : got.dbos = saw[jd].dbos
      BY <1>3, BoardFound
    <2>7. /\ \A t \in Tiles : \E j \in DOMAIN saw : got[t] = saw[j].tiles[t]
          /\ got.violation = FALSE
      BY <1>3, BoardFound
    <2>8. /\ NewShown.view = "GO" <=>
               /\ got.posture /\ ~got.twice /\ ~got.failures
               /\ ~(got.succeeded /\ got.dbos # "SUCCESS")
               /\ \A t \in Tiles : got[t] = "green"
      <3>1. /\ got.posture \in BOOLEAN /\ got.violation \in BOOLEAN /\ got.twice \in BOOLEAN
            /\ got.failures \in BOOLEAN /\ got.succeeded \in BOOLEAN
        BY <2>2, <2>3, <2>4, <2>5, <2>7
      <3>2. getSignoffBoard(got) = "GO" <=>
              /\ got.posture /\ ~got.violation /\ ~got.twice /\ ~got.failures
              /\ ~(got.succeeded /\ got.dbos # "SUCCESS")
              /\ \A t \in Tiles : got[t] = "green"
        BY <3>1, BoardIs
      <3> QED
        BY <2>1, <2>7, <3>2
    <2>9. CASE NewShown.view = "GO"
      <3>1. ASSUME NEW t \in Tiles PROVE \E j \in DOMAIN saw : ClearIn(saw[j], t)
        <4>1. PICK j \in DOMAIN saw : got[t] = saw[j].tiles[t]
          BY <2>7
        <4>2. saw[j].tiles[t] = "green"
          BY <2>8, <2>9, <4>1
        <4>3. ClearIn(saw[j], t)
          BY <4>2, ClearIs
        <4> QED
          BY <4>3
      <3>2. ClearIn(saw[jp], "posture")
        BY <2>2, <2>8, <2>9, ClearIs
      <3>3. ClearIn(saw[jt], "receipts")
        BY <2>3, <2>8, <2>9, ClearIs
      <3>4. ClearIn(saw[jf], "failures")
        BY <2>4, <2>8, <2>9, ClearIs
      <3>5. \E j \in DOMAIN saw : ClearIn(saw[j], "divergence")
        <4>1. CASE ~got.succeeded
          <5>1. ClearIn(saw[js], "divergence")
            BY <2>5, <4>1, ClearIs
          <5> QED
            BY <5>1
        <4>2. CASE got.dbos = "SUCCESS"
          <5>1. ClearIn(saw[jd], "divergence")
            BY <2>6, <4>2, ClearIs
          <5> QED
            BY <5>1
        <4> QED
          BY <2>8, <2>9, <4>1, <4>2
      <3> QED
        BY <2>1, <2>9, <3>1, <3>2, <3>3, <3>4, <3>5 DEF AllFacts
    <2>10. CASE NewShown.view # "GO"
      <3> SUFFICES \E x \in AllFacts : \E j \in DOMAIN saw : ~ClearIn(saw[j], x)
        BY <2>1, <2>10
      <3>1. CASE ~got.posture
        <4>1. ~ClearIn(saw[jp], "posture")
          BY <2>2, <3>1, ClearIs
        <4> QED
          BY <4>1 DEF AllFacts
      <3>2. CASE got.twice
        <4>1. ~ClearIn(saw[jt], "receipts")
          BY <2>3, <3>2, ClearIs
        <4> QED
          BY <4>1 DEF AllFacts
      <3>3. CASE got.failures
        <4>1. ~ClearIn(saw[jf], "failures")
          BY <2>4, <3>3, ClearIs
        <4> QED
          BY <4>1 DEF AllFacts
      <3>4. CASE got.succeeded /\ got.dbos # "SUCCESS"
        <4>1. PICK j \in DOMAIN saw : saw[j].row = "succeeded" /\ saw[j].dbos # "SUCCESS"
          BY <1>3, <3>4, BoardFound DEF SignoffInv, terminalDivergence
        <4>2. ~ClearIn(saw[j], "divergence")
          BY <4>1, ClearIs
        <4> QED
          BY <4>2 DEF AllFacts
      <3>5. ASSUME NEW t \in Tiles, got[t] # "green"
            PROVE  \E x \in AllFacts : \E j \in DOMAIN saw : ~ClearIn(saw[j], x)
        <4>1. PICK j \in DOMAIN saw : got[t] = saw[j].tiles[t]
          BY <2>7
        <4>2. ~ClearIn(saw[j], t)
          BY <3>5, <4>1, ClearIs
        <4> QED
          BY <4>2 DEF AllFacts
      <3> QED
        BY <2>8, <2>10, <3>1, <3>2, <3>3, <3>4, <3>5
    <2> QED
      BY <2>9, <2>10
  <1> HIDE DEF Truly
  <1>4. \A i \in DOMAIN shown' : Truly(shown'[i])
    BY <1>0, <1>1, <1>3, LastShown
  <1> QED
    BY <1>2, <1>4

-----------------------------------------------------------------------------
(* The theorem. *)

LEMMA ReadsBegin ==
  ASSUME ReadInit
  PROVE  ShownWasSo /\ watch \in Views
  <1>1. watch \in Views /\ got = <<>> /\ moves = 0 /\ shown = <<>>
    BY DEF ReadInit
  <1>2. NewWorld \in Worlds
    BY StatesAre DEF NewWorld, Worlds, RowStates, RowNext, DbosStates, TileFiles, Tiles,
                     GateNext
  <1>3. PICK w : saw = <<w>> /\ w \in Worlds /\ w.reopened = 0 /\ w.dbos # "SUCCESS"
                 /\ w.sbx = FALSE /\ w.born = {}
    <2> DEFINE Start(w) == w \in Worlds /\ w.reopened = 0 /\ w.dbos # "SUCCESS"
                             /\ w.sbx = FALSE /\ w.born = {}
    <2>1. CASE saw = <<NewWorld>>
      <3>1. Start(NewWorld)
        BY <1>2 DEF NewWorld
      <3> QED
        BY <2>1, <3>1
    <2> DEFINE At(v, s, d) == [v EXCEPT !.row = s, !.dbos = d]
               Done(v, f, p) == [v EXCEPT !.row = "succeeded", !.dbos = "PENDING",
                                          !.tiles["pf"] = f, !.posture = p]
    <2>0. ASSUME NEW v \in Worlds, v.reopened = 0, v.sbx = FALSE, v.born = {}
          PROVE  /\ \A s \in RowStates, d \in DbosStates \ {"SUCCESS"} : Start(At(v, s, d))
                 /\ \A f \in TileFiles, p \in BOOLEAN : Start(Done(v, f, p))
      <3>1. "succeeded" \in RowStates /\ "PENDING" \in DbosStates
        BY StatesAre DEF DbosStates
      <3> QED
        BY <2>0, <3>1 DEF Worlds
    <2>a. /\ {"waiting_input", "failed", "succeeded"} \subseteq RowStates
          /\ {"PENDING", "ERROR"} \subseteq DbosStates
          /\ NewWorld.reopened = 0 /\ NewWorld.sbx = FALSE /\ NewWorld.born = {}
      BY StatesAre DEF DbosStates, NewWorld
    <2>2. CASE saw = <<[NewWorld EXCEPT !.row = "waiting_input", !.dbos = "PENDING"]>>
      <3>1. Start(At(NewWorld, "waiting_input", "PENDING"))
        <4> HIDE DEF Start, At
        <4> QED
          BY <1>2, <2>0, <2>a
      <3> QED
        BY <2>2, <3>1
    <2>3. CASE saw = <<[NewWorld EXCEPT !.row = "failed", !.dbos = "ERROR"]>>
      <3>1. Start(At(NewWorld, "failed", "ERROR"))
        <4> HIDE DEF Start, At
        <4> QED
          BY <1>2, <2>0, <2>a
      <3> QED
        BY <2>3, <3>1
    <2>4. ASSUME NEW file \in TileFiles, NEW p \in BOOLEAN,
                 saw = <<[NewWorld EXCEPT !.row = "succeeded", !.dbos = "PENDING",
                                          !.tiles["pf"] = file, !.posture = p]>>
          PROVE  \E w : saw = <<w>> /\ w \in Worlds /\ w.reopened = 0
                         /\ w.dbos # "SUCCESS" /\ w.sbx = FALSE /\ w.born = {}
      <3>1. Start(Done(NewWorld, file, p))
        <4> HIDE DEF Start, Done
        <4> QED
          BY <1>2, <2>0, <2>4, <2>a
      <3> QED
        BY <2>4, <3>1
    <2> HIDE DEF Start
    <2>5. CASE \E file \in TileFiles, p \in BOOLEAN :
                 saw = <<[NewWorld EXCEPT !.row = "succeeded", !.dbos = "PENDING",
                                          !.tiles["pf"] = file, !.posture = p]>>
      BY <2>4, <2>5
    <2>6. \/ saw = <<NewWorld>>
          \/ saw = <<[NewWorld EXCEPT !.row = "waiting_input", !.dbos = "PENDING"]>>
          \/ saw = <<[NewWorld EXCEPT !.row = "failed", !.dbos = "ERROR"]>>
          \/ \E file \in TileFiles, p \in BOOLEAN :
               saw = <<[NewWorld EXCEPT !.row = "succeeded", !.dbos = "PENDING",
                                        !.tiles["pf"] = file, !.posture = p]>>
      BY DEF ReadInit
    <2> QED
      BY <2>1, <2>2, <2>3, <2>5, <2>6
  <1>4. DOMAIN got = {} /\ DOMAIN shown = {} /\ ~Reading
    <2>1. DOMAIN <<>> = {}
      OBVIOUS
    <2> QED
      BY <1>1, <2>1 DEF Reading
  <1>5. /\ saw \in Seq(Worlds) /\ saw # <<>> /\ Len(saw) = 1 /\ DOMAIN saw = {1}
        /\ saw[1] = w /\ world = w
    BY <1>3 DEF world
  <1>6. ReadTypeOK
    BY <1>1, <1>4, <1>5 DEF ReadTypeOK
  <1>7. FoundInv
    BY <1>4 DEF FoundInv
  <1>8. HeaderInv /\ HeaderShown
    BY <1>1, <1>3, <1>4, <1>5 DEF HeaderInv, HeaderShown
  <1>9. ProofsShown /\ StepsInv /\ StepsShown
    BY <1>4, <1>5 DEF ProofsShown, StepsInv, StepsShown
  <1>10. GateInv /\ GateShown
    <2>1. GatesSeen = {w.gate}
      BY <1>5 DEF GatesSeen
    <2> QED
      BY <1>4, <1>5, <2>1 DEF GateInv, GateShown
  <1>11. ReproInv /\ ReproShown
    BY <1>3, <1>4, <1>5 DEF ReproInv, ReproShown
  <1>12. SignoffInv /\ SignoffShown
    BY <1>4 DEF SignoffInv, SignoffShown
  <1> QED
    BY <1>1, <1>6, <1>7, <1>8, <1>9, <1>10, <1>11, <1>12 DEF ShownWasSo

LEMMA ReadsGoOn ==
  ASSUME ShownWasSo, watch \in Views, [ReadsStep]_readVars
  PROVE  ShownWasSo' /\ watch' \in Views
  <1>1. CASE ReadsStep
    <2>1. ReadTypeOK /\ FoundInv
      BY DEF ShownWasSo
    <2>2. ReadTypeOK' /\ FoundInv' /\ watch' = watch
      BY <1>1, <2>1, StepKeeps
    <2>3. CASE watch = "header"
      <3>1. HeaderInv /\ HeaderShown
        BY <2>3 DEF ShownWasSo
      <3>2. HeaderInv' /\ HeaderShown'
        BY <1>1, <2>1, <2>3, <3>1, HeaderGoesOn, HeaderKept
      <3> QED
        BY <2>2, <2>3, <3>2 DEF ShownWasSo
    <2>4. CASE watch = "proofs"
      <3>1. ProofsShown
        BY <2>4 DEF ShownWasSo
      <3>2. ProofsShown'
        BY <1>1, <2>1, <2>4, <3>1, ProofsKept
      <3> QED
        BY <2>2, <2>4, <3>2 DEF ShownWasSo
    <2>5. CASE watch = "steps"
      <3>1. StepsInv /\ StepsShown
        BY <2>5 DEF ShownWasSo
      <3>2. StepsInv' /\ StepsShown'
        BY <1>1, <2>1, <2>5, <3>1, StepsGrow, StepsKept
      <3> QED
        BY <2>2, <2>5, <3>2 DEF ShownWasSo
    <2>6. CASE watch = "gate"
      <3>1. GateInv /\ GateShown
        BY <2>6 DEF ShownWasSo
      <3>2. GateInv' /\ GateShown'
        BY <1>1, <2>1, <2>6, <3>1, GateGoesOn, GateKept
      <3> QED
        BY <2>2, <2>6, <3>2 DEF ShownWasSo
    <2>7. CASE watch = "repro"
      <3>1. ReproInv /\ ReproShown
        BY <2>7 DEF ShownWasSo
      <3>2. ReproInv' /\ ReproShown'
        BY <1>1, <2>1, <2>7, <3>1, ReproGoesOn, ReproKept
      <3> QED
        BY <2>2, <2>7, <3>2 DEF ShownWasSo
    <2>8. CASE watch = "signoff"
      <3>1. SignoffInv /\ SignoffShown
        BY <2>8 DEF ShownWasSo
      <3>2. SignoffInv' /\ SignoffShown'
        BY <1>1, <2>1, <2>8, <3>1, SignoffGoesOn, SignoffKept
      <3> QED
        BY <2>2, <2>8, <3>2 DEF ShownWasSo
    <2>9. watch \in {"header", "proofs", "steps", "gate", "repro", "signoff"}
      BY DEF Views
    <2> QED
      BY <2>2, <2>3, <2>4, <2>5, <2>6, <2>7, <2>8, <2>9
  <1>2. CASE UNCHANGED readVars
    <2>1. /\ watch' = watch /\ saw' = saw /\ got' = got /\ moves' = moves /\ shown' = shown
          /\ world' = world
      BY <1>2 DEF readVars, world
    <2>2. ReadTypeOK' = ReadTypeOK /\ FoundInv' = FoundInv
      BY <2>1 DEF ReadTypeOK, Reading, FoundInv
    <2>3. (HeaderInv => HeaderInv') /\ (HeaderShown => HeaderShown')
      BY <2>1 DEF HeaderInv, SameRun, HeaderShown, Held, First, Last
    <2>4. ProofsShown => ProofsShown'
      BY <2>1 DEF ProofsShown, Held
    <2>5. (StepsInv => StepsInv') /\ (StepsShown => StepsShown')
      BY <2>1 DEF StepsInv, StepsShown, First, Last
    <2>6. (GateInv => GateInv') /\ (GateShown => GateShown')
      BY <2>1 DEF GateInv, GatesSeen, GateShown, Held
    <2>7. (ReproInv => ReproInv') /\ (ReproShown => ReproShown')
      BY <2>1 DEF ReproInv, RowIds, ReproShown
    <2>8. SignoffInv => SignoffInv'
      BY <2>1 DEF SignoffInv, terminalDivergence
    <2>9. SignoffShown => SignoffShown'
      <3> DEFINE Truly(s) ==
                   IF s.view = "GO"
                   THEN \A x \in AllFacts : \E j \in DOMAIN s.span : ClearIn(s.span[j], x)
                   ELSE \E x \in AllFacts : \E j \in DOMAIN s.span : ~ClearIn(s.span[j], x)
      <3>1. SignoffShown <=> \A i \in DOMAIN shown : Truly(shown[i])
        BY DEF SignoffShown, Held, ClearIn, AllFacts
      <3>2. SignoffShown' <=> \A i \in DOMAIN shown' : Truly(shown'[i])
        BY DEF SignoffShown, Held, ClearIn, AllFacts
      <3> HIDE DEF Truly
      <3> QED
        BY <2>1, <3>1, <3>2
    <2>10. watch \in {"header", "proofs", "steps", "gate", "repro", "signoff"}
      BY DEF Views
    <2>11. CASE watch = "header"
      BY <2>1, <2>2, <2>3, <2>11 DEF ShownWasSo
    <2>12. CASE watch = "proofs"
      BY <2>1, <2>2, <2>4, <2>12 DEF ShownWasSo
    <2>13. CASE watch = "steps"
      BY <2>1, <2>2, <2>5, <2>13 DEF ShownWasSo
    <2>14. CASE watch = "gate"
      BY <2>1, <2>2, <2>6, <2>14 DEF ShownWasSo
    <2>15. CASE watch = "repro"
      BY <2>1, <2>2, <2>7, <2>15 DEF ShownWasSo
    <2>16. CASE watch = "signoff"
      BY <2>1, <2>2, <2>8, <2>9, <2>16 DEF ShownWasSo
    <2> QED
      BY <2>10, <2>11, <2>12, <2>13, <2>14, <2>15, <2>16
  <1> QED
    BY <1>1, <1>2

\* Of any number of moves of the world between the queries of any number of
\* reads: what a view shows was so while it was read (src/server/ui-api.ts,
\* signoff-api.ts and src/lib/repro.ts).
THEOREM Shown == ReadsSpec => []ShownWasSo
  <1>1. ReadInit => ShownWasSo /\ watch \in Views
    BY ReadsBegin
  <1>2. (ShownWasSo /\ watch \in Views) /\ [ReadsStep]_readVars
          => (ShownWasSo /\ watch \in Views)'
    BY ReadsGoOn
  <1> QED
    BY <1>1, <1>2, PTL DEF ReadsSpec
=============================================================================
