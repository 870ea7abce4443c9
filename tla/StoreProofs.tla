----------------------------- MODULE StoreProofs ----------------------------
(***************************************************************************)
(* Proofs that reads never go back and that UserService implements         *)
(* UserStore, with all that clients may rely on there, for any number of   *)
(* requests, any inputs, any size of the pool and any pair of timeouts.    *)
(***************************************************************************)
EXTENDS UserServiceProofs

\* What a statement did fits what its request asked, and what the client was
\* shown is what the statement did.
Effects ==
  \A r \in Requests :
    /\ outcome[r].code \in {"duplicate", "missing", "alive"} => outcome[r].ids = {}
    /\ stmt[r] = "done" =>
         /\ input[r].kind = "list" => outcome[r].code = "found"
         /\ input[r].kind = "get" => outcome[r].code \in {"found", "missing"}
         /\ input[r].kind = "health" <=> outcome[r].code = "alive"
    /\ answer[r].status = 200 => answer[r].ids = outcome[r].ids

\* What a query did, by the kind of its request.
LEMMA Queries ==
  ASSUME TypeOK, NEW r \in Requests, Execute(r), input[r].kind # "create"
  PROVE  /\ rows' = rows
         /\ \/ /\ input[r].kind = "list"
               /\ outcome' = [outcome EXCEPT ![r] = Outcome("found", {u.id : u \in rows})]
            \/ /\ input[r].kind = "get" /\ \E u \in rows : u.id = input[r].id
               /\ outcome' = [outcome EXCEPT ![r] = Outcome("found", {input[r].id})]
            \/ /\ input[r].kind = "get" /\ \A u \in rows : u.id # input[r].id
               /\ outcome' = [outcome EXCEPT ![r] = Outcome("missing", {})]
            \/ /\ input[r].kind = "health"
               /\ outcome' = [outcome EXCEPT ![r] = Outcome("alive", {})]
<1>1. Select(r)
  BY DEF Execute
<1>2. input[r].kind \in {"list", "get", "health"}
  BY DEF TypeOK, Input, Kinds
<1>3. CASE input[r].kind = "list"
  <2>1. Selected(input[r]) = {u.id : u \in rows}
    BY <1>3 DEF Selected
  <2> QED
    BY <1>1, <1>3, <2>1 DEF Select
<1>4. CASE input[r].kind = "get"
  <2>1. CASE \E u \in rows : u.id = input[r].id
    <3>1. Selected(input[r]) = {input[r].id}
      BY <1>4, <2>1 DEF Selected
    <3> QED
      BY <1>1, <1>4, <2>1, <3>1 DEF Select
  <2>2. CASE \A u \in rows : u.id # input[r].id
    <3>1. Selected(input[r]) = {}
      BY <1>4, <2>2 DEF Selected
    <3> QED
      BY <1>1, <1>4, <2>2, <3>1 DEF Select
  <2> QED
    BY <2>1, <2>2
<1>5. CASE input[r].kind = "health"
  BY <1>1, <1>5 DEF Select
<1> QED
  BY <1>1, <1>2, <1>3, <1>4, <1>5 DEF Select

\* A response with status 200 is one of Finish.
LEMMA AnswerStep ==
  ASSUME IInv, [Next]_vars, NEW q \in Requests, answer'[q] # answer[q]
  PROVE  \/ Finish(q)
         \/ answer'[q].status \in {400, 401} /\ (Deny(q) \/ Reject(q))
         \/ /\ answer'[q].status \in {408, 500, 503}
            /\ ConnectFails(q) \/ AcquireTimesOut(q) \/ QueryFails(q) \/ Timeout(q)
<1> USE DEF IInv, TypeOK
<1>1. ASSUME NEW r \in Requests, r # q PROVE ~Task(r)
  BY <1>1 DEF Task, Admit, Deny, Respond, Reject, AskPool, TakeSlot, Connect,
              ConnectFails, AcquireTimesOut, Finish, QueryFails, Timeout
<1>2. ASSUME NEW r \in Requests PROVE ~Environment(r) /\ ~ReturnConnection(r)
  BY DEF Environment, Arrive, Disconnect, Execute, LoseConnection, ReturnConnection
<1>3. ~(Tick \/ Crash \/ DbStops \/ DbStarts \/ UNCHANGED vars)
  BY DEF Tick, Crash, DbStops, DbStarts, vars
<1>4. Task(q)
  BY <1>1, <1>2, <1>3 DEF Next
<1>5. ~(Admit(q) \/ AskPool(q) \/ TakeSlot(q) \/ Connect(q))
  BY DEF Admit, AskPool, TakeSlot, Connect
<1>6. CASE Deny(q)
  BY <1>6, ResponseTypes DEF Deny, Respond, ProblemResponse
<1>7. CASE Reject(q)
  BY <1>7, ResponseTypes DEF Reject, Respond, ProblemResponse
<1>8. ASSUME NEW e \in {ConnectionLost, PoolTimedOut}, Respond(q, DriverError(q, e))
      PROVE  answer'[q].status \in {500, 503}
  BY <1>8, DriverErrors DEF Respond, ProblemResponse
<1>9. CASE ConnectFails(q) \/ QueryFails(q) \/ AcquireTimesOut(q)
  BY <1>8, <1>9 DEF ConnectFails, QueryFails, AcquireTimesOut
<1>10. CASE Timeout(q)
  BY <1>10 DEF Timeout, Respond, BareTimeout
<1> QED
  BY <1>4, <1>5, <1>6, <1>7, <1>9, <1>10 DEF Task

\* Finish shows what the statement did.
LEMMA FinishStep ==
  ASSUME IInv, Effects, NEW r \in Requests, Finish(r)
  PROVE  \/ outcome[r].code = "toolong" /\ answer'[r].status = 500
         \/ /\ outcome[r].code = "inserted"
            /\ answer'[r].status = 201 /\ answer'[r].ids = outcome[r].ids
         \/ /\ outcome[r].code \in {"found", "alive"}
            /\ answer'[r].status = 200 /\ answer'[r].ids = outcome[r].ids
         \/ outcome[r].code = "duplicate" /\ answer'[r].status = 409
         \/ outcome[r].code = "missing" /\ answer'[r].status = 404
<1>1. stmt[r] = "done" /\ answer'[r] = Reply(r)
  BY DEF Finish, Respond, IInv, TypeOK
<1>2. outcome[r].code \in {"inserted", "duplicate", "toolong", "found", "missing", "alive"}
  BY <1>1 DEF IInv, Statements
<1> QED
  BY <1>1, <1>2, Replies DEF Success, ProblemResponse

LEMMA EffectsInit == Init => Effects
BY DEF Init, Effects, NoOutcome, Outcome, NoAnswer

LEMMA EffectsStep ==
  ASSUME IInv, Effects, [Next]_vars PROVE Effects'
<1>1. ASSUME NEW r \in Requests, Execute(r) PROVE Effects'
  <2> USE DEF IInv, TypeOK, Outcome
  <2>1. input' = input /\ answer' = answer /\ stmt' = [stmt EXCEPT ![r] = "done"]
    BY <1>1 DEF Execute
  <2>2. answer[r].status # 200
    <3>1. outcome[r].code = "none"
      BY <1>1 DEF Execute, Statements, NoOutcome
    <3> QED
      BY <3>1 DEF Answers
  <2>3. CASE input[r].kind = "create"
    <3>1. \E code \in {"inserted", "duplicate", "toolong"} :
            outcome' = [outcome EXCEPT ![r] =
                          Outcome(code, IF code = "inserted" THEN {r} ELSE {})]
      BY <1>1, <2>3, Executions
    <3> QED
      BY <2>1, <2>2, <2>3, <3>1 DEF Effects
  <2>4. CASE input[r].kind # "create"
    <3>1. \/ /\ input[r].kind = "list"
             /\ \E S : outcome' = [outcome EXCEPT ![r] = Outcome("found", S)]
          \/ /\ input[r].kind = "get"
             /\ \/ \E S : outcome' = [outcome EXCEPT ![r] = Outcome("found", S)]
                \/ outcome' = [outcome EXCEPT ![r] = Outcome("missing", {})]
          \/ /\ input[r].kind = "health"
             /\ outcome' = [outcome EXCEPT ![r] = Outcome("alive", {})]
      BY <1>1, <2>4, Queries
    <3> QED
      BY <2>1, <2>2, <3>1 DEF Effects
  <2> QED
    BY <2>3, <2>4
<1>2. ASSUME \A r \in Requests : ~Execute(r) PROVE Effects'
  <2>1. UNCHANGED <<input, outcome, rows>>
    BY <1>2, OnlyExecute
  <2>2. \A q \in Requests : stmt'[q] = "done" => stmt[q] = "done"
    BY <1>2 DEF IInv, TypeOK, Next, Task, Environment, vars, Arrive, Admit, Deny, Timeout,
                Disconnect, Tick, Crash, Reject, AskPool, TakeSlot, Connect, ConnectFails,
                AcquireTimesOut, Finish, QueryFails, ReturnConnection, LoseConnection,
                DbStops, DbStarts
  <2>3. \A q \in Requests : answer'[q].status = 200 => answer'[q].ids = outcome[q].ids
    <3>1. SUFFICES ASSUME NEW q \in Requests, answer'[q] # answer[q],
                          answer'[q].status = 200
                   PROVE  answer'[q].ids = outcome[q].ids
      BY DEF Effects
    <3>2. Finish(q)
      BY <3>1, AnswerStep
    <3> QED
      BY <3>1, <3>2, FinishStep
  <2> QED
    BY <2>1, <2>2, <2>3 DEF Effects
<1> QED
  BY <1>1, <1>2

LEMMA EffectsHold == Spec => []Effects
<1>1. IInv /\ Effects /\ [Next]_vars => Effects'
  BY EffectsStep
<1> QED
  BY <1>1, EffectsInit, Inductive, PTL DEF Spec

-----------------------------------------------------------------------------
\* Whatever statements have found and answers have shown is in the table; so it
\* is in what a request reads that knew of it when it arrived.
Ids == {u.id : u \in rows}

Knowledge ==
  \A r \in Requests :
    /\ outcome[r].ids \subseteq Ids
    /\ answer[r].ids \subseteq Ids
    /\ known[r] \subseteq Ids
    /\ input[r].kind = "list" /\ outcome[r].code = "found" => known[r] \subseteq outcome[r].ids
    /\ input[r].kind = "get" /\ outcome[r].code = "missing" => input[r].id \notin known[r]

LEMMA KnowledgeInit == Init => Knowledge
BY DEF Init, Knowledge, NoOutcome, Outcome, NoAnswer

\* The table never loses an id.
LEMMA IdsStay ==
  ASSUME IInv, [Next]_vars PROVE Ids \subseteq Ids'
<1>1. rows \subseteq rows'
  <2>1. ASSUME NEW r \in Requests, Execute(r), input[r].kind = "create" PROVE rows \subseteq rows'
    BY <2>1, Executions DEF IInv
  <2>2. ASSUME NEW r \in Requests, Execute(r), input[r].kind # "create" PROVE rows \subseteq rows'
    BY <2>2, Queries DEF IInv
  <2> QED
    BY <2>1, <2>2, OnlyExecute
<1> QED
  BY <1>1 DEF Ids

\* An answer shows nothing but what its statement has found.
LEMMA OnlyFoundIsShown ==
  ASSUME IInv, Effects, Knowledge, [Next]_vars, NEW q \in Requests
  PROVE  answer'[q].ids \subseteq Ids
<1>1. CASE answer'[q] = answer[q]
  BY <1>1 DEF Knowledge
<1>2. CASE Finish(q)
  <2>1. answer'[q] = Reply(q) /\ stmt[q] = "done"
    BY <1>2 DEF Finish, Respond, IInv, TypeOK
  <2>2. outcome[q].code \in {"inserted", "duplicate", "toolong", "found", "missing", "alive"}
    BY <2>1 DEF IInv, Statements
  <2>3. answer'[q].ids \in {outcome[q].ids, {}}
    BY <2>1, <2>2, Replies DEF Success, ProblemResponse
  <2> QED
    BY <2>3 DEF Knowledge
<1>3. ASSUME Deny(q) \/ Reject(q) PROVE answer'[q].ids = {}
  BY <1>3, ResponseTypes DEF Deny, Reject, Respond, ProblemResponse, IInv, TypeOK
<1>4. ASSUME ConnectFails(q) \/ AcquireTimesOut(q) \/ QueryFails(q) PROVE answer'[q].ids = {}
  <2>1. \A e \in {ConnectionLost, PoolTimedOut} : DriverError(q, e).ids = {}
    BY DriverErrors DEF ProblemResponse
  <2> QED
    BY <1>4, <2>1 DEF ConnectFails, AcquireTimesOut, QueryFails, Respond, IInv, TypeOK
<1>5. ASSUME Timeout(q) PROVE answer'[q].ids = {}
  BY <1>5 DEF Timeout, Respond, BareTimeout, IInv, TypeOK
<1> QED
  BY <1>1, <1>2, <1>3, <1>4, <1>5, AnswerStep

LEMMA KnowledgeStep ==
  ASSUME IInv, Effects, Knowledge, [Next]_vars PROVE Knowledge'
<1> USE DEF IInv, TypeOK
<1>1. \A q \in Requests : answer'[q].ids \subseteq Ids'
  BY IdsStay, OnlyFoundIsShown
<1>2. ASSUME NEW r \in Requests, Execute(r) PROVE Knowledge'
  <2>1. input' = input /\ known' = known
    BY <1>2 DEF Execute
  <2>2. \A q \in Requests : known'[q] \subseteq Ids'
    BY <2>1, IdsStay DEF Knowledge
  <2>3. CASE input[r].kind = "create"
    <3>1. \/ \E code \in {"duplicate", "toolong"} :
                outcome' = [outcome EXCEPT ![r] = Outcome(code, {})]
          \/ /\ outcome' = [outcome EXCEPT ![r] = Outcome("inserted", {r})]
             /\ rows' = rows \cup {RowOf(r)}
      BY <1>2, <2>3, Executions
    <3>2. rows' = rows \cup {RowOf(r)} => r \in Ids'
      <4>1. RowOf(r).id = r
        BY DEF RowOf
      <4> QED
        BY <4>1 DEF Ids
    <3>3. \A q \in Requests : outcome'[q].ids \subseteq Ids'
      BY <3>1, <3>2, IdsStay DEF Knowledge, Outcome
    <3>4. /\ outcome'[r].code \notin {"found", "missing"}
          /\ \A q \in Requests \ {r} : outcome'[q] = outcome[q]
      BY <3>1 DEF Outcome
    <3> QED
      BY <1>1, <2>1, <2>2, <2>3, <3>3, <3>4 DEF Knowledge
  <2>4. CASE input[r].kind = "list"
    <3>1. outcome' = [outcome EXCEPT ![r] = Outcome("found", Ids)]
      BY <1>2, <2>4, Queries DEF Ids
    <3>2. \A q \in Requests : outcome'[q].ids \subseteq Ids'
      BY <3>1, IdsStay DEF Knowledge, Outcome
    <3> QED
      BY <1>1, <2>1, <2>2, <2>4, <3>1, <3>2 DEF Knowledge, Outcome
  <2>5. CASE input[r].kind = "get"
    <3>1. CASE input[r].id \notin Ids /\ outcome' = [outcome EXCEPT ![r] = Outcome("missing", {})]
      <4>1. input[r].id \notin known[r]
        BY <3>1 DEF Knowledge
      <4>2. \A q \in Requests : outcome'[q].ids \subseteq Ids'
        BY <3>1, IdsStay DEF Knowledge, Outcome
      <4> QED
        BY <1>1, <2>1, <2>2, <2>5, <3>1, <4>1, <4>2 DEF Knowledge, Outcome
    <3>2. CASE /\ input[r].id \in Ids
               /\ outcome' = [outcome EXCEPT ![r] = Outcome("found", {input[r].id})]
      <4>1. \A q \in Requests : outcome'[q].ids \subseteq Ids'
        BY <3>2, IdsStay DEF Knowledge, Outcome
      <4> QED
        BY <1>1, <2>1, <2>2, <2>5, <3>2, <4>1 DEF Knowledge, Outcome
    <3> QED
      BY <1>2, <2>5, <3>1, <3>2, Queries DEF Ids
  <2>6. CASE input[r].kind = "health"
    <3>1. outcome' = [outcome EXCEPT ![r] = Outcome("alive", {})]
      BY <1>2, <2>6, Queries
    <3>2. \A q \in Requests : outcome'[q].ids \subseteq Ids'
      BY <3>1, IdsStay DEF Knowledge, Outcome
    <3> QED
      BY <1>1, <2>1, <2>2, <2>6, <3>1, <3>2 DEF Knowledge, Outcome
  <2> QED
    BY <2>3, <2>4, <2>5, <2>6 DEF Input, Kinds
<1>3. ASSUME \A r \in Requests : ~Execute(r) PROVE Knowledge'
  <2>1. UNCHANGED <<input, outcome, rows>>
    BY <1>3, OnlyExecute
  <2>2. ASSUME NEW r \in Requests, Arrive(r) PROVE Knowledge'
    <3>1. outcome[r].code = "none"
      BY <2>2 DEF Arrive, Stages, Statements, NoOutcome, Outcome
    <3>2. known' = [known EXCEPT ![r] = Shown] /\ Shown \subseteq Ids
      BY <2>2 DEF Arrive, Shown, Knowledge
    <3> QED
      BY <1>1, <2>1, <3>1, <3>2 DEF Knowledge, Ids
  <2>3. ASSUME \A r \in Requests : ~Arrive(r) PROVE known' = known
    BY <1>3, <2>3
       DEF Next, Task, Environment, vars, Admit, Deny, Timeout, Disconnect, Tick, Crash,
           Reject, AskPool, TakeSlot, Connect, ConnectFails, AcquireTimesOut, Finish,
           QueryFails, ReturnConnection, LoseConnection, DbStops, DbStarts
  <2>4. CASE known' = known
    BY <1>1, <2>1, <2>4 DEF Knowledge, Ids
  <2> QED
    BY <2>2, <2>3, <2>4
<1> QED
  BY <1>2, <1>3

LEMMA KnowledgeHolds == Spec => []Knowledge
<1>1. IInv /\ Effects /\ Knowledge /\ [Next]_vars => Knowledge'
  BY KnowledgeStep
<1> QED
  BY <1>1, KnowledgeInit, EffectsHold, Inductive, PTL DEF Spec

\* Users that anybody was shown before a request arrived are there in its answer.
THEOREM ReadsAreMonotonic == Spec => []ReadsNeverGoBack
<1>1. IInv /\ Effects /\ Knowledge => ReadsNeverGoBack
  <2> SUFFICES ASSUME IInv, Effects, Knowledge, NEW r \in Requests
               PROVE  /\ input[r].kind = "list" /\ answer[r].status = 200
                           => known[r] \subseteq answer[r].ids
                      /\ input[r].kind = "get" /\ input[r].id \in known[r]
                           => answer[r].status # 404
    BY DEF ReadsNeverGoBack
  <2>1. ASSUME input[r].kind = "list", answer[r].status = 200
        PROVE  known[r] \subseteq answer[r].ids
    <3>1. outcome[r].code \in {"found", "alive"}
      BY <2>1 DEF IInv, Answers
    <3>2. outcome[r].code = "found"
      BY <2>1, <3>1 DEF IInv, Statements, Effects, NoOutcome, Outcome
    <3> QED
      BY <2>1, <3>2 DEF Effects, Knowledge
  <2>2. ASSUME input[r].kind = "get", input[r].id \in known[r]
        PROVE  answer[r].status # 404
    BY <2>2 DEF IInv, Answers, Knowledge
  <2> QED
    BY <2>1, <2>2
<1> QED
  BY <1>1, KnowledgeHolds, EffectsHold, Inductive, PTL

-----------------------------------------------------------------------------
\* The variables of the store, as ImplementsStore maps them.
Made == {r \in Requests : phase[r] # "idle"}
Reports == [r \in Requests |-> Told(r)]
Users == {[id |-> u.id, email |-> u.email] : u \in rows}

\* What a client knows depends on its request's input and answer, and on
\* whether it is gone.
LEMMA ToldNothing ==
  ASSUME IInv, NEW r \in Requests, phase[r] \notin {"answered", "gone"}
  PROVE  Told(r) = Store!Nothing
BY DEF IInv, Stages, Told, NoAnswer, NoOutcome, Outcome, Store!Nothing

LEMMA ToldLater ==
  ASSUME IInv', NEW r \in Requests, phase'[r] \notin {"answered", "gone"}
  PROVE  Told(r)' = Store!Nothing
BY DEF IInv, Stages, Told, NoAnswer, NoOutcome, Outcome, Store!Nothing

LEMMA ToldSame ==
  ASSUME NEW r \in Requests, input' = input, answer'[r] = answer[r],
         phase'[r] = "gone" <=> phase[r] = "gone"
  PROVE  Told(r)' = Told(r)
<1>1. CASE phase[r] = "gone"
  BY <1>1 DEF Told
<1>2. CASE phase[r] # "gone"
  BY <1>2 DEF Told
<1> QED
  BY <1>1, <1>2

\* The tasks and the pool, as long as nobody is told anything.
LEMMA Silent ==
  ASSUME IInv, UNCHANGED <<input, outcome, answer, rows>>,
         \A q \in Requests : /\ phase'[q] = "idle" <=> phase[q] = "idle"
                             /\ phase'[q] = "gone" <=> phase[q] = "gone"
  PROVE  UNCHANGED <<input, Made, outcome, Reports, Users>>
<1>1. \A q \in Requests : Told(q)' = Told(q)
  BY ToldSame
<1> QED
  BY <1>1 DEF Made, Reports, Users

\* A step that ends the task of r tells its client something, and nobody else.
LEMMA Ends ==
  ASSUME IInv, UNCHANGED <<input, outcome, rows>>, NEW r \in Requests,
         phase[r] \in Active, phase'[r] \in {"answered", "gone"},
         \A q \in Requests \ {r} : phase'[q] = phase[q] /\ answer'[q] = answer[q]
  PROVE  /\ Made' = Made /\ r \in Made /\ Users' = Users
         /\ Reports[r] = Store!Nothing
         /\ Reports' = [Reports EXCEPT ![r] = Told(r)']
<1>1. Told(r) = Store!Nothing
  BY ToldNothing DEF Active
<1>2. \A q \in Requests \ {r} : Told(q)' = Told(q)
  BY ToldSame
<1> QED
  BY <1>1, <1>2 DEF Made, Reports, Users, Active

\* ... in the dark,
LEMMA Darkness ==
  ASSUME IInv, UNCHANGED <<input, outcome, rows>>, NEW r \in Requests,
         phase[r] \in Active, phase'[r] \in {"answered", "gone"},
         \A q \in Requests \ {r} : phase'[q] = phase[q] /\ answer'[q] = answer[q],
         phase'[r] = "gone" \/ answer'[r].status \in {408, 500, 503}
  PROVE  Store!GiveUp({r})
<1>1. Told(r)' = Store!Dark
  BY DEF Told, Store!Dark, Store!Effect
<1>2. /\ Made' = Made /\ r \in Made /\ Users' = Users
      /\ Reports[r] = Store!Nothing
      /\ Reports' = [Reports EXCEPT ![r] = Told(r)']
  BY Ends
<1>3. Reports' = [c \in Requests |-> IF c \in {r} THEN Store!Dark ELSE Reports[c]]
  BY <1>1, <1>2 DEF Reports
<1> QED
  BY <1>2, <1>3 DEF Store!GiveUp, Made, Reports, Users

\* ... or of a refusal.
LEMMA Refusal ==
  ASSUME IInv, UNCHANGED <<input, outcome, rows>>, NEW r \in Requests,
         phase[r] \in {"gate", "handler"}, phase'[r] = "answered",
         \A q \in Requests \ {r} : phase'[q] = phase[q] /\ answer'[q] = answer[q],
         answer'[r].status \in {400, 401}
  PROVE  Store!Refuse(r)
<1>1. Told(r)' = Store!Refused
  BY DEF Told, Store!Refused, Store!Effect
<1>2. /\ Made' = Made /\ r \in Made /\ Users' = Users
      /\ Reports[r] = Store!Nothing
      /\ Reports' = [Reports EXCEPT ![r] = Told(r)']
  BY Ends DEF Active
<1>3. outcome[r] = Store!Nothing
  BY DEF IInv, Stages, Statements, NoOutcome, Outcome, Store!Nothing
<1> QED
  BY <1>1, <1>2, <1>3 DEF Store!Refuse, Made, Reports, Users

\* An answer that comes from the statement shows its effect, unless it is a 500.
LEMMA Information ==
  ASSUME IInv, Effects, NEW r \in Requests, Finish(r)
  PROVE  Store!Inform(r) \/ Store!GiveUp({r})
<1> USE DEF IInv, TypeOK
<1>1. /\ UNCHANGED <<input, outcome, rows>>
      /\ phase[r] \in Active /\ phase'[r] = "answered"
      /\ \A q \in Requests \ {r} : phase'[q] = phase[q] /\ answer'[q] = answer[q]
      /\ stmt[r] = "done"
  BY DEF Finish, Respond, Running, Active, Phases
<1>2. CASE answer'[r].status = 500
  BY <1>1, <1>2, Darkness
<1>3. CASE answer'[r].status # 500
  <2>1. /\ Made' = Made /\ r \in Made /\ Users' = Users
        /\ Reports[r] = Store!Nothing
        /\ Reports' = [Reports EXCEPT ![r] = Told(r)']
    BY <1>1, Ends
  <2>2. outcome[r].code \notin {"none", "toolong"}
    <3>1. outcome[r].code \in {"inserted", "duplicate", "found", "missing", "alive"}
      BY <1>3, FinishStep
    <3> QED
      BY <3>1
  <2>3. Told(r)' = outcome[r]
    <3>1. outcome[r] = Outcome(outcome[r].code, outcome[r].ids)
      BY DEF Outcome
    <3>2. CASE outcome[r].code \in {"found", "alive"}
      <4>1. answer'[r].status = 200 /\ answer'[r].ids = outcome[r].ids
        BY <3>2, FinishStep
      <4>2. input[r].kind = "health" <=> outcome[r].code = "alive"
        BY <1>1 DEF Effects
      <4> QED
        BY <1>1, <3>1, <3>2, <4>1, <4>2 DEF Told, Outcome
    <3>3. CASE outcome[r].code \in {"duplicate", "missing"}
      <4>1. /\ outcome[r].ids = {}
            /\ answer'[r].status = IF outcome[r].code = "duplicate" THEN 409 ELSE 404
        BY <3>3, FinishStep DEF Effects
      <4> QED
        BY <1>1, <3>1, <3>3, <4>1 DEF Told, Outcome
    <3>4. CASE outcome[r].code = "inserted"
      <4>1. answer'[r].status = 201 /\ answer'[r].ids = outcome[r].ids
        BY <3>4, FinishStep
      <4> QED
        BY <1>1, <3>1, <3>4, <4>1 DEF Told, Outcome
    <3> QED
      BY <1>3, <3>2, <3>3, <3>4, FinishStep
  <2> QED
    BY <1>1, <2>1, <2>2, <2>3 DEF Store!Inform, Made, Reports, Users
<1> QED
  BY <1>2, <1>3

\* The users of the store are the rows of the table, seen from outside.
LEMMA Views ==
  /\ \A u \in rows : \E v \in Users : v.id = u.id /\ v.email = u.email
  /\ \A v \in Users : \E u \in rows : v.id = u.id /\ v.email = u.email
<1>1. ASSUME NEW u \in rows PROVE \E v \in Users : v.id = u.id /\ v.email = u.email
  <2>1. [id |-> u.id, email |-> u.email] \in Users
    BY DEF Users
  <2> QED
    BY <2>1
<1>2. ASSUME NEW v \in Users PROVE \E u \in rows : v.id = u.id /\ v.email = u.email
  <2>1. PICK u \in rows : v = [id |-> u.id, email |-> u.email]
    BY DEF Users
  <2> QED
    BY <2>1
<1> QED
  BY <1>1, <1>2

LEMMA ViewOfNewRow ==
  ASSUME NEW u, rows' = rows \cup {u}
  PROVE  Users' = Users \cup {[id |-> u.id, email |-> u.email]}
<1>1. Users' = {[id |-> v.id, email |-> v.email] : v \in rows \cup {u}}
  BY DEF Users
<1>2. ASSUME NEW x PROVE x \in Users' <=> x \in Users \cup {[id |-> u.id, email |-> u.email]}
  BY <1>1 DEF Users
<1> QED
  BY <1>2

\* A statement that the server executes is the effect of its call, whether or
\* not its client still waits.
LEMMA Execution ==
  ASSUME IInv, NEW r \in Requests, Execute(r)
  PROVE  Store!TakeEffect(r)
<1> USE DEF IInv, TypeOK
<1>1. UNCHANGED <<phase, input, answer>> /\ stmt[r] \in {"sent", "orphan"}
  BY DEF Execute
<1>2. r \in Made /\ outcome[r] = Store!Nothing
  BY <1>1 DEF Stages, Statements, Made, NoOutcome, Outcome, Store!Nothing
<1>3. Reports[r] \in {Store!Nothing, Store!Dark}
  <2>1. answer[r].status \notin {200, 201, 400, 401, 404, 409}
    BY <1>1, <1>2 DEF Answers, Store!Nothing
  <2>2. Told(r) \in {Store!Nothing, Store!Dark}
    BY <2>1 DEF Told, NoOutcome, Outcome, Store!Nothing, Store!Dark, Store!Effect
  <2> QED
    BY <2>2 DEF Reports
<1>4. Made' = Made /\ Reports' = Reports
  <2>1. \A q \in Requests : Told(q)' = Told(q)
    BY <1>1, ToldSame
  <2> QED
    BY <1>1, <2>1 DEF Made, Reports
<1>5. CASE input[r].kind = "create"
  <2>1. (\A u \in rows : u.email # input[r].email)
          <=> (\A u \in Users : u.email # input[r].email)
    BY Views
  <2>2. rows' = rows => Users' = Users
    BY DEF Users
  <2>3. rows' = rows \cup {RowOf(r)} => Users' = Users \cup {[id |-> r, email |-> input[r].email]}
    <3>1. RowOf(r).id = r /\ RowOf(r).email = input[r].email
      BY DEF RowOf
    <3> QED
      BY <3>1, ViewOfNewRow
  <2>4. Store!Create(r)
    BY <1>5, <2>1, <2>2, <2>3, Executions DEF Store!Create, Store!Effect, Outcome, Users
  <2> QED
    BY <1>1, <1>2, <1>3, <1>4, <1>5, <2>4 DEF Store!TakeEffect, Made, Reports
<1>6. CASE input[r].kind # "create"
  <2>1. Store!Ids = {u.id : u \in rows}
    <3>1. Store!Ids = {v.id : v \in Users}
      BY DEF Store!Ids, Users
    <3>2. ASSUME NEW x PROVE x \in {v.id : v \in Users} <=> x \in {u.id : u \in rows}
      BY Views
    <3> QED
      BY <3>1, <3>2, Zenon
  <2>2. rows' = rows => Users' = Users
    BY DEF Users
  <2>3. Store!Query(r)
    BY <1>6, <2>1, <2>2, Queries DEF Store!Query, Store!Effect, Outcome, Users
  <2> QED
    BY <1>1, <1>2, <1>3, <1>4, <1>6, <2>3 DEF Store!TakeEffect, Made, Reports
<1> QED
  BY <1>5, <1>6

\* A request that arrives is a call that is made.
LEMMA Call ==
  ASSUME IInv, IInv', NEW r \in Requests, Arrive(r)
  PROVE  Store!Make(r)
<1> USE DEF IInv, TypeOK
<1>1. UNCHANGED <<input, outcome, answer, rows>>
  BY DEF Arrive
<1>2. phase[r] = "idle" /\ phase'[r] \in {"gate", "handler"}
      /\ \A q \in Requests \ {r} : phase'[q] = phase[q]
  BY DEF Arrive
<1>3. r \notin Made /\ Made' = Made \cup {r}
  BY <1>2 DEF Made
<1>4. Reports' = Reports
  <2>1. \A q \in Requests : Told(q)' = Told(q)
    BY <1>1, <1>2, ToldSame
  <2> QED
    BY <2>1 DEF Reports
<1> QED
  BY <1>1, <1>3, <1>4 DEF Store!Make, Made, Reports, Users

\* A crash leaves every client that was waiting in the dark.
LEMMA CrashInTheDark ==
  ASSUME IInv, Crash
  PROVE  Store!GiveUp({r \in Requests : phase[r] \in Active})
<1> USE DEF IInv, TypeOK
<1> DEFINE C == {r \in Requests : phase[r] \in Active}
<1>1. /\ UNCHANGED <<input, outcome, answer, rows>>
      /\ \A r \in Requests : phase'[r] = IF phase[r] \in Active THEN "gone" ELSE phase[r]
  BY DEF Crash
<1>2. \A r \in C : r \in Made /\ Reports[r] = Store!Nothing
  BY ToldNothing DEF Made, Reports, Active
<1>3. ASSUME NEW r \in Requests
      PROVE  Told(r)' = IF r \in C THEN Store!Dark ELSE Told(r)
  <2>1. CASE r \in C
    BY <1>1, <2>1 DEF Told, Store!Dark, Store!Effect
  <2>2. CASE r \notin C
    BY <1>1, <2>2, ToldSame
  <2> QED
    BY <2>1, <2>2
<1>4. Made' = Made
  BY <1>1 DEF Made, Active
<1>5. Reports' = [c \in Requests |-> IF c \in C THEN Store!Dark ELSE Reports[c]]
  BY <1>3 DEF Reports
<1> HIDE DEF C
<1> QED
  BY <1>1, <1>2, <1>4, <1>5 DEF Store!GiveUp, Made, Reports, Users, C

-----------------------------------------------------------------------------
LEMMA StoreInitially == Init => Store!StoreInit
<1> SUFFICES ASSUME Init PROVE Store!StoreInit
  OBVIOUS
<1>1. IInv
  BY InitIInv
<1>2. \A r \in Requests : Told(r) = Store!Nothing
  BY <1>1, ToldNothing DEF Init
<1>3. Made = {} /\ Users = {} /\ Reports = [r \in Requests |-> Store!Nothing]
  BY <1>2 DEF Init, Made, Users, Reports
<1> QED
  BY <1>3 DEF Init, Store!StoreInit, Store!Nothing, NoOutcome, Outcome, Made, Users, Reports

LEMMA DriverStatus ==
  ASSUME NEW r \in Requests, NEW e \in {ConnectionLost, PoolTimedOut}
  PROVE  DriverError(r, e).status \in {500, 503}
BY DriverErrors DEF ProblemResponse

\* Every step of the service is one of the store, or nothing that it can tell.
LEMMA StoreStep ==
  ASSUME IInv, IInv', Effects, [Next]_vars
  PROVE  Store!StoreNext \/ UNCHANGED Store!storeVars
<1> USE DEF IInv, TypeOK
<1> DEFINE Stutter == UNCHANGED <<input, Made, outcome, Reports, Users>>
<1>1. ASSUME NEW r \in Requests, Arrive(r) PROVE Store!Make(r)
  BY <1>1, Call
<1>2. ASSUME NEW r \in Requests, Execute(r) PROVE Store!TakeEffect(r)
  BY <1>2, Execution
<1>3. ASSUME NEW r \in Requests, Finish(r) PROVE Store!Inform(r) \/ Store!GiveUp({r})
  BY <1>3, Information
<1>4. ASSUME NEW r \in Requests, Deny(r) \/ Reject(r) PROVE Store!Refuse(r)
  <2>1. answer'[r].status \in {400, 401}
    BY <1>4, ResponseTypes DEF Deny, Reject, Respond, ProblemResponse
  <2> QED
    BY <1>4, <2>1, Refusal DEF Deny, Reject, Respond
<1>5. ASSUME NEW r \in Requests,
             ConnectFails(r) \/ AcquireTimesOut(r) \/ QueryFails(r) \/ Timeout(r)
      PROVE  Store!GiveUp({r})
  <2>1. ASSUME NEW e \in {ConnectionLost, PoolTimedOut}
        PROVE  DriverError(r, e).status \in {500, 503}
    BY DriverStatus
  <2>2. answer'[r].status \in {408, 500, 503}
    BY <1>5, <2>1
       DEF ConnectFails, AcquireTimesOut, QueryFails, Timeout, Respond, BareTimeout
  <2> QED
    BY <1>5, <2>2, Darkness
       DEF ConnectFails, AcquireTimesOut, QueryFails, Timeout, Respond, Running, Covered,
           Active
<1>6. ASSUME NEW r \in Requests, Disconnect(r) PROVE Store!GiveUp({r})
  BY <1>6, Darkness DEF Disconnect
<1>7. CASE Crash
  BY <1>7, CrashInTheDark DEF Store!StoreNext
<1>8. ASSUME NEW r \in Requests,
             Admit(r) \/ AskPool(r) \/ TakeSlot(r) \/ Connect(r) \/ LoseConnection(r)
               \/ ReturnConnection(r)
      PROVE  Stutter
  BY <1>8, Silent DEF Admit, AskPool, TakeSlot, Connect, LoseConnection, ReturnConnection,
                      Running
<1>9. ASSUME Tick \/ DbStops \/ DbStarts \/ UNCHANGED vars PROVE Stutter
  BY <1>9, Silent DEF Tick, DbStops, DbStarts, vars
<1>10. Stutter => UNCHANGED Store!storeVars
  BY DEF Store!storeVars, Made, Reports, Users
<1>11. ASSUME NEW r \in Requests
       PROVE  /\ Store!Make(r) \/ Store!TakeEffect(r) \/ Store!Inform(r) \/ Store!Refuse(r)
                  => Store!StoreNext
              /\ Store!GiveUp({r}) => Store!StoreNext
  BY DEF Store!StoreNext
<1> QED
  BY <1>1, <1>2, <1>3, <1>4, <1>5, <1>6, <1>7, <1>8, <1>9, <1>10, <1>11
     DEF Next, Task, Environment

\* The service keeps the promise to its clients: every behaviour of it, whatever
\* fails, is one of the store.
THEOREM StoreIsImplemented == Spec => ImplementsStore
<1>1. IInv /\ IInv' /\ Effects /\ [Next]_vars => [Store!StoreNext]_Store!storeVars
  BY StoreStep
<1> QED
  BY <1>1, StoreInitially, Inductive, EffectsHold, PTL
     DEF Spec, ImplementsStore, Store!StoreSpec

\* The store of the service is the one that UserStoreProofs is about, ...
Facts == INSTANCE UserStoreProofs WITH
  Calls <- Requests, Asks <- Inputs, made <- Made, effect <- outcome,
  reply <- Reports, users <- Users

LEMMA SameStore == ImplementsStore => Facts!StoreSpec
<1>1. Store!StoreInit => Facts!StoreInit
  BY DEF Store!StoreInit, Facts!StoreInit, Store!Nothing, Facts!Nothing, Made, Reports, Users
<1>2. [Store!StoreNext]_Store!storeVars => [Facts!StoreNext]_Facts!storeVars
  BY DEF Store!StoreNext, Facts!StoreNext, Store!storeVars, Facts!storeVars,
         Store!Make, Facts!Make, Store!TakeEffect, Facts!TakeEffect,
         Store!Create, Facts!Create, Store!Query, Facts!Query, Store!Ids, Facts!Ids,
         Store!Inform, Facts!Inform, Store!GiveUp, Facts!GiveUp,
         Store!Refuse, Facts!Refuse, Store!Nothing, Facts!Nothing, Store!Dark, Facts!Dark,
         Store!Refused, Facts!Refused, Store!Effect, Facts!Effect, Made, Reports, Users
<1> QED
  BY <1>1, <1>2, PTL DEF ImplementsStore, Store!StoreSpec, Facts!StoreSpec

\* ... so that clients of the service can rely on what it promises, and nothing
\* of it is taken back.
THEOREM PromiseIsKept == Spec => []Facts!Promise /\ Facts!EffectsLast
BY StoreIsImplemented, SameStore, Facts!StoreKeepsPromise, Facts!StoreEffectsLast, PTL
=============================================================================
