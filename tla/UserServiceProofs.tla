-------------------------- MODULE UserServiceProofs -------------------------
(***************************************************************************)
(* Proofs about UserService for any number of requests, any inputs, any    *)
(* size of the pool and any pair of timeouts.                              *)
(***************************************************************************)
EXTENDS UserService, FiniteSetTheorems, TLAPS

\* How far a request has come and what it holds: a statement is sent on a
\* connection, after the checks; a task that is over holds no bare slot.
Stages ==
  \A r \in Requests :
    /\ phase[r] \in {"idle", "gate", "handler", "queued"} => conn[r] = "none"
    /\ phase[r] \in {"idle", "gate", "handler", "queued", "connecting"}
         => stmt[r] = "none"
    /\ phase[r] = "connecting" => conn[r] = "slot"
    /\ phase[r] = "querying" => conn[r] \in {"open", "lost"}
    /\ phase[r] \in {"answered", "gone"} => conn[r] # "slot"
    /\ phase[r] \in {"queued", "connecting", "querying"} => Acceptable(input[r])
    /\ phase[r] # "answered" => answer[r] = NoAnswer

\* A statement is one of an accepted request, and has an outcome of its kind
\* when it is done, and only then.
Statements ==
  \A r \in Requests :
    /\ stmt[r] # "none" => Acceptable(input[r])
    /\ stmt[r] # "done" => outcome[r] = NoOutcome
    /\ stmt[r] = "done" /\ input[r].kind = "create"
         => outcome[r].code \in {"inserted", "duplicate", "toolong"}
    /\ stmt[r] = "done" /\ input[r].kind # "create"
         => outcome[r].code \in {"found", "missing", "alive"}

\* The table holds exactly the rows of the creates that inserted one, one per
\* e-mail and none too long, and a duplicate was one of a row that is still there.
RowOf(r) == [id |-> r, name |-> Trim[input[r].name], email |-> input[r].email]
Fits(u) == {u.name, u.email} \cap TooLong = {}

Table ==
  /\ \A u \in rows : /\ u = RowOf(u.id)
                     /\ outcome[u.id].code = "inserted"
                     /\ Fits(u)
  /\ \A u, v \in rows : u.email = v.email => u = v
  /\ \A r \in Requests :
       outcome[r].code = "inserted" => RowOf(r) \in rows /\ outcome[r].ids = {r}
  /\ \A r \in Requests :
       outcome[r].code = "duplicate" =>
         \E u \in rows : u.id # r /\ u.email = input[r].email

\* A definite answer says what the statement did; a refusal, that there is none.
Answers ==
  \A r \in Requests :
    /\ answer[r].status \in {400, 401} => stmt[r] = "none"
    /\ answer[r].status = 201 =>
         outcome[r].code = "inserted" /\ answer[r].ids = outcome[r].ids
    /\ answer[r].status = 200 => outcome[r].code \in {"found", "alive"}
    /\ answer[r].status = 404 => outcome[r].code = "missing"
    /\ answer[r].status = 409 => outcome[r].code = "duplicate"
    /\ answer[r].status = 503 => input[r].kind = "health"

IInv == TypeOK /\ Stages /\ Statements /\ Table /\ Answers

-----------------------------------------------------------------------------
\* The responses the handlers can give, as far as the invariants tell apart.
LEMMA ResponseTypes ==
  /\ Failure(AppError("Unauthorized")) = ProblemResponse(401)
  /\ Failure(Rejection) = ProblemResponse(400)
  /\ Failure(AppError("NotFound")) = ProblemResponse(404)
  /\ Failure(AppError("ServiceUnavailable")) = ProblemResponse(503)
  /\ Failure(DatabaseError(DuplicateKey)) = ProblemResponse(409)
  /\ Failure(DatabaseError(ValueTooLong)) = ProblemResponse(500)
  /\ Failure(DatabaseError(ConnectionLost)) = ProblemResponse(500)
  /\ Failure(DatabaseError(PoolTimedOut)) = ProblemResponse(500)
<1>1. Failure(AppError("Unauthorized")) = ProblemResponse(401)
  BY DEF Failure, AppError, StatusOf, ProblemDetails, TypeUri
<1>2. Failure(Rejection) = ProblemResponse(400)
  BY DEF Failure, Rejection, AppError, StatusOf, ProblemDetails, TypeUri
<1>3. Failure(AppError("NotFound")) = ProblemResponse(404)
  BY DEF Failure, AppError, StatusOf, ProblemDetails, TypeUri
<1>4. Failure(AppError("ServiceUnavailable")) = ProblemResponse(503)
  BY DEF Failure, AppError, StatusOf, ProblemDetails, TypeUri
<1>5. /\ IsUniqueViolation(DuplicateKey)
      /\ ~IsUniqueViolation(ValueTooLong)
      /\ ~IsUniqueViolation(ConnectionLost)
      /\ ~IsUniqueViolation(PoolTimedOut)
  BY DEF IsUniqueViolation, DuplicateKey, ValueTooLong, ConnectionLost,
         PoolTimedOut, SqlxError
<1>6. /\ DatabaseError(DuplicateKey).status = 409
      /\ DatabaseError(ValueTooLong).status = 500
      /\ DatabaseError(ConnectionLost).status = 500
      /\ DatabaseError(PoolTimedOut).status = 500
  BY <1>5 DEF DatabaseError, InternalError, ProblemDetails
<1> QED
  BY <1>1, <1>2, <1>3, <1>4, <1>6 DEF Failure

\* A driver error is a 500, or a 503 for a health check: never a conflict.
LEMMA DriverErrors ==
  ASSUME NEW r \in Requests, NEW e \in {ConnectionLost, PoolTimedOut}
  PROVE  \/ input[r].kind = "health" /\ DriverError(r, e) = ProblemResponse(503)
         \/ DriverError(r, e) = ProblemResponse(500)
<1>1. CASE e = ConnectionLost
  BY <1>1, ResponseTypes DEF DriverError
<1>2. CASE e = PoolTimedOut
  BY <1>2, ResponseTypes DEF DriverError
<1> QED
  BY <1>1, <1>2

\* What a handler answers to the statement's result.
LEMMA Replies ==
  ASSUME NEW r \in Requests
  PROVE  /\ outcome[r].code = "inserted" => Reply(r) = Success(201, outcome[r].ids)
         /\ outcome[r].code = "duplicate" => Reply(r) = ProblemResponse(409)
         /\ outcome[r].code = "toolong" => Reply(r) = ProblemResponse(500)
         /\ outcome[r].code \in {"found", "alive"}
              => Reply(r) = Success(200, outcome[r].ids)
         /\ outcome[r].code = "missing" => Reply(r) = ProblemResponse(404)
BY ResponseTypes DEF Reply

-----------------------------------------------------------------------------
LEMMA InitIInv == Init => IInv
<1> SUFFICES ASSUME Init PROVE IInv
  OBVIOUS
<1>1. TypeOK
  BY ServiceAssumption
     DEF Init, TypeOK, Phases, Slots, NoOutcome, Outcome, Codes, NoAnswer, Responses
<1>2. Stages /\ Statements /\ Table /\ Answers
  BY DEF Init, Stages, Statements, Table, Answers, NoOutcome, Outcome, NoAnswer
<1> QED
  BY <1>1, <1>2 DEF IInv

\* The table, and what the statements did, change when one is executed.
LEMMA OnlyExecute ==
  ASSUME [Next]_vars
  PROVE  \/ UNCHANGED <<input, outcome, rows>>
         \/ \E r \in Requests : Execute(r)
BY DEF Next, Task, Environment, vars, Arrive, Admit, Deny, Timeout, Disconnect, Tick,
       Crash, Reject, AskPool, TakeSlot, Connect, ConnectFails, AcquireTimesOut, Finish,
       QueryFails, ReturnConnection, LoseConnection, DbStops, DbStarts

\* An execution is an insertion, a failed insertion or a query.
LEMMA Executions ==
  ASSUME TypeOK, NEW r \in Requests, Execute(r)
  PROVE  \/ /\ input[r].kind = "create"
            /\ outcome' = [outcome EXCEPT ![r] = Outcome("inserted", {r})]
            /\ rows' = rows \cup {RowOf(r)}
            /\ \A u \in rows : u.email # input[r].email
            /\ Fits(RowOf(r))
         \/ /\ input[r].kind = "create"
            /\ outcome' = [outcome EXCEPT ![r] = Outcome("duplicate", {})]
            /\ rows' = rows
            /\ \E u \in rows : u.email = input[r].email
         \/ /\ input[r].kind = "create"
            /\ outcome' = [outcome EXCEPT ![r] = Outcome("toolong", {})]
            /\ rows' = rows
         \/ /\ input[r].kind # "create"
            /\ rows' = rows
            /\ \E code \in {"found", "missing", "alive"}, ids \in SUBSET Requests :
                 outcome' = [outcome EXCEPT ![r] = Outcome(code, ids)]
<1>1. CASE input[r].kind = "create"
  BY <1>1 DEF Execute, Insert, Free, RowOf, Fits
<1>2. CASE input[r].kind # "create"
  <2>1. Selected(input[r]) \in SUBSET Requests
    BY DEF Selected, TypeOK, Row
  <2> QED
    BY <1>2, <2>1 DEF Execute, Select
<1> QED
  BY <1>1, <1>2

-----------------------------------------------------------------------------
\* A response of the right shape keeps the types of the two variables it sets.
LEMMA RespondType ==
  ASSUME TypeOK, NEW r \in Requests, NEW x \in Responses, Respond(r, x)
  PROVE  phase' \in [Requests -> Phases] /\ answer' \in [Requests -> Responses]
BY DEF TypeOK, Respond, Phases

LEMMA Shapes ==
  /\ \A c \in {400, 401, 404, 409, 500, 503} : ProblemResponse(c) \in Responses
  /\ \A c \in {200, 201}, S \in SUBSET Requests : Success(c, S) \in Responses
  /\ BareTimeout \in Responses
BY DEF Success, ProblemResponse, BareTimeout, Responses

LEMMA RefusalType ==
  Failure(AppError("Unauthorized")) \in Responses /\ Failure(Rejection) \in Responses
<1>1. ProblemResponse(401) \in Responses /\ ProblemResponse(400) \in Responses
  BY Shapes
<1> QED
  BY <1>1, ResponseTypes

LEMMA DriverErrorType ==
  ASSUME NEW r \in Requests, NEW e \in {ConnectionLost, PoolTimedOut}
  PROVE  DriverError(r, e) \in Responses
<1>1. ProblemResponse(503) \in Responses /\ ProblemResponse(500) \in Responses
  BY Shapes
<1> QED
  BY <1>1, DriverErrors

LEMMA ReplyType ==
  ASSUME TypeOK, NEW r \in Requests, outcome[r].code # "none"
  PROVE  Reply(r) \in Responses
<1>1. outcome[r].code \in Codes /\ outcome[r].ids \in SUBSET Requests
  BY DEF TypeOK
<1>2. /\ \A c \in {404, 409, 500} : ProblemResponse(c) \in Responses
      /\ \A c \in {200, 201} : Success(c, outcome[r].ids) \in Responses
  BY <1>1, Shapes
<1>3. CASE outcome[r].code = "inserted"
  <2>1. Reply(r) = Success(201, outcome[r].ids)
    BY <1>3, Replies
  <2> QED
    BY <2>1, <1>2
<1>4. CASE outcome[r].code \in {"found", "alive"}
  <2>1. Reply(r) = Success(200, outcome[r].ids)
    BY <1>4, Replies
  <2> QED
    BY <2>1, <1>2
<1>5. CASE outcome[r].code = "duplicate"
  <2>1. Reply(r) = ProblemResponse(409)
    BY <1>5, Replies
  <2> QED
    BY <2>1, <1>2
<1>6. CASE outcome[r].code = "toolong"
  <2>1. Reply(r) = ProblemResponse(500)
    BY <1>6, Replies
  <2> QED
    BY <2>1, <1>2
<1>7. CASE outcome[r].code = "missing"
  <2>1. Reply(r) = ProblemResponse(404)
    BY <1>7, Replies
  <2> QED
    BY <2>1, <1>2
<1> QED
  BY <1>1, <1>3, <1>4, <1>5, <1>6, <1>7 DEF Codes

\* Every action keeps the types.
LEMMA TypeStep ==
  ASSUME TypeOK, Statements, [Next]_vars PROVE TypeOK'
<1>1. ASSUME NEW r \in Requests, Arrive(r) PROVE TypeOK'
  <2>1. \A q \in Requests : answer[q].ids \in SUBSET Requests
    BY DEF TypeOK, Responses
  <2>2. Shown \in SUBSET Requests
    BY <2>1 DEF Shown
  <2> QED
    BY <1>1, <2>2 DEF Arrive, TypeOK, Phases
<1>2. ASSUME NEW r \in Requests, Admit(r) PROVE TypeOK'
  BY <1>2 DEF Admit, TypeOK, Phases
<1>3. ASSUME NEW r \in Requests, Deny(r) PROVE TypeOK'
  <2>1. Failure(AppError("Unauthorized")) \in Responses
    BY RefusalType
  <2>2. Respond(r, Failure(AppError("Unauthorized")))
    BY <1>3 DEF Deny
  <2> QED
    BY <1>3, <2>1, <2>2, RespondType DEF Deny, TypeOK, Slots
<1>4. ASSUME NEW r \in Requests, Reject(r) PROVE TypeOK'
  <2>1. Failure(Rejection) \in Responses
    BY RefusalType
  <2>2. Respond(r, Failure(Rejection))
    BY <1>4 DEF Reject
  <2> QED
    BY <1>4, <2>1, <2>2, RespondType DEF Reject, TypeOK, Slots
<1>5. ASSUME NEW r \in Requests, AskPool(r) PROVE TypeOK'
  BY <1>5 DEF AskPool, TypeOK, Phases
<1>6. ASSUME NEW r \in Requests, TakeSlot(r) PROVE TypeOK'
  BY <1>6 DEF TakeSlot, TypeOK, Phases, Slots
<1>7. ASSUME NEW r \in Requests, Connect(r) PROVE TypeOK'
  BY <1>7 DEF Connect, TypeOK, Phases, Slots
<1>8. ASSUME NEW r \in Requests, ConnectFails(r) PROVE TypeOK'
  <2>1. DriverError(r, ConnectionLost) \in Responses
    BY DriverErrorType
  <2>2. Respond(r, DriverError(r, ConnectionLost))
    BY <1>8 DEF ConnectFails
  <2> QED
    BY <1>8, <2>1, <2>2, RespondType DEF ConnectFails, TypeOK, Slots
<1>9. ASSUME NEW r \in Requests, AcquireTimesOut(r) PROVE TypeOK'
  <2>1. DriverError(r, PoolTimedOut) \in Responses
    BY DriverErrorType
  <2>2. Respond(r, DriverError(r, PoolTimedOut))
    BY <1>9 DEF AcquireTimesOut
  <2> QED
    BY <1>9, <2>1, <2>2, RespondType DEF AcquireTimesOut, TypeOK, Slots
<1>10. ASSUME NEW r \in Requests, Finish(r) PROVE TypeOK'
  <2>1. outcome[r].code # "none"
    BY <1>10 DEF Finish, Statements
  <2>2. Reply(r) \in Responses
    BY <2>1, ReplyType
  <2>3. Respond(r, Reply(r))
    BY <1>10 DEF Finish
  <2> QED
    BY <1>10, <2>2, <2>3, RespondType DEF Finish, TypeOK
<1>11. ASSUME NEW r \in Requests, QueryFails(r) PROVE TypeOK'
  <2>1. DriverError(r, ConnectionLost) \in Responses
    BY DriverErrorType
  <2>2. Respond(r, DriverError(r, ConnectionLost))
    BY <1>11 DEF QueryFails
  <2> QED
    BY <1>11, <2>1, <2>2, RespondType DEF QueryFails, TypeOK, Slots
<1>12. ASSUME NEW r \in Requests, Timeout(r) PROVE TypeOK'
  <2>1. BareTimeout \in Responses
    BY Shapes
  <2>2. Respond(r, BareTimeout)
    BY <1>12 DEF Timeout
  <2> QED
    BY <1>12, <2>1, <2>2, RespondType DEF Timeout, SlotsAfterDrop, TypeOK, Slots
<1>13. ASSUME NEW r \in Requests, Disconnect(r) PROVE TypeOK'
  BY <1>13 DEF Disconnect, SlotsAfterDrop, TypeOK, Phases, Slots
<1>14. ASSUME NEW r \in Requests, Execute(r) PROVE TypeOK'
  <2>1. RowOf(r) \in Row
    BY ServiceAssumption DEF TypeOK, RowOf, Row, Input
  <2>2. rows' \subseteq Row
    BY <1>14, <2>1, Executions DEF TypeOK
  <2>3. \E code \in Codes, ids \in SUBSET Requests :
          outcome' = [outcome EXCEPT ![r] = Outcome(code, ids)]
    BY <1>14, Executions DEF Codes
  <2>4. outcome' \in [Requests -> [code : Codes, ids : SUBSET Requests]]
    BY <2>3 DEF TypeOK, Outcome
  <2> QED
    BY <1>14, <2>2, <2>4 DEF Execute, TypeOK
<1>15. ASSUME NEW r \in Requests, LoseConnection(r) PROVE TypeOK'
  BY <1>15 DEF LoseConnection, TypeOK, Slots
<1>16. ASSUME NEW r \in Requests, ReturnConnection(r) PROVE TypeOK'
  BY <1>16 DEF ReturnConnection, TypeOK, Slots
<1>17. CASE Tick
  BY <1>17, ServiceAssumption DEF Tick, Older, Running, Active, TypeOK
<1>18. CASE DbStops
  BY <1>18 DEF DbStops, TypeOK
<1>19. CASE DbStarts
  BY <1>19 DEF DbStarts, TypeOK
<1>20. CASE Crash
  BY <1>20 DEF Crash, TypeOK, Phases, Slots
<1>21. CASE UNCHANGED vars
  BY <1>21 DEF vars, TypeOK
<1> QED
  BY <1>1, <1>2, <1>3, <1>4, <1>5, <1>6, <1>7, <1>8, <1>9, <1>10, <1>11,
     <1>12, <1>13, <1>14, <1>15, <1>16, <1>17, <1>18, <1>19, <1>20, <1>21
     DEF Next, Task, Environment

\* A task goes through its stages in order and drops what it must.
LEMMA StagesStep ==
  ASSUME TypeOK, Stages, [Next]_vars PROVE Stages'
<1> USE DEF TypeOK, Stages, Phases, Slots, Active, Running
<1>1. ASSUME NEW r \in Requests, Arrive(r) PROVE Stages'
  BY <1>1 DEF Arrive
<1>2. ASSUME NEW r \in Requests, Admit(r) PROVE Stages'
  BY <1>2 DEF Admit
<1>3. ASSUME NEW r \in Requests, Deny(r) PROVE Stages'
  BY <1>3 DEF Deny, Respond
<1>4. ASSUME NEW r \in Requests, Reject(r) PROVE Stages'
  BY <1>4 DEF Reject, Respond
<1>5. ASSUME NEW r \in Requests, AskPool(r) PROVE Stages'
  BY <1>5 DEF AskPool
<1>6. ASSUME NEW r \in Requests, TakeSlot(r) PROVE Stages'
  BY <1>6 DEF TakeSlot
<1>7. ASSUME NEW r \in Requests, Connect(r) PROVE Stages'
  BY <1>7 DEF Connect
<1>8. ASSUME NEW r \in Requests, ConnectFails(r) PROVE Stages'
  BY <1>8 DEF ConnectFails, Respond
<1>9. ASSUME NEW r \in Requests, AcquireTimesOut(r) PROVE Stages'
  BY <1>9 DEF AcquireTimesOut, Respond
<1>10. ASSUME NEW r \in Requests, Finish(r) PROVE Stages'
  BY <1>10 DEF Finish, Respond
<1>11. ASSUME NEW r \in Requests, QueryFails(r) PROVE Stages'
  BY <1>11 DEF QueryFails, Respond
<1>12. ASSUME NEW r \in Requests, Timeout(r) PROVE Stages'
  BY <1>12 DEF Timeout, Covered, Respond, SlotsAfterDrop
<1>13. ASSUME NEW r \in Requests, Disconnect(r) PROVE Stages'
  BY <1>13 DEF Disconnect, SlotsAfterDrop
<1>14. ASSUME NEW r \in Requests, Execute(r) PROVE Stages'
  BY <1>14 DEF Execute
<1>15. ASSUME NEW r \in Requests, LoseConnection(r) PROVE Stages'
  BY <1>15 DEF LoseConnection
<1>16. ASSUME NEW r \in Requests, ReturnConnection(r) PROVE Stages'
  BY <1>16 DEF ReturnConnection
<1>17. CASE Tick
  BY <1>17 DEF Tick, Running
<1>18. CASE DbStops
  BY <1>18 DEF DbStops
<1>19. CASE DbStarts
  BY <1>19 DEF DbStarts
<1>20. CASE Crash
  BY <1>20 DEF Crash
<1>21. CASE UNCHANGED vars
  BY <1>21 DEF vars
<1> QED
  BY <1>1, <1>2, <1>3, <1>4, <1>5, <1>6, <1>7, <1>8, <1>9, <1>10, <1>11,
     <1>12, <1>13, <1>14, <1>15, <1>16, <1>17, <1>18, <1>19, <1>20, <1>21
     DEF Next, Task, Environment

\* A statement is one of an accepted request and its outcome is of its kind.
LEMMA StatementsStep ==
  ASSUME TypeOK, Stages, Statements, [Next]_vars PROVE Statements'
<1> USE DEF TypeOK, Stages, Statements, NoOutcome, Outcome
<1>1. ASSUME NEW r \in Requests, Arrive(r) PROVE Statements'
  BY <1>1 DEF Arrive
<1>2. ASSUME NEW r \in Requests, Admit(r) PROVE Statements'
  BY <1>2 DEF Admit
<1>3. ASSUME NEW r \in Requests, Deny(r) PROVE Statements'
  BY <1>3 DEF Deny
<1>4. ASSUME NEW r \in Requests, Reject(r) PROVE Statements'
  BY <1>4 DEF Reject
<1>5. ASSUME NEW r \in Requests, AskPool(r) PROVE Statements'
  BY <1>5 DEF AskPool
<1>6. ASSUME NEW r \in Requests, TakeSlot(r) PROVE Statements'
  BY <1>6 DEF TakeSlot
<1>7. ASSUME NEW r \in Requests, Connect(r) PROVE Statements'
  BY <1>7 DEF Connect
<1>8. ASSUME NEW r \in Requests, ConnectFails(r) PROVE Statements'
  BY <1>8 DEF ConnectFails
<1>9. ASSUME NEW r \in Requests, AcquireTimesOut(r) PROVE Statements'
  BY <1>9 DEF AcquireTimesOut
<1>10. ASSUME NEW r \in Requests, Finish(r) PROVE Statements'
  BY <1>10 DEF Finish
<1>11. ASSUME NEW r \in Requests, QueryFails(r) PROVE Statements'
  BY <1>11 DEF QueryFails
<1>12. ASSUME NEW r \in Requests, Timeout(r) PROVE Statements'
  BY <1>12 DEF Timeout
<1>13. ASSUME NEW r \in Requests, Disconnect(r) PROVE Statements'
  BY <1>13 DEF Disconnect
<1>14. ASSUME NEW r \in Requests, Execute(r) PROVE Statements'
  <2>1. /\ stmt' = [stmt EXCEPT ![r] = "done"] /\ input' = input
        /\ stmt[r] # "none"
    BY <1>14 DEF Execute
  <2>2. \E x \in [code : Codes, ids : SUBSET Requests] :
          /\ outcome' = [outcome EXCEPT ![r] = x]
          /\ input[r].kind = "create" => x.code \in {"inserted", "duplicate", "toolong"}
          /\ input[r].kind # "create" => x.code \in {"found", "missing", "alive"}
    BY <1>14, Executions DEF Codes
  <2> QED
    BY <2>1, <2>2
<1>15. ASSUME NEW r \in Requests, LoseConnection(r) PROVE Statements'
  BY <1>15 DEF LoseConnection
<1>16. ASSUME NEW r \in Requests, ReturnConnection(r) PROVE Statements'
  BY <1>16 DEF ReturnConnection
<1>17. CASE Tick
  BY <1>17 DEF Tick, Running
<1>18. CASE DbStops
  BY <1>18 DEF DbStops
<1>19. CASE DbStarts
  BY <1>19 DEF DbStarts
<1>20. CASE Crash
  BY <1>20 DEF Crash
<1>21. CASE UNCHANGED vars
  BY <1>21 DEF vars
<1> QED
  BY <1>1, <1>2, <1>3, <1>4, <1>5, <1>6, <1>7, <1>8, <1>9, <1>10, <1>11,
     <1>12, <1>13, <1>14, <1>15, <1>16, <1>17, <1>18, <1>19, <1>20, <1>21
     DEF Next, Task, Environment

\* The table stays in step with what the statements did.
LEMMA TableStep ==
  ASSUME TypeOK, Statements, Table, [Next]_vars PROVE Table'
<1>1. CASE UNCHANGED <<input, outcome, rows>>
  BY <1>1 DEF Table, RowOf
<1>2. ASSUME NEW r \in Requests, Execute(r) PROVE Table'
  <2>1. input' = input /\ outcome[r] = NoOutcome
    BY <1>2 DEF Execute, Statements
  <2>2. r \notin {u.id : u \in rows}
    BY <2>1 DEF Table, NoOutcome, Outcome
  <2>3. \A u \in rows : u.id \in Requests
    BY DEF TypeOK, Row
  <2>4. CASE /\ outcome' = [outcome EXCEPT ![r] = Outcome("inserted", {r})]
             /\ rows' = rows \cup {RowOf(r)}
             /\ \A u \in rows : u.email # input[r].email
             /\ Fits(RowOf(r))
    <3>1. \A u \in rows' : Fits(u)
      BY <2>4 DEF Table, Fits
    <3>2. \A u \in rows : u = RowOf(u.id) /\ outcome[u.id].code = "inserted"
      BY DEF Table
    <3>3. \A u \in rows' : u = RowOf(u.id)' /\ outcome'[u.id].code = "inserted"
      BY <2>1, <2>2, <2>3, <2>4, <3>2 DEF TypeOK, RowOf, Outcome
    <3>4. \A u, v \in rows' : u.email = v.email => u = v
      BY <2>4 DEF Table, RowOf
    <3>5. \A q \in Requests :
            outcome'[q].code = "inserted" => RowOf(q)' \in rows' /\ outcome'[q].ids = {q}
      BY <2>1, <2>4 DEF Table, TypeOK, RowOf, Outcome
    <3>6. \A q \in Requests :
            outcome'[q].code = "duplicate" =>
              \E u \in rows' : u.id # q /\ u.email = input'[q].email
      BY <2>1, <2>4 DEF Table, TypeOK, Outcome
    <3> QED
      BY <3>1, <3>3, <3>4, <3>5, <3>6 DEF Table
  <2>5. CASE /\ outcome' = [outcome EXCEPT ![r] = Outcome("duplicate", {})]
             /\ rows' = rows
             /\ \E u \in rows : u.email = input[r].email
    BY <2>1, <2>2, <2>3, <2>5 DEF Table, TypeOK, RowOf, Outcome
  <2>6. ASSUME NEW code \in {"toolong", "found", "missing", "alive"},
               NEW ids \in SUBSET Requests,
               outcome' = [outcome EXCEPT ![r] = Outcome(code, ids)],
               rows' = rows
        PROVE  Table'
    BY <2>1, <2>2, <2>3, <2>6 DEF Table, TypeOK, RowOf, Outcome
  <2> QED
    BY <1>2, <2>4, <2>5, <2>6, Executions
<1> QED
  BY <1>1, <1>2, OnlyExecute

\* A definite answer reports the outcome, and the outcome never changes again.
LEMMA AnswersStep ==
  ASSUME TypeOK, Stages, Statements, Answers, [Next]_vars PROVE Answers'
<1> USE DEF TypeOK, Stages, Answers
<1>1. ASSUME NEW r \in Requests, Arrive(r) PROVE Answers'
  BY <1>1 DEF Arrive
<1>2. ASSUME NEW r \in Requests, Admit(r) PROVE Answers'
  BY <1>2 DEF Admit
<1>3. ASSUME NEW r \in Requests, Deny(r) PROVE Answers'
  <2>1. Failure(AppError("Unauthorized")).status = 401
    BY ResponseTypes DEF ProblemResponse
  <2> QED
    BY <1>3, <2>1 DEF Deny, Respond
<1>4. ASSUME NEW r \in Requests, Reject(r) PROVE Answers'
  <2>1. Failure(Rejection).status = 400
    BY ResponseTypes DEF ProblemResponse
  <2> QED
    BY <1>4, <2>1 DEF Reject, Respond
<1>5. ASSUME NEW r \in Requests, AskPool(r) PROVE Answers'
  BY <1>5 DEF AskPool
<1>6. ASSUME NEW r \in Requests, TakeSlot(r) PROVE Answers'
  BY <1>6 DEF TakeSlot
<1>7. ASSUME NEW r \in Requests, Connect(r) PROVE Answers'
  <2>1. answer[r].status = 0
    BY <1>7 DEF Connect, NoAnswer
  <2> QED
    BY <1>7, <2>1 DEF Connect
<1>8. ASSUME NEW r \in Requests, ConnectFails(r) PROVE Answers'
  <2>1. \/ DriverError(r, ConnectionLost).status = 500
        \/ input[r].kind = "health" /\ DriverError(r, ConnectionLost).status = 503
    BY DriverErrors DEF ProblemResponse
  <2> QED
    BY <1>8, <2>1 DEF ConnectFails, Respond
<1>9. ASSUME NEW r \in Requests, AcquireTimesOut(r) PROVE Answers'
  <2>1. \/ DriverError(r, PoolTimedOut).status = 500
        \/ input[r].kind = "health" /\ DriverError(r, PoolTimedOut).status = 503
    BY DriverErrors DEF ProblemResponse
  <2> QED
    BY <1>9, <2>1 DEF AcquireTimesOut, Respond
<1>10. ASSUME NEW r \in Requests, Finish(r) PROVE Answers'
  <2>1. stmt[r] = "done"
        /\ outcome[r].code \in {"inserted", "duplicate", "toolong", "found", "missing", "alive"}
    BY <1>10 DEF Finish, Statements
  <2>2. \/ outcome[r].code = "inserted" /\ Reply(r).status = 201
                /\ Reply(r).ids = outcome[r].ids
        \/ outcome[r].code \in {"found", "alive"} /\ Reply(r).status = 200
        \/ outcome[r].code = "duplicate" /\ Reply(r).status = 409
        \/ outcome[r].code = "missing" /\ Reply(r).status = 404
        \/ outcome[r].code = "toolong" /\ Reply(r).status = 500
    BY <2>1, Replies DEF Codes, Success, ProblemResponse
  <2> QED
    BY <1>10, <2>1, <2>2 DEF Finish, Respond
<1>11. ASSUME NEW r \in Requests, QueryFails(r) PROVE Answers'
  <2>1. \/ DriverError(r, ConnectionLost).status = 500
        \/ input[r].kind = "health" /\ DriverError(r, ConnectionLost).status = 503
    BY DriverErrors DEF ProblemResponse
  <2> QED
    BY <1>11, <2>1 DEF QueryFails, Respond
<1>12. ASSUME NEW r \in Requests, Timeout(r) PROVE Answers'
  <2>1. BareTimeout.status = 408
    BY DEF BareTimeout
  <2> QED
    BY <1>12, <2>1 DEF Timeout, Covered, Respond
<1>13. ASSUME NEW r \in Requests, Disconnect(r) PROVE Answers'
  BY <1>13 DEF Disconnect, SlotsAfterDrop
<1>14. ASSUME NEW r \in Requests, Execute(r) PROVE Answers'
  <2>1. answer' = answer /\ input' = input /\ stmt[r] # "none"
    BY <1>14 DEF Execute
  <2>2. answer[r].status \notin {200, 201, 404, 409}
    <3>1. outcome[r].code = "none"
      BY <1>14 DEF Execute, Statements, NoOutcome, Outcome
    <3> QED
      BY <3>1
  <2>3. \A q \in Requests : q # r => outcome'[q] = outcome[q] /\ stmt'[q] = stmt[q]
    <3>1. stmt' = [stmt EXCEPT ![r] = "done"]
      BY <1>14 DEF Execute
    <3>2. \E x \in [code : Codes, ids : SUBSET Requests] : outcome' = [outcome EXCEPT ![r] = x]
      BY <1>14, Executions DEF Codes, Outcome
    <3> QED
      BY <3>1, <3>2
  <2> QED
    BY <2>1, <2>2, <2>3
<1>15. ASSUME NEW r \in Requests, LoseConnection(r) PROVE Answers'
  BY <1>15 DEF LoseConnection
<1>16. ASSUME NEW r \in Requests, ReturnConnection(r) PROVE Answers'
  BY <1>16 DEF ReturnConnection
<1>17. CASE Tick
  BY <1>17 DEF Tick, Running
<1>18. CASE DbStops
  BY <1>18 DEF DbStops
<1>19. CASE DbStarts
  BY <1>19 DEF DbStarts
<1>20. CASE Crash
  BY <1>20 DEF Crash
<1>21. CASE UNCHANGED vars
  BY <1>21 DEF vars
<1> QED
  BY <1>1, <1>2, <1>3, <1>4, <1>5, <1>6, <1>7, <1>8, <1>9, <1>10, <1>11,
     <1>12, <1>13, <1>14, <1>15, <1>16, <1>17, <1>18, <1>19, <1>20, <1>21
     DEF Next, Task, Environment

-----------------------------------------------------------------------------
LEMMA Inductive == Spec => []IInv
<1>1. IInv /\ [Next]_vars => IInv'
  BY TypeStep, StagesStep, StatementsStep, TableStep, AnswersStep DEF IInv
<1> QED
  BY <1>1, InitIInv, PTL DEF Spec

\* Every variable of the service keeps its type.
THEOREM TypeCorrect == Spec => []TypeOK
BY Inductive, PTL DEF IInv

\* Whatever times out, hangs up or breaks, two creates with one e-mail are
\* never both answered 201.
THEOREM EmailsAreWonOnce == Spec => []OneWinnerPerEmail
<1>1. IInv => OneWinnerPerEmail
  <2> SUFFICES ASSUME IInv, NEW q \in Created, NEW r \in Created,
                      input[q].email = input[r].email
               PROVE  q = r
    BY DEF OneWinnerPerEmail
  <2>1. q \in Requests /\ r \in Requests
    BY DEF Created
  <2>2. RowOf(q) \in rows /\ RowOf(r) \in rows
    BY <2>1 DEF IInv, Answers, Table, Created
  <2>3. RowOf(q).email = RowOf(r).email /\ RowOf(q).id = q /\ RowOf(r).id = r
    BY DEF RowOf
  <2>4. RowOf(q) = RowOf(r)
    BY <2>2, <2>3 DEF IInv, Table
  <2> QED
    BY <2>3, <2>4
<1> QED
  BY <1>1, Inductive, PTL

\* A user that was reported created is in the table from then on.
THEOREM CreationsLast == Spec => []CreatedIsDurable
<1>1. IInv => CreatedIsDurable
  BY DEF IInv, Answers, Table, CreatedIsDurable, Created, RowOf
<1> QED
  BY <1>1, Inductive, PTL

\* A conflict that is reported exists.
THEOREM ConflictsAreReal == Spec => []ConflictIsReal
<1>1. IInv => ConflictIsReal
  BY DEF IInv, Answers, Table, ConflictIsReal
<1> QED
  BY <1>1, Inductive, PTL

\* No refused request ever leaves a row behind, and no row breaks the rules of
\* create_user.
THEOREM RefusalsLeaveNothing == Spec => []RowsAreAccepted
<1>1. IInv => RowsAreAccepted
  <2> SUFFICES ASSUME IInv, NEW u \in rows
               PROVE  /\ Acceptable(input[u.id])
                      /\ u.name # Empty /\ Trim[u.name] = u.name
                      /\ {u.name, u.email} \cap TooLong = {}
                      /\ answer[u.id].status \in {0, 201, 408, 500}
    BY DEF RowsAreAccepted
  <2>1. u.id \in Requests /\ u = RowOf(u.id) /\ outcome[u.id].code = "inserted"
    BY DEF IInv, TypeOK, Row, Table
  <2>2. stmt[u.id] = "done" /\ input[u.id].kind = "create"
    <3>1. stmt[u.id] = "done"
      BY <2>1 DEF IInv, Statements, NoOutcome, Outcome
    <3> QED
      BY <2>1, <3>1 DEF IInv, Statements
  <2>3. Acceptable(input[u.id])
    BY <2>1, <2>2 DEF IInv, Statements
  <2>4. u.name = Trim[input[u.id].name] /\ input[u.id].name \in Names
    BY <2>1 DEF IInv, TypeOK, Input, RowOf
  <2>5. u.name # Empty /\ Trim[u.name] = u.name
    BY <2>2, <2>3, <2>4, ServiceAssumption DEF Acceptable
  <2>6. answer[u.id].status \in {0, 201, 408, 500}
    <3>1. answer[u.id].status \in {0, 200, 201, 400, 401, 404, 408, 409, 500, 503}
      BY <2>1 DEF IInv, TypeOK, Responses
    <3>2. answer[u.id].status \notin {200, 400, 401, 404, 409, 503}
      BY <2>1, <2>2 DEF IInv, Answers
    <3> QED
      BY <3>1, <3>2
  <2>7. {u.name, u.email} \cap TooLong = {}
    BY DEF IInv, Table, Fits
  <2> QED
    BY <2>3, <2>5, <2>6, <2>7
<1> QED
  BY <1>1, Inductive, PTL

\* A request that ends while it waits for a slot got the bare 408, never an
\* error of the pool: its two clocks cannot run out in the other order.
THEOREM QueueEndsIn408 == Spec => QueueTimesOutAs408
<1>1. IInv /\ [Next]_vars =>
        \A r \in Requests :
          /\ RequestTimeout <= AcquireTimeout
          /\ phase[r] = "queued" /\ phase'[r] = "answered"
          => answer'[r].status = 408
  <2> SUFFICES ASSUME IInv, [Next]_vars, NEW r \in Requests,
                      RequestTimeout <= AcquireTimeout,
                      phase[r] = "queued", phase'[r] = "answered"
               PROVE  answer'[r].status = 408
    OBVIOUS
  <2> USE DEF IInv, TypeOK
  <2>1. Timeout(r) \/ AcquireTimesOut(r)
    <3>1. \A q \in Requests : Task(q) => Timeout(r) \/ AcquireTimesOut(r)
      BY DEF Task, Admit, Deny, Respond, Reject, AskPool, TakeSlot, Connect, ConnectFails,
             AcquireTimesOut, Finish, QueryFails, Timeout
    <3>2. \A q \in Requests : ~Environment(q) /\ ~ReturnConnection(q)
      BY DEF Environment, Arrive, Disconnect, Execute, LoseConnection, ReturnConnection
    <3>3. ~(Tick \/ Crash \/ DbStops \/ DbStarts \/ UNCHANGED vars)
      BY DEF Tick, Crash, DbStops, DbStarts, vars
    <3> QED
      BY <3>1, <3>2, <3>3 DEF Next
  <2>2. ~AcquireTimesOut(r)
    <3>1. age[r] \in Nat /\ begun[r] \in Nat
      BY ServiceAssumption
    <3> QED
      BY <3>1, ServiceAssumption DEF AcquireTimesOut, Running
  <2>3. answer'[r] = BareTimeout
    BY <2>1, <2>2 DEF Timeout, Respond
  <2> QED
    BY <2>3 DEF BareTimeout
<1> QED
  BY <1>1, Inductive, PTL DEF Spec, vars, QueueTimesOutAs408

-----------------------------------------------------------------------------
\* The pool: a statement that is running keeps its connection, and no more
\* slots are taken than there are.
Pool ==
  /\ \A r \in Requests : stmt[r] = "sent" => conn[r] = "open"
  /\ IsFiniteSet(Held) /\ Cardinality(Held) <= MaxConnections

LEMMA PoolInit == Init => Pool
<1> SUFFICES ASSUME Init PROVE Pool
  OBVIOUS
<1>1. Held = {}
  BY DEF Init, Held
<1>2. Cardinality({}) = 0 /\ IsFiniteSet({})
  BY FS_EmptySet
<1> QED
  BY <1>1, <1>2, ServiceAssumption DEF Init, Pool

\* Only TakeSlot takes one.
LEMMA HeldStep ==
  ASSUME TypeOK, Stages, [Next]_vars
  PROVE  Held' \subseteq Held \/ \E r \in Requests : TakeSlot(r)
<1> USE DEF TypeOK, Stages, Held
<1>1. ASSUME NEW r \in Requests, Task(r) PROVE Held' \subseteq Held \/ TakeSlot(r)
  <2>1. CASE Connect(r)
    BY <2>1 DEF Connect
  <2>2. CASE Timeout(r)
    BY <2>2 DEF Timeout, SlotsAfterDrop
  <2>3. CASE Admit(r) \/ Deny(r) \/ Reject(r) \/ AskPool(r) \/ Finish(r) \/ QueryFails(r)
    BY <2>3 DEF Admit, Deny, Reject, AskPool, Finish, QueryFails
  <2>4. CASE ConnectFails(r) \/ AcquireTimesOut(r)
    BY <2>4 DEF ConnectFails, AcquireTimesOut
  <2> QED
    BY <1>1, <2>1, <2>2, <2>3, <2>4 DEF Task
<1>2. ASSUME NEW r \in Requests, Environment(r) \/ ReturnConnection(r)
      PROVE  Held' \subseteq Held
  BY <1>2 DEF Environment, Arrive, Disconnect, SlotsAfterDrop, Execute, LoseConnection,
              ReturnConnection
<1>3. CASE Tick \/ Crash \/ DbStops \/ DbStarts \/ UNCHANGED vars
  BY <1>3 DEF Tick, Crash, DbStops, DbStarts, vars
<1> QED
  BY <1>1, <1>2, <1>3 DEF Next

\* A connection is given up with its statement still running only when it breaks,
\* and then the statement is an orphan.
LEMMA SentStep ==
  ASSUME TypeOK, Stages, Pool, [Next]_vars, NEW q \in Requests, stmt'[q] = "sent"
  PROVE  conn'[q] = "open"
<1> USE DEF TypeOK, Stages, Pool
<1>1. ASSUME NEW r \in Requests, Task(r) PROVE conn'[q] = "open"
  <2>1. CASE Connect(r)
    BY <2>1 DEF Connect
  <2>2. CASE Timeout(r)
    BY <2>2 DEF Timeout, SlotsAfterDrop
  <2>3. CASE Admit(r) \/ Deny(r) \/ Reject(r) \/ AskPool(r) \/ Finish(r) \/ QueryFails(r)
    BY <2>3 DEF Admit, Deny, Reject, AskPool, Finish, QueryFails
  <2>4. CASE ConnectFails(r) \/ AcquireTimesOut(r) \/ TakeSlot(r)
    BY <2>4 DEF ConnectFails, AcquireTimesOut, TakeSlot
  <2> QED
    BY <1>1, <2>1, <2>2, <2>3, <2>4 DEF Task
<1>2. ASSUME NEW r \in Requests, Environment(r) \/ ReturnConnection(r)
      PROVE  conn'[q] = "open"
  BY <1>2 DEF Environment, Arrive, Disconnect, SlotsAfterDrop, Execute, LoseConnection,
              ReturnConnection
<1>3. CASE Tick \/ Crash \/ DbStops \/ DbStarts \/ UNCHANGED vars
  BY <1>3 DEF Tick, Crash, DbStops, DbStarts, vars
<1> QED
  BY <1>1, <1>2, <1>3 DEF Next

LEMMA PoolStep ==
  ASSUME TypeOK, Stages, Pool, [Next]_vars PROVE Pool'
<1>1. CASE Held' \subseteq Held
  <2>1. IsFiniteSet(Held') /\ Cardinality(Held') <= Cardinality(Held)
    BY <1>1, FS_Subset DEF Pool
  <2>2. Cardinality(Held) \in Nat /\ Cardinality(Held') \in Nat
    BY <2>1, FS_CardinalityType DEF Pool
  <2> QED
    BY <2>1, <2>2, SentStep, ServiceAssumption DEF Pool
<1>2. ASSUME NEW r \in Requests, TakeSlot(r) PROVE Pool'
  <2>1. Held' = Held \cup {r}
    BY <1>2 DEF TakeSlot, Held, TypeOK
  <2>2. IsFiniteSet(Held') /\ Cardinality(Held') <= Cardinality(Held) + 1
    <3>1. IsFiniteSet(Held) /\ Cardinality(Held) \in Nat
      BY FS_CardinalityType DEF Pool
    <3> QED
      BY <2>1, <3>1, FS_AddElement
  <2>3. Cardinality(Held) \in Nat /\ Cardinality(Held') \in Nat
    BY <2>2, FS_CardinalityType DEF Pool
  <2>4. Cardinality(Held) < MaxConnections
    BY <1>2 DEF TakeSlot
  <2> QED
    BY <2>2, <2>3, <2>4, SentStep, ServiceAssumption DEF Pool
<1> QED
  BY <1>1, <1>2, HeldStep

\* The server runs at most MaxConnections statements at a time for sessions of
\* this service, those that outlive their requests included.
THEOREM WorkIsBounded == Spec => []BoundedWork
<1>1. TypeOK /\ Stages /\ Pool /\ [Next]_vars => Pool'
  BY PoolStep
<1>2. Pool => BoundedWork
  <2> SUFFICES ASSUME Pool PROVE BoundedWork
    OBVIOUS
  <2> DEFINE Sent == {r \in Requests : stmt[r] = "sent"}
  <2>1. Sent \subseteq Held
    BY DEF Pool, Held
  <2>2. IsFiniteSet(Sent) /\ Cardinality(Sent) <= Cardinality(Held)
    BY <2>1, FS_Subset DEF Pool
  <2>3. Cardinality(Held) \in Nat /\ Cardinality(Sent) \in Nat
    BY <2>2, FS_CardinalityType DEF Pool
  <2> QED
    BY <2>2, <2>3, ServiceAssumption DEF Pool, BoundedWork
<1>3. IInv => TypeOK /\ Stages
  BY DEF IInv
<1> QED
  BY <1>1, <1>2, <1>3, PoolInit, Inductive, PTL DEF Spec
=============================================================================
