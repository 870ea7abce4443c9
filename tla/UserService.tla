----------------------------- MODULE UserService ----------------------------
(***************************************************************************)
(* The user API of the service (src/handlers.rs) on its connection pool    *)
(* (src/db.rs), under the request timeout of src/routes.rs, over a         *)
(* PostgreSQL table with a UNIQUE e-mail (migrations/).                    *)
(*                                                                         *)
(* Every request is a task that is dropped at whatever `.await` it has     *)
(* reached when its deadline passes or its client hangs up. The statement  *)
(* it had sent lives on: the server executes it or not, and the connection *)
(* goes back to the pool behind the request's back.                        *)
(***************************************************************************)
EXTENDS Problem, FiniteSets

CONSTANTS
  Requests,        \* the requests of a behaviour
  Inputs,          \* what requests can ask
  Names, Emails,   \* texts of a payload's two fields
  Trim,            \* Trim[n]: the name without surrounding white space
  Empty,           \* the name with nothing in it
  Addresses,       \* the e-mails that contain an '@'
  TooLong,         \* names and e-mails beyond VARCHAR(255)
  NoUser,          \* the id of no user
  MaxConnections,  \* db.rs: 10
  AcquireTimeout,  \* db.rs: 10 s
  RequestTimeout,  \* routes.rs: 10 s
  AuthConfigured   \* is there a JWKS URL?

Kinds == {"create", "list", "get", "health"}

\* `parsed`: the body deserializes, the path is a UUID. A new user's id is a
\* fresh UUID, here the request that draws it.
Input == [kind : Kinds, parsed : BOOLEAN, name : Names, email : Emails,
          id : Requests \cup {NoUser}]

ASSUME ServiceAssumption ==
  /\ Inputs \subseteq Input
  /\ \A x \in Inputs : x.kind \in {"list", "health"} => x.parsed
  /\ Trim \in [Names -> Names] /\ Empty \in Names
  /\ \A n \in Names : Trim[Trim[n]] = Trim[n]
  /\ NoUser \notin Requests
  /\ MaxConnections \in Nat \ {0}
  /\ AcquireTimeout \in Nat \ {0} /\ RequestTimeout \in Nat \ {0}
  /\ AuthConfigured \in BOOLEAN

VARIABLES
  phase,    \* phase[r]: where the task of r is
  input,    \* input[r]: what r asks (meaningful once it arrived)
  age,      \* age[r]: time since it arrived, up to the request timeout
  begun,    \* begun[r]: its age when it asked the pool for a connection
  conn,     \* conn[r]: the pool's slot that r has taken
  stmt,     \* stmt[r]: the statement of r at the server
  outcome,  \* outcome[r]: what executing it did
  answer,   \* answer[r]: the response of r
  rows,     \* the table
  dbUp,     \* does the server accept connections and execute?
  known     \* history: known[r], the users that anybody was shown before r arrived

vars == <<phase, input, age, begun, conn, stmt, outcome, answer, rows, dbUp, known>>

Phases == {"idle", "gate", "handler", "queued", "connecting", "querying",
           "answered", "gone"}
Active == {"gate", "handler", "queued", "connecting", "querying"}

\* "none": no slot of the pool; "slot": a slot with no usable connection yet;
\* "open" and "lost": a connection, good or broken.
Slots == {"none", "slot", "open", "lost"}
Held == {r \in Requests : conn[r] # "none"}

\* stmt[r] is "none" until the statement is "sent"; it becomes an "orphan" when
\* its connection breaks before the server has executed it, and is "done" when
\* the server has.

Row == [id : Requests, name : Names, email : Emails]
Codes == {"none", "inserted", "duplicate", "toolong", "found", "missing", "alive"}
Outcome(code, ids) == [code |-> code, ids |-> ids]
NoOutcome == Outcome("none", {})

\* A response: its status and, for users, the ids it shows; whether it went
\* through the security header middleware and whether its body is a problem.
Success(status, ids) ==
  [status |-> status, ids |-> ids, secured |-> TRUE, problem |-> FALSE]
ProblemResponse(status) ==
  [status |-> status, ids |-> {}, secured |-> TRUE, problem |-> TRUE]
Failure(problem) == ProblemResponse(problem.status)
\* Made by the outermost layer, with an empty body.
BareTimeout == [status |-> 408, ids |-> {}, secured |-> FALSE, problem |-> FALSE]
NoAnswer == [status |-> 0, ids |-> {}, secured |-> FALSE, problem |-> FALSE]

Responses ==
  [status : {0, 200, 201, 400, 401, 404, 408, 409, 500, 503},
   ids : SUBSET Requests, secured : BOOLEAN, problem : BOOLEAN]

\* Type invariant; in particular no request outlives its timeout by a tick.
TypeOK ==
  /\ phase \in [Requests -> Phases]
  /\ input \in [Requests -> Input]
  /\ age \in [Requests -> 0..RequestTimeout]
  /\ begun \in [Requests -> 0..RequestTimeout]
  /\ conn \in [Requests -> Slots]
  /\ stmt \in [Requests -> {"none", "sent", "orphan", "done"}]
  /\ outcome \in [Requests -> [code : Codes, ids : SUBSET Requests]]
  /\ answer \in [Requests -> Responses]
  /\ rows \subseteq Row
  /\ dbUp \in BOOLEAN
  /\ known \in [Requests -> SUBSET Requests]

Init ==
  /\ phase = [r \in Requests |-> "idle"]
  /\ input \in [Requests -> Inputs]
  /\ age = [r \in Requests |-> 0]
  /\ begun = [r \in Requests |-> 0]
  /\ conn = [r \in Requests |-> "none"]
  /\ stmt = [r \in Requests |-> "none"]
  /\ outcome = [r \in Requests |-> NoOutcome]
  /\ answer = [r \in Requests |-> NoAnswer]
  /\ rows = {}
  /\ dbUp = TRUE
  /\ known = [r \in Requests |-> {}]

-----------------------------------------------------------------------------
\* The layers around the handlers.

\* A timed-out request is answered by TimeoutLayer, whose future polls its
\* timer before the request's: no other step of the task runs at the deadline.
Running_InnerFirst(r) == phase[r] \in Active  \* mutation: the task runs first

Running(r) == phase[r] \in Active /\ age[r] < RequestTimeout

Respond(r, response) ==
  /\ phase' = [phase EXCEPT ![r] = "answered"]
  /\ answer' = [answer EXCEPT ![r] = response]

Created == {q \in Requests : answer[q].status = 201}
Shown == UNION {answer[q].ids : q \in Requests}

Protected_LayerFirst(r) ==  \* mutation: the POST route is added after route_layer
  AuthConfigured /\ input[r].kind \in {"list", "get"}

Protected(r) == AuthConfigured /\ input[r].kind # "health"

Arrive(r) ==
  /\ phase[r] = "idle"
  /\ phase' = [phase EXCEPT ![r] = IF Protected(r) THEN "gate" ELSE "handler"]
  /\ known' = [known EXCEPT ![r] = Shown]
  /\ UNCHANGED <<input, age, begun, conn, stmt, outcome, answer, rows, dbUp>>

\* What the gate decides is the business of module Jwks.
Admit(r) ==
  /\ Running(r) /\ phase[r] = "gate"
  /\ phase' = [phase EXCEPT ![r] = "handler"]
  /\ UNCHANGED <<input, age, begun, conn, stmt, outcome, answer, rows, dbUp, known>>

Deny(r) ==
  /\ Running(r) /\ phase[r] = "gate"
  /\ Respond(r, Failure(AppError("Unauthorized")))
  /\ UNCHANGED <<input, age, begun, conn, stmt, outcome, rows, dbUp, known>>

\* Dropping a task gives a slot without a connection back at once; a
\* connection goes back when ReturnConnection has found it idle or broken.
SlotsAfterDrop_All(r) == [conn EXCEPT ![r] = "none"]  \* mutation: all at once
SlotsAfterDrop_None(r) == conn  \* mutation: the slot is forgotten

SlotsAfterDrop(r) == [conn EXCEPT ![r] = IF @ = "slot" THEN "none" ELSE @]

\* The layer wraps everything else: wherever the task is, it is dropped.
Covered_OffPool(r) == phase[r] \in Active \ {"queued"}  \* mutation: not in the queue
Covered_OffGate(r) == phase[r] \in Active \ {"gate"}  \* mutation: inside the gate

Covered(r) == phase[r] \in Active

Timeout(r) ==
  /\ Covered(r) /\ age[r] = RequestTimeout
  /\ Respond(r, BareTimeout)
  /\ conn' = SlotsAfterDrop(r)
  /\ UNCHANGED <<input, age, begun, stmt, outcome, rows, dbUp, known>>

\* The client hangs up: hyper drops the request's task.
Disconnect(r) ==
  /\ phase[r] \in Active
  /\ phase' = [phase EXCEPT ![r] = "gone"]
  /\ conn' = SlotsAfterDrop(r)
  /\ UNCHANGED <<input, age, begun, stmt, outcome, answer, rows, dbUp, known>>

Older_Late(r) ==  \* mutation: the clock of a request runs past its deadline
  IF phase[r] \in Active THEN age[r] + 1 ELSE age[r]

Older(r) == IF Running(r) THEN age[r] + 1 ELSE age[r]

Tick ==
  /\ \E r \in Requests : Running(r)
  /\ age' = [r \in Requests |-> Older(r)]
  /\ UNCHANGED <<phase, input, begun, conn, stmt, outcome, answer, rows, dbUp, known>>

\* The process is killed and another one starts: its tasks and connections are
\* gone, what it has sent to the server is not.
Crash ==
  /\ phase' = [r \in Requests |-> IF phase[r] \in Active THEN "gone" ELSE phase[r]]
  /\ conn' = [r \in Requests |-> "none"]
  /\ stmt' = [r \in Requests |-> IF stmt[r] = "sent" THEN "orphan" ELSE stmt[r]]
  /\ UNCHANGED <<input, age, begun, outcome, answer, rows, dbUp, known>>

-----------------------------------------------------------------------------
\* The handlers, up to the pool: the extractors and the checks of create_user.
Acceptable_NoTrim(x) ==  \* mutation: blank names pass
  x.parsed /\ (x.kind = "create" => x.name # Empty /\ x.email \in Addresses)

Acceptable(x) ==
  x.parsed /\ (x.kind = "create" => Trim[x.name] # Empty /\ x.email \in Addresses)

Reject(r) ==
  /\ Running(r) /\ phase[r] = "handler"
  /\ ~Acceptable(input[r])
  /\ Respond(r, Failure(Rejection))
  /\ UNCHANGED <<input, age, begun, conn, stmt, outcome, rows, dbUp, known>>

AskPool(r) ==
  /\ Running(r) /\ phase[r] = "handler"
  /\ Acceptable(input[r])
  /\ phase' = [phase EXCEPT ![r] = "queued"]
  /\ begun' = [begun EXCEPT ![r] = age[r]]
  /\ UNCHANGED <<input, age, conn, stmt, outcome, answer, rows, dbUp, known>>

\* The pool: one of its slots, then a connection that answers.
TakeSlot(r) ==
  /\ Running(r) /\ phase[r] = "queued"
  /\ Cardinality(Held) < MaxConnections
  /\ phase' = [phase EXCEPT ![r] = "connecting"]
  /\ conn' = [conn EXCEPT ![r] = "slot"]
  /\ UNCHANGED <<input, age, begun, stmt, outcome, answer, rows, dbUp, known>>

Connect(r) ==
  /\ Running(r) /\ phase[r] = "connecting"
  /\ dbUp
  /\ phase' = [phase EXCEPT ![r] = "querying"]
  /\ conn' = [conn EXCEPT ![r] = "open"]
  /\ stmt' = [stmt EXCEPT ![r] = "sent"]
  /\ UNCHANGED <<input, age, begun, outcome, answer, rows, dbUp, known>>

\* What a handler answers to an error of the driver.
DriverError(r, e) ==
  IF input[r].kind = "health" THEN Failure(AppError("ServiceUnavailable"))
  ELSE Failure(DatabaseError(e))

\* A refused connection is tried again until the acquire timeout; any other
\* failure to connect is reported at once.
ConnectFails(r) ==
  /\ Running(r) /\ phase[r] = "connecting"
  /\ ~dbUp
  /\ Respond(r, DriverError(r, ConnectionLost))
  /\ conn' = [conn EXCEPT ![r] = "none"]
  /\ UNCHANGED <<input, age, begun, stmt, outcome, rows, dbUp, known>>

AcquireTimesOut(r) ==
  /\ Running(r) /\ phase[r] \in {"queued", "connecting"}
  /\ age[r] - begun[r] >= AcquireTimeout
  /\ Respond(r, DriverError(r, PoolTimedOut))
  /\ conn' = [conn EXCEPT ![r] = "none"]
  /\ UNCHANGED <<input, age, begun, stmt, outcome, rows, dbUp, known>>

\* The statements of the handlers, each atomic at the server.
Free_Always(email) == TRUE  \* mutation: the table lost its UNIQUE constraint

Free(email) == \A u \in rows : u.email # email

Insert(r) ==
  LET name == Trim[input[r].name]
      email == input[r].email
  IN \/ /\ {name, email} \cap TooLong # {}
        /\ outcome' = [outcome EXCEPT ![r] = Outcome("toolong", {})]
        /\ UNCHANGED rows
     \/ /\ {name, email} \cap TooLong = {} /\ ~Free(email)
        /\ outcome' = [outcome EXCEPT ![r] = Outcome("duplicate", {})]
        /\ UNCHANGED rows
     \/ /\ {name, email} \cap TooLong = {} /\ Free(email)
        /\ outcome' = [outcome EXCEPT ![r] = Outcome("inserted", {r})]
        /\ rows' = rows \cup {[id |-> r, name |-> name, email |-> email]}

\* The ids a SELECT returns.
Selected_Where(x) ==  \* mutation: the list keeps the WHERE id = $1 of the get
  {u.id : u \in {v \in rows : v.id = x.id}}

Selected(x) ==
  {u.id : u \in {v \in rows : x.kind = "get" => v.id = x.id}}

Select(r) ==
  /\ UNCHANGED rows
  /\ outcome' = [outcome EXCEPT ![r] =
       IF input[r].kind = "health" THEN Outcome("alive", {})
       ELSE IF input[r].kind = "get" /\ Selected(input[r]) = {} THEN Outcome("missing", {})
       ELSE Outcome("found", Selected(input[r]))]

\* The server executes a statement that reached it, whatever has become of the
\* request and of its connection.
Execute(r) ==
  /\ stmt[r] \in {"sent", "orphan"} /\ dbUp
  /\ stmt' = [stmt EXCEPT ![r] = "done"]
  /\ IF input[r].kind = "create" THEN Insert(r) ELSE Select(r)
  /\ UNCHANGED <<phase, input, age, begun, conn, answer, dbUp, known>>

\* The handlers, from the statement's result to the response.
Reply(r) ==
  CASE outcome[r].code = "inserted" -> Success(201, outcome[r].ids)
    [] outcome[r].code = "duplicate" -> Failure(DatabaseError(DuplicateKey))
    [] outcome[r].code = "toolong" -> Failure(DatabaseError(ValueTooLong))
    [] outcome[r].code \in {"found", "alive"} -> Success(200, outcome[r].ids)
    [] outcome[r].code = "missing" -> Failure(AppError("NotFound"))

Finish_Optimistic(r) ==  \* mutation: 201 as soon as the statement is sent
  /\ Running(r) /\ phase[r] = "querying"
  /\ \/ conn[r] = "open" /\ stmt[r] = "done" /\ Respond(r, Reply(r))
     \/ input[r].kind = "create" /\ stmt[r] = "sent" /\ Respond(r, Success(201, {r}))
  /\ UNCHANGED <<input, age, begun, conn, stmt, outcome, rows, dbUp, known>>

Finish(r) ==
  /\ Running(r) /\ phase[r] = "querying"
  /\ conn[r] = "open" /\ stmt[r] = "done"
  /\ Respond(r, Reply(r))
  /\ UNCHANGED <<input, age, begun, conn, stmt, outcome, rows, dbUp, known>>

QueryFails(r) ==
  /\ Running(r) /\ phase[r] = "querying"
  /\ conn[r] = "lost"
  /\ Respond(r, DriverError(r, ConnectionLost))
  /\ UNCHANGED <<input, age, begun, conn, stmt, outcome, rows, dbUp, known>>

\* The task that PoolConnection's drop spawns: it waits for the statement to
\* end, or for the connection to break, and gives the slot back.
ReturnConnection(r) ==
  /\ phase[r] \in {"answered", "gone"}
  /\ \/ conn[r] = "open" /\ stmt[r] = "done"
     \/ conn[r] = "lost"
  /\ conn' = [conn EXCEPT ![r] = "none"]
  /\ UNCHANGED <<phase, input, age, begun, stmt, outcome, answer, rows, dbUp, known>>

-----------------------------------------------------------------------------
\* The network and the database server.
LoseConnection(r) ==
  /\ conn[r] = "open"
  /\ conn' = [conn EXCEPT ![r] = "lost"]
  /\ stmt' = [stmt EXCEPT ![r] = IF @ = "sent" THEN "orphan" ELSE @]
  /\ UNCHANGED <<phase, input, age, begun, outcome, answer, rows, dbUp, known>>

DbStops == dbUp /\ dbUp' = FALSE
           /\ UNCHANGED <<phase, input, age, begun, conn, stmt, outcome, answer, rows, known>>

DbStarts == ~dbUp /\ dbUp' = TRUE
            /\ UNCHANGED <<phase, input, age, begun, conn, stmt, outcome, answer, rows, known>>

-----------------------------------------------------------------------------
Task(r) ==
  \/ Admit(r) \/ Deny(r)
  \/ Reject(r) \/ AskPool(r)
  \/ TakeSlot(r) \/ Connect(r) \/ ConnectFails(r) \/ AcquireTimesOut(r)
  \/ Finish(r) \/ QueryFails(r)
  \/ Timeout(r)

Environment(r) ==
  Arrive(r) \/ Disconnect(r) \/ Execute(r) \/ LoseConnection(r)

Next ==
  \/ \E r \in Requests : Task(r) \/ Environment(r) \/ ReturnConnection(r)
  \/ Tick \/ Crash \/ DbStops \/ DbStarts

Spec == Init /\ [][Next]_vars

\* tokio polls woken tasks and fires due timers; the server executes what it
\* has received as long as it is up, and the driver notices when it is down.
\* Nothing is assumed of clients and crashes, nor that the server ever comes back.
Served(r) == Execute(r) \/ (~dbUp /\ LoseConnection(r))
FairSpec ==
  /\ Spec
  /\ WF_vars(Tick)
  /\ \A r \in Requests : WF_vars(Task(r)) /\ WF_vars(ReturnConnection(r)) /\ WF_vars(Served(r))

-----------------------------------------------------------------------------
\* Of all creates with one e-mail, at most one is ever answered 201, whichever
\* of them time out, hang up, lose their connection or are sent to a process that
\* is killed (handlers.rs 60-74).
OneWinnerPerEmail ==
  \A q, r \in Created : input[q].email = input[r].email => q = r

\* A 201 is never taken back: the row is there, under the id that the answer
\* shows, with the trimmed name (handlers.rs 46, 58, 68-74).
CreatedIsDurable ==
  \A r \in Created :
    /\ answer[r].ids = {r}
    /\ [id |-> r, name |-> Trim[input[r].name], email |-> input[r].email] \in rows

\* A 409 names a real conflict: another request's row has the e-mail. No
\* failure of the driver is taken for one (error.rs 288-309).
ConflictIsReal ==
  \A r \in Requests :
    answer[r].status = 409 => \E u \in rows : u.id # r /\ u.email = input[r].email

\* Every row comes from a create that passed the checks and was not refused:
\* a client that was told 400, 401, 404 or 409 never finds its row later on,
\* not even by a statement that outlives its request, and no row holds what the
\* table refuses for its length, which no check of the handler does (handlers.rs
\* 46-70).
RowsAreAccepted ==
  \A u \in rows :
    /\ Acceptable(input[u.id])
    /\ u.name # Empty /\ Trim[u.name] = u.name
    /\ {u.name, u.email} \cap TooLong = {}
    /\ answer[u.id].status \in {0, 201, 408, 500}

\* A user that any answer has shown before a request arrived is seen by that
\* request, by a list and by a get for its id: clients read their writes, and
\* reads never go back, not even for a user whose own create ended in a 408 or a
\* 500 (handlers.rs 85-127).
ReadsNeverGoBack ==
  \A r \in Requests :
    /\ input[r].kind = "list" /\ answer[r].status = 200 => known[r] \subseteq answer[r].ids
    /\ input[r].kind = "get" /\ input[r].id \in known[r] => answer[r].status # 404

\* The server never runs more statements for live sessions of this service
\* than the pool has connections, those of dropped requests included (db.rs 11).
BoundedWork == Cardinality({r \in Requests : stmt[r] = "sent"}) <= MaxConnections

\* A request that waits for a slot of the pool is only ever answered by the
\* request timeout: the pool's own timeout, as long, starts later (db.rs 12,
\* routes.rs 137-140).
QueueTimesOutAs408 ==
  [][\A r \in Requests :
       /\ RequestTimeout <= AcquireTimeout
       /\ phase[r] = "queued" /\ phase'[r] = "answered"
       => answer'[r].status = 408]_vars

\* Every request that arrives is answered or hangs up, even when the database
\* never comes back and every slot stays taken (routes.rs 137-140).
EveryRequestEnds ==
  \A r \in Requests : (phase[r] \in Active) ~> (phase[r] \in {"answered", "gone"})

\* No slot leaks: those of dropped requests return to the pool as well.
SlotsReturn == \A r \in Requests : (conn[r] # "none") ~> (conn[r] = "none")

-----------------------------------------------------------------------------
\* The promise to clients, module UserStore. A definite answer shows what the
\* statement did; a 400 or 401 is a refusal; anything else tells nothing.
Told(r) ==
  IF phase[r] = "gone" \/ answer[r].status \in {408, 500, 503}
  THEN [code |-> "unknown", ids |-> {}]
  ELSE IF answer[r].status \in {400, 401} THEN [code |-> "refused", ids |-> {}]
  ELSE IF answer[r].status = 409 THEN [code |-> "duplicate", ids |-> {}]
  ELSE IF answer[r].status = 404 THEN [code |-> "missing", ids |-> {}]
  ELSE IF answer[r].status = 201 THEN [code |-> "inserted", ids |-> answer[r].ids]
  ELSE IF answer[r].status = 200
       THEN [code |-> IF input[r].kind = "health" THEN "alive" ELSE "found",
             ids |-> answer[r].ids]
  ELSE NoOutcome

Store == INSTANCE UserStore WITH
  Calls <- Requests,
  Asks <- Inputs,
  made <- {r \in Requests : phase[r] # "idle"},
  effect <- outcome,
  reply <- [r \in Requests |-> Told(r)],
  users <- {[id |-> u.id, email |-> u.email] : u \in rows}

\* The handlers, the pool, the timeouts and the failures together implement
\* the store: no effect twice, none after a refusal, none that a definite
\* answer misreports.
ImplementsStore == Store!StoreSpec

-----------------------------------------------------------------------------
\* "Adds recommended HTTP response security headers to all responses"
\* (security.rs 46).
AllResponsesSecured ==
  \A r \in Requests : phase[r] = "answered" => answer[r].secured

\* "Service or DB is down" is a 503 (handlers.rs 16): a health check that is
\* still trying to reach a server that is down is answered so.
DownIs503 ==
  [][\A r \in Requests :
       /\ input[r].kind = "health" /\ phase[r] = "connecting" /\ ~dbUp
       /\ phase'[r] = "answered"
       => answer'[r].status = 503]_vars
=============================================================================
