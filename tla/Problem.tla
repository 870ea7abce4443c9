------------------------------- MODULE Problem ------------------------------
(***************************************************************************)
(* How the service turns an error into an answer (src/error.rs): AppError, *)
(* its conversion to RFC 7807 problem details, and the test that tells a   *)
(* unique violation from the other errors of the database driver.          *)
(***************************************************************************)
EXTENDS Naturals

\* The `type` member that ProblemDetails::new derives from the status.
TypeUri ==
  [s \in {400, 401, 403, 404, 405, 409, 422, 500, 503} |->
     CASE s = 400 -> "bad-request"
       [] s = 401 -> "unauthorized"
       [] s = 403 -> "forbidden"
       [] s = 404 -> "not-found"
       [] s = 405 -> "method-not-allowed"
       [] s = 409 -> "conflict"
       [] s = 422 -> "unprocessable-entity"
       [] s = 500 -> "internal-server-error"
       [] s = 503 -> "service-unavailable"]

\* Where the `detail` member comes from: a text of the service's own, chosen at
\* the call ("own"), one fixed in error.rs ("stored"), or text of the cause
\* ("cause"), which only a log may carry.
ProblemDetails(status, detail) ==
  [status |-> status, type |-> TypeUri[status], detail |-> detail]

\* A sqlx::Error: an error the server reports with its SQLSTATE, or one of the
\* driver (I/O, pool), with the phrases its text contains.
SqlxError(origin, code, text) == [origin |-> origin, code |-> code, text |-> text]

\* duplicate key value violates unique constraint "users_email_key"
DuplicateKey ==
  SqlxError("server", "23505", {"duplicate", "duplicate key", "unique", "unique constraint"})
\* value too long for type character varying(255)
ValueTooLong == SqlxError("server", "22001", {"value too long"})
\* error communicating with database
ConnectionLost == SqlxError("driver", "none", {"error communicating with database"})
\* pool timed out while waiting for an open connection
PoolTimedOut == SqlxError("driver", "none", {"pool timed out"})

IsUniqueViolation_Any(e) == TRUE  \* mutation: every driver error is a conflict

IsUniqueViolation(e) ==
  IF e.origin = "server"
  THEN e.code = "23505" \/ e.text \cap {"unique", "duplicate"} # {}
  ELSE e.text \cap {"unique constraint", "duplicate key"} # {}

\* impl IntoResponse for AppError: the variants that carry only a detail.
StatusOf ==
  [BadRequest |-> 400, ValidationError |-> 400, ValidationFailed |-> 400,
   Unauthorized |-> 401, Forbidden |-> 403, NotFound |-> 404,
   MethodNotAllowed |-> 405, Conflict |-> 409, UnprocessableEntity |-> 422,
   ServiceUnavailable |-> 503]

AppError(variant) ==
  IF variant \in {"ValidationError", "ValidationFailed"}
  THEN [ProblemDetails(400, "own") EXCEPT !.type = "validation-error"]
  ELSE ProblemDetails(StatusOf[variant], "own")

InternalError == ProblemDetails(500, "stored")

DatabaseError(e) ==
  IF IsUniqueViolation(e) THEN ProblemDetails(409, "stored") ELSE InternalError

\* The extractors AppJson and AppPath: a rejection is a bad request.
Rejection == AppError("BadRequest")
=============================================================================
