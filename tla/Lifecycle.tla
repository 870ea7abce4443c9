----------------------------- MODULE Lifecycle ------------------------------
(***************************************************************************)
(* The process from start to end: main.rs, with telemetry.rs, db.rs and    *)
(* cache.rs as the steps of its start-up, axum's graceful shutdown as      *)
(* main.rs 51-53 asks for it, and a supervisor that starts it again.       *)
(*                                                                         *)
(* A client has one connection at a time.  What its requests do in the     *)
(* database is the subject of UserService; here a request matters as       *)
(* something that uses the pool and that a shutdown has to wait for.       *)
(***************************************************************************)
CONSTANTS
  Clients,
  Configs     \* what AppConfig::load may return, as far as main.rs reads it

\* otlp is "bad" when the exporter cannot be built from the endpoint; wildcard
\* says that "*" is one of the allowed origins.
ASSUME LifecycleAssumption ==
  Configs \subseteq [production : BOOLEAN, otlp : {"none", "good", "bad"},
                     redis : BOOLEAN, wildcard : BOOLEAN]

VARIABLES
  config,
  stage,      \* where main is
  logging,    \* there is a global tracing subscriber
  tracer,     \* the OTLP exporter: "none", "batching" or "shutdown"
  pool,       \* "none", "open" or "closed"
  watcher,    \* the task that runs shutdown_signal
  signalled,  \* SIGINT or SIGTERM has reached an installed handler
  conn,       \* conn[c]: how far the current request of c's connection is
  left,       \* clients whose dropped request still has a statement running
  migrated,   \* the table exists; outlives the process
  cut         \* history: clients with unfinished business when the process ended

process == <<config, stage, logging, tracer, pool, watcher, signalled>>
requests == <<conn, left>>
vars == <<process, requests, migrated, cut>>

Serving == {"serving", "draining"}
Ended == {"exited", "failed", "panicked", "killed"}
Stages == {"loading", "connecting", "migrating", "caching", "routing", "binding",
           "closing", "flushing"} \cup Serving \cup Ended
ConnStates == {"none", "idle", "sending", "handling", "querying", "replying"}

Start ==
  /\ stage = "loading" /\ logging = FALSE /\ tracer = "none" /\ pool = "none"
  /\ watcher = "none" /\ signalled = FALSE
  /\ conn = [c \in Clients |-> "none"] /\ left = {} /\ cut = {}

Init == Start /\ migrated = FALSE /\ config \in Configs

(***************************************************************************)
(* Start-up                                                                *)
(***************************************************************************)
Goto(from, to) == stage = from /\ stage' = to

ExportsTraces == config.production /\ config.otlp # "none"

\* init_tracing discards the error of try_init_tracing; building the exporter
\* comes before the registration of any subscriber.
InitTracing ==
  /\ Goto("loading", "connecting")
  /\ logging' = ~(ExportsTraces /\ config.otlp = "bad")
  /\ tracer' = IF ExportsTraces /\ config.otlp = "good" THEN "batching" ELSE "none"
  /\ UNCHANGED <<config, pool, watcher, signalled, requests, migrated, cut>>

CreatePool ==
  /\ Goto("connecting", "migrating")
  /\ pool' = "open"
  /\ UNCHANGED <<config, logging, tracer, watcher, signalled, requests, migrated, cut>>

\* One transaction under an advisory lock: it happens, or it does not.
RunMigrations ==
  /\ Goto("migrating", "caching")
  /\ migrated' = TRUE
  /\ UNCHANGED <<config, logging, tracer, pool, watcher, signalled, requests, cut>>

\* RedisCache::new, when there is a URL.
ConnectRedis ==
  /\ Goto("caching", "routing")
  /\ UNCHANGED <<config, logging, tracer, pool, watcher, signalled, requests, migrated, cut>>

\* create_router; AllowOrigin::list panics when it is given the wildcard.
RouterPanics == config.production /\ config.wildcard

BuildRouter ==
  /\ ~RouterPanics
  /\ Goto("routing", "binding")
  /\ UNCHANGED <<config, logging, tracer, pool, watcher, signalled, requests, migrated, cut>>

\* Binds the address, and axum::serve spawns the task of shutdown_signal.
Bind ==
  /\ Goto("binding", "serving")
  /\ watcher' = "spawned"
  /\ UNCHANGED <<config, logging, tracer, pool, signalled, requests, migrated, cut>>

\* The process ends: what its tasks and its statements were doing is cut off.
End(how) ==
  /\ stage' = how
  /\ cut' = {c \in Clients : conn[c] \notin {"none", "idle"}} \cup left
  /\ conn' = [c \in Clients |-> "none"] /\ left' = {}
  /\ UNCHANGED <<config, logging, pool, watcher, signalled, migrated>>

\* The `?` of main, each at its await, and the panic of the router.
StartFails ==
  /\ \/ stage \in {"connecting", "migrating", "binding"}
     \/ stage = "caching" /\ config.redis
  /\ End("failed") /\ UNCHANGED tracer
StartPanics ==
  /\ stage = "routing" /\ RouterPanics
  /\ End("panicked") /\ UNCHANGED tracer

(***************************************************************************)
(* Serving                                                                 *)
(***************************************************************************)
Move(c, from, to) == conn[c] \in from /\ conn' = [conn EXCEPT ![c] = to]

\* The listener goes when the shutdown begins.
Accepting_Draining == stage \in Serving  \* mutation: it goes with the last connection

Accepting == stage = "serving"

\* A client returns when its last statement has ended (a bound of the model).
Accept(c) ==
  /\ Accepting /\ c \notin left
  /\ Move(c, {"none"}, "sending")
  /\ UNCHANGED <<process, left, migrated, cut>>

NextRequest(c) ==
  /\ stage \in Serving /\ c \notin left
  /\ Move(c, {"idle"}, "sending")
  /\ UNCHANGED <<process, left, migrated, cut>>

Receive(c) ==
  /\ stage \in Serving
  /\ Move(c, {"sending"}, "handling")
  /\ UNCHANGED <<process, left, migrated, cut>>

\* The handler has a connection of the pool, and its statement is running.
Query(c) ==
  /\ stage \in Serving /\ pool = "open"
  /\ Move(c, {"handling"}, "querying")
  /\ UNCHANGED <<process, left, migrated, cut>>

\* The handler answers, with the statement's result, its failure or neither.
Respond(c) ==
  /\ stage \in Serving
  /\ Move(c, {"handling", "querying"}, "replying")
  /\ UNCHANGED <<process, left, migrated, cut>>

\* A dropped handler leaves its statement, and the connection, behind.
Leave(c) == left' = IF conn[c] = "querying" THEN left \cup {c} ELSE left

\* The TimeoutLayer.
TimeOut(c) ==
  /\ stage \in Serving
  /\ Move(c, {"handling", "querying"}, "replying") /\ Leave(c)
  /\ UNCHANGED <<process, migrated, cut>>

\* The client has read the response; a connection that is told to shut down
\* gracefully takes no further request.
After_KeepAlive == "idle"  \* mutation: draining connections are kept alive
After_Closed == "closed"  \* mutation: the connection stays, in a state of its own

After == IF stage = "draining" THEN "none" ELSE "idle"

Replied(c) ==
  /\ stage \in Serving
  /\ Move(c, {"replying"}, After)
  /\ UNCHANGED <<process, left, migrated, cut>>

HangUp(c) ==
  /\ stage \in Serving
  /\ Move(c, ConnStates \ {"none"}, "none") /\ Leave(c)
  /\ UNCHANGED <<process, migrated, cut>>

\* A statement left behind ends, and its connection is back in the pool.
Return(c) ==
  /\ c \in left
  /\ left' = left \ {c}
  /\ UNCHANGED <<process, conn, migrated, cut>>

(***************************************************************************)
(* Shutdown                                                                *)
(***************************************************************************)
\* The first poll of shutdown_signal installs both handlers; a failure ends
\* its branch of the select!, and with it the function.
Install ==
  /\ stage \in Serving /\ watcher = "spawned"
  /\ watcher' \in {"waiting", "over"}
  /\ UNCHANGED <<config, stage, logging, tracer, pool, signalled, requests, migrated, cut>>

\* Without a handler the signal kills the process (see Kill) or, for process 1
\* of a container, is ignored.  tokio's handlers stay: later ones do nothing.
Signal ==
  /\ stage \in Serving /\ watcher = "waiting" /\ ~signalled
  /\ signalled' = TRUE
  /\ UNCHANGED <<config, stage, logging, tracer, pool, watcher, requests, migrated, cut>>

WatcherEnds ==
  /\ stage \in Serving /\ watcher = "waiting" /\ signalled
  /\ watcher' = "over"
  /\ UNCHANGED <<config, stage, logging, tracer, pool, signalled, requests, migrated, cut>>

ShutdownBegins_AtOnce == watcher # "none"  \* mutation: a branch that is never pending

ShutdownBegins == watcher = "over"

StopAccepting ==
  /\ ShutdownBegins
  /\ Goto("serving", "draining")
  /\ UNCHANGED <<config, logging, tracer, pool, watcher, signalled, requests, migrated, cut>>

\* Connections whose next request the server has not read are closed.  A request
\* that is on its way may as well still be read, the first one of a connection
\* above all: then Receive comes first, and it is served.
CloseUnread(c) ==
  /\ stage = "draining"
  /\ Move(c, {"idle", "sending"}, "none")
  /\ UNCHANGED <<process, left, migrated, cut>>

\* axum::serve returns when the last connection is gone; pool.close() starts.
Drained_AtOnce == TRUE  \* mutation: serve without waiting for the connections

Drained == \A c \in Clients : conn[c] = "none"

ClosePool ==
  /\ Drained
  /\ Goto("draining", "closing")
  /\ pool' = "closed"
  /\ UNCHANGED <<config, logging, tracer, watcher, signalled, requests, migrated, cut>>

\* pool.close() waits until every connection is back.
AllReturned_NotAwaited == TRUE  \* mutation: pool.close() without its await

AllReturned == left = {}

PoolClosed ==
  /\ AllReturned
  /\ Goto("closing", "flushing")
  /\ UNCHANGED <<config, logging, tracer, pool, watcher, signalled, requests, migrated, cut>>

\* shutdown_tracer_provider, under a condition of its own (main.rs 58), and Ok.
FlushesTraces_ByRedis == config.redis /\ config.production  \* mutation: the wrong option

FlushesTraces == config.otlp # "none" /\ config.production

Exit ==
  /\ stage = "flushing"
  /\ tracer' = IF FlushesTraces /\ tracer = "batching" THEN "shutdown" ELSE tracer
  /\ End("exited")

\* A crash, SIGKILL, or a signal that no handler catches.
Kill == stage \notin Ended /\ End("killed") /\ UNCHANGED tracer

Restart ==
  /\ stage \in Ended
  /\ stage' = "loading" /\ logging' = FALSE /\ tracer' = "none" /\ pool' = "none"
  /\ watcher' = "none" /\ signalled' = FALSE /\ cut' = {}
  /\ UNCHANGED <<config, requests, migrated>>

Starting ==
  InitTracing \/ CreatePool \/ RunMigrations \/ ConnectRedis \/ BuildRouter \/ Bind
StartUp == Starting \/ StartFails \/ StartPanics
Shutdown ==
  \/ Install \/ WatcherEnds \/ StopAccepting \/ ClosePool \/ PoolClosed \/ Exit
Client(c) == Accept(c) \/ NextRequest(c) \/ Receive(c) \/ Replied(c) \/ HangUp(c)
Server(c) == Query(c) \/ Respond(c) \/ TimeOut(c) \/ CloseUnread(c) \/ Return(c)

Next ==
  \/ StartUp \/ Shutdown \/ Signal \/ Kill \/ Restart
  \/ \E c \in Clients : Client(c) \/ Server(c)

Spec == Init /\ [][Next]_vars

\* Tasks run, timers fire, what the start-up awaits comes or fails, the server
\* ends a statement or the driver notices that it will not; nothing is assumed
\* of clients, signals and restarts, nor that a connection is closed whose
\* request is on its way.
FairSpec ==
  /\ Spec /\ WF_vars(Starting)
  /\ WF_vars(Install) /\ WF_vars(WatcherEnds) /\ WF_vars(StopAccepting)
  /\ WF_vars(ClosePool) /\ WF_vars(PoolClosed) /\ WF_vars(Exit)
  /\ \A c \in Clients :
       /\ WF_vars(Respond(c) \/ TimeOut(c)) /\ WF_vars(Return(c))
       /\ WF_vars(conn[c] = "idle" /\ CloseUnread(c))

(***************************************************************************)
(* Properties                                                              *)
(***************************************************************************)
TypeOK ==
  /\ config \in Configs /\ stage \in Stages
  /\ logging \in BOOLEAN /\ tracer \in {"none", "batching", "shutdown"}
  /\ pool \in {"none", "open", "closed"}
  /\ watcher \in {"none", "spawned", "waiting", "over"} /\ signalled \in BOOLEAN
  /\ conn \in [Clients -> ConnStates] /\ left \in SUBSET Clients
  /\ migrated \in BOOLEAN /\ cut \in SUBSET Clients

\* A request that the server has taken never meets a pool that is closed or a
\* database without its table, whenever the signal came and however often the
\* process was killed before (order of main.rs 23-56).
PoolOutlivesRequests ==
  \A c \in Clients : conn[c] # "none" => pool = "open" /\ migrated

\* A process that exits by itself leaves no request that it has read unanswered
\* and no statement of a dropped request running: both the drain and pool.close() are waited for
\* (main.rs 51-56).
CleanExitCutsNobody == stage = "exited" => cut = {}

\* A process that exits by itself has shut its exporter down if it had one:
\* main.rs 58 and telemetry.rs 53-63 decide alike.
TracesAreFlushed == stage = "exited" => tracer # "batching"

\* Once shutdown_signal has returned the process ends, provided that no client
\* keeps the server waiting for ever for a request or for the response to be
\* read; timeouts, hang-ups and running statements do not prevent it.
ClientsAreLive == \A c \in Clients : []<>(conn[c] \notin {"sending", "replying"})
ShutdownCompletes ==
  ClientsAreLive => (stage = "serving" /\ watcher = "over" ~> stage \in Ended)

\* A step without trouble: nothing fails, nobody kills the process or tells it
\* to end.
Calm ==
  /\ stage' \in {"failed", "killed"} => stage' = stage
  /\ watcher = "spawned" => watcher' # "over"
  /\ signalled' => signalled

\* Trouble does no lasting harm: under a supervisor the service is up for good
\* once it ends. A start that failed for the database or for Redis, a crash
\* after the migrations, a handler that could not be installed are all made up
\* for by the next start (main.rs 23-53).
ComesBack ==
  /\ <>[][Calm]_vars /\ []<>(stage \notin Ended)
  /\ ClientsAreLive /\ ~RouterPanics
  => <>[](stage = "serving")

-----------------------------------------------------------------------------
\* The promise of the process, module GracefulService.
Life ==
  CASE stage = "serving" -> "up"
    [] stage \in {"draining", "closing", "flushing"} -> "stopping"
    [] stage = "exited" -> "ended"
    [] stage \in Ended \ {"exited"} -> "broken"
    [] OTHER -> "starting"
Talk(c) ==
  CASE conn[c] \in {"none", "idle"} -> conn[c]
    [] conn[c] = "sending" -> "asking"
    [] conn[c] = "replying" -> "answered"
    [] OTHER -> "busy"

Graceful == INSTANCE GracefulService WITH
  life <- Life,
  talk <- [c \in Clients |-> Talk(c)],
  running <- left,
  table <- migrated

\* From start to end the process keeps it, wherever failures, signals and
\* crashes come: nobody is accepted once it stops, everybody whose request was
\* read is answered unless they hang up, which the drain owes to no request that
\* it has not read, and it ends by itself with nothing behind (main.rs 23-62).
StopsGracefully == Graceful!GracefulSpec

\* "Initializes the global tracing subscriber" (telemetry.rs 6): a service that
\* serves has one.
ServiceLogs == stage \in Serving => logging
=============================================================================
