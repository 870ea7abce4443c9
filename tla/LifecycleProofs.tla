--------------------------- MODULE LifecycleProofs --------------------------
(***************************************************************************)
(* Proofs about Lifecycle, for any set of clients and of configurations.   *)
(***************************************************************************)
EXTENDS Lifecycle, TLAPS

THEOREM TypeCorrectLemma ==
  ASSUME TypeOK, [Next]_vars PROVE TypeOK'
<1> USE DEF TypeOK, requests, process, End, Goto, Move, Leave, Stages, Serving, Ended,
            ConnStates
<1>1. CASE StartUp
  BY <1>1 DEF StartUp, Starting, InitTracing, CreatePool, RunMigrations, ConnectRedis, BuildRouter,
              Bind, StartFails, StartPanics
<1>2. CASE Shutdown
  BY <1>2 DEF Shutdown, Install, WatcherEnds, StopAccepting, ClosePool, PoolClosed, Exit
<1>3. CASE Signal \/ Kill \/ Restart
  BY <1>3 DEF Signal, Kill, Restart
<1>4. ASSUME NEW c \in Clients, Client(c) PROVE TypeOK'
  BY <1>4 DEF Client, Accept, Accepting, NextRequest, Receive, Replied, After, HangUp
<1>5. ASSUME NEW c \in Clients, Server(c) PROVE TypeOK'
  BY <1>5 DEF Server, Query, Respond, TimeOut, CloseUnread, Return
<1>6. CASE UNCHANGED vars
  BY <1>6 DEF vars
<1>7. QED
  BY <1>1, <1>2, <1>3, <1>4, <1>5, <1>6 DEF Next

\* Every variable keeps its type, whatever the clients do.
THEOREM TypeCorrect == Spec => []TypeOK
<1>1. Init => TypeOK
  BY DEF Init, Start, TypeOK, Stages, ConnStates
<1>2. QED
  BY <1>1, TypeCorrectLemma, PTL DEF Spec

-----------------------------------------------------------------------------
\* What each stage of main has behind it.
Ordered ==
  /\ stage \in {"migrating", "caching", "routing", "binding"} \cup Serving => pool = "open"
  /\ stage \in {"caching", "routing", "binding", "closing", "flushing"} \cup Serving => migrated
  \* connections only exist while the server serves,
  /\ stage \notin Serving => \A c \in Clients : conn[c] = "none"
  \* and statements of dropped requests until the pool is closed.
  /\ stage \notin Serving \cup {"closing"} => left = {}

\* The exporter exists only under the condition of telemetry.rs.
ExporterHasReason == tracer = "batching" => ExportsTraces

LInv ==
  /\ TypeOK /\ Ordered /\ ExporterHasReason
  /\ CleanExitCutsNobody /\ TracesAreFlushed

THEOREM Initially == Init => LInv
BY DEF Init, Start, LInv, TypeOK, Stages, ConnStates, Ordered, ExporterHasReason,
       CleanExitCutsNobody, TracesAreFlushed, Serving

THEOREM Inductive == LInv /\ [Next]_vars => LInv'
<1> SUFFICES ASSUME LInv, [Next]_vars PROVE LInv'
  OBVIOUS
<1> DEFINE Rest == Ordered' /\ ExporterHasReason' /\ CleanExitCutsNobody' /\ TracesAreFlushed'
<1>1. TypeOK'
  BY TypeCorrectLemma DEF LInv
<1> SUFFICES Rest
  BY <1>1 DEF LInv
<1> USE DEF LInv, TypeOK, Ordered, ExporterHasReason, ExportsTraces, CleanExitCutsNobody,
            TracesAreFlushed, Serving, requests, process
<1>2. CASE StartUp
  BY <1>2 DEF StartUp, Starting, InitTracing, CreatePool, RunMigrations, ConnectRedis, BuildRouter,
              Bind, StartFails, StartPanics, End, Goto
<1>3. CASE Install \/ WatcherEnds \/ StopAccepting
  BY <1>3 DEF Install, WatcherEnds, StopAccepting, Goto
<1>4. CASE ClosePool
  \* The drain: no connection is left when the stage is no longer a serving one.
  BY <1>4 DEF ClosePool, Drained, Goto
<1>5. CASE PoolClosed
  BY <1>5 DEF PoolClosed, AllReturned, Goto
<1>6. CASE Exit
  <2>1. left = {} /\ \A c \in Clients : conn[c] = "none"
    BY <1>6 DEF Exit
  <2>2. cut' = {}
    BY <1>6, <2>1 DEF Exit, End
  <2>3. QED
    BY <1>6, <2>2 DEF Exit, FlushesTraces, End
<1>7. CASE Signal
  BY <1>7 DEF Signal
<1>8. CASE Kill
  BY <1>8 DEF Kill, End
<1>9. CASE Restart
  BY <1>9 DEF Restart, Ended
<1>10. ASSUME NEW c \in Clients, Client(c) PROVE Rest
  BY <1>10 DEF Client, Accept, Accepting, NextRequest, Receive, Replied, After, HangUp, Move, Leave
<1>11. ASSUME NEW c \in Clients, Server(c) PROVE Rest
  BY <1>11 DEF Server, Query, Respond, TimeOut, CloseUnread, Return, Move, Leave
<1>12. CASE UNCHANGED vars
  BY <1>12 DEF vars
<1>13. QED
  BY <1>2, <1>3, <1>4, <1>5, <1>6, <1>7, <1>8, <1>9, <1>10, <1>11, <1>12 DEF Next, Shutdown

\* The pool is open and the table exists as long as there is a connection.
THEOREM PoolIsThere == Spec => []PoolOutlivesRequests
<1>1. LInv => PoolOutlivesRequests
  BY DEF LInv, Ordered, PoolOutlivesRequests, Serving
<1>2. QED
  BY <1>1, Initially, Inductive, PTL DEF Spec

\* A process that exits by itself has answered every request that it has read and
\* left no statement.
THEOREM CleanExits == Spec => []CleanExitCutsNobody
<1>1. LInv => CleanExitCutsNobody
  BY DEF LInv
<1>2. QED
  BY <1>1, Initially, Inductive, PTL DEF Spec

\* The conditions of telemetry.rs and of main.rs on the exporter fit together.
THEOREM FlushesAtExit == Spec => []TracesAreFlushed
<1>1. LInv => TracesAreFlushed
  BY DEF LInv
<1>2. QED
  BY <1>1, Initially, Inductive, PTL DEF Spec

-----------------------------------------------------------------------------
\* What those outside see of the connections, as StopsGracefully maps it.
Talks == [c \in Clients |-> Talk(c)]

LEMMA OthersTalkOn ==
  ASSUME TypeOK, NEW c \in Clients, NEW to, conn' = [conn EXCEPT ![c] = to]
  PROVE  Talks' = [Talks EXCEPT ![c] = Talk(c)']
<1>1. \A d \in Clients \ {c} : Talk(d)' = Talk(d)
  BY DEF TypeOK, Talk
<1> QED
  BY <1>1 DEF Talks

LEMMA NobodyTalks ==
  (\A c \in Clients : conn[c] = "none") => Talks = Graceful!Quiet
BY DEF Talks, Talk, Graceful!Quiet

LEMMA SameTalk == ASSUME conn' = conn PROVE Talks' = Talks
BY DEF Talks, Talk

LEMMA GracefulInitially == Init => Graceful!GracefulInit
<1> SUFFICES ASSUME Init PROVE Graceful!GracefulInit
  OBVIOUS
<1>1. Talks = Graceful!Quiet /\ Life = "starting"
  BY NobodyTalks DEF Init, Start, Life, Ended
<1> QED
  BY <1>1 DEF Init, Start, Graceful!GracefulInit, Talks

\* Start-up and shutdown: main goes from stage to stage, and nobody talks when
\* it ends.
LEMMA MainIsGraceful ==
  ASSUME LInv, StartUp \/ Shutdown \/ Signal \/ Kill \/ Restart
  PROVE  Graceful!GracefulNext \/ UNCHANGED Graceful!gracefulVars
<1> USE DEF LInv, TypeOK
<1> DEFINE Same == UNCHANGED <<Talks, left, migrated>>
<1>1. CASE RunMigrations
  <2>1. Life = "starting" /\ Life' = "starting" /\ Talks' = Talks
    BY <1>1, SameTalk DEF RunMigrations, Goto, Life, requests, Ended
  <2> QED
    BY <1>1, <2>1 DEF RunMigrations, requests, Graceful!GracefulNext, Graceful!Prepare, Talks
<1>2. CASE InitTracing \/ CreatePool \/ ConnectRedis \/ BuildRouter
  <2>1. Life' = Life /\ Same
    BY <1>2, SameTalk DEF InitTracing, CreatePool, ConnectRedis, BuildRouter, Goto, Life,
                          requests, Ended
  <2> QED
    BY <2>1 DEF Graceful!gracefulVars, Talks
<1>3. CASE Bind
  <2>1. Life = "starting" /\ Life' = "up" /\ migrated /\ Same
    BY <1>3, SameTalk DEF Bind, Goto, Life, requests, Ended, Ordered
  <2> QED
    BY <2>1 DEF Graceful!GracefulNext, Graceful!Open, Graceful!Live, Talks
<1>4. CASE StartFails \/ StartPanics \/ Kill
  <2>1. Life \notin {"ended", "broken"} /\ Life' = "broken"
    BY <1>4 DEF StartFails, StartPanics, Kill, End, Life, Ended
  <2>2. Talks' = Graceful!Quiet
    BY <1>4 DEF StartFails, StartPanics, Kill, End, Talks, Talk, Graceful!Quiet
  <2>3. left' = {} /\ migrated' = migrated
    BY <1>4 DEF StartFails, StartPanics, Kill, End
  <2> QED
    BY <2>1, <2>2, <2>3 DEF Graceful!GracefulNext, Graceful!Break, Talks
<1>5. CASE StopAccepting
  <2>1. Life = "up" /\ Life' = "stopping" /\ Same
    BY <1>5, SameTalk DEF StopAccepting, Goto, Life, requests, Ended
  <2> QED
    BY <2>1 DEF Graceful!GracefulNext, Graceful!Stop, Graceful!Live, Talks
<1>6. CASE Install \/ WatcherEnds \/ Signal \/ ClosePool \/ PoolClosed
  <2>1. Life' = Life /\ Same
    BY <1>6, SameTalk DEF Install, WatcherEnds, Signal, ClosePool, PoolClosed, Goto, Life,
                          requests, Ended
  <2> QED
    BY <2>1 DEF Graceful!gracefulVars, Talks
<1>7. CASE Exit
  <2>1. Life = "stopping" /\ Life' = "ended"
    BY <1>7 DEF Exit, End, Life, Ended
  <2>2. left = {} /\ left' = {} /\ migrated' = migrated
    BY <1>7 DEF Exit, End, Ordered, Serving
  <2>3. Talks = Graceful!Quiet
    BY <1>7, NobodyTalks DEF Exit, Ordered, Serving
  <2>4. Talks' = Graceful!Quiet
    BY <1>7 DEF Exit, End, Talks, Talk, Graceful!Quiet
  <2> QED
    BY <2>1, <2>2, <2>3, <2>4 DEF Graceful!GracefulNext, Graceful!End, Graceful!Live, Talks
<1>8. CASE Restart
  <2>1. Life \in {"ended", "broken"} /\ Life' = "starting" /\ Same
    BY <1>8, SameTalk DEF Restart, Life, requests, Ended
  <2> QED
    BY <2>1 DEF Graceful!GracefulNext, Graceful!Renew, Talks
<1> QED
  BY <1>1, <1>2, <1>3, <1>4, <1>5, <1>6, <1>7, <1>8 DEF StartUp, Starting, Shutdown

\* A connection's step, where it changes what its client sees.
LEMMA Said ==
  ASSUME LInv, NEW c \in Clients, NEW from, NEW to, stage \in Serving, Move(c, from, to),
         UNCHANGED <<stage, migrated>>
  PROVE  /\ Life' = Life
         /\ stage = "serving" => Life = "up"
         /\ stage = "draining" => Life = "stopping"
         /\ \A F : Talk(c) \in F => Graceful!Say(c, F, Talk(c)')
<1>1. /\ Life' = Life /\ Life \in {"up", "stopping"}
      /\ stage = "serving" => Life = "up"
      /\ stage = "draining" => Life = "stopping"
  BY DEF Life, Serving, Ended
<1>2. Talks' = [Talks EXCEPT ![c] = Talk(c)'] /\ Talks[c] = Talk(c)
  BY OthersTalkOn DEF Move, LInv, Talks
<1> QED
  BY <1>1, <1>2 DEF Graceful!Say, Talks

LEMMA ConnectionsAreGraceful ==
  ASSUME LInv, NEW c \in Clients, Client(c) \/ Server(c)
  PROVE  Graceful!GracefulNext \/ UNCHANGED Graceful!gracefulVars
<1> USE DEF LInv, TypeOK, process
<1> DEFINE Told == \A F : Talk(c) \in F => Graceful!Say(c, F, Talk(c)')
<1>1. CASE Accept(c)
  <2>1. Talk(c) = "none" /\ Talk(c)' = "asking" /\ left' = left
    BY <1>1 DEF Accept, Move, Talk
  <2>2. Life = "up" /\ Told
    BY <1>1, Said DEF Accept, Accepting, Serving
  <2> QED
    BY <2>1, <2>2 DEF Graceful!GracefulNext, Graceful!Come
<1>2. CASE NextRequest(c)
  <2>1. Talk(c) = "idle" /\ Talk(c)' = "asking" /\ left' = left
    BY <1>2 DEF NextRequest, Move, Talk
  <2>2. Told
    BY <1>2, Said DEF NextRequest
  <2> QED
    BY <2>1, <2>2 DEF Graceful!GracefulNext, Graceful!Ask
<1>3. CASE Receive(c)
  <2>1. Talk(c) = "asking" /\ Talk(c)' = "busy" /\ left' = left
    BY <1>3 DEF Receive, Move, Talk
  <2>2. Told
    BY <1>3, Said DEF Receive
  <2> QED
    BY <2>1, <2>2 DEF Graceful!GracefulNext, Graceful!Take
<1>4. CASE Query(c)
  <2>1. /\ Talk(c) = "busy" /\ Talk(c)' = "busy" /\ UNCHANGED <<left, migrated, stage>>
        /\ \E to : conn' = [conn EXCEPT ![c] = to]
    BY <1>4 DEF Query, Move, Talk
  <2>2. Talks' = Talks
    BY <2>1, OthersTalkOn DEF Talks
  <2>3. Life' = Life
    BY <2>1 DEF Life
  <2> QED
    BY <2>1, <2>2, <2>3 DEF Graceful!gracefulVars, Talks
<1>5. CASE Respond(c) \/ TimeOut(c)
  <2>1. Talk(c) = "busy" /\ Talk(c)' = "answered" /\ left' \in {left, left \cup {c}}
    BY <1>5 DEF Respond, TimeOut, Leave, Move, Talk
  <2>2. Told
    BY <1>5, Said DEF Respond, TimeOut
  <2> QED
    BY <2>1, <2>2 DEF Graceful!GracefulNext, Graceful!Answer, Graceful!MayLeave
<1>6. CASE Replied(c)
  <2>1. Talk(c) = "answered" /\ Talk(c)' = After /\ left' = left
    BY <1>6 DEF Replied, Move, Talk, After
  <2>2. Told /\ (stage = "serving" => Life = "up") /\ (stage = "draining" => Life = "stopping")
    BY <1>6, Said DEF Replied
  <2>3. stage \in {"serving", "draining"}
    BY <1>6 DEF Replied, Serving
  <2> QED
    BY <2>1, <2>2, <2>3 DEF After, Graceful!GracefulNext, Graceful!Stay, Graceful!Part
<1>7. CASE HangUp(c)
  <2>1. /\ Talk(c) \in {"idle", "asking", "busy", "answered"} /\ Talk(c)' = "none"
        /\ left' \in {left, left \cup {c}}
    BY <1>7 DEF HangUp, Leave, Move, Talk
  <2>2. Told
    BY <1>7, Said DEF HangUp
  <2> QED
    BY <2>1, <2>2 DEF Graceful!GracefulNext, Graceful!HangUp, Graceful!MayLeave
<1>8. CASE CloseUnread(c)
  <2>1. Talk(c) \in {"idle", "asking"} /\ Talk(c)' = "none" /\ left' = left
    BY <1>8 DEF CloseUnread, Move, Talk
  <2>2. Told /\ Life = "stopping"
    BY <1>8, Said DEF CloseUnread, Serving
  <2> QED
    BY <2>1, <2>2 DEF Graceful!GracefulNext, Graceful!Part
<1>9. CASE Return(c)
  <2>1. Talks' = Talks /\ Life' = Life /\ migrated' = migrated /\ left' = left \ {c}
    BY <1>9, SameTalk DEF Return, Life
  <2> QED
    BY <2>1 DEF Graceful!GracefulNext, Graceful!Finish, Talks
<1> QED
  BY <1>1, <1>2, <1>3, <1>4, <1>5, <1>6, <1>7, <1>8, <1>9 DEF Client, Server

\* Every behaviour of the process, whatever fails, is one of GracefulService.
THEOREM ProcessIsGraceful == Spec => StopsGracefully
<1>1. UNCHANGED vars => UNCHANGED Graceful!gracefulVars
  BY DEF vars, process, requests, Graceful!gracefulVars, Life, Talk
<1>2. LInv /\ [Next]_vars => [Graceful!GracefulNext]_Graceful!gracefulVars
  BY <1>1, MainIsGraceful, ConnectionsAreGraceful DEF Next
<1> QED
  BY <1>2, GracefulInitially, Initially, Inductive, PTL
     DEF Spec, StopsGracefully, Graceful!GracefulSpec
=============================================================================
