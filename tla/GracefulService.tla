--------------------------- MODULE GracefulService --------------------------
(***************************************************************************)
(* What the process promises those who talk to it and those who operate    *)
(* it, with no signals, tracing, pool or configuration: it opens with its  *)
(* table in place, accepts nobody once it stops, answers every request     *)
(* that it has read unless its client breaks off, and ends by itself only  *)
(* when nobody is there and nothing runs in the database any more.  A      *)
(* request that it has not read when it stops is owed nothing.             *)
(***************************************************************************)
CONSTANT Clients

VARIABLES
  life,     \* "starting", "up", "stopping", "ended" or "broken"
  talk,     \* talk[c]: "none", "idle", "asking" until the request of c has been
            \* read, "busy" until it is answered, "answered"
  running,  \* clients that were answered or left while a statement was running
  table     \* the database has the table

gracefulVars == <<life, talk, running, table>>

Quiet == [c \in Clients |-> "none"]

GracefulInit == life = "starting" /\ talk = Quiet /\ running = {} /\ table = FALSE

Prepare == life = "starting" /\ table' = TRUE /\ UNCHANGED <<life, talk, running>>

Live(from, to) == life = from /\ life' = to /\ UNCHANGED <<talk, running, table>>

Open == table /\ Live("starting", "up")
Stop == Live("up", "stopping")
End == talk = Quiet /\ running = {} /\ Live("stopping", "ended")

\* A failed start or a crash, at any time.
Break ==
  /\ life \notin {"ended", "broken"} /\ life' = "broken"
  /\ talk' = Quiet /\ running' = {}
  /\ UNCHANGED table

Renew ==
  /\ life \in {"ended", "broken"} /\ life' = "starting"
  /\ UNCHANGED <<talk, running, table>>

Say(c, from, to) ==
  /\ life \in {"up", "stopping"}
  /\ talk[c] \in from /\ talk' = [talk EXCEPT ![c] = to]
  /\ UNCHANGED <<life, table>>

Come(c) == life = "up" /\ Say(c, {"none"}, "asking") /\ UNCHANGED running
Ask(c) == Say(c, {"idle"}, "asking") /\ UNCHANGED running
Take(c) == Say(c, {"asking"}, "busy") /\ UNCHANGED running

\* An answer, or the end of a conversation, may leave a statement behind.
MayLeave(c) == running' \in {running, running \cup {c}}
Answer(c) == Say(c, {"busy"}, "answered") /\ MayLeave(c)
HangUp(c) == Say(c, {"idle", "asking", "busy", "answered"}, "none") /\ MayLeave(c)

\* Nobody is kept once the process stops, and only who is busy is waited for.
Stay(c) == life = "up" /\ Say(c, {"answered"}, "idle") /\ UNCHANGED running
Part(c) ==
  /\ life = "stopping" /\ Say(c, {"idle", "asking", "answered"}, "none")
  /\ UNCHANGED running

Finish(c) == running' = running \ {c} /\ UNCHANGED <<life, talk, table>>

GracefulNext ==
  \/ Prepare \/ Open \/ Stop \/ End \/ Break \/ Renew
  \/ \E c \in Clients : \/ Come(c) \/ Ask(c) \/ Take(c) \/ Answer(c) \/ HangUp(c)
                        \/ Stay(c) \/ Part(c) \/ Finish(c)

GracefulSpec == GracefulInit /\ [][GracefulNext]_gracefulVars
=============================================================================
