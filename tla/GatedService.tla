---------------------------- MODULE GatedService ----------------------------
(***************************************************************************)
(* The router of the service (src/routes.rs): the JWT gate of module Jwks  *)
(* around the handlers of module UserService, both under the request       *)
(* timeout.  Every step is a step of one of the two or a joint one: the    *)
(* verdict of the gate lets the task go on to its handler or answers it, a *)
(* deadline or a hang-up ends the middleware together with the task, and a *)
(* crash takes the cache along with the tasks.                             *)
(*                                                                         *)
(* The state of UserService is extended, that of Jwks shared by name: a    *)
(* request has a `phase` in the service and a `step` in the gate.          *)
(***************************************************************************)
EXTENDS UserService

CONSTANTS Bodies, WellFormed, KeySet, Kids, Keys, Unusable, NoKid,
          Tokens, NoToken, BadToken, NoBody
VARIABLES endpoint, cached, step, token, json, reason, published, recent, window

Gate == INSTANCE Jwks

ASSUME GateAssumption == Gate!JwksAssumption

gateVars == <<endpoint, cached, step, token, json, reason, published, recent, window>>
gatedVars == <<vars, gateVars>>

GatedInit == Init /\ Gate!Init

\* route_layer puts the gate around the two /users routes; /health, like
\* everything without a JWKS URL, goes straight to its handler.
Enter(r) ==
  /\ Arrive(r)
  /\ IF Protected(r) THEN Gate!Arrive(r) ELSE UNCHANGED gateVars

\* The middleware on its way to a verdict; nothing of the service moves.
Consult(r) ==
  /\ Running(r)
  /\ Gate!ReadCache(r) \/ Gate!FetchBody(r) \/ Gate!StoreBody(r)
  /\ UNCHANGED vars

\* The verdict: next.run(request), or the 401 in the handler's stead.
Judge(r) ==
  /\ Gate!Decide(r) \/ Gate!FetchFails(r)
  /\ IF step'[r] = "admitted" THEN Admit(r) ELSE Deny(r)

\* A request without a usable token was denied before it asked for a key.
TurnAway(r) == step[r] = "denied" /\ Deny(r) /\ UNCHANGED gateVars

\* TimeoutLayer, or hyper, drops the task with whatever it is awaiting.
CutOff_Emptied(r) ==  \* mutation: a fetch that is cut off empties the cache
  IF step[r] = "fetch"
  THEN cached' = NoBody /\ UNCHANGED <<endpoint, step, token, json, reason, published, recent, window>>
  ELSE UNCHANGED gateVars

CutOff(r) ==
  IF step[r] \in Gate!Awaiting THEN Gate!Cancel(r) ELSE UNCHANGED gateVars

\* From the body to the verdict there is no `.await`: nothing is dropped there
\* and no time passes.
Drop(r) == step[r] # "lookup" /\ (Timeout(r) \/ Disconnect(r)) /\ CutOff(r)

\* Behind the gate it plays no part any more.
Handle(r) ==
  /\ \/ Reject(r) \/ AskPool(r)
     \/ TakeSlot(r) \/ Connect(r) \/ ConnectFails(r) \/ AcquireTimesOut(r)
     \/ Finish(r) \/ QueryFails(r) \/ ReturnConnection(r)
     \/ Execute(r) \/ LoseConnection(r)
  /\ UNCHANGED gateVars

Pass ==
  /\ \/ Tick /\ \A r \in Requests : step[r] # "lookup"
     \/ DbStops \/ DbStarts
  /\ UNCHANGED gateVars

Republish == Gate!Publish /\ UNCHANGED vars

CrashAll == Crash /\ Gate!Restart

GatedNext ==
  \/ \E r \in Requests :
       Enter(r) \/ Consult(r) \/ Judge(r) \/ TurnAway(r) \/ Drop(r) \/ Handle(r)
  \/ Pass \/ Republish \/ CrashAll

GatedSpec == GatedInit /\ [][GatedNext]_gatedVars

\* The clock runs, the timeout fires and a token that can be judged is. Nothing
\* is assumed of the identity provider, which may let every fetch hang, nor of
\* the database.
FairGatedSpec ==
  /\ GatedSpec
  /\ WF_gatedVars(Pass /\ Tick)
  /\ \A r \in Requests : WF_gatedVars(step[r] = "lookup" /\ Judge(r))
                           /\ WF_gatedVars(Drop(r) /\ Timeout(r))

-----------------------------------------------------------------------------
\* The database does work for a request under /users only if some key set that
\* the provider really served vouches for its token, and nobody else is
\* answered anything but 401 or 408: whatever is cached or fetched, times out,
\* crashes or is rotated meanwhile (routes.rs 100-109, auth.rs 129-160).
Vouched(r) ==
  token[r] \in Tokens /\ \E b \in published : Gate!Vouches(b, token[r])
NothingWithoutToken ==
  \A r \in Requests :
    /\ AuthConfigured /\ input[r].kind # "health"
    /\ conn[r] # "none" \/ stmt[r] # "none" \/ answer[r].status \notin {0, 401, 408}
    => Vouched(r)

\* A 401 is the client's own doing or that of an outage: only a request under
\* /users gets one, and if every key set that was ever served vouches for its
\* token, then because no key set could be had, whatever other requests, failed
\* fetches or crashes left behind (auth.rs 118-160, routes.rs 100-109).
RefusedForAReason ==
  \A r \in Requests :
    answer[r].status = 401 =>
      /\ AuthConfigured /\ input[r].kind # "health"
      /\ token[r] \in Tokens /\ (\A b \in published : Gate!Vouches(b, token[r]))
           => reason[r] = "key"

\* Neither part notices the other: the service goes through behaviours of
\* UserService, and the gate through those of Jwks, so that what holds of each
\* of them alone holds of the two together.
PartsAreImplemented == Spec /\ Gate!Spec
=============================================================================
