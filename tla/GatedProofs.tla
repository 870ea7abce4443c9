----------------------------- MODULE GatedProofs ----------------------------
(***************************************************************************)
(* Proofs about GatedService: that it implements both of its parts, and    *)
(* what follows for the service as a whole.                                *)
(***************************************************************************)
EXTENDS GatedService, StoreProofs

GateProofs == INSTANCE JwksProofs

\* Every joint step is a step, or a stutter, of either part.
LEMMA GateStep ==
  ASSUME [GatedNext]_gatedVars PROVE [Gate!Next]_Gate!vars
<1>1. UNCHANGED gateVars => UNCHANGED Gate!vars
  BY DEF gateVars, Gate!vars
<1>2. ASSUME NEW r \in Requests, Enter(r) \/ Consult(r) \/ Judge(r) \/ TurnAway(r) \/ Drop(r)
                                   \/ Handle(r)
      PROVE  [Gate!Next]_Gate!vars
  BY <1>1, <1>2 DEF Enter, Consult, Judge, TurnAway, Drop, CutOff, Handle, Gate!Next,
                    Gate!Middleware
<1>3. CASE Pass \/ Republish \/ CrashAll
  BY <1>1, <1>3 DEF Pass, Republish, CrashAll, Gate!Next
<1>4. CASE UNCHANGED gatedVars
  BY <1>1, <1>4 DEF gatedVars
<1> QED
  BY <1>2, <1>3, <1>4 DEF GatedNext

LEMMA ServiceStep ==
  ASSUME [GatedNext]_gatedVars PROVE [Next]_vars
<1>1. ASSUME NEW r \in Requests, Enter(r) \/ Judge(r) \/ TurnAway(r) \/ Drop(r) \/ Handle(r)
      PROVE  Next
  BY <1>1 DEF Enter, Judge, TurnAway, Drop, Handle, Next, Task, Environment
<1>2. ASSUME NEW r \in Requests, Consult(r) PROVE UNCHANGED vars
  BY <1>2 DEF Consult
<1>3. CASE Pass \/ Republish \/ CrashAll
  BY <1>3 DEF Pass, Republish, CrashAll, Next
<1>4. CASE UNCHANGED gatedVars
  BY <1>4 DEF gatedVars
<1> QED
  BY <1>1, <1>2, <1>3, <1>4 DEF GatedNext

\* The gate and the handlers, put together, are still the gate and the handlers.
THEOREM PartsHold == GatedSpec => PartsAreImplemented
<1>1. GatedInit => Init /\ Gate!Init
  BY DEF GatedInit
<1>2. [GatedNext]_gatedVars => [Next]_vars /\ [Gate!Next]_Gate!vars
  BY GateStep, ServiceStep
<1> QED
  BY <1>1, <1>2, PTL DEF GatedSpec, PartsAreImplemented, Spec, Gate!Spec

\* The promise to clients holds behind the gate as well.
THEOREM GatedStoreIsImplemented == GatedSpec => ImplementsStore
BY PartsHold, StoreIsImplemented, PTL DEF PartsAreImplemented

-----------------------------------------------------------------------------
\* The gate of the service is the one that JwksProofs is about.
LEMMA GateAssumed == GateProofs!JwksAssumption
BY GateAssumption
   DEF Gate!JwksAssumption, GateProofs!JwksAssumption, Gate!Jwk, GateProofs!Jwk

LEMMA SameGate == Gate!Spec => GateProofs!Spec
<1>1. Gate!Init => GateProofs!Init
  BY DEF Gate!Init, GateProofs!Init
<1>2. [Gate!Next]_Gate!vars => [GateProofs!Next]_GateProofs!vars
  BY DEF Gate!vars, GateProofs!vars, Gate!Next, GateProofs!Next,
         Gate!Middleware, GateProofs!Middleware, Gate!Arrive, GateProofs!Arrive,
         Gate!Deny, GateProofs!Deny, Gate!ReadCache, GateProofs!ReadCache,
         Gate!Missed, GateProofs!Missed, Gate!FetchBody, GateProofs!FetchBody,
         Gate!FetchFails, GateProofs!FetchFails, Gate!Leave, GateProofs!Leave,
         Gate!StoreBody, GateProofs!StoreBody, Gate!Filling, GateProofs!Filling,
         Gate!Decide, GateProofs!Decide, Gate!Candidates, GateProofs!Candidates,
         Gate!Verifies, GateProofs!Verifies, Gate!Cancel, GateProofs!Cancel,
         Gate!Awaiting, GateProofs!Awaiting, Gate!Retry, GateProofs!Retry,
         Gate!Publish, GateProofs!Publish, Gate!Restart, GateProofs!Restart,
         Gate!NewCache, GateProofs!NewCache
<1> QED
  BY <1>1, <1>2, PTL DEF Gate!Spec, GateProofs!Spec

\* What is proved about the gate alone holds of the gate of the service.
LEMMA GateHolds ==
  GatedSpec => /\ []GateProofs!TypeOK /\ []GateProofs!AdmittedIsVouched
               /\ []GateProofs!Grounds
<1>1. GateProofs!IInv => GateProofs!Grounds
  BY DEF GateProofs!IInv
<1> QED
  BY <1>1, PartsHold, SameGate, GateAssumed, GateProofs!TypeCorrect,
     GateProofs!GateIsSound, GateProofs!IInvInductive, PTL
     DEF PartsAreImplemented

\* The promise of the gate holds inside the service: no timeout, hang-up or
\* crash of a task, wherever its middleware is, bends a verdict.
THEOREM GatedGateIsImplemented == GatedSpec => GateProofs!ImplementsGate
BY PartsHold, SameGate, GateAssumed, GateProofs!GateIsImplemented, PTL
   DEF PartsAreImplemented

-----------------------------------------------------------------------------
\* What requests ask never changes.
LEMMA InputsStay ==
  ASSUME [Next]_vars PROVE input' = input
BY OnlyExecute DEF Execute

\* The service has begun to work for r, or has answered it.
Worked(r) ==
  \/ phase[r] \in {"handler", "queued", "connecting", "querying"}
  \/ conn[r] # "none" \/ stmt[r] # "none"
  \/ answer[r].status \notin {0, 401, 408}

\* It does so for nobody that the gate has not admitted.
Joint == \A r \in Requests : Protected(r) /\ Worked(r) => step[r] = "admitted"

\* A verdict is final.
LEMMA AdmittedForGood ==
  ASSUME GateProofs!TypeOK, [GatedNext]_gatedVars,
         NEW r \in Requests, step[r] = "admitted"
  PROVE  step'[r] = "admitted"
<1>1. step \in [Requests -> GateProofs!Steps]
  BY DEF GateProofs!TypeOK
<1>2. [Gate!Next]_Gate!vars
  BY GateStep
<1>3. ASSUME NEW q \in Requests,
             Gate!Arrive(q) \/ Gate!Middleware(q) \/ Gate!Cancel(q) \/ Gate!Retry(q)
      PROVE  step'[r] = "admitted"
  BY <1>1, <1>3
     DEF Gate!Arrive, Gate!Middleware, Gate!Deny, Gate!ReadCache, Gate!FetchBody,
         Gate!FetchFails, Gate!StoreBody, Gate!Decide, Gate!Cancel, Gate!Awaiting,
         Gate!Retry
<1>4. CASE Gate!Publish \/ Gate!Restart \/ UNCHANGED Gate!vars
  BY <1>1, <1>4 DEF Gate!Publish, Gate!Restart, Gate!Awaiting, Gate!vars
<1> QED
  BY <1>2, <1>3, <1>4 DEF Gate!Next

LEMMA JointStep ==
  ASSUME IInv, GateProofs!TypeOK, Joint, [GatedNext]_gatedVars PROVE Joint'
<1> SUFFICES ASSUME NEW q \in Requests, Protected(q), Worked(q)', ~Worked(q)
             PROVE  step'[q] = "admitted"
  <2>1. input' = input
    BY ServiceStep, InputsStay
  <2> QED
    BY <2>1, AdmittedForGood DEF Joint, Protected
<1> USE DEF IInv, TypeOK, Worked
<1>1. ASSUME NEW r \in Requests, Enter(r) PROVE FALSE
  BY <1>1 DEF Enter, Arrive
<1>2. ASSUME NEW r \in Requests, Consult(r) PROVE FALSE
  BY <1>2 DEF Consult, vars
<1>3. ASSUME NEW r \in Requests, Deny(r) PROVE FALSE
  <2>1. Failure(AppError("Unauthorized")).status = 401
    BY ResponseTypes DEF ProblemResponse
  <2> QED
    BY <1>3, <2>1 DEF Deny, Respond
<1>4. ASSUME NEW r \in Requests, Judge(r) PROVE step'[q] = "admitted"
  <2>1. Admit(r) /\ step'[r] = "admitted"
    BY <1>3, <1>4 DEF Judge
  <2>2. q = r
    BY <2>1 DEF Admit
  <2> QED
    BY <2>1, <2>2
<1>5. ASSUME NEW r \in Requests, Drop(r) PROVE FALSE
  <2>1. CASE Timeout(r)
    BY <2>1 DEF Timeout, Covered, Active, SlotsAfterDrop, Respond, BareTimeout
  <2>2. CASE Disconnect(r)
    BY <2>2 DEF Disconnect, Active, SlotsAfterDrop
  <2> QED
    BY <1>5, <2>1, <2>2 DEF Drop
<1>6. ASSUME NEW r \in Requests, Handle(r) PROVE FALSE
  <2>1. Worked(r)
    BY <1>6
       DEF Handle, Reject, AskPool, TakeSlot, Connect, ConnectFails, AcquireTimesOut,
           Finish, QueryFails, ReturnConnection, Execute, LoseConnection
  <2>2. q # r => Worked(q)' = Worked(q)
    BY <1>6
       DEF Handle, Reject, AskPool, TakeSlot, Connect, ConnectFails, AcquireTimesOut,
           Finish, QueryFails, ReturnConnection, Execute, LoseConnection, Respond
  <2> QED
    BY <2>1, <2>2
<1>7. ~(Pass \/ Republish \/ CrashAll \/ UNCHANGED gatedVars)
  BY DEF Pass, Tick, DbStops, DbStarts, Republish, CrashAll, Crash, gatedVars, vars
<1> QED
  BY <1>1, <1>2, <1>3, <1>4, <1>5, <1>6, <1>7 DEF GatedNext, TurnAway

\* Nobody gets work out of the database, or an answer of a handler under /users,
\* without a token that a served key set vouches for.
THEOREM NobodySlipsThrough == GatedSpec => []NothingWithoutToken
<1>1. GatedInit => Joint
  BY DEF GatedInit, Init, Joint, Worked, NoAnswer
<1>2. IInv /\ GateProofs!TypeOK /\ Joint /\ [GatedNext]_gatedVars => Joint'
  BY JointStep
<1>3. GatedSpec => []IInv
  BY PartsHold, Inductive, PTL DEF PartsAreImplemented
<1>4. Joint /\ GateProofs!AdmittedIsVouched => NothingWithoutToken
  BY DEF Joint, Worked, Protected, NothingWithoutToken, Vouched,
         GateProofs!AdmittedIsVouched, Gate!Vouches, GateProofs!Vouches,
         Gate!Candidates, GateProofs!Candidates
<1> QED
  BY <1>1, <1>2, <1>3, <1>4, GateHolds, PTL DEF GatedSpec

-----------------------------------------------------------------------------
\* A 401 is the answer to a request that the gate has denied.
Refusals ==
  \A r \in Requests :
    /\ phase[r] = "gate" => Protected(r)
    /\ answer[r].status = 401 => Protected(r) /\ step[r] = "denied"

\* A denial is final in the service, where a client that tries again sends
\* another request.
LEMMA DeniedForGood ==
  ASSUME GateProofs!TypeOK, [GatedNext]_gatedVars,
         NEW r \in Requests, step[r] = "denied"
  PROVE  step'[r] = "denied"
<1> USE DEF GateProofs!TypeOK
<1>1. ASSUME NEW q \in Requests,
             Gate!Arrive(q) \/ Gate!ReadCache(q) \/ Gate!FetchBody(q) \/ Gate!StoreBody(q)
               \/ Gate!Decide(q) \/ Gate!FetchFails(q) \/ Gate!Cancel(q)
      PROVE  step'[r] = "denied"
  BY <1>1 DEF Gate!Arrive, Gate!Deny, Gate!ReadCache, Gate!FetchBody, Gate!FetchFails,
              Gate!StoreBody, Gate!Decide, Gate!Cancel, Gate!Awaiting
<1>2. ASSUME Gate!Publish \/ Gate!Restart \/ UNCHANGED gateVars
      PROVE  step'[r] = "denied"
  BY <1>2 DEF Gate!Publish, Gate!Restart, Gate!Awaiting, gateVars
<1> QED
  BY <1>1, <1>2 DEF GatedNext, gatedVars, Enter, Consult, Judge, TurnAway, Drop, CutOff,
                    Handle, Pass, Republish, CrashAll

LEMMA RefusalsStep ==
  ASSUME IInv, GateProofs!TypeOK, Refusals, [GatedNext]_gatedVars PROVE Refusals'
<1> USE DEF IInv, TypeOK
<1>1. input' = input /\ [Next]_vars
  BY ServiceStep, InputsStay
<1>2. ASSUME NEW q \in Requests, phase'[q] = "gate", phase[q] # "gate" PROVE Protected(q)
  <2>1. ASSUME NEW r \in Requests, Arrive(r) PROVE Protected(q)
    BY <1>2, <2>1 DEF Arrive
  <2> QED
    BY <1>1, <1>2, <2>1
       DEF Next, Task, Environment, vars, Admit, Deny, Timeout, Disconnect, Tick, Crash,
           Reject, AskPool, TakeSlot, Connect, ConnectFails, AcquireTimesOut, Finish,
           QueryFails, ReturnConnection, LoseConnection, Execute, DbStops, DbStarts, Respond
<1>3. ASSUME NEW q \in Requests, answer'[q].status = 401, answer[q].status # 401
      PROVE  Protected(q) /\ step'[q] = "denied"
  <2>1. Deny(q)
    <3>1. ASSUME Finish(q) PROVE answer'[q].status # 401
      <4>1. outcome[q].code
              \in {"inserted", "duplicate", "toolong", "found", "missing", "alive"}
        BY <3>1 DEF Finish, Statements
      <4>2. answer'[q] = Reply(q)
        BY <3>1 DEF Finish, Respond
      <4> QED
        BY <4>1, <4>2, Replies DEF Success, ProblemResponse
    <3>2. ASSUME Reject(q) PROVE answer'[q].status # 401
      BY <3>2, ResponseTypes DEF Reject, Respond, ProblemResponse
    <3>3. answer'[q] # answer[q]
      BY <1>3
    <3>4. \/ Finish(q)
          \/ answer'[q].status \in {400, 401} /\ (Deny(q) \/ Reject(q))
          \/ answer'[q].status \in {408, 500, 503}
      BY ONLY <1>1, <3>3, q \in Requests, IInv, AnswerStep
    <3> QED
      BY ONLY <1>3, <3>1, <3>2, <3>4
  <2>2. phase[q] = "gate" /\ phase'[q] = "answered"
    BY <2>1 DEF Deny, Respond
  <2>3. step'[q] = "denied"
    <3>1. ASSUME NEW r \in Requests, Judge(r) PROVE step'[q] = "denied"
      <4>1. r = q
        BY <1>3, <3>1 DEF Judge, Admit, Deny, Respond
      <4>2. step'[q] # "admitted"
        BY <1>3, <3>1, <4>1 DEF Judge, Admit
      <4>3. Gate!Decide(q) \/ Gate!FetchFails(q)
        BY <3>1, <4>1 DEF Judge
      <4> QED
        BY <4>2, <4>3 DEF Gate!Decide, Gate!FetchFails, Gate!Deny, GateProofs!TypeOK
    <3>2. ASSUME NEW r \in Requests, TurnAway(r) PROVE step'[q] = "denied"
      BY <1>3, <3>2 DEF TurnAway, gateVars, Deny, Respond
    <3>3. ASSUME NEW r \in Requests, Enter(r) \/ Consult(r) PROVE FALSE
      BY <1>3, <3>3 DEF Enter, Arrive, Consult, vars
    <3>4. ASSUME NEW r \in Requests, Drop(r) PROVE FALSE
      BY <1>3, <3>4 DEF Drop, Timeout, Disconnect, Respond, BareTimeout
    <3>5. ASSUME NEW r \in Requests, Handle(r) PROVE FALSE
      BY <1>3, <2>2, <3>5
         DEF Handle, Reject, AskPool, TakeSlot, Connect, ConnectFails, AcquireTimesOut,
             Finish, QueryFails, ReturnConnection, Execute, LoseConnection, Respond
    <3>6. ~(Pass \/ Republish \/ CrashAll \/ UNCHANGED gatedVars)
      BY <1>3 DEF Pass, Tick, DbStops, DbStarts, Republish, CrashAll, Crash, gatedVars, vars
    <3> QED
      BY <3>1, <3>2, <3>3, <3>4, <3>5, <3>6 DEF GatedNext
  <2> QED
    BY <2>2, <2>3 DEF Refusals
<1> QED
  BY <1>1, <1>2, <1>3, DeniedForGood DEF Refusals, Protected

\* Nobody whose token every served key set vouches for is answered 401 unless no
\* key set could be had, and nobody at all outside /users.
THEOREM RefusalsHaveGrounds == GatedSpec => []RefusedForAReason
<1>1. GatedInit => Refusals
  BY DEF GatedInit, Init, Refusals, NoAnswer
<1>2. IInv /\ GateProofs!TypeOK /\ Refusals /\ [GatedNext]_gatedVars => Refusals'
  BY RefusalsStep
<1>3. GatedSpec => []IInv
  BY PartsHold, Inductive, PTL DEF PartsAreImplemented
<1>4. Refusals /\ GateProofs!Grounds => RefusedForAReason
  <2>1. ASSUME NEW b, NEW t PROVE Gate!Vouches(b, t) <=> GateProofs!Vouches(b, t)
    BY DEF Gate!Vouches, GateProofs!Vouches, Gate!Candidates, GateProofs!Candidates
  <2> QED
    BY <2>1 DEF Refusals, Protected, RefusedForAReason, GateProofs!Grounds
<1> QED
  BY <1>1, <1>2, <1>3, <1>4, GateHolds, PTL DEF GatedSpec
=============================================================================
