----------------------------- MODULE JwksProofs -----------------------------
(***************************************************************************)
(* Proofs about Jwks for any number of requests, bodies, keys and tokens.  *)
(* The inductive invariant says where the three copies of a body come from *)
(* (the endpoint, the cache, a request) and that the window of a request   *)
(* that asks the endpoint holds what it serves now.                         *)
(***************************************************************************)
EXTENDS Jwks, TLAPS

\* Bodies are only ever copied from the endpoint, by this process: a request
\* has one from the fetch, or the cache, to the verdict.
Provenance ==
  /\ endpoint \in recent /\ recent \subseteq published
  /\ cached \in recent \cup {NoBody}
  /\ \A r \in Requests :
       IF step[r] \in {"store", "lookup"} THEN json[r] \in recent ELSE json[r] = NoBody

\* What a request fetched, or is about to fetch, is in its window.
Windows ==
  \A r \in Requests :
    /\ step[r] = "fetch" => endpoint \in window[r]
    /\ step[r] = "store" => json[r] \in window[r]

\* Only a request with a token gets past the first checks.
HasToken ==
  \A r \in Requests :
    step[r] \in Awaiting \cup {"lookup", "cancelled"} \/ reason[r] = "key"
      => token[r] \in Tokens

\* A denial has its grounds: no token, no key, or a body that does not vouch.
Grounds ==
  \A r \in Requests :
    step[r] = "denied" =>
      \/ token[r] \notin Tokens
      \/ reason[r] = "key"
      \/ \E b \in published : ~Vouches(b, token[r])

IInv == TypeOK /\ Provenance /\ Windows /\ HasToken /\ AdmittedIsVouched /\ Grounds

-----------------------------------------------------------------------------
\* Type correctness: every variable of the gate keeps its type.
THEOREM TypeCorrect == Spec => []TypeOK
<1>1. Init => TypeOK
  BY DEF Init, TypeOK, Steps, Reasons
<1>2. TypeOK /\ [Next]_vars => TypeOK'
  <2> SUFFICES ASSUME TypeOK, [Next]_vars PROVE TypeOK'
    OBVIOUS
  <2> USE DEF TypeOK, Steps, Reasons
  <2>1. ASSUME NEW r \in Requests, Arrive(r) PROVE TypeOK'
    BY <2>1 DEF Arrive, Deny
  <2>2. ASSUME NEW r \in Requests, ReadCache(r) PROVE TypeOK'
    BY <2>2 DEF ReadCache, Missed
  <2>3. ASSUME NEW r \in Requests, FetchBody(r) PROVE TypeOK'
    BY <2>3 DEF FetchBody
  <2>4. ASSUME NEW r \in Requests, FetchFails(r) PROVE TypeOK'
    BY <2>4 DEF FetchFails, Deny, Leave
  <2>5. ASSUME NEW r \in Requests, StoreBody(r) PROVE TypeOK'
    BY <2>5 DEF StoreBody, Filling
  <2>6. ASSUME NEW r \in Requests, Decide(r) PROVE TypeOK'
    BY <2>6 DEF Decide, Deny, Leave
  <2>7. ASSUME NEW r \in Requests, Cancel(r) PROVE TypeOK'
    BY <2>7 DEF Cancel, Leave
  <2>8. ASSUME NEW r \in Requests, Retry(r) PROVE TypeOK'
    BY <2>8 DEF Retry
  <2>9. CASE Publish
    BY <2>9 DEF Publish
  <2>10. CASE Restart
    BY <2>10 DEF Restart, NewCache, Awaiting
  <2>11. CASE UNCHANGED vars
    BY <2>11 DEF vars
  <2> QED
    BY <2>1, <2>2, <2>3, <2>4, <2>5, <2>6, <2>7, <2>8, <2>9, <2>10, <2>11
       DEF Next, Middleware
<1> QED
  BY <1>1, <1>2, PTL DEF Spec

-----------------------------------------------------------------------------
\* The lookup returns at most one key.
LEMMA OneCandidate ==
  ASSUME NEW b, NEW kid, NEW k \in Candidates(b, kid), NEW l \in Candidates(b, kid)
  PROVE  k = l
<1> DEFINE S == KeySet[b]
           Matching == {i \in DOMAIN S : kid \in {NoKid, S[i].kid}}
           First == {i \in Matching : \A j \in Matching : i <= j}
<1>1. b \in WellFormed
  BY DEF Candidates
<1>2. S \in Seq(Jwk)
  BY <1>1, JwksAssumption DEF JwksAssumption
<1>3. DOMAIN S \subseteq Nat
  BY <1>2
<1>4. PICK i \in First, j \in First : k = S[i].key /\ l = S[j].key
  BY <1>1 DEF Candidates
<1>5. i = j
  BY <1>3, <1>4
<1> QED
  BY <1>4, <1>5

\* The verdict of the lookup is the one the body and the token call for.
LEMMA Verdicts ==
  ASSUME NEW b, NEW t, NEW k \in Candidates(b, t.kid)
  PROVE  Verifies(t, k) <=> Vouches(b, t)
BY OneCandidate DEF Verifies, Vouches

-----------------------------------------------------------------------------
LEMMA InitIInv == Init => IInv
BY DEF Init, IInv, TypeOK, Provenance, Windows, HasToken, AdmittedIsVouched, Grounds,
       Steps, Reasons, Awaiting

LEMMA ProvenanceStep ==
  ASSUME TypeOK, Provenance, [Next]_vars PROVE Provenance'
<1> USE DEF TypeOK, Provenance, Awaiting, NewCache
<1>1. ASSUME NEW r \in Requests, Arrive(r) PROVE Provenance'
  BY <1>1 DEF Arrive, Deny
<1>2. ASSUME NEW r \in Requests, ReadCache(r) PROVE Provenance'
  BY <1>2 DEF ReadCache, Missed
<1>3. ASSUME NEW r \in Requests, FetchBody(r) PROVE Provenance'
  BY <1>3 DEF FetchBody
<1>4. ASSUME NEW r \in Requests, FetchFails(r) PROVE Provenance'
  BY <1>4 DEF FetchFails, Deny, Leave
<1>5. ASSUME NEW r \in Requests, StoreBody(r) PROVE Provenance'
  BY <1>5 DEF StoreBody, Filling
<1>6. ASSUME NEW r \in Requests, Decide(r) PROVE Provenance'
  BY <1>6 DEF Decide, Deny, Leave
<1>7. ASSUME NEW r \in Requests, Cancel(r) PROVE Provenance'
  BY <1>7 DEF Cancel, Leave
<1>8. ASSUME NEW r \in Requests, Retry(r) PROVE Provenance'
  BY <1>8 DEF Retry
<1>9. CASE Publish
  BY <1>9 DEF Publish
<1>10. CASE Restart
  BY <1>10 DEF Restart
<1>11. CASE UNCHANGED vars
  BY <1>11 DEF vars
<1> QED
  BY <1>1, <1>2, <1>3, <1>4, <1>5, <1>6, <1>7, <1>8, <1>9, <1>10, <1>11
     DEF Next, Middleware

LEMMA WindowsStep ==
  ASSUME TypeOK, Windows, [Next]_vars PROVE Windows'
<1> USE DEF TypeOK, Windows, Awaiting
<1>1. ASSUME NEW r \in Requests, Arrive(r) PROVE Windows'
  BY <1>1 DEF Arrive, Deny
<1>2. ASSUME NEW r \in Requests, ReadCache(r) PROVE Windows'
  BY <1>2 DEF ReadCache, Missed
<1>3. ASSUME NEW r \in Requests, FetchBody(r) PROVE Windows'
  BY <1>3 DEF FetchBody
<1>4. ASSUME NEW r \in Requests, FetchFails(r) PROVE Windows'
  BY <1>4 DEF FetchFails, Deny, Leave
<1>5. ASSUME NEW r \in Requests, StoreBody(r) PROVE Windows'
  BY <1>5 DEF StoreBody, Filling
<1>6. ASSUME NEW r \in Requests, Decide(r) PROVE Windows'
  BY <1>6 DEF Decide, Deny, Leave
<1>7. ASSUME NEW r \in Requests, Cancel(r) PROVE Windows'
  BY <1>7 DEF Cancel, Leave
<1>8. ASSUME NEW r \in Requests, Retry(r) PROVE Windows'
  BY <1>8 DEF Retry
<1>9. CASE Publish
  BY <1>9 DEF Publish
<1>10. CASE Restart
  BY <1>10 DEF Restart
<1>11. CASE UNCHANGED vars
  BY <1>11 DEF vars
<1> QED
  BY <1>1, <1>2, <1>3, <1>4, <1>5, <1>6, <1>7, <1>8, <1>9, <1>10, <1>11
     DEF Next, Middleware

LEMMA HasTokenStep ==
  ASSUME TypeOK, HasToken, [Next]_vars PROVE HasToken'
<1> USE DEF TypeOK, HasToken, Awaiting
<1>1. ASSUME NEW r \in Requests, Arrive(r) PROVE HasToken'
  BY <1>1 DEF Arrive, Deny
<1>2. ASSUME NEW r \in Requests, ReadCache(r) PROVE HasToken'
  BY <1>2 DEF ReadCache, Missed
<1>3. ASSUME NEW r \in Requests, FetchBody(r) PROVE HasToken'
  BY <1>3 DEF FetchBody
<1>4. ASSUME NEW r \in Requests, FetchFails(r) PROVE HasToken'
  BY <1>4 DEF FetchFails, Deny, Leave
<1>5. ASSUME NEW r \in Requests, StoreBody(r) PROVE HasToken'
  BY <1>5 DEF StoreBody, Filling
<1>6. ASSUME NEW r \in Requests, Decide(r) PROVE HasToken'
  BY <1>6 DEF Decide, Deny, Leave
<1>7. ASSUME NEW r \in Requests, Cancel(r) PROVE HasToken'
  BY <1>7 DEF Cancel, Leave
<1>8. ASSUME NEW r \in Requests, Retry(r) PROVE HasToken'
  BY <1>8 DEF Retry
<1>9. CASE Publish
  BY <1>9 DEF Publish
<1>10. CASE Restart
  BY <1>10 DEF Restart
<1>11. CASE UNCHANGED vars
  BY <1>11 DEF vars
<1> QED
  BY <1>1, <1>2, <1>3, <1>4, <1>5, <1>6, <1>7, <1>8, <1>9, <1>10, <1>11
     DEF Next, Middleware

\* What was vouched for once stays vouched for: `published` only grows.
LEMMA AdmittedStep ==
  ASSUME IInv, [Next]_vars PROVE AdmittedIsVouched'
<1> USE DEF IInv, TypeOK, AdmittedIsVouched
<1>1. ASSUME NEW r \in Requests, Arrive(r) PROVE AdmittedIsVouched'
  BY <1>1 DEF Arrive, Deny
<1>2. ASSUME NEW r \in Requests, ReadCache(r) PROVE AdmittedIsVouched'
  BY <1>2 DEF ReadCache, Missed
<1>3. ASSUME NEW r \in Requests, FetchBody(r) PROVE AdmittedIsVouched'
  BY <1>3 DEF FetchBody
<1>4. ASSUME NEW r \in Requests, FetchFails(r) PROVE AdmittedIsVouched'
  BY <1>4 DEF FetchFails, Deny, Leave
<1>5. ASSUME NEW r \in Requests, StoreBody(r) PROVE AdmittedIsVouched'
  BY <1>5 DEF StoreBody, Filling
<1>6. ASSUME NEW r \in Requests, Decide(r) PROVE AdmittedIsVouched'
  <2>1. token[r] \in Tokens /\ json[r] \in published
    BY <1>6 DEF Decide, HasToken, Provenance
  <2>2. step'[r] = "admitted" => Vouches(json[r], token[r])
    BY <1>6 DEF Decide, Deny, Verifies, Vouches, Leave
  <2>3. UNCHANGED <<token, published>>
    BY <1>6 DEF Decide, Leave
  <2>4. \A s \in Requests : s # r => step'[s] = step[s]
    BY <1>6 DEF Decide, Deny, Leave
  <2> QED
    BY <2>1, <2>2, <2>3, <2>4
<1>7. ASSUME NEW r \in Requests, Cancel(r) PROVE AdmittedIsVouched'
  BY <1>7 DEF Cancel, Leave
<1>8. ASSUME NEW r \in Requests, Retry(r) PROVE AdmittedIsVouched'
  BY <1>8 DEF Retry
<1>9. CASE Publish
  BY <1>9 DEF Publish
<1>10. CASE Restart
  BY <1>10 DEF Restart
<1>11. CASE UNCHANGED vars
  BY <1>11 DEF vars
<1> QED
  BY <1>1, <1>2, <1>3, <1>4, <1>5, <1>6, <1>7, <1>8, <1>9, <1>10, <1>11
     DEF Next, Middleware

LEMMA GroundsStep ==
  ASSUME TypeOK, Provenance, Grounds, [Next]_vars PROVE Grounds'
<1> USE DEF TypeOK, Grounds
<1>1. ASSUME NEW r \in Requests, Arrive(r) PROVE Grounds'
  BY <1>1, JwksAssumption DEF Arrive, Deny, JwksAssumption
<1>2. ASSUME NEW r \in Requests, Decide(r) PROVE Grounds'
  <2>1. json[r] \in published
    BY <1>2 DEF Decide, Provenance
  <2>2. step'[r] = "denied" => reason'[r] = "key" \/ ~Vouches(json[r], token[r])
    BY <1>2, Verdicts DEF Decide, Deny
  <2>3. UNCHANGED <<token, published>>
    BY <1>2 DEF Decide
  <2>4. \A s \in Requests : s # r => step'[s] = step[s] /\ reason'[s] = reason[s]
    BY <1>2 DEF Decide, Deny
  <2> QED
    BY <2>1, <2>2, <2>3, <2>4
<1>3. ASSUME NEW r \in Requests, ReadCache(r) \/ FetchBody(r) \/ StoreBody(r)
      PROVE  Grounds'
  BY <1>3 DEF ReadCache, FetchBody, StoreBody
<1>4. ASSUME NEW r \in Requests, FetchFails(r) \/ Cancel(r) \/ Retry(r) PROVE Grounds'
  BY <1>4 DEF FetchFails, Deny, Cancel, Retry
<1>5. CASE Publish \/ Restart
  BY <1>5 DEF Publish, Restart
<1>6. CASE UNCHANGED vars
  BY <1>6 DEF vars
<1> QED
  BY <1>1, <1>2, <1>3, <1>4, <1>5, <1>6 DEF Next, Middleware

LEMMA IInvInductive == Spec => []IInv
<1>1. TypeOK /\ IInv /\ TypeOK' /\ [Next]_vars => IInv'
  BY ProvenanceStep, WindowsStep, HasTokenStep, AdmittedStep, GroundsStep DEF IInv
<1> QED
  BY <1>1, InitIInv, TypeCorrect, PTL DEF Spec

-----------------------------------------------------------------------------
\* No interleaving of fetches, failures, cancellations and rotations lets a
\* request through the gate without a token that a served key set vouches for.
THEOREM GateIsSound == Spec => []AdmittedIsVouched
BY IInvInductive, PTL DEF IInv

\* A request that fetched the key set itself is judged by one that was served
\* while it waited.
THEOREM FreshKeys == Spec => FetchedIsFresh
<1>1. IInv /\ [Next]_vars =>
        \A r \in Requests :
          step[r] = "store" /\ step'[r] = "lookup" => json'[r] \in window[r]
  <2> SUFFICES ASSUME IInv, [Next]_vars, NEW r \in Requests,
                      step[r] = "store", step'[r] = "lookup"
               PROVE  json'[r] \in window[r]
    OBVIOUS
  <2>1. json[r] \in window[r]
    BY DEF IInv, Windows
  <2>2. json' = json \/ \E s \in Requests : s # r /\ json' = [json EXCEPT ![s] = json'[s]]
    BY DEF Next, Middleware, vars, IInv, TypeOK, Arrive, ReadCache, FetchBody,
           FetchFails, StoreBody, Filling, Decide, Cancel, Retry, Publish, Restart, Deny, Leave
  <2> QED
    BY <2>1, <2>2 DEF IInv, TypeOK
<1> QED
  BY <1>1, IInvInductive, PTL DEF Spec, FetchedIsFresh, vars

\* A settled cache stays as it is for the rest of the process's life.
THEOREM CacheSettles == Spec => Settles
<1>1. IInv /\ [Next]_vars =>
        (cached # NoBody /\ Fetching = {} =>
           cached' \in {cached, NoBody} /\ Fetching' = {})
  <2> SUFFICES ASSUME IInv, [Next]_vars, cached # NoBody, Fetching = {}
               PROVE  cached' \in {cached, NoBody} /\ Fetching' = {}
    OBVIOUS
  <2>1. \A r \in Requests : step[r] \notin {"fetch", "store"}
    BY DEF Fetching
  <2>2. cached' \in {cached, NoBody}
    BY <2>1 DEF Next, Middleware, vars, Arrive, ReadCache, FetchBody, FetchFails,
                StoreBody, Decide, Cancel, Retry, Publish, Restart, NewCache
  <2>3. \A r \in Requests : step'[r] \notin {"fetch", "store"}
    <3>1. CASE Restart
      BY <2>1, <3>1 DEF Restart
    <3>2. CASE [Next]_vars /\ ~Restart
      BY <2>1, <3>2 DEF Next, Middleware, vars, IInv, TypeOK, Arrive, ReadCache, Missed,
                  FetchBody, FetchFails, StoreBody, Decide, Cancel, Retry, Publish, Deny
    <3> QED
      BY <3>1, <3>2
  <2> QED
    BY <2>2, <2>3 DEF Fetching
<1> QED
  BY <1>1, IInvInductive, PTL DEF Spec, Settles, vars

-----------------------------------------------------------------------------
\* The variables of the gatekeeper, as ImplementsGate maps them.
GoodPairs == {p \in Bodies \X Tokens : Vouches(p[1], p[2])}
Outcomes == [r \in Requests |-> Verdict(r)]

LEMMA PairsAreVouched ==
  ASSUME NEW b \in Bodies, NEW t \in Tokens
  PROVE  <<b, t>> \in GoodPairs <=> Vouches(b, t)
BY DEF GoodPairs

LEMMA NothingFromNoBody ==
  ASSUME NEW t PROVE <<NoBody, t>> \notin GoodPairs
BY JwksAssumption DEF GoodPairs, JwksAssumption

\* A step of one request changes the verdict of no other.
LEMMA OthersKeepTheirs ==
  ASSUME NEW r \in Requests,
         \A q \in Requests \ {r} : step'[q] = step[q] /\ reason'[q] = reason[q]
  PROVE  Outcomes' = [Outcomes EXCEPT ![r] = Verdict(r)']
<1>1. \A q \in Requests \ {r} : Verdict(q)' = Verdict(q)
  BY DEF Verdict
<1> QED
  BY <1>1 DEF Outcomes

\* On its way to a verdict, a request is pending.
LEMMA Pending ==
  ASSUME NEW r \in Requests, step[r] \in Awaiting \cup {"lookup"}
  PROVE  Verdict(r) = "pending" /\ Outcomes[r] = "pending"
BY DEF Verdict, Outcomes, Awaiting

LEMMA StillPending ==
  ASSUME NEW r \in Requests, step'[r] \in Awaiting \cup {"lookup"}
  PROVE  Verdict(r)' = "pending"
BY DEF Verdict, Awaiting

LEMMA KeeperInitially == Init => Keeper!GateInit
BY DEF Init, Keeper!GateInit, Verdict

LEMMA Presentation ==
  ASSUME IInv, NEW r \in Requests, Arrive(r)
  PROVE  \E t \in Tokens \cup {NoToken, BadToken} : Keeper!Present(r, t)
<1> USE DEF IInv, TypeOK
<1>1. PICK t \in Tokens \cup {NoToken, BadToken} :
        /\ token' = [token EXCEPT ![r] = t]
        /\ \/ t = NoToken /\ Deny(r, "missing")
           \/ t = BadToken /\ Deny(r, "format")
           \/ t \in Tokens /\ step' = [step EXCEPT ![r] = "check"] /\ UNCHANGED reason
  BY DEF Arrive
<1>2. step[r] = "idle" /\ UNCHANGED <<recent, json>>
  BY DEF Arrive
<1>3. Outcomes[r] = "none"
  BY <1>2 DEF Outcomes, Verdict
<1>4. Verdict(r)' = IF t \in Tokens THEN "pending" ELSE "refused"
  BY <1>1, JwksAssumption DEF Verdict, Deny, JwksAssumption
<1>5. Outcomes' = [Outcomes EXCEPT ![r] = Verdict(r)']
  BY <1>1, OthersKeepTheirs DEF Deny
<1> QED
  BY <1>1, <1>2, <1>3, <1>4, <1>5 DEF Keeper!Present, Outcomes

\* Any other step of one request changes its step, its body and its verdict.
LEMMA Resolution ==
  ASSUME IInv, NEW r \in Requests, UNCHANGED <<token, recent>>,
         step[r] \in Awaiting \cup {"lookup"}, Leave(r),
         \A q \in Requests \ {r} : step'[q] = step[q] /\ reason'[q] = reason[q]
  PROVE  Keeper!Resolve(r, Verdict(r)')
<1>1. Outcomes[r] = "pending"
  BY Pending
<1>2. Outcomes' = [Outcomes EXCEPT ![r] = Verdict(r)']
  BY OthersKeepTheirs
<1> QED
  BY <1>1, <1>2 DEF Keeper!Resolve, Outcomes, Leave

\* A body that comes from the cache or from the endpoint.
LEMMA Acquisition ==
  ASSUME IInv, NEW r \in Requests, NEW b, UNCHANGED <<token, recent, reason>>,
         step[r] \in {"check", "fetch"}, step'[r] \in {"store", "lookup"},
         \A q \in Requests \ {r} : step'[q] = step[q],
         json' = [json EXCEPT ![r] = b]
  PROVE  Keeper!Obtain(r, b)
<1>1. Outcomes[r] = "pending" /\ Verdict(r)' = "pending"
  BY Pending, StillPending DEF Awaiting
<1>2. Outcomes' = Outcomes
  BY <1>1, OthersKeepTheirs DEF Outcomes
<1>3. json[r] = NoBody
  BY DEF IInv, Provenance
<1> QED
  BY <1>1, <1>2, <1>3 DEF Keeper!Obtain, Outcomes

LEMMA Judgement ==
  ASSUME IInv, NEW r \in Requests, Decide(r)
  PROVE  Keeper!Admit(r) \/ Keeper!Refuse(r) \/ Keeper!Excuse(r)
<1> USE DEF IInv, TypeOK
<1> DEFINE t == token[r]
           C == Candidates(json[r], t.kid)
<1>1. /\ step[r] = "lookup" /\ Leave(r) /\ UNCHANGED <<token, recent>>
      /\ \/ C = {} /\ Deny(r, "key")
         \/ \E k \in C :
              \/ /\ Verifies(t, k)
                 /\ step' = [step EXCEPT ![r] = "admitted"] /\ UNCHANGED reason
              \/ ~Verifies(t, k) /\ Deny(r, "token")
  BY DEF Decide
<1>2. t \in Tokens /\ json[r] \in Bodies /\ json[r] # NoBody
  BY <1>1, JwksAssumption DEF HasToken, Provenance, JwksAssumption
<1>3. <<json[r], t>> \in GoodPairs <=> Vouches(json[r], t)
  BY <1>2, PairsAreVouched
<1>4. Keeper!Resolve(r, Verdict(r)')
  BY <1>1, Resolution DEF Deny
<1>5. CASE C = {} /\ Deny(r, "key")
  <2>1. ~Vouches(json[r], t)
    BY <1>5 DEF Vouches
  <2>2. Verdict(r)' = "unavailable"
    BY <1>5 DEF Deny, Verdict
  <2> QED
    BY <1>3, <1>4, <2>1, <2>2 DEF Keeper!Excuse, GoodPairs
<1>6. ASSUME NEW k \in C, Verifies(t, k), step' = [step EXCEPT ![r] = "admitted"]
      PROVE  Keeper!Admit(r)
  <2>1. Vouches(json[r], t)
    BY <1>6, Verdicts
  <2>2. Verdict(r)' = "admitted"
    BY <1>6 DEF Verdict
  <2> QED
    BY <1>3, <1>4, <2>1, <2>2 DEF Keeper!Admit, GoodPairs
<1>7. ASSUME NEW k \in C, ~Verifies(t, k), Deny(r, "token")
      PROVE  Keeper!Refuse(r)
  <2>1. ~Vouches(json[r], t)
    BY <1>7, Verdicts
  <2>2. Verdict(r)' = "refused"
    BY <1>7 DEF Deny, Verdict
  <2> QED
    BY <1>2, <1>3, <1>4, <2>1, <2>2 DEF Keeper!Refuse, GoodPairs
<1> QED
  BY <1>1, <1>5, <1>6, <1>7

\* Every step of the gate is one of the gatekeeper, or nothing it can tell.
LEMMA KeeperStep ==
  ASSUME IInv, [Next]_vars
  PROVE  Keeper!GateNext \/ UNCHANGED Keeper!gateVars
<1> USE DEF IInv, TypeOK
<1> DEFINE Stutter == UNCHANGED <<recent, token, json, Outcomes>>
<1>1. ASSUME NEW r \in Requests, Arrive(r)
      PROVE  \E t \in Tokens \cup {NoToken, BadToken} : Keeper!Present(r, t)
  BY <1>1, Presentation
<1>2. ASSUME NEW r \in Requests, ReadCache(r)
      PROVE  Stutter \/ \E b \in recent : Keeper!Obtain(r, b)
  <2>1. CASE Missed
    <3>1. /\ UNCHANGED <<recent, token, json, reason>>
          /\ step[r] = "check" /\ step' = [step EXCEPT ![r] = "fetch"]
      BY <1>2, <2>1 DEF ReadCache
    <3>2. Outcomes' = Outcomes
      BY <3>1, Pending, StillPending, OthersKeepTheirs DEF Awaiting, Outcomes
    <3> QED
      BY <3>1, <3>2
  <2>2. CASE ~Missed
    <3>1. cached \in recent
      BY <2>2 DEF Missed, Provenance
    <3>2. Keeper!Obtain(r, cached)
      BY <1>2, <2>2, Acquisition DEF ReadCache
    <3> QED
      BY <3>1, <3>2
  <2> QED
    BY <2>1, <2>2
<1>3. ASSUME NEW r \in Requests, FetchBody(r)
      PROVE  endpoint \in recent /\ Keeper!Obtain(r, endpoint)
  BY <1>3, Acquisition DEF FetchBody, Provenance
<1>4. ASSUME NEW r \in Requests, FetchFails(r) PROVE Keeper!Excuse(r)
  <2>1. json[r] = NoBody /\ Verdict(r)' = "unavailable"
    BY <1>4 DEF FetchFails, Deny, Provenance, Verdict
  <2>2. Keeper!Resolve(r, Verdict(r)')
    BY <1>4, Resolution DEF FetchFails, Deny, Awaiting
  <2> QED
    BY <2>1, <2>2, NothingFromNoBody DEF Keeper!Excuse, GoodPairs
<1>5. ASSUME NEW r \in Requests, StoreBody(r) PROVE Stutter
  <2>1. json' = json
    BY <1>5 DEF StoreBody, Filling
  <2>2. /\ UNCHANGED <<recent, token, reason>>
        /\ step[r] = "store" /\ step' = [step EXCEPT ![r] = "lookup"]
    BY <1>5 DEF StoreBody
  <2>3. Outcomes' = Outcomes
    BY <2>2, Pending, StillPending, OthersKeepTheirs DEF Awaiting, Outcomes
  <2> QED
    BY <2>1, <2>2, <2>3
<1>6. ASSUME NEW r \in Requests, Decide(r)
      PROVE  Keeper!Admit(r) \/ Keeper!Refuse(r) \/ Keeper!Excuse(r)
  BY <1>6, Judgement
<1>7. ASSUME NEW r \in Requests, Cancel(r) PROVE Keeper!Resolve(r, "dropped")
  <2>1. Verdict(r)' = "dropped"
    BY <1>7 DEF Cancel, Verdict
  <2> QED
    BY <1>7, <2>1, Resolution DEF Cancel
<1>8. ASSUME NEW r \in Requests, Retry(r) PROVE Keeper!Again(r)
  <2>1. Outcomes[r] \in {"unavailable", "dropped"}
    BY <1>8 DEF Retry, Verdict, Outcomes
  <2>2. Outcomes' = [Outcomes EXCEPT ![r] = "pending"]
    BY <1>8, StillPending, OthersKeepTheirs DEF Retry, Awaiting
  <2> QED
    BY <1>8, <2>1, <2>2 DEF Retry, Keeper!Again, Outcomes
<1>9. CASE Publish
  <2>1. Outcomes' = Outcomes
    BY <1>9 DEF Publish, Outcomes, Verdict
  <2> QED
    BY <1>9, <2>1 DEF Publish, Keeper!Serve, Keeper!GateNext, Outcomes
<1>10. CASE Restart
  <2>1. ASSUME NEW r \in Requests
        PROVE  Verdict(r)' = IF Verdict(r) = "pending" THEN "dropped" ELSE Verdict(r)
    BY <1>10 DEF Restart, Verdict, Awaiting, Steps
  <2>2. Outcomes' = [r \in Requests |->
                       IF Outcomes[r] = "pending" THEN "dropped" ELSE Outcomes[r]]
    BY <2>1 DEF Outcomes
  <2>3. Keeper!Renew(endpoint)
    BY <1>10, <2>2 DEF Restart, Keeper!Renew, Outcomes
  <2> QED
    BY <2>3 DEF Keeper!GateNext, Provenance
<1>11. UNCHANGED vars => Stutter
  BY DEF vars, Outcomes, Verdict
<1>12. Stutter => UNCHANGED Keeper!gateVars
  BY DEF Keeper!gateVars, Outcomes
<1>13. ASSUME NEW r \in Requests
       PROVE  /\ (\E t \in Tokens \cup {NoToken, BadToken} : Keeper!Present(r, t)) => Keeper!GateNext
              /\ (\E b \in recent : Keeper!Obtain(r, b)) => Keeper!GateNext
              /\ Keeper!Admit(r) \/ Keeper!Refuse(r) \/ Keeper!Excuse(r)
                   \/ Keeper!Resolve(r, "dropped") \/ Keeper!Again(r) => Keeper!GateNext
  BY DEF Keeper!GateNext
<1> HIDE DEF Stutter
<1> QED
  BY <1>1, <1>2, <1>3, <1>4, <1>5, <1>6, <1>7, <1>8, <1>9, <1>10, <1>11, <1>12, <1>13
     DEF Next, Middleware

\* The gate keeps its promise: every verdict comes from one key set of this
\* process's time, whatever is cached, fails or is dropped on the way.
THEOREM GateIsImplemented == Spec => ImplementsGate
<1>1. IInv /\ [Next]_vars => [Keeper!GateNext]_Keeper!gateVars
  BY KeeperStep
<1> QED
  BY <1>1, KeeperInitially, IInvInductive, PTL DEF Spec, ImplementsGate, Keeper!GateSpec
=============================================================================
