-------------------------------- MODULE Jwks --------------------------------
(***************************************************************************)
(* The JWT gate of the service (src/auth.rs): the lazily filled JWKS cache *)
(* and the middleware that admits or denies every request for a protected  *)
(* route.  Many requests run the middleware at once on the tokio runtime;  *)
(* they share one cache, and each of them may be dropped at any `.await`   *)
(* (by the request timeout of routes.rs or because the client hung up).    *)
(*                                                                         *)
(* What the endpoint serves is a body: a text that is a JWK set, or is not *)
(* (the page of a failing proxy: the code never looks at the HTTP status). *)
(* A token is its key id, the key that signed it, and whether the claims   *)
(* are ones that jsonwebtoken accepts under the configured issuer and      *)
(* audience.                                                               *)
(***************************************************************************)
EXTENDS Sequences, Naturals

CONSTANTS
  Requests,    \* requests for protected routes
  Bodies,      \* texts the JWKS endpoint can serve
  WellFormed,  \* the bodies that parse as a JWK set
  KeySet,      \* KeySet[b]: the keys of a well-formed body, in order
  Kids, Keys,  \* key ids and key material
  Unusable,    \* key material that DecodingKey::from_jwk rejects
  NoKid,       \* the header of a token that names no key
  Tokens,      \* the tokens that clients present
  NoToken,     \* no usable `Authorization: Bearer` header
  BadToken,    \* a bearer token whose JWT header does not decode
  NoBody       \* the cache before the first fetch, a request without a body

Jwk == [kid : Kids \cup {NoKid}, key : Keys]

ASSUME JwksAssumption ==
  /\ WellFormed \subseteq Bodies
  /\ KeySet \in [WellFormed -> Seq(Jwk)]
  /\ NoBody \notin Bodies
  /\ NoKid \notin Kids
  /\ Tokens \subseteq [kid : Kids \cup {NoKid}, signer : Keys, claims : BOOLEAN]
  /\ NoToken \notin Tokens /\ BadToken \notin Tokens

VARIABLES
  endpoint,  \* the body the endpoint serves now
  cached,    \* JwksCache.cached_json
  step,      \* step[r]: where request r is in the middleware
  token,     \* token[r]: the credential of r
  json,      \* json[r]: the body that the fetch or the cache gave to r
  reason,    \* reason[r]: which 401 a denied r was given
  published, \* history: every body the endpoint has served
  recent,    \* history: those it has served since the process started
  window     \* history: window[r], what it has served while r was asking it

vars == <<endpoint, cached, step, token, json, reason, published, recent, window>>

Steps == {"idle", "check", "fetch", "store", "lookup",
          "admitted", "denied", "cancelled"}
Reasons == {"none", "missing", "format", "key", "token"}

\* The three `.await`s of get_jwks_json: the read lock, the request to the
\* endpoint with its body, the write lock.
Awaiting == {"check", "fetch", "store"}
\* Requests that missed the cache and have not yet filled it.
Fetching == {r \in Requests : step[r] \in {"fetch", "store"}}

\* Type invariant: bodies, tokens and verdicts are never mixed up.
TypeOK ==
  /\ endpoint \in Bodies
  /\ cached \in Bodies \cup {NoBody}
  /\ step \in [Requests -> Steps]
  /\ token \in [Requests -> Tokens \cup {NoToken, BadToken}]
  /\ json \in [Requests -> Bodies \cup {NoBody}]
  /\ reason \in [Requests -> Reasons]
  /\ published \subseteq Bodies /\ recent \subseteq Bodies
  /\ window \in [Requests -> SUBSET Bodies]

Init ==
  /\ endpoint \in Bodies
  /\ cached = NoBody
  /\ step = [r \in Requests |-> "idle"]
  /\ token = [r \in Requests |-> NoToken]
  /\ json = [r \in Requests |-> NoBody]
  /\ reason = [r \in Requests |-> "none"]
  /\ published = {endpoint} /\ recent = {endpoint}
  /\ window = [r \in Requests |-> {}]

-----------------------------------------------------------------------------
\* JwkSet::find for a token that names a key, `keys.first()` for one that does
\* not: the usable keys the lookup can return, at most one.
Candidates(b, kid) ==
  IF b \notin WellFormed THEN {}
  ELSE LET S == KeySet[b]
           Matching == {i \in DOMAIN S : kid \in {NoKid, S[i].kid}}
           First == {i \in Matching : \A j \in Matching : i <= j}
       IN {S[i].key : i \in First} \ Unusable

Deny(r, why) ==
  /\ step' = [step EXCEPT ![r] = "denied"]
  /\ reason' = [reason EXCEPT ![r] = why]

\* The middleware is left, and its locals go.
Leave(r) ==
  /\ json' = [json EXCEPT ![r] = NoBody]
  /\ window' = [window EXCEPT ![r] = {}]

\* The middleware runs up to its first `.await`: a request without a bearer
\* token, or with one that is no JWT, is answered on the spot.
Arrive(r) ==
  /\ step[r] = "idle"
  /\ \E t \in Tokens \cup {NoToken, BadToken} :
       /\ token' = [token EXCEPT ![r] = t]
       /\ \/ t = NoToken /\ Deny(r, "missing")
          \/ t = BadToken /\ Deny(r, "format")
          \/ /\ t \in Tokens
             /\ step' = [step EXCEPT ![r] = "check"]
             /\ UNCHANGED reason
  /\ UNCHANGED <<endpoint, cached, json, published, recent, window>>

\* The read lock is held only while the cache is looked at; it is released
\* before the fetch, and the cache is not looked at again afterwards.
Missed_Always == TRUE  \* mutation: the cached value is not used
Missed_Inverted == cached # NoBody  \* mutation: the test is the wrong way round

Missed == cached = NoBody

ReadCache(r) ==
  /\ step[r] = "check"
  /\ \/ /\ ~Missed
        /\ json' = [json EXCEPT ![r] = cached]
        /\ step' = [step EXCEPT ![r] = "lookup"]
        /\ UNCHANGED window
     \/ /\ Missed
        /\ step' = [step EXCEPT ![r] = "fetch"]
        /\ window' = [window EXCEPT ![r] = {endpoint}]
        /\ UNCHANGED json
  /\ UNCHANGED <<endpoint, cached, token, reason, published, recent>>

\* The endpoint answers r with what it serves at that moment. The body then
\* travels, and waits for the write lock, for as long as it takes.
FetchBody(r) ==
  /\ step[r] = "fetch"
  /\ json' = [json EXCEPT ![r] = endpoint]
  /\ step' = [step EXCEPT ![r] = "store"]
  /\ UNCHANGED <<endpoint, cached, token, reason, published, recent, window>>

\* The connection fails, or the body cannot be read: nothing is cached.
FetchFails(r) ==
  /\ step[r] = "fetch"
  /\ Deny(r, "key")
  /\ Leave(r)
  /\ UNCHANGED <<endpoint, cached, token, published, recent>>

\* Whatever the cache holds by now is overwritten, and r goes on with its own
\* copy of the body.
Filling_KeepFirst(r) == IF Missed THEN json[r] ELSE cached  \* mutation: a full cache wins
Filling_Unwrapped(r) == [ok |-> json[r]]  \* mutation: the Result, not its text

Filling(r) == json[r]

StoreBody(r) ==
  /\ step[r] = "store"
  /\ cached' = Filling(r)
  /\ json' = [json EXCEPT ![r] = Filling(r)]
  /\ step' = [step EXCEPT ![r] = "lookup"]
  /\ window' = [window EXCEPT ![r] = {}]
  /\ UNCHANGED <<endpoint, token, reason, published, recent>>

\* The lookup of the key and the validation of the token.
Verifies_Unsigned(t, key) == t.claims  \* mutation: the signature is not checked
Verifies_Expired(t, key) == t.signer = key /\ ~t.claims  \* mutation: only the expired pass

Verifies(t, key) == t.signer = key /\ t.claims

Decide(r) ==
  /\ step[r] = "lookup"
  /\ LET t == token[r]
         C == Candidates(json[r], t.kid)
     IN \/ C = {} /\ Deny(r, "key")
        \/ \E k \in C :
             \/ /\ Verifies(t, k)
                /\ step' = [step EXCEPT ![r] = "admitted"]
                /\ UNCHANGED reason
             \/ ~Verifies(t, k) /\ Deny(r, "token")
  /\ Leave(r)
  /\ UNCHANGED <<endpoint, cached, token, published, recent>>

\* The middleware's future is dropped at an `.await`.
Cancel(r) ==
  /\ step[r] \in Awaiting
  /\ step' = [step EXCEPT ![r] = "cancelled"]
  /\ Leave(r)
  /\ UNCHANGED <<endpoint, cached, token, reason, published, recent>>

\* A client that was denied a key, or cut off, presents its token again in a
\* new request: the advice the 401 gives ("Please try again").
Retry(r) ==
  /\ \/ step[r] = "denied" /\ reason[r] = "key"
     \/ step[r] = "cancelled"
  /\ step' = [step EXCEPT ![r] = "check"]
  /\ reason' = [reason EXCEPT ![r] = "none"]
  /\ UNCHANGED <<endpoint, cached, token, json, published, recent, window>>

\* The endpoint starts to serve another body: its keys rotate, or it fails.
Publish ==
  /\ endpoint' \in Bodies \ {endpoint}
  /\ published' = published \cup {endpoint'}
  /\ recent' = recent \cup {endpoint'}
  /\ window' = [r \in Requests |->
                  IF step[r] = "fetch" THEN window[r] \cup {endpoint'}
                  ELSE window[r]]
  /\ UNCHANGED <<cached, step, token, json, reason>>

\* The process ends, with its cache and its requests, and another one starts
\* (main.rs 26-29 makes a new JwksCache).
NewCache_Kept == cached  \* mutation: the cache outlives the process

NewCache == NoBody

Restart ==
  /\ cached' = NewCache
  /\ recent' = {endpoint}
  /\ step' = [r \in Requests |->
                IF step[r] \in Awaiting \cup {"lookup"} THEN "cancelled" ELSE step[r]]
  /\ json' = [r \in Requests |-> NoBody]
  /\ window' = [r \in Requests |-> {}]
  /\ UNCHANGED <<endpoint, token, reason, published>>

-----------------------------------------------------------------------------
Middleware(r) ==
  \/ ReadCache(r)
  \/ FetchBody(r)
  \/ FetchFails(r)
  \/ StoreBody(r)
  \/ Decide(r)

Next ==
  \/ \E r \in Requests : Arrive(r) \/ Middleware(r) \/ Cancel(r) \/ Retry(r)
  \/ Publish
  \/ Restart

Spec == Init /\ [][Next]_vars

\* tokio polls a ready task, reqwest returns in the end (the request timeout
\* sees to that: it is the Cancel step), and a client that was told to try
\* again does. Nothing is assumed of arrivals, restarts or the endpoint.
FairSpec == Spec /\ \A r \in Requests : WF_vars(Middleware(r)) /\ WF_vars(Retry(r))

-----------------------------------------------------------------------------
\* Token t is good under body b: its claims are accepted and the key the
\* lookup returns is the one that signed it.
Vouches(b, t) == t.claims /\ t.signer \in Candidates(b, t.kid)

\* A request that the gate let through carries a token that some body, really
\* served by the endpoint at some time, vouches for: no failure, cancellation
\* or overwriting of the cache ever opens the gate (lines 130-139, 151-159).
AdmittedIsVouched ==
  \A r \in Requests :
    step[r] = "admitted" =>
      /\ token[r] \in Tokens
      /\ \E b \in published : Vouches(b, token[r])

\* A request that had to go to the endpoint is judged by a body that was served
\* after it missed the cache, even when the cache was filled with an older one in
\* the meantime (line 67 returns its own copy, not the cached one).
FetchedIsFresh ==
  [][\A r \in Requests :
       step[r] = "store" /\ step'[r] = "lookup" => json'[r] \in window[r]]_vars

\* Once the cache is filled and no fetch is on the way, it never changes and
\* the endpoint is never asked again, whatever it publishes: keys that are
\* rotated later are not seen before the process restarts (lines 50-55).
Settles ==
  [][cached # NoBody /\ Fetching = {} =>
       cached' \in {cached, NoBody} /\ Fetching' = {}]_vars

\* The cache of a process is filled by one fetch and kept: what "fetching from
\* the URL if it was not loaded yet" (line 48) says. Two first requests break it.
OneFetchFillsCache == [][cached # NoBody => cached' \in {cached, NoBody}]_vars

\* A step without an outage: no fetch fails and no request is dropped (by a
\* restart neither).
Smooth ==
  \A r \in Requests :
    /\ ~(step[r] = "fetch" /\ step'[r] = "denied")
    /\ step'[r] = "cancelled" => step[r] = "cancelled"

\* What the endpoint serves vouches for every token presented with good claims.
EndpointVouches ==
  \A r \in Requests :
    token[r] \in Tokens => (token[r].claims => Vouches(endpoint, token[r]))

\* A client that presents a token with good claims again and again gets in.
GoodTokensGetIn ==
  \A r \in Requests :
    (step[r] = "check" /\ token[r].claims) ~> (step[r] = "admitted")

\* Fetches that fail, requests that are dropped and processes that restart do
\* no lasting harm: nothing of them stays in the cache (lines 57-67). While the
\* endpoint only ever serves the right keys, a client that repeats a good token
\* is admitted once the outages end.
AllServedVouch ==
  \A r \in Requests, b \in published :
    token[r] \in Tokens => (token[r].claims => Vouches(b, token[r]))
OutagesDoNoHarm == (<>[][Smooth]_vars /\ []AllServedVouch) => GoodTokensGetIn

\* The advice of the 401 at line 135, "Please try again", is good: the same
\* when the endpoint serves the right keys from some time on.
TryAgainWorks == (<>[][Smooth]_vars /\ <>[]EndpointVouches) => GoodTokensGetIn

-----------------------------------------------------------------------------
\* The promise of the gate, module Gatekeeper: between the cache, a fetch or a
\* failure of it, and the lookup, a request is on its way to a verdict.
Verdict(r) ==
  CASE step[r] = "idle" -> "none"
    [] step[r] = "admitted" -> "admitted"
    [] step[r] = "cancelled" -> "dropped"
    [] step[r] = "denied" -> IF reason[r] = "key" THEN "unavailable" ELSE "refused"
    [] OTHER -> "pending"

Keeper == INSTANCE Gatekeeper WITH
  Claims <- Tokens \cup {NoToken, BadToken},
  Good <- {p \in Bodies \X Tokens : Vouches(p[1], p[2])},
  NoClaim <- NoToken,
  NoBasis <- NoBody,
  served <- recent,
  claim <- token,
  basis <- json,
  verdict <- [r \in Requests |-> Verdict(r)]

\* The cache, the fetches and their failures together keep the promise: each
\* verdict comes from one body, served in the life of this process and never
\* exchanged for another on the way; what fails is excused, and a key set of an
\* earlier process judges nobody (lines 50-68, 129-160, main.rs 26-29).
ImplementsGate == Keeper!GateSpec
=============================================================================
