----------------------------- MODULE Gatekeeper -----------------------------
(***************************************************************************)
(* What the JWT gate promises, with no cache, no locks and no fetches: a   *)
(* request is judged by one key set, which was served while this process   *)
(* has been running; it is admitted exactly if that set vouches for its    *)
(* token.  Whatever fails before it has a key set leaves it unjudged, and  *)
(* its client may ask again.                                               *)
(***************************************************************************)
CONSTANTS
  Requests,  \* requests for protected routes
  Claims,    \* what they present: tokens and what is none
  Tokens,    \* the tokens among them
  Bodies,    \* what can be served as a key set
  Good,      \* the pairs <<b, t>> of a body that vouches for a token
  NoClaim,   \* what a request presents before it arrives
  NoBasis    \* the basis of a request that has none

VARIABLES
  served,   \* the bodies served while this process has been running
  claim,    \* claim[r]: what r presents
  basis,    \* basis[r]: the body that r is to be judged by
  verdict   \* verdict[r]: what has become of r

gateVars == <<served, claim, basis, verdict>>

GateInit ==
  /\ \E b \in Bodies : served = {b}
  /\ claim = [r \in Requests |-> NoClaim]
  /\ basis = [r \in Requests |-> NoBasis]
  /\ verdict = [r \in Requests |-> "none"]

\* Only a token is worth a look at the keys.
Present(r, t) ==
  /\ verdict[r] = "none"
  /\ claim' = [claim EXCEPT ![r] = t]
  /\ verdict' = [verdict EXCEPT ![r] = IF t \in Tokens THEN "pending" ELSE "refused"]
  /\ UNCHANGED <<served, basis>>

\* The body is chosen once and for all.
Obtain(r, b) ==
  /\ verdict[r] = "pending" /\ basis[r] = NoBasis
  /\ basis' = [basis EXCEPT ![r] = b]
  /\ UNCHANGED <<served, claim, verdict>>

Resolve(r, v) ==
  /\ verdict[r] = "pending"
  /\ verdict' = [verdict EXCEPT ![r] = v]
  /\ basis' = [basis EXCEPT ![r] = NoBasis]
  /\ UNCHANGED <<served, claim>>

Admit(r) == <<basis[r], claim[r]>> \in Good /\ Resolve(r, "admitted")

\* The keys say no, ...
Refuse(r) ==
  /\ basis[r] # NoBasis /\ <<basis[r], claim[r]>> \notin Good
  /\ Resolve(r, "refused")

\* ... or they say nothing: there are none, or none that fits.
Excuse(r) == <<basis[r], claim[r]>> \notin Good /\ Resolve(r, "unavailable")

Again(r) ==
  /\ verdict[r] \in {"unavailable", "dropped"}
  /\ verdict' = [verdict EXCEPT ![r] = "pending"]
  /\ UNCHANGED <<served, claim, basis>>

Serve(b) ==
  /\ served' = served \cup {b}
  /\ UNCHANGED <<claim, basis, verdict>>

\* Another process takes over, from one body that the last one may have known.
Renew(b) ==
  /\ served' = {b}
  /\ verdict' = [r \in Requests |-> IF verdict[r] = "pending" THEN "dropped" ELSE verdict[r]]
  /\ basis' = [r \in Requests |-> NoBasis]
  /\ UNCHANGED claim

GateNext ==
  \/ \E r \in Requests :
       \/ \E t \in Claims : Present(r, t)
       \/ \E b \in served : Obtain(r, b)
       \/ Admit(r) \/ Refuse(r) \/ Excuse(r) \/ Resolve(r, "dropped") \/ Again(r)
  \/ \E b \in Bodies : Serve(b)
  \/ \E b \in served : Renew(b)

GateSpec == GateInit /\ [][GateNext]_gateVars
=============================================================================
