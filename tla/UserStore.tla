------------------------------ MODULE UserStore -----------------------------
(***************************************************************************)
(* What the user API promises its clients, with no pool, no connections    *)
(* and no clock: a call takes effect at most once and in one step, between *)
(* the moment it is made and the definite reply it gets.  A reply may also *)
(* leave the client in the dark (a timeout, a 500, a broken connection):   *)
(* then the effect may have happened, may happen later, or never.  A call  *)
(* that is refused never takes effect.                                     *)
(***************************************************************************)
CONSTANTS
  Calls,  \* the calls of a behaviour; a created user is named after its call
  Asks    \* what calls can ask: [kind, email, id, ...]

VARIABLES
  input,   \* input[c]: what c asks
  made,    \* the calls that were made
  effect,  \* effect[c]: what the call did, once it did
  reply,   \* reply[c]: what its client knows
  users    \* the users that exist: [id, email]

storeVars == <<input, made, effect, reply, users>>

Nothing == [code |-> "none", ids |-> {}]
Effect(code, ids) == [code |-> code, ids |-> ids]
Dark == Effect("unknown", {})
Refused == Effect("refused", {})

StoreInit ==
  /\ input \in [Calls -> Asks]
  /\ made = {}
  /\ effect = [c \in Calls |-> Nothing]
  /\ reply = [c \in Calls |-> Nothing]
  /\ users = {}

Make(c) ==
  /\ c \notin made
  /\ made' = made \cup {c}
  /\ UNCHANGED <<input, effect, reply, users>>

\* A create succeeds if nobody has the e-mail, or the store rejects its values.
Create(c) ==
  \/ /\ \A u \in users : u.email # input[c].email
     /\ effect' = [effect EXCEPT ![c] = Effect("inserted", {c})]
     /\ users' = users \cup {[id |-> c, email |-> input[c].email]}
  \/ /\ \E u \in users : u.email = input[c].email
     /\ effect' = [effect EXCEPT ![c] = Effect("duplicate", {})]
     /\ UNCHANGED users
  \/ /\ effect' = [effect EXCEPT ![c] = Effect("toolong", {})]
     /\ UNCHANGED users

Ids == {u.id : u \in users}

Query(c) ==
  /\ UNCHANGED users
  /\ \/ /\ input[c].kind = "list"
        /\ effect' = [effect EXCEPT ![c] = Effect("found", Ids)]
     \/ /\ input[c].kind = "get" /\ input[c].id \in Ids
        /\ effect' = [effect EXCEPT ![c] = Effect("found", {input[c].id})]
     \/ /\ input[c].kind = "get" /\ input[c].id \notin Ids
        /\ effect' = [effect EXCEPT ![c] = Effect("missing", {})]
     \/ /\ input[c].kind = "health"
        /\ effect' = [effect EXCEPT ![c] = Effect("alive", {})]

TakeEffect(c) ==
  /\ c \in made /\ effect[c] = Nothing
  /\ reply[c] \in {Nothing, Dark}
  /\ IF input[c].kind = "create" THEN Create(c) ELSE Query(c)
  /\ UNCHANGED <<input, made, reply>>

\* The client learns what its call did ...
Inform(c) ==
  /\ reply[c] = Nothing
  /\ effect[c].code \notin {"none", "toolong"}
  /\ reply' = [reply EXCEPT ![c] = effect[c]]
  /\ UNCHANGED <<input, made, effect, users>>

\* ... or nothing, with others at a time when the service is killed ...
GiveUp(C) ==
  /\ \A c \in C : c \in made /\ reply[c] = Nothing
  /\ reply' = [c \in Calls |-> IF c \in C THEN Dark ELSE reply[c]]
  /\ UNCHANGED <<input, made, effect, users>>

\* ... or that it was not even tried.
Refuse(c) ==
  /\ c \in made /\ reply[c] = Nothing /\ effect[c] = Nothing
  /\ reply' = [reply EXCEPT ![c] = Refused]
  /\ UNCHANGED <<input, made, effect, users>>

StoreNext ==
  \/ \E c \in Calls : Make(c) \/ TakeEffect(c) \/ Inform(c) \/ Refuse(c)
  \/ \E C \in SUBSET Calls : GiveUp(C)

StoreSpec == StoreInit /\ [][StoreNext]_storeVars

-----------------------------------------------------------------------------
\* What a client may rely on. An e-mail belongs to one user, ...
UniqueEmails == \A u, v \in users : u.email = v.email => u = v

\* ... a user exists if and only if a create of somebody's took effect as one, ...
UsersAreCreated ==
  /\ \A u \in users : effect[u.id] = Effect("inserted", {u.id})
  /\ \A c \in Calls :
       effect[c].code = "inserted" => [id |-> c, email |-> input[c].email] \in users

\* ... a definite reply says what the call did, a refused call did nothing, ...
RepliesAreTrue ==
  \A c \in Calls :
    \/ reply[c] \in {Nothing, Dark}
    \/ reply[c] = Refused /\ effect[c] = Nothing
    \/ reply[c] = effect[c] /\ effect[c] # Nothing

\* ... and nobody is shown a user that does not exist.
ShownExist == \A c \in Calls : reply[c].ids \subseteq Ids

Promise == UniqueEmails /\ UsersAreCreated /\ RepliesAreTrue /\ ShownExist

\* What was found once is found from then on: no user goes, and no effect is
\* taken back or follows a definite reply.
EffectsLast ==
  [][/\ Ids \subseteq Ids'
     /\ \A c \in Calls :
          effect'[c] # effect[c] => effect[c] = Nothing /\ reply[c] \in {Nothing, Dark}]_storeVars
=============================================================================
