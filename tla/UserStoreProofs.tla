--------------------------- MODULE UserStoreProofs --------------------------
(***************************************************************************)
(* Proofs that the store that UserService implements is one its clients    *)
(* can rely on, for any calls: what the interface promises follows from    *)
(* its actions, before a pool, a clock or a network come in.               *)
(***************************************************************************)
EXTENDS UserStore, TLAPS

\* Effects and replies are what the actions make them, on the calls.
Codes == {"none", "inserted", "duplicate", "toolong", "found", "missing", "alive",
          "unknown", "refused"}
Effects == [code : Codes, ids : SUBSET Calls]

StoreTypeOK ==
  /\ effect \in [Calls -> Effects]
  /\ reply \in [Calls -> Effects]
  /\ \A u \in users : u.id \in Calls /\ u = [id |-> u.id, email |-> input[u.id].email]

\* Whatever a call has found is there.
FoundExist == \A c \in Calls : effect[c].ids \subseteq Ids

StoreInv == StoreTypeOK /\ Promise /\ FoundExist

\* The fixed replies, unfolded.
LEMMA Replies ==
  /\ Nothing \in Effects /\ Nothing.ids = {} /\ Nothing.code = "none"
  /\ Dark \in Effects /\ Dark.ids = {} /\ Dark # Nothing
  /\ Refused \in Effects /\ Refused.ids = {} /\ Refused # Nothing /\ Refused # Dark
BY DEF Nothing, Dark, Refused, Effect, Effects, Codes

LEMMA StoreInvInit == StoreInit => StoreInv
<1> SUFFICES ASSUME StoreInit PROVE StoreInv
  OBVIOUS
<1> USE DEF StoreInit
<1>1. StoreTypeOK
  BY Replies DEF StoreTypeOK
<1>2. \A c \in Calls : effect[c] = Nothing /\ reply[c] = Nothing /\ Nothing.ids = {}
  BY Replies
<1>3. UniqueEmails /\ UsersAreCreated
  BY <1>2, Replies DEF UniqueEmails, UsersAreCreated
<1> QED
  BY <1>1, <1>2, <1>3 DEF StoreInv, Promise, FoundExist, RepliesAreTrue, ShownExist

\* Only users make the set of ids.
LEMMA SameUsers == ASSUME users' = users PROVE Ids' = Ids
BY DEF Ids

UserOf(c) == [id |-> c, email |-> input[c].email]

LEMMA AnotherUser ==
  ASSUME NEW u, users' = users \cup {u}
  PROVE  Ids' = Ids \cup {u.id}
<1>1. Ids' = {v.id : v \in users \cup {u}}
  BY DEF Ids
<1>2. ASSUME NEW x PROVE x \in Ids' <=> x \in Ids \cup {u.id}
  BY <1>1 DEF Ids
<1> QED
  BY <1>2

\* Whoever learns something learns the truth: only replies change.
LEMMA ReplyStep ==
  ASSUME StoreInv, UNCHANGED <<input, effect, users>>, reply' \in [Calls -> Effects],
         \A c \in Calls : \/ reply'[c] \in {reply[c], Dark}
                          \/ reply'[c] = Refused /\ effect[c] = Nothing
                          \/ reply'[c] = effect[c] /\ effect[c] # Nothing
  PROVE  StoreInv' /\ Ids' = Ids
<1>1. Ids' = Ids
  BY SameUsers
<1>2. StoreTypeOK' /\ FoundExist' /\ UniqueEmails' /\ UsersAreCreated'
  BY <1>1 DEF StoreInv, StoreTypeOK, FoundExist, Promise, UniqueEmails, UsersAreCreated
<1>3. RepliesAreTrue'
  BY DEF StoreInv, Promise, RepliesAreTrue
<1>4. ShownExist'
  BY <1>1, Replies DEF StoreInv, Promise, ShownExist, FoundExist
<1> QED
  BY <1>1, <1>2, <1>3, <1>4 DEF StoreInv, Promise

\* Before a call takes effect, no user is named after it.
LEMMA NewUser ==
  ASSUME StoreInv, NEW c \in Calls, effect[c] = Nothing
  PROVE  \A u \in users : u.id # c
<1> SUFFICES ASSUME NEW u \in users, u.id = c PROVE FALSE
  OBVIOUS
<1>1. effect[c] = Effect("inserted", {u.id})
  BY DEF StoreInv, Promise, UsersAreCreated
<1>2. effect[c].code = "inserted"
  BY <1>1 DEF Effect
<1> QED
  BY <1>2, Replies

\* What a call does, its client cannot have been told before.
LEMMA EffectStep ==
  ASSUME StoreInv, UNCHANGED <<input, reply>>, NEW c \in Calls,
         effect[c] = Nothing, reply[c] \in {Nothing, Dark},
         NEW e \in Effects, effect' = [effect EXCEPT ![c] = e],
         \/ users' = users /\ e.code # "inserted" /\ e.ids \subseteq Ids
         \/ /\ users' = users \cup {UserOf(c)} /\ e = Effect("inserted", {c})
            /\ \A u \in users : u.email # input[c].email
  PROVE  StoreInv' /\ Ids \subseteq Ids'
<1>1. RepliesAreTrue'
  BY DEF StoreInv, StoreTypeOK, Promise, RepliesAreTrue
<1>2. UserOf(c).id = c /\ UserOf(c).email = input[c].email
  BY DEF UserOf
<1>3. CASE users' = users /\ e.code # "inserted" /\ e.ids \subseteq Ids
  <2>1. Ids' = Ids
    BY <1>3, SameUsers
  <2>2. StoreTypeOK' /\ FoundExist' /\ UniqueEmails' /\ ShownExist'
    BY <1>3, <2>1
       DEF StoreInv, StoreTypeOK, FoundExist, Promise, UniqueEmails, ShownExist
  <2>3. \A u \in users : u.id # c
    BY NewUser
  <2>4. UsersAreCreated'
    BY <1>3, <2>3 DEF StoreInv, StoreTypeOK, Promise, UsersAreCreated
  <2> QED
    BY <1>1, <2>1, <2>2, <2>4 DEF StoreInv, Promise
<1>4. CASE /\ users' = users \cup {UserOf(c)} /\ e = Effect("inserted", {c})
           /\ \A u \in users : u.email # input[c].email
  <2>1. Ids' = Ids \cup {c}
    BY <1>2, <1>4, AnotherUser
  <2>2. StoreTypeOK'
    BY <1>2, <1>4 DEF StoreInv, StoreTypeOK, UserOf
  <2>3. FoundExist' /\ ShownExist'
    BY <1>4, <2>1 DEF StoreInv, StoreTypeOK, Promise, FoundExist, ShownExist, Effect
  <2>4. UniqueEmails'
    BY <1>2, <1>4 DEF StoreInv, Promise, UniqueEmails
  <2>5. \A u \in users : u.id # c
    BY NewUser
  <2>6. UsersAreCreated'
    BY <1>2, <1>4, <2>5 DEF StoreInv, StoreTypeOK, Promise, UsersAreCreated, UserOf
  <2> QED
    BY <1>1, <2>1, <2>2, <2>3, <2>4, <2>6 DEF StoreInv, Promise
<1> QED
  BY <1>3, <1>4

LEMMA TakeEffectStep ==
  ASSUME StoreInv, NEW c \in Calls, TakeEffect(c)
  PROVE  StoreInv' /\ Ids \subseteq Ids'
<1>1. /\ effect[c] = Nothing /\ reply[c] \in {Nothing, Dark}
      /\ UNCHANGED <<input, reply>>
  BY DEF TakeEffect
<1>2. ASSUME NEW code \in {"duplicate", "toolong", "found", "missing", "alive"},
             NEW S \in SUBSET Ids, users' = users,
             effect' = [effect EXCEPT ![c] = Effect(code, S)]
      PROVE  StoreInv' /\ Ids \subseteq Ids'
  <2>1. Ids \subseteq Calls
    BY DEF Ids, StoreInv, StoreTypeOK
  <2>2. Effect(code, S) \in Effects /\ Effect(code, S).code = code /\ Effect(code, S).ids = S
    BY <2>1 DEF Effect, Effects, Codes
  <2> QED
    BY <1>1, <1>2, <2>2, EffectStep
<1>3. CASE input[c].kind = "create"
  <2>1. Create(c)
    BY <1>3 DEF TakeEffect
  <2>2. Effect("inserted", {c}) \in Effects
    BY DEF Effect, Effects, Codes
  <2> QED
    BY <1>1, <1>2, <2>1, <2>2, EffectStep DEF Create, UserOf
<1>4. CASE input[c].kind # "create"
  <2>1. Query(c)
    BY <1>4 DEF TakeEffect
  <2> QED
    BY <1>2, <2>1 DEF Query
<1> QED
  BY <1>3, <1>4

LEMMA StoreInvStep ==
  ASSUME StoreInv, [StoreNext]_storeVars
  PROVE  StoreInv' /\ Ids \subseteq Ids'
<1> USE Replies DEF StoreInv, StoreTypeOK
<1>1. ASSUME NEW c \in Calls, Make(c) PROVE StoreInv' /\ Ids' = Ids
  BY <1>1, ReplyStep DEF Make
<1>2. ASSUME NEW c \in Calls, TakeEffect(c) PROVE StoreInv' /\ Ids \subseteq Ids'
  BY <1>2, TakeEffectStep
<1>3. ASSUME NEW c \in Calls, Inform(c) PROVE StoreInv' /\ Ids' = Ids
  BY <1>3, ReplyStep DEF Inform
<1>4. ASSUME NEW c \in Calls, Refuse(c) PROVE StoreInv' /\ Ids' = Ids
  BY <1>4, ReplyStep DEF Refuse
<1>5. ASSUME NEW C \in SUBSET Calls, GiveUp(C) PROVE StoreInv' /\ Ids' = Ids
  BY <1>5, ReplyStep DEF GiveUp
<1>6. CASE UNCHANGED storeVars
  BY <1>6, ReplyStep DEF storeVars
<1> QED
  BY <1>1, <1>2, <1>3, <1>4, <1>5, <1>6 DEF StoreNext

LEMMA StoreInvHolds == StoreSpec => []StoreInv
<1>1. StoreInv /\ [StoreNext]_storeVars => StoreInv'
  BY StoreInvStep
<1> QED
  BY <1>1, StoreInvInit, PTL DEF StoreSpec

\* Clients of the store can rely on its promise.
THEOREM StoreKeepsPromise == StoreSpec => []Promise
BY StoreInvHolds, PTL DEF StoreInv

\* The store takes nothing back.
THEOREM StoreEffectsLast == StoreSpec => EffectsLast
<1>1. StoreInv /\ [StoreNext]_storeVars =>
        /\ Ids \subseteq Ids'
        /\ \A c \in Calls :
             effect'[c] # effect[c] => effect[c] = Nothing /\ reply[c] \in {Nothing, Dark}
  <2> SUFFICES ASSUME StoreInv, [StoreNext]_storeVars, NEW c \in Calls,
                      effect'[c] # effect[c]
               PROVE  effect[c] = Nothing /\ reply[c] \in {Nothing, Dark}
    BY StoreInvStep
  <2>1. ASSUME NEW d \in Calls, TakeEffect(d) PROVE d = c
    BY <2>1 DEF TakeEffect, Create, Query, StoreInv, StoreTypeOK
  <2> QED
    BY <2>1 DEF StoreNext, storeVars, TakeEffect, Make, Inform, Refuse, GiveUp
<1> QED
  BY <1>1, StoreInvHolds, PTL DEF StoreSpec, EffectsLast
=============================================================================
