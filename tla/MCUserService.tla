---------------------------- MODULE MCUserService ---------------------------
(***************************************************************************)
(* Instances of UserService for TLC.                                       *)
(***************************************************************************)
EXTENDS UserService, TLC

CONSTANTS q, r, s, ann, padded, blank, empty, endless, mail, other, noAt

MCTrim == [n \in Names |-> CASE n = padded -> ann [] n = blank -> empty [] OTHER -> n]

Ask(kind, name, email, id, parsed) ==
  [kind |-> kind, parsed |-> parsed, name |-> name, email |-> email, id |-> id]
Create(name, email) == Ask("create", name, email, NoUser, TRUE)
Get(id) == Ask("get", empty, mail, id, TRUE)
List == Ask("list", empty, mail, NoUser, TRUE)
Health == Ask("health", empty, mail, NoUser, TRUE)
Malformed == Ask("create", ann, mail, NoUser, FALSE)

\* Creates that race for an e-mail, and reads of what they did.
Race == {Create(padded, mail), List, Get(q)}
\* Every way of asking.
Everything ==
  {Create(ann, mail), Create(padded, mail), Create(ann, other), Create(blank, mail),
   Create(ann, noAt), Create(endless, mail), Malformed, Get(q), Get(NoUser), List, Health}
\* One of each effect on the pool.
Busy == {Create(ann, mail), Health}
JustHealth == {Health}

\* No input names r or s.
Permuted == Permutations({r, s})
=============================================================================
