--------------------------- MODULE MCGatedService ---------------------------
(***************************************************************************)
(* The instance of GatedService for TLC: a create and a malformed get, and *)
(* a token that is good until the keys rotate.                             *)
(***************************************************************************)
EXTENDS GatedService, TLC

CONSTANTS q, r, ann, nobody, mail, before, after, kidA, keyA, keyB

MCTrim == [n \in Names |-> n]
Ask(kind, parsed) ==
  [kind |-> kind, parsed |-> parsed, name |-> ann, email |-> mail, id |-> NoUser]
MCInputs == {Ask("create", TRUE), Ask("get", FALSE)}

MCKeySet ==
  before :> <<[kid |-> kidA, key |-> keyA]>> @@ after :> <<[kid |-> kidA, key |-> keyB]>>
MCTokens == {[kid |-> kidA, signer |-> keyA, claims |-> TRUE]}
=============================================================================
