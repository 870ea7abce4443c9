------------------------------- MODULE MCJwks -------------------------------
(***************************************************************************)
(* Instances of Jwks for TLC: a rotation that puts an entry that cannot be *)
(* used before the old key, and an error page served in place of a set.    *)
(***************************************************************************)
EXTENDS Jwks, TLC

CONSTANTS r1, r2, before, after, page, kidA, kidB, keyA, keyB, junk

\* What the endpoint serves before the rotation and after it.
Rotated ==
  (before :> <<[kid |-> kidA, key |-> keyA]>>) @@
  (after :> <<[kid |-> kidB, key |-> junk], [kid |-> kidA, key |-> keyA]>>)
BeforeKeySet == [b \in {before} |-> Rotated[b]]

RotatedSets == {before, after}
RotatedOrPage == {before, after, page}
BeforeOnly == {before}
BeforeOrPage == {before, page}

GoodA == [kid |-> kidA, signer |-> keyA, claims |-> TRUE]
ExpiredA == [kid |-> kidA, signer |-> keyA, claims |-> FALSE]
ForgedA == [kid |-> kidA, signer |-> keyB, claims |-> TRUE]
UnnamedA == [kid |-> NoKid, signer |-> keyA, claims |-> TRUE]

OneToken == {GoodA}
AllTokens == {GoodA, ExpiredA, ForgedA, UnnamedA}
=============================================================================
