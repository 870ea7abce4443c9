----------------------------- MODULE MCLifecycle ----------------------------
(***************************************************************************)
(* Instances of Lifecycle for TLC.                                         *)
(***************************************************************************)
EXTENDS Lifecycle

CONSTANTS a, b

Config(production, otlp, redis, wildcard) ==
  [production |-> production, otlp |-> otlp, redis |-> redis, wildcard |-> wildcard]

AllConfigs == {Config(p, o, r, w) :
  p \in BOOLEAN, o \in {"none", "good", "bad"}, r \in BOOLEAN, w \in BOOLEAN}
BadEndpoint == {Config(TRUE, "bad", FALSE, FALSE)}
=============================================================================
