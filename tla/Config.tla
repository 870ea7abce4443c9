------------------------------- MODULE Config -------------------------------
(***************************************************************************)
(* AppConfig::load (config.rs) and what build_cors_layer (security.rs)     *)
(* makes of the result.  The environment is the one that the process sees  *)
(* after dotenv has added the variables of a .env file.                    *)
(*                                                                         *)
(* A variable, like an Option, is a set of at most one value.  The text of *)
(* a variable is a model value; the functions below say what each of the   *)
(* code's parsers makes of it.                                             *)
(***************************************************************************)
EXTENDS Integers

CONSTANTS
  EnvTexts,      \* texts of ENVIRONMENT, APP_ENV and RUST_ENV
  Serde,         \* Serde[t]: what envy reads: exact names and aliases
  FromStr,       \* FromStr[t]: what from_str reads: trimmed, in any case
  Unknown,       \* the result of either when it fails
  PortNumbers,   \* numbers in PORT; a text that is no number is one below 0
  Texts,         \* texts of all other variables
  DefaultDatabase, DefaultHost, DefaultServiceName,
  Pieces,        \* what ALLOWED_ORIGINS holds between its commas
  Trim,          \* Trim[p]: the piece without surrounding white space
  Empty,         \* the piece that is empty
  Wildcard,      \* the piece "*"
  NotAHeader,    \* pieces that are no HTTP header value
  Deployments    \* the environments that a process is started in

AppEnvironment == {"Development", "Production", "Test"}
Maybe(S) == {{}} \cup {{x} : x \in S}
Get(option, default) == IF option = {} THEN default ELSE CHOOSE x \in option : TRUE
NoLayer == [kind |-> "none", origins |-> {}]

\* The environment variables that are read, with the lists that are split at
\* their commas.
Environments ==
  [ENVIRONMENT : Maybe(EnvTexts), APP_ENV : Maybe(EnvTexts), RUST_ENV : Maybe(EnvTexts),
   DATABASE_URL : Maybe(Texts), PORT : Maybe(PortNumbers), HOST : Maybe(Texts),
   ALLOWED_ORIGINS : Maybe(SUBSET Pieces), OTEL_SERVICE_NAME : Maybe(Texts),
   OTLP_ENDPOINT : Maybe(Texts), JWKS_URL : Maybe(Texts), JWT_AUDIENCE : Maybe(Texts),
   JWT_ISSUER : Maybe(Texts), REDIS_URL : Maybe(Texts)]

\* What serde reads, from_str reads alike: the aliases are names that from_str
\* knows, in fewer spellings.
ASSUME ConfigAssumption ==
  /\ Serde \in [EnvTexts -> AppEnvironment \cup {Unknown}]
  /\ FromStr \in [EnvTexts -> AppEnvironment \cup {Unknown}]
  /\ Unknown \notin AppEnvironment
  /\ \A t \in EnvTexts : Serde[t] # Unknown => FromStr[t] = Serde[t]
  /\ PortNumbers \subseteq Int
  /\ Trim \in [Pieces -> Pieces]
  /\ Empty \in Pieces /\ Wildcard \in Pieces /\ NotAHeader \subseteq Pieces
  /\ {DefaultDatabase, DefaultHost, DefaultServiceName} \subseteq Texts
  /\ Deployments \subseteq Environments

VARIABLES
  env,     \* the environment of the process
  config,  \* the AppConfig, once loaded
  layer    \* the CORS layer, once built

vars == <<env, config, layer>>

(***************************************************************************)
(* Loading                                                                 *)
(***************************************************************************)
IsU16(n) == n \in 0..65535
DefaultPort == 3000

ParseAllowedOrigins_Untrimmed(pieces) ==  \* mutation: pieces are not trimmed
  pieces \ {Empty}

ParseAllowedOrigins(pieces) == {Trim[p] : p \in pieces} \ {Empty}

\* The first of the three variables that is set, parsed or not.
EnvFromVar(e) ==
  LET set == IF e.ENVIRONMENT # {} THEN e.ENVIRONMENT
             ELSE IF e.APP_ENV # {} THEN e.APP_ENV ELSE e.RUST_ENV
  IN {FromStr[t] : t \in set} \ {Unknown}

\* envy::from_env fails as a whole when one variable is missing or malformed.
EnvyFails(e) ==
  \/ e.DATABASE_URL = {}
  \/ \E n \in e.PORT : ~IsU16(n)
  \/ \E t \in e.ENVIRONMENT : Serde[t] = Unknown

FromEnv(e) ==
  [environment |-> Get({Serde[t] : t \in e.ENVIRONMENT}, "Development"),
   database_url |-> Get(e.DATABASE_URL, DefaultDatabase),
   port |-> Get(e.PORT, DefaultPort),
   host |-> Get(e.HOST, DefaultHost),
   allowed_origins |-> Get(e.ALLOWED_ORIGINS, {}),
   otel_service_name |-> Get(e.OTEL_SERVICE_NAME, DefaultServiceName),
   otlp_endpoint |-> e.OTLP_ENDPOINT, jwks_url |-> e.JWKS_URL,
   jwt_audience |-> e.JWT_AUDIENCE, jwt_issuer |-> e.JWT_ISSUER, redis_url |-> e.REDIS_URL]

\* Variable by variable; the environment is left to Override.
Fallback(e) ==
  [environment |-> "Development",
   database_url |-> Get(e.DATABASE_URL, DefaultDatabase),
   port |-> Get({n \in e.PORT : IsU16(n)}, DefaultPort),
   host |-> Get(e.HOST, DefaultHost),
   allowed_origins |-> ParseAllowedOrigins(Get(e.ALLOWED_ORIGINS, {})),
   otel_service_name |-> Get(e.OTEL_SERVICE_NAME, DefaultServiceName),
   otlp_endpoint |-> e.OTLP_ENDPOINT, jwks_url |-> e.JWKS_URL,
   jwt_audience |-> e.JWT_AUDIENCE, jwt_issuer |-> e.JWT_ISSUER, redis_url |-> e.REDIS_URL]

FromEnvOrFallback_Forgets(e) ==  \* mutation: the fallback does not read JWT_AUDIENCE
  IF EnvyFails(e) THEN [Fallback(e) EXCEPT !.jwt_audience = {}] ELSE FromEnv(e)

FromEnvOrFallback_Drifts(e) ==  \* mutation: one of the two default ports was changed
  IF EnvyFails(e) THEN Fallback(e)
  ELSE [FromEnv(e) EXCEPT !.port = Get(e.PORT, DefaultPort + 1)]

FromEnvOrFallback(e) == IF EnvyFails(e) THEN Fallback(e) ELSE FromEnv(e)

\* The environment of the variables overrides the one that envy has read.
Override_EnvyWins(e, default) ==  \* mutation: it only fills in for the fallback
  IF EnvyFails(e) THEN Get(EnvFromVar(e), default) ELSE default

Override(e, default) == Get(EnvFromVar(e), default)

Completed(e, loaded) ==
  [loaded EXCEPT
    !.environment = Override(e, @),
    !.allowed_origins = ParseAllowedOrigins(Get(e.ALLOWED_ORIGINS, @))]

Loaded(e) == Completed(e, FromEnvOrFallback(e))

Init == env \in Deployments /\ config = {} /\ layer = NoLayer

Load ==
  /\ config = {}
  /\ config' = {Loaded(env)}
  /\ UNCHANGED <<env, layer>>

(***************************************************************************)
(* The CORS layer                                                          *)
(***************************************************************************)
\* AllowOrigin::list panics on the wildcard; origins that are no header value
\* are dropped.
BuildCorsLayer ==
  /\ layer = NoLayer
  /\ \E c \in config :
       LET origins == c.allowed_origins \ NotAHeader
       IN layer' =
            IF c.environment # "Production" THEN [kind |-> "permissive", origins |-> {}]
            ELSE IF Wildcard \in origins THEN [kind |-> "panic", origins |-> {}]
            ELSE [kind |-> "list", origins |-> origins]
  /\ UNCHANGED <<env, config>>

Next == Load \/ BuildCorsLayer

Spec == Init /\ [][Next]_vars

\* The origins whose cross-origin requests are let through.
Allowed == IF layer.kind = "permissive" THEN Pieces ELSE layer.origins

(***************************************************************************)
(* Properties                                                              *)
(***************************************************************************)
\* The deployment says that its environment is d: by the first of the variables
\* that is set.
ReadAs(v) == {FromStr[t] : t \in v}
Declares(d) ==
  \/ d \in ReadAs(env.ENVIRONMENT)
  \/ env.ENVIRONMENT = {} /\ d \in ReadAs(env.APP_ENV)
  \/ env.ENVIRONMENT = {} /\ env.APP_ENV = {} /\ d \in ReadAs(env.RUST_ENV)

\* The environment is the declared one on both ways of loading, although envy
\* reads only ENVIRONMENT, with a parser of its own; and it is Development, not
\* Production, only when nothing declares otherwise (config.rs 129-173).
EnvironmentIsDeclared ==
  \A c \in config :
    /\ \A d \in AppEnvironment : Declares(d) => c.environment = d
    /\ c.environment # "Development" => Declares(c.environment)

\* One malformed variable costs only itself: every other setting that is there
\* survives the way through the fallback, the JWKS_URL that turns the gate on and
\* the audience and issuer that it asks for above all (config.rs 135-169).
Listed == {Trim[p] : p \in UNION env.ALLOWED_ORIGINS}
Survives(variable, setting) == variable # {} => variable = {setting}
OtherSettingsSurvive ==
  \A c \in config :
    /\ Survives(env.DATABASE_URL, c.database_url)
    /\ Survives(env.HOST, c.host)
    /\ Survives(env.OTEL_SERVICE_NAME, c.otel_service_name)
    /\ c.otlp_endpoint = env.OTLP_ENDPOINT /\ c.redis_url = env.REDIS_URL
    /\ c.jwks_url = env.JWKS_URL
    /\ c.jwt_audience = env.JWT_AUDIENCE /\ c.jwt_issuer = env.JWT_ISSUER
    /\ c.allowed_origins = Listed \ {Empty}
    /\ (\A n \in env.PORT : IsU16(n)) => Survives(env.PORT, c.port)
    /\ IsU16(c.port)

\* The code has every default and every parser twice, for envy and for the
\* fallback: what envy reads, the fallback would have read alike, so that a
\* setting that is mended or broken changes nothing but itself (config.rs 135-184).
WaysAgree ==
  \A c \in config : ~EnvyFails(env) => c = Completed(env, Fallback(env))

\* In a declared production nothing but the listed origins is let through,
\* surrounding white space and empty pieces aside, and every listed one that is
\* a header value is, unless the process does not start (security.rs 22-24).
ProductionAllowsTheListed ==
  layer # NoLayer /\ Declares("Production") =>
    \/ layer.kind = "panic" /\ Wildcard \in Listed
    \/ Allowed = Listed \ ({Empty} \cup NotAHeader)
=============================================================================
