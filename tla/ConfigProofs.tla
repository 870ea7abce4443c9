---------------------------- MODULE ConfigProofs ----------------------------
(***************************************************************************)
(* Proofs about Config, for every environment and any pair of parsers that *)
(* agree where both succeed (ConfigAssumption).                            *)
(***************************************************************************)
EXTENDS Config, TLAPS

\* What Get returns for the two kinds of option.
LEMMA GetDefault == ASSUME NEW d PROVE Get({}, d) = d
BY DEF Get

LEMMA GetValue == ASSUME NEW x, NEW d PROVE Get({x}, d) = x
BY DEF Get

\* An option is empty or has one value.
LEMMA MaybeCases ==
  ASSUME NEW S, NEW option \in Maybe(S)
  PROVE option = {} \/ \E x \in S : option = {x}
BY DEF Maybe

\* The configuration is the loaded one, of an environment.
IsLoaded == env \in Environments /\ config \subseteq {Loaded(env)}

THEOREM LoadedOnly == Spec => []IsLoaded
<1>1. Init => IsLoaded
  BY ConfigAssumption DEF Init, IsLoaded
<1>2. IsLoaded /\ [Next]_vars => IsLoaded'
  BY DEF IsLoaded, Next, Load, BuildCorsLayer, vars
<1>3. QED
  BY <1>1, <1>2, PTL DEF Spec

-----------------------------------------------------------------------------
\* The fields that Loaded leaves as they were, and the one it overrides.
LEMMA LoadedFields ==
  ASSUME NEW e
  PROVE /\ Loaded(e).port = FromEnvOrFallback(e).port
        /\ Loaded(e).database_url = FromEnvOrFallback(e).database_url
        /\ Loaded(e).host = FromEnvOrFallback(e).host
        /\ Loaded(e).otel_service_name = FromEnvOrFallback(e).otel_service_name
        /\ Loaded(e).environment =
             Get(EnvFromVar(e), FromEnvOrFallback(e).environment)
BY DEF Loaded, Completed, Override, FromEnvOrFallback, FromEnv, Fallback

\* Where there is no default there is nothing to lose.
LEMMA OptionsOfLoaded ==
  ASSUME NEW e
  PROVE /\ Loaded(e).otlp_endpoint = e.OTLP_ENDPOINT
        /\ Loaded(e).redis_url = e.REDIS_URL
        /\ Loaded(e).jwks_url = e.JWKS_URL
        /\ Loaded(e).jwt_audience = e.JWT_AUDIENCE
        /\ Loaded(e).jwt_issuer = e.JWT_ISSUER
BY DEF Loaded, Completed, FromEnvOrFallback, FromEnv, Fallback

LEMMA GivenSurvives ==
  ASSUME NEW S, NEW variable \in Maybe(S), NEW default
  PROVE  Survives(variable, Get(variable, default))
<1>1. variable = {} \/ \E x \in S : variable = {x}
  BY MaybeCases
<1>2. ASSUME NEW x \in S, variable = {x} PROVE Get(variable, default) = x
  BY <1>2, GetValue
<1> QED
  BY <1>1, <1>2 DEF Survives

\* Texts with a default survive both ways of loading.
LEMMA TextsSurvive ==
  ASSUME NEW e \in Environments
  PROVE /\ Survives(e.DATABASE_URL, Loaded(e).database_url)
        /\ Survives(e.HOST, Loaded(e).host)
        /\ Survives(e.OTEL_SERVICE_NAME, Loaded(e).otel_service_name)
<1>1. /\ FromEnvOrFallback(e).database_url = Get(e.DATABASE_URL, DefaultDatabase)
      /\ FromEnvOrFallback(e).host = Get(e.HOST, DefaultHost)
      /\ FromEnvOrFallback(e).otel_service_name = Get(e.OTEL_SERVICE_NAME, DefaultServiceName)
  BY DEF FromEnvOrFallback, FromEnv, Fallback
<1>2. e.DATABASE_URL \in Maybe(Texts) /\ e.HOST \in Maybe(Texts)
      /\ e.OTEL_SERVICE_NAME \in Maybe(Texts)
  BY DEF Environments
<1> QED
  BY <1>1, <1>2, LoadedFields, GivenSurvives

\* A port that fits survives, and one that does not gives way to the default.
LEMMA PortSurvives ==
  ASSUME NEW e \in Environments
  PROVE /\ (\A n \in e.PORT : IsU16(n)) => Survives(e.PORT, Loaded(e).port)
        /\ IsU16(Loaded(e).port)
<1> DEFINE p == FromEnvOrFallback(e).port
           fitting == {n \in e.PORT : IsU16(n)}
<1>1. IsU16(DefaultPort)
  BY DEF IsU16, DefaultPort
<1>2. p = Get(fitting, DefaultPort)
  <2>1. CASE EnvyFails(e)
    BY <2>1 DEF FromEnvOrFallback, Fallback
  <2>2. CASE ~EnvyFails(e)
    <3>1. fitting = e.PORT
      BY <2>2 DEF EnvyFails
    <3> QED
      BY <2>2, <3>1 DEF FromEnvOrFallback, FromEnv
  <2> QED
    BY <2>1, <2>2
<1>3. ASSUME fitting = {} PROVE p = DefaultPort
  BY <1>2, <1>3, GetDefault
<1>4. ASSUME NEW n \in PortNumbers, e.PORT = {n}, IsU16(n) PROVE p = n
  <2>1. fitting = {n}
    BY <1>4
  <2> QED
    BY <1>2, <2>1, GetValue
<1>5. e.PORT = {} \/ \E n \in PortNumbers : e.PORT = {n}
  BY MaybeCases DEF Environments
<1>6. /\ (\A n \in e.PORT : IsU16(n)) => Survives(e.PORT, p)
      /\ IsU16(p)
  <2>1. CASE e.PORT = {}
    BY <1>1, <1>3, <2>1 DEF Survives
  <2>2. ASSUME NEW n \in PortNumbers, e.PORT = {n}, IsU16(n)
        PROVE  Survives(e.PORT, p) /\ IsU16(p)
    BY <1>4, <2>2 DEF Survives
  <2>3. ASSUME NEW n \in PortNumbers, e.PORT = {n}, ~IsU16(n)
        PROVE  IsU16(p) /\ ~\A m \in e.PORT : IsU16(m)
    <3>1. fitting = {}
      BY <2>3
    <3> QED
      BY <1>1, <1>3, <2>3, <3>1
  <2> QED
    BY <1>5, <2>1, <2>2, <2>3
<1> QED
  BY <1>6, LoadedFields

\* Both ways of loading end with the same reading of ALLOWED_ORIGINS.
LEMMA OriginsOfLoaded ==
  ASSUME env \in Environments
  PROVE  Loaded(env).allowed_origins = Listed \ {Empty}
<1> DEFINE l == FromEnvOrFallback(env)
           given == Get(env.ALLOWED_ORIGINS, l.allowed_origins)
<1>1. Loaded(env).allowed_origins = ParseAllowedOrigins(given)
  BY DEF Loaded, Completed, FromEnvOrFallback, FromEnv, Fallback
<1>2. ASSUME NEW S \in SUBSET Pieces, env.ALLOWED_ORIGINS = {S}
      PROVE  given = UNION env.ALLOWED_ORIGINS
  <2>1. given = S
    BY <1>2, GetValue
  <2>2. UNION {S} = S
    OBVIOUS
  <2> QED
    BY <1>2, <2>1, <2>2
<1>3. ASSUME env.ALLOWED_ORIGINS = {} PROVE given = UNION env.ALLOWED_ORIGINS
  <2>1. given = l.allowed_origins
    BY <1>3, GetDefault
  <2>2. Get(env.ALLOWED_ORIGINS, {}) = {} /\ ParseAllowedOrigins({}) = {}
    BY <1>3, GetDefault DEF ParseAllowedOrigins
  <2>3. l.allowed_origins = {}
    BY <2>2 DEF FromEnvOrFallback, FromEnv, Fallback
  <2> QED
    BY <1>3, <2>1, <2>3
<1>4. given = UNION env.ALLOWED_ORIGINS
  <2>1. env.ALLOWED_ORIGINS \in Maybe(SUBSET Pieces)
    BY DEF Environments
  <2>2. env.ALLOWED_ORIGINS = {} \/ \E S \in SUBSET Pieces : env.ALLOWED_ORIGINS = {S}
    BY <2>1, MaybeCases
  <2> QED
    BY <1>2, <1>3, <2>2
<1> QED
  BY <1>1, <1>4 DEF ParseAllowedOrigins, Listed

\* One malformed variable costs only itself, of all that are read.
THEOREM SettingsSurvive == Spec => []OtherSettingsSurvive
<1>1. IsLoaded => OtherSettingsSurvive
  BY TextsSurvive, OptionsOfLoaded, PortSurvives, OriginsOfLoaded
     DEF IsLoaded, OtherSettingsSurvive
<1>2. QED
  BY <1>1, LoadedOnly, PTL

-----------------------------------------------------------------------------
\* The first variable that is set, and what it is read as.
First(e) == IF e.ENVIRONMENT # {} THEN e.ENVIRONMENT
            ELSE IF e.APP_ENV # {} THEN e.APP_ENV ELSE e.RUST_ENV

LEMMA FirstDeclares ==
  ASSUME env \in Environments, NEW d
  PROVE Declares(d) <=> d \in ReadAs(First(env))
BY DEF Declares, ReadAs, First

LEMMA EnvironmentOfLoaded ==
  ASSUME NEW e \in Environments
  PROVE /\ \A d \in AppEnvironment :
             d \in ReadAs(First(e)) => Loaded(e).environment = d
        /\ Loaded(e).environment # "Development" =>
             Loaded(e).environment \in ReadAs(First(e))
<1> DEFINE l == FromEnvOrFallback(e)
<1>1. First(e) = {} \/ \E t \in EnvTexts : First(e) = {t}
  BY MaybeCases DEF First, Environments
<1>2. EnvFromVar(e) = ReadAs(First(e)) \ {Unknown}
  BY DEF EnvFromVar, ReadAs, First
<1>3. Loaded(e).environment = Get(EnvFromVar(e), l.environment)
  BY LoadedFields
<1>4. ASSUME NEW t \in EnvTexts, First(e) = {t}, FromStr[t] # Unknown
      PROVE Loaded(e).environment = FromStr[t] /\ ReadAs(First(e)) = {FromStr[t]}
  <2>1. ReadAs(First(e)) = {FromStr[t]}
    BY <1>4 DEF ReadAs
  <2>2. EnvFromVar(e) = {FromStr[t]}
    BY <1>2, <1>4, <2>1
  <2>3. QED
    BY <1>3, <2>1, <2>2, GetValue
<1>5. ASSUME EnvFromVar(e) = {} PROVE Loaded(e).environment = "Development"
  \* Nothing could be read, so envy had no ENVIRONMENT or has failed on it.
  <2>1. Loaded(e).environment = l.environment
    BY <1>3, <1>5, GetDefault
  <2>2. CASE EnvyFails(e)
    BY <2>1, <2>2 DEF FromEnvOrFallback, Fallback
  <2>3. CASE ~EnvyFails(e)
    <3>1. e.ENVIRONMENT = {}
      <4>1. SUFFICES ASSUME NEW t \in EnvTexts, e.ENVIRONMENT = {t} PROVE FALSE
        BY MaybeCases DEF Environments
      <4>2. FromStr[t] # Unknown
        BY <2>3, <4>1, ConfigAssumption DEF EnvyFails
      <4>3. FromStr[t] \in EnvFromVar(e)
        BY <4>1, <4>2 DEF EnvFromVar
      <4>4. QED
        BY <1>5, <4>3
    <3>2. {Serde[t] : t \in e.ENVIRONMENT} = {}
      BY <3>1
    <3>3. l.environment = Get({}, "Development")
      BY <2>3, <3>2 DEF FromEnvOrFallback, FromEnv
    <3>4. QED
      BY <2>1, <3>3, GetDefault
  <2>4. QED
    BY <2>2, <2>3
<1>6. ASSUME NEW t \in EnvTexts, First(e) = {t}, FromStr[t] = Unknown
      PROVE EnvFromVar(e) = {} /\ ReadAs(First(e)) = {Unknown}
  BY <1>2, <1>6 DEF ReadAs
<1>7. First(e) = {} => EnvFromVar(e) = {} /\ ReadAs(First(e)) = {}
  BY <1>2 DEF ReadAs
<1>8. QED
  BY <1>1, <1>4, <1>5, <1>6, <1>7, ConfigAssumption

\* The environment is the declared one, on both ways of loading.
THEOREM DeclaredIsLoaded == Spec => []EnvironmentIsDeclared
<1>1. IsLoaded => EnvironmentIsDeclared
  BY EnvironmentOfLoaded, FirstDeclares DEF IsLoaded, EnvironmentIsDeclared
<1>2. QED
  BY <1>1, LoadedOnly, PTL

-----------------------------------------------------------------------------
\* The layer is the one that is built from the configuration.
LayerOf(c) ==
  LET origins == c.allowed_origins \ NotAHeader
  IN IF c.environment # "Production" THEN [kind |-> "permissive", origins |-> {}]
     ELSE IF Wildcard \in origins THEN [kind |-> "panic", origins |-> {}]
     ELSE [kind |-> "list", origins |-> origins]

IsBuilt == layer = NoLayer \/ \E c \in config : layer = LayerOf(c)

LEMMA LayerIsBuilt == Spec => []IsBuilt
<1>1. Init => IsBuilt
  BY DEF Init, IsBuilt
<1>2. ASSUME IsBuilt, [Next]_vars PROVE IsBuilt'
  <2>1. CASE Load
    BY <1>2, <2>1 DEF Load, IsBuilt
  <2>2. CASE BuildCorsLayer
    BY <2>2 DEF BuildCorsLayer, IsBuilt, LayerOf
  <2>3. CASE UNCHANGED vars
    BY <1>2, <2>3 DEF vars, IsBuilt
  <2> QED
    BY <1>2, <2>1, <2>2, <2>3 DEF Next
<1> QED
  BY <1>1, <1>2, PTL DEF Spec

\* A declared production lets through exactly what its deployment lists, or does
\* not start.
THEOREM OnlyTheListed == Spec => []ProductionAllowsTheListed
<1>1. IsLoaded /\ IsBuilt => ProductionAllowsTheListed
  <2> SUFFICES ASSUME IsLoaded, IsBuilt, layer # NoLayer, Declares("Production")
               PROVE  \/ layer.kind = "panic" /\ Wildcard \in Listed
                      \/ Allowed = Listed \ ({Empty} \cup NotAHeader)
    BY DEF ProductionAllowsTheListed
  <2>1. layer = LayerOf(Loaded(env)) /\ env \in Environments
    BY DEF IsLoaded, IsBuilt
  <2>2. Loaded(env).environment = "Production"
    BY <2>1, EnvironmentOfLoaded, FirstDeclares DEF AppEnvironment
  <2>3. Loaded(env).allowed_origins = Listed \ {Empty}
    BY <2>1, OriginsOfLoaded
  <2> QED
    BY <2>1, <2>2, <2>3 DEF LayerOf, Allowed
<1> QED
  BY <1>1, LoadedOnly, LayerIsBuilt, PTL

-----------------------------------------------------------------------------
\* What envy reads, the fallback reads alike.
LEMMA ReadAlike ==
  ASSUME NEW e \in Environments, ~EnvyFails(e)
  PROVE  Completed(e, FromEnv(e)) = Completed(e, Fallback(e))
<1> DEFINE a == FromEnv(e)
           b == Fallback(e)
<1>1. /\ a.database_url = b.database_url
      /\ a.host = b.host
      /\ a.otel_service_name = b.otel_service_name
      /\ a.otlp_endpoint = b.otlp_endpoint
      /\ a.jwks_url = b.jwks_url
      /\ a.jwt_audience = b.jwt_audience
      /\ a.jwt_issuer = b.jwt_issuer
      /\ a.redis_url = b.redis_url
      /\ a = [environment |-> a.environment, port |-> a.port, database_url |-> a.database_url,
                host |-> a.host, allowed_origins |-> a.allowed_origins, otel_service_name |-> a.otel_service_name,
                otlp_endpoint |-> a.otlp_endpoint, jwks_url |-> a.jwks_url, jwt_audience |-> a.jwt_audience,
                jwt_issuer |-> a.jwt_issuer, redis_url |-> a.redis_url]
      /\ b = [environment |-> b.environment, port |-> b.port, database_url |-> b.database_url,
                host |-> b.host, allowed_origins |-> b.allowed_origins, otel_service_name |-> b.otel_service_name,
                otlp_endpoint |-> b.otlp_endpoint, jwks_url |-> b.jwks_url, jwt_audience |-> b.jwt_audience,
                jwt_issuer |-> b.jwt_issuer, redis_url |-> b.redis_url]
  BY DEF FromEnv, Fallback
<1>2. a.port = b.port
  <2>1. {n \in e.PORT : IsU16(n)} = e.PORT
    BY DEF EnvyFails
  <2> QED
    BY <2>1 DEF FromEnv, Fallback
<1>3. Override(e, a.environment) = Override(e, b.environment)
  <2>1. CASE e.ENVIRONMENT = {}
    <3>1. {Serde[t] : t \in e.ENVIRONMENT} = {}
      BY <2>1
    <3>2. a.environment = Get({}, "Development")
      BY <3>1 DEF FromEnv
    <3> QED
      BY <3>2, GetDefault DEF Fallback
  <2>2. ASSUME NEW t \in EnvTexts, e.ENVIRONMENT = {t}
        PROVE  Override(e, a.environment) = Override(e, b.environment)
    <3>1. FromStr[t] # Unknown
      BY <2>2, ConfigAssumption DEF EnvyFails
    <3>2. {FromStr[u] : u \in {t}} = {FromStr[t]}
      OBVIOUS
    <3>3. EnvFromVar(e) = {FromStr[t]}
      BY <2>2, <3>1, <3>2 DEF EnvFromVar
    <3> QED
      BY <3>3, GetValue DEF Override
  <2> QED
    BY <2>1, <2>2, MaybeCases DEF Environments
<1>4. Get(e.ALLOWED_ORIGINS, a.allowed_origins) = Get(e.ALLOWED_ORIGINS, b.allowed_origins)
  <2>1. CASE e.ALLOWED_ORIGINS = {}
    <3>1. Get(e.ALLOWED_ORIGINS, {}) = {} /\ ParseAllowedOrigins({}) = {}
      BY <2>1, GetDefault DEF ParseAllowedOrigins
    <3> QED
      BY <3>1 DEF FromEnv, Fallback
  <2>2. ASSUME NEW S \in SUBSET Pieces, e.ALLOWED_ORIGINS = {S}
        PROVE  Get(e.ALLOWED_ORIGINS, a.allowed_origins)
                 = Get(e.ALLOWED_ORIGINS, b.allowed_origins)
    BY <2>2, GetValue
  <2>3. e.ALLOWED_ORIGINS \in Maybe(SUBSET Pieces)
    BY DEF Environments
  <2>4. e.ALLOWED_ORIGINS = {} \/ \E S \in SUBSET Pieces : e.ALLOWED_ORIGINS = {S}
    BY <2>3, MaybeCases
  <2> QED
    BY <2>1, <2>2, <2>4
<1> HIDE DEF a, b
<1> QED
  BY <1>1, <1>2, <1>3, <1>4 DEF Completed, a, b

\* The two ways of loading give the same configuration wherever both give one.
THEOREM WaysOfLoadingAgree == Spec => []WaysAgree
<1>1. IsLoaded => WaysAgree
  BY ReadAlike DEF IsLoaded, WaysAgree, Loaded, FromEnvOrFallback
<1> QED
  BY <1>1, LoadedOnly, PTL
=============================================================================
