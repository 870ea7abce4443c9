------------------------------ MODULE MCConfig ------------------------------
(***************************************************************************)
(* The instance of Config for TLC.                                         *)
(***************************************************************************)
EXTENDS Config, TLC

CONSTANTS PROD, mixed, dev, bogus,        \* "PROD", " pRoD ", "dev", "staging"
          db, idp, here, own,             \* texts
          app, spaced, star, newline, nothing

MCSerde == PROD :> "Production" @@ mixed :> Unknown @@ dev :> "Development"
             @@ bogus :> Unknown
MCFromStr == PROD :> "Production" @@ mixed :> "Production" @@ dev :> "Development"
               @@ bogus :> Unknown
MCTrim == [p \in Pieces |-> IF p = spaced THEN app ELSE p]

\* "abc", the smallest and the largest port, and the number after it.
MCPorts == {-1, 0, 65535, 65536}

Variables ==
  {"ENVIRONMENT", "APP_ENV", "RUST_ENV", "DATABASE_URL", "PORT", "HOST", "ALLOWED_ORIGINS",
   "OTEL_SERVICE_NAME", "OTLP_ENDPOINT", "JWKS_URL", "JWT_AUDIENCE", "JWT_ISSUER", "REDIS_URL"}
Plain == [v \in Variables |-> {}]

\* Every environment name and every list of origins, or every set of the texts,
\* with whatever makes envy fail.
MCDeployments ==
  {[Plain EXCEPT !.ENVIRONMENT = n, !.APP_ENV = a, !.RUST_ENV = r,
                 !.DATABASE_URL = d, !.PORT = p, !.ALLOWED_ORIGINS = o] :
     n \in Maybe(EnvTexts), a \in Maybe(EnvTexts), r \in Maybe(EnvTexts),
     d \in Maybe({db}), p \in Maybe(PortNumbers), o \in Maybe(SUBSET Pieces)}
  \cup
  {[Plain EXCEPT !.ENVIRONMENT = n, !.DATABASE_URL = d, !.PORT = p,
                 !.HOST = h, !.OTEL_SERVICE_NAME = s, !.OTLP_ENDPOINT = t,
                 !.JWKS_URL = j, !.JWT_AUDIENCE = a, !.JWT_ISSUER = i, !.REDIS_URL = c] :
     n \in Maybe(EnvTexts), d \in Maybe({db}), p \in Maybe(PortNumbers),
     h \in Maybe({here}), s \in Maybe({idp}), t \in Maybe({idp}), j \in Maybe({idp}),
     a \in Maybe({idp}), i \in Maybe({idp}), c \in Maybe({idp})}
=============================================================================
