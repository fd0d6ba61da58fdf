------------------------------ MODULE Startup -------------------------------
(***************************************************************************)
(* What the two processes make of their environment before they listen:    *)
(* the gates of apps/api/src/config.ts and the composition in              *)
(* apps/api/src/index.ts, the gates of apps/protocol/src/config.ts and     *)
(* createBoundaryClient of apps/protocol/src/boundary.ts.  A gate that is  *)
(* not passed throws, and the process does not come up.                    *)
(*                                                                         *)
(* A value of the environment is named by what the gates tell apart.       *)
(* "unset" includes the blank string where the code takes it for unset.    *)
(***************************************************************************)

\* PROTOCOL_BOUNDARY_CREDENTIALS.  malformed: not JSON, or not a non-empty array.
\* invalid: an element that is no credential, or two of one id.  The rest are
\* credentials: one that lists every operation, one that does not, the
\* credentials of other workloads only, and several that include the full one.
Credentials == {"unset", "malformed", "invalid", "full", "narrow", "others", "several"}

\* The array is there, and parseBoundaryCredentials accepts it.
Parsed(credentials) == credentials \notin {"malformed", "invalid"}

\* In development and under test the gates are the same.
ApiEnvironment ==
  [production  : BOOLEAN,
   persistence : {"unset", "memory", "postgres", "unknown"},
   secret      : {"unset", "short", "fallback", "strong"},
   database    : BOOLEAN,
   credentials : Credentials,
   pairwise    : {"unset", "short", "strong"},
   origins     : {"unset", "refused", "listed"},
   bootstrap   : {"off", "no email", "not an email", "email"}]

\* parseEnum with its fallback.
Persistence(env) ==
  IF env.persistence # "unset" THEN env.persistence
  ELSE IF env.production THEN "postgres" ELSE "memory"

AuthSecretGate(env) ==
  /\ env.secret # "short"
  /\ env.production => env.secret \notin {"unset", "fallback"}

PersistenceGate(env) ==
  /\ Persistence(env) \in {"memory", "postgres"}
  /\ env.production => Persistence(env) = "postgres"
  /\ Persistence(env) = "postgres" => env.database

\* Faulty variant: production comes up without credentials.
CredentialsGateOpen(env) == env.credentials # "malformed"

CredentialsGate(env) ==
  /\ env.credentials # "malformed"
  /\ env.production => env.credentials # "unset"

PairwiseGate(env) ==
  /\ env.pairwise # "short"
  /\ env.production => env.pairwise # "unset"

OriginsGate(env) ==
  /\ env.origins # "refused"
  /\ env.production => env.origins # "unset"

LoadApiConfig(env) ==
  /\ AuthSecretGate(env)
  /\ PersistenceGate(env)
  /\ CredentialsGate(env)
  /\ PairwiseGate(env)
  /\ OriginsGate(env)

\* createBootstrapControl.
BootstrapGate(env) ==
  env.bootstrap # "off" => env.database /\ env.bootstrap = "email"

\* createBetterAuthPort.
AuthPortGate(env) ==
  /\ ~(env.production /\ Persistence(env) = "memory")
  /\ Persistence(env) = "postgres" => env.database

\* The handlers are composed when there is a database, and need a secret.
ComposeApi(env) ==
  /\ BootstrapGate(env)
  /\ env.secret # "unset"
  /\ AuthPortGate(env)
  /\ env.database => env.pairwise # "unset"
  /\ Parsed(env.credentials)

ApiComesUp(env) == LoadApiConfig(env) /\ ComposeApi(env)

\* What the route of the boundary knows of the client's credential; handlers:
\* whether operations have handlers.
KnownCredential(credentials) ==
  CASE credentials \in {"full", "several"} -> "full"
    [] credentials = "unset"               -> "none"
    [] OTHER                               -> credentials

ComposedApi(production) ==
  {[credential |-> KnownCredential(env.credentials), handlers |-> env.database] :
     env \in {e \in ApiEnvironment : e.production = production /\ ApiComesUp(e)}}
-----------------------------------------------------------------------------
\* schema: every value has the form envSchema asks for.  A blank list of
\* credentials or keys is no JSON, so it counts as malformed here.
ProtocolEnvironment ==
  [production      : BOOLEAN,
   schema          : BOOLEAN,
   issuer          : {"not canonical", "canonical", "https://id.lab.pics"},
   adapter         : {"memory", "external"},
   jwks            : {"generated", "malformed", "supplied"},
   devInteractions : BOOLEAN,
   credentials     : Credentials,
   cookieKeys      : {"unset", "malformed", "strong"},
   apiBaseUrl      : {"origin", "path"}]

ProductionGate(env) ==
  /\ env.issuer = "https://id.lab.pics"
  /\ env.adapter = "external"
  /\ env.jwks # "generated"
  /\ ~env.devInteractions
  /\ env.credentials # "unset"
  /\ env.cookieKeys # "unset"

LoadProtocolConfig(env) ==
  /\ env.schema
  /\ env.issuer # "not canonical"
  /\ env.credentials # "malformed"
  /\ env.jwks # "malformed"
  /\ env.cookieKeys # "malformed"
  /\ env.production => ProductionGate(env)

\* createBoundaryClient: no credential makes the stub; several are refused, and
\* so is a base URL that is not an origin, which the stub does not look at.
CreateBoundaryClient(env) ==
  /\ Parsed(env.credentials)
  /\ env.credentials # "unset" => env.credentials # "several" /\ env.apiBaseUrl = "origin"

ProtocolComesUp(env) == LoadProtocolConfig(env) /\ CreateBoundaryClient(env)

\* The client's credential; the credential of another workload is its own.
ComposedClient(production) ==
  {IF env.credentials = "unset" THEN "none"
   ELSE IF env.credentials = "narrow" THEN "narrow" ELSE "full" :
     env \in {e \in ProtocolEnvironment : e.production = production /\ ProtocolComesUp(e)}}
=============================================================================
