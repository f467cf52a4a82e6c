----------------------------- MODULE BootConfig -----------------------------
(***************************************************************************)
(* How one checkout is configured: the OS environment and the .env files   *)
(* reach the application by two paths, process.env (load-env.ts, read by   *)
(* feature-flags.ts before the container exists) and ConfigService (the    *)
(* ConfigModule of app.module.ts, validated by env.validation.ts), and the *)
(* migration CLI (typeorm-data-source.ts) by process.env alone.            *)
(*                                                                         *)
(* A value is a pair of its JavaScript type and its text, since the code   *)
(* tells the boolean false from the string 'false'.                        *)
(***************************************************************************)
EXTENDS Naturals

CONSTANT Inputs   \* what OS and files may set: records [os, development,
                  \* production, shared] of environments

Str(s) == <<"string", s>>
Bool(s) == <<"boolean", s>>
Undefined == <<"undefined", "">>

Flags == {"REDIS_ENABLED", "BULLMQ_ENABLED", "PROMETHEUS_ENABLED"}
BooleanKeys == Flags \cup {"DB_SSL", "DB_SSL_REJECT_UNAUTHORIZED"}
TextKeys == {"NODE_ENV", "CORS_ORIGINS", "DB_HOST", "DB_PASSWORD"}
Keys == BooleanKeys \cup TextKeys

Unset == [k \in Keys |-> Undefined]

\* The text of CORS_ORIGINS is the sequence of what its commas separate: each an origin
\* or nothing, alone or between blanks.
Bare(origin) == [origin |-> origin, blanks |-> FALSE]
Blank(origin) == [origin |-> origin, blanks |-> TRUE]
AnyOrigin == "*"

\* An environment: what process.env or a file holds under each key.
IsEnvironment(e) ==
  /\ DOMAIN e = Keys
  /\ \A k \in Keys : e[k] \in {Undefined, Str(e[k][2])}

ASSUME BootAssumption ==
  \A i \in Inputs :
    /\ IsEnvironment(i.os) /\ IsEnvironment(i.development)
    /\ IsEnvironment(i.production) /\ IsEnvironment(i.shared)

VARIABLES
  input,    \* the OS environment and the files: they do not change
  app,      \* how far the application has come
  env,      \* process.env of the application until its last reader, forRoot
  flags,    \* featureFlags
  config,   \* what ConfigService answers
  modules,  \* the optional modules in the imports of AppModule
  runtime,  \* what the providers made of the configuration
  cli,      \* how far the migration CLI has come
  cliEnv,   \* process.env of the CLI
  cliDb     \* the connection options of its DataSource

vars == <<input, app, env, flags, config, modules, runtime, cli, cliEnv, cliDb>>
appVars == <<app, env, flags, config, modules, runtime>>
cliVars == <<cli, cliEnv, cliDb>>

NoConnection == [host |-> Undefined, password |-> Undefined, ssl |-> "off"]
Dormant == [redisClient |-> FALSE, cacheStores |-> 0, origins |-> {}, db |-> NoConnection]
NoFlags == [f \in Flags |-> FALSE]

Init ==
  /\ input \in Inputs
  /\ app = "new" /\ env = Unset /\ flags = NoFlags /\ config = Unset
  /\ modules = {} /\ runtime = Dormant
  /\ cli = "new" /\ cliEnv = Unset /\ cliDb = NoConnection

-----------------------------------------------------------------------------
(* Loading: load-env.ts, and ConfigModule's own reading of the files       *)

\* Neither dotenv nor ConfigModule overwrites what is there: the first source wins.
Over(first, second) ==
  [k \in Keys |-> IF first[k] # Undefined THEN first[k] ELSE second[k]]

\* envFilePaths(): the file NODE_ENV names on entry comes before .env.
ModeFile(e, files) ==
  CASE e["NODE_ENV"] = Str("production") -> files.production
    [] e["NODE_ENV"] \in {Undefined, Str("development")} -> files.development
    [] OTHER -> Unset

\* loadEnvFiles(envFilePaths())
LoadEnvFiles(e, files) == Over(Over(e, ModeFile(e, files)), files.shared)

\* isFeatureEnabled and both isTruthy.
IsTruthy(v) == v \in {Bool("true"), Str("true")}

LoadApp ==
  /\ app = "new"
  /\ app' = "loaded" /\ env' = LoadEnvFiles(input.os, input)
  /\ UNCHANGED <<input, flags, config, modules, runtime, cliVars>>

-----------------------------------------------------------------------------
(* Flags and validation                                                    *)

FlagsOfTheOs(e) == [f \in Flags |-> IsTruthy(input.os[f])]

\* resolveFeatureFlags
ResolveFeatureFlags(e) == [f \in Flags |-> IsTruthy(e[f])]

\* The body of feature-flags.ts runs when app.module.ts imports it.
EvaluateFlags ==
  /\ app = "loaded"
  /\ app' = "flagged" /\ flags' = ResolveFeatureFlags(env)
  /\ UNCHANGED <<input, env, config, modules, runtime, cliVars>>

Default(k) ==
  CASE k \in Flags \cup {"DB_SSL_REJECT_UNAUTHORIZED"} -> Bool("true")
    [] k = "DB_SSL"       -> Bool("false")
    [] k = "NODE_ENV"     -> Str("development")
    [] k = "CORS_ORIGINS" -> Str(<<Bare(AnyOrigin)>>)
    [] k = "DB_HOST"      -> Str("localhost")
    [] k = "DB_PASSWORD"  -> Str("app")

\* Joi.boolean() takes either word in any case.
Truthy == {Str("true"), Str("TRUE")}
Falsy == {Str("false"), Str("FALSE")}

\* parseCorsOrigins: what stands between the commas, trimmed, unless nothing is left.
Trim(entry) == Bare(entry.origin)
ParseCorsOrigins(raw) ==
  {Trim(raw[2][i]).origin : i \in DOMAIN raw[2]} \ {""}

\* hasWildcardOrigin, and the origins that contain "://".
HasWildcardOrigin(raw) == AnyOrigin \in ParseCorsOrigins(raw)
WithScheme == {"https://a.io", "http://b.io"}

Valid(e) ==
  /\ \A k \in BooleanKeys : e[k] \in Truthy \cup Falsy \cup {Undefined}
  /\ e["NODE_ENV"] \in {Undefined, Str("development"), Str("production"), Str("test")}
  /\ e["CORS_ORIGINS"] # Str(<<Bare("")>>)   \* Joi.string() takes no empty text

ProductionValidOnRawText(e) ==
  e["NODE_ENV"] = Str("production") =>
    /\ e["CORS_ORIGINS"] \notin {Undefined, Str(<<Bare(AnyOrigin)>>)}
    /\ e["DB_PASSWORD"] \notin {Undefined, Str("")}
    /\ e["DB_SSL_REJECT_UNAUTHORIZED"] \notin Falsy

\* The .when() branch: only for a NODE_ENV that says production itself.
ProductionValid(e) ==
  e["NODE_ENV"] = Str("production") =>
    /\ e["CORS_ORIGINS"] # Undefined
    /\ ParseCorsOrigins(e["CORS_ORIGINS"]) # {}
    /\ ~HasWildcardOrigin(e["CORS_ORIGINS"])
    /\ ParseCorsOrigins(e["CORS_ORIGINS"]) \subseteq WithScheme
    /\ e["DB_PASSWORD"] \notin {Undefined, Str("")}
    /\ e["DB_SSL_REJECT_UNAUTHORIZED"] \notin Falsy

ValidatedAsText(e) == [k \in Keys |-> IF e[k] = Undefined THEN Default(k) ELSE e[k]]

\* The value validation returns: defaults filled in, booleans converted.
Validated(e) ==
  [k \in Keys |->
     CASE e[k] = Undefined -> Default(k)
       [] k \in BooleanKeys /\ e[k] \in Truthy -> Bool("true")
       [] k \in BooleanKeys /\ e[k] \in Falsy  -> Bool("false")
       [] OTHER -> e[k]]

\* imports of AppModule
ModulesWithoutRedis(f) ==
  (IF f["PROMETHEUS_ENABLED"] THEN {"MetricsModule"} ELSE {}) \cup
  (IF f["BULLMQ_ENABLED"] THEN {"QueueModule"} ELSE {})

Modules(f) ==
  (IF f["PROMETHEUS_ENABLED"] THEN {"MetricsModule"} ELSE {}) \cup
  (IF f["BULLMQ_ENABLED"] /\ f["REDIS_ENABLED"] THEN {"QueueModule"} ELSE {})

\* ConfigModule.forRoot, and the imports array it stands in.  envFilePaths() is
\* called again, on the process.env that load-env.ts has filled.
ForRoot ==
  /\ app = "flagged"
  /\ LET read == LoadEnvFiles(env, input) IN
       IF Valid(read) /\ ProductionValid(read)
         THEN app' = "configured" /\ config' = Validated(read) /\ modules' = Modules(flags)
         ELSE app' = "refused" /\ UNCHANGED <<config, modules>>
  /\ UNCHANGED <<input, env, flags, runtime, cliVars>>

-----------------------------------------------------------------------------
(* What the providers build                                                *)

\* buildSslOptions compares with the string 'false', nothing else.
RejectUnauthorized(v) == v # Str("false")

Ssl(enabled, reject) ==
  IF ~enabled THEN "off" ELSE IF RejectUnauthorized(reject) THEN "verified" ELSE "unverified"

\* buildTypeOrmOptions: validation has filled in every default.
BuildTypeOrmOptions(c) ==
  [host |-> c["DB_HOST"], password |-> c["DB_PASSWORD"],
   ssl |-> Ssl(IsTruthy(c["DB_SSL"]), c["DB_SSL_REJECT_UNAUTHORIZED"])]

\* The factories run: RedisService, buildCacheOptions, buildCorsOptions
\* (AnyOrigin stands for reflecting every origin) and buildTypeOrmOptions.
Wire ==
  /\ app = "configured"
  /\ app' = "up"
  /\ LET redis == IsTruthy(config["REDIS_ENABLED"])
         origins == config["CORS_ORIGINS"] IN
       runtime' = [redisClient |-> redis,
                   cacheStores |-> IF redis THEN 2 ELSE 1,
                   origins |-> IF HasWildcardOrigin(origins) THEN {AnyOrigin}
                               ELSE ParseCorsOrigins(origins),
                   db |-> BuildTypeOrmOptions(config)]
  /\ UNCHANGED <<input, env, flags, config, modules, cliVars>>

-----------------------------------------------------------------------------
(* The migration CLI                                                       *)

Or(v, default) == IF v = Undefined THEN default ELSE v

\* buildDataSourceOptionsFromEnv
BuildDataSourceOptionsFromEnv(e) ==
  [host |-> Or(e["DB_HOST"], Str("localhost")),
   password |-> Or(e["DB_PASSWORD"], Str("app")),
   ssl |-> Ssl(e["DB_SSL"] = Str("true"), e["DB_SSL_REJECT_UNAUTHORIZED"])]

LoadCliFromSharedOnly ==
  /\ cli = "new"
  /\ cli' = "loaded" /\ cliEnv' = Over(input.os, input.shared)
  /\ UNCHANGED <<input, appVars, cliDb>>

LoadCli ==
  /\ cli = "new"
  /\ cli' = "loaded" /\ cliEnv' = LoadEnvFiles(input.os, input)
  /\ UNCHANGED <<input, appVars, cliDb>>

ConnectCli ==
  /\ cli = "loaded"
  /\ cli' = "connected" /\ cliDb' = BuildDataSourceOptionsFromEnv(cliEnv)
  /\ UNCHANGED <<input, appVars, cliEnv>>

\* Both programs have come as far as they can.
Started ==
  app \in {"up", "refused"} /\ cli = "connected" /\ UNCHANGED vars

Next ==
  \/ LoadApp \/ EvaluateFlags \/ ForRoot \/ Wire
  \/ LoadCli \/ ConnectCli
  \/ Started

Spec == Init /\ [][Next]_vars

-----------------------------------------------------------------------------
(* Properties                                                              *)

\* The type of the state; ConfigService answers booleans with booleans.
TypeOK ==
  /\ app \in {"new", "loaded", "flagged", "configured", "refused", "up"}
  /\ IsEnvironment(env) /\ IsEnvironment(cliEnv)
  /\ flags \in [Flags -> BOOLEAN]
  /\ DOMAIN config = Keys
  /\ \A k \in BooleanKeys : config[k] \in {Undefined, Bool("true"), Bool("false")}
  /\ modules \subseteq {"MetricsModule", "QueueModule"}
  /\ runtime.redisClient \in BOOLEAN /\ runtime.cacheStores \in 0..2
  /\ cli \in {"new", "loaded", "connected"}
  /\ {runtime.db.ssl, cliDb.ssl} \subseteq {"off", "verified", "unverified"}

\* Whatever the two paths disagree on, QueueModule (wired by process.env) never
\* comes without the Redis client and cache tier (made by ConfigService).
QueueHasRedis ==
  app = "up" /\ "QueueModule" \in modules =>
    runtime.redisClient /\ runtime.cacheStores = 2

\* No file changes the mode by which the files were chosen.
ModeIsStable == ModeFile(LoadEnvFiles(input.os, input), input) = ModeFile(input.os, input)

Spelled(e, k) == e[k] \in {Str("true"), Str("false")}

\* As load-env.ts promises, the flag and the configuration agree on a feature
\* whose value is spelled out, from whichever source, unless a file changes the mode.
SpelledFlagsAgree ==
  app \in {"configured", "up"} /\ ModeIsStable =>
    \A f \in Flags : Spelled(env, f) => (flags[f] <=> config[f] = Bool("true"))

\* A production process lists the origins it accepts, checks the database's
\* certificate if it uses TLS, and has a database password.
ProductionIsStrict ==
  app = "up" /\ config["NODE_ENV"] = Str("production") =>
    /\ runtime.origins # {} /\ runtime.origins \subseteq WithScheme
    /\ runtime.db.ssl # "unverified" /\ runtime.db.password # Str("")

\* Migrations run against the database the application uses, over the same kind
\* of connection, given a spelled out DB_SSL and no switch that turns verification off.
MigrationsFollowTheApp ==
  /\ app = "up" /\ cli = "connected" /\ ModeIsStable
  /\ env["DB_SSL"] = Undefined \/ Spelled(env, "DB_SSL")
  /\ env["DB_SSL_REJECT_UNAUTHORIZED"] \notin Falsy
  => cliDb = runtime.db

-----------------------------------------------------------------------------
(* What comments in the code say of it                                     *)

\* The flags that choose the modules are the configuration's: one value shared
\* by the whole application (feature-flags.ts, load-env.ts).
FlagsAgreeWithConfig ==
  app \in {"configured", "up"} =>
    \A f \in Flags : flags[f] <=> config[f] = Bool("true")

\* The CLI does not run on another configuration than the application
\* (typeorm-data-source.ts).
CliRunsOnTheSameConfiguration ==
  app = "up" /\ cli = "connected" => cliDb = runtime.db
=============================================================================
