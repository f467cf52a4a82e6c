-------------------------- MODULE BootConfigProofs --------------------------
(***************************************************************************)
(* What holds of the configuration for every OS environment and every      *)
(* content of the .env files.  The inductive invariant Computed says what  *)
(* each variable was computed from; the properties are then facts about    *)
(* the operators that compute.                                             *)
(***************************************************************************)
EXTENDS BootConfig, TLAPS

Flagged == app \in {"flagged", "configured", "refused", "up"}
Configured == app \in {"configured", "up"}

\* process.env and the flags come from the OS and the files.
PathOfFlags ==
  /\ app \in {"new", "loaded", "flagged", "configured", "refused", "up"}
  /\ app # "new" => env = LoadEnvFiles(input.os, input)
  /\ Flagged => flags = ResolveFeatureFlags(env)

\* ConfigService and the modules, of a configuration that was not refused.
PathOfConfig ==
  Configured =>
    /\ Valid(LoadEnvFiles(env, input)) /\ ProductionValid(LoadEnvFiles(env, input))
    /\ config = Validated(LoadEnvFiles(env, input))
    /\ modules = Modules(flags)

\* What the factories are to make of a configuration.
Built(c) ==
  [redisClient |-> IsTruthy(c["REDIS_ENABLED"]),
   cacheStores |-> IF IsTruthy(c["REDIS_ENABLED"]) THEN 2 ELSE 1,
   origins |-> IF HasWildcardOrigin(c["CORS_ORIGINS"])
                 THEN {AnyOrigin} ELSE ParseCorsOrigins(c["CORS_ORIGINS"]),
   db |-> BuildTypeOrmOptions(c)]

RuntimeInv == app = "up" => runtime = Built(config)

CliInv ==
  /\ cli \in {"new", "loaded", "connected"}
  /\ cli # "new" => cliEnv = LoadEnvFiles(input.os, input)
  /\ cli = "connected" => cliDb = BuildDataSourceOptionsFromEnv(cliEnv)

Computed == PathOfFlags /\ PathOfConfig /\ RuntimeInv /\ CliInv

-----------------------------------------------------------------------------
(* The invariant is inductive                                              *)

LEMMA InitComputed == Init => Computed
  BY DEF Init, Computed, PathOfFlags, PathOfConfig, RuntimeInv, CliInv, Flagged, Configured

\* The application's steps leave the CLI alone and take each variable from the
\* ones before it.
LEMMA AppStep ==
  ASSUME Computed, LoadApp \/ EvaluateFlags \/ ForRoot \/ Wire
  PROVE  Computed'
<1>1. CliInv'
  BY DEF Computed, CliInv, LoadApp, EvaluateFlags, ForRoot, Wire, cliVars
<1>2. PathOfFlags'
  BY DEF Computed, PathOfFlags, Flagged, LoadApp, EvaluateFlags, ForRoot, Wire
<1>3. PathOfConfig'
  <2>1. CASE LoadApp \/ EvaluateFlags
    BY <2>1 DEF Configured, PathOfConfig, LoadApp, EvaluateFlags
  <2>2. CASE ForRoot
    BY <2>2 DEF Configured, PathOfConfig, ForRoot
  <2>3. CASE Wire
    BY <2>3 DEF Computed, Configured, PathOfConfig, Wire
  <2> QED BY <2>1, <2>2, <2>3
<1>4. RuntimeInv'
  BY DEF RuntimeInv, Built, LoadApp, EvaluateFlags, ForRoot, Wire
<1> QED BY <1>1, <1>2, <1>3, <1>4 DEF Computed

LEMMA CliStep ==
  ASSUME Computed, LoadCli \/ ConnectCli
  PROVE  Computed'
<1>1. CliInv'
  BY DEF Computed, CliInv, LoadCli, ConnectCli
<1>2. (PathOfFlags /\ PathOfConfig /\ RuntimeInv)'
  BY DEF Computed, PathOfFlags, PathOfConfig, RuntimeInv, Flagged, Configured,
         LoadCli, ConnectCli, appVars
<1> QED BY <1>1, <1>2 DEF Computed

LEMMA StepComputed == Computed /\ [Next]_vars => Computed'
<1> SUFFICES ASSUME Computed, [Next]_vars PROVE Computed'
  OBVIOUS
<1>1. CASE LoadApp \/ EvaluateFlags \/ ForRoot \/ Wire
  BY <1>1, AppStep
<1>2. CASE LoadCli \/ ConnectCli
  BY <1>2, CliStep
<1>3. CASE Started \/ UNCHANGED vars
  BY <1>3 DEF Started, vars, Computed, PathOfFlags, PathOfConfig, RuntimeInv, CliInv,
              Flagged, Configured
<1> QED BY <1>1, <1>2, <1>3 DEF Next

LEMMA AlwaysComputed == Spec => []Computed
<1> QED BY InitComputed, StepComputed, PTL DEF Spec

-----------------------------------------------------------------------------
(* Facts about values and loading                                          *)

\* Values of one type differ as their texts do, values of two types always.
LEMMA Values ==
  \A s, t :
    /\ Str(s) = Str(t) <=> s = t
    /\ Bool(s) = Bool(t) <=> s = t
    /\ Str(s) # Bool(t) /\ Str(s) # Undefined /\ Bool(s) # Undefined
<1> SUFFICES ASSUME NEW s, NEW t
             PROVE  /\ Str(s) = Str(t) <=> s = t
                    /\ Bool(s) = Bool(t) <=> s = t
                    /\ Str(s) # Bool(t) /\ Str(s) # Undefined /\ Bool(s) # Undefined
  OBVIOUS
<1>1. \A a, b, c, d : <<a, b>> = <<c, d>> => a = c /\ b = d
  OBVIOUS
<1>2. "string" # "boolean" /\ "string" # "undefined" /\ "boolean" # "undefined"
  OBVIOUS
<1> QED BY <1>1, <1>2, Zenon DEF Str, Bool, Undefined

\* Loading keeps a value that is there already: the OS wins over every file.
LEMMA LoadedKeeps ==
  ASSUME NEW e, NEW files, NEW k \in Keys, e[k] # Undefined
  PROVE  LoadEnvFiles(e, files)[k] = e[k]
  BY DEF LoadEnvFiles, Over

\* Loading a second time with the same mode file adds nothing.
LEMMA LoadedTwice ==
  ASSUME NEW e, NEW files,
         ModeFile(LoadEnvFiles(e, files), files) = ModeFile(e, files)
  PROVE  LoadEnvFiles(LoadEnvFiles(e, files), files) = LoadEnvFiles(e, files)
<1> DEFINE m == ModeFile(e, files)
           once == Over(Over(e, m), files.shared)
<1>1. LoadEnvFiles(e, files) = once
  BY DEF LoadEnvFiles
<1>2. LoadEnvFiles(once, files) = Over(Over(once, m), files.shared)
  BY <1>1 DEF LoadEnvFiles
<1>3. Over(Over(once, m), files.shared) = once
  <2>1. ASSUME NEW k \in Keys PROVE Over(Over(once, m), files.shared)[k] = once[k]
    BY <2>1 DEF Over
  <2> QED BY <2>1 DEF Over
<1> QED BY <1>1, <1>2, <1>3

-----------------------------------------------------------------------------
(* The type of the state                                                   *)

LEMMA OverTyped ==
  ASSUME NEW a, NEW b, IsEnvironment(a), IsEnvironment(b)
  PROVE  IsEnvironment(Over(a, b))
  BY DEF IsEnvironment, Over

LEMMA LoadedTyped ==
  ASSUME NEW e, IsEnvironment(e), NEW i \in Inputs
  PROVE  IsEnvironment(LoadEnvFiles(e, i))
<1>1. IsEnvironment(Unset)
  BY DEF IsEnvironment, Unset
<1>2. IsEnvironment(ModeFile(e, i))
  <2>1. ModeFile(e, i) \in {i.production, i.development, Unset}
    BY Zenon DEF ModeFile
  <2> QED BY <1>1, <2>1, BootAssumption
<1>3. IsEnvironment(i.shared)
  BY BootAssumption
<1> QED BY <1>2, <1>3, OverTyped DEF LoadEnvFiles

\* Validation answers a boolean key with a boolean.
LEMMA ValidatedTyped ==
  ASSUME NEW e, Valid(e)
  PROVE  /\ DOMAIN Validated(e) = Keys
         /\ \A k \in BooleanKeys : Validated(e)[k] \in {Bool("true"), Bool("false")}
<1>1. ASSUME NEW k \in BooleanKeys PROVE Validated(e)[k] \in {Bool("true"), Bool("false")}
  <2>1. k \in Keys /\ Default(k) \in {Bool("true"), Bool("false")}
    <3>1. k \in Keys BY DEF Keys
    <3>2. CASE k = "DB_SSL"
      <4>1. k \notin Flags \cup {"DB_SSL_REJECT_UNAUTHORIZED"} BY <3>2 DEF Flags
      <4>2. Default("DB_SSL") = Bool("false") BY <3>2, <4>1 DEF Default
      <4> QED BY <3>1, <3>2, <4>2
    <3>3. CASE k \in Flags \cup {"DB_SSL_REJECT_UNAUTHORIZED"}
      <4>1. k \notin {"DB_SSL", "NODE_ENV", "CORS_ORIGINS", "DB_HOST", "DB_PASSWORD"}
        BY <3>3 DEF Flags
      <4>2. Default(k) = Bool("true") BY <3>3, <4>1 DEF Default
      <4> QED BY <3>1, <4>2
    <3> QED BY <3>2, <3>3 DEF BooleanKeys
  <2>2. e[k] \in Truthy \cup Falsy \cup {Undefined}
    BY DEF Valid
  <2> QED BY <2>1, <2>2, Zenon DEF Validated
<1> QED BY <1>1 DEF Validated

\* The types hold from the start and of every value the steps compute.
THEOREM TypeCorrect == Spec => []TypeOK
<1> DEFINE Typed == TypeOK /\ input \in Inputs
<1>1. Init => Typed
  <2> SUFFICES ASSUME Init PROVE Typed OBVIOUS
  <2>1. IsEnvironment(Unset) /\ NoFlags \in [Flags -> BOOLEAN]
    BY DEF IsEnvironment, Unset, NoFlags
  <2>2. \A k \in BooleanKeys : Unset[k] = Undefined
    BY DEF Unset, Keys
  <2>3. DOMAIN Unset = Keys BY DEF Unset
  <2> QED BY <2>1, <2>2, <2>3 DEF Init, TypeOK, Dormant, NoConnection
<1>2. Computed /\ Typed /\ [Next]_vars => Typed'
  <2> SUFFICES ASSUME Computed, Typed, [Next]_vars PROVE Typed' OBVIOUS
  <2>1. CASE LoadApp
    <3>1. IsEnvironment(env') BY <2>1, LoadedTyped, BootAssumption DEF LoadApp
    <3> QED BY <2>1, <3>1 DEF TypeOK, LoadApp, cliVars
  <2>2. CASE EvaluateFlags
    <3>1. flags' \in [Flags -> BOOLEAN]
      BY <2>2 DEF EvaluateFlags, ResolveFeatureFlags, IsTruthy
    <3> QED BY <2>2, <3>1 DEF TypeOK, EvaluateFlags, cliVars
  <2>3. CASE ForRoot
    <3>1. /\ DOMAIN config' = Keys
          /\ \A k \in BooleanKeys : config'[k] \in {Undefined, Bool("true"), Bool("false")}
      BY <2>3, ValidatedTyped DEF ForRoot, TypeOK
    <3>2. modules' \subseteq {"MetricsModule", "QueueModule"}
      BY <2>3 DEF ForRoot, TypeOK, Modules
    <3> QED BY <2>3, <3>1, <3>2 DEF TypeOK, ForRoot, cliVars
  <2>4. CASE Wire
    <3>1. runtime' = Built(config) BY <2>4 DEF Wire, Built
    <3>2. runtime'.redisClient \in BOOLEAN /\ runtime'.cacheStores \in 0..2
      BY <3>1 DEF Built, IsTruthy
    <3>3. runtime'.db.ssl \in {"off", "verified", "unverified"}
      BY <3>1 DEF Built, BuildTypeOrmOptions, Ssl
    <3> QED BY <2>4, <3>2, <3>3 DEF TypeOK, Wire, cliVars
  <2>5. CASE LoadCli
    <3>1. IsEnvironment(cliEnv') BY <2>5, LoadedTyped, BootAssumption DEF LoadCli
    <3> QED BY <2>5, <3>1 DEF TypeOK, LoadCli, appVars
  <2>6. CASE ConnectCli
    <3>1. cliDb'.ssl \in {"off", "verified", "unverified"}
      BY <2>6 DEF ConnectCli, BuildDataSourceOptionsFromEnv, Ssl
    <3> QED BY <2>6, <3>1 DEF TypeOK, ConnectCli, appVars
  <2>7. CASE Started \/ UNCHANGED vars
    BY <2>7 DEF TypeOK, Started, vars
  <2> QED BY <2>1, <2>2, <2>3, <2>4, <2>5, <2>6, <2>7 DEF Next
<1> QED BY <1>1, <1>2, AlwaysComputed, PTL DEF Spec

-----------------------------------------------------------------------------
(* Theorems                                                                *)

\* QueueModule never comes without Redis: a flag that is set is the string
\* 'true' in process.env, which ConfigModule's reading keeps and validation
\* converts to true.
THEOREM QueueAndRedis == Spec => []QueueHasRedis
<1>1. Computed => QueueHasRedis
  <2> SUFFICES ASSUME Computed, app = "up", "QueueModule" \in modules
               PROVE  runtime.redisClient /\ runtime.cacheStores = 2
    BY DEF QueueHasRedis
  <2> DEFINE read == LoadEnvFiles(env, input)
  <2>1. modules = Modules(flags) /\ config = Validated(read) /\ runtime = Built(config)
    BY DEF Computed, PathOfConfig, RuntimeInv, Configured
  <2>2. flags["REDIS_ENABLED"]
    BY <2>1 DEF Modules
  <2>3. flags = ResolveFeatureFlags(env)
    BY DEF Computed, PathOfFlags, Flagged
  <2>4. IsTruthy(env["REDIS_ENABLED"])
    BY <2>2, <2>3 DEF ResolveFeatureFlags, Flags
  <2>5. env["REDIS_ENABLED"] # Undefined /\ "REDIS_ENABLED" \in Keys /\ "REDIS_ENABLED" \in BooleanKeys
    BY Values, <2>4 DEF IsTruthy, Keys, BooleanKeys, Flags
  <2>6. IsTruthy(read["REDIS_ENABLED"]) /\ read["REDIS_ENABLED"] # Undefined
    BY <2>4, <2>5, LoadedKeeps
  <2>7. IsTruthy(config["REDIS_ENABLED"])
    BY Values, <2>1, <2>5, <2>6 DEF Validated, IsTruthy, Truthy, Falsy
  <2> QED BY <2>1, <2>7 DEF Built
<1> QED BY <1>1, AlwaysComputed, PTL

\* With a stable mode both paths read the same values, and a value spelled out
\* means the same to isFeatureEnabled and to the validation.
THEOREM SpelledFlags == Spec => []SpelledFlagsAgree
<1>1. Computed => SpelledFlagsAgree
  <2> SUFFICES ASSUME Computed, Configured, ModeIsStable,
                      NEW f \in Flags, Spelled(env, f)
               PROVE  flags[f] <=> config[f] = Bool("true")
    BY DEF SpelledFlagsAgree, Configured
  <2>1. env = LoadEnvFiles(input.os, input) /\ flags = ResolveFeatureFlags(env)
    BY DEF Computed, PathOfFlags, Flagged, Configured
  <2>2. LoadEnvFiles(env, input) = env
    BY <2>1, LoadedTwice DEF ModeIsStable
  <2>3. config = Validated(env)
    BY <2>2 DEF Computed, PathOfConfig
  <2>4. f \in Keys /\ f \in BooleanKeys
    BY DEF Keys, BooleanKeys
  <2>5. flags[f] <=> env[f] = Str("true")
    BY Values, <2>1 DEF ResolveFeatureFlags, Spelled, IsTruthy
  <2>6. config[f] = IF env[f] = Str("true") THEN Bool("true") ELSE Bool("false")
    BY Values, <2>3, <2>4 DEF Validated, Spelled, Truthy, Falsy
  <2>7. Bool("true") # Bool("false")
    BY Values
  <2> QED BY <2>5, <2>6, <2>7
<1> QED BY <1>1, AlwaysComputed, PTL

\* A production process has passed the stricter rules on the very values its
\* factories are given.
THEOREM StrictProduction == Spec => []ProductionIsStrict
<1>1. Computed => ProductionIsStrict
  <2> SUFFICES ASSUME Computed, app = "up", config["NODE_ENV"] = Str("production")
               PROVE  /\ runtime.origins # {} /\ runtime.origins \subseteq WithScheme
                      /\ runtime.db.ssl # "unverified" /\ runtime.db.password # Str("")
    BY DEF ProductionIsStrict
  <2> DEFINE read == LoadEnvFiles(env, input)
  <2>1. ProductionValid(read) /\ config = Validated(read) /\ runtime = Built(config)
    BY DEF Computed, PathOfConfig, RuntimeInv, Configured
  <2>2. {"NODE_ENV", "CORS_ORIGINS", "DB_PASSWORD", "DB_SSL_REJECT_UNAUTHORIZED"} \subseteq Keys
    BY DEF Keys, TextKeys, BooleanKeys
  <2>3. read["NODE_ENV"] = Str("production")
    BY Values, <2>1, <2>2 DEF Validated, Default, BooleanKeys, Flags
  <2>4. /\ config["CORS_ORIGINS"] = read["CORS_ORIGINS"]
        /\ config["DB_PASSWORD"] = read["DB_PASSWORD"]
    BY <2>1, <2>2, <2>3 DEF Validated, ProductionValid, BooleanKeys, Flags
  <2>5. config["DB_SSL_REJECT_UNAUTHORIZED"] # Str("false")
    BY Values, <2>1, <2>2, <2>3
       DEF Validated, ProductionValid, Default, BooleanKeys, Truthy, Falsy
  <2>6. /\ ParseCorsOrigins(config["CORS_ORIGINS"]) # {}
        /\ ParseCorsOrigins(config["CORS_ORIGINS"]) \subseteq WithScheme
        /\ ~HasWildcardOrigin(config["CORS_ORIGINS"])
    BY <2>1, <2>3, <2>4 DEF ProductionValid
  <2>7. runtime.origins = ParseCorsOrigins(config["CORS_ORIGINS"])
    BY <2>1, <2>6 DEF Built
  <2>8. runtime.db.ssl # "unverified" /\ runtime.db.password # Str("")
    BY Values, <2>1, <2>3, <2>4, <2>5
       DEF Built, BuildTypeOrmOptions, Ssl, RejectUnauthorized, ProductionValid
  <2> QED BY <2>6, <2>7, <2>8
<1> QED BY <1>1, AlwaysComputed, PTL

\* With a stable mode the CLI computes the application's connection.
THEOREM MigrationsFollow == Spec => []MigrationsFollowTheApp
<1>1. Computed => MigrationsFollowTheApp
  <2> SUFFICES ASSUME Computed, app = "up", cli = "connected", ModeIsStable,
                      env["DB_SSL"] = Undefined \/ Spelled(env, "DB_SSL"),
                      env["DB_SSL_REJECT_UNAUTHORIZED"] \notin Falsy
               PROVE  cliDb = runtime.db
    BY DEF MigrationsFollowTheApp
  <2>1. env = LoadEnvFiles(input.os, input) /\ cliEnv = env
    BY DEF Computed, PathOfFlags, CliInv
  <2>2. LoadEnvFiles(env, input) = env
    BY <2>1, LoadedTwice DEF ModeIsStable
  <2>3. /\ config = Validated(env) /\ Valid(env)
        /\ runtime.db = BuildTypeOrmOptions(config)
        /\ cliDb = BuildDataSourceOptionsFromEnv(env)
    BY <2>1, <2>2 DEF Computed, PathOfConfig, RuntimeInv, CliInv, Configured, Built
  <2>4. config["DB_HOST"] = Or(env["DB_HOST"], Str("localhost"))
    BY Values, <2>3 DEF Validated, Default, Or, Keys, TextKeys, BooleanKeys, Flags
  <2>5. config["DB_PASSWORD"] = Or(env["DB_PASSWORD"], Str("app"))
    BY Values, <2>3 DEF Validated, Default, Or, Keys, TextKeys, BooleanKeys, Flags
  <2>6. IsTruthy(config["DB_SSL"]) <=> env["DB_SSL"] = Str("true")
    BY Values, <2>3 DEF Validated, Default, IsTruthy, Spelled, Truthy, Falsy, Keys, BooleanKeys,
                Flags
  <2>7. /\ RejectUnauthorized(config["DB_SSL_REJECT_UNAUTHORIZED"])
        /\ RejectUnauthorized(env["DB_SSL_REJECT_UNAUTHORIZED"])
    BY Values, <2>3 DEF RejectUnauthorized, Validated, Valid, Default, Truthy, Falsy, Keys,
                BooleanKeys, Flags
  <2> QED BY <2>3, <2>4, <2>5, <2>6, <2>7
             DEF BuildTypeOrmOptions, BuildDataSourceOptionsFromEnv, Ssl
<1> QED BY <1>1, AlwaysComputed, PTL
=============================================================================
