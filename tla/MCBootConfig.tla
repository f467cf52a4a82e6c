---------------------------- MODULE MCBootConfig ----------------------------
(* BootConfig on inputs that vary one topic at a time, the mode with each:   *)
(* the switches, the CORS origins, and the database connection.              *)
EXTENDS BootConfig

\* The environments that set the keys of `choices`, each to one of its texts or
\* not at all.
Environments(choices) ==
  {[k \in Keys |-> IF k \in DOMAIN choices THEN e[k] ELSE Undefined] :
     e \in {f \in [DOMAIN choices -> {Undefined} \cup {Str(s) : s \in UNION {choices[k] : k \in DOMAIN choices}}] :
              \A k \in DOMAIN choices : f[k] # Undefined => f[k][2] \in choices[k]}}

Production == [Unset EXCEPT !["NODE_ENV"] = Str("production"),
                            !["CORS_ORIGINS"] = Str(<<Bare("https://a.io")>>),
                            !["DB_PASSWORD"] = Str("secret")]
Modes == {Unset, [Unset EXCEPT !["NODE_ENV"] = Str("development")], Production,
          [Production EXCEPT !["NODE_ENV"] = Undefined]}

Combine(modes, oses, files) ==
  {[os |-> [k \in Keys |-> IF o[k] # Undefined THEN o[k] ELSE m[k]],
    development |-> d, production |-> p, shared |-> s] :
     m \in modes, o \in oses, d \in files, p \in files, s \in files}

\* REDIS_ENABLED from every source, BULLMQ_ENABLED and a mode from .env as well.
SwitchInputs ==
  UNION {
    Combine(Modes, Environments([REDIS_ENABLED |-> {"true", "false", "TRUE"},
                                 BULLMQ_ENABLED |-> {"true"}]),
            Environments([REDIS_ENABLED |-> {"true", "false"}])),
    Combine({[Production EXCEPT !["NODE_ENV"] = Undefined]},
            Environments([REDIS_ENABLED |-> {"false"}, BULLMQ_ENABLED |-> {"true"}]),
            Environments([NODE_ENV |-> {"production"}, REDIS_ENABLED |-> {"true", "yes"}]))}

\* Lists with a wildcard, an entry without scheme, blanks and empty entries, from the
\* OS and from every file.
CorsInputs ==
  Combine({[Production EXCEPT !["CORS_ORIGINS"] = Undefined, !["DB_PASSWORD"] = Undefined],
           [Production EXCEPT !["CORS_ORIGINS"] = Undefined], Unset},
          Environments([CORS_ORIGINS |->
            {<<Bare("*")>>, <<Blank("*")>>, <<Bare("")>>, <<Blank("")>>,
             <<Bare("https://a.io")>>, <<Bare("https://a.io"), Blank("http://b.io")>>}]),
          Environments([CORS_ORIGINS |->
            {<<Bare("https://a.io"), Bare("*")>>, <<Bare("a.io")>>,
             <<Bare("https://a.io"), Blank("b.io")>>, <<Bare("http://b.io"), Bare("")>>,
             <<Bare(""), Blank("")>>}]))

DatabaseInputs ==
  UNION {
    Combine(Modes, Environments([DB_HOST |-> {"db1"}]),
            Environments([DB_HOST |-> {"db2"}, DB_PASSWORD |-> {"", "pw"}])),
    Combine(Modes, Environments([DB_SSL |-> {"true", "false", "TRUE"},
                                 DB_SSL_REJECT_UNAUTHORIZED |-> {"true", "false"}]),
            Environments([DB_SSL_REJECT_UNAUTHORIZED |-> {"true", "false"}]))}

MCInputs == SwitchInputs \cup CorsInputs \cup DatabaseInputs

\* .env, copied from .env.example, names the mode; .env.production the host.
CliInputs ==
  {[os |-> Unset, development |-> Unset, production |-> p,
    shared |-> [s EXCEPT !["CORS_ORIGINS"] = Str(<<Bare("https://a.io")>>)]] :
     p \in Environments([DB_HOST |-> {"db2"}, DB_PASSWORD |-> {"secret"}]),
     s \in Environments([NODE_ENV |-> {"development", "production"}, DB_HOST |-> {"db1"},
                         DB_PASSWORD |-> {"secret"}])}
=============================================================================
