------------------------- MODULE ScaffoldSelection -------------------------
(***************************************************************************)
(* The choice of ORM and database: scripts/select-scaffold.ts, which       *)
(* writes it into a checkout file by file and then installs and verifies,  *)
(* and scripts/check-scaffold.ts, the gate of every build.                 *)
(*                                                                         *)
(* `files` maps the files that exist to their contents.  A content is      *)
(* what the scripts tell apart in it: of a source file what it imports and *)
(* which ORM and dialect it is for, of a Compose file the entries about    *)
(* the database, of package.json the packages that belong to some ORM.     *)
(* Between commands the developer edits, restores and installs.            *)
(***************************************************************************)
EXTENDS Naturals, Sequences, FiniteSets

CONSTANTS
  Initial,    \* the selection the repository is committed with
  Derived,    \* selections that projects derived from it are committed with
  Arguments,  \* what the generator may be called with, valid or not
  MaxRuns,    \* bound on the calls with --apply in one behaviour
  MaxEdits,   \* bound on the changes made by hand, all of them before the last call
  Empty       \* nothing: an empty file, a line or entry that is missing; no content

RdbChoices == {"postgres", "mysql", "mariadb"}
OrmChoices == {"typeorm", "prisma", "mikroorm", "drizzle"}
Selections == [database : RdbChoices, orm : OrmChoices]

ASSUME ScaffoldAssumption ==
  /\ Initial \in Selections /\ Derived \subseteq Selections
  /\ MaxRuns \in Nat /\ MaxEdits \in Nat

VARIABLES
  baseline,   \* the selection this checkout is committed with
  files,      \* the checkout: existing files and their contents
  installed,  \* the packages in node_modules
  client,     \* the dialect Prisma's client was generated for, or Empty
  step,       \* where the generator stands, "idle" when none runs
  tasks,      \* the files it has yet to write or remove, in order
  selection,  \* the arguments of the last run that threw or began to write
  result,     \* how that run ended, "none" once the developer went on
  runs,       \* number of runs with --apply
  edits,      \* number of changes by hand
  applied,    \* history: the selections that ever wrote files here
  spoilt      \* history: a file the generator edits in place was damaged since

generator == <<step, tasks, selection, result>>
history == <<runs, edits, applied, spoilt>>
vars == <<baseline, files, installed, client, generator, history>>

-----------------------------------------------------------------------------
(* The tables of scaffold.config.ts and typeorm-rdb-generator.ts            *)

Image == [postgres |-> "postgres:17-alpine", mysql |-> "mysql:8.4", mariadb |-> "mariadb:lts"]
Port == [postgres |-> 5432, mysql |-> 3306, mariadb |-> 3306]
DataPath == [postgres |-> "/var/lib/postgresql/data",
             mysql |-> "/var/lib/mysql", mariadb |-> "/var/lib/mysql"]
Dialect == [postgres |-> "postgresql", mysql |-> "mysql", mariadb |-> "mysql"]

\* selectedTypeOrmDriver
Driver == [postgres |-> "pg", mysql |-> "mysql2", mariadb |-> "mysql2"]
PrismaAdapter == [postgres |-> "@prisma/adapter-pg", mysql |-> "@prisma/adapter-mariadb",
                  mariadb |-> "@prisma/adapter-mariadb"]
MikroDriver == [postgres |-> "@mikro-orm/postgresql", mysql |-> "@mikro-orm/mysql",
                mariadb |-> "@mikro-orm/mariadb"]

\* DATABASE_DRIVER_PACKAGES
DriverPackage(s) ==
  CASE s.orm = "prisma" -> PrismaAdapter[s.database]
    [] s.orm = "mikroorm" -> MikroDriver[s.database]
    [] OTHER -> Driver[s.database]

\* ORM_PROFILE_CONTRACTS
RequiredDependencies ==
  [typeorm |-> {"@nestjs/typeorm", "typeorm"}, prisma |-> {"@prisma/client"},
   mikroorm |-> {"@mikro-orm/core", "@mikro-orm/migrations", "@mikro-orm/nestjs"},
   drizzle |-> {"drizzle-orm"}]
RequiredDevDependencies ==
  [typeorm |-> {}, prisma |-> {"prisma"}, mikroorm |-> {}, drizzle |-> {"drizzle-kit"}]
RequiredFiles ==
  [typeorm |-> {"typeorm-repository.adapter.ts", "typeorm-data-source.ts",
                "rdb-database.module.ts"},
   prisma |-> {"prisma.config.ts", "schema.prisma", "rdb-database.module.ts"},
   mikroorm |-> {"mikro-orm.config.ts", "rdb-database.module.ts"},
   drizzle |-> {"drizzle.config.ts", "schema.ts", "rdb-database.module.ts"}]

\* TYPEORM_FILES, in the order in which they are removed.
TypeOrmFiles ==
  <<"provide-repository-port.spec.ts", "provide-repository-port.ts",
    "typeorm-repository.adapter.spec.ts", "typeorm-repository.adapter.ts",
    "database.config.spec.ts", "database.config.ts", "typeorm-data-source.ts",
    "persistence.e2e-spec.ts">>

\* The files that only the checkouts of one ORM have, and those that all have.
OwnFiles ==
  [typeorm |-> {TypeOrmFiles[i] : i \in DOMAIN TypeOrmFiles},
   prisma |-> {"prisma.config.ts", "schema.prisma"}, mikroorm |-> {"mikro-orm.config.ts"},
   drizzle |-> {"drizzle.config.ts", "schema.ts"}]
CommonFiles ==
  {"barebones.config.json", "active-scaffold.ts", "package.json", ".env.example",
   "docker-compose.yml", "docker-compose.test.yml", "load-test-env.ts", "rdb-database.module.ts"}
KnownFiles == CommonFiles \cup UNION {OwnFiles[orm] : orm \in OrmChoices}

-----------------------------------------------------------------------------
(* Contents                                                                *)

Source(orm, imports, dialect) == [orm |-> orm, imports |-> imports, dialect |-> dialect]

TypeOrmFile == Source("typeorm", {"@nestjs/typeorm", "typeorm"}, Empty)

\* databaseUrl: scheme, host and port.
DatabaseUrl(d, host) == <<Dialect[d], host, Port[d]>>

Environment(d, url) ==
  [type |-> d, host |-> d, port |-> Port[d], url |-> url]

Service(d) == [x \in {d} |-> Image[x]]

\* docker-compose.yml: the database services, the entries of app that name one, and
\* the volumes.
Compose(d, url) ==
  [services |-> Service(d), dependsOn |-> {d}, environment |-> Environment(d, url),
   volumes |-> {d}]

\* .env.example: DB_TYPE, DOCKER_DB_HOST, both ports, DATABASE_URL.
EnvExample(d, url) ==
  [type |-> d, dockerHost |-> d, port |-> Port[d], url |-> url]

\* renderTestCompose
RenderTestCompose(d) ==
  [services |-> Service(d), port |-> Port[d], tmpfs |-> DataPath[d], persistent |-> FALSE]

\* pg has no types of its own; only Drizzle's module imports the driver itself.
TypesOfDriver(s) == IF s.orm = "drizzle" /\ s.database = "postgres" THEN {"@types/pg"} ELSE {}

\* renderPrismaModule, renderDrizzleModule and the templates without placeholders.
RdbModule(s) ==
  CASE s.orm = "typeorm" -> TypeOrmFile
    [] s.orm = "prisma" -> Source("prisma", {DriverPackage(s)}, Empty)
    [] s.orm = "mikroorm" -> Source("mikroorm", {"@mikro-orm/core", "@mikro-orm/nestjs"}, Empty)
    [] s.orm = "drizzle" -> Source("drizzle", {"drizzle-orm", DriverPackage(s)} \cup TypesOfDriver(s), Empty)

Write(path, content) == [do |-> "write", path |-> path, content |-> content]
Remove(path) == [do |-> "remove", path |-> path]

\* The source files of a selection.
SourceOf(s, p) ==
  LET dialect == Dialect[s.database] IN
  CASE p = "rdb-database.module.ts" -> RdbModule(s)
    [] p = "prisma.config.ts" -> Source("prisma", {"prisma"}, dialect)
    [] p = "schema.prisma" -> Source("prisma", {}, dialect)
    [] p = "mikro-orm.config.ts" ->
         Source("mikroorm", {"@mikro-orm/migrations", DriverPackage(s)}, dialect)
    [] p = "drizzle.config.ts" -> Source("drizzle", {"drizzle-kit"}, dialect)
    [] p = "schema.ts" -> Source("drizzle", {}, Empty)
    [] OTHER -> TypeOrmFile

\* profileFiles: TypeORM has no profile of its own, its files are the committed ones.
ProfileFiles(s) ==
  LET new(p) == Write(p, SourceOf(s, p)) IN
  CASE s.orm = "typeorm" -> <<>>
    [] s.orm = "prisma" ->
         <<new("prisma.config.ts"), new("schema.prisma"), new("rdb-database.module.ts")>>
    [] s.orm = "mikroorm" -> <<new("mikro-orm.config.ts"), new("rdb-database.module.ts")>>
    [] s.orm = "drizzle" ->
         <<new("drizzle.config.ts"), new("rdb-database.module.ts"), new("schema.ts")>>

\* What configurePackages adds for a selection.
Packages(s) ==
  [dependencies |-> RequiredDependencies[s.orm] \cup {DriverPackage(s)},
   devDependencies |-> RequiredDevDependencies[s.orm] \cup TypesOfDriver(s),
   scripts |-> s.orm]

\* The checkout of a selection: what each file is to say.
Checkout(s, url, dockerUrl) ==
  [p \in CommonFiles \cup OwnFiles[s.orm] |->
     CASE p \in {"barebones.config.json", "active-scaffold.ts"} -> s
       [] p = "package.json" -> Packages(s)
       [] p = ".env.example" -> EnvExample(s.database, url)
       [] p = "docker-compose.yml" -> Compose(s.database, dockerUrl)
       [] p = "docker-compose.test.yml" -> RenderTestCompose(s.database)
       [] p = "load-test-env.ts" -> s.database
       [] OTHER -> SourceOf(s, p)]

Whole(s) == Checkout(s, DatabaseUrl(s.database, "localhost"), DatabaseUrl(s.database, s.database))

\* The repository itself has no DATABASE_URL; the generator adds the lines.
Committed ==
  [s \in {Initial} \cup Derived |-> IF s = Initial THEN Checkout(s, Empty, Empty) ELSE Whole(s)]

\* An .env.example without the lines that are replaced: only DATABASE_URL is added.
LinesLost(d) ==
  [type |-> Empty, dockerHost |-> Empty, port |-> Empty, url |-> DatabaseUrl(d, "localhost")]

\* What a file may hold that is not empty, whoever wrote it.  A developer's edits leave a
\* Compose file that names one database in all entries but the services.
Holders(p) == {s \in Selections : p \in CommonFiles \cup OwnFiles[s.orm]}
DatabaseServices ==
  UNION {[D -> {Image[d] : d \in RdbChoices} \cup {"another"}] : D \in SUBSET RdbChoices}
ComposeFiles(d) ==
  [services : DatabaseServices, dependsOn : {{}, {d}}, volumes : {{d}},
   environment : {Environment(d, Empty), Environment(d, DatabaseUrl(d, d))}]
TestComposeFiles(d) ==
  [services : {Service(d)}, port : {Port[d]}, tmpfs : {DataPath[d]}, persistent : BOOLEAN]
Contents ==
  [p \in KnownFiles |->
     CASE p \in {"barebones.config.json", "active-scaffold.ts"} -> Selections
       [] p = "package.json" -> {Packages(s) : s \in Selections}
       [] p = ".env.example" ->
            UNION {{EnvExample(d, Empty), EnvExample(d, DatabaseUrl(d, "localhost")), LinesLost(d)} :
                     d \in RdbChoices}
       [] p = "docker-compose.yml" -> UNION {ComposeFiles(d) : d \in RdbChoices}
       [] p = "docker-compose.test.yml" -> UNION {TestComposeFiles(d) : d \in RdbChoices}
       [] p = "load-test-env.ts" -> RdbChoices
       [] OTHER -> {SourceOf(s, p) : s \in Holders(p)}]

ASSUME EmptyAssumption ==
  Empty \notin {Dialect[d] : d \in RdbChoices} /\ \A p \in KnownFiles : Empty \notin Contents[p]

-----------------------------------------------------------------------------
(* The generator: what it makes of the files it reads                       *)

\* materializeTypeOrmCompose throws on anything but one database service that
\* app depends on and that has a volume.
ComposeIsReadable(c) ==
  c # Empty /\ \E d \in RdbChoices : DOMAIN c.services = {d} /\ d \in c.dependsOn \cap c.volumes

\* materializeTypeOrmCompose, withDatabaseUrlCompose
MaterializeCompose(c, d) ==
  LET current == CHOOSE old \in DOMAIN c.services : TRUE
      rename(names) == (names \ {current}) \cup {d}
  IN [services |-> Service(d), dependsOn |-> rename(c.dependsOn),
      environment |-> Environment(d, DatabaseUrl(d, d)), volumes |-> rename(c.volumes)]

\* materializeTypeOrmEnv, withDatabaseUrlEnv: a line that is missing is not added,
\* except for DATABASE_URL.
MaterializeEnv(env, d) ==
  IF env = Empty \/ env.type = Empty THEN LinesLost(d) ELSE EnvExample(d, DatabaseUrl(d, "localhost"))

TestEnvByDialect(env, d) == IF env = Empty THEN Empty ELSE Dialect[d]

\* materializeTestDatabaseEnv
MaterializeTestEnv(env, d) == IF env = Empty THEN Empty ELSE d

OfAnyProfile(kind) == UNION {Packages(s)[kind] : s \in Selections}

\* configurePackages
ConfigurePackages(manifest, s) ==
  [dependencies |->
     (manifest.dependencies \ OfAnyProfile("dependencies")) \cup Packages(s).dependencies,
   devDependencies |->
     (manifest.devDependencies \ OfAnyProfile("devDependencies")) \cup Packages(s).devDependencies,
   scripts |-> s.orm]

\* The files of every selection, after those of its profile, and the removals.
Collected(s) ==
  LET d == s.database IN
  <<Write(".env.example", MaterializeEnv(files[".env.example"], d)),
    Write("barebones.config.json", s),
    Write("docker-compose.yml", MaterializeCompose(files["docker-compose.yml"], d)),
    Write("docker-compose.test.yml", RenderTestCompose(d)),
    Write("package.json", ConfigurePackages(files["package.json"], s)),
    Write("load-test-env.ts", MaterializeTestEnv(files["load-test-env.ts"], d)),
    Write("active-scaffold.ts", s)>>
Removals(s) ==
  IF s.orm = "typeorm" THEN <<>> ELSE [i \in DOMAIN TypeOrmFiles |-> Remove(TypeOrmFiles[i])]

Plan(s) == ProfileFiles(s) \o Collected(s) \o Removals(s)

\* parseScaffoldConfig, then everything that is read and parsed before any write.
Throws(s) ==
  \/ s \notin Selections
  \/ files["package.json"] = Empty
  \/ ~ComposeIsReadable(files["docker-compose.yml"])

-----------------------------------------------------------------------------
(* scripts/check-scaffold.ts and the type check                            *)

\* Dependencies, and the drivers of the other databases for the same ORM.
DependenciesMatch(s, manifest) ==
  /\ RequiredDependencies[s.orm] \cup {DriverPackage(s)} \subseteq manifest.dependencies
  /\ RequiredDevDependencies[s.orm] \subseteq manifest.devDependencies
  /\ \A d \in RdbChoices :
       LET driver == DriverPackage([s EXCEPT !.database = d])
       IN driver # DriverPackage(s) => driver \notin manifest.dependencies
  /\ \A orm \in OrmChoices \ {s.orm} :
       /\ RequiredDependencies[orm] \cap manifest.dependencies = {}
       /\ RequiredDevDependencies[orm] \cap manifest.devDependencies = {}

\* Only that the profile's files exist, and no other profile's.
ProfileFilesMatch(s) ==
  /\ RequiredFiles[s.orm] \subseteq DOMAIN files
  /\ \A orm \in OrmChoices :
       (RequiredFiles[orm] \ RequiredFiles[s.orm]) \cap DOMAIN files = {}

SelectedServiceMatches(d, c) ==
  /\ c # Empty
  /\ d \in DOMAIN c.services /\ c.services[d] = Image[d]
  /\ d \in c.dependsOn
  /\ c.environment.type = d /\ c.environment.host = d /\ c.environment.port = Port[d]

\* baseComposeIssues
ComposeMatches(d, c) ==
  /\ c # Empty
  /\ d \in DOMAIN c.services /\ c.services[d] = Image[d]
  /\ DOMAIN c.services \cap RdbChoices = {d}
  /\ d \in c.dependsOn
  /\ c.environment.type = d /\ c.environment.host = d /\ c.environment.port = Port[d]

\* testComposeIssues
TestComposeMatches(d, c) ==
  /\ c # Empty
  /\ d \in DOMAIN c.services /\ c.services[d] = Image[d]
  /\ DOMAIN c.services \cap RdbChoices = {d}
  /\ c.port = Port[d] /\ c.tmpfs = DataPath[d] /\ ~c.persistent

\* The markers of the ORMs in rdb-database.module.ts.
ModuleActivates(orm) ==
  files["rdb-database.module.ts"] # Empty /\ files["rdb-database.module.ts"].orm = orm

\* main of check-scaffold.ts and scaffoldConsistencyIssues: JSON that does not parse
\* and a database.config.ts that is not there end it with an exception.
CheckPasses ==
  LET s == files["barebones.config.json"] IN
  /\ s # Empty /\ files["package.json"] # Empty
  /\ files["active-scaffold.ts"] = s
  /\ DependenciesMatch(s, files["package.json"])
  /\ ProfileFilesMatch(s)
  /\ ModuleActivates(s.orm)
  /\ files[".env.example"] # Empty /\ files[".env.example"].type = s.database
  /\ files["load-test-env.ts"] = s.database
  /\ s.orm = "typeorm" => {"persistence.e2e-spec.ts", "database.config.ts"} \subseteq DOMAIN files
  /\ ComposeMatches(s.database, files["docker-compose.yml"])
  /\ TestComposeMatches(s.database, files["docker-compose.test.yml"])

SourceFiles ==
  {"rdb-database.module.ts", "prisma.config.ts", "mikro-orm.config.ts", "drizzle.config.ts",
   "schema.ts"} \cup OwnFiles["typeorm"]

\* Relative imports among the files that come and go.
LocalImports(p) ==
  CASE p \in {"typeorm-data-source.ts", "database.config.spec.ts"} -> {"database.config.ts"}
    [] p \in {"provide-repository-port.ts", "typeorm-repository.adapter.spec.ts"} ->
         {"typeorm-repository.adapter.ts"}
    [] p = "provide-repository-port.spec.ts" ->
         {"provide-repository-port.ts", "typeorm-repository.adapter.ts"}
    [] p = "persistence.e2e-spec.ts" -> {"provide-repository-port.ts"}
    [] p = "rdb-database.module.ts" /\ ModuleActivates("typeorm") -> {"database.config.ts"}
    [] p = "rdb-database.module.ts" /\ ModuleActivates("mikroorm") -> {"mikro-orm.config.ts"}
    [] OTHER -> {}

\* pnpm typecheck: packages and files that are imported exist, and so does the
\* generated client that the Prisma module imports.
Compiles ==
  /\ \A p \in SourceFiles \cap DOMAIN files :
       files[p] # Empty =>
         /\ files[p].imports \subseteq installed
         /\ \A q \in LocalImports(p) : q \in DOMAIN files /\ files[q] # Empty
  /\ ModuleActivates("prisma") => client # Empty
-----------------------------------------------------------------------------
(* A run of the generator                                                  *)

Listed(manifest) == manifest.dependencies \cup manifest.devDependencies

\* The scripts run from node_modules; nothing has generated Prisma's client yet.
Init ==
  /\ baseline \in {Initial} \cup Derived
  /\ files = Committed[baseline] /\ installed = Listed(files["package.json"]) /\ client = Empty
  /\ step = "idle" /\ tasks = <<>> /\ selection = baseline /\ result = "none"
  /\ runs = 0 /\ edits = 0 /\ applied = {baseline} /\ spoilt = FALSE

End(how) == step' = "idle" /\ tasks' = <<>> /\ result' = how

\* main until the first write.
Select(s, apply) ==
  /\ step = "idle" /\ runs < MaxRuns
  /\ \/ Throws(s) /\ selection' = s /\ End("threw") /\ UNCHANGED history
     \/ ~Throws(s) /\ ~apply /\ End("dry") /\ UNCHANGED <<selection, history>>
     \/ /\ ~Throws(s) /\ apply
        /\ selection' = s /\ step' = "write" /\ tasks' = Plan(s) /\ result' = "none"
        /\ runs' = runs + 1 /\ applied' = applied \cup {s} /\ UNCHANGED <<edits, spoilt>>
  /\ UNCHANGED <<baseline, files, installed, client>>

Proceed ==
  /\ tasks' = Tail(tasks)
  /\ step' = IF Tail(tasks) = <<>> THEN "install" ELSE step
  /\ UNCHANGED result

RemovedOrThrown(path) ==
  \/ path \in DOMAIN files /\ files' = [p \in DOMAIN files \ {path} |-> files[p]] /\ Proceed
  \/ path \notin DOMAIN files /\ UNCHANGED files /\ End("threw")

\* existsSync before unlinkSync: a file that is gone already is passed over.
Removed(path) == files' = [p \in DOMAIN files \ {path} |-> files[p]] /\ Proceed

\* The files with others over them.
Over(new) ==
  [p \in DOMAIN new \cup DOMAIN files |-> IF p \in DOMAIN new THEN new[p] ELSE files[p]]

Holding(path, content) == Over([p \in {path} |-> content])

Written(path, content) == files' = Holding(path, content) /\ Proceed

\* writeFileSync or unlinkSync of one file.
PerformTask ==
  /\ step = "write"
  /\ LET task == Head(tasks) IN
       \/ task.do = "write" /\ Written(task.path, task.content)
       \/ task.do = "remove" /\ Removed(task.path)
  /\ UNCHANGED <<baseline, installed, client, selection, history>>

InstallKeepingClient ==
  /\ step = "install"
  /\ \/ /\ installed' = Listed(files["package.json"])
        /\ step' = IF selection.orm = "prisma" /\ client = Empty THEN "generate" ELSE "verify"
        /\ UNCHANGED <<tasks, result>>
     \/ End("failed") /\ UNCHANGED installed
  /\ UNCHANGED <<baseline, files, client, selection, history>>

\* pnpm install --ignore-scripts
Install ==
  /\ step = "install"
  /\ \/ /\ installed' = Listed(files["package.json"])
        /\ step' = IF selection.orm = "prisma" THEN "generate" ELSE "verify"
        /\ UNCHANGED <<tasks, result>>
     \/ End("failed") /\ UNCHANGED installed
  /\ UNCHANGED <<baseline, files, client, selection, history>>

\* pnpm exec prisma generate
GenerateClient ==
  /\ step = "generate"
  /\ \/ /\ client' = files["schema.prisma"].dialect
        /\ step' = "verify" /\ UNCHANGED <<tasks, result>>
     \/ End("failed") /\ UNCHANGED client
  /\ UNCHANGED <<baseline, files, installed, selection, history>>

\* pnpm check:scaffold, lint and typecheck; lint may object to anything.
Verify ==
  /\ step = "verify"
  /\ \/ End(IF CheckPasses /\ Compiles THEN "done" ELSE "inconsistent")
     \/ CheckPasses /\ End("failed")
  /\ UNCHANGED <<baseline, files, installed, client, selection, history>>

EditedInPlace == {".env.example", "docker-compose.yml", "package.json", "load-test-env.ts"}

\* The process is killed between two steps, or inside a write, which truncates first.
Interrupt ==
  /\ step # "idle" /\ End("interrupted")
  /\ \/ UNCHANGED <<files, spoilt>>
     \/ /\ step = "write" /\ Head(tasks).do = "write"
        /\ files' = Holding(Head(tasks).path, Empty)
        /\ spoilt' = (spoilt \/ Head(tasks).path \in EditedInPlace)
  /\ UNCHANGED <<baseline, installed, client, selection, runs, edits, applied>>

-----------------------------------------------------------------------------
(* The developer between two runs                                          *)

\* Runs are one at a time: nobody edits below a generator that is running.
Aside ==
  /\ step = "idle" /\ result' = "none"
  /\ UNCHANGED <<baseline, step, tasks, selection, runs, applied>>

\* A second database service, one that app no longer waits for, another image,
\* a test database that is kept, a configuration changed by hand.
Edit ==
  /\ Aside /\ edits < MaxEdits /\ runs < MaxRuns
  /\ edits' = edits + 1 /\ UNCHANGED <<installed, client>>
  /\ \/ /\ ComposeIsReadable(files["docker-compose.yml"])
        /\ \E d \in RdbChoices \ DOMAIN files["docker-compose.yml"].services :
             files' = [files EXCEPT !["docker-compose.yml"].services =
                         [x \in DOMAIN @ \cup {d} |-> IF x = d THEN Image[d] ELSE @[x]]]
        /\ spoilt' = TRUE
     \/ /\ ComposeIsReadable(files["docker-compose.yml"])
        /\ files' = [files EXCEPT !["docker-compose.yml"].dependsOn = {}]
        /\ spoilt' = TRUE
     \/ /\ ComposeIsReadable(files["docker-compose.yml"])
        /\ \E d \in DOMAIN files["docker-compose.yml"].services :
             files' = [files EXCEPT !["docker-compose.yml"].services[d] = "another"]
        /\ UNCHANGED spoilt
     \/ /\ files["docker-compose.test.yml"] # Empty
        /\ files' = [files EXCEPT !["docker-compose.test.yml"].persistent = TRUE]
        /\ UNCHANGED spoilt
     \/ /\ \E s \in Arguments \cap Selections : files' = [files EXCEPT !["barebones.config.json"] = s]
        /\ UNCHANGED spoilt

\* git checkout: tracked files come back, files of a profile stay.
Restore ==
  /\ Aside
  /\ files' = Over(Committed[baseline]) /\ spoilt' = FALSE
  /\ UNCHANGED <<installed, client, edits>>

\* pnpm install by hand; the postinstall script of the Prisma profile may fail.
InstallByHand ==
  /\ Aside /\ files["package.json"] # Empty
  /\ installed' = Listed(files["package.json"])
  /\ \/ UNCHANGED client
     \/ /\ files["package.json"].scripts = "prisma"
        /\ "schema.prisma" \in DOMAIN files /\ files["schema.prisma"] # Empty
        /\ client' = files["schema.prisma"].dialect
  /\ UNCHANGED <<files, edits, spoilt>>

Next ==
  \/ \E s \in Arguments : Select(s, TRUE) \/ Select(s, FALSE)
  \/ PerformTask \/ Install \/ GenerateClient \/ Verify \/ Interrupt
  \/ Edit \/ Restore \/ InstallByHand

Spec == Init /\ [][Next]_vars
-----------------------------------------------------------------------------
(* Properties                                                              *)

\* Only TypeORM's files are ever missing, and each file holds what some selection, or an
\* edit, puts there; the generator has tasks exactly while it writes.
TypeOK ==
  /\ DOMAIN Committed[baseline] \ DOMAIN files \subseteq OwnFiles["typeorm"]
  /\ DOMAIN files \subseteq KnownFiles
  /\ \A p \in DOMAIN files : files[p] \in Contents[p] \cup {Empty}
  /\ baseline \in {Initial} \cup Derived
  /\ selection \in Arguments \cup {baseline} /\ applied \subseteq Selections
  /\ installed \subseteq OfAnyProfile("dependencies") \cup OfAnyProfile("devDependencies")
  /\ client \in {Empty, "postgresql", "mysql"}
  /\ step \in {"idle", "write", "install", "generate", "verify"}
  /\ (step = "write") = (tasks # <<>>)
  /\ result \in {"none", "dry", "threw", "done", "inconsistent", "failed", "interrupted"}
  /\ step # "idle" => result = "none"
  /\ runs \in 0..MaxRuns /\ edits \in 0..MaxEdits /\ spoilt \in BOOLEAN

\* The parts of a checkout that nothing looks into: check-scaffold.ts asks only
\* whether they exist, and no source file imports them.
Unread == {"prisma.config.ts", "schema.prisma", "drizzle.config.ts", "schema.ts"}

\* scaffoldConsistencyIssues is there to find files and dependencies that were mixed
\* up.  However a checkout came about - runs cut off at any write, one over another,
\* edits, restored files - what passes the check and the type check with the packages
\* of its package.json is, up to DATABASE_URL, the checkout of one selection.
AcceptedIsOneSelection ==
  CheckPasses /\ Compiles /\ installed = Listed(files["package.json"]) =>
    LET s == files["barebones.config.json"] IN
    /\ DOMAIN files = DOMAIN Whole(s)
    /\ \A p \in DOMAIN files \ Unread : files[p] \in {Whole(s)[p], Checkout(s, Empty, Empty)[p]}

\* "write, install, and verify": a run that reports success leaves the whole checkout
\* of its selection, its packages and its Prisma client, whatever was there before.
SuccessIsWhole ==
  result = "done" =>
    /\ files = Whole(selection)
    /\ installed = Listed(files["package.json"])
    /\ selection.orm = "prisma" => client = Dialect[selection.database]

\* The profiles that ever wrote files here are TypeORM and at most the one selected.
OneProfileWrote ==
  {s.orm : s \in applied} \subseteq {selection.orm} \cup (IF selection.orm = "typeorm" THEN {} ELSE {"typeorm"})

\* A run that was cut off, or whose installation failed, can be repeated: unless a file
\* that is read back was damaged, or another profile's files are in the way, no later
\* run throws or finds its own result inconsistent.
RetryCompletes ==
  result \in {"threw", "inconsistent"} /\ selection \in Selections => spoilt \/ ~OneProfileWrote
=============================================================================
