----------------------- MODULE ScaffoldSelectionProofs -----------------------
(***************************************************************************)
(* Safety of ScaffoldSelection for any committed selections, any arguments *)
(* and any number of runs and edits.  IInv says what a run has done so far *)
(* and has yet to do, and what the histories tell about the files that     *)
(* exist.                                                                  *)
(***************************************************************************)
EXTENDS ScaffoldSelection, SequenceTheorems, TLAPS

Module == "rdb-database.module.ts"

\* Each file has one content.  TypeORM's own files are never written, so never cut off;
\* and its module, which only git brings back, never stands without them.
TypeOrmInv ==
  /\ files = [p \in DOMAIN files |-> files[p]]
  /\ \A p \in OwnFiles["typeorm"] \cap DOMAIN files : files[p] = TypeOrmFile
  /\ files[Module] = TypeOrmFile => OwnFiles["typeorm"] \subseteq DOMAIN files

\* What a run writes: the lines it edits in place are lost if they were before.
Targets(s) ==
  IF s.orm = "typeorm" THEN CommonFiles \ {Module} ELSE CommonFiles \cup OwnFiles[s.orm]
Fits(s, p, content) ==
  \/ content = Whole(s)[p]
  \/ spoilt /\ p = ".env.example" /\ content = LinesLost(s.database)
  \/ spoilt /\ p = "load-test-env.ts" /\ content = Empty

Items(q) == {q[i] : i \in DOMAIN q}
ToWrite(p) == \E i \in DOMAIN tasks : tasks[i].do = "write" /\ tasks[i].path = p
ToRemove(p) == \E i \in DOMAIN tasks : tasks[i].do = "remove" /\ tasks[i].path = p
IsTask(s, t) ==
  \/ t.do = "write" /\ t.path \in Targets(s) /\ Fits(s, t.path, t.content)
  \/ t.do = "remove" /\ t.path \in OwnFiles["typeorm"] /\ s.orm # "typeorm"

\* Every task of a run is among those to come or was performed; removals come last.
RunInv ==
  /\ tasks \in Seq(Items(tasks))
  /\ \A i \in DOMAIN tasks : IsTask(selection, tasks[i])
  /\ \A i \in DOMAIN tasks : tasks[i].do = "remove" /\ files[Module] = TypeOrmFile =>
       \E j \in DOMAIN tasks : j < i /\ tasks[j].do = "write" /\ tasks[j].path = Module
  /\ step # "idle" =>
       /\ selection \in Selections \cap applied
       /\ \A p \in Targets(selection) :
            (p \in DOMAIN files /\ Fits(selection, p, files[p])) \/ ToWrite(p)
       /\ selection.orm # "typeorm" =>
            \A p \in OwnFiles["typeorm"] : p \notin DOMAIN files \/ ToRemove(p)

\* What installation and client are, once a run has come to them.
InstallInv ==
  /\ step \in {"generate", "verify"} => installed = Listed(files["package.json"])
  /\ step = "generate" => selection.orm = "prisma"
  /\ step = "verify" /\ selection.orm = "prisma" => client = Dialect[selection.database]

\* The files that are edited in place hold what the generator looks for.
Readable ==
  /\ files["package.json"] # Empty /\ ComposeIsReadable(files["docker-compose.yml"])
  /\ files[".env.example"] # Empty /\ files[".env.example"].type # Empty
  /\ files["load-test-env.ts"] # Empty

\* Unless one was damaged, the files that are edited in place can be; a profile's files
\* are there because it was applied, and TypeORM's are if no other was.
HistoryInv ==
  /\ baseline \in applied
  /\ ~spoilt => Readable
  /\ \A orm \in OrmChoices \ {"typeorm"} :
       OwnFiles[orm] \cap DOMAIN files # {} => \E s \in applied : s.orm = orm
  /\ (\A s \in applied : s.orm = "typeorm") =>
       files[Module] = TypeOrmFile

IInv == TypeOK /\ TypeOrmInv /\ RunInv /\ InstallInv /\ HistoryInv

-----------------------------------------------------------------------------
(* The tables, entry by entry                                              *)

LEMMA TypeOrmNames ==
  OwnFiles["typeorm"] =
    {"provide-repository-port.spec.ts", "provide-repository-port.ts",
     "typeorm-repository.adapter.spec.ts", "typeorm-repository.adapter.ts",
     "database.config.spec.ts", "database.config.ts", "typeorm-data-source.ts",
     "persistence.e2e-spec.ts"}
<1>1. DOMAIN TypeOrmFiles = 1..8 BY DEF TypeOrmFiles
<1>2. OwnFiles["typeorm"] = {TypeOrmFiles[i] : i \in 1..8} BY <1>1 DEF OwnFiles
<1> QED BY <1>2 DEF TypeOrmFiles

LEMMA ProfileNames ==
  /\ OwnFiles["prisma"] = {"prisma.config.ts", "schema.prisma"}
  /\ OwnFiles["mikroorm"] = {"mikro-orm.config.ts"}
  /\ OwnFiles["drizzle"] = {"drizzle.config.ts", "schema.ts"}
BY DEF OwnFiles

LEMMA SelectionFields ==
  ASSUME NEW s \in Selections
  PROVE  s.database \in {"postgres", "mysql", "mariadb"} /\ s.orm \in OrmChoices
BY DEF Selections, RdbChoices

\* What configurePackages adds is read off the dependencies: they name one ORM, and as
\* much of the database as the ORM tells apart.
LEMMA DriversDiffer ==
  ASSUME NEW s \in Selections, NEW t \in Selections, s.orm = t.orm,
         DriverPackage(s) = DriverPackage(t)
  PROVE  /\ Packages(s) = Packages(t)
         /\ Dialect[s.database] = Dialect[t.database]
         /\ RdbModule(s) = RdbModule(t)
         /\ SourceOf(s, "mikro-orm.config.ts") = SourceOf(t, "mikro-orm.config.ts")
<1>1. Dialect[s.database] = Dialect[t.database] /\ TypesOfDriver(s) = TypesOfDriver(t)
  BY SelectionFields DEF DriverPackage, Dialect, TypesOfDriver, OrmChoices, Driver, PrismaAdapter, MikroDriver
<1> QED BY <1>1 DEF Packages, RdbModule, SourceOf

LEMMA DependenciesTellSelections ==
  ASSUME NEW s \in Selections, NEW t \in Selections, DependenciesMatch(s, Packages(t))
  PROVE  s.orm = t.orm /\ DriverPackage(s) = DriverPackage(t)
<1>1. Packages(t).dependencies = RequiredDependencies[t.orm] \cup {DriverPackage(t)}
  BY DEF Packages
<1>2. s.orm = t.orm
  <2> SUFFICES ASSUME s.orm # t.orm PROVE FALSE OBVIOUS
  <2>1. RequiredDependencies[t.orm] \cap Packages(t).dependencies = {}
    BY SelectionFields DEF DependenciesMatch
  <2> QED BY <1>1, <2>1, SelectionFields DEF RequiredDependencies, OrmChoices
<1>3. DriverPackage(s) \in RequiredDependencies[s.orm] \cup {DriverPackage(t)}
  BY <1>1, <1>2 DEF DependenciesMatch
<1>4. DriverPackage(s) \notin RequiredDependencies[s.orm]
  BY SelectionFields DEF DriverPackage, RequiredDependencies, OrmChoices, Driver, PrismaAdapter, MikroDriver
<1> QED BY <1>2, <1>3, <1>4

LEMMA OwnDependenciesMatch ==
  ASSUME NEW s \in Selections
  PROVE  DependenciesMatch(s, Packages(s))
<1>1. /\ Packages(s).dependencies = RequiredDependencies[s.orm] \cup {DriverPackage(s)}
      /\ Packages(s).devDependencies = RequiredDevDependencies[s.orm] \cup TypesOfDriver(s)
  BY DEF Packages
<1>2. \A orm \in OrmChoices \ {s.orm} :
        /\ RequiredDependencies[orm] \cap (RequiredDependencies[s.orm] \cup {DriverPackage(s)}) = {}
        /\ RequiredDevDependencies[orm] \cap (RequiredDevDependencies[s.orm] \cup TypesOfDriver(s)) = {}
  BY SelectionFields DEF OrmChoices, RequiredDependencies, RequiredDevDependencies, TypesOfDriver,
     DriverPackage, Driver, PrismaAdapter, MikroDriver
<1>3. \A d \in RdbChoices :
        DriverPackage([s EXCEPT !.database = d]) \notin RequiredDependencies[s.orm]
  BY SelectionFields DEF Selections, RdbChoices, OrmChoices, RequiredDependencies,
     DriverPackage, Driver, PrismaAdapter, MikroDriver
<1> QED BY <1>1, <1>2, <1>3 DEF DependenciesMatch

LEMMA PackagesAreReplaced ==
  ASSUME NEW s \in Selections, NEW t \in Selections
  PROVE  ConfigurePackages(Packages(t), s) = Packages(s)
<1>1. /\ Packages(t).dependencies \subseteq OfAnyProfile("dependencies")
      /\ Packages(t).devDependencies \subseteq OfAnyProfile("devDependencies")
  BY DEF OfAnyProfile
<1>2. /\ (Packages(t).dependencies \ OfAnyProfile("dependencies")) \cup Packages(s).dependencies
           = Packages(s).dependencies
      /\ (Packages(t).devDependencies \ OfAnyProfile("devDependencies")) \cup Packages(s).devDependencies
           = Packages(s).devDependencies
  BY <1>1
<1> QED BY <1>2 DEF ConfigurePackages, Packages

LEMMA ContentsOf ==
  /\ Contents["barebones.config.json"] = Selections
  /\ Contents["active-scaffold.ts"] = Selections
  /\ Contents["package.json"] = {Packages(s) : s \in Selections}
  /\ Contents[".env.example"] =
       UNION {{EnvExample(d, Empty), EnvExample(d, DatabaseUrl(d, "localhost")), LinesLost(d)} :
                d \in RdbChoices}
  /\ Contents["docker-compose.yml"] = UNION {ComposeFiles(d) : d \in RdbChoices}
  /\ Contents["docker-compose.test.yml"] =
       UNION {TestComposeFiles(d) : d \in RdbChoices}
  /\ Contents["load-test-env.ts"] = RdbChoices
  /\ Contents[Module] = {SourceOf(s, Module) : s \in Selections}
  /\ \A orm \in OrmChoices : \A p \in OwnFiles[orm] :
       Contents[p] = {SourceOf(s, p) : s \in {t \in Selections : t.orm = orm}}
<1>1. CommonFiles \subseteq KnownFiles /\ \A orm \in OrmChoices : OwnFiles[orm] \subseteq KnownFiles
  BY DEF KnownFiles
<1>2. \A p \in CommonFiles : Holders(p) = Selections
  BY DEF Holders
<1>3. ASSUME NEW orm \in OrmChoices, NEW p \in OwnFiles[orm]
      PROVE  /\ Holders(p) = {t \in Selections : t.orm = orm}
             /\ p \notin CommonFiles
  BY TypeOrmNames, ProfileNames, SelectionFields DEF Holders, CommonFiles, OrmChoices
<1>4. /\ Contents["barebones.config.json"] = Selections
      /\ Contents["active-scaffold.ts"] = Selections
      /\ Contents["package.json"] = {Packages(s) : s \in Selections}
      /\ Contents["load-test-env.ts"] = RdbChoices
  BY <1>1 DEF CommonFiles, Contents
<1>5. /\ Contents[".env.example"] =
          UNION {{EnvExample(d, Empty), EnvExample(d, DatabaseUrl(d, "localhost")), LinesLost(d)} :
                   d \in RdbChoices}
      /\ Contents["docker-compose.yml"] = UNION {ComposeFiles(d) : d \in RdbChoices}
      /\ Contents["docker-compose.test.yml"] =
          UNION {TestComposeFiles(d) : d \in RdbChoices}
  BY <1>1 DEF CommonFiles, Contents
<1>6. Contents[Module] = {SourceOf(s, Module) : s \in Selections}
  BY <1>1, <1>2 DEF CommonFiles, Contents, Module
<1>7. ASSUME NEW orm \in OrmChoices, NEW p \in OwnFiles[orm]
      PROVE  Contents[p] = {SourceOf(s, p) : s \in {t \in Selections : t.orm = orm}}
  <2>1. p \in KnownFiles /\ p \notin CommonFiles BY <1>1, <1>3
  <2>2. Contents[p] = {SourceOf(s, p) : s \in Holders(p)}
    BY <2>1 DEF CommonFiles, Contents
  <2> QED BY <2>2, <1>3
<1> QED BY <1>4, <1>5, <1>6, <1>7

LEMMA SourcesOf ==
  ASSUME NEW s \in Selections
  PROVE  /\ SourceOf(s, Module) = RdbModule(s)
         /\ \A p \in OwnFiles["typeorm"] : SourceOf(s, p) = TypeOrmFile
BY TypeOrmNames DEF SourceOf, Module

LEMMA CheckoutFiles ==
  ASSUME NEW s \in Selections, NEW url, NEW dockerUrl
  PROVE  DOMAIN Checkout(s, url, dockerUrl) = CommonFiles \cup OwnFiles[s.orm]
BY DEF Checkout

LEMMA CheckoutOf ==
  ASSUME NEW s \in Selections, NEW url, NEW dockerUrl
  PROVE  /\ Checkout(s, url, dockerUrl)["barebones.config.json"] = s
         /\ Checkout(s, url, dockerUrl)["active-scaffold.ts"] = s
         /\ Checkout(s, url, dockerUrl)["package.json"] = Packages(s)
         /\ Checkout(s, url, dockerUrl)[".env.example"] = EnvExample(s.database, url)
         /\ Checkout(s, url, dockerUrl)["docker-compose.yml"] = Compose(s.database, dockerUrl)
         /\ Checkout(s, url, dockerUrl)["docker-compose.test.yml"] = RenderTestCompose(s.database)
         /\ Checkout(s, url, dockerUrl)["load-test-env.ts"] = s.database
         /\ Checkout(s, url, dockerUrl)[Module] = RdbModule(s)
         /\ \A p \in OwnFiles[s.orm] : Checkout(s, url, dockerUrl)[p] = SourceOf(s, p)
<1>1. \A p \in OwnFiles[s.orm] : p \notin CommonFiles
  BY SelectionFields, TypeOrmNames, ProfileNames DEF CommonFiles, OrmChoices
<1>2. \A p \in OwnFiles[s.orm] : Checkout(s, url, dockerUrl)[p] = SourceOf(s, p)
  BY <1>1 DEF Checkout, CommonFiles
<1> QED BY <1>2, SourcesOf DEF Checkout, CommonFiles, Module

LEMMA WholeFiles ==
  ASSUME NEW s \in Selections
  PROVE  DOMAIN Whole(s) = CommonFiles \cup OwnFiles[s.orm]
BY CheckoutFiles DEF Whole

LEMMA WholeOf ==
  ASSUME NEW s \in Selections
  PROVE  /\ Whole(s)["barebones.config.json"] = s
         /\ Whole(s)["active-scaffold.ts"] = s
         /\ Whole(s)["package.json"] = Packages(s)
         /\ Whole(s)[".env.example"] = EnvExample(s.database, DatabaseUrl(s.database, "localhost"))
         /\ Whole(s)["docker-compose.yml"] = Compose(s.database, DatabaseUrl(s.database, s.database))
         /\ Whole(s)["docker-compose.test.yml"] = RenderTestCompose(s.database)
         /\ Whole(s)["load-test-env.ts"] = s.database
         /\ Whole(s)[Module] = RdbModule(s)
         /\ \A p \in OwnFiles[s.orm] : Whole(s)[p] = SourceOf(s, p)
BY CheckoutOf DEF Whole

\* What the generator writes and what is committed are contents.
LEMMA ComposesAreContents ==
  ASSUME NEW d \in RdbChoices, NEW url \in {Empty, DatabaseUrl(d, d)}
  PROVE  Compose(d, url) \in ComposeFiles(d)
<1>1. Service(d) \in [{d} -> {Image[x] : x \in RdbChoices} \cup {"another"}]
  BY DEF Service
<1>2. {d} \in SUBSET RdbChoices OBVIOUS
<1>3. Service(d) \in DatabaseServices
  BY <1>1, <1>2, Zenon DEF DatabaseServices
<1> QED BY <1>3 DEF Compose, ComposeFiles

LEMMA TestComposesAreContents ==
  ASSUME NEW d \in RdbChoices
  PROVE  RenderTestCompose(d) \in Contents["docker-compose.test.yml"]
<1>1. RenderTestCompose(d) \in TestComposeFiles(d)
  BY DEF RenderTestCompose, TestComposeFiles
<1> QED BY <1>1, ContentsOf

LEMMA CheckoutsAreContents ==
  ASSUME NEW s \in Selections, NEW url, NEW dockerUrl,
         url \in {Empty, DatabaseUrl(s.database, "localhost")},
         dockerUrl \in {Empty, DatabaseUrl(s.database, s.database)}
  PROVE  \A p \in CommonFiles \cup OwnFiles[s.orm] : Checkout(s, url, dockerUrl)[p] \in Contents[p]
<1> DEFINE c == Checkout(s, url, dockerUrl)
<1>1. s.database \in RdbChoices BY SelectionFields DEF RdbChoices
<1>2. /\ c["barebones.config.json"] \in Contents["barebones.config.json"]
      /\ c["active-scaffold.ts"] \in Contents["active-scaffold.ts"]
      /\ c["package.json"] \in Contents["package.json"]
      /\ c["load-test-env.ts"] \in Contents["load-test-env.ts"]
      /\ c[Module] \in Contents[Module]
  BY <1>1, CheckoutOf, ContentsOf, SourcesOf
<1>3. c[".env.example"] \in Contents[".env.example"]
  BY <1>1, CheckoutOf, ContentsOf
<1>4. c["docker-compose.yml"] \in Contents["docker-compose.yml"]
  BY <1>1, CheckoutOf, ContentsOf, ComposesAreContents
<1>5. c["docker-compose.test.yml"] \in Contents["docker-compose.test.yml"]
  BY <1>1, CheckoutOf, TestComposesAreContents
<1>6. ASSUME NEW p \in OwnFiles[s.orm] PROVE c[p] \in Contents[p]
  <2>1. s.orm \in OrmChoices BY SelectionFields
  <2>2. c[p] = SourceOf(s, p) BY CheckoutOf
  <2>3. Contents[p] = {SourceOf(t, p) : t \in {u \in Selections : u.orm = s.orm}}
    BY <2>1, ContentsOf
  <2> QED BY <2>2, <2>3
<1> QED BY <1>2, <1>3, <1>4, <1>5, <1>6 DEF CommonFiles, Module

LEMMA CommittedContents ==
  ASSUME NEW s \in {Initial} \cup Derived
  PROVE  /\ s \in Selections
         /\ DOMAIN Committed[s] = CommonFiles \cup OwnFiles[s.orm]
         /\ \A p \in DOMAIN Committed[s] : Committed[s][p] \in Contents[p]
         /\ Committed[s] \in {Whole(s), Checkout(s, Empty, Empty)}
<1>1. s \in Selections BY ScaffoldAssumption
<1>2. Committed[s] \in {Whole(s), Checkout(s, Empty, Empty)} BY DEF Committed
<1>3. /\ DOMAIN Whole(s) = CommonFiles \cup OwnFiles[s.orm]
      /\ DOMAIN Checkout(s, Empty, Empty) = CommonFiles \cup OwnFiles[s.orm]
  BY <1>1, WholeFiles, CheckoutFiles
<1>4. \A p \in CommonFiles \cup OwnFiles[s.orm] :
        Whole(s)[p] \in Contents[p] /\ Checkout(s, Empty, Empty)[p] \in Contents[p]
  BY <1>1, CheckoutsAreContents DEF Whole
<1> QED BY <1>1, <1>2, <1>3, <1>4

-----------------------------------------------------------------------------
(* The check accepts one selection                                         *)

LEMMA FilesOf ==
  ASSUME TypeOK
  PROVE  /\ CommonFiles \subseteq DOMAIN files
         /\ files["barebones.config.json"] \in Selections \cup {Empty}
         /\ files["active-scaffold.ts"] \in Selections \cup {Empty}
         /\ files["package.json"] # Empty =>
              \E s \in Selections : files["package.json"] = Packages(s)
         /\ files[".env.example"] # Empty =>
              \E d \in RdbChoices : files[".env.example"] \in
                {EnvExample(d, Empty), EnvExample(d, DatabaseUrl(d, "localhost")), LinesLost(d)}
         /\ files["docker-compose.yml"] # Empty =>
              \E d \in RdbChoices : files["docker-compose.yml"] \in ComposeFiles(d)
         /\ files["docker-compose.test.yml"] # Empty =>
              \E d \in RdbChoices : files["docker-compose.test.yml"] \in TestComposeFiles(d)
         /\ files["load-test-env.ts"] \in RdbChoices \cup {Empty}
         /\ files[Module] # Empty => \E s \in Selections : files[Module] = RdbModule(s)
<1>1. CommonFiles \subseteq DOMAIN files
  <2>1. CommonFiles \subseteq DOMAIN Committed[baseline]
    BY CommittedContents DEF TypeOK
  <2>2. CommonFiles \cap OwnFiles["typeorm"] = {}
    BY TypeOrmNames DEF CommonFiles
  <2> QED BY <2>1, <2>2 DEF TypeOK
<1>2. \A p \in CommonFiles : files[p] \in Contents[p] \cup {Empty}
  BY <1>1 DEF TypeOK
<1>3. /\ files["barebones.config.json"] \in Contents["barebones.config.json"] \cup {Empty}
      /\ files["active-scaffold.ts"] \in Contents["active-scaffold.ts"] \cup {Empty}
      /\ files["package.json"] \in Contents["package.json"] \cup {Empty}
      /\ files[".env.example"] \in Contents[".env.example"] \cup {Empty}
      /\ files["docker-compose.yml"] \in Contents["docker-compose.yml"] \cup {Empty}
      /\ files["docker-compose.test.yml"] \in Contents["docker-compose.test.yml"] \cup {Empty}
      /\ files["load-test-env.ts"] \in Contents["load-test-env.ts"] \cup {Empty}
      /\ files[Module] \in Contents[Module] \cup {Empty}
  BY <1>2 DEF CommonFiles, Module
<1>4. files[Module] # Empty => \E s \in Selections : files[Module] = RdbModule(s)
  BY <1>3, ContentsOf, SourcesOf
<1> QED BY <1>1, <1>3, <1>4, ContentsOf

\* What is on the files of a whole checkout is something.
LEMMA NotEmpty ==
  ASSUME NEW s \in Selections
  PROVE  /\ s # Empty /\ s.database # Empty /\ Packages(s) # Empty /\ RdbModule(s) # Empty
         /\ TypeOrmFile # Empty
         /\ \A url \in {Empty, DatabaseUrl(s.database, "localhost")} :
              EnvExample(s.database, url) # Empty
         /\ LinesLost(s.database) # Empty
         /\ \A c \in ComposeFiles(s.database) : c # Empty
         /\ \A c \in TestComposeFiles(s.database) : c # Empty
         /\ Dialect[s.database] # Empty
<1>1. \A p \in CommonFiles : Empty \notin Contents[p]
  BY EmptyAssumption DEF KnownFiles
<1>2. /\ Empty \notin Contents["barebones.config.json"]
      /\ Empty \notin Contents["package.json"]
      /\ Empty \notin Contents[".env.example"]
      /\ Empty \notin Contents["docker-compose.yml"]
      /\ Empty \notin Contents["docker-compose.test.yml"]
      /\ Empty \notin Contents["load-test-env.ts"]
      /\ Empty \notin Contents[Module]
  BY <1>1 DEF CommonFiles, Module
<1>3. s.database \in RdbChoices
  BY SelectionFields DEF RdbChoices
<1>4. s # Empty /\ s.database # Empty /\ Packages(s) # Empty
  BY <1>2, <1>3, ContentsOf
<1>5. RdbModule(s) # Empty
  BY <1>2, ContentsOf, SourcesOf
<1>6. TypeOrmFile # Empty
  <2> DEFINE t == [database |-> "postgres", orm |-> "typeorm"]
  <2>1. t \in Selections BY DEF Selections, RdbChoices, OrmChoices
  <2>2. RdbModule(t) = TypeOrmFile BY DEF RdbModule
  <2> QED BY <1>2, <2>1, <2>2, ContentsOf, SourcesOf
<1>7. /\ EnvExample(s.database, Empty) # Empty
      /\ EnvExample(s.database, DatabaseUrl(s.database, "localhost")) # Empty
      /\ LinesLost(s.database) # Empty
  BY <1>2, <1>3, ContentsOf
<1>8. /\ \A c \in ComposeFiles(s.database) : c # Empty
      /\ \A c \in TestComposeFiles(s.database) : c # Empty
  BY <1>2, <1>3, ContentsOf
<1>9. Dialect[s.database] # Empty
  BY <1>3, EmptyAssumption
<1> QED BY <1>4, <1>5, <1>6, <1>7, <1>8, <1>9

\* Which packages a selection's files import.
LEMMA ImportsTellDrivers ==
  ASSUME NEW s \in Selections, NEW t \in Selections, s.orm = t.orm
  PROVE  /\ s.orm \in {"prisma", "drizzle"} /\ RdbModule(t).imports \subseteq Listed(Packages(s)) =>
              DriverPackage(s) = DriverPackage(t)
         /\ s.orm = "mikroorm"
              /\ SourceOf(t, "mikro-orm.config.ts").imports \subseteq Listed(Packages(s)) =>
              DriverPackage(s) = DriverPackage(t)
<1>1. Listed(Packages(s)) = RequiredDependencies[s.orm] \cup {DriverPackage(s)}
                              \cup RequiredDevDependencies[s.orm] \cup TypesOfDriver(s)
  BY DEF Listed, Packages
<1>2. DriverPackage(t) \notin RequiredDependencies[s.orm] \cup RequiredDevDependencies[s.orm]
                                \cup TypesOfDriver(s)
  BY SelectionFields DEF OrmChoices, RequiredDependencies, RequiredDevDependencies, TypesOfDriver,
     DriverPackage, Driver, PrismaAdapter, MikroDriver
<1>3. s.orm \in {"prisma", "drizzle"} => DriverPackage(t) \in RdbModule(t).imports
  BY DEF RdbModule, Source
<1>4. DriverPackage(t) \in SourceOf(t, "mikro-orm.config.ts").imports
  BY DEF SourceOf, Source
<1> QED BY <1>1, <1>2, <1>3, <1>4

LEMMA OnlyTypeOrmListsIt ==
  ASSUME NEW s \in Selections, s.orm # "typeorm"
  PROVE  ~ (TypeOrmFile.imports \subseteq Listed(Packages(s)))
<1>1. Listed(Packages(s)) = RequiredDependencies[s.orm] \cup {DriverPackage(s)}
                              \cup RequiredDevDependencies[s.orm] \cup TypesOfDriver(s)
  BY DEF Listed, Packages
<1>2. "typeorm" \notin RequiredDependencies[s.orm] \cup {DriverPackage(s)}
                         \cup RequiredDevDependencies[s.orm] \cup TypesOfDriver(s)
  BY SelectionFields DEF OrmChoices, RequiredDependencies, RequiredDevDependencies, TypesOfDriver,
     DriverPackage, Driver, PrismaAdapter, MikroDriver
<1> QED BY <1>1, <1>2 DEF TypeOrmFile, Source

LEMMA AcceptedChecks ==
  ASSUME TypeOK, TypeOrmInv, CheckPasses, Compiles, installed = Listed(files["package.json"]),
         NEW s, s = files["barebones.config.json"]
  PROVE  /\ s \in Selections
         /\ DOMAIN files = CommonFiles \cup OwnFiles[s.orm]
         /\ files["active-scaffold.ts"] = s
         /\ files["package.json"] = Packages(s)
         /\ files[".env.example"] \in
              {EnvExample(s.database, Empty), EnvExample(s.database, DatabaseUrl(s.database, "localhost"))}
         /\ files["docker-compose.yml"] \in
              {Compose(s.database, Empty), Compose(s.database, DatabaseUrl(s.database, s.database))}
         /\ files["docker-compose.test.yml"] = RenderTestCompose(s.database)
         /\ files["load-test-env.ts"] = s.database
         /\ files[Module] = RdbModule(s)
         /\ \A p \in OwnFiles[s.orm] \ Unread : files[p] = SourceOf(s, p)
<1>1. s \in Selections /\ files["active-scaffold.ts"] = s /\ files["load-test-env.ts"] = s.database
  BY FilesOf DEF CheckPasses
<1>2. s.orm \in OrmChoices /\ s.database \in RdbChoices
  BY <1>1, SelectionFields DEF RdbChoices
<1>3. files["package.json"] = Packages(s)
  <2>1. PICK t \in Selections : files["package.json"] = Packages(t)
    BY FilesOf DEF CheckPasses
  <2>2. DependenciesMatch(s, Packages(t)) BY <2>1 DEF CheckPasses
  <2> QED BY <1>1, <2>1, <2>2, DependenciesTellSelections, DriversDiffer
<1>4. files[Module] # Empty /\ files[Module].orm = s.orm
  BY DEF CheckPasses, ModuleActivates, Module
<1>5. \A p \in SourceFiles \cap DOMAIN files :
        files[p] # Empty =>
          /\ files[p].imports \subseteq Listed(Packages(s))
          /\ \A q \in LocalImports(p) : q \in DOMAIN files /\ files[q] # Empty
  BY <1>3 DEF Compiles
<1>6. Module \in SourceFiles \cap DOMAIN files
  BY FilesOf DEF SourceFiles, CommonFiles, Module
<1>7. files[Module] = RdbModule(s)
  <2>1. PICK t \in Selections : files[Module] = RdbModule(t)
    BY <1>4, FilesOf
  <2>2. RdbModule(t).orm = t.orm
    BY SelectionFields DEF RdbModule, Source, TypeOrmFile, OrmChoices
  <2>3. s.orm = t.orm BY <1>4, <2>1, <2>2
  <2>4. RdbModule(t).imports \subseteq Listed(Packages(s))
    BY <1>4, <1>5, <1>6, <2>1
  <2>5. CASE s.orm \in {"prisma", "drizzle"}
    BY <1>1, <2>1, <2>3, <2>4, <2>5, ImportsTellDrivers, DriversDiffer
  <2>6. CASE s.orm \in {"typeorm", "mikroorm"}
    BY <2>1, <2>3, <2>6 DEF RdbModule
  <2> QED BY <1>2, <2>5, <2>6 DEF OrmChoices
<1>8. s.orm # "typeorm" => OwnFiles["typeorm"] \cap DOMAIN files = {}
  <2> SUFFICES ASSUME s.orm # "typeorm", NEW p \in OwnFiles["typeorm"] \cap DOMAIN files
               PROVE  FALSE
    OBVIOUS
  <2>1. files[p] = TypeOrmFile /\ p \in SourceFiles \cap DOMAIN files
    BY DEF TypeOrmInv, SourceFiles
  <2>2. files[p] # Empty BY <1>1, <2>1, NotEmpty
  <2> QED BY <1>1, <1>5, <2>1, <2>2, OnlyTypeOrmListsIt
<1>9. s.orm = "typeorm" => OwnFiles["typeorm"] \subseteq DOMAIN files
  BY <1>7 DEF RdbModule, TypeOrmInv
<1>10. ASSUME NEW orm \in OrmChoices \ {"typeorm"}
       PROVE  /\ orm # s.orm => OwnFiles[orm] \cap DOMAIN files = {}
              /\ orm = s.orm => OwnFiles[orm] \subseteq DOMAIN files
  <2>1. /\ RequiredFiles[s.orm] \subseteq DOMAIN files
        /\ (RequiredFiles[orm] \ RequiredFiles[s.orm]) \cap DOMAIN files = {}
    BY DEF CheckPasses, ProfileFilesMatch
  <2>2. OwnFiles[orm] \subseteq RequiredFiles[orm]
    BY ProfileNames DEF RequiredFiles, OrmChoices
  <2>3. orm # s.orm => OwnFiles[orm] \cap RequiredFiles[s.orm] = {}
    BY <1>2, ProfileNames DEF RequiredFiles, OrmChoices
  <2> QED BY <2>1, <2>2, <2>3
<1>11. DOMAIN files = CommonFiles \cup OwnFiles[s.orm]
  <2>1. DOMAIN files \subseteq CommonFiles \cup UNION {OwnFiles[orm] : orm \in OrmChoices}
    BY DEF TypeOK, KnownFiles
  <2>2. \A orm \in OrmChoices : orm # s.orm => OwnFiles[orm] \cap DOMAIN files = {}
    BY <1>8, <1>10
  <2>3. CommonFiles \subseteq DOMAIN files BY FilesOf
  <2>4. OwnFiles[s.orm] \subseteq DOMAIN files BY <1>2, <1>9, <1>10
  <2> QED BY <2>1, <2>2, <2>3, <2>4
<1>12. files[".env.example"] \in
         {EnvExample(s.database, Empty), EnvExample(s.database, DatabaseUrl(s.database, "localhost"))}
  <2>1. files[".env.example"] # Empty /\ files[".env.example"].type = s.database
    BY DEF CheckPasses
  <2>2. PICK d \in RdbChoices : files[".env.example"] \in
          {EnvExample(d, Empty), EnvExample(d, DatabaseUrl(d, "localhost")), LinesLost(d)}
    BY <2>1, FilesOf
  <2>3. \A url : EnvExample(d, url).type = d BY DEF EnvExample
  <2>4. LinesLost(d).type = Empty BY DEF LinesLost
  <2>5. s.database # Empty BY <1>1, NotEmpty
  <2> QED BY <2>1, <2>2, <2>3, <2>4, <2>5
<1>13. files["docker-compose.yml"] \in
         {Compose(s.database, Empty), Compose(s.database, DatabaseUrl(s.database, s.database))}
  <2> DEFINE c == files["docker-compose.yml"]
  <2>1. /\ c # Empty
        /\ s.database \in DOMAIN c.services /\ c.services[s.database] = Image[s.database]
        /\ DOMAIN c.services \cap RdbChoices = {s.database}
        /\ s.database \in c.dependsOn
    BY DEF CheckPasses, ComposeMatches
  <2>2. PICK d \in RdbChoices : c \in ComposeFiles(d)
    BY <2>1, FilesOf
  <2> HIDE DEF c
  <2>3. /\ c.services \in DatabaseServices /\ c.dependsOn \in {{}, {d}} /\ c.volumes = {d}
        /\ c.environment \in {Environment(d, Empty), Environment(d, DatabaseUrl(d, d))}
        /\ c = [services |-> c.services, dependsOn |-> c.dependsOn,
                environment |-> c.environment, volumes |-> c.volumes]
    BY <2>2 DEF ComposeFiles
  <2>4. d = s.database /\ c.dependsOn = {s.database} BY <2>1, <2>3
  <2>5. c.services = Service(s.database)
    <3>1. PICK D \in SUBSET RdbChoices :
            c.services \in [D -> {Image[x] : x \in RdbChoices} \cup {"another"}]
      BY <2>3 DEF DatabaseServices
    <3>2. DOMAIN c.services = {s.database} BY <2>1, <3>1
    <3>3. c.services = [x \in {s.database} |-> c.services[x]] BY <3>1, <3>2
    <3>4. \A x \in {s.database} : c.services[x] = Image[x] BY <2>1
    <3> QED BY <3>3, <3>4, Zenon DEF Service
  <2>6. c \in {Compose(s.database, Empty), Compose(s.database, DatabaseUrl(s.database, s.database))}
    BY <2>3, <2>4, <2>5 DEF Compose
  <2> QED BY <2>6 DEF c
<1>14. files["docker-compose.test.yml"] = RenderTestCompose(s.database)
  <2> DEFINE c == files["docker-compose.test.yml"]
  <2>1. /\ c # Empty /\ DOMAIN c.services \cap RdbChoices = {s.database} /\ ~c.persistent
    BY DEF CheckPasses, TestComposeMatches
  <2>2. PICK d \in RdbChoices : c \in TestComposeFiles(d)
    BY <2>1, FilesOf
  <2> HIDE DEF c
  <2>3. /\ c.services = Service(d) /\ c.persistent \in BOOLEAN
        /\ c = [services |-> Service(d), port |-> Port[d], tmpfs |-> DataPath[d],
                persistent |-> c.persistent]
    BY <2>2 DEF TestComposeFiles
  <2>4. d = s.database BY <2>1, <2>3 DEF Service
  <2>5. c.persistent = FALSE BY <2>1, <2>3
  <2>6. c = RenderTestCompose(s.database)
    BY <2>3, <2>4, <2>5 DEF RenderTestCompose
  <2> QED BY <2>6 DEF c
<1>15. ASSUME NEW p \in OwnFiles[s.orm] \ Unread
       PROVE  files[p] = SourceOf(s, p)
  <2>1. CASE s.orm = "typeorm"
    BY <1>1, <1>11, <2>1, SourcesOf DEF TypeOrmInv
  <2>2. CASE s.orm \in {"prisma", "drizzle"}
    BY <2>2, ProfileNames DEF Unread
  <2>3. CASE s.orm = "mikroorm"
    <3>1. p = "mikro-orm.config.ts" /\ p \in DOMAIN files
      BY <1>11, <2>3, ProfileNames
    <3>2. p \in LocalImports(Module)
      BY <1>4, <2>3, <3>1 DEF LocalImports, ModuleActivates, Module
    <3>3. files[p] # Empty /\ p \in SourceFiles
      BY <1>4, <1>5, <1>6, <3>1, <3>2 DEF SourceFiles
    <3>4. files[p] \in Contents[p] BY <3>1, <3>3 DEF TypeOK
    <3>5. PICK t \in Selections : t.orm = s.orm /\ files[p] = SourceOf(t, p)
      BY <1>2, <3>4, ContentsOf
    <3>6. SourceOf(t, p).imports \subseteq Listed(Packages(s))
      BY <1>5, <3>1, <3>3, <3>5
    <3> QED BY <1>1, <2>3, <3>1, <3>5, <3>6, ImportsTellDrivers, DriversDiffer
  <2> QED BY <1>2, <2>1, <2>2, <2>3 DEF OrmChoices
<1> QED BY <1>1, <1>3, <1>7, <1>11, <1>12, <1>13, <1>14, <1>15

-----------------------------------------------------------------------------
(* The plan of a run                                                       *)

LEMMA TailItems ==
  ASSUME NEW q, q \in Seq(Items(q)), q # <<>>
  PROVE  /\ Head(q) = q[1] /\ 1 \in DOMAIN q
         /\ Tail(q) \in Seq(Items(Tail(q)))
         /\ \A i \in DOMAIN Tail(q) : i + 1 \in DOMAIN q /\ Tail(q)[i] = q[i + 1]
         /\ \A i \in DOMAIN q : i # 1 => i - 1 \in DOMAIN Tail(q) /\ Tail(q)[i - 1] = q[i]
         /\ DOMAIN q \subseteq Nat \ {0} /\ DOMAIN Tail(q) \subseteq Nat \ {0}
<1> DEFINE S == Items(q)
<1>1. q \in Seq(S) OBVIOUS
<1> HIDE DEF S
<1>2. Len(q) \in Nat /\ Len(q) # 0 /\ DOMAIN q = 1..Len(q)
  BY <1>1, EmptySeq, LenProperties
<1>3. /\ Head(q) = q[1] /\ Tail(q) \in Seq(S) /\ Len(Tail(q)) = Len(q) - 1
      /\ \A i \in 1..Len(q) - 1 : Tail(q)[i] = q[i + 1]
  BY <1>1, HeadTailProperties
<1>4. DOMAIN Tail(q) = 1..Len(q) - 1 BY <1>2, <1>3, LenProperties
<1>5. Tail(q) \in Seq(Items(Tail(q)))
  BY <1>3, SeqOfRange DEF Items, Range
<1> QED BY <1>2, <1>3, <1>4, <1>5

LEMMA ConcatItems ==
  ASSUME NEW a, NEW b, a \in Seq(Items(a)), b \in Seq(Items(b))
  PROVE  /\ a \o b \in Seq(Items(a \o b))
         /\ Items(a \o b) = Items(a) \cup Items(b)
         /\ \A i \in DOMAIN (a \o b) :
              \/ i \in DOMAIN a /\ (a \o b)[i] = a[i]
              \/ (\A j \in DOMAIN a : j < i) /\ (a \o b)[i] \in Items(b)
         /\ \A j \in DOMAIN a : j \in DOMAIN (a \o b) /\ (a \o b)[j] = a[j]
<1> DEFINE S == Items(a) \cup Items(b)
           c == a \o b
<1>1. a \in Seq(S) /\ b \in Seq(S) BY SeqMonotonic
<1> HIDE DEF S
<1>2. /\ Len(a) \in Nat /\ DOMAIN a = 1..Len(a)
      /\ Len(b) \in Nat /\ DOMAIN b = 1..Len(b)
  BY <1>1, LenProperties
<1>3. /\ c \in Seq(S) /\ Len(c) = Len(a) + Len(b)
      /\ \A i \in 1..Len(a) + Len(b) : c[i] = IF i <= Len(a) THEN a[i] ELSE b[i - Len(a)]
  BY <1>1, ConcatProperties
<1>4. DOMAIN c = 1..Len(a) + Len(b) BY <1>3, LenProperties
<1> HIDE DEF c
<1>5. \A j \in DOMAIN a : j \in DOMAIN c /\ c[j] = a[j]
  BY <1>2, <1>3, <1>4
<1>6. \A j \in DOMAIN b : j + Len(a) \in DOMAIN c /\ c[j + Len(a)] = b[j]
  BY <1>2, <1>3, <1>4
<1>7. \A i \in DOMAIN c :
        \/ i \in DOMAIN a /\ c[i] = a[i]
        \/ (\A j \in DOMAIN a : j < i) /\ c[i] \in Items(b)
  <2> SUFFICES ASSUME NEW i \in DOMAIN c, i \notin DOMAIN a
               PROVE  (\A j \in DOMAIN a : j < i) /\ c[i] \in Items(b)
    BY <1>5
  <2>1. i \in 1..Len(a) + Len(b) /\ ~(i <= Len(a)) BY <1>2, <1>4
  <2>2. c[i] = b[i - Len(a)] /\ i - Len(a) \in DOMAIN b BY <1>2, <1>3, <2>1
  <2> QED BY <1>2, <2>1, <2>2 DEF Items
<1>8. Items(c) = Items(a) \cup Items(b)
  <2>1. Items(c) \subseteq Items(a) \cup Items(b) BY <1>7 DEF Items
  <2>2. Items(a) \subseteq Items(c) BY <1>5 DEF Items
  <2>3. Items(b) \subseteq Items(c) BY <1>6 DEF Items
  <2> QED BY <2>1, <2>2, <2>3
<1>9. c \in Seq(Items(c)) BY <1>3, <1>8 DEF S
<1> QED BY <1>5, <1>7, <1>8, <1>9 DEF c

LEMMA ProfilePart ==
  ASSUME NEW s \in Selections
  PROVE  /\ ProfileFiles(s) \in Seq(Items(ProfileFiles(s)))
         /\ s.orm = "typeorm" => Items(ProfileFiles(s)) = {}
         /\ s.orm # "typeorm" =>
              Items(ProfileFiles(s)) = {Write(p, SourceOf(s, p)) : p \in OwnFiles[s.orm] \cup {Module}}
<1> DEFINE new(p) == Write(p, SourceOf(s, p))
<1>1. CASE s.orm = "typeorm"
  BY <1>1 DEF ProfileFiles, Items
<1>2. CASE s.orm = "prisma"
  <2> DEFINE q == <<new("prisma.config.ts"), new("schema.prisma"), new(Module)>>
  <2>1. ProfileFiles(s) = q BY <1>2 DEF ProfileFiles, Module
  <2>2. Items(q) = {new("prisma.config.ts"), new("schema.prisma"), new(Module)}
    <3> HIDE DEF new
    <3> QED BY DEF Items
  <2>3. q \in Seq(Items(q))
    <3> HIDE DEF new
    <3> QED BY <2>2
  <2>4. Items(q) = {new(p) : p \in OwnFiles[s.orm] \cup {Module}}
    <3> HIDE DEF new, q
    <3> QED BY <1>2, <2>2, ProfileNames
  <2> QED BY <1>2, <2>1, <2>3, <2>4
<1>3. CASE s.orm = "mikroorm"
  <2> DEFINE q == <<new("mikro-orm.config.ts"), new(Module)>>
  <2>1. ProfileFiles(s) = q BY <1>3 DEF ProfileFiles, Module
  <2>2. Items(q) = {new("mikro-orm.config.ts"), new(Module)}
    <3> HIDE DEF new
    <3> QED BY DEF Items
  <2>3. q \in Seq(Items(q))
    <3> HIDE DEF new
    <3> QED BY <2>2
  <2>4. Items(q) = {new(p) : p \in OwnFiles[s.orm] \cup {Module}}
    <3> HIDE DEF new, q
    <3> QED BY <1>3, <2>2, ProfileNames
  <2> QED BY <1>3, <2>1, <2>3, <2>4
<1>4. CASE s.orm = "drizzle"
  <2> DEFINE q == <<new("drizzle.config.ts"), new(Module), new("schema.ts")>>
  <2>1. ProfileFiles(s) = q BY <1>4 DEF ProfileFiles, Module
  <2>2. Items(q) = {new("drizzle.config.ts"), new(Module), new("schema.ts")}
    <3> HIDE DEF new
    <3> QED BY DEF Items
  <2>3. q \in Seq(Items(q))
    <3> HIDE DEF new
    <3> QED BY <2>2
  <2>4. Items(q) = {new(p) : p \in OwnFiles[s.orm] \cup {Module}}
    <3> HIDE DEF new, q
    <3> QED BY <1>4, <2>2, ProfileNames
  <2> QED BY <1>4, <2>1, <2>3, <2>4
<1> QED BY <1>1, <1>2, <1>3, <1>4, SelectionFields DEF OrmChoices

LEMMA RemovalsPart ==
  ASSUME NEW s \in Selections
  PROVE  /\ Removals(s) \in Seq(Items(Removals(s)))
         /\ s.orm = "typeorm" => Items(Removals(s)) = {}
         /\ s.orm # "typeorm" => Items(Removals(s)) = {Remove(p) : p \in OwnFiles["typeorm"]}
<1>1. CASE s.orm = "typeorm"
  BY <1>1 DEF Removals, Items
<1>2. CASE s.orm # "typeorm"
  <2>1. DOMAIN TypeOrmFiles = 1..8 BY DEF TypeOrmFiles
  <2>2. Removals(s) = [i \in 1..8 |-> Remove(TypeOrmFiles[i])]
    BY <1>2, <2>1 DEF Removals
  <2>3. Items(Removals(s)) = {Remove(TypeOrmFiles[i]) : i \in 1..8}
    BY <2>2 DEF Items
  <2>4. OwnFiles["typeorm"] = {TypeOrmFiles[i] : i \in 1..8} BY <2>1 DEF OwnFiles
  <2>5. Items(Removals(s)) = {Remove(p) : p \in OwnFiles["typeorm"]}
    BY <2>3, <2>4
  <2>6. Removals(s) \in Seq({Remove(TypeOrmFiles[i]) : i \in 1..8})
    BY <2>2
  <2> QED BY <1>2, <2>3, <2>5, <2>6
<1> QED BY <1>1, <1>2

LEMMA ComposeIsReplaced ==
  ASSUME TypeOK, ComposeIsReadable(files["docker-compose.yml"]), NEW d
  PROVE  MaterializeCompose(files["docker-compose.yml"], d) = Compose(d, DatabaseUrl(d, d))
<1> DEFINE c == files["docker-compose.yml"]
<1>1. c # Empty /\ \E x \in RdbChoices : DOMAIN c.services = {x} /\ x \in c.dependsOn \cap c.volumes
  BY DEF ComposeIsReadable
<1>2. PICK v \in RdbChoices : c \in ComposeFiles(v)
  BY <1>1, FilesOf
<1> HIDE DEF c
<1>3. c.volumes = {v} /\ c.dependsOn \in {{}, {v}} BY <1>2 DEF ComposeFiles
<1>4. DOMAIN c.services = {v} /\ c.dependsOn = {v} BY <1>1, <1>3
<1>5. (CHOOSE old \in DOMAIN c.services : TRUE) = v BY <1>4
<1>6. MaterializeCompose(c, d) = Compose(d, DatabaseUrl(d, d))
  <2>1. ({v} \ {v}) \cup {d} = {d} OBVIOUS
  <2> QED BY <1>3, <1>4, <1>5, <2>1 DEF MaterializeCompose, Compose
<1> QED BY <1>6 DEF c

LEMMA CollectedPart ==
  ASSUME TypeOK, HistoryInv, NEW s \in Selections, ~Throws(s)
  PROVE  /\ Collected(s) \in Seq(Items(Collected(s))) /\ Collected(s) # <<>>
         /\ \A t \in Items(Collected(s)) :
              /\ t = Write(t.path, t.content) /\ t.path \in CommonFiles \ {Module}
              /\ Fits(s, t.path, t.content)
         /\ \A p \in CommonFiles \ {Module} : \E t \in Items(Collected(s)) : t.path = p
<1> DEFINE d == s.database
           env == MaterializeEnv(files[".env.example"], d)
           compose == MaterializeCompose(files["docker-compose.yml"], d)
           manifest == ConfigurePackages(files["package.json"], s)
           test == MaterializeTestEnv(files["load-test-env.ts"], d)
           render == RenderTestCompose(d)
           q == <<Write(".env.example", env), Write("barebones.config.json", s),
                  Write("docker-compose.yml", compose), Write("docker-compose.test.yml", render),
                  Write("package.json", manifest), Write("load-test-env.ts", test),
                  Write("active-scaffold.ts", s)>>
           S == {Write(".env.example", env), Write("barebones.config.json", s),
                 Write("docker-compose.yml", compose), Write("docker-compose.test.yml", render),
                 Write("package.json", manifest), Write("load-test-env.ts", test),
                 Write("active-scaffold.ts", s)}
<1>1. Collected(s) = q BY Zenon DEF Collected
<1>2. compose = Whole(s)["docker-compose.yml"]
  BY ComposeIsReplaced, WholeOf DEF Throws
<1>3. manifest = Whole(s)["package.json"]
  <2>1. PICK t \in Selections : files["package.json"] = Packages(t)
    BY FilesOf DEF Throws
  <2> QED BY <2>1, PackagesAreReplaced, WholeOf
<1>4. Fits(s, ".env.example", env)
  <2>1. CASE files[".env.example"] = Empty \/ files[".env.example"].type = Empty
    <3>1. env = LinesLost(d) BY <2>1 DEF MaterializeEnv
    <3>2. spoilt BY <2>1 DEF HistoryInv, Readable
    <3> QED BY <3>1, <3>2 DEF Fits
  <2>2. CASE ~ (files[".env.example"] = Empty \/ files[".env.example"].type = Empty)
    <3>1. env = EnvExample(d, DatabaseUrl(d, "localhost")) BY <2>2 DEF MaterializeEnv
    <3> QED BY <3>1, WholeOf DEF Fits
  <2> QED BY <2>1, <2>2
<1>5. Fits(s, "load-test-env.ts", test)
  <2>1. CASE files["load-test-env.ts"] = Empty
    BY <2>1 DEF MaterializeTestEnv, HistoryInv, Readable, Fits
  <2>2. CASE files["load-test-env.ts"] # Empty
    BY <2>2, WholeOf DEF MaterializeTestEnv, Fits
  <2> QED BY <2>1, <2>2
<1>6. /\ render = Whole(s)["docker-compose.test.yml"]
      /\ s = Whole(s)["barebones.config.json"] /\ s = Whole(s)["active-scaffold.ts"]
  BY WholeOf
<1> HIDE DEF env, compose, manifest, test, render
<1>7. Items(q) = S BY DEF Items
<1>8. q \in Seq(S) /\ q # <<>> OBVIOUS
<1>9. \A p, x : Write(p, x).path = p /\ Write(p, x).content = x BY DEF Write
<1>10. ASSUME NEW t \in S
       PROVE  /\ t = Write(t.path, t.content) /\ t.path \in CommonFiles \ {Module}
              /\ Fits(s, t.path, t.content)
  <2>1. /\ Fits(s, "docker-compose.yml", compose) /\ Fits(s, "package.json", manifest)
        /\ Fits(s, "docker-compose.test.yml", render)
        /\ Fits(s, "barebones.config.json", s) /\ Fits(s, "active-scaffold.ts", s)
    BY <1>2, <1>3, <1>6 DEF Fits
  <2>2. \E p \in CommonFiles \ {Module} : \E x : t = Write(p, x) /\ Fits(s, p, x)
    BY <1>4, <1>5, <2>1, Zenon DEF CommonFiles, Module
  <2> QED BY <1>9, <2>2
<1>11. ASSUME NEW p \in CommonFiles \ {Module} PROVE \E t \in S : t.path = p
  BY <1>9 DEF CommonFiles, Module
<1> HIDE DEF q, S
<1> QED BY <1>1, <1>7, <1>8, <1>10, <1>11

\* The tasks of a run are legal, cover its targets, and remove only after the module
\* that made TypeORM's files superfluous was written.
LEMMA PlanIsWhole ==
  ASSUME TypeOK, HistoryInv, NEW s \in Selections, ~Throws(s)
  PROVE  /\ Plan(s) \in Seq(Items(Plan(s))) /\ Plan(s) # <<>>
         /\ \A i \in DOMAIN Plan(s) : IsTask(s, Plan(s)[i])
         /\ \A p \in Targets(s) :
              \E i \in DOMAIN Plan(s) : Plan(s)[i].do = "write" /\ Plan(s)[i].path = p
         /\ s.orm # "typeorm" =>
              \A p \in OwnFiles["typeorm"] :
                \E i \in DOMAIN Plan(s) : Plan(s)[i].do = "remove" /\ Plan(s)[i].path = p
         /\ \A i \in DOMAIN Plan(s) : Plan(s)[i].do = "remove" =>
              \E j \in DOMAIN Plan(s) :
                j < i /\ Plan(s)[j].do = "write" /\ Plan(s)[j].path = Module
<1> DEFINE a == ProfileFiles(s)
           b == Collected(s)
           c == Removals(s)
           w == a \o b
<1>1. Plan(s) = w \o c BY DEF Plan
<1>2. a \in Seq(Items(a)) /\ b \in Seq(Items(b)) /\ c \in Seq(Items(c)) /\ b # <<>>
  BY ProfilePart, CollectedPart, RemovalsPart
<1>3. /\ \A t \in Items(a) : /\ s.orm # "typeorm"
                             /\ \E p \in OwnFiles[s.orm] \cup {Module} : t = Write(p, Whole(s)[p])
      /\ s.orm # "typeorm" =>
           \A p \in OwnFiles[s.orm] \cup {Module} : Write(p, Whole(s)[p]) \in Items(a)
  <2>1. \A p \in OwnFiles[s.orm] \cup {Module} : Whole(s)[p] = SourceOf(s, p)
    BY WholeOf, SourcesOf
  <2> QED BY <2>1, ProfilePart
<1>4. /\ \A t \in Items(b) :
           /\ t = Write(t.path, t.content) /\ t.path \in CommonFiles \ {Module}
           /\ Fits(s, t.path, t.content)
      /\ \A p \in CommonFiles \ {Module} : \E t \in Items(b) : t.path = p
  BY CollectedPart
<1>5. /\ \A t \in Items(c) : s.orm # "typeorm" /\ \E p \in OwnFiles["typeorm"] : t = Remove(p)
      /\ s.orm # "typeorm" => \A p \in OwnFiles["typeorm"] : Remove(p) \in Items(c)
  BY RemovalsPart
<1>6. /\ \A p, x : Write(p, x).do = "write" /\ Write(p, x).path = p /\ Write(p, x).content = x
      /\ \A p : Remove(p).do = "remove" /\ Remove(p).path = p
  BY DEF Write, Remove
<1>7. Module \in CommonFiles BY DEF Module, CommonFiles
<1> HIDE DEF a, b, c
<1>8. /\ w \in Seq(Items(w)) /\ Items(w) = Items(a) \cup Items(b)
      /\ \A j \in DOMAIN a : j \in DOMAIN w /\ w[j] = a[j]
  BY <1>2, ConcatItems
<1>9. \A t \in Items(w) : t.do = "write" /\ t.path \in Targets(s) /\ Fits(s, t.path, t.content)
  <2>1. ASSUME NEW t \in Items(a)
        PROVE  t.do = "write" /\ t.path \in Targets(s) /\ Fits(s, t.path, t.content)
    <3>1. PICK p \in OwnFiles[s.orm] \cup {Module} : t = Write(p, Whole(s)[p])
      BY <1>3
    <3>2. s.orm # "typeorm" BY <1>3
    <3> QED BY <1>6, <1>7, <3>1, <3>2 DEF Targets, Fits
  <2>2. ASSUME NEW t \in Items(b)
        PROVE  t.do = "write" /\ t.path \in Targets(s) /\ Fits(s, t.path, t.content)
    BY <1>4, <1>6 DEF Targets
  <2> QED BY <1>8, <2>1, <2>2
<1> HIDE DEF w
<1> DEFINE q == w \o c
<1>10. /\ q \in Seq(Items(q)) /\ Items(q) = Items(w) \cup Items(c)
       /\ \A i \in DOMAIN q :
            \/ i \in DOMAIN w /\ q[i] = w[i]
            \/ (\A j \in DOMAIN w : j < i) /\ q[i] \in Items(c)
       /\ \A j \in DOMAIN w : j \in DOMAIN q /\ q[j] = w[j]
  BY <1>2, <1>8, ConcatItems
<1> HIDE DEF q
<1>11. q # <<>>
  <2>1. Items(b) # {} BY <1>4 DEF CommonFiles, Module
  <2>2. Items(q) # {} BY <1>8, <1>10, <2>1
  <2> QED BY <2>2 DEF Items
<1>12. ASSUME NEW i \in DOMAIN q PROVE IsTask(s, q[i])
  <2>1. q[i] \in Items(w) \cup Items(c) BY <1>10 DEF Items
  <2>2. CASE q[i] \in Items(w) BY <1>9, <2>2 DEF IsTask
  <2>3. CASE q[i] \in Items(c) BY <1>5, <1>6, <2>3 DEF IsTask
  <2> QED BY <2>1, <2>2, <2>3
<1>13. ASSUME NEW p \in Targets(s)
       PROVE  \E i \in DOMAIN q : q[i].do = "write" /\ q[i].path = p
  <2>1. \E t \in Items(w) : t.path = p
    <3>1. CASE p \in CommonFiles \ {Module}
      BY <1>4, <1>8, <3>1
    <3>2. CASE p \notin CommonFiles \ {Module}
      <4>1. s.orm # "typeorm" /\ p \in OwnFiles[s.orm] \cup {Module}
        BY <3>2 DEF Targets
      <4>2. Write(p, Whole(s)[p]) \in Items(w) BY <1>3, <1>8, <4>1
      <4> QED BY <1>6, <4>2
    <3> QED BY <3>1, <3>2
  <2>2. PICK t \in Items(w) : t.path = p BY <2>1
  <2>3. PICK j \in DOMAIN w : t = w[j] BY DEF Items
  <2> QED BY <1>9, <1>10, <2>2, <2>3
<1>14. ASSUME s.orm # "typeorm", NEW p \in OwnFiles["typeorm"]
       PROVE  \E i \in DOMAIN q : q[i].do = "remove" /\ q[i].path = p
  <2>1. Remove(p) \in Items(q) BY <1>5, <1>10, <1>14
  <2>2. PICK i \in DOMAIN q : q[i] = Remove(p) BY <2>1 DEF Items
  <2> QED BY <1>6, <2>2
<1>15. ASSUME NEW i \in DOMAIN q, q[i].do = "remove"
       PROVE  \E j \in DOMAIN q : j < i /\ q[j].do = "write" /\ q[j].path = Module
  <2>1. i \notin DOMAIN w \/ q[i] # w[i]
    <3> SUFFICES ASSUME i \in DOMAIN w, q[i] = w[i] PROVE FALSE OBVIOUS
    <3>1. w[i].do = "write" BY <1>9 DEF Items
    <3> QED BY <1>15, <3>1
  <2>2. (\A j \in DOMAIN w : j < i) /\ q[i] \in Items(c) BY <1>10, <2>1
  <2>3. s.orm # "typeorm" BY <1>5, <2>2
  <2>4. Write(Module, Whole(s)[Module]) \in Items(w) BY <1>3, <1>8, <2>3
  <2>5. PICK j \in DOMAIN w : w[j] = Write(Module, Whole(s)[Module])
    BY <2>4 DEF Items
  <2> QED BY <1>6, <1>10, <2>2, <2>5
<1>16. Plan(s) = q BY <1>1 DEF q
<1> QED BY <1>10, <1>11, <1>12, <1>13, <1>14, <1>15, <1>16

-----------------------------------------------------------------------------
(* The invariant is inductive                                              *)

LEMMA NamesDiffer ==
  /\ Module \in CommonFiles
  /\ \A orm \in OrmChoices : OwnFiles[orm] \cap CommonFiles = {}
  /\ \A orm, other \in OrmChoices : orm # other => OwnFiles[orm] \cap OwnFiles[other] = {}
BY TypeOrmNames, ProfileNames DEF CommonFiles, OrmChoices, Module

LEMMA ModulesTellOrms ==
  ASSUME NEW s \in Selections
  PROVE  RdbModule(s) = TypeOrmFile <=> s.orm = "typeorm"
<1>1. RdbModule(s).orm = s.orm
  BY SelectionFields DEF RdbModule, Source, TypeOrmFile, OrmChoices
<1>2. TypeOrmFile.orm = "typeorm" BY DEF TypeOrmFile, Source
<1>3. s.orm = "typeorm" => RdbModule(s) = TypeOrmFile BY DEF RdbModule
<1> QED BY <1>1, <1>2, <1>3

LEMMA ComposesAreReadable ==
  ASSUME NEW d \in RdbChoices, NEW url, Compose(d, url) # Empty
  PROVE  ComposeIsReadable(Compose(d, url))
BY DEF ComposeIsReadable, Compose, Service

\* The part of TypeOK about files.
FilesTyped ==
  /\ DOMAIN Committed[baseline] \ DOMAIN files \subseteq OwnFiles["typeorm"]
  /\ DOMAIN files \subseteq KnownFiles
  /\ \A p \in DOMAIN files : files[p] \in Contents[p] \cup {Empty}

\* What is committed the generator can edit.
LEMMA CommittedIsReadable ==
  ASSUME NEW s \in {Initial} \cup Derived
  PROVE  /\ Committed[s]["package.json"] = Packages(s) /\ Packages(s) # Empty
         /\ ComposeIsReadable(Committed[s]["docker-compose.yml"])
         /\ Committed[s][".env.example"] # Empty /\ Committed[s][".env.example"].type # Empty
         /\ Committed[s]["load-test-env.ts"] # Empty
         /\ Committed[s][Module] = RdbModule(s)
         /\ \A p \in OwnFiles[s.orm] : Committed[s][p] = SourceOf(s, p)
<1>1. s \in Selections /\ Committed[s] \in {Whole(s), Checkout(s, Empty, Empty)}
  BY CommittedContents
<1>2. s.database \in RdbChoices BY <1>1, SelectionFields DEF RdbChoices
<1>3. \E url \in {Empty, DatabaseUrl(s.database, s.database)} :
        Committed[s]["docker-compose.yml"] = Compose(s.database, url)
  BY <1>1, WholeOf, CheckoutOf
<1>4. ComposeIsReadable(Committed[s]["docker-compose.yml"])
  BY <1>1, <1>2, <1>3, ComposesAreContents, NotEmpty, ComposesAreReadable
<1>5. \E url \in {Empty, DatabaseUrl(s.database, "localhost")} :
        Committed[s][".env.example"] = EnvExample(s.database, url)
  BY <1>1, WholeOf, CheckoutOf
<1>6. \A url : EnvExample(s.database, url).type = s.database BY DEF EnvExample
<1>7. Committed[s][".env.example"] # Empty /\ Committed[s][".env.example"].type # Empty
  BY <1>1, <1>5, <1>6, NotEmpty
<1>8. /\ Committed[s]["package.json"] = Packages(s) /\ Packages(s) # Empty
      /\ Committed[s]["load-test-env.ts"] # Empty
      /\ Committed[s][Module] = RdbModule(s)
      /\ \A p \in OwnFiles[s.orm] : Committed[s][p] = SourceOf(s, p)
  BY <1>1, WholeOf, CheckoutOf, NotEmpty
<1> QED BY <1>4, <1>7, <1>8

LEMMA ListedPackages ==
  ASSUME NEW s \in Selections
  PROVE  Listed(Packages(s)) \subseteq OfAnyProfile("dependencies") \cup OfAnyProfile("devDependencies")
BY DEF Listed, OfAnyProfile

LEMMA InitInv == Init => IInv
<1> SUFFICES ASSUME Init PROVE IInv OBVIOUS
<1> DEFINE b == baseline
<1>1. b \in {Initial} \cup Derived /\ files = Committed[b] BY DEF Init
<1>2. /\ b \in Selections /\ b.orm \in OrmChoices
      /\ DOMAIN files = CommonFiles \cup OwnFiles[b.orm]
      /\ \A p \in DOMAIN files : files[p] \in Contents[p]
  BY <1>1, CommittedContents, SelectionFields
<1>3. /\ files["package.json"] = Packages(b) /\ Readable
      /\ files[Module] = RdbModule(b)
      /\ \A p \in OwnFiles[b.orm] : files[p] = SourceOf(b, p)
  BY <1>1, CommittedIsReadable DEF Readable
<1>4. files = [p \in DOMAIN files |-> files[p]]
  <2>1. Committed[b] \in {Whole(b), Checkout(b, Empty, Empty)} BY <1>1, CommittedContents
  <2> QED BY <1>1, <2>1 DEF Whole, Checkout
<1>5. FilesTyped
  <2>1. CommonFiles \cup OwnFiles[b.orm] \subseteq KnownFiles BY <1>2 DEF KnownFiles
  <2> QED BY <1>1, <1>2, <2>1 DEF FilesTyped
<1>6. TypeOK
  <2>1. installed \subseteq OfAnyProfile("dependencies") \cup OfAnyProfile("devDependencies")
    BY <1>2, <1>3, ListedPackages DEF Init
  <2>2. runs \in 0..MaxRuns /\ edits \in 0..MaxEdits
    BY ScaffoldAssumption DEF Init
  <2> QED BY <1>1, <1>2, <1>5, <2>1, <2>2 DEF Init, TypeOK, FilesTyped
<1>7. TypeOrmInv
  <2>1. \A p \in OwnFiles["typeorm"] \cap DOMAIN files : b.orm = "typeorm"
    BY <1>2, NamesDiffer DEF OrmChoices
  <2>2. \A p \in OwnFiles["typeorm"] \cap DOMAIN files : files[p] = TypeOrmFile
    BY <1>2, <1>3, <2>1, SourcesOf
  <2>3. files[Module] = TypeOrmFile => OwnFiles["typeorm"] \subseteq DOMAIN files
    BY <1>2, <1>3, ModulesTellOrms
  <2> QED BY <1>4, <2>2, <2>3 DEF TypeOrmInv
<1>8. RunInv
  <2>1. tasks = <<>> /\ DOMAIN tasks = {} /\ step = "idle" BY DEF Init
  <2>2. tasks \in Seq(Items(tasks)) BY <2>1
  <2> QED BY <2>1, <2>2 DEF RunInv
<1>9. InstallInv
  BY DEF Init, InstallInv
<1>10. HistoryInv
  <2>1. \A orm \in OrmChoices \ {"typeorm"} : OwnFiles[orm] \cap DOMAIN files # {} => orm = b.orm
    BY <1>2, NamesDiffer
  <2>2. applied = {b} /\ ~spoilt BY DEF Init
  <2>3. b.orm = "typeorm" => files[Module] = TypeOrmFile BY <1>2, <1>3, ModulesTellOrms
  <2> QED BY <1>3, <2>1, <2>2, <2>3 DEF HistoryInv, Readable
<1> QED BY <1>6, <1>7, <1>8, <1>9, <1>10 DEF IInv

LEMMA HeadTask ==
  ASSUME IInv, step = "write"
  PROVE  /\ tasks # <<>> /\ tasks \in Seq(Items(tasks)) /\ Head(tasks) = tasks[1]
         /\ IsTask(selection, Head(tasks))
         /\ selection \in Selections /\ selection \in applied
<1>1. tasks # <<>> /\ tasks \in Seq(Items(tasks)) BY DEF IInv, TypeOK, RunInv
<1>2. Head(tasks) = tasks[1] /\ 1 \in DOMAIN tasks BY <1>1, TailItems
<1> QED BY <1>1, <1>2 DEF IInv, RunInv

LEMMA TargetsAreFiles ==
  ASSUME NEW s \in Selections, NEW p \in Targets(s)
  PROVE  /\ p \in CommonFiles \cup OwnFiles[s.orm] /\ p \in KnownFiles
         /\ p \notin OwnFiles["typeorm"]
         /\ \A orm \in OrmChoices : p \in OwnFiles[orm] => orm = s.orm
         /\ p = Module => s.orm # "typeorm"
         /\ \A x : Fits(s, p, x) => x \in Contents[p] \cup {Empty}
<1>1. s.orm \in OrmChoices /\ s.database \in RdbChoices
  BY SelectionFields DEF RdbChoices
<1>2. p \in CommonFiles \cup OwnFiles[s.orm] BY DEF Targets
<1>3. p \in KnownFiles BY <1>1, <1>2 DEF KnownFiles
<1>4. \A orm \in OrmChoices : p \in OwnFiles[orm] => orm = s.orm
  BY <1>1, <1>2, NamesDiffer
<1>5. p \notin OwnFiles["typeorm"]
  BY <1>1, <1>4, NamesDiffer DEF Targets, OrmChoices
<1>6. ASSUME NEW x, Fits(s, p, x) PROVE x \in Contents[p] \cup {Empty}
  <2>1. Whole(s)[p] \in Contents[p] BY <1>2, CheckoutsAreContents DEF Whole
  <2>2. LinesLost(s.database) \in Contents[".env.example"] BY <1>1, ContentsOf
  <2> QED BY <1>6, <2>1, <2>2 DEF Fits
<1> QED BY <1>2, <1>3, <1>4, <1>5, <1>6 DEF Targets

LEMMA OneFileOver ==
  ASSUME NEW path, NEW x, files' = Holding(path, x)
  PROVE  /\ DOMAIN files' = DOMAIN files \cup {path}
         /\ files'[path] = x
         /\ \A p \in DOMAIN files : p # path => files'[p] = files[p]
BY DEF Over, Holding

\* A write that is complete, or one that was cut off after it had truncated the file.
LEMMA WriteKeepsFiles ==
  ASSUME IInv, step = "write", Head(tasks).do = "write",
         NEW x \in {Head(tasks).content, Empty}, files' = Holding(Head(tasks).path, x),
         UNCHANGED <<baseline, applied>>
  PROVE  /\ FilesTyped' /\ TypeOrmInv'
         /\ \A orm \in OrmChoices \ {"typeorm"} :
              OwnFiles[orm] \cap DOMAIN files' # {} => \E s \in applied' : s.orm = orm
         /\ (\A s \in applied' : s.orm = "typeorm") => files'[Module] = TypeOrmFile
<1> DEFINE path == Head(tasks).path
<1>1. /\ path \in Targets(selection) /\ Fits(selection, path, Head(tasks).content)
      /\ selection \in Selections /\ selection \in applied
  BY HeadTask DEF IsTask
<1>2. /\ DOMAIN files' = DOMAIN files \cup {path} /\ files'[path] = x
      /\ \A p \in DOMAIN files : p # path => files'[p] = files[p]
  BY OneFileOver
<1> HIDE DEF path
<1>3. /\ path \in KnownFiles /\ path \notin OwnFiles["typeorm"] /\ x \in Contents[path] \cup {Empty}
      /\ \A orm \in OrmChoices : path \in OwnFiles[orm] => orm = selection.orm
      /\ path = Module => selection.orm # "typeorm"
  BY <1>1, TargetsAreFiles
<1>4. TypeOK /\ TypeOrmInv /\ HistoryInv BY DEF IInv
<1>5. Module \in DOMAIN files BY <1>4, FilesOf, NamesDiffer
<1>6. FilesTyped'
  BY <1>2, <1>3, <1>4 DEF FilesTyped, TypeOK
<1>7. path = Module => files'[Module] # TypeOrmFile
  <2> SUFFICES ASSUME path = Module PROVE x # TypeOrmFile BY <1>2
  <2>1. Head(tasks).content = RdbModule(selection)
    BY <1>1, WholeOf DEF Fits, Module
  <2> QED BY <1>1, <1>3, <2>1, ModulesTellOrms, NotEmpty
<1>8. TypeOrmInv'
  <2>1. \A p \in OwnFiles["typeorm"] \cap DOMAIN files' : files'[p] = TypeOrmFile
    BY <1>2, <1>3, <1>4 DEF TypeOrmInv
  <2>2. files'[Module] = TypeOrmFile => OwnFiles["typeorm"] \subseteq DOMAIN files'
    BY <1>2, <1>4, <1>5, <1>7 DEF TypeOrmInv
  <2>3. files' = [p \in DOMAIN files' |-> files'[p]] BY DEF Holding, Over
  <2> QED BY <2>1, <2>2, <2>3 DEF TypeOrmInv
<1>9. ASSUME NEW orm \in OrmChoices \ {"typeorm"}, OwnFiles[orm] \cap DOMAIN files' # {}
      PROVE  \E s \in applied' : s.orm = orm
  <2>1. CASE OwnFiles[orm] \cap DOMAIN files # {} BY <1>4, <2>1 DEF HistoryInv
  <2>2. CASE path \in OwnFiles[orm] BY <1>1, <1>3, <2>2
  <2> QED BY <1>2, <1>9, <2>1, <2>2
<1>10. (\A s \in applied' : s.orm = "typeorm") => files'[Module] = TypeOrmFile
  BY <1>1, <1>2, <1>3, <1>4, <1>5 DEF HistoryInv
<1> QED BY <1>6, <1>8, <1>9, <1>10

LEMMA WriteInv ==
  ASSUME IInv, PerformTask, Head(tasks).do = "write"
  PROVE  IInv'
<1> DEFINE path == Head(tasks).path
           x == Head(tasks).content
<1>1. /\ step = "write" /\ files' = Holding(path, x)
      /\ tasks' = Tail(tasks) /\ step' = (IF Tail(tasks) = <<>> THEN "install" ELSE step)
      /\ UNCHANGED <<result, baseline, installed, client, selection, runs, edits, applied, spoilt>>
  BY HeadTask DEF PerformTask, Written, Removed, Proceed, history, IsTask
<1>2. /\ path \in Targets(selection) /\ Fits(selection, path, x)
      /\ selection \in Selections /\ selection \in applied
      /\ Head(tasks) = tasks[1] /\ tasks # <<>> /\ tasks \in Seq(Items(tasks))
  BY <1>1, HeadTask DEF IsTask
<1>3. /\ DOMAIN files' = DOMAIN files \cup {path} /\ files'[path] = x
      /\ \A p \in DOMAIN files : p # path => files'[p] = files[p]
  BY <1>1, OneFileOver
<1>4. /\ FilesTyped' /\ TypeOrmInv'
      /\ \A orm \in OrmChoices \ {"typeorm"} :
           OwnFiles[orm] \cap DOMAIN files' # {} => \E s \in applied' : s.orm = orm
      /\ (\A s \in applied' : s.orm = "typeorm") => files'[Module] = TypeOrmFile
  BY <1>1, WriteKeepsFiles
<1>5. /\ path \notin OwnFiles["typeorm"]
      /\ path = Module => selection.orm # "typeorm"
  BY <1>2, TargetsAreFiles
<1>6. tasks[1].do = "write" /\ tasks[1].path = path BY <1>2
<1> HIDE DEF path, x
<1>7. /\ Tail(tasks) \in Seq(Items(Tail(tasks)))
      /\ \A i \in DOMAIN Tail(tasks) : i + 1 \in DOMAIN tasks /\ Tail(tasks)[i] = tasks[i + 1]
      /\ \A i \in DOMAIN tasks :
           i # 1 => i - 1 \in DOMAIN Tail(tasks) /\ Tail(tasks)[i - 1] = tasks[i]
      /\ DOMAIN tasks \subseteq Nat \ {0} /\ DOMAIN Tail(tasks) \subseteq Nat \ {0}
  BY <1>2, TailItems
<1>8. TypeOK /\ TypeOrmInv /\ RunInv /\ HistoryInv BY DEF IInv
<1>9. Module \in DOMAIN files BY <1>8, FilesOf, NamesDiffer
<1>10. TypeOK'
  BY <1>1, <1>4, <1>8 DEF TypeOK, FilesTyped
<1>11. RunInv'
  <2>1. tasks' \in Seq(Items(tasks'))  BY <1>1, <1>7
  <2>2. \A i \in DOMAIN tasks' : IsTask(selection, tasks[i])'
    BY <1>1, <1>7, <1>8 DEF RunInv, IsTask, Fits
  <2>3. ASSUME NEW i \in DOMAIN tasks', tasks'[i].do = "remove", files'[Module] = TypeOrmFile
        PROVE  \E j \in DOMAIN tasks' : j < i /\ tasks'[j].do = "write" /\ tasks'[j].path = Module
    <3>1. path # Module
      <4> SUFFICES ASSUME path = Module PROVE FALSE OBVIOUS
      <4>1. x = RdbModule(selection)
        BY <1>2, WholeOf DEF Fits, Module
      <4> QED BY <1>2, <1>3, <1>5, <2>3, <4>1, ModulesTellOrms
    <3>2. files[Module] = TypeOrmFile BY <1>3, <1>9, <2>3, <3>1
    <3>3. i + 1 \in DOMAIN tasks /\ tasks[i + 1].do = "remove" BY <1>1, <1>7, <2>3
    <3>4. PICK j \in DOMAIN tasks : j < i + 1 /\ tasks[j].do = "write" /\ tasks[j].path = Module
      BY <1>8, <3>2, <3>3 DEF RunInv
    <3>5. j # 1 BY <1>6, <3>1, <3>4
    <3>6. j - 1 \in DOMAIN tasks' /\ tasks'[j - 1] = tasks[j] BY <1>1, <1>7, <3>5
    <3>7. j - 1 < i BY <1>1, <1>7, <2>3, <3>4
    <3> QED BY <3>4, <3>6, <3>7
  <2>4. ASSUME NEW p \in Targets(selection)
        PROVE  \/ p \in DOMAIN files' /\ Fits(selection, p, files[p])'
               \/ ToWrite(p)'
    <3>1. CASE p = path BY <1>1, <1>2, <1>3, <3>1 DEF Fits
    <3>2. CASE p # path /\ p \in DOMAIN files /\ Fits(selection, p, files[p])
      BY <1>1, <1>3, <3>2 DEF Fits
    <3>3. CASE p # path /\ ToWrite(p)
      <4>1. PICK i \in DOMAIN tasks : tasks[i].do = "write" /\ tasks[i].path = p
        BY <3>3 DEF ToWrite
      <4>2. i # 1 BY <1>6, <3>3, <4>1
      <4>3. i - 1 \in DOMAIN tasks' /\ tasks'[i - 1] = tasks[i] BY <1>1, <1>7, <4>2
      <4> QED BY <4>1, <4>3 DEF ToWrite
    <3> QED BY <1>1, <1>8, <3>1, <3>2, <3>3 DEF RunInv
  <2>5. ASSUME selection.orm # "typeorm", NEW p \in OwnFiles["typeorm"]
        PROVE  p \notin DOMAIN files' \/ ToRemove(p)'
    <3>1. CASE p \notin DOMAIN files BY <1>3, <1>5, <3>1
    <3>2. CASE ToRemove(p)
      <4>1. PICK i \in DOMAIN tasks : tasks[i].do = "remove" /\ tasks[i].path = p
        BY <3>2 DEF ToRemove
      <4>2. i # 1 BY <1>6, <4>1
      <4>3. i - 1 \in DOMAIN tasks' /\ tasks'[i - 1] = tasks[i] BY <1>1, <1>7, <4>2
      <4> QED BY <4>1, <4>3 DEF ToRemove
    <3> QED BY <1>1, <1>8, <2>5, <3>1, <3>2 DEF RunInv
  <2> QED BY <1>1, <1>2, <2>1, <2>2, <2>3, <2>4, <2>5 DEF RunInv
<1>12. InstallInv' BY <1>1 DEF InstallInv
<1>13. HistoryInv'
  <2>1. ASSUME ~spoilt PROVE Readable'
    <3>1. Readable BY <1>8, <2>1 DEF HistoryInv, Readable
    <3>2. x = Whole(selection)[path] BY <1>2, <2>1 DEF Fits
    <3>3. selection.database \in RdbChoices BY <1>2, SelectionFields DEF RdbChoices
    <3>4. CommonFiles \subseteq DOMAIN files BY <1>8, FilesOf
    <3>5. files'["package.json"] # Empty
      BY <1>2, <1>3, <3>1, <3>2, <3>4, WholeOf, NotEmpty DEF Readable, CommonFiles
    <3>6. files'["load-test-env.ts"] # Empty
      BY <1>2, <1>3, <3>1, <3>2, <3>4, WholeOf, NotEmpty DEF Readable, CommonFiles
    <3>7. files'[".env.example"] # Empty /\ files'[".env.example"].type # Empty
      <4>1. \A url : EnvExample(selection.database, url).type = selection.database
        BY DEF EnvExample
      <4> QED BY <1>2, <1>3, <3>1, <3>2, <3>4, <4>1, WholeOf, NotEmpty DEF Readable, CommonFiles
    <3>8. ComposeIsReadable(files["docker-compose.yml"])'
      <4>1. CASE path = "docker-compose.yml"
        <5> DEFINE d == selection.database
        <5>1. x = Compose(d, DatabaseUrl(d, d)) BY <1>2, <3>2, <4>1, WholeOf
        <5>2. x # Empty BY <1>2, <3>3, <5>1, ComposesAreContents, NotEmpty
        <5> QED BY <1>3, <3>3, <4>1, <5>1, <5>2, ComposesAreReadable
      <4>2. CASE path # "docker-compose.yml"
        <5>1. files'["docker-compose.yml"] = files["docker-compose.yml"]
          BY <1>3, <3>4, <4>2 DEF CommonFiles
        <5> QED BY <3>1, <5>1 DEF Readable
      <4> QED BY <4>1, <4>2
    <3> QED BY <3>5, <3>6, <3>7, <3>8 DEF Readable
  <2> QED BY <1>1, <1>4, <1>8, <2>1 DEF HistoryInv, Readable
<1> QED BY <1>4, <1>10, <1>11, <1>12, <1>13 DEF IInv

LEMMA RemoveInv ==
  ASSUME IInv, PerformTask, Head(tasks).do = "remove"
  PROVE  IInv'
<1> DEFINE path == Head(tasks).path
<1>1. /\ step = "write" /\ files' = [p \in DOMAIN files \ {path} |-> files[p]]
      /\ tasks' = Tail(tasks) /\ step' = (IF Tail(tasks) = <<>> THEN "install" ELSE step)
      /\ UNCHANGED <<result, baseline, installed, client, selection, runs, edits, applied, spoilt>>
  BY HeadTask DEF PerformTask, Written, Removed, Proceed, history, IsTask
<1>2. /\ path \in OwnFiles["typeorm"] /\ selection.orm # "typeorm"
      /\ selection \in Selections /\ selection \in applied
      /\ tasks[1].do = "remove" /\ tasks[1].path = path
      /\ tasks # <<>> /\ tasks \in Seq(Items(tasks))
  BY <1>1, HeadTask DEF IsTask
<1> HIDE DEF path
<1>3. /\ Tail(tasks) \in Seq(Items(Tail(tasks))) /\ 1 \in DOMAIN tasks
      /\ \A i \in DOMAIN Tail(tasks) : i + 1 \in DOMAIN tasks /\ Tail(tasks)[i] = tasks[i + 1]
      /\ \A i \in DOMAIN tasks :
           i # 1 => i - 1 \in DOMAIN Tail(tasks) /\ Tail(tasks)[i - 1] = tasks[i]
      /\ DOMAIN tasks \subseteq Nat \ {0} /\ DOMAIN Tail(tasks) \subseteq Nat \ {0}
  BY <1>2, TailItems
<1>4. TypeOK /\ TypeOrmInv /\ RunInv /\ HistoryInv BY DEF IInv
<1>5. /\ CommonFiles \subseteq DOMAIN files /\ path \notin CommonFiles /\ Module \in CommonFiles
      /\ \A p \in CommonFiles : files'[p] = files[p]
  BY <1>1, <1>2, <1>4, FilesOf, NamesDiffer DEF OrmChoices
<1>6. files[Module] # TypeOrmFile
  <2> SUFFICES ASSUME files[Module] = TypeOrmFile PROVE FALSE OBVIOUS
  <2>1. PICK j \in DOMAIN tasks : j < 1 BY <1>2, <1>3, <1>4 DEF RunInv
  <2> QED BY <1>3, <2>1
<1>7. /\ DOMAIN files' = DOMAIN files \ {path}
      /\ \A p \in DOMAIN files' : files'[p] = files[p]
      /\ files' = [p \in DOMAIN files' |-> files'[p]]
  BY <1>1
<1>8. TypeOK'
  BY <1>1, <1>2, <1>4, <1>7 DEF TypeOK
<1>9. TypeOrmInv'
  BY <1>4, <1>5, <1>6, <1>7 DEF TypeOrmInv
<1>10. RunInv'
  <2>1. tasks' \in Seq(Items(tasks'))  BY <1>1, <1>3
  <2>2. \A i \in DOMAIN tasks' : IsTask(selection, tasks[i])'
    BY <1>1, <1>3, <1>4 DEF RunInv, IsTask, Fits
  <2>3. files'[Module] # TypeOrmFile BY <1>5, <1>6
  <2>4. ASSUME NEW p \in Targets(selection)
        PROVE  \/ p \in DOMAIN files' /\ Fits(selection, p, files[p])'
               \/ ToWrite(p)'
    <3>1. CASE p \in DOMAIN files /\ Fits(selection, p, files[p])
      <4>1. p # path BY <1>2, TargetsAreFiles
      <4> QED BY <1>1, <1>7, <3>1, <4>1 DEF Fits
    <3>2. CASE ToWrite(p)
      <4>1. PICK i \in DOMAIN tasks : tasks[i].do = "write" /\ tasks[i].path = p
        BY <3>2 DEF ToWrite
      <4>2. i # 1 BY <1>2, <4>1
      <4>3. i - 1 \in DOMAIN tasks' /\ tasks'[i - 1] = tasks[i] BY <1>1, <1>3, <4>2
      <4> QED BY <4>1, <4>3 DEF ToWrite
    <3> QED BY <1>1, <1>4, <3>1, <3>2 DEF RunInv
  <2>5. ASSUME NEW p \in OwnFiles["typeorm"]
        PROVE  p \notin DOMAIN files' \/ ToRemove(p)'
    <3>1. CASE p \notin DOMAIN files \/ p = path BY <1>7, <3>1
    <3>2. CASE p # path /\ ToRemove(p)
      <4>1. PICK i \in DOMAIN tasks : tasks[i].do = "remove" /\ tasks[i].path = p
        BY <3>2 DEF ToRemove
      <4>2. i # 1 BY <1>2, <3>2, <4>1
      <4>3. i - 1 \in DOMAIN tasks' /\ tasks'[i - 1] = tasks[i] BY <1>1, <1>3, <4>2
      <4> QED BY <4>1, <4>3 DEF ToRemove
    <3> QED BY <1>1, <1>2, <1>4, <3>1, <3>2 DEF RunInv
  <2> QED BY <1>1, <1>2, <2>1, <2>2, <2>3, <2>4, <2>5 DEF RunInv
<1>11. InstallInv' BY <1>1 DEF InstallInv
<1>12. HistoryInv'
  <2>1. ~spoilt => Readable'
    <3>1. ~spoilt => Readable BY <1>4 DEF HistoryInv, Readable
    <3>2. /\ files'["package.json"] = files["package.json"]
          /\ files'["docker-compose.yml"] = files["docker-compose.yml"]
          /\ files'[".env.example"] = files[".env.example"]
          /\ files'["load-test-env.ts"] = files["load-test-env.ts"]
      BY <1>5 DEF CommonFiles
    <3> QED BY <3>1, <3>2 DEF Readable
  <2>2. \A orm \in OrmChoices \ {"typeorm"} :
          OwnFiles[orm] \cap DOMAIN files' # {} => \E s \in applied : s.orm = orm
    BY <1>4, <1>7 DEF HistoryInv
  <2> QED BY <1>1, <1>2, <1>4, <2>1, <2>2 DEF HistoryInv, Readable
<1> QED BY <1>8, <1>9, <1>10, <1>11, <1>12 DEF IInv

\* Where no run is under way nothing is claimed of one.
LEMMA NoRunInv ==
  ASSUME tasks' = <<>>, step' = "idle"
  PROVE  RunInv' /\ InstallInv'
<1>1. tasks' \in Seq(Items(tasks')) /\ DOMAIN tasks' = {} OBVIOUS
<1> QED BY <1>1 DEF RunInv, InstallInv

\* What does not touch the files keeps what is known of them.
LEMMA SameFilesInv ==
  ASSUME TypeOrmInv, HistoryInv, UNCHANGED <<baseline, files, spoilt, applied>>
  PROVE  TypeOrmInv' /\ HistoryInv'
BY DEF TypeOrmInv, HistoryInv, Readable

LEMMA SelectInv ==
  ASSUME IInv, NEW s \in Arguments, NEW apply, Select(s, apply)
  PROVE  IInv'
<1>1. /\ step = "idle" /\ runs < MaxRuns
      /\ UNCHANGED <<baseline, files, installed, client, edits, spoilt>>
  BY DEF Select, history
<1>2. TypeOK /\ TypeOrmInv /\ HistoryInv BY DEF IInv
<1>3. tasks = <<>> BY <1>1, <1>2 DEF TypeOK
<1>4. CASE End("threw") /\ selection' = s /\ UNCHANGED history
  <2>1. TypeOK' BY <1>1, <1>2, <1>4 DEF TypeOK, End, history
  <2>2. RunInv' /\ InstallInv' BY <1>4, NoRunInv DEF End
  <2>3. TypeOrmInv' /\ HistoryInv' BY <1>1, <1>2, <1>4, SameFilesInv DEF history
  <2> QED BY <2>1, <2>2, <2>3 DEF IInv
<1>5. CASE End("dry") /\ UNCHANGED <<selection, history>>
  <2>1. TypeOK' BY <1>1, <1>2, <1>5 DEF TypeOK, End, history
  <2>2. RunInv' /\ InstallInv' BY <1>5, NoRunInv DEF End
  <2>3. TypeOrmInv' /\ HistoryInv' BY <1>1, <1>2, <1>5, SameFilesInv DEF history
  <2> QED BY <2>1, <2>2, <2>3 DEF IInv
<1>6. CASE /\ ~Throws(s)
           /\ selection' = s /\ step' = "write" /\ tasks' = Plan(s) /\ result' = "none"
           /\ runs' = runs + 1 /\ applied' = applied \cup {s}
  <2>1. s \in Selections BY <1>6 DEF Throws
  <2> DEFINE q == Plan(s)
  <2>2. /\ q \in Seq(Items(q)) /\ q # <<>>
        /\ \A i \in DOMAIN q : IsTask(s, q[i])
        /\ \A p \in Targets(s) : \E i \in DOMAIN q : q[i].do = "write" /\ q[i].path = p
        /\ s.orm # "typeorm" =>
             \A p \in OwnFiles["typeorm"] :
               \E i \in DOMAIN q : q[i].do = "remove" /\ q[i].path = p
        /\ \A i \in DOMAIN q : q[i].do = "remove" =>
             \E j \in DOMAIN q : j < i /\ q[j].do = "write" /\ q[j].path = Module
    BY <1>2, <1>6, <2>1, PlanIsWhole
  <2>3. tasks' = q BY <1>6
  <2> HIDE DEF q
  <2>4. TypeOK'
    <3>1. runs' \in 0..MaxRuns BY <1>1, <1>2, <1>6, ScaffoldAssumption DEF TypeOK
    <3> QED BY <1>1, <1>2, <1>6, <2>1, <2>2, <2>3, <3>1 DEF TypeOK
  <2>5. RunInv'
    <3>1. \A i \in DOMAIN tasks' : IsTask(selection, tasks[i])'
      BY <1>1, <1>6, <2>2, <2>3 DEF IsTask, Fits
    <3>2. \A p \in Targets(s) : ToWrite(p)' BY <2>2, <2>3 DEF ToWrite
    <3>3. s.orm # "typeorm" => \A p \in OwnFiles["typeorm"] : ToRemove(p)'
      BY <2>2, <2>3 DEF ToRemove
    <3> QED BY <1>6, <2>1, <2>2, <2>3, <3>1, <3>2, <3>3 DEF RunInv
  <2>6. InstallInv' BY <1>6 DEF InstallInv
  <2>7. TypeOrmInv' BY <1>1, <1>2 DEF TypeOrmInv
  <2>8. HistoryInv' BY <1>1, <1>2, <1>6 DEF HistoryInv, Readable
  <2> QED BY <2>4, <2>5, <2>6, <2>7, <2>8 DEF IInv
<1> QED BY <1>4, <1>5, <1>6 DEF Select

\* Once everything is written, the targets of the run hold what they are to hold.
LEMMA AllWritten ==
  ASSUME IInv, step \in {"install", "generate", "verify"}
  PROVE  /\ selection \in Selections /\ selection \in applied /\ tasks = <<>>
         /\ \A p \in Targets(selection) : p \in DOMAIN files /\ Fits(selection, p, files[p])
         /\ selection.orm # "typeorm" => OwnFiles["typeorm"] \cap DOMAIN files = {}
         /\ files["package.json"] = Packages(selection)
         /\ selection.orm = "prisma" =>
              files["schema.prisma"].dialect = Dialect[selection.database]
<1>1. TypeOK /\ RunInv BY DEF IInv
<1>2. tasks = <<>> /\ step # "idle" BY <1>1 DEF TypeOK
<1>3. \A p : ~ToWrite(p) /\ ~ToRemove(p)
  <2>1. DOMAIN tasks = {} BY <1>2
  <2> QED BY <2>1 DEF ToWrite, ToRemove
<1>4. selection \in Selections /\ selection \in applied BY <1>1, <1>2 DEF RunInv
<1>5. \A p \in Targets(selection) : p \in DOMAIN files /\ Fits(selection, p, files[p])
  BY <1>1, <1>2, <1>3 DEF RunInv
<1>6. selection.orm # "typeorm" => OwnFiles["typeorm"] \cap DOMAIN files = {}
  BY <1>1, <1>2, <1>3 DEF RunInv
<1>7. "package.json" \in Targets(selection)
  BY DEF Targets, CommonFiles, Module
<1>8. files["package.json"] = Packages(selection)
  BY <1>4, <1>5, <1>7, WholeOf DEF Fits
<1>9. ASSUME selection.orm = "prisma"
      PROVE  files["schema.prisma"].dialect = Dialect[selection.database]
  <2>1. "schema.prisma" \in OwnFiles[selection.orm] BY <1>9, ProfileNames
  <2>2. files["schema.prisma"] = SourceOf(selection, "schema.prisma")
    BY <1>4, <1>5, <1>9, <2>1, WholeOf DEF Fits, Targets
  <2> QED BY <2>2 DEF SourceOf, Source
<1> QED BY <1>2, <1>4, <1>5, <1>6, <1>8, <1>9

LEMMA SameRunInv ==
  ASSUME IInv, step # "idle", UNCHANGED <<tasks, files, selection, applied, spoilt>>
  PROVE  RunInv'
BY DEF IInv, RunInv, IsTask, Fits, ToWrite, ToRemove

LEMMA InstallStepInv ==
  ASSUME IInv, Install
  PROVE  IInv'
<1>1. /\ step = "install"
      /\ UNCHANGED <<baseline, files, client, selection, runs, edits, applied, spoilt>>
  BY DEF Install, history
<1>2. TypeOK /\ TypeOrmInv /\ HistoryInv BY DEF IInv
<1>3. TypeOrmInv' /\ HistoryInv' BY <1>1, <1>2, SameFilesInv
<1>4. CASE End("failed") /\ UNCHANGED installed
  <2>1. TypeOK' BY <1>1, <1>2, <1>4 DEF TypeOK, End
  <2> QED BY <1>3, <1>4, <2>1, NoRunInv DEF End, IInv
<1>5. CASE /\ installed' = Listed(files["package.json"])
           /\ step' = IF selection.orm = "prisma" THEN "generate" ELSE "verify"
           /\ UNCHANGED <<tasks, result>>
  <2>1. /\ selection \in Selections /\ tasks = <<>>
        /\ files["package.json"] = Packages(selection)
    BY <1>1, AllWritten
  <2>2. installed' \subseteq OfAnyProfile("dependencies") \cup OfAnyProfile("devDependencies")
    BY <1>5, <2>1, ListedPackages
  <2>3. TypeOK' BY <1>1, <1>2, <1>5, <2>1, <2>2 DEF TypeOK
  <2>4. RunInv' BY <1>1, <1>5, SameRunInv
  <2>5. InstallInv' BY <1>1, <1>5 DEF InstallInv
  <2> QED BY <1>3, <2>3, <2>4, <2>5 DEF IInv
<1> QED BY <1>4, <1>5 DEF Install

LEMMA GenerateClientInv ==
  ASSUME IInv, GenerateClient
  PROVE  IInv'
<1>1. /\ step = "generate"
      /\ UNCHANGED <<baseline, files, installed, selection, runs, edits, applied, spoilt>>
  BY DEF GenerateClient, history
<1>2. TypeOK /\ TypeOrmInv /\ HistoryInv /\ InstallInv BY DEF IInv
<1>3. TypeOrmInv' /\ HistoryInv' BY <1>1, <1>2, SameFilesInv
<1>4. CASE End("failed") /\ UNCHANGED client
  <2>1. TypeOK' BY <1>1, <1>2, <1>4 DEF TypeOK, End
  <2> QED BY <1>3, <1>4, <2>1, NoRunInv DEF End, IInv
<1>5. CASE /\ client' = files["schema.prisma"].dialect
           /\ step' = "verify" /\ UNCHANGED <<tasks, result>>
  <2>1. /\ selection \in Selections /\ tasks = <<>>
        /\ selection.orm = "prisma" => files["schema.prisma"].dialect = Dialect[selection.database]
    BY <1>1, AllWritten
  <2>2. client' = Dialect[selection.database] BY <1>1, <1>2, <1>5, <2>1 DEF InstallInv
  <2>3. client' \in {"postgresql", "mysql"} BY <2>1, <2>2, SelectionFields DEF Dialect
  <2>4. TypeOK' BY <1>1, <1>2, <1>5, <2>1, <2>3 DEF TypeOK
  <2>5. RunInv' BY <1>1, <1>5, SameRunInv
  <2>6. InstallInv' BY <1>1, <1>2, <1>5, <2>2 DEF InstallInv
  <2> QED BY <1>3, <2>4, <2>5, <2>6 DEF IInv
<1> QED BY <1>4, <1>5 DEF GenerateClient

LEMMA VerifyInv ==
  ASSUME IInv, Verify
  PROVE  IInv'
<1>1. /\ UNCHANGED <<baseline, files, installed, client, selection, runs, edits, applied, spoilt>>
      /\ \E how \in {"done", "inconsistent", "failed"} : End(how)
  BY DEF Verify, history
<1>2. TypeOK /\ TypeOrmInv /\ HistoryInv BY DEF IInv
<1>3. TypeOrmInv' /\ HistoryInv' BY <1>1, <1>2, SameFilesInv
<1>4. TypeOK' BY <1>1, <1>2 DEF TypeOK, End
<1> QED BY <1>1, <1>3, <1>4, NoRunInv DEF End, IInv

LEMMA InterruptInv ==
  ASSUME IInv, Interrupt
  PROVE  IInv'
<1>1. /\ End("interrupted")
      /\ UNCHANGED <<baseline, installed, client, selection, runs, edits, applied>>
  BY DEF Interrupt
<1>2. TypeOK /\ TypeOrmInv /\ HistoryInv BY DEF IInv
<1>3. RunInv' /\ InstallInv' BY <1>1, NoRunInv DEF End
<1>4. CASE UNCHANGED <<files, spoilt>>
  <2>1. TypeOrmInv' /\ HistoryInv' BY <1>1, <1>2, <1>4, SameFilesInv
  <2>2. TypeOK' BY <1>1, <1>2, <1>4 DEF TypeOK, End
  <2> QED BY <1>3, <2>1, <2>2 DEF IInv
<1>5. CASE /\ step = "write" /\ Head(tasks).do = "write"
           /\ files' = Holding(Head(tasks).path, Empty)
           /\ spoilt' = (spoilt \/ Head(tasks).path \in EditedInPlace)
  <2>1. /\ FilesTyped' /\ TypeOrmInv'
        /\ \A orm \in OrmChoices \ {"typeorm"} :
             OwnFiles[orm] \cap DOMAIN files' # {} => \E s \in applied' : s.orm = orm
        /\ (\A s \in applied' : s.orm = "typeorm") => files'[Module] = TypeOrmFile
    BY <1>1, <1>5, WriteKeepsFiles
  <2>2. TypeOK' BY <1>1, <1>2, <1>5, <2>1 DEF TypeOK, FilesTyped, End
  <2>3. ASSUME ~spoilt' PROVE Readable'
    <3>1. Readable BY <1>2, <1>5, <2>3 DEF HistoryInv, Readable
    <3>2. CommonFiles \subseteq DOMAIN files BY <1>2, FilesOf
    <3>3. \A p \in DOMAIN files : p # Head(tasks).path => files'[p] = files[p]
      BY <1>5, OneFileOver
    <3>4. \A p \in EditedInPlace : files'[p] = files[p]
      BY <1>5, <2>3, <3>2, <3>3 DEF EditedInPlace, CommonFiles
    <3>5. /\ files'["package.json"] = files["package.json"]
          /\ files'["docker-compose.yml"] = files["docker-compose.yml"]
          /\ files'[".env.example"] = files[".env.example"]
          /\ files'["load-test-env.ts"] = files["load-test-env.ts"]
      BY <3>4 DEF EditedInPlace
    <3> QED BY <3>1, <3>5 DEF Readable
  <2>4. HistoryInv' BY <1>1, <1>2, <2>1, <2>3 DEF HistoryInv, Readable
  <2> QED BY <1>3, <2>1, <2>2, <2>4 DEF IInv
<1> QED BY <1>4, <1>5 DEF Interrupt

\* A file that every checkout has, other than the module, with another content.
LEMMA OneFileEdited ==
  ASSUME TypeOK, TypeOrmInv, HistoryInv, UNCHANGED <<baseline, applied>>,
         NEW path \in CommonFiles \ {Module}, NEW x \in Contents[path],
         files' = [files EXCEPT ![path] = x]
  PROVE  /\ FilesTyped' /\ TypeOrmInv'
         /\ (spoilt' \/ (~spoilt => Readable)') => HistoryInv'
<1>1. /\ DOMAIN files' = DOMAIN files
      /\ \A p \in DOMAIN files : p # path => files'[p] = files[p]
      /\ files' = [p \in DOMAIN files' |-> files'[p]]
  BY DEF TypeOrmInv
<1>2. CommonFiles \subseteq DOMAIN files BY FilesOf
<1>3. path \in DOMAIN files /\ files'[path] = x BY <1>2
<1>4. FilesTyped' BY <1>1, <1>3 DEF FilesTyped, TypeOK
<1>5. Module \in DOMAIN files /\ files'[Module] = files[Module] BY <1>1, <1>2, NamesDiffer
<1>6. path \notin OwnFiles["typeorm"] BY NamesDiffer DEF OrmChoices
<1>7. TypeOrmInv'
  <2>1. \A p \in OwnFiles["typeorm"] \cap DOMAIN files' : files'[p] = TypeOrmFile
    BY <1>1, <1>6 DEF TypeOrmInv
  <2>2. files'[Module] = TypeOrmFile => OwnFiles["typeorm"] \subseteq DOMAIN files'
    BY <1>1, <1>5 DEF TypeOrmInv
  <2> QED BY <1>1, <2>1, <2>2 DEF TypeOrmInv
<1>8. (spoilt' \/ (~spoilt => Readable)') => HistoryInv'
  BY <1>1, <1>5 DEF HistoryInv, Readable
<1> QED BY <1>4, <1>7, <1>8

LEMMA EditInv ==
  ASSUME IInv, Edit
  PROVE  IInv'
<1> DEFINE name == "docker-compose.yml"
           c == files[name]
<1>1. /\ step = "idle" /\ result' = "none" /\ edits' = edits + 1 /\ edits < MaxEdits
      /\ UNCHANGED <<baseline, step, tasks, selection, runs, applied, installed, client>>
  BY DEF Edit, Aside
<1>2. TypeOK /\ TypeOrmInv /\ HistoryInv BY DEF IInv
<1>3. tasks' = <<>> /\ step' = "idle" BY <1>1, <1>2 DEF TypeOK
<1>4. edits' \in 0..MaxEdits BY <1>1, <1>2, ScaffoldAssumption DEF TypeOK
<1>5. FilesTyped' /\ spoilt' \in BOOLEAN => TypeOK'
  BY <1>1, <1>2, <1>4 DEF TypeOK, FilesTyped
<1>6. FilesTyped' /\ TypeOrmInv' /\ HistoryInv' /\ spoilt' \in BOOLEAN => IInv'
  BY <1>3, <1>5, NoRunInv DEF IInv
<1>7. /\ CommonFiles \subseteq DOMAIN files
      /\ name \in CommonFiles \ {Module}
      /\ "docker-compose.test.yml" \in CommonFiles \ {Module}
      /\ "barebones.config.json" \in CommonFiles \ {Module}
  BY <1>2, FilesOf DEF CommonFiles, Module
<1>8. ASSUME ComposeIsReadable(c)
      PROVE  \E v \in RdbChoices :
               /\ c \in ComposeFiles(v) /\ c.volumes = {v}
               /\ c.dependsOn = {v} /\ DOMAIN c.services = {v}
  <2>1. c # Empty /\ \E x \in RdbChoices : DOMAIN c.services = {x} /\ x \in c.dependsOn \cap c.volumes
    BY <1>8 DEF ComposeIsReadable
  <2>2. PICK v \in RdbChoices : c \in ComposeFiles(v) BY <1>2, <2>1, FilesOf
  <2>3. c.volumes = {v} /\ c.dependsOn \in {{}, {v}} BY <2>2 DEF ComposeFiles
  <2> QED BY <2>1, <2>2, <2>3
<1>9. ASSUME NEW v \in RdbChoices, c \in ComposeFiles(v),
             NEW services \in DatabaseServices
      PROVE  [c EXCEPT !.services = services] \in Contents[name]
  <2>1. [c EXCEPT !.services = services] \in ComposeFiles(v) BY <1>9 DEF ComposeFiles
  <2> QED BY <2>1, ContentsOf
<1>10. ASSUME NEW v \in RdbChoices, c \in ComposeFiles(v)
       PROVE  [c EXCEPT !.dependsOn = {}] \in Contents[name]
  <2>1. [c EXCEPT !.dependsOn = {}] \in ComposeFiles(v) BY <1>10 DEF ComposeFiles
  <2> QED BY <2>1, ContentsOf
<1>11. ~spoilt => Readable BY <1>2 DEF HistoryInv, Readable
<1>12. ASSUME ComposeIsReadable(c), NEW d \in RdbChoices \ DOMAIN c.services,
              files' = [files EXCEPT ![name].services =
                          [x \in DOMAIN @ \cup {d} |-> IF x = d THEN Image[d] ELSE @[x]]],
              spoilt' = TRUE
       PROVE  IInv'
  <2>1. PICK v \in RdbChoices : c \in ComposeFiles(v) /\ DOMAIN c.services = {v} BY <1>8, <1>12
  <2> DEFINE services == [x \in DOMAIN c.services \cup {d} |-> IF x = d THEN Image[d] ELSE c.services[x]]
  <2>2. services \in DatabaseServices
    <3>1. c.services \in DatabaseServices BY <2>1 DEF ComposeFiles
    <3>2. c.services[v] \in {Image[x] : x \in RdbChoices} \cup {"another"}
      BY <2>1, <3>1 DEF DatabaseServices
    <3>3. services \in [{v, d} -> {Image[x] : x \in RdbChoices} \cup {"another"}]
      BY <2>1, <3>2
    <3> QED BY <3>3, Zenon DEF DatabaseServices
  <2>3. files' = [files EXCEPT ![name] = [c EXCEPT !.services = services]] BY <1>12
  <2> HIDE DEF services
  <2>4. [c EXCEPT !.services = services] \in Contents[name] BY <1>9, <2>1, <2>2
  <2> HIDE DEF c, name
  <2>5. FilesTyped' /\ TypeOrmInv' /\ HistoryInv'
    BY <1>1, <1>2, <1>7, <1>12, <2>3, <2>4, OneFileEdited
  <2> QED BY <1>6, <1>12, <2>5
<1>13. ASSUME ComposeIsReadable(c), files' = [files EXCEPT ![name].dependsOn = {}], spoilt' = TRUE
       PROVE  IInv'
  <2>1. PICK v \in RdbChoices : c \in ComposeFiles(v) BY <1>8, <1>13
  <2>2. files' = [files EXCEPT ![name] = [c EXCEPT !.dependsOn = {}]] BY <1>13
  <2>3. [c EXCEPT !.dependsOn = {}] \in Contents[name] BY <1>10, <2>1
  <2> HIDE DEF c, name
  <2>4. FilesTyped' /\ TypeOrmInv' /\ HistoryInv'
    BY <1>1, <1>2, <1>7, <1>13, <2>2, <2>3, OneFileEdited
  <2> QED BY <1>6, <1>13, <2>4
<1>14. ASSUME ComposeIsReadable(c), NEW d \in DOMAIN c.services,
              files' = [files EXCEPT ![name].services[d] = "another"], UNCHANGED spoilt
       PROVE  IInv'
  <2>1. PICK v \in RdbChoices :
          /\ c \in ComposeFiles(v) /\ c.volumes = {v}
          /\ c.dependsOn = {v} /\ DOMAIN c.services = {v}
    BY <1>8, <1>14
  <2> DEFINE services == [c.services EXCEPT ![d] = "another"]
             new == [c EXCEPT !.services = services]
  <2>2. services \in DatabaseServices
    <3>1. d = v /\ DOMAIN services = {v} /\ services[v] = "another" BY <1>14, <2>1
    <3>2. services = [x \in {v} |-> "another"] BY <2>1, <3>1
    <3>3. services \in [{v} -> {Image[x] : x \in RdbChoices} \cup {"another"}] BY <3>2
    <3> QED BY <3>3, Zenon DEF DatabaseServices
  <2>3. files' = [files EXCEPT ![name] = new] BY <1>14
  <2>4. DOMAIN services = {v} BY <2>1
  <2> HIDE DEF services
  <2>5. new \in Contents[name] BY <1>9, <2>1, <2>2
  <2>6. new.services = services /\ new.dependsOn = {v} /\ new.volumes = {v}
    BY <2>1 DEF ComposeFiles
  <2>7. Empty \notin Contents[name] BY <1>7, EmptyAssumption DEF KnownFiles
  <2>8. ComposeIsReadable(new) BY <2>4, <2>5, <2>6, <2>7 DEF ComposeIsReadable
  <2>9. (~spoilt => Readable)'
    <3>1. /\ files'["package.json"] = files["package.json"]
          /\ files'[".env.example"] = files[".env.example"]
          /\ files'["load-test-env.ts"] = files["load-test-env.ts"]
      BY <2>3
    <3>2. files'["docker-compose.yml"] = new BY <1>7, <2>3
    <3> HIDE DEF new
    <3> QED BY <1>11, <1>14, <2>8, <3>1, <3>2 DEF Readable
  <2> HIDE DEF new, c, name
  <2>10. FilesTyped' /\ TypeOrmInv' /\ HistoryInv'
    BY <1>1, <1>2, <1>7, <1>14, <2>3, <2>5, <2>9, OneFileEdited
  <2> QED BY <1>2, <1>6, <1>14, <2>10 DEF TypeOK
<1>15. ASSUME files["docker-compose.test.yml"] # Empty,
              files' = [files EXCEPT !["docker-compose.test.yml"].persistent = TRUE],
              UNCHANGED spoilt
       PROVE  IInv'
  <2> DEFINE new == [files["docker-compose.test.yml"] EXCEPT !.persistent = TRUE]
  <2>1. PICK d \in RdbChoices : files["docker-compose.test.yml"] \in TestComposeFiles(d)
    BY <1>2, <1>15, FilesOf
  <2>2. new \in TestComposeFiles(d) BY <2>1 DEF TestComposeFiles
  <2>3. new \in Contents["docker-compose.test.yml"] BY <2>2, ContentsOf
  <2>4. files' = [files EXCEPT !["docker-compose.test.yml"] = new] BY <1>15
  <2> HIDE DEF new
  <2>5. (~spoilt => Readable)' BY <1>11, <1>15, <2>4 DEF Readable
  <2>6. FilesTyped' /\ TypeOrmInv' /\ HistoryInv'
    BY <1>1, <1>2, <1>7, <1>15, <2>3, <2>4, <2>5, OneFileEdited
  <2> QED BY <1>2, <1>6, <1>15, <2>6 DEF TypeOK
<1>16. ASSUME NEW s \in Selections, files' = [files EXCEPT !["barebones.config.json"] = s],
              UNCHANGED spoilt
       PROVE  IInv'
  <2>1. s \in Contents["barebones.config.json"] BY ContentsOf
  <2>2. (~spoilt => Readable)' BY <1>11, <1>16 DEF Readable
  <2>3. FilesTyped' /\ TypeOrmInv' /\ HistoryInv'
    BY <1>1, <1>2, <1>7, <1>16, <2>1, <2>2, OneFileEdited
  <2> QED BY <1>2, <1>6, <1>16, <2>3 DEF TypeOK
<1> QED BY <1>12, <1>13, <1>14, <1>15, <1>16 DEF Edit

LEMMA RestoreInv ==
  ASSUME IInv, Restore
  PROVE  IInv'
<1> DEFINE b == baseline
           committed == Committed[b]
<1>1. /\ step = "idle" /\ result' = "none" /\ files' = Over(committed) /\ spoilt' = FALSE
      /\ UNCHANGED <<baseline, step, tasks, selection, runs, applied, installed, client, edits>>
  BY DEF Restore, Aside
<1>2. TypeOK /\ TypeOrmInv /\ HistoryInv BY DEF IInv
<1>3. tasks' = <<>> /\ step' = "idle" BY <1>1, <1>2 DEF TypeOK
<1>4. /\ b \in Selections /\ b.orm \in OrmChoices /\ b \in applied
      /\ b \in {Initial} \cup Derived
      /\ DOMAIN committed = CommonFiles \cup OwnFiles[b.orm]
      /\ \A p \in DOMAIN committed : committed[p] \in Contents[p]
  BY <1>2, CommittedContents, SelectionFields DEF TypeOK, HistoryInv
<1> HIDE DEF committed
<1>5. /\ DOMAIN files' = DOMAIN committed \cup DOMAIN files
      /\ \A p \in DOMAIN committed : files'[p] = committed[p]
      /\ \A p \in DOMAIN files \ DOMAIN committed : files'[p] = files[p]
      /\ files' = [p \in DOMAIN files' |-> files'[p]]
  BY <1>1 DEF Over
<1>6. FilesTyped'
  <2>1. DOMAIN committed \subseteq KnownFiles BY <1>4 DEF KnownFiles
  <2>2. \A p \in DOMAIN files' : files'[p] \in Contents[p] \cup {Empty}
    BY <1>2, <1>4, <1>5 DEF TypeOK
  <2>3. DOMAIN files' \subseteq KnownFiles BY <1>2, <1>5, <2>1 DEF TypeOK
  <2>4. DOMAIN Committed[baseline'] \ DOMAIN files' \subseteq OwnFiles["typeorm"]
    BY <1>1, <1>5 DEF committed
  <2> QED BY <2>2, <2>3, <2>4 DEF FilesTyped
<1>7. TypeOK' BY <1>1, <1>2, <1>6 DEF TypeOK, FilesTyped
<1>8. /\ committed["package.json"] = Packages(b) /\ Packages(b) # Empty
      /\ ComposeIsReadable(committed["docker-compose.yml"])
      /\ committed[".env.example"] # Empty /\ committed[".env.example"].type # Empty
      /\ committed["load-test-env.ts"] # Empty
      /\ committed[Module] = RdbModule(b)
      /\ \A p \in OwnFiles[b.orm] : committed[p] = SourceOf(b, p)
  BY <1>4, CommittedIsReadable DEF committed
<1>9. Readable'
  <2>1. {"package.json", "docker-compose.yml", ".env.example", "load-test-env.ts"} \subseteq DOMAIN committed
    BY <1>4 DEF CommonFiles
  <2> QED BY <1>5, <1>8, <2>1 DEF Readable
<1>10. files'[Module] = RdbModule(b) BY <1>4, <1>5, <1>8, NamesDiffer
<1>11. TypeOrmInv'
  <2>1. ASSUME NEW p \in OwnFiles["typeorm"] \cap DOMAIN files'
        PROVE  files'[p] = TypeOrmFile
    <3>1. CASE b.orm = "typeorm" BY <1>4, <1>5, <1>8, <3>1, SourcesOf
    <3>2. CASE b.orm # "typeorm"
      <4>1. p \notin DOMAIN committed BY <1>4, <3>2, NamesDiffer DEF OrmChoices
      <4> QED BY <1>2, <1>5, <4>1 DEF TypeOrmInv
    <3> QED BY <3>1, <3>2
  <2>2. files'[Module] = TypeOrmFile => OwnFiles["typeorm"] \subseteq DOMAIN files'
    BY <1>4, <1>5, <1>10, ModulesTellOrms
  <2> QED BY <1>5, <2>1, <2>2 DEF TypeOrmInv
<1>12. ASSUME NEW orm \in OrmChoices \ {"typeorm"}, OwnFiles[orm] \cap DOMAIN files' # {}
       PROVE  \E s \in applied : s.orm = orm
  <2>1. CASE OwnFiles[orm] \cap DOMAIN files # {} BY <1>2, <2>1 DEF HistoryInv
  <2>2. CASE OwnFiles[orm] \cap DOMAIN committed # {}
    <3>1. orm = b.orm BY <1>4, <2>2, NamesDiffer
    <3> QED BY <1>4, <3>1
  <2> QED BY <1>5, <1>12, <2>1, <2>2
<1>13. (\A s \in applied : s.orm = "typeorm") => files'[Module] = TypeOrmFile
  BY <1>4, <1>10, ModulesTellOrms
<1>14. HistoryInv' BY <1>1, <1>4, <1>9, <1>12, <1>13 DEF HistoryInv, Readable
<1> QED BY <1>3, <1>7, <1>11, <1>14, NoRunInv DEF IInv

LEMMA InstallByHandInv ==
  ASSUME IInv, InstallByHand
  PROVE  IInv'
<1>1. /\ step = "idle" /\ result' = "none" /\ files["package.json"] # Empty
      /\ installed' = Listed(files["package.json"])
      /\ \/ UNCHANGED client
         \/ /\ "schema.prisma" \in DOMAIN files /\ files["schema.prisma"] # Empty
            /\ client' = files["schema.prisma"].dialect
      /\ UNCHANGED <<baseline, step, tasks, selection, runs, applied, files, edits, spoilt>>
  BY DEF InstallByHand, Aside
<1>2. TypeOK /\ TypeOrmInv /\ HistoryInv BY DEF IInv
<1>3. tasks' = <<>> /\ step' = "idle" BY <1>1, <1>2 DEF TypeOK
<1>4. installed' \subseteq OfAnyProfile("dependencies") \cup OfAnyProfile("devDependencies")
  <2>1. PICK s \in Selections : files["package.json"] = Packages(s) BY <1>1, <1>2, FilesOf
  <2> QED BY <1>1, <2>1, ListedPackages
<1>5. client' \in {Empty, "postgresql", "mysql"}
  <2>1. CASE UNCHANGED client BY <1>2, <2>1 DEF TypeOK
  <2>2. CASE /\ "schema.prisma" \in DOMAIN files /\ files["schema.prisma"] # Empty
             /\ client' = files["schema.prisma"].dialect
    <3>1. files["schema.prisma"] \in Contents["schema.prisma"] BY <1>2, <2>2 DEF TypeOK
    <3>2. Contents["schema.prisma"] =
            {SourceOf(s, "schema.prisma") : s \in {t \in Selections : t.orm = "prisma"}}
      BY ContentsOf, ProfileNames DEF OrmChoices
    <3>3. PICK s \in Selections : files["schema.prisma"] = SourceOf(s, "schema.prisma")
      BY <3>1, <3>2
    <3>4. client' = Dialect[s.database] BY <2>2, <3>3 DEF SourceOf, Source
    <3> QED BY <3>4, SelectionFields DEF Dialect
  <2> QED BY <1>1, <2>1, <2>2
<1>6. TypeOK' BY <1>1, <1>2, <1>4, <1>5 DEF TypeOK
<1>7. TypeOrmInv' /\ HistoryInv' BY <1>1, <1>2, SameFilesInv
<1> QED BY <1>3, <1>6, <1>7, NoRunInv DEF IInv

LEMMA NextInv ==
  ASSUME IInv, [Next]_vars
  PROVE  IInv'
<1>1. ASSUME NEW s \in Arguments, Select(s, TRUE) \/ Select(s, FALSE) PROVE IInv'
  BY <1>1, SelectInv
<1>2. CASE PerformTask
  <2>1. step = "write" BY <1>2 DEF PerformTask
  <2>2. Head(tasks).do \in {"write", "remove"} BY <2>1, HeadTask DEF IsTask
  <2> QED BY <1>2, <2>2, WriteInv, RemoveInv
<1>3. CASE Install BY <1>3, InstallStepInv
<1>4. CASE GenerateClient BY <1>4, GenerateClientInv
<1>5. CASE Verify BY <1>5, VerifyInv
<1>6. CASE Interrupt BY <1>6, InterruptInv
<1>7. CASE Edit BY <1>7, EditInv
<1>8. CASE Restore BY <1>8, RestoreInv
<1>9. CASE InstallByHand BY <1>9, InstallByHandInv
<1>10. CASE UNCHANGED vars
  <2>1. UNCHANGED <<baseline, files, installed, client, step, tasks, selection, result,
                    runs, edits, applied, spoilt>>
    BY <1>10 DEF vars, generator, history
  <2>2. TypeOK' BY <2>1 DEF IInv, TypeOK
  <2>3. TypeOrmInv' /\ HistoryInv' BY <2>1, SameFilesInv DEF IInv
  <2>4. RunInv' BY <2>1 DEF IInv, RunInv, IsTask, Fits, ToWrite, ToRemove
  <2>5. InstallInv' BY <2>1 DEF IInv, InstallInv
  <2> QED BY <2>2, <2>3, <2>4, <2>5 DEF IInv
<1> QED BY <1>1, <1>2, <1>3, <1>4, <1>5, <1>6, <1>7, <1>8, <1>9, <1>10 DEF Next

\* What the generator has done and has yet to do, and what the files tell of the
\* selections that were applied, is kept by every run, kill, edit and git checkout.
THEOREM Inductive == Spec => []IInv
<1>1. Init => IInv BY InitInv
<1>2. IInv /\ [Next]_vars => IInv' BY NextInv
<1> QED BY <1>1, <1>2, PTL DEF Spec

-----------------------------------------------------------------------------
(* What the runs check                                                     *)

\* In every checkout that the generator, its interruption or the developer brings about
\* only TypeORM's files are ever missing, and each file holds what some selection, or an
\* edit, puts there.
THEOREM TypeCorrect == Spec => []TypeOK
<1>1. IInv => TypeOK BY DEF IInv
<1> QED BY <1>1, Inductive, PTL

\* A checkout that check-scaffold.ts and the type check accept, with the packages of its
\* package.json installed, is that of the selection it names, up to the DATABASE_URL.
THEOREM AcceptanceMeansOneSelection == Spec => []AcceptedIsOneSelection
<1>1. ASSUME IInv PROVE AcceptedIsOneSelection
  <2> SUFFICES ASSUME CheckPasses, Compiles, installed = Listed(files["package.json"]),
                      NEW s, s = files["barebones.config.json"]
               PROVE  /\ DOMAIN files = DOMAIN Whole(s)
                      /\ \A p \in DOMAIN files \ Unread :
                           files[p] \in {Whole(s)[p], Checkout(s, Empty, Empty)[p]}
    BY DEF AcceptedIsOneSelection
  <2>1. TypeOK /\ TypeOrmInv BY <1>1 DEF IInv
  <2>2. /\ s \in Selections
        /\ DOMAIN files = CommonFiles \cup OwnFiles[s.orm]
        /\ files["active-scaffold.ts"] = s
        /\ files["package.json"] = Packages(s)
        /\ files[".env.example"] \in
             {EnvExample(s.database, Empty), EnvExample(s.database, DatabaseUrl(s.database, "localhost"))}
        /\ files["docker-compose.yml"] \in
             {Compose(s.database, Empty), Compose(s.database, DatabaseUrl(s.database, s.database))}
        /\ files["docker-compose.test.yml"] = RenderTestCompose(s.database)
        /\ files["load-test-env.ts"] = s.database
        /\ files[Module] = RdbModule(s)
        /\ \A p \in OwnFiles[s.orm] \ Unread : files[p] = SourceOf(s, p)
    BY <2>1, AcceptedChecks
  <2>3. DOMAIN files = DOMAIN Whole(s) BY <2>2, WholeFiles
  <2>4. ASSUME NEW p \in CommonFiles
        PROVE  files[p] \in {Whole(s)[p], Checkout(s, Empty, Empty)[p]}
    BY <2>2, WholeOf, CheckoutOf DEF CommonFiles, Module
  <2>5. ASSUME NEW p \in OwnFiles[s.orm] \ Unread
        PROVE  files[p] \in {Whole(s)[p], Checkout(s, Empty, Empty)[p]}
    BY <2>2, WholeOf
  <2> QED BY <2>2, <2>3, <2>4, <2>5
<1> QED BY <1>1, Inductive, PTL

\* The files are those of one selection, whatever the check thinks of them.
HoldsWhole(s) ==
  /\ DOMAIN files = CommonFiles \cup OwnFiles[s.orm]
  /\ \A p \in CommonFiles \cup OwnFiles[s.orm] : files[p] = Whole(s)[p]

LEMMA HoldingIsEqual ==
  ASSUME NEW s \in Selections, TypeOrmInv, HoldsWhole(s)
  PROVE  files = Whole(s)
<1>1. DOMAIN files = DOMAIN Whole(s) /\ \A p \in DOMAIN files : files[p] = Whole(s)[p]
  BY WholeFiles DEF HoldsWhole
<1>2. files = [p \in DOMAIN files |-> files[p]] BY DEF TypeOrmInv
<1>3. Whole(s) = [p \in DOMAIN Whole(s) |-> Whole(s)[p]] BY DEF Whole, Checkout
<1> QED BY <1>1, <1>2, <1>3

LEMMA SuccessKept ==
  ASSUME IInv, SuccessIsWhole, [Next]_vars
  PROVE  SuccessIsWhole'
<1> SUFFICES ASSUME result' = "done" PROVE SuccessIsWhole' BY DEF SuccessIsWhole
<1>1. TypeOK /\ TypeOrmInv /\ InstallInv BY DEF IInv
<1>2. CASE Verify
  <2>1. /\ step = "verify" /\ CheckPasses /\ Compiles
        /\ UNCHANGED <<files, installed, client, selection>>
    BY <1>2 DEF Verify, End
  <2> DEFINE s == selection
  <2>2. /\ s \in Selections
        /\ \A p \in Targets(s) : p \in DOMAIN files /\ Fits(s, p, files[p])
    BY <2>1, AllWritten
  <2>3. installed = Listed(files["package.json"]) BY <1>1, <2>1 DEF InstallInv
  <2>4. s = files["barebones.config.json"]
    <3>1. "barebones.config.json" \in Targets(s) BY DEF Targets, CommonFiles, Module
    <3> QED BY <2>2, <3>1, WholeOf DEF Fits
  <2>5. /\ DOMAIN files = CommonFiles \cup OwnFiles[s.orm]
        /\ files[".env.example"] \in
             {EnvExample(s.database, Empty), EnvExample(s.database, DatabaseUrl(s.database, "localhost"))}
        /\ files["load-test-env.ts"] = s.database
        /\ files[Module] = RdbModule(s)
        /\ \A p \in OwnFiles[s.orm] \ Unread : files[p] = SourceOf(s, p)
    BY <1>1, <2>1, <2>3, <2>4, AcceptedChecks
  <2>6. files[".env.example"] # LinesLost(s.database)
    <3>1. files[".env.example"].type = s.database BY <2>5 DEF EnvExample
    <3>2. LinesLost(s.database).type = Empty BY DEF LinesLost
    <3> QED BY <2>2, <3>1, <3>2, NotEmpty
  <2>7. files["load-test-env.ts"] # Empty BY <2>2, <2>5, NotEmpty
  <2>8. \A p \in Targets(s) : files[p] = Whole(s)[p] BY <2>2, <2>6, <2>7 DEF Fits
  <2>9. HoldsWhole(s)
    <3>1. ASSUME NEW p \in CommonFiles PROVE files[p] = Whole(s)[p]
      BY <2>2, <2>5, <2>8, WholeOf DEF Targets
    <3>2. ASSUME NEW p \in OwnFiles[s.orm] PROVE files[p] = Whole(s)[p]
      <4>1. CASE s.orm = "typeorm"
        <5>1. p \notin Unread BY <4>1, TypeOrmNames DEF Unread
        <5> QED BY <2>2, <2>5, <5>1, WholeOf
      <4>2. CASE s.orm # "typeorm" BY <2>8, <4>2 DEF Targets
      <4> QED BY <4>1, <4>2
    <3> QED BY <2>5, <3>1, <3>2 DEF HoldsWhole
  <2>10. files = Whole(s) BY <1>1, <2>2, <2>9, HoldingIsEqual
  <2> QED BY <1>1, <2>1, <2>3, <2>10 DEF SuccessIsWhole, InstallInv
<1>3. CASE UNCHANGED vars
  BY <1>3 DEF vars, generator, SuccessIsWhole
<1>4. CASE PerformTask \/ Install \/ GenerateClient
  <2>1. result = "none" BY <1>1, <1>4 DEF PerformTask, Install, GenerateClient, TypeOK
  <2> QED BY <1>4, <2>1
      DEF PerformTask, Written, Removed, Proceed, Install, GenerateClient, End
<1>5. CASE Interrupt BY <1>5 DEF Interrupt, End
<1>6. CASE Edit \/ Restore \/ InstallByHand
  BY <1>6 DEF Edit, Restore, InstallByHand, Aside
<1>7. CASE \E s \in Arguments : Select(s, TRUE) \/ Select(s, FALSE)
  <2>1. result' \in {"none", "dry", "threw"} BY <1>7 DEF Select, End
  <2> QED BY <2>1
<1> QED BY <1>2, <1>3, <1>4, <1>5, <1>6, <1>7 DEF Next

\* A run that reports success leaves the whole checkout of its selection, its packages
\* and its Prisma client, whatever was there before.
THEOREM SuccessLeavesTheWhole == Spec => []SuccessIsWhole
<1>1. Init => SuccessIsWhole BY DEF Init, SuccessIsWhole
<1>2. IInv /\ SuccessIsWhole /\ [Next]_vars => SuccessIsWhole' BY SuccessKept
<1> QED BY <1>1, <1>2, Inductive, PTL DEF Spec

-----------------------------------------------------------------------------
(* A run can be repeated                                                   *)

LEMMA OwnPackages ==
  ASSUME NEW s \in Selections
  PROVE  \A p \in (OwnFiles[s.orm] \cup {Module}) \cap SourceFiles :
           SourceOf(s, p).imports \subseteq Listed(Packages(s))
<1>1. Listed(Packages(s)) = RequiredDependencies[s.orm] \cup {DriverPackage(s)}
                              \cup RequiredDevDependencies[s.orm] \cup TypesOfDriver(s)
  BY DEF Listed, Packages
<1>2. CASE s.orm = "typeorm"
  <2>1. \A p \in OwnFiles[s.orm] \cup {Module} : SourceOf(s, p) = TypeOrmFile
    BY <1>2, SourcesOf DEF RdbModule
  <2> QED BY <1>1, <1>2, <2>1 DEF TypeOrmFile, Source, RequiredDependencies
<1>3. CASE s.orm = "prisma"
  BY <1>1, <1>3, ProfileNames
     DEF Module, SourceOf, Source, RdbModule, RequiredDependencies, RequiredDevDependencies
<1>4. CASE s.orm = "mikroorm"
  BY <1>1, <1>4, ProfileNames
     DEF Module, SourceOf, Source, RdbModule, RequiredDependencies, RequiredDevDependencies
<1>5. CASE s.orm = "drizzle"
  BY <1>1, <1>5, ProfileNames
     DEF Module, SourceOf, Source, RdbModule, RequiredDependencies, RequiredDevDependencies
<1> QED BY <1>2, <1>3, <1>4, <1>5, SelectionFields DEF OrmChoices

LEMMA OwnImports ==
  ASSUME NEW s \in Selections, files[Module] = RdbModule(s)
  PROVE  \A p \in OwnFiles[s.orm] \cup {Module} : LocalImports(p) \subseteq OwnFiles[s.orm]
<1>1. files[Module].orm = s.orm
  BY SelectionFields DEF RdbModule, Source, TypeOrmFile, OrmChoices
<1>2. \A orm : ModuleActivates(orm) => orm = s.orm
  BY <1>1 DEF ModuleActivates, Module
<1>3. CASE s.orm = "typeorm"
  BY <1>2, <1>3, TypeOrmNames DEF LocalImports, Module
<1>4. CASE s.orm # "typeorm"
  <2>1. ASSUME NEW p \in OwnFiles[s.orm] \cup {Module} PROVE LocalImports(p) \subseteq {"mikro-orm.config.ts"}
    <3>1. p \notin OwnFiles["typeorm"]
      BY <1>4, NamesDiffer, SelectionFields DEF OrmChoices
    <3>2. ~ModuleActivates("typeorm") BY <1>2, <1>4
    <3> QED BY <3>1, <3>2, TypeOrmNames DEF LocalImports
  <2>2. ASSUME NEW p \in OwnFiles[s.orm] \cup {Module}, s.orm # "mikroorm" PROVE LocalImports(p) = {}
    <3>1. p \notin OwnFiles["typeorm"]
      BY <1>4, NamesDiffer, SelectionFields DEF OrmChoices
    <3>2. ~ModuleActivates("typeorm") /\ ~ModuleActivates("mikroorm") BY <1>2, <1>4, <2>2
    <3> QED BY <3>1, <3>2, TypeOrmNames DEF LocalImports
  <2> QED BY <2>1, <2>2, ProfileNames
<1> QED BY <1>3, <1>4

\* The checkout of a selection is accepted as such.
LEMMA WholePasses ==
  ASSUME NEW s \in Selections, HoldsWhole(s), installed = Listed(files["package.json"]),
         s.orm = "prisma" => client # Empty
  PROVE  CheckPasses /\ Compiles
<1>1. s.orm \in OrmChoices /\ s.database \in RdbChoices
  BY SelectionFields DEF RdbChoices
<1>2. /\ DOMAIN files = CommonFiles \cup OwnFiles[s.orm]
      /\ files["barebones.config.json"] = s
      /\ files["active-scaffold.ts"] = s
      /\ files["package.json"] = Packages(s)
      /\ files[".env.example"] = EnvExample(s.database, DatabaseUrl(s.database, "localhost"))
      /\ files["docker-compose.yml"] = Compose(s.database, DatabaseUrl(s.database, s.database))
      /\ files["docker-compose.test.yml"] = RenderTestCompose(s.database)
      /\ files["load-test-env.ts"] = s.database
      /\ files[Module] = RdbModule(s)
      /\ \A p \in OwnFiles[s.orm] : files[p] = SourceOf(s, p)
  BY WholeOf DEF HoldsWhole, CommonFiles, Module
<1>3. RdbModule(s).orm = s.orm
  BY SelectionFields DEF RdbModule, Source, TypeOrmFile, OrmChoices
<1>4. /\ s # Empty /\ Packages(s) # Empty /\ RdbModule(s) # Empty
      /\ files[".env.example"] # Empty
      /\ files["docker-compose.yml"] # Empty /\ files["docker-compose.test.yml"] # Empty
  <2>1. files["docker-compose.yml"] \in ComposeFiles(s.database)
    BY <1>1, <1>2, ComposesAreContents
  <2>2. files["docker-compose.test.yml"] \in TestComposeFiles(s.database)
    BY <1>2 DEF RenderTestCompose, TestComposeFiles
  <2> QED BY <1>2, <2>1, <2>2, NotEmpty
<1>5. ProfileFilesMatch(s)
  <2>1. RequiredFiles[s.orm] \subseteq DOMAIN files
    BY <1>1, <1>2, TypeOrmNames, ProfileNames DEF RequiredFiles, OrmChoices, CommonFiles
  <2>2. \A orm \in OrmChoices : orm # s.orm =>
          RequiredFiles[orm] \ {Module} \subseteq OwnFiles[orm]
    BY TypeOrmNames, ProfileNames DEF RequiredFiles, OrmChoices, Module
  <2>3. Module \in RequiredFiles[s.orm] BY <1>1 DEF RequiredFiles, OrmChoices, Module
  <2>4. ASSUME NEW orm \in OrmChoices
        PROVE  (RequiredFiles[orm] \ RequiredFiles[s.orm]) \cap DOMAIN files = {}
    BY <1>1, <1>2, <2>2, <2>3, <2>4, NamesDiffer
  <2> QED BY <2>1, <2>4 DEF ProfileFilesMatch
<1>6. ComposeMatches(s.database, files["docker-compose.yml"])
  <2>1. files["docker-compose.yml"].environment = Environment(s.database, DatabaseUrl(s.database, s.database))
    BY <1>2 DEF Compose
  <2>2. /\ files["docker-compose.yml"].services = Service(s.database)
        /\ files["docker-compose.yml"].dependsOn = {s.database}
    BY <1>2 DEF Compose
  <2> QED BY <1>1, <1>4, <2>1, <2>2 DEF ComposeMatches, Environment, Service
<1>7. TestComposeMatches(s.database, files["docker-compose.test.yml"])
  BY <1>1, <1>2, <1>4 DEF TestComposeMatches, RenderTestCompose, Service
<1>8. s.orm = "typeorm" => {"persistence.e2e-spec.ts", "database.config.ts"} \subseteq DOMAIN files
  BY <1>2, TypeOrmNames
<1>9. CheckPasses
  <2>1. ModuleActivates(s.orm) BY <1>2, <1>3, <1>4 DEF ModuleActivates, Module
  <2>2. DependenciesMatch(s, files["package.json"]) BY <1>2, OwnDependenciesMatch
  <2>3. files[".env.example"].type = s.database BY <1>2 DEF EnvExample
  <2> QED BY <1>2, <1>4, <1>5, <1>6, <1>7, <1>8, <2>1, <2>2, <2>3 DEF CheckPasses
<1>10. \A p \in OwnFiles[s.orm] \cup {Module} : files[p] = SourceOf(s, p)
  BY <1>2, SourcesOf
<1>11. SourceFiles \cap DOMAIN files \subseteq OwnFiles[s.orm] \cup {Module}
  <2>1. \A p \in SourceFiles \cap CommonFiles : p = Module
    BY TypeOrmNames DEF SourceFiles, CommonFiles, Module
  <2> QED BY <1>2, <2>1
<1>12. ASSUME NEW p \in SourceFiles \cap DOMAIN files
       PROVE  /\ files[p].imports \subseteq installed
              /\ \A q \in LocalImports(p) : q \in DOMAIN files
  <2>1. files[p] = SourceOf(s, p) /\ p \in (OwnFiles[s.orm] \cup {Module}) \cap SourceFiles
    BY <1>10, <1>11
  <2> QED BY <1>2, <2>1, OwnPackages, OwnImports
<1>13. ASSUME NEW p \in SourceFiles \cap DOMAIN files, NEW q \in LocalImports(p)
       PROVE  files[q] # Empty
  <2>1. q \in OwnFiles[s.orm] /\ files[q] = SourceOf(s, q)
    BY <1>2, <1>11, OwnImports
  <2>2. Empty \notin Contents[q]
    BY <1>1, <2>1, EmptyAssumption DEF KnownFiles
  <2>3. SourceOf(s, q) \in Contents[q] BY <1>1, <2>1, ContentsOf
  <2> QED BY <2>1, <2>2, <2>3
<1>14. ModuleActivates("prisma") => s.orm = "prisma"
  BY <1>2, <1>3 DEF ModuleActivates, Module
<1>15. Compiles BY <1>12, <1>13, <1>14 DEF Compiles
<1> QED BY <1>9, <1>15

\* What a run finds when it verifies: unless a file it reads back was damaged, or another
\* profile was applied and left files, it is the whole checkout of its selection.
LEMMA VerifiedIsWhole ==
  ASSUME IInv, step = "verify", ~spoilt, OneProfileWrote
  PROVE  HoldsWhole(selection) /\ selection \in Selections
<1> DEFINE s == selection
<1>1. /\ s \in Selections /\ s \in applied
      /\ \A p \in Targets(s) : p \in DOMAIN files /\ Fits(s, p, files[p])
      /\ s.orm # "typeorm" => OwnFiles["typeorm"] \cap DOMAIN files = {}
  BY AllWritten
<1>2. TypeOK /\ TypeOrmInv /\ HistoryInv BY DEF IInv
<1>3. s.orm \in OrmChoices BY <1>1, SelectionFields
<1>4. \A p \in Targets(s) : p \in DOMAIN files /\ files[p] = Whole(s)[p]
  BY <1>1 DEF Fits
<1>5. \A t \in applied : t.orm = s.orm \/ t.orm = "typeorm"
  BY DEF OneProfileWrote
<1>6. s.orm = "typeorm" =>
        /\ files[Module] = TypeOrmFile
        /\ OwnFiles["typeorm"] \subseteq DOMAIN files
        /\ \A p \in OwnFiles["typeorm"] : files[p] = TypeOrmFile
  BY <1>2, <1>5 DEF HistoryInv, TypeOrmInv
<1>7. ASSUME NEW orm \in OrmChoices, orm # s.orm PROVE OwnFiles[orm] \cap DOMAIN files = {}
  <2>1. CASE orm = "typeorm" BY <1>1, <1>7, <2>1
  <2>2. CASE orm # "typeorm" BY <1>2, <1>5, <1>7, <2>2 DEF HistoryInv
  <2> QED BY <2>1, <2>2
<1>8. DOMAIN files = CommonFiles \cup OwnFiles[s.orm]
  <2>1. DOMAIN files \subseteq CommonFiles \cup UNION {OwnFiles[orm] : orm \in OrmChoices}
    BY <1>2 DEF TypeOK, KnownFiles
  <2>2. CommonFiles \subseteq DOMAIN files BY <1>2, FilesOf
  <2>3. OwnFiles[s.orm] \subseteq DOMAIN files BY <1>4, <1>6 DEF Targets
  <2> QED BY <1>3, <1>7, <2>1, <2>2, <2>3
<1>9. ASSUME NEW p \in CommonFiles \cup OwnFiles[s.orm] PROVE files[p] = Whole(s)[p]
  <2>1. CASE p \in Targets(s) BY <1>4, <2>1
  <2>2. CASE s.orm = "typeorm" /\ p = Module
    <3>1. RdbModule(s) = TypeOrmFile BY <2>2 DEF RdbModule
    <3> QED BY <1>1, <1>6, <2>2, <3>1, WholeOf
  <2>3. CASE s.orm = "typeorm" /\ p \in OwnFiles["typeorm"]
    BY <1>1, <1>6, <2>3, WholeOf, SourcesOf
  <2> QED BY <2>1, <2>2, <2>3 DEF Targets
<1> QED BY <1>1, <1>8, <1>9 DEF HoldsWhole

LEMMA RetryKept ==
  ASSUME IInv, RetryCompletes, [Next]_vars
  PROVE  RetryCompletes'
<1> SUFFICES ASSUME result' \in {"threw", "inconsistent"}, selection' \in Selections,
                    ~spoilt', OneProfileWrote'
             PROVE  FALSE
  BY DEF RetryCompletes
<1>1. TypeOK /\ HistoryInv /\ InstallInv BY DEF IInv
<1>2. CASE Verify
  <2>1. /\ step = "verify" /\ ~(CheckPasses /\ Compiles)
        /\ UNCHANGED <<selection, applied, spoilt>>
    BY <1>2 DEF Verify, End, history
  <2>2. HoldsWhole(selection) /\ selection \in Selections
    BY <2>1, VerifiedIsWhole DEF OneProfileWrote
  <2>3. installed = Listed(files["package.json"]) BY <1>1, <2>1 DEF InstallInv
  <2>4. selection.orm = "prisma" => client # Empty
    <3>1. selection.orm = "prisma" => client = Dialect[selection.database]
      BY <1>1, <2>1 DEF InstallInv
    <3> QED BY <2>2, <3>1, NotEmpty
  <2> QED BY <2>1, <2>2, <2>3, <2>4, WholePasses
<1>3. CASE UNCHANGED vars
  BY <1>3 DEF vars, generator, history, RetryCompletes, OneProfileWrote
<1>4. CASE PerformTask \/ Install \/ GenerateClient
  <2>1. result = "none" BY <1>1, <1>4 DEF PerformTask, Install, GenerateClient, TypeOK
  <2> QED BY <1>4, <2>1
      DEF PerformTask, Written, Removed, Proceed, Install, GenerateClient, End
<1>5. CASE Interrupt BY <1>5 DEF Interrupt, End
<1>6. CASE Edit \/ Restore \/ InstallByHand
  BY <1>6 DEF Edit, Restore, InstallByHand, Aside
<1>7. ASSUME NEW s \in Arguments, NEW apply, Select(s, apply) PROVE FALSE
  <2>1. Throws(s) /\ selection' = s /\ UNCHANGED <<files, applied, spoilt>>
    BY <1>7 DEF Select, End, history
  <2> QED BY <1>1, <2>1 DEF HistoryInv, Readable, Throws
<1> QED BY <1>2, <1>3, <1>4, <1>5, <1>6, <1>7 DEF Next

\* A run that was cut off, or whose installation failed, can be repeated: unless a file
\* that is read back was damaged, or another profile's files are in the way, no later
\* run throws or finds its own result inconsistent.
THEOREM RunsCanBeRepeated == Spec => []RetryCompletes
<1>1. Init => RetryCompletes BY DEF Init, RetryCompletes
<1>2. IInv /\ RetryCompletes /\ [Next]_vars => RetryCompletes' BY RetryKept
<1> QED BY <1>1, <1>2, Inductive, PTL DEF Spec
=============================================================================
