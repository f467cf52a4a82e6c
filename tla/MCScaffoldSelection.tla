------------------------ MODULE MCScaffoldSelection ------------------------
(* ScaffoldSelection from the repository as it is committed and from two     *)
(* derived projects: two runs of the generator, each with any ORM and two    *)
(* databases that its profile tells apart or not, or with a database nobody  *)
(* knows, and one edit.                                                      *)
EXTENDS ScaffoldSelection

Of(databases, orms) == [database : databases, orm : orms]

MCInitial == [database |-> "postgres", orm |-> "typeorm"]
MCDerived == Of({"postgres"}, {"prisma"}) \cup Of({"mysql"}, {"mikroorm"})
MCArguments ==
  Of({"postgres", "mysql"}, {"typeorm", "prisma", "drizzle"})
  \cup Of({"mysql", "mariadb"}, {"mikroorm"}) \cup Of({"sqlite"}, {"typeorm"})
=============================================================================
