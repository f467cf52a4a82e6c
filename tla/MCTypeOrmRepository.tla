------------------------ MODULE MCTypeOrmRepository ------------------------
(* TypeOrmRepository with two callers, from every legal table of up to two   *)
(* keys and emails: calls of each kind, with every form of condition, orders *)
(* and pages.                                                                *)
EXTENDS TypeOrmRepository, TLC

CONSTANTS alice, bob, yesterday

a == 1
b == 2

\* A filter of one condition, and the filter of none.
On(column, condition) == [k \in {column} |-> condition]
Filters ==
  {Unconditional,
   On("email", <<"undefined", 0>>), On("email", <<"scalar", a>>),
   On("email", <<"array", {}>>), On("email", <<"array", {a, b}>>),
   On("deletedAt", <<"null", 0>>), On("deletedAt", <<"scalar", yesterday>>)}

\* Orders, of which one names a column without a direction, and the page of everything.
ByEmail == <<<<"email", "desc">>>>
ById == <<<<"email", "undefined">>, <<"id", "asc">>>>
Whole == [k \in {} |-> 0]

MCCalls ==
  [kind : {"count", "remove"}, where : Filters] \cup
  [kind : {"findOne"}, where : Filters, orderBy : {<<>>, ByEmail}, select : {Columns}] \cup
  [kind : {"findMany"}, where : Filters, orderBy : {<<>>}, select : {Columns}, page : {Whole}] \cup
  [kind : {"findMany"}, where : {Unconditional, On("email", <<"array", {a, b}>>)},
   orderBy : {ByEmail, ById}, select : {{"email"}},
   page : {[take |-> 1], [skip |-> 1], [skip |-> 1, take |-> 1]}] \cup
  [kind : {"update"}, where : Filters, patch : {On("email", b), On("deletedAt", yesterday)}] \cup
  [kind : {"update"}, where : {Unconditional, On("email", <<"scalar", a>>)},
   patch : {Unconditional}] \cup
  [kind : {"insert"},
   data : {On("email", a), [id |-> 1, email |-> a], [id |-> 1, email |-> b, deletedAt |-> yesterday]}]

\* PostgreSQL, MySQL, and a driver of the latter that does not report what it touched.
MCDrivers ==
  {[dialect |-> "postgres", reports |-> TRUE], [dialect |-> "mysql", reports |-> TRUE],
   [dialect |-> "mysql", reports |-> FALSE]}
MCClients == {alice, bob}
\* No definition tells one caller from another.
MCSymmetry == Permutations(MCClients)
MCIds == 1..2
MCEmails == {a, b}
MCDates == {yesterday}
=============================================================================
