-------------------------- MODULE TypeOrmRepository --------------------------
(***************************************************************************)
(* TypeOrmRepositoryAdapter: each method builds TypeORM options            *)
(* synchronously, which may refuse the call, sends one statement, and      *)
(* translates the driver's answer.  The database executes statements one   *)
(* at a time, and may fail before a statement or lose the reply after it.  *)
(***************************************************************************)
EXTENDS FiniteSets, Naturals, Sequences

CONSTANTS Clients, Ids, Emails, Dates, Null, Calls, Drivers

\* A condition is tagged with what the code tells apart, a direction is one of the
\* port's or none.  Keys are generated or given once, never patched, and of finitely
\* many values; where NULL comes in an order and what take: 0 means differ between
\* databases and versions of TypeORM.  A driver speaks to PostgreSQL or to the MySQL
\* family, MariaDB included, and reports how many rows a statement touched or does not.
ASSUME RepositoryAssumption ==
  /\ Drivers \subseteq [dialect : {"postgres", "mysql"}, reports : BOOLEAN]
  /\ Null \notin Dates
  /\ \A m \in Calls :
       /\ m.kind \in {"findOne", "findMany", "count", "insert", "update", "remove"}
       /\ m.kind # "insert" =>
            \A column \in DOMAIN m.where :
              /\ m.where[column][1] \in {"undefined", "null", "array", "scalar"}
              /\ m.where[column][1] = "scalar" => m.where[column][2] # Null
       /\ m.kind = "update" =>
            /\ DOMAIN m.patch \subseteq {"email", "deletedAt"}
            /\ "email" \in DOMAIN m.patch => m.patch["email"] \in Emails
            /\ "deletedAt" \in DOMAIN m.patch => m.patch["deletedAt"] \in Dates \cup {Null}
       /\ m.kind \in {"findOne", "findMany"} =>
            m.orderBy \in Seq({"id", "email"} \X {"asc", "desc", "undefined"})
       /\ m.kind = "findMany" =>
            /\ "skip" \in DOMAIN m.page => m.page.skip \in Nat
            /\ "take" \in DOMAIN m.page => m.page.take \in Nat \ {0}
  /\ Ids \cup Emails \subseteq Nat /\ IsFiniteSet(Ids)

VARIABLES
  driver,    \* the driver the process was configured with
  rows,      \* the table
  phase,     \* per client: where its promise stands
  call,      \* per client: the method and its arguments
  criteria,  \* per client: the options given to TypeORM
  reply,     \* per client: what the driver answered
  result     \* per client: what the promise settled with

vars == <<driver, rows, phase, call, criteria, reply, result>>

Row == [id : Ids, email : Emails, deletedAt : Dates \cup {Null}]
Columns == {"id", "email", "deletedAt"}

NoCall == [kind |-> "none"]
Nothing == <<"none", 0>>
Open == <<"open", 0>>
Unconditional == [column \in {} |-> Nothing]
NoOptions == [where |-> Unconditional]

\* The unique indices of the table.
Unique(t) == \A r, s \in t : r.id = s.id \/ r.email = s.email => r = s

Init ==
  /\ driver \in Drivers
  /\ rows \in {t \in SUBSET Row : Unique(t)}
  /\ phase = [c \in Clients |-> "idle"]
  /\ call = [c \in Clients |-> NoCall]
  /\ criteria = [c \in Clients |-> NoOptions]
  /\ reply = [c \in Clients |-> Nothing]
  /\ result = [c \in Clients |-> Open]

-----------------------------------------------------------------------------
(* The synchronous part of each method                                     *)

HasUndefined(where) == \E column \in DOMAIN where : where[column][1] = "undefined"

ToWhereKeepingNull(where) ==
  [column \in DOMAIN where |->
     IF where[column][1] = "array" THEN <<"In", where[column][2]>> ELSE where[column]]

\* toWhere: null and arrays become operators, scalars pass.
ToWhere(where) ==
  [column \in DOMAIN where |->
     CASE where[column][1] = "null"  -> <<"IsNull", 0>>
       [] where[column][1] = "array" -> <<"In", where[column][2]>>
       [] OTHER -> where[column]]

\* toWhere, then assertNonEmptyWhere where the method calls it.
Refuses(m) ==
  \/ m.kind # "insert" /\ HasUndefined(m.where)
  \/ m.kind \in {"findOne", "update", "remove"} /\ DOMAIN m.where = {}

\* toOrder: the keys in their places, but for those whose direction is undefined.
Directed(orderBy) == {k \in DOMAIN orderBy : orderBy[k][2] # "undefined"}

ToOrderAscending(orderBy) == [k \in Directed(orderBy) |-> <<orderBy[k][1], "ASC">>]

ToOrder(orderBy) ==
  [k \in Directed(orderBy) |->
     <<orderBy[k][1], IF orderBy[k][2] = "desc" THEN "DESC" ELSE "ASC">>]

\* The options of each method; applyProjection for the two that read rows.
Options(m) ==
  CASE m.kind = "findMany" -> [where |-> ToWhere(m.where), order |-> ToOrder(m.orderBy),
                               select |-> m.select, limits |-> m.page]
    [] m.kind = "findOne"  -> [where |-> ToWhere(m.where), order |-> ToOrder(m.orderBy),
                               select |-> m.select]
    [] m.kind = "insert"   -> NoOptions
    [] OTHER               -> [where |-> ToWhere(m.where)]

\* The method runs to its first await: it rejects, answers an empty patch, or
\* sends its statement.
Invoke(c) ==
  /\ phase[c] = "idle"
  /\ \E m \in Calls :
       /\ call' = [call EXCEPT ![c] = m]
       /\ \/ /\ Refuses(m)
             /\ result' = [result EXCEPT ![c] = <<"contract", 0>>]
             /\ phase' = [phase EXCEPT ![c] = "done"] /\ UNCHANGED criteria
          \/ /\ ~Refuses(m) /\ m.kind = "update" /\ DOMAIN m.patch = {}
             /\ result' = [result EXCEPT ![c] = <<"number", 0>>]
             /\ phase' = [phase EXCEPT ![c] = "done"] /\ UNCHANGED criteria
          \/ /\ ~Refuses(m) /\ (m.kind = "update" => DOMAIN m.patch # {})
             /\ criteria' = [criteria EXCEPT ![c] = Options(m)]
             /\ phase' = [phase EXCEPT ![c] = "sent"] /\ UNCHANGED result
  /\ UNCHANGED <<driver, rows, reply>>

-----------------------------------------------------------------------------
(* TypeORM and the database                                                *)

\* A bare null or undefined in a where clause is dropped by TypeORM; nothing in
\* SQL equals NULL but IS NULL.
Satisfies(value, condition) ==
  CASE condition[1] = "IsNull" -> value = Null
    [] condition[1] = "In"     -> value # Null /\ value \in condition[2]
    [] condition[1] = "scalar" -> value # Null /\ value = condition[2]
    [] condition[1] \in {"null", "undefined"} -> TRUE

Selected(options) ==
  {r \in rows : \A column \in DOMAIN options.where :
                 Satisfies(r[column], options.where[column])}

Below(x, y, direction) == IF direction = "DESC" THEN x > y ELSE x < y

\* ORDER BY: the first column in which two rows differ decides.
Sorted(list, order) ==
  \A i, j \in DOMAIN list : i < j =>
    ~\E k \in DOMAIN order :
       /\ Below(list[j][order[k][1]], list[i][order[k][1]], order[k][2])
       /\ \A l \in DOMAIN order : l < k => list[i][order[l][1]] = list[j][order[l][1]]

\* All orders of the selected rows in which a database may answer.
Lists(found, order) ==
  {list \in [1..Cardinality(found) -> found] :
     Sorted(list, order) /\ \A i, j \in DOMAIN list : list[i] = list[j] => i = j}

\* LIMIT and OFFSET
Cut(list, limits) ==
  LET skip == IF "skip" \in DOMAIN limits THEN limits.skip ELSE 0
      rest == SubSeq(list, skip + 1, Len(list))
  IN IF "take" \in DOMAIN limits /\ limits.take < Len(rest)
       THEN SubSeq(rest, 1, limits.take) ELSE rest

Only(r, select) == [column \in select |-> r[column]]

\* TypeORM writes no OFFSET without a LIMIT for MySQL and MariaDB.
OffsetRefused(limits) ==
  /\ driver.dialect = "mysql"
  /\ "skip" \in DOMAIN limits /\ limits.skip > 0 /\ "take" \notin DOMAIN limits

\* A duplicate key as the drivers report it: PostgreSQL by SQLSTATE, with the
\* index or without, MySQL and MariaDB by name and number or by number alone.
Error(code, errno, constraint) == <<"error", [code |-> code, errno |-> errno, constraint |-> constraint]>>
DupEntry == 1062
Duplicate(index) ==
  IF driver.dialect = "postgres"
    THEN {Error("23505", 0, index), Error("23505", 0, "unknown")}
    ELSE {Error("ER_DUP_ENTRY", DupEntry, "unknown"), Error("other", DupEntry, "unknown")}
Disconnected == Error("ECONNRESET", 0, "unknown")
Unsupported == Error("other", 0, "unknown")

\* How a driver answers a write, if it tells how many rows it touched.
Affected(n) == IF driver.reports THEN <<"affected", n>> ELSE <<"unreported", 0>>

Replied(c, r) ==
  /\ phase' = [phase EXCEPT ![c] = "replied"]
  /\ reply' = [reply EXCEPT ![c] = r]

\* A statement that would break a unique index changes nothing.
Commit(c, t, r) ==
  IF Unique(t)
    THEN rows' = t /\ Replied(c, r)
    ELSE /\ UNCHANGED rows
         /\ \E k \in {i \in {"id", "email"} : \E x, y \in t : x # y /\ x[i] = y[i]} :
              \E e \in Duplicate(k) : Replied(c, e)

ExecuteRead(c) ==
  LET found == Selected(criteria[c]) IN
  /\ \/ /\ call[c].kind = "findOne"
        /\ IF found = {} THEN Replied(c, Nothing)
           ELSE \E list \in Lists(found, criteria[c].order) :
                  Replied(c, <<"entity", Only(list[1], criteria[c].select)>>)
     \/ /\ call[c].kind = "findMany" /\ OffsetRefused(criteria[c].limits)
        /\ Replied(c, Unsupported)
     \/ /\ call[c].kind = "findMany" /\ ~OffsetRefused(criteria[c].limits)
        /\ \E list \in Lists(found, criteria[c].order) :
             LET page == Cut(list, criteria[c].limits) IN
             Replied(c, <<"entities", [i \in DOMAIN page |-> Only(page[i], criteria[c].select)]>>)
     \/ call[c].kind = "count" /\ Replied(c, <<"total", Cardinality(found)>>)
  /\ UNCHANGED rows

\* Rows the data can become: the database fills in what is missing.
NewRows(data) ==
  {r \in Row :
     /\ \A column \in DOMAIN data : r[column] = data[column]
     /\ "deletedAt" \notin DOMAIN data => r.deletedAt = Null
     /\ "id" \notin DOMAIN data => \A s \in rows : s.id # r.id}

Generated(r, data) == [column \in Columns \ DOMAIN data |-> r[column]]

SaveRow(c) ==
  /\ call[c].kind = "insert"
  /\ \E r \in NewRows(call[c].data) :
       Commit(c, {s \in rows : s.id # r.id} \cup {r},
              <<"generated", Generated(r, call[c].data)>>)

\* repository.insert: a row that is there already is a duplicate as well.
ExecuteInsert(c) ==
  /\ call[c].kind = "insert"
  /\ \E r \in NewRows(call[c].data) :
       IF r \in rows
         THEN /\ UNCHANGED rows
              /\ \E e \in Duplicate("id") \cup Duplicate("email") : Replied(c, e)
         ELSE Commit(c, rows \cup {r}, <<"generated", Generated(r, call[c].data)>>)

ExecuteUpdate(c) ==
  LET found == Selected(criteria[c])
      patch == call[c].patch
      patched == {[k \in Columns |-> IF k \in DOMAIN patch THEN patch[k] ELSE r[k]] : r \in found} IN
  /\ call[c].kind = "update"
  /\ Commit(c, (rows \ found) \cup patched, Affected(Cardinality(found)))

ExecuteDelete(c) ==
  LET found == Selected(criteria[c]) IN
  /\ call[c].kind = "remove"
  /\ Commit(c, rows \ found, Affected(Cardinality(found)))

Execute(c) ==
  /\ phase[c] = "sent"
  /\ ExecuteRead(c) \/ ExecuteInsert(c) \/ ExecuteUpdate(c) \/ ExecuteDelete(c)
  /\ UNCHANGED <<driver, call, criteria, result>>

\* The connection breaks before the statement runs, or after.
FailBefore(c) ==
  /\ phase[c] = "sent" /\ Replied(c, Disconnected)
  /\ UNCHANGED <<driver, rows, call, criteria, result>>

FailAfter(c) ==
  /\ phase[c] = "replied" /\ reply[c] \notin {Disconnected, Unsupported}
  /\ Replied(c, Disconnected)
  /\ UNCHANGED <<driver, rows, call, criteria, result>>

-----------------------------------------------------------------------------
(* The rest of each method                                                 *)

ConstraintByCode(e) ==
  IF e.code \in {"23505", "ER_DUP_ENTRY"} THEN e.constraint ELSE "none"

\* uniqueConstraintOf: "none" is its null, "unknown" its undefined.
UniqueConstraintOf(e) ==
  IF e.code = "23505" THEN e.constraint
  ELSE IF e.code = "ER_DUP_ENTRY" \/ e.errno = DupEntry THEN "unknown" ELSE "none"

\* rethrowUniqueViolation
Rejection(e) ==
  IF UniqueConstraintOf(e) = "none" THEN <<"failed", 0>>
  ELSE <<"conflict", UniqueConstraintOf(e)>>

WithoutGenerated(data, generated) == data

\* repository.merge(entity, generated)
Merged(data, generated) ==
  [column \in Columns |->
     IF column \in DOMAIN generated THEN generated[column] ELSE data[column]]

Settled(c) ==
  LET r == reply[c] IN
  CASE r[1] = "error"     -> Rejection(r[2])
    [] r[1] = "none"      -> <<"null", 0>>
    [] r[1] = "entity"    -> <<"row", r[2]>>
    [] r[1] = "entities"  -> <<"rows", r[2]>>
    [] r[1] = "generated" -> <<"row", Merged(call[c].data, r[2])>>
    [] r[1] \in {"total", "affected"} -> <<"number", r[2]>>
    [] r[1] = "unreported" -> <<"number", 0>>

Settle(c) ==
  /\ phase[c] = "replied"
  /\ phase' = [phase EXCEPT ![c] = "done"]
  /\ result' = [result EXCEPT ![c] = Settled(c)]
  /\ UNCHANGED <<driver, rows, call, criteria, reply>>

\* Every call has been answered.
AllDone == (\A c \in Clients : phase[c] = "done") /\ UNCHANGED vars

Next ==
  \/ \E c \in Clients : Invoke(c) \/ Execute(c) \/ FailBefore(c) \/ FailAfter(c) \/ Settle(c)
  \/ AllDone

Spec == Init /\ [][Next]_vars

-----------------------------------------------------------------------------
(* Properties                                                              *)

Answers ==
  {"contract", "failed", "null", "row", "rows", "number", "conflict"}

\* The type of the state; a promise never settles with a driver's own words.
TypeOK ==
  /\ driver \in Drivers
  /\ rows \subseteq Row
  /\ phase \in [Clients -> {"idle", "sent", "replied", "done"}]
  /\ \A c \in Clients :
       /\ call[c] \in Calls \cup {NoCall}
       /\ reply[c][1] \in {"none", "error", "entity", "entities", "generated", "total",
                          "affected", "unreported"}
       /\ phase[c] = "done" => result[c][1] \in Answers
       /\ result[c][1] = "row" /\ call[c].kind = "insert" => result[c][2] \in Row

\* Of several clients that insert the same email at once, at most one is told
\* that it did, as long as nobody removes or renames a row meanwhile: the index
\* decides the race that a look beforehand cannot.
OneInsertWins ==
  (\A c \in Clients : call[c].kind \notin {"update", "remove"}) =>
    \A c, d \in Clients :
      /\ c # d /\ result[c][1] = "row" /\ result[d][1] = "row"
      /\ call[c].kind = "insert" /\ call[d].kind = "insert"
      => result[c][2].email # result[d][2].email

\* The condition as the port words it.
Asked(value, condition) ==
  \/ condition[1] = "scalar" /\ value = condition[2]
  \/ condition[1] = "array" /\ value \in condition[2]
  \/ condition[1] = "null" /\ value = Null

\* A row changes or disappears only by the update or removal of a client whose
\* filter, as it was written, is not empty and describes that row.
RowsChangeOnlyWhenAsked ==
  [][\A r \in rows \ rows' : \E c \in Clients :
       /\ phase[c] = "sent" /\ phase'[c] = "replied"
       /\ call[c].kind \in {"update", "remove"} /\ DOMAIN call[c].where # {}
       /\ \A column \in DOMAIN call[c].where : Asked(r[column], call[c].where[column])]_vars

-----------------------------------------------------------------------------
(* The adapter implements the port                                         *)

\* What a driver's answer means to the port.
Meaning(c) ==
  LET r == reply[c] IN
  CASE r[1] = "error"     -> IF r \in {Disconnected, Unsupported} THEN <<"failed", 0>>
                             ELSE <<"conflict", r[2].constraint>>
    [] r[1] = "none"      -> <<"null", 0>>
    [] r[1] = "entity"    -> <<"row", r[2]>>
    [] r[1] = "entities"  -> <<"rows", r[2]>>
    [] r[1] = "generated" -> <<"row", [column \in Columns |->
                                IF column \in DOMAIN call[c].data
                                  THEN call[c].data[column] ELSE r[2][column]]>>
    [] r[1] \in {"total", "affected"} -> <<"number", r[2]>>
    [] r[1] = "unreported" -> <<"number", 0>>

Port == INSTANCE RepositoryPort WITH
  counted <- driver.reports,
  table <- rows,
  state <- [c \in Clients |->
              CASE phase[c] = "idle"    -> "idle"
                [] phase[c] = "sent"    -> "pending"
                [] phase[c] = "replied" -> "decided"
                [] phase[c] = "done"    -> "done"],
  outcome <- [c \in Clients |->
                CASE phase[c] = "done"    -> result[c]
                  [] phase[c] = "replied" -> Meaning(c)
                  [] OTHER                -> Open]

\* Every call through the adapter is one the port promises, whichever driver words the
\* duplicate and wherever the connection breaks; with a driver that reports no affected
\* rows, a write is answered zero and does what it was asked all the same.
ImplementsPort == Port!Spec

\* The calls read one filter in one order that a unique column makes strict, the one
\* its first k rows, the other the rows after them, all or the next few.
Consecutive(m, n) ==
  /\ m.kind = "findMany" /\ n.kind = "findMany"
  /\ m.where = n.where /\ m.orderBy = n.orderBy /\ m.select = n.select
  /\ \E k \in DOMAIN m.orderBy : m.orderBy[k][2] # "undefined"
  /\ DOMAIN m.page = {"take"} /\ DOMAIN n.page \in {{"skip"}, {"skip", "take"}}
  /\ m.page.take = n.page.skip

\* The page that two consecutive pages make up.
Joined(first, second) ==
  [limit \in DOMAIN second \ {"skip"} |-> first.take + second.take]

\* Two consecutive pages that two clients read make up one, in its order, while nobody
\* writes: no row is in both, none between them in neither (toOrder, toFindManyOptions).
PagesFitTogether ==
  (\A c \in Clients : call[c].kind \notin {"insert", "update", "remove"}) =>
    \A c, d \in Clients :
      (result[c][1] = "rows" /\ result[d][1] = "rows" /\ Consecutive(call[c], call[d])) =>
        \E list \in Port!Arrangements(Port!Matching(rows, call[c].where), call[c].orderBy) :
          LET page == Port!Page(list, Joined(call[c].page, call[d].page)) IN
          result[c][2] \o result[d][2] =
            [i \in DOMAIN page |-> Port!Projected(page[i], call[c].select)]
=============================================================================
