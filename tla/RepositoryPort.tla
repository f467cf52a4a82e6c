--------------------------- MODULE RepositoryPort ---------------------------
(***************************************************************************)
(* What IRepository<T> (repository.port.ts) promises its callers: every    *)
(* call touches a table at one moment, exactly the rows its filter         *)
(* describes, and is answered in terms of the port, never of a driver.     *)
(*                                                                         *)
(* The entity has a key, a unique column and a nullable one.               *)
(***************************************************************************)
EXTENDS FiniteSets, Naturals, Sequences

CONSTANTS
  Clients,   \* concurrent callers, one call each
  Ids,       \* primary keys
  Emails,    \* values of the unique column, as ranks in its collation
  Dates,     \* values of deletedAt other than null
  Null,
  Calls      \* the calls a client may make

Row == [id : Ids, email : Emails, deletedAt : Dates \cup {Null}]

\* A key and an email belong to one row.
Legal(rows) ==
  \A r, s \in rows : r.id = s.id \/ r.email = s.email => r = s

VARIABLES
  table,     \* the rows
  state,     \* per client: where its call stands
  call,      \* per client: the call it made
  outcome,   \* per client: what came of the call, or what the caller was told
  counted    \* whether the database tells how many rows a write touched

vars == <<table, state, call, outcome, counted>>

\* A call that has not been made, and an outcome that is not there yet.
NoCall == [kind |-> "none"]
Open == <<"open", 0>>

Init ==
  /\ table \in {rows \in SUBSET Row : Legal(rows)}
  /\ state = [c \in Clients |-> "idle"]
  /\ call = [c \in Clients |-> NoCall]
  /\ outcome = [c \in Clients |-> Open]
  /\ counted \in BOOLEAN

-----------------------------------------------------------------------------
(* Filters                                                                 *)

\* A condition on a column is a scalar, an array, null or undefined.  An array is an
\* IN, which no null is.
Meets(value, condition) ==
  CASE condition[1] = "scalar" -> value = condition[2]
    [] condition[1] = "array"  -> value # Null /\ value \in condition[2]
    [] condition[1] = "null"   -> value = Null

Matching(rows, where) ==
  {r \in rows : \A column \in DOMAIN where : Meets(r[column], where[column])}

\* The misuse the port refuses: a filter value that is undefined, and a call that
\* would touch or return some row without naming one.
BreaksContract(m) ==
  /\ m.kind # "insert"
  /\ \/ \E column \in DOMAIN m.where : m.where[column][1] = "undefined"
     \/ m.kind \in {"findOne", "update", "remove"} /\ DOMAIN m.where = {}

-----------------------------------------------------------------------------
(* Projections and pages                                                   *)

\* A key of orderBy whose direction is undefined orders nothing.
Precedes(r, s, orderBy) ==
  \E k \in DOMAIN orderBy :
    LET column == orderBy[k][1] IN
    /\ \/ orderBy[k][2] = "asc" /\ r[column] < s[column]
       \/ orderBy[k][2] = "desc" /\ r[column] > s[column]
    /\ \A j \in 1..(k - 1) :
         orderBy[j][2] = "undefined" \/ r[orderBy[j][1]] = s[orderBy[j][1]]

\* The rows in an order that orderBy allows; rows it does not tell apart come anyhow.
Arrangements(found, orderBy) ==
  {list \in [1..Cardinality(found) -> found] :
     \A i, j \in DOMAIN list : i < j =>
       list[i] # list[j] /\ ~Precedes(list[j], list[i], orderBy)}

\* Past the first `skip`, at most `take`.
Page(list, page) ==
  LET first == IF "skip" \in DOMAIN page THEN page.skip + 1 ELSE 1
  IN SubSeq(list, first,
            IF "take" \in DOMAIN page /\ first + page.take <= Len(list) + 1
              THEN first + page.take - 1 ELSE Len(list))

Projected(r, select) == [column \in select |-> r[column]]

-----------------------------------------------------------------------------
(* Calls                                                                   *)

\* A wrong call is refused, an update of nothing answered, without a look at
\* the table.
Immediate(m) ==
  CASE BreaksContract(m) -> <<"contract", 0>>
    [] ~BreaksContract(m) /\ m.kind = "update" /\ DOMAIN m.patch = {} -> <<"number", 0>>
    [] OTHER -> Open

Call(c) ==
  /\ state[c] = "idle"
  /\ \E m \in Calls :
       /\ call' = [call EXCEPT ![c] = m]
       /\ outcome' = [outcome EXCEPT ![c] = Immediate(m)]
       /\ state' = [state EXCEPT ![c] = IF Immediate(m) = Open THEN "pending" ELSE "done"]
  /\ UNCHANGED <<table, counted>>

Read(c, m) ==
  LET found == Matching(table, m.where) IN
  /\ \/ /\ m.kind = "findOne"
        /\ \/ found = {} /\ outcome' = [outcome EXCEPT ![c] = <<"null", 0>>]
           \/ \E r \in found :
                /\ \A s \in found : ~Precedes(s, r, m.orderBy)
                /\ outcome' = [outcome EXCEPT ![c] = <<"row", Projected(r, m.select)>>]
     \/ /\ m.kind = "findMany"
        /\ \E list \in Arrangements(found, m.orderBy) :
             LET page == Page(list, m.page) IN
             outcome' = [outcome EXCEPT ![c] =
                           <<"rows", [i \in DOMAIN page |-> Projected(page[i], m.select)]>>]
     \/ m.kind = "count" /\ outcome' = [outcome EXCEPT ![c] = <<"number", Cardinality(found)>>]
  /\ UNCHANGED table

\* The unique constraints `rows` violates; a driver may leave out which.
Violated(rows) ==
  {k \in {"id", "email"} : \E r, s \in rows : r # s /\ r[k] = s[k]} \cup {"unknown"}

\* A write leaves a legal table or nothing at all.
Write(c, rows, answer) ==
  \/ /\ Legal(rows) /\ table' = rows
     /\ outcome' = [outcome EXCEPT ![c] = answer]
  \/ /\ ~Legal(rows) /\ UNCHANGED table
     /\ \E k \in Violated(rows) : outcome' = [outcome EXCEPT ![c] = <<"conflict", k>>]

\* insert never overwrites: a row with the same key is another row.  The result
\* has the columns the database generates filled in.
Insert(c, m) ==
  /\ m.kind = "insert"
  /\ \E r \in Row :
       /\ \A column \in DOMAIN m.data : r[column] = m.data[column]
       /\ "deletedAt" \notin DOMAIN m.data => r.deletedAt = Null
       /\ "id" \notin DOMAIN m.data => \A s \in table : s.id # r.id
       /\ IF r \in table THEN /\ UNCHANGED table
                              /\ \E k \in {"id", "email", "unknown"} :
                                   outcome' = [outcome EXCEPT ![c] = <<"conflict", k>>]
                         ELSE Write(c, table \cup {r}, <<"row", r>>)

\* The number of affected rows, or zero where the database does not tell it.
Number(found) == <<"number", IF counted THEN Cardinality(found) ELSE 0>>

\* What a patch makes of a row.
Patched(r, patch) ==
  [column \in DOMAIN r |-> IF column \in DOMAIN patch THEN patch[column] ELSE r[column]]

Update(c, m) ==
  LET found == Matching(table, m.where)
      rows == (table \ found) \cup {Patched(r, m.patch) : r \in found} IN
  m.kind = "update" /\ Write(c, rows, Number(found))

Remove(c, m) ==
  LET found == Matching(table, m.where) IN
  m.kind = "remove" /\ Write(c, table \ found, Number(found))

\* The moment the call takes effect; a failure before it leaves the table alone, whether
\* the connection broke or the database has no words for the page.
TakeEffect(c) ==
  /\ state[c] = "pending"
  /\ state' = [state EXCEPT ![c] = "decided"]
  /\ \/ Read(c, call[c]) \/ Insert(c, call[c]) \/ Update(c, call[c]) \/ Remove(c, call[c])
     \/ UNCHANGED table /\ outcome' = [outcome EXCEPT ![c] = <<"failed", 0>>]
  /\ UNCHANGED <<call, counted>>

\* A failure after the effect: the caller will not learn of it.
LoseAnswer(c) ==
  /\ state[c] = "decided"
  /\ outcome' = [outcome EXCEPT ![c] = <<"failed", 0>>]
  /\ UNCHANGED <<table, state, call, counted>>

\* Otherwise the caller is told what came of the call.
Return(c) ==
  /\ state[c] = "decided"
  /\ state' = [state EXCEPT ![c] = "done"]
  /\ UNCHANGED <<table, call, outcome, counted>>

Next == \E c \in Clients : Call(c) \/ TakeEffect(c) \/ LoseAnswer(c) \/ Return(c)

Spec == Init /\ [][Next]_vars
=============================================================================
