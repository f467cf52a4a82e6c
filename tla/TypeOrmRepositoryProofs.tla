---------------------- MODULE TypeOrmRepositoryProofs ----------------------
(***************************************************************************)
(* Safety of the adapter for any number of callers, any table and any      *)
(* calls.  IInv ties what TypeORM was given to what the caller asked, and  *)
(* what a caller is about to be told to the table: a row that an insert    *)
(* answered is there for as long as nobody updates or removes.             *)
(***************************************************************************)
EXTENDS TypeOrmRepository, TLAPS

RowsInv == rows \subseteq Row /\ Unique(rows)

\* The variables are functions of the clients.
ShapeInv ==
  /\ phase \in [Clients -> {"idle", "sent", "replied", "done"}]
  /\ call \in [Clients -> Calls \cup {NoCall}]
  /\ criteria = [c \in Clients |-> criteria[c]]
  /\ reply = [c \in Clients |-> reply[c]]
  /\ result = [c \in Clients |-> result[c]]

ReplyKinds ==
  {"none", "error", "entity", "entities", "generated", "total", "affected", "unreported"}

\* What a statement may be answered, by the kind of the call.
ReplyInv(c) ==
  /\ reply[c][1] \in ReplyKinds
  /\ phase[c] = "replied" /\ call[c].kind = "insert" =>
       reply[c][1] \in {"error", "generated"}
  /\ phase[c] = "replied" /\ reply[c][1] = "generated" =>
       call[c].kind = "insert" /\ Merged(call[c].data, reply[c][2]) \in Row

CallInv(c) ==
  /\ phase[c] = "idle" <=> call[c] = NoCall
  /\ phase[c] # "done" => result[c] = Open
  /\ phase[c] \in {"sent", "replied"} => ~Refuses(call[c]) /\ criteria[c] = Options(call[c])
  /\ ReplyInv(c)
  /\ phase[c] = "done" => result[c][1] \in Answers
  /\ result[c][1] = "row" /\ call[c].kind = "insert" => result[c][2] \in Row

\* A caller that is told, or is about to be told, that its row was inserted.
Told(c) ==
  /\ call[c].kind = "insert"
  /\ \/ phase[c] = "replied" /\ reply[c][1] = "generated"
     \/ phase[c] = "done" /\ result[c][1] = "row"
RowOf(c) == IF phase[c] = "done" THEN result[c][2] ELSE Merged(call[c].data, reply[c][2])

OnlyInserts == \A c \in Clients : call[c].kind \notin {"update", "remove"}

ToldInv ==
  OnlyInserts =>
    /\ \A c \in Clients : Told(c) => RowOf(c) \in rows
    /\ \A c, d \in Clients : c # d /\ Told(c) /\ Told(d) => RowOf(c) # RowOf(d)

IInv ==
  /\ RowsInv /\ ShapeInv /\ ToldInv
  /\ \A c \in Clients : CallInv(c)

-----------------------------------------------------------------------------
(* What the database does                                                  *)

\* What the assumption says, fact by fact.
LEMMA Assumed ==
  /\ Null \notin Dates
  /\ \A m \in Calls :
       /\ m.kind \in {"findOne", "findMany", "count", "insert", "update", "remove"}
       /\ m.kind # "insert" =>
            \A column \in DOMAIN m.where :
              /\ m.where[column][1] \in {"undefined", "null", "array", "scalar"}
              /\ m.where[column][1] = "scalar" => m.where[column][2] # Null
       /\ m.kind = "update" =>
            /\ DOMAIN m.patch \subseteq {"email", "deletedAt"}
            /\ "email" \in DOMAIN m.patch => m.patch["email"] \in Emails
            /\ "deletedAt" \in DOMAIN m.patch => m.patch["deletedAt"] \in Dates \cup {Null}
       /\ m.kind \in {"findOne", "findMany"} =>
            m.orderBy \in Seq({"id", "email"} \X {"asc", "desc", "undefined"})
       /\ m.kind = "findMany" =>
            /\ "skip" \in DOMAIN m.page => m.page.skip \in Nat
            /\ "take" \in DOMAIN m.page => m.page.take \in Nat \ {0}
  /\ Ids \cup Emails \subseteq Nat /\ IsFiniteSet(Ids)
BY RepositoryAssumption, Zenon

LEMMA NoCallIsNone == NoCall.kind = "none" /\ NoCall \notin Calls
<1>1. NoCall.kind = "none" BY DEF NoCall
<1> QED BY <1>1, Assumed

\* The entity an insert returns is the row the database stored.
LEMMA MergedIsTheRow ==
  ASSUME NEW r \in Row, NEW data, \A column \in DOMAIN data : r[column] = data[column]
  PROVE  Merged(data, Generated(r, data)) = r
<1> DEFINE g == Generated(r, data)
<1>1. DOMAIN g = Columns \ DOMAIN data /\ \A k \in Columns \ DOMAIN data : g[k] = r[k]
  BY DEF Generated
<1>2. r = [k \in Columns |-> r[k]] BY DEF Row, Columns
<1>3. \A k \in Columns : (IF k \in DOMAIN g THEN g[k] ELSE data[k]) = r[k] BY <1>1
<1> HIDE DEF g
<1>4. Merged(data, g) = [k \in Columns |-> r[k]]
  <2>1. Merged(data, g) = [k \in Columns |-> IF k \in DOMAIN g THEN g[k] ELSE data[k]]
    BY Zenon DEF Merged
  <2> QED BY <1>3, <2>1
<1> QED BY <1>2, <1>4 DEF g

LEMMA DuplicateIsError ==
  ASSUME NEW k, NEW e \in Duplicate(k)
  PROVE  e[1] = "error"
<1>1. \/ e = Error("23505", 0, k) \/ e = Error("23505", 0, "unknown")
      \/ e = Error("ER_DUP_ENTRY", DupEntry, "unknown")
      \/ e = Error("other", DupEntry, "unknown")
  BY DEF Duplicate
<1>2. ASSUME NEW code, NEW errno, NEW constraint
      PROVE  Error(code, errno, constraint)[1] = "error"
  BY DEF Error
<1> QED BY <1>1, <1>2

\* A statement is committed or refused as a duplicate.
LEMMA CommitEffect ==
  ASSUME NEW c, NEW t, NEW r, Commit(c, t, r)
  PROVE  \/ Unique(t) /\ rows' = t /\ Replied(c, r)
         \/ rows' = rows /\ \E e : e[1] = "error" /\ Replied(c, e)
<1>1. CASE Unique(t) BY <1>1, Zenon DEF Commit
<1>2. CASE ~Unique(t)
  <2>1. /\ rows' = rows
        /\ \E k \in {i \in {"id", "email"} : \E x, y \in t : x # y /\ x[i] = y[i]} :
             \E e \in Duplicate(k) : Replied(c, e)
    BY <1>2, Zenon DEF Commit
  <2>2. PICK k : \E e \in Duplicate(k) : Replied(c, e) BY <2>1
  <2>3. PICK e \in Duplicate(k) : Replied(c, e) BY <2>2
  <2>4. e[1] = "error" BY DuplicateIsError
  <2> QED BY <2>1, <2>3, <2>4
<1> QED BY <1>1, <1>2

\* A row a patch makes is a row.
LEMMA PatchedIsRow ==
  ASSUME NEW m \in Calls, m.kind = "update", NEW r \in Row
  PROVE  [k \in Columns |-> IF k \in DOMAIN m.patch THEN m.patch[k] ELSE r[k]] \in Row
BY Assumed DEF Row, Columns

\* A statement that is answered without a change of the table, an insert that is
\* committed, and an update or removal that is.
Reads(c) ==
  /\ rows' = rows
  /\ \E r : /\ r[1] \in {"none", "entity", "entities", "total", "error"}
            /\ call[c].kind = "insert" => r[1] = "error"
            /\ Replied(c, r)

Inserts(c) ==
  /\ call[c].kind = "insert"
  /\ \E r \in Row :
       /\ r \notin rows /\ Unique(rows \cup {r}) /\ rows' = rows \cup {r}
       /\ Merged(call[c].data, Generated(r, call[c].data)) = r
       /\ Replied(c, <<"generated", Generated(r, call[c].data)>>)

Alters(c) ==
  /\ call[c].kind \in {"update", "remove"}
  /\ rows' \subseteq Row /\ Unique(rows')
  /\ rows \ rows' \subseteq Selected(criteria[c])
  /\ \E r : r[1] \in {"affected", "unreported"} /\ Replied(c, r)

LEMMA AffectedIsNumber ==
  ASSUME NEW n PROVE Affected(n)[1] \in {"affected", "unreported"}
BY DEF Affected

LEMMA ExecuteEffect ==
  ASSUME IInv, NEW c \in Clients, Execute(c)
  PROVE  /\ phase[c] = "sent" /\ UNCHANGED <<driver, call, criteria, result>>
         /\ Reads(c) \/ Inserts(c) \/ Alters(c)
<1>1. /\ phase[c] = "sent" /\ UNCHANGED <<driver, call, criteria, result>>
      /\ rows \subseteq Row
  BY Zenon DEF Execute, IInv, RowsInv
<1>2. call[c] \in Calls
  BY <1>1, Zenon DEF IInv, ShapeInv, CallInv
<1>3. CASE ExecuteRead(c)
  <2>1. call[c].kind # "insert" /\ rows' = rows BY <1>3 DEF ExecuteRead
  <2>2. \E r : r[1] \in {"none", "entity", "entities", "total", "error"} /\ Replied(c, r)
    <3> DEFINE found == Selected(criteria[c])
    <3>1. CASE Replied(c, Nothing)
      <4>1. Nothing[1] = "none" BY DEF Nothing
      <4> QED BY <3>1, <4>1
    <3>2. ASSUME NEW list, Replied(c, <<"entity", Only(list[1], criteria[c].select)>>)
          PROVE  \E r : r[1] = "entity" /\ Replied(c, r)
      <4>1. <<"entity", Only(list[1], criteria[c].select)>>[1] = "entity" OBVIOUS
      <4> QED BY <3>2, <4>1
    <3>3. ASSUME NEW page, Replied(c, <<"entities", page>>)
          PROVE  \E r : r[1] = "entities" /\ Replied(c, r)
      <4>1. <<"entities", page>>[1] = "entities" OBVIOUS
      <4> QED BY <3>3, <4>1
    <3>4. ASSUME Replied(c, <<"total", Cardinality(found)>>)
          PROVE  \E r : r[1] = "total" /\ Replied(c, r)
      <4>1. <<"total", Cardinality(found)>>[1] = "total" OBVIOUS
      <4> QED BY <3>4, <4>1
    <3>5. CASE Replied(c, Unsupported)
      <4>1. Unsupported[1] = "error" BY DEF Unsupported, Error
      <4> QED BY <3>5, <4>1
    <3>6. \/ Replied(c, Nothing) \/ Replied(c, Unsupported)
          \/ \E list : Replied(c, <<"entity", Only(list[1], criteria[c].select)>>)
          \/ \E page : Replied(c, <<"entities", page>>)
          \/ Replied(c, <<"total", Cardinality(found)>>)
      <4>1. \/ IF found = {} THEN Replied(c, Nothing)
               ELSE \E list \in Lists(found, criteria[c].order) :
                      Replied(c, <<"entity", Only(list[1], criteria[c].select)>>)
            \/ \E list \in Lists(found, criteria[c].order) :
                 LET page == Cut(list, criteria[c].limits) IN
                 Replied(c, <<"entities", [i \in DOMAIN page |-> Only(page[i], criteria[c].select)]>>)
            \/ Replied(c, <<"total", Cardinality(found)>>) \/ Replied(c, Unsupported)
        BY <1>3, Zenon DEF ExecuteRead
      <4> DEFINE entities(list) ==
                   LET page == Cut(list, criteria[c].limits) IN
                   <<"entities", [i \in DOMAIN page |-> Only(page[i], criteria[c].select)]>>
      <4>2. ASSUME NEW list, Replied(c, entities(list))
            PROVE  \E page : Replied(c, <<"entities", page>>)
        BY <4>2, Zenon
      <4>3. ASSUME IF found = {} THEN Replied(c, Nothing)
                   ELSE \E list \in Lists(found, criteria[c].order) :
                          Replied(c, <<"entity", Only(list[1], criteria[c].select)>>)
            PROVE  \/ Replied(c, Nothing)
                   \/ \E list : Replied(c, <<"entity", Only(list[1], criteria[c].select)>>)
        <5> HIDE DEF found
        <5>1. CASE found = {} BY <4>3, <5>1, Zenon
        <5>2. CASE found # {}
          <6>1. \E list \in Lists(found, criteria[c].order) :
                  Replied(c, <<"entity", Only(list[1], criteria[c].select)>>)
            BY <4>3, <5>2
          <6> QED BY <6>1, Zenon
        <5> QED BY <5>1, <5>2
      <4> QED BY <4>1, <4>2, <4>3, Zenon
    <3>7. CASE \E list : Replied(c, <<"entity", Only(list[1], criteria[c].select)>>)
      <4>1. \E r : r[1] = "entity" /\ Replied(c, r) BY <3>2, <3>7, Zenon
      <4> QED BY <4>1
    <3>8. CASE \E page : Replied(c, <<"entities", page>>)
      <4>1. \E r : r[1] = "entities" /\ Replied(c, r) BY <3>3, <3>8, Zenon
      <4> QED BY <4>1
    <3>9. CASE Replied(c, <<"total", Cardinality(found)>>) BY <3>4, <3>9
    <3> QED BY <3>1, <3>5, <3>6, <3>7, <3>8, <3>9, Zenon
  <2> QED BY <1>1, <2>1, <2>2 DEF Reads
<1>4. CASE ExecuteInsert(c)
  <2>1. call[c].kind = "insert" BY <1>4 DEF ExecuteInsert
  <2>2. PICK r \in NewRows(call[c].data) :
          IF r \in rows
            THEN /\ UNCHANGED rows
                 /\ \E e \in Duplicate("id") \cup Duplicate("email") : Replied(c, e)
            ELSE Commit(c, rows \cup {r}, <<"generated", Generated(r, call[c].data)>>)
    BY <1>4, Zenon DEF ExecuteInsert
  <2>3. r \in Row /\ \A column \in DOMAIN call[c].data : r[column] = call[c].data[column]
    BY <2>2 DEF NewRows
  <2>4. CASE r \in rows
    <3>1. PICK e \in Duplicate("id") \cup Duplicate("email") : Replied(c, e)
      BY <2>2, <2>4
    <3>2. e[1] = "error" BY <3>1, DuplicateIsError
    <3> QED BY <1>1, <2>1, <2>2, <2>4, <3>1, <3>2 DEF Reads
  <2>5. CASE r \notin rows
    <3>1. Commit(c, rows \cup {r}, <<"generated", Generated(r, call[c].data)>>)
      BY <2>2, <2>5
    <3>2. CASE /\ Unique(rows \cup {r}) /\ rows' = rows \cup {r}
               /\ Replied(c, <<"generated", Generated(r, call[c].data)>>)
      BY <1>1, <2>1, <2>3, <2>5, <3>2, MergedIsTheRow DEF Inserts
    <3>3. CASE rows' = rows /\ \E e : e[1] = "error" /\ Replied(c, e)
      BY <1>1, <2>1, <3>3 DEF Reads
    <3> QED BY <3>1, <3>2, <3>3, CommitEffect
  <2> QED BY <2>4, <2>5
<1>5. ASSUME NEW t, NEW r, Commit(c, t, r), call[c].kind \in {"update", "remove"},
             t \subseteq Row, rows \ t \subseteq Selected(criteria[c]),
             r[1] \in {"affected", "unreported"}
      PROVE  Reads(c) \/ Alters(c)
  <2>1. CASE Unique(t) /\ rows' = t /\ Replied(c, r) BY <1>5, <2>1 DEF Alters
  <2>2. CASE rows' = rows /\ \E e : e[1] = "error" /\ Replied(c, e)
    BY <1>5, <2>2 DEF Reads
  <2> QED BY <1>5, <2>1, <2>2, CommitEffect
<1>6. CASE ExecuteUpdate(c)
  <2> DEFINE found == Selected(criteria[c])
             patch == call[c].patch
             patched == {[k \in Columns |-> IF k \in DOMAIN patch THEN patch[k] ELSE r[k]] : r \in found}
  <2>1. /\ call[c].kind = "update"
        /\ Commit(c, (rows \ found) \cup patched, Affected(Cardinality(found)))
    BY <1>6, Zenon DEF ExecuteUpdate
  <2>2. found \subseteq rows BY DEF Selected
  <2>3. patched \subseteq Row BY <1>1, <1>2, <2>1, <2>2, PatchedIsRow
  <2> HIDE DEF found, patched
  <2>4. (rows \ found) \cup patched \subseteq Row BY <1>1, <2>3
  <2>5. rows \ ((rows \ found) \cup patched) \subseteq Selected(criteria[c]) BY DEF found
  <2> QED BY <1>1, <1>5, <2>1, <2>4, <2>5, AffectedIsNumber
<1>7. CASE ExecuteDelete(c)
  <2> DEFINE found == Selected(criteria[c])
  <2>1. /\ call[c].kind = "remove"
        /\ Commit(c, rows \ found, Affected(Cardinality(found)))
    BY <1>7, Zenon DEF ExecuteDelete
  <2>2. rows \ found \subseteq Row /\ rows \ (rows \ found) \subseteq found BY <1>1
  <2> QED BY <1>1, <1>5, <2>1, <2>2, AffectedIsNumber
<1> QED BY <1>1, <1>3, <1>4, <1>6, <1>7, Zenon DEF Execute

-----------------------------------------------------------------------------
(* The invariant holds at first, and what happens to one call              *)

LEMMA InitInv == Init => IInv
<1> SUFFICES ASSUME Init PROVE IInv OBVIOUS
<1>1. RowsInv BY DEF Init, RowsInv
<1>2. ShapeInv BY DEF Init, ShapeInv
<1>3. \A c \in Clients : /\ phase[c] = "idle" /\ call[c] = NoCall /\ reply[c] = Nothing
                         /\ result[c] = Open
  BY Zenon DEF Init
<1>4. Nothing[1] = "none" /\ "none" \in ReplyKinds /\ Open[1] = "open"
  BY DEF Nothing, ReplyKinds, Open
<1>5. ASSUME NEW c \in Clients PROVE CallInv(c)
  BY <1>3, <1>4, NoCallIsNone DEF CallInv, ReplyInv
<1>6. ToldInv BY <1>3, <1>4 DEF ToldInv, Told
<1> QED BY <1>1, <1>2, <1>5, <1>6 DEF IInv

\* A client whose variables stay.
Untouched(d) ==
  /\ phase'[d] = phase[d] /\ call'[d] = call[d] /\ criteria'[d] = criteria[d]
  /\ reply'[d] = reply[d] /\ result'[d] = result[d]

LEMMA CallUntouched ==
  ASSUME NEW d \in Clients, CallInv(d), Untouched(d)
  PROVE  CallInv(d)' /\ Told(d)' = Told(d) /\ RowOf(d)' = RowOf(d)
<1>1. CallInv(d)' BY DEF CallInv, ReplyInv, Untouched
<1>2. Told(d)' = Told(d) BY DEF Told, Untouched
<1>3. RowOf(d)' = RowOf(d) BY DEF RowOf, Untouched
<1> QED BY <1>1, <1>2, <1>3

\* The call's first step: it is refused or answered, or it is sent.
Rejects(c, m) ==
  /\ call' = [call EXCEPT ![c] = m] /\ phase' = [phase EXCEPT ![c] = "done"]
  /\ \E r \in {<<"contract", 0>>, <<"number", 0>>} : result' = [result EXCEPT ![c] = r]
  /\ UNCHANGED <<driver, rows, criteria, reply>>

Sends(c, m) ==
  /\ ~Refuses(m)
  /\ call' = [call EXCEPT ![c] = m] /\ phase' = [phase EXCEPT ![c] = "sent"]
  /\ criteria' = [criteria EXCEPT ![c] = Options(m)]
  /\ UNCHANGED <<driver, rows, reply, result>>

LEMMA InvokeEffect ==
  ASSUME NEW c, Invoke(c)
  PROVE  phase[c] = "idle" /\ \E m \in Calls : Rejects(c, m) \/ Sends(c, m)
<1>1. PICK m \in Calls :
       /\ call' = [call EXCEPT ![c] = m]
       /\ \/ /\ Refuses(m)
             /\ result' = [result EXCEPT ![c] = <<"contract", 0>>]
             /\ phase' = [phase EXCEPT ![c] = "done"] /\ UNCHANGED criteria
          \/ /\ ~Refuses(m) /\ m.kind = "update" /\ DOMAIN m.patch = {}
             /\ result' = [result EXCEPT ![c] = <<"number", 0>>]
             /\ phase' = [phase EXCEPT ![c] = "done"] /\ UNCHANGED criteria
          \/ /\ ~Refuses(m) /\ (m.kind = "update" => DOMAIN m.patch # {})
             /\ criteria' = [criteria EXCEPT ![c] = Options(m)]
             /\ phase' = [phase EXCEPT ![c] = "sent"] /\ UNCHANGED result
  BY Zenon DEF Invoke
<1>2. phase[c] = "idle" /\ UNCHANGED <<driver, rows, reply>> BY Zenon DEF Invoke
<1>3. CASE /\ \/ result' = [result EXCEPT ![c] = <<"contract", 0>>]
              \/ result' = [result EXCEPT ![c] = <<"number", 0>>]
           /\ phase' = [phase EXCEPT ![c] = "done"] /\ UNCHANGED criteria
  <2>1. \E r \in {<<"contract", 0>>, <<"number", 0>>} : result' = [result EXCEPT ![c] = r]
    BY <1>3, Zenon
  <2>2. call' = [call EXCEPT ![c] = m] BY <1>1, Zenon
  <2>3. UNCHANGED <<driver, rows, criteria, reply>> BY <1>2, <1>3, Zenon
  <2>4. Rejects(c, m) BY <1>3, <2>1, <2>2, <2>3, Zenon DEF Rejects
  <2> QED BY <1>2, <2>4
<1>4. CASE /\ ~Refuses(m) /\ criteria' = [criteria EXCEPT ![c] = Options(m)]
           /\ phase' = [phase EXCEPT ![c] = "sent"] /\ UNCHANGED result
  BY <1>1, <1>2, <1>4, Zenon DEF Sends
<1> QED BY <1>1, <1>2, <1>3, <1>4

\* A step of one client shapes its own call and leaves the others alone.
LEMMA InvokeStep ==
  ASSUME IInv, NEW c \in Clients, NEW m \in Calls, phase[c] = "idle",
         Rejects(c, m) \/ Sends(c, m)
  PROVE  /\ ShapeInv' /\ \A d \in Clients \ {c} : Untouched(d)
         /\ CallInv(c)' /\ ~Told(c)' /\ call'[c] = m
<1>1. ShapeInv /\ CallInv(c) BY DEF IInv
<1>2. m # NoCall BY NoCallIsNone
<1>3. reply[c][1] \in ReplyKinds
  BY <1>1 DEF CallInv, ReplyInv
<1>4. result[c] = Open BY <1>1 DEF CallInv
<1>5. CASE Rejects(c, m)
  <2>1. PICK r \in {<<"contract", 0>>, <<"number", 0>>} : result' = [result EXCEPT ![c] = r]
    BY <1>5, Zenon DEF Rejects
  <2> r[1] \in {"contract", "number"} OBVIOUS
  <2>2. /\ call' = [call EXCEPT ![c] = m] /\ phase' = [phase EXCEPT ![c] = "done"]
        /\ UNCHANGED <<driver, rows, criteria, reply>>
    BY <1>5 DEF Rejects
  <2>3. ShapeInv' /\ \A d \in Clients \ {c} : Untouched(d)
    BY <1>1, <2>1, <2>2 DEF ShapeInv, Untouched
  <2>4. /\ call'[c] = m /\ phase'[c] = "done" /\ result'[c] = r /\ reply'[c] = reply[c]
    BY <1>1, <2>1, <2>2 DEF ShapeInv
  <2>5. CallInv(c)' BY <1>2, <1>3, <2>1, <2>4 DEF CallInv, ReplyInv, Answers
  <2>6. ~Told(c)' BY <2>1, <2>4 DEF Told
  <2> QED BY <2>3, <2>4, <2>5, <2>6
<1>6. CASE Sends(c, m)
  <2>1. /\ call' = [call EXCEPT ![c] = m] /\ phase' = [phase EXCEPT ![c] = "sent"]
        /\ criteria' = [criteria EXCEPT ![c] = Options(m)]
        /\ UNCHANGED <<driver, rows, reply, result>> /\ ~Refuses(m)
    BY <1>6 DEF Sends
  <2>2. ShapeInv' /\ \A d \in Clients \ {c} : Untouched(d)
    BY <1>1, <2>1 DEF ShapeInv, Untouched
  <2>3. /\ call'[c] = m /\ phase'[c] = "sent" /\ criteria'[c] = Options(m)
        /\ result'[c] = Open /\ reply'[c] = reply[c]
    BY <1>1, <1>4, <2>1 DEF ShapeInv
  <2>4. Open[1] = "open" BY DEF Open
  <2>5. CallInv(c)' BY <1>2, <1>3, <2>1, <2>3, <2>4 DEF CallInv, ReplyInv
  <2>6. ~Told(c)' BY <2>3 DEF Told
  <2> QED BY <2>2, <2>3, <2>5, <2>6
<1> QED BY <1>5, <1>6

LEMMA AnswerStep ==
  ASSUME IInv, NEW c \in Clients, phase[c] \in {"sent", "replied"}, NEW r, Replied(c, r),
         UNCHANGED <<driver, call, criteria, result>>,
         r[1] \in ReplyKinds,
         call[c].kind = "insert" => r[1] \in {"error", "generated"},
         r[1] = "generated" => call[c].kind = "insert" /\ Merged(call[c].data, r[2]) \in Row
  PROVE  /\ ShapeInv' /\ \A d \in Clients \ {c} : Untouched(d)
         /\ CallInv(c)' /\ (Told(c)' <=> r[1] = "generated")
         /\ RowOf(c)' = Merged(call[c].data, r[2])
<1>1. ShapeInv /\ CallInv(c) BY DEF IInv
<1>2. /\ phase' = [phase EXCEPT ![c] = "replied"] /\ reply' = [reply EXCEPT ![c] = r]
  BY DEF Replied
<1>3. ShapeInv' /\ \A d \in Clients \ {c} : Untouched(d)
  BY <1>1, <1>2 DEF ShapeInv, Untouched
<1>4. phase'[c] = "replied" /\ reply'[c] = r BY <1>1, <1>2 DEF ShapeInv
<1>5. Open[1] = "open" BY DEF Open
<1>6. /\ call[c] # NoCall /\ result[c] = Open /\ ~Refuses(call[c])
      /\ criteria[c] = Options(call[c])
  BY <1>1 DEF CallInv
<1>7. CallInv(c)' BY <1>4, <1>5, <1>6 DEF CallInv, ReplyInv
<1>8. Told(c)' <=> r[1] = "generated" BY <1>4 DEF Told
<1>9. RowOf(c)' = Merged(call[c].data, r[2]) BY <1>4 DEF RowOf
<1> QED BY <1>3, <1>7, <1>8, <1>9

\* What the caller is told.
LEMMA SettleStep ==
  ASSUME IInv, NEW c \in Clients, Settle(c)
  PROVE  /\ ShapeInv' /\ \A d \in Clients \ {c} : Untouched(d)
         /\ CallInv(c)' /\ rows' = rows /\ call' = call
         /\ Told(c)' => Told(c) /\ RowOf(c)' = RowOf(c)
<1>1. ShapeInv /\ CallInv(c) BY DEF IInv
<1>2. /\ phase[c] = "replied" /\ phase' = [phase EXCEPT ![c] = "done"]
      /\ result' = [result EXCEPT ![c] = Settled(c)]
      /\ UNCHANGED <<driver, rows, call, criteria, reply>>
  BY DEF Settle
<1>3. ShapeInv' /\ \A d \in Clients \ {c} : Untouched(d)
  BY <1>1, <1>2 DEF ShapeInv, Untouched
<1>4. phase'[c] = "done" /\ result'[c] = Settled(c) BY <1>1, <1>2 DEF ShapeInv
<1>5. /\ reply[c][1] \in ReplyKinds
      /\ call[c].kind = "insert" => reply[c][1] \in {"error", "generated"}
      /\ reply[c][1] = "generated" =>
           call[c].kind = "insert" /\ Merged(call[c].data, reply[c][2]) \in Row
      /\ call[c] # NoCall
  BY <1>1, <1>2 DEF CallInv, ReplyInv
<1>6. CASE reply[c][1] = "generated"
  <2>1. Settled(c) = <<"row", Merged(call[c].data, reply[c][2])>> BY <1>6 DEF Settled
  <2>2. result'[c][1] = "row" /\ result'[c][2] = Merged(call[c].data, reply[c][2])
    BY <1>4, <2>1
  <2>3. CallInv(c)' BY <1>2, <1>4, <1>5, <1>6, <2>2 DEF CallInv, ReplyInv, Answers
  <2>4. Told(c) BY <1>2, <1>5, <1>6 DEF Told
  <2>5. RowOf(c) = Merged(call[c].data, reply[c][2]) BY <1>2 DEF RowOf
  <2>6. RowOf(c)' = result'[c][2] BY <1>4 DEF RowOf
  <2> QED BY <1>2, <1>3, <2>2, <2>3, <2>4, <2>5, <2>6
<1>7. CASE reply[c][1] = "error"
  <2>1. Settled(c) = Rejection(reply[c][2]) BY <1>7 DEF Settled
  <2>2. Settled(c)[1] \in {"failed", "conflict"} BY <2>1 DEF Rejection
  <2>3. CallInv(c)' BY <1>2, <1>4, <1>5, <1>7, <2>2 DEF CallInv, ReplyInv, Answers
  <2>4. ~Told(c)' BY <1>4, <2>2 DEF Told
  <2> QED BY <1>2, <1>3, <2>3, <2>4
<1>8. CASE reply[c][1] \in {"none", "entity", "entities", "total", "affected", "unreported"}
  <2>1. Settled(c)[1] \in {"null", "row", "rows", "number"}
    <3>1. CASE reply[c][1] = "none" BY <3>1 DEF Settled
    <3>2. CASE reply[c][1] = "entity" BY <3>2 DEF Settled
    <3>3. CASE reply[c][1] = "entities" BY <3>3 DEF Settled
    <3>4. CASE reply[c][1] \in {"total", "affected"} BY <3>4 DEF Settled
    <3>5. CASE reply[c][1] = "unreported" BY <3>5 DEF Settled
    <3> QED BY <1>8, <3>1, <3>2, <3>3, <3>4, <3>5
  <2>2. call[c].kind # "insert" BY <1>5, <1>8
  <2>3. CallInv(c)' BY <1>2, <1>4, <1>5, <2>1, <2>2 DEF CallInv, ReplyInv, Answers
  <2>4. ~Told(c)' BY <1>2, <2>2 DEF Told
  <2> QED BY <1>2, <1>3, <2>3, <2>4
<1> QED BY <1>5, <1>6, <1>7, <1>8 DEF ReplyKinds

-----------------------------------------------------------------------------
(* The invariant is inductive                                              *)

\* A step of one client that tells nobody of a new row.
LEMMA QuietStep ==
  ASSUME IInv, NEW c \in Clients, ShapeInv', CallInv(c)',
         \A d \in Clients \ {c} : Untouched(d),
         RowsInv', OnlyInserts' => OnlyInserts /\ rows' = rows,
         Told(c)' => Told(c) /\ RowOf(c)' = RowOf(c)
  PROVE  IInv'
<1>1. \A d \in Clients : CallInv(d)' BY CallUntouched DEF IInv
<1>2. ToldInv'
  <2> SUFFICES ASSUME OnlyInserts'
               PROVE  /\ \A d \in Clients : Told(d)' => RowOf(d)' \in rows'
                      /\ \A d, e \in Clients :
                           d # e /\ Told(d)' /\ Told(e)' => RowOf(d)' # RowOf(e)'
    BY Zenon DEF ToldInv
  <2>1. \A d \in Clients : Told(d)' => Told(d) /\ RowOf(d)' = RowOf(d)
    BY CallUntouched DEF IInv
  <2>2. OnlyInserts /\ rows' = rows OBVIOUS
  <2>3. /\ \A d \in Clients : Told(d) => RowOf(d) \in rows
        /\ \A d, e \in Clients : d # e /\ Told(d) /\ Told(e) => RowOf(d) # RowOf(e)
    BY <2>2 DEF IInv, ToldInv
  <2> QED BY <2>1, <2>2, <2>3
<1> QED BY <1>1, <1>2 DEF IInv

LEMMA Inductive == IInv /\ [Next]_vars => IInv'
<1> SUFFICES ASSUME IInv, [Next]_vars PROVE IInv' OBVIOUS
<1>1. ShapeInv /\ RowsInv BY DEF IInv
<1>2. CASE UNCHANGED vars
  BY <1>2 DEF vars, IInv, RowsInv, ShapeInv, CallInv, ReplyInv, ToldInv, OnlyInserts,
              Told, RowOf
<1>3. ASSUME NEW c \in Clients, Invoke(c) PROVE IInv'
  <2>1. PICK m \in Calls : Rejects(c, m) \/ Sends(c, m) BY <1>3, InvokeEffect
  <2>2. phase[c] = "idle" BY <1>3, InvokeEffect
  <2>3. /\ ShapeInv' /\ CallInv(c)' /\ ~Told(c)' /\ call'[c] = m
        /\ \A d \in Clients \ {c} : Untouched(d)
    BY <2>1, <2>2, InvokeStep
  <2>4. rows' = rows BY <2>1 DEF Rejects, Sends
  <2>5. RowsInv' BY <1>1, <2>4 DEF RowsInv, Unique
  <2>6. OnlyInserts' => OnlyInserts
    <3>1. call[c].kind = "none" BY <2>2, NoCallIsNone DEF IInv, CallInv
    <3>2. \A d \in Clients \ {c} : call'[d] = call[d] BY <2>3 DEF Untouched
    <3> QED BY <3>1, <3>2 DEF OnlyInserts
  <2> QED BY <2>3, <2>4, <2>5, <2>6, QuietStep
<1>4. ASSUME NEW c \in Clients, NEW r, phase[c] \in {"sent", "replied"},
             rows' = rows, Replied(c, r), UNCHANGED <<driver, call, criteria, result>>,
             r[1] \in {"none", "entity", "entities", "total", "error"},
             call[c].kind = "insert" => r[1] = "error"
      PROVE  IInv'
  <2>1. /\ ShapeInv' /\ CallInv(c)' /\ ~Told(c)'
        /\ \A d \in Clients \ {c} : Untouched(d)
    BY <1>4, AnswerStep DEF ReplyKinds
  <2>2. RowsInv' BY <1>1, <1>4 DEF RowsInv, Unique
  <2>3. OnlyInserts' => OnlyInserts BY <1>4 DEF OnlyInserts
  <2> QED BY <1>4, <2>1, <2>2, <2>3, QuietStep
<1>5. ASSUME NEW c \in Clients, Execute(c), Inserts(c) PROVE IInv'
  <2>1. phase[c] = "sent" /\ UNCHANGED <<driver, call, criteria, result>>
    BY <1>5, ExecuteEffect
  <2>2. PICK r \in Row :
          /\ r \notin rows /\ Unique(rows \cup {r}) /\ rows' = rows \cup {r}
          /\ Merged(call[c].data, Generated(r, call[c].data)) = r
          /\ Replied(c, <<"generated", Generated(r, call[c].data)>>)
    BY <1>5 DEF Inserts
  <2> DEFINE answer == <<"generated", Generated(r, call[c].data)>>
  <2>3. answer[1] = "generated" /\ answer[2] = Generated(r, call[c].data) OBVIOUS
  <2>4. call[c].kind = "insert" BY <1>5 DEF Inserts
  <2>5. /\ ShapeInv' /\ CallInv(c)' /\ RowOf(c)' = r
        /\ \A d \in Clients \ {c} : Untouched(d)
    <3> HIDE DEF answer
    <3>1. Replied(c, answer) BY <2>2 DEF answer
    <3> QED BY <2>1, <2>2, <2>3, <2>4, <3>1, AnswerStep DEF ReplyKinds
  <2>6. RowsInv' BY <1>1, <2>2 DEF RowsInv
  <2>7. \A d \in Clients : CallInv(d)' BY <2>5, CallUntouched DEF IInv
  <2>8. ToldInv'
    <3> SUFFICES ASSUME OnlyInserts'
                 PROVE  /\ \A d \in Clients : Told(d)' => RowOf(d)' \in rows'
                        /\ \A d, e \in Clients :
                             d # e /\ Told(d)' /\ Told(e)' => RowOf(d)' # RowOf(e)'
      BY Zenon DEF ToldInv
    <3>1. OnlyInserts BY <2>1 DEF OnlyInserts
    <3>2. /\ \A d \in Clients : Told(d) => RowOf(d) \in rows
          /\ \A d, e \in Clients : d # e /\ Told(d) /\ Told(e) => RowOf(d) # RowOf(e)
      BY <3>1 DEF IInv, ToldInv
    <3>3. \A d \in Clients \ {c} : Told(d)' = Told(d) /\ RowOf(d)' = RowOf(d)
      BY <2>5, CallUntouched DEF IInv
    <3> QED BY <2>2, <2>5, <3>2, <3>3
  <2> QED BY <2>5, <2>6, <2>7, <2>8 DEF IInv
<1>6. ASSUME NEW c \in Clients, Execute(c), Alters(c) PROVE IInv'
  <2>1. phase[c] = "sent" /\ UNCHANGED <<driver, call, criteria, result>>
    BY <1>6, ExecuteEffect
  <2>2. /\ call[c].kind \in {"update", "remove"} /\ rows' \subseteq Row /\ Unique(rows')
    BY <1>6 DEF Alters
  <2>3. PICK answer : answer[1] \in {"affected", "unreported"} /\ Replied(c, answer)
    BY <1>6 DEF Alters
  <2>5. /\ ShapeInv' /\ CallInv(c)' /\ ~Told(c)'
        /\ \A d \in Clients \ {c} : Untouched(d)
    BY <2>1, <2>2, <2>3, AnswerStep DEF ReplyKinds
  <2>6. RowsInv' BY <2>2 DEF RowsInv, Unique
  <2>7. ~OnlyInserts' BY <2>1, <2>2 DEF OnlyInserts
  <2> QED BY <2>5, <2>6, <2>7, QuietStep
<1>7. ASSUME NEW c \in Clients, Execute(c) PROVE IInv'
  <2>1. CASE Reads(c)
    <3>1. phase[c] = "sent" /\ UNCHANGED <<driver, call, criteria, result>> /\ rows' = rows
      BY <1>7, <2>1, ExecuteEffect DEF Reads
    <3>2. PICK r : /\ r[1] \in {"none", "entity", "entities", "total", "error"}
                   /\ call[c].kind = "insert" => r[1] = "error"
                   /\ Replied(c, r)
      BY <2>1 DEF Reads
    <3> QED BY <1>4, <3>1, <3>2
  <2> QED BY <1>5, <1>6, <1>7, <2>1, ExecuteEffect
<1>8. ASSUME NEW c \in Clients, FailBefore(c) \/ FailAfter(c) PROVE IInv'
  <2>1. /\ phase[c] \in {"sent", "replied"} /\ Replied(c, Disconnected)
        /\ UNCHANGED <<driver, rows, call, criteria, result>>
    BY <1>8 DEF FailBefore, FailAfter
  <2>2. Disconnected[1] = "error" BY DEF Disconnected, Error
  <2> QED BY <1>4, <2>1, <2>2
<1>9. ASSUME NEW c \in Clients, Settle(c) PROVE IInv'
  <2>1. /\ ShapeInv' /\ CallInv(c)' /\ rows' = rows /\ call' = call
        /\ Told(c)' => Told(c) /\ RowOf(c)' = RowOf(c)
        /\ \A d \in Clients \ {c} : Untouched(d)
    BY <1>9, SettleStep
  <2>2. RowsInv' BY <1>1, <2>1 DEF RowsInv, Unique
  <2>3. OnlyInserts' => OnlyInserts BY <2>1 DEF OnlyInserts
  <2> QED BY <2>1, <2>2, <2>3, QuietStep
<1> QED BY <1>2, <1>3, <1>7, <1>8, <1>9 DEF Next, AllDone

LEMMA AlwaysIInv == Spec => []IInv
BY InitInv, Inductive, PTL DEF Spec

\* The driver is the one the process started with.
LEMMA DriverStays == Spec => [](driver \in Drivers)
<1>1. Init => driver \in Drivers BY DEF Init
<1>2. driver \in Drivers /\ [Next]_vars => (driver \in Drivers)'
  <2>1. ASSUME NEW c \in Clients, Invoke(c) \/ Execute(c) PROVE driver' = driver
    BY <2>1, Zenon DEF Invoke, Execute
  <2>2. ASSUME NEW c \in Clients, FailBefore(c) \/ FailAfter(c) \/ Settle(c)
        PROVE  driver' = driver
    BY <2>2, Zenon DEF FailBefore, FailAfter, Settle
  <2>3. AllDone \/ UNCHANGED vars => driver' = driver BY DEF AllDone, vars
  <2> QED BY <2>1, <2>2, <2>3, Zenon DEF Next
<1> QED BY <1>1, <1>2, PTL DEF Spec

\* The table and the calls keep their types: a row is a row, and a promise never
\* settles with a driver's own words.
THEOREM TypeCorrect == Spec => []TypeOK
<1>1. IInv /\ driver \in Drivers => TypeOK
  <2> SUFFICES ASSUME IInv, driver \in Drivers PROVE TypeOK OBVIOUS
  <2>1. rows \subseteq Row /\ ShapeInv BY DEF IInv, RowsInv
  <2>2. ASSUME NEW c \in Clients
        PROVE  /\ call[c] \in Calls \cup {NoCall}
               /\ reply[c][1] \in ReplyKinds
               /\ phase[c] = "done" => result[c][1] \in Answers
               /\ result[c][1] = "row" /\ call[c].kind = "insert" => result[c][2] \in Row
    BY <2>1 DEF ShapeInv, IInv, CallInv, ReplyInv
  <2> QED BY <2>1, <2>2 DEF ShapeInv, ReplyKinds, TypeOK
<1> QED BY AlwaysIInv, DriverStays, <1>1, PTL

\* Of any number of callers that insert one email, at most one is told that it did,
\* as long as nobody updates or removes, wherever connections break.
THEOREM OneInserts == Spec => []OneInsertWins
<1>1. IInv => OneInsertWins
  <2> SUFFICES ASSUME IInv, OnlyInserts, NEW c \in Clients, NEW d \in Clients, c # d,
                      result[c][1] = "row", result[d][1] = "row",
                      call[c].kind = "insert", call[d].kind = "insert"
               PROVE  result[c][2].email # result[d][2].email
    BY Zenon DEF OneInsertWins, OnlyInserts
  <2>1. Open[1] = "open" BY DEF Open
  <2>2. phase[c] = "done" /\ phase[d] = "done" BY <2>1 DEF IInv, CallInv
  <2>3. Told(c) /\ Told(d) /\ RowOf(c) = result[c][2] /\ RowOf(d) = result[d][2]
    BY <2>2 DEF Told, RowOf
  <2>4. /\ RowOf(c) \in rows /\ RowOf(d) \in rows /\ RowOf(c) # RowOf(d)
        /\ Unique(rows)
    BY <2>3 DEF IInv, ToldInv, RowsInv
  <2> QED BY <2>3, <2>4 DEF Unique
<1> QED BY AlwaysIInv, <1>1, PTL

-----------------------------------------------------------------------------
(* Only the rows that a caller described change                            *)

\* A row that meets the condition TypeORM was given meets the one the caller wrote.
LEMMA ConditionMeans ==
  ASSUME NEW where, NEW column \in DOMAIN where, NEW value,
         where[column][1] \in {"null", "array", "scalar"},
         Satisfies(value, ToWhere(where)[column])
  PROVE  Asked(value, where[column])
<1> DEFINE given == where[column]
<1>1. ToWhere(where)[column] = CASE given[1] = "null"  -> <<"IsNull", 0>>
                                 [] given[1] = "array" -> <<"In", given[2]>>
                                 [] OTHER -> given
  BY Zenon DEF ToWhere
<1> DEFINE condition == ToWhere(where)[column]
<1>2. Satisfies(value, condition) OBVIOUS
<1>3. condition = CASE given[1] = "null"  -> <<"IsNull", 0>>
                    [] given[1] = "array" -> <<"In", given[2]>>
                    [] OTHER -> given
  BY <1>1
<1>4. given[1] \in {"null", "array", "scalar"} OBVIOUS
<1> HIDE DEF given, condition
<1>5. CASE given[1] = "null"
  <2>1. condition[1] = "IsNull" BY <1>3, <1>5
  <2> QED BY <1>2, <1>5, <2>1 DEF Satisfies, Asked, given
<1>6. CASE given[1] = "array"
  <2>1. condition[1] = "In" /\ condition[2] = given[2] BY <1>3, <1>6
  <2> QED BY <1>2, <1>6, <2>1 DEF Satisfies, Asked, given
<1>7. CASE given[1] = "scalar"
  <2>1. condition = given BY <1>3, <1>7
  <2> QED BY <1>2, <1>7, <2>1 DEF Satisfies, Asked, given
<1> QED BY <1>4, <1>5, <1>6, <1>7

\* The rows a statement of an update or removal selects are those its caller described.
LEMMA FilterMeans ==
  ASSUME NEW m \in Calls, m.kind \in {"update", "remove"}, ~Refuses(m),
         NEW r \in Selected(Options(m))
  PROVE  /\ DOMAIN m.where # {}
         /\ \A column \in DOMAIN m.where : Asked(r[column], m.where[column])
<1>1. DOMAIN m.where # {} /\ ~HasUndefined(m.where) BY DEF Refuses
<1>2. Options(m) = [where |-> ToWhere(m.where)] BY DEF Options
<1>3. Options(m).where = ToWhere(m.where) BY <1>2
<1>4. DOMAIN ToWhere(m.where) = DOMAIN m.where BY Zenon DEF ToWhere
<1>5. ASSUME NEW column \in DOMAIN m.where PROVE Asked(r[column], m.where[column])
  <2>1. Satisfies(r[column], ToWhere(m.where)[column]) BY <1>3, <1>4 DEF Selected
  <2>2. m.where[column][1] \in {"null", "array", "scalar"}
    BY <1>1, Assumed DEF HasUndefined
  <2> QED BY <2>1, <2>2, ConditionMeans
<1> QED BY <1>1, <1>5

\* What one step does to a row that was there.
LEMMA RowStep ==
  ASSUME IInv, [Next]_vars, NEW r \in rows \ rows'
  PROVE  \E c \in Clients :
           /\ phase[c] = "sent" /\ phase'[c] = "replied"
           /\ call[c].kind \in {"update", "remove"} /\ DOMAIN call[c].where # {}
           /\ \A column \in DOMAIN call[c].where : Asked(r[column], call[c].where[column])
<1>1. rows' # rows OBVIOUS
<1>2. PICK c \in Clients : Execute(c)
  <2>1. ASSUME NEW c \in Clients, Invoke(c) \/ FailBefore(c) \/ FailAfter(c) \/ Settle(c)
        PROVE  rows' = rows
    BY <2>1 DEF Invoke, FailBefore, FailAfter, Settle
  <2>2. AllDone \/ UNCHANGED vars => rows' = rows BY DEF AllDone, vars
  <2> QED BY <1>1, <2>1, <2>2, Zenon DEF Next
<1>3. phase[c] = "sent" /\ (Reads(c) \/ Inserts(c) \/ Alters(c)) BY <1>2, ExecuteEffect
<1>4. Alters(c) BY <1>3 DEF Reads, Inserts
<1>5. phase'[c] = "replied"
  <2>1. PICK answer : Replied(c, answer) BY <1>4 DEF Alters
  <2>2. phase' = [phase EXCEPT ![c] = "replied"] BY <2>1, Zenon DEF Replied
  <2> QED BY <2>2 DEF IInv, ShapeInv
<1>6. /\ call[c].kind \in {"update", "remove"} /\ call[c] \in Calls
      /\ ~Refuses(call[c]) /\ criteria[c] = Options(call[c])
  BY <1>3, <1>4 DEF Alters, IInv, ShapeInv, CallInv
<1>7. r \in Selected(Options(call[c])) BY <1>4, <1>6 DEF Alters
<1> QED BY <1>3, <1>5, <1>6, <1>7, FilterMeans

\* Whatever the filter, a row changes or disappears only by the update or removal of a
\* client whose filter, as it was written, is not empty and describes that row.
THEOREM RowsChange == Spec => RowsChangeOnlyWhenAsked
<1>1. IInv /\ [Next]_vars =>
        [\A r \in rows \ rows' : \E c \in Clients :
           /\ phase[c] = "sent" /\ phase'[c] = "replied"
           /\ call[c].kind \in {"update", "remove"} /\ DOMAIN call[c].where # {}
           /\ \A column \in DOMAIN call[c].where : Asked(r[column], call[c].where[column])]_vars
  BY RowStep
<1> QED BY AlwaysIInv, <1>1, PTL DEF Spec, RowsChangeOnlyWhenAsked
=============================================================================
