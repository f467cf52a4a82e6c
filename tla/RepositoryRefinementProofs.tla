--------------------- MODULE RepositoryRefinementProofs ---------------------
(***************************************************************************)
(* The adapter implements the port, for any number of callers, any table   *)
(* and any calls: what TypeORM is given means what the caller asked, and   *)
(* what the driver answers means what the caller is told.                  *)
(***************************************************************************)
EXTENDS TypeOrmRepositoryProofs, FiniteSetTheorems, SequenceTheorems, WellFoundedInduction

Orders == Seq({"id", "email"} \X {"asc", "desc", "undefined"})

-----------------------------------------------------------------------------
(* Filters, orders and pages mean the same on both sides                   *)

\* A legal table is finite, for its keys are.
LEMMA FiniteRows == RowsInv => IsFiniteSet(rows)
<1> SUFFICES ASSUME RowsInv PROVE IsFiniteSet(rows) OBVIOUS
<1> DEFINE key == [r \in rows |-> r.id]
<1>1. \A r \in rows : r.id \in Ids BY DEF RowsInv, Row
<1>2. \A r, s \in rows : r.id = s.id => r = s BY DEF RowsInv, Unique
<1>3. key \in Injection(rows, Ids)
  <2>1. key \in [rows -> Ids] BY <1>1
  <2>2. \A r, s \in rows : key[r] = key[s] => r = s BY <1>2
  <2> HIDE DEF key
  <2> QED BY <2>1, <2>2 DEF Injection, IsInjective
<1>4. IsFiniteSet(Ids) BY Assumed
<1> QED BY <1>3, <1>4, FS_Injection

\* The rows TypeORM selects are those the caller's filter describes.
LEMMA SameFilter ==
  ASSUME NEW m \in Calls, m.kind # "insert", ~Refuses(m)
  PROVE  Selected(Options(m)) = Port!Matching(rows, m.where)
<1>1. ~HasUndefined(m.where) BY DEF Refuses
<1>2. Options(m).where = ToWhere(m.where)
  <2>1. CASE m.kind = "findMany" BY <2>1 DEF Options
  <2>2. CASE m.kind = "findOne" BY <2>2 DEF Options
  <2>3. CASE m.kind \notin {"findMany", "findOne"} BY <2>3 DEF Options
  <2> QED BY <2>1, <2>2, <2>3
<1>3. DOMAIN ToWhere(m.where) = DOMAIN m.where BY Zenon DEF ToWhere
<1>4. ASSUME NEW column \in DOMAIN m.where, NEW value
      PROVE  Satisfies(value, ToWhere(m.where)[column]) <=> Port!Meets(value, m.where[column])
  <2> DEFINE given == m.where[column]
             condition == ToWhere(m.where)[column]
  <2>1. /\ given[1] \in {"null", "array", "scalar"}
        /\ given[1] = "scalar" => given[2] # Null
    BY <1>1, Assumed DEF HasUndefined
  <2>2. condition = CASE given[1] = "null"  -> <<"IsNull", 0>>
                      [] given[1] = "array" -> <<"In", given[2]>>
                      [] OTHER -> given
    BY Zenon DEF ToWhere
  <2>3. SUFFICES Satisfies(value, condition) <=> Port!Meets(value, given) OBVIOUS
  <2> HIDE DEF given, condition
  <2>4. CASE given[1] = "null"
    <3>1. condition[1] = "IsNull" BY <2>2, <2>4
    <3> QED BY <2>4, <3>1 DEF Satisfies, Port!Meets
  <2>5. CASE given[1] = "array"
    <3>1. condition[1] = "In" /\ condition[2] = given[2] BY <2>2, <2>5
    <3> QED BY <2>5, <3>1 DEF Satisfies, Port!Meets
  <2>6. CASE given[1] = "scalar"
    <3>1. condition = given BY <2>2, <2>6
    <3> QED BY <2>1, <2>6, <3>1 DEF Satisfies, Port!Meets
  <2> QED BY <2>1, <2>4, <2>5, <2>6
<1> QED BY <1>2, <1>3, <1>4 DEF Selected, Port!Matching

\* What the database orders by is what the caller asked.
LEMMA SameOrder ==
  ASSUME NEW orderBy \in Orders, NEW r \in Row, NEW s \in Row
  PROVE  Port!Precedes(r, s, orderBy) <=>
           \E k \in DOMAIN ToOrder(orderBy) :
             /\ Below(r[ToOrder(orderBy)[k][1]], s[ToOrder(orderBy)[k][1]], ToOrder(orderBy)[k][2])
             /\ \A l \in DOMAIN ToOrder(orderBy) :
                  l < k => s[ToOrder(orderBy)[l][1]] = r[ToOrder(orderBy)[l][1]]
<1> DEFINE order == ToOrder(orderBy)
<1>1. DOMAIN order = Directed(orderBy) BY Zenon DEF ToOrder
<1>2. ASSUME NEW k \in Directed(orderBy)
      PROVE  /\ order[k][1] = orderBy[k][1]
             /\ order[k][2] = IF orderBy[k][2] = "desc" THEN "DESC" ELSE "ASC"
  BY <1>2 DEF ToOrder
<1>3. DOMAIN orderBy = 1..Len(orderBy) /\ Len(orderBy) \in Nat BY DEF Orders
<1>4. \A k \in DOMAIN orderBy : orderBy[k] \in {"id", "email"} \X {"asc", "desc", "undefined"}
  BY <1>3 DEF Orders
<1>5. \A k \in DOMAIN orderBy : r[orderBy[k][1]] \in Nat /\ s[orderBy[k][1]] \in Nat
  BY <1>4, Assumed DEF Row
<1>6. ASSUME NEW k \in Directed(orderBy)
      PROVE  Below(r[order[k][1]], s[order[k][1]], order[k][2]) <=>
               \/ orderBy[k][2] = "asc" /\ r[orderBy[k][1]] < s[orderBy[k][1]]
               \/ orderBy[k][2] = "desc" /\ r[orderBy[k][1]] > s[orderBy[k][1]]
  <2>1. k \in DOMAIN orderBy /\ orderBy[k][2] # "undefined" BY DEF Directed
  <2>2. orderBy[k][2] \in {"asc", "desc"} BY <1>4, <2>1
  <2> HIDE DEF order
  <2> QED BY <1>2, <1>5, <2>1, <2>2 DEF Below
<1>7. ASSUME NEW k \in DOMAIN orderBy
      PROVE  (\A j \in 1..(k - 1) :
                orderBy[j][2] = "undefined" \/ r[orderBy[j][1]] = s[orderBy[j][1]])
             <=> \A l \in DOMAIN order : l < k => s[order[l][1]] = r[order[l][1]]
  <2>1. \A l : l \in DOMAIN order <=> l \in DOMAIN orderBy /\ orderBy[l][2] # "undefined"
    BY <1>1 DEF Directed
  <2>2. \A l \in DOMAIN order : order[l][1] = orderBy[l][1] BY <1>1, <1>2
  <2> HIDE DEF order
  <2> QED BY <1>3, <2>1, <2>2
<1>8. Port!Precedes(r, s, orderBy) <=>
        \E k \in DOMAIN orderBy :
          /\ \/ orderBy[k][2] = "asc" /\ r[orderBy[k][1]] < s[orderBy[k][1]]
             \/ orderBy[k][2] = "desc" /\ r[orderBy[k][1]] > s[orderBy[k][1]]
          /\ \A j \in 1..(k - 1) :
               orderBy[j][2] = "undefined" \/ r[orderBy[j][1]] = s[orderBy[j][1]]
  BY Zenon DEF Port!Precedes
<1>9. \A k \in DOMAIN orderBy :
        orderBy[k][2] \in {"asc", "desc"} => k \in Directed(orderBy)
  BY DEF Directed
<1>10. \A k \in Directed(orderBy) : k \in DOMAIN orderBy BY DEF Directed
<1> HIDE DEF order
<1>11. Port!Precedes(r, s, orderBy) <=>
        \E k \in DOMAIN order :
          /\ Below(r[order[k][1]], s[order[k][1]], order[k][2])
          /\ \A l \in DOMAIN order : l < k => s[order[l][1]] = r[order[l][1]]
  BY <1>1, <1>6, <1>7, <1>8, <1>9, <1>10
<1> QED BY <1>11 DEF order

\* The two modules count alike.
LEMMA SameCardinality == ASSUME NEW S PROVE Port!Cardinality(S) = Cardinality(S)
BY DEF Port!Cardinality, Cardinality

\* The lists the database may answer are those the port allows.
LEMMA SameLists ==
  ASSUME NEW orderBy \in Orders, NEW found \in SUBSET Row, IsFiniteSet(found)
  PROVE  Lists(found, ToOrder(orderBy)) = Port!Arrangements(found, orderBy)
<1> DEFINE order == ToOrder(orderBy)
           n == Cardinality(found)
<1>1. n \in Nat BY FS_CardinalityType
<1>2. ASSUME NEW list \in [1..n -> found]
      PROVE  (Sorted(list, order) /\ \A i, j \in DOMAIN list : list[i] = list[j] => i = j)
             <=> \A i, j \in DOMAIN list : i < j =>
                   list[i] # list[j] /\ ~Port!Precedes(list[j], list[i], orderBy)
  <2>1. DOMAIN list = 1..n /\ \A i \in 1..n : list[i] \in Row OBVIOUS
  <2> DEFINE Wrong(i, j) ==
               \E k \in DOMAIN order :
                 /\ Below(list[j][order[k][1]], list[i][order[k][1]], order[k][2])
                 /\ \A l \in DOMAIN order : l < k => list[i][order[l][1]] = list[j][order[l][1]]
  <2>2. Sorted(list, order) <=> \A i, j \in DOMAIN list : i < j => ~Wrong(i, j)
    BY Zenon DEF Sorted
  <2>3. ASSUME NEW i \in 1..n, NEW j \in 1..n
        PROVE  Port!Precedes(list[j], list[i], orderBy) <=> Wrong(i, j)
    BY <2>1, SameOrder, Zenon
  <2> HIDE DEF Wrong
  <2>4. Sorted(list, order) <=>
          \A i, j \in DOMAIN list : i < j => ~Port!Precedes(list[j], list[i], orderBy)
    BY <2>1, <2>2, <2>3
  <2>5. (\A i, j \in DOMAIN list : list[i] = list[j] => i = j) <=>
          \A i, j \in DOMAIN list : i < j => list[i] # list[j]
    BY <1>1, <2>1
  <2> QED BY <2>4, <2>5, Zenon
<1>3. Lists(found, order) =
        {list \in [1..n -> found] :
           Sorted(list, order) /\ \A i, j \in DOMAIN list : list[i] = list[j] => i = j}
  BY Zenon DEF Lists
<1>4. Port!Arrangements(found, orderBy) =
        {list \in [1..n -> found] :
           \A i, j \in DOMAIN list : i < j =>
             list[i] # list[j] /\ ~Port!Precedes(list[j], list[i], orderBy)}
  BY SameCardinality, Zenon DEF Port!Arrangements
<1> HIDE DEF order, n
<1> QED BY <1>2, <1>3, <1>4, Zenon DEF order

\* A list of all rows found names each of them.
LEMMA ListsAreComplete ==
  ASSUME NEW found, IsFiniteSet(found), NEW orderBy,
         NEW list \in Port!Arrangements(found, orderBy)
  PROVE  /\ Cardinality(found) \in Nat /\ list \in [1..Cardinality(found) -> found]
         /\ \A r \in found : \E i \in 1..Cardinality(found) : list[i] = r
<1> DEFINE n == Cardinality(found)
<1>1. n \in Nat BY FS_CardinalityType
<1>2. /\ list \in [1..n -> found]
      /\ \A i, j \in DOMAIN list : i < j => list[i] # list[j]
  BY SameCardinality DEF Port!Arrangements
<1>3. list \in Injection(1..n, found)
  <2>1. \A i, j \in 1..n : list[i] = list[j] => i = j BY <1>1, <1>2
  <2> QED BY <1>2, <2>1 DEF Injection, IsInjective
<1>4. Cardinality(1..n) = n BY <1>1, FS_Interval
<1>5. list \in Surjection(1..n, found) BY <1>3, <1>4, FS_Injection
<1> QED BY <1>1, <1>2, <1>5 DEF Surjection

\* A row does not come before itself.
LEMMA Irreflexive ==
  ASSUME NEW orderBy \in Orders, NEW r \in Row
  PROVE  ~Port!Precedes(r, r, orderBy)
<1>1. ASSUME NEW k \in DOMAIN orderBy
      PROVE  r[orderBy[k][1]] \in Nat
  <2>1. orderBy[k] \in {"id", "email"} \X {"asc", "desc", "undefined"} BY DEF Orders
  <2> QED BY <2>1, Assumed DEF Row
<1> QED BY <1>1 DEF Port!Precedes

\* The first row of a list is one that no other precedes.
LEMMA FirstIsLeast ==
  ASSUME NEW found \in SUBSET Row, IsFiniteSet(found), found # {}, NEW orderBy \in Orders,
         NEW list \in Port!Arrangements(found, orderBy)
  PROVE  list[1] \in found /\ \A s \in found : ~Port!Precedes(s, list[1], orderBy)
<1> DEFINE n == Cardinality(found)
<1>1. /\ n \in Nat /\ list \in [1..n -> found]
      /\ \A r \in found : \E i \in 1..n : list[i] = r
  BY ListsAreComplete
<1>2. \A i, j \in DOMAIN list : i < j => ~Port!Precedes(list[j], list[i], orderBy)
  BY DEF Port!Arrangements
<1> HIDE DEF n
<1>3. 1 \in 1..n BY <1>1
<1>4. ASSUME NEW s \in found PROVE ~Port!Precedes(s, list[1], orderBy)
  <2>1. PICK i \in 1..n : list[i] = s BY <1>1
  <2>2. CASE i = 1 BY <2>1, <2>2, Irreflexive
  <2>3. CASE i # 1
    <3>1. 1 < i BY <1>1, <2>3
    <3> QED BY <1>1, <1>2, <1>3, <2>1, <3>1
  <2> QED BY <2>2, <2>3
<1> QED BY <1>1, <1>3, <1>4

\* The first rows of a rest are a piece of the list.
LEMMA RestOfRest ==
  ASSUME NEW S, NEW s \in Seq(S), NEW i \in Nat, NEW j \in Nat, NEW n \in Nat,
         j <= Len(s), 1 <= n, i + n <= j
  PROVE  SubSeq(SubSeq(s, i + 1, j), 1, n) = SubSeq(s, i + 1, i + n)
<1> DEFINE a == i + 1
           m == 1
<1> Len(s) \in Nat OBVIOUS
<1>1. a \in 1..Len(s) /\ j \in 1..Len(s) OBVIOUS
<1>2. m \in 1..(j - a + 1) /\ n \in 1..(j - a + 1) OBVIOUS
<1>3. a + m - 1 = i + 1 /\ a + n - 1 = i + n OBVIOUS
<1> HIDE DEF a, m
<1>4. SubSeq(SubSeq(s, a, j), m, n) = SubSeq(s, a + m - 1, a + n - 1)
  BY <1>1, <1>2, SubSeqOfSubSeq
<1> QED BY <1>3, <1>4 DEF a, m

\* LIMIT and OFFSET cut the page the caller asked.
LEMMA SamePage ==
  ASSUME NEW S, NEW list \in Seq(S), NEW page,
         "skip" \in DOMAIN page => page.skip \in Nat,
         "take" \in DOMAIN page => page.take \in Nat \ {0}
  PROVE  Cut(list, page) = Port!Page(list, page)
<1> DEFINE skip == IF "skip" \in DOMAIN page THEN page.skip ELSE 0
           first == IF "skip" \in DOMAIN page THEN page.skip + 1 ELSE 1
           rest == SubSeq(list, skip + 1, Len(list))
           take == page.take
<1>1. skip \in Nat /\ first = skip + 1 OBVIOUS
<1>2. Len(list) \in Nat /\ \A i \in 1..Len(list) : list[i] \in S OBVIOUS
<1>3. Cut(list, page) = IF "take" \in DOMAIN page /\ take < Len(rest)
                        THEN SubSeq(rest, 1, take) ELSE rest
  BY Zenon DEF Cut
<1>4. Port!Page(list, page) =
        SubSeq(list, first, IF "take" \in DOMAIN page /\ first + take <= Len(list) + 1
                            THEN first + take - 1 ELSE Len(list))
  BY Zenon DEF Port!Page
<1>5. "take" \in DOMAIN page => take \in Nat \ {0} OBVIOUS
<1> HIDE DEF skip, first, take
<1>6. Len(rest) = IF skip + 1 <= Len(list) THEN Len(list) - skip ELSE 0
  <2>1. \A i \in (skip + 1)..Len(list) : list[i] \in S BY <1>1, <1>2
  <2>2. Len(rest) = IF skip + 1 <= Len(list) THEN Len(list) - (skip + 1) + 1 ELSE 0
    BY <1>1, <1>2, <2>1, SubSeqProperties
  <2> QED BY <1>1, <1>2, <2>2
<1>7. CASE "take" \in DOMAIN page /\ take < Len(rest)
  <2>1. take \in Nat \ {0} /\ skip + take < Len(list) BY <1>1, <1>2, <1>5, <1>6, <1>7
  <2>2. Port!Page(list, page) = SubSeq(list, skip + 1, skip + take)
    <3>1. first + take <= Len(list) + 1 BY <1>1, <1>2, <2>1
    <3>2. first + take - 1 = skip + take BY <1>1, <2>1
    <3> QED BY <1>1, <1>4, <1>7, <3>1, <3>2
  <2>3. SubSeq(rest, 1, take) = SubSeq(list, skip + 1, skip + take)
    <3>1. skip \in Nat /\ take \in Nat /\ 1 <= take /\ skip + take <= Len(list)
      BY <1>1, <1>2, <2>1
    <3> QED BY <1>2, <3>1, RestOfRest
  <2> QED BY <1>3, <1>7, <2>2, <2>3
<1>8. CASE ~("take" \in DOMAIN page /\ take < Len(rest))
  <2>1. CASE "take" \in DOMAIN page /\ first + take <= Len(list) + 1
    <3>1. first + take - 1 = Len(list) BY <1>1, <1>2, <1>5, <1>6, <1>8, <2>1
    <3> QED BY <1>1, <1>3, <1>4, <1>8, <2>1, <3>1
  <2>2. CASE ~("take" \in DOMAIN page /\ first + take <= Len(list) + 1)
    BY <1>1, <1>3, <1>4, <1>8, <2>2
  <2> QED BY <2>1, <2>2
<1> QED BY <1>7, <1>8

-----------------------------------------------------------------------------
(* What the driver answers, and what it means                              *)

Duplicates(index) ==
  {Error("23505", 0, index), Error("23505", 0, "unknown"),
   Error("ER_DUP_ENTRY", DupEntry, "unknown"), Error("other", DupEntry, "unknown")}
Errors == {Disconnected, Unsupported} \cup Duplicates("id") \cup Duplicates("email")

\* Meaning, of an answer r to a call m.
Means(m, r) ==
  CASE r[1] = "error"     -> IF r \in {Disconnected, Unsupported} THEN <<"failed", 0>>
                             ELSE <<"conflict", r[2].constraint>>
    [] r[1] = "none"      -> <<"null", 0>>
    [] r[1] = "entity"    -> <<"row", r[2]>>
    [] r[1] = "entities"  -> <<"rows", r[2]>>
    [] r[1] = "generated" -> <<"row", [column \in Columns |->
                                IF column \in DOMAIN m.data
                                  THEN m.data[column] ELSE r[2][column]]>>
    [] r[1] \in {"total", "affected"} -> <<"number", r[2]>>
    [] r[1] = "unreported" -> <<"number", 0>>

\* An answer the driver gives: an error it has words for, columns it generated.
AnswerOf(m, r) ==
  /\ r[1] \in ReplyKinds
  /\ r[1] = "error" => r \in Errors
  /\ r[1] = "generated" =>
       \E row : /\ \A column \in DOMAIN m.data : row[column] = m.data[column]
                /\ r[2] = Generated(row, m.data)

AnswersInv == \A c \in Clients : phase[c] = "replied" => AnswerOf(call[c], reply[c])

LEMMA MeaningIsMeans == ASSUME NEW c PROVE Meaning(c) = Means(call[c], reply[c])
BY Zenon DEF Meaning, Means

\* Whichever driver words the duplicate, the constraint it names is found.
LEMMA DuplicateMeans ==
  ASSUME NEW k \in {"id", "email"}, NEW e \in Duplicates(k)
  PROVE  /\ e[1] = "error" /\ e \in Errors /\ e \notin {Disconnected, Unsupported}
         /\ e[2].constraint \in {k, "unknown"}
         /\ Rejection(e[2]) = <<"conflict", e[2].constraint>>
<1>1. e \in Errors BY DEF Errors
<1>2. ASSUME NEW code \in {"23505", "ER_DUP_ENTRY", "other"}, NEW errno,
             NEW constraint \in {"id", "email", "unknown"},
             code = "23505" \/ (errno = DupEntry /\ constraint = "unknown"),
             e = Error(code, errno, constraint)
      PROVE  /\ e[1] = "error" /\ e \notin {Disconnected, Unsupported}
             /\ e[2].constraint = constraint
             /\ Rejection(e[2]) = <<"conflict", e[2].constraint>>
  <2>1. e[1] = "error" /\ e[2] = [code |-> code, errno |-> errno, constraint |-> constraint]
    BY <1>2 DEF Error
  <2>2. e[2].code = code /\ e[2].errno = errno /\ e[2].constraint = constraint BY <2>1
  <2>3. e \notin {Disconnected, Unsupported}
    <3>1. Disconnected[2].code = "ECONNRESET" BY DEF Disconnected, Error
    <3>2. /\ Unsupported[2].code = "other" /\ Unsupported[2].errno = 0
          /\ DupEntry # 0
      BY DEF Unsupported, Error, DupEntry
    <3>3. e # Disconnected BY <2>2, <3>1
    <3>4. e # Unsupported BY <1>2, <2>2, <3>2
    <3> QED BY <3>3, <3>4
  <2>4. UniqueConstraintOf(e[2]) = constraint
    <3>1. CASE code = "23505" BY <2>2, <3>1 DEF UniqueConstraintOf
    <3>2. CASE code # "23505" BY <1>2, <2>2, <3>2 DEF UniqueConstraintOf
    <3> QED BY <3>1, <3>2
  <2>5. constraint # "none" OBVIOUS
  <2> QED BY <2>1, <2>2, <2>3, <2>4, <2>5 DEF Rejection
<1>3. \/ e = Error("23505", 0, k) \/ e = Error("23505", 0, "unknown")
      \/ e = Error("ER_DUP_ENTRY", DupEntry, "unknown")
      \/ e = Error("other", DupEntry, "unknown")
  BY Zenon DEF Duplicates
<1>4. /\ e[1] = "error" /\ e \notin {Disconnected, Unsupported}
      /\ e[2].constraint \in {k, "unknown"}
      /\ Rejection(e[2]) = <<"conflict", e[2].constraint>>
  <2>1. CASE e = Error("23505", 0, k) BY <1>2, <2>1
  <2>2. CASE e = Error("23505", 0, "unknown") BY <1>2, <2>2
  <2>3. CASE e = Error("ER_DUP_ENTRY", DupEntry, "unknown") BY <1>2, <2>3
  <2>4. CASE e = Error("other", DupEntry, "unknown") BY <1>2, <2>4
  <2> QED BY <1>3, <2>1, <2>2, <2>3, <2>4
<1> QED BY <1>1, <1>4

LEMMA DuplicateIsOne == ASSUME NEW k PROVE Duplicate(k) \subseteq Duplicates(k)
BY DEF Duplicate, Duplicates

\* What fails otherwise is no violation of a constraint.
LEMMA FailureMeans ==
  ASSUME NEW e \in {Disconnected, Unsupported}
  PROVE  e[1] = "error" /\ e \in Errors /\ Rejection(e[2]) = <<"failed", 0>>
<1>1. PICK code \in {"ECONNRESET", "other"} : e = Error(code, 0, "unknown")
  BY Zenon DEF Disconnected, Unsupported
<1>2. e[1] = "error" /\ e[2].code = code /\ e[2].errno = 0 BY <1>1 DEF Error
<1>3. UniqueConstraintOf(e[2]) = "none"
  <2>1. DupEntry # 0 BY DEF DupEntry
  <2> QED BY <1>2, <2>1 DEF UniqueConstraintOf
<1> QED BY <1>2, <1>3 DEF Errors, Rejection

\* The caller is told what the answer means.
LEMMA TruthTold ==
  ASSUME NEW c \in Clients, AnswerOf(call[c], reply[c])
  PROVE  Settled(c) = Meaning(c)
<1> DEFINE r == reply[c]
           m == call[c]
<1>1. r[1] \in ReplyKinds BY DEF AnswerOf
<1>2. CASE r[1] = "error"
  <2>1. Settled(c) = Rejection(r[2]) BY <1>2 DEF Settled
  <2>2. Meaning(c) = IF r \in {Disconnected, Unsupported} THEN <<"failed", 0>>
                    ELSE <<"conflict", r[2].constraint>>
    BY <1>2 DEF Meaning
  <2>3. r \in Errors BY <1>2 DEF AnswerOf
  <2>4. CASE r \in {Disconnected, Unsupported} BY <2>1, <2>2, <2>4, FailureMeans
  <2>5. CASE r \notin {Disconnected, Unsupported}
    <3>1. PICK k \in {"id", "email"} : r \in Duplicates(k) BY <2>3, <2>5 DEF Errors
    <3>2. Rejection(r[2]) = <<"conflict", r[2].constraint>> BY <3>1, DuplicateMeans
    <3> QED BY <2>1, <2>2, <2>5, <3>2
  <2> QED BY <2>4, <2>5
<1>3. CASE r[1] = "generated"
  <2>1. PICK row : /\ \A column \in DOMAIN m.data : row[column] = m.data[column]
                   /\ r[2] = Generated(row, m.data)
    BY <1>3 DEF AnswerOf
  <2>2. /\ Settled(c) = <<"row", Merged(m.data, r[2])>>
        /\ Meaning(c) = <<"row", [column \in Columns |->
                            IF column \in DOMAIN m.data THEN m.data[column] ELSE r[2][column]]>>
    BY <1>3 DEF Settled, Meaning
  <2>3. /\ DOMAIN r[2] = Columns \ DOMAIN m.data
    BY <2>1 DEF Generated
  <2>4. Merged(m.data, r[2]) = [column \in Columns |->
                            IF column \in DOMAIN m.data THEN m.data[column] ELSE r[2][column]]
    <3>1. Merged(m.data, r[2]) = [column \in Columns |->
            IF column \in DOMAIN r[2] THEN r[2][column] ELSE m.data[column]]
      BY Zenon DEF Merged
    <3>2. \A column \in Columns :
            (IF column \in DOMAIN r[2] THEN r[2][column] ELSE m.data[column])
            = (IF column \in DOMAIN m.data THEN m.data[column] ELSE r[2][column])
      BY <2>3
    <3> HIDE DEF r, m
    <3> QED BY <3>1, <3>2
  <2> QED BY <2>2, <2>4
<1>4. CASE r[1] = "none" BY <1>4 DEF Settled, Meaning
<1>5. CASE r[1] = "entity" BY <1>5 DEF Settled, Meaning
<1>6. CASE r[1] = "entities" BY <1>6 DEF Settled, Meaning
<1>7. CASE r[1] \in {"total", "affected"} BY <1>7 DEF Settled, Meaning
<1>8. CASE r[1] = "unreported" BY <1>8 DEF Settled, Meaning
<1> QED BY <1>1, <1>2, <1>3, <1>4, <1>5, <1>6, <1>7, <1>8 DEF ReplyKinds

-----------------------------------------------------------------------------
(* The refinement mapping                                                  *)

StateAt(c) ==
  CASE phase[c] = "idle"    -> "idle"
    [] phase[c] = "sent"    -> "pending"
    [] phase[c] = "replied" -> "decided"
    [] phase[c] = "done"    -> "done"
OutcomeAt(c) ==
  CASE phase[c] = "done"    -> result[c]
    [] phase[c] = "replied" -> Meaning(c)
    [] OTHER                -> Open
StateOf == [c \in Clients |-> StateAt(c)]
OutcomeOf == [c \in Clients |-> OutcomeAt(c)]

\* The mapped state of one client.
LEMMA Mapped ==
  ASSUME NEW c \in Clients
  PROVE  /\ StateOf[c] = StateAt(c) /\ OutcomeOf[c] = OutcomeAt(c)
         /\ StateOf'[c] = StateAt(c)' /\ OutcomeOf'[c] = OutcomeAt(c)'
BY DEF StateOf, OutcomeOf

LEMMA MappedUntouched ==
  ASSUME NEW c \in Clients, Untouched(c)
  PROVE  StateOf'[c] = StateOf[c] /\ OutcomeOf'[c] = OutcomeOf[c]
<1>1. Meaning(c)' = Meaning(c) BY DEF Untouched, Meaning
<1>2. StateAt(c)' = StateAt(c) BY DEF Untouched, StateAt
<1>3. OutcomeAt(c)' = OutcomeAt(c) BY <1>1 DEF Untouched, OutcomeAt
<1> QED BY <1>2, <1>3, Mapped

LEMMA MappedShape ==
  /\ StateOf = [c \in Clients |-> StateOf[c]] /\ OutcomeOf = [c \in Clients |-> OutcomeOf[c]]
  /\ StateOf' = [c \in Clients |-> StateOf'[c]]
  /\ OutcomeOf' = [c \in Clients |-> OutcomeOf'[c]]
<1>1. StateOf = [c \in Clients |-> StateOf[c]] BY DEF StateOf
<1>2. OutcomeOf = [c \in Clients |-> OutcomeOf[c]] BY DEF OutcomeOf
<1>3. StateOf' = [c \in Clients |-> StateOf'[c]] BY DEF StateOf
<1>4. OutcomeOf' = [c \in Clients |-> OutcomeOf'[c]] BY DEF OutcomeOf
<1> QED BY <1>1, <1>2, <1>3, <1>4

\* Two functions of the clients that differ at one.
LEMMA OneDiffers ==
  ASSUME NEW F, NEW G, NEW c \in Clients, NEW v,
         F = [d \in Clients |-> F[d]], G = [d \in Clients |-> G[d]],
         \A d \in Clients \ {c} : G[d] = F[d], G[c] = v
  PROVE  G = [F EXCEPT ![c] = v]
<1>1. DOMAIN F = Clients OBVIOUS
<1>2. [F EXCEPT ![c] = v] = [d \in Clients |-> IF d = c THEN v ELSE F[d]] BY <1>1
<1>3. \A d \in Clients : G[d] = IF d = c THEN v ELSE F[d] OBVIOUS
<1>4. [d \in Clients |-> G[d]] = [d \in Clients |-> IF d = c THEN v ELSE F[d]] BY <1>3
<1> QED BY <1>2, <1>4

\* A step of one client changes the mapped state of that client.
LEMMA OneMapped ==
  ASSUME NEW c \in Clients, \A d \in Clients \ {c} : Untouched(d),
         NEW s, NEW o, StateOf'[c] = s, OutcomeOf'[c] = o
  PROVE  StateOf' = [StateOf EXCEPT ![c] = s] /\ OutcomeOf' = [OutcomeOf EXCEPT ![c] = o]
<1>1. /\ StateOf = [d \in Clients |-> StateOf[d]] /\ StateOf' = [d \in Clients |-> StateOf'[d]]
      /\ OutcomeOf = [d \in Clients |-> OutcomeOf[d]]
      /\ OutcomeOf' = [d \in Clients |-> OutcomeOf'[d]]
  BY MappedShape, Zenon
<1>2. \A d \in Clients \ {c} : StateOf'[d] = StateOf[d] /\ OutcomeOf'[d] = OutcomeOf[d]
  BY MappedUntouched
<1>3. StateOf' = [StateOf EXCEPT ![c] = s] BY <1>1, <1>2, OneDiffers
<1>4. OutcomeOf' = [OutcomeOf EXCEPT ![c] = o] BY <1>1, <1>2, OneDiffers
<1> QED BY <1>3, <1>4

\* A driver's answer, as the port sees it.
LEMMA AnswerMaps ==
  ASSUME IInv, NEW c \in Clients, NEW r, Replied(c, r), UNCHANGED <<driver, call, criteria, result>>
  PROVE  /\ StateOf' = [StateOf EXCEPT ![c] = "decided"]
         /\ OutcomeOf' = [OutcomeOf EXCEPT ![c] = Means(call[c], r)]
         /\ phase'[c] = "replied" /\ reply'[c] = r
         /\ \A d \in Clients \ {c} : Untouched(d)
<1>1. /\ phase' = [phase EXCEPT ![c] = "replied"] /\ reply' = [reply EXCEPT ![c] = r]
  BY DEF Replied
<1>2. ShapeInv BY DEF IInv
<1>3. phase'[c] = "replied" /\ reply'[c] = r /\ call'[c] = call[c] BY <1>1, <1>2 DEF ShapeInv
<1>4. \A d \in Clients \ {c} : Untouched(d) BY <1>1, <1>2 DEF ShapeInv, Untouched
<1>5. StateOf'[c] = "decided" /\ OutcomeOf'[c] = Means(call[c], r)
  <2>1. Meaning(c)' = Means(call[c], r)
    <3>1. Meaning(c)' = Means(call'[c], reply'[c])
      BY Zenon DEF Meaning, Means
    <3> QED BY <1>3, <3>1
  <2>2. StateAt(c)' = "decided" BY <1>3 DEF StateAt
  <2>3. OutcomeAt(c)' = Means(call[c], r) BY <1>3, <2>1 DEF OutcomeAt
  <2> QED BY <2>2, <2>3, Mapped
<1> QED BY <1>3, <1>4, <1>5, OneMapped

-----------------------------------------------------------------------------
(* Statements take effect as the port says                                 *)

\* What is known of a call whose statement was sent.
LEMMA Sent ==
  ASSUME IInv, NEW c \in Clients, phase[c] = "sent"
  PROVE  /\ call[c] \in Calls /\ ~Refuses(call[c]) /\ criteria[c] = Options(call[c])
         /\ StateOf[c] = "pending"
         /\ call[c].kind # "insert" =>
              /\ Selected(criteria[c]) = Port!Matching(rows, call[c].where)
              /\ Selected(criteria[c]) \in SUBSET Row /\ IsFiniteSet(Selected(criteria[c]))
<1>1. /\ call[c] \in Calls /\ ~Refuses(call[c]) /\ criteria[c] = Options(call[c])
  BY DEF IInv, ShapeInv, CallInv
<1>2. StateOf[c] = "pending"
  <2>1. StateAt(c) = "pending" BY DEF StateAt
  <2> QED BY <2>1, Mapped
<1>3. Selected(criteria[c]) \subseteq rows BY DEF Selected
<1>4. IsFiniteSet(Selected(criteria[c]))
  <2>1. IsFiniteSet(rows) BY FiniteRows DEF IInv
  <2> QED BY <1>3, <2>1, FS_Subset
<1>5. Selected(criteria[c]) \in SUBSET Row BY <1>3 DEF IInv, RowsInv
<1> QED BY <1>1, <1>2, <1>4, <1>5, SameFilter

LEMMA ReadOneMaps ==
  ASSUME IInv, NEW c \in Clients, phase[c] = "sent", UNCHANGED <<driver, call, criteria, result>>,
         rows' = rows, call[c].kind = "findOne",
         IF Selected(criteria[c]) = {} THEN Replied(c, Nothing)
         ELSE \E list \in Lists(Selected(criteria[c]), criteria[c].order) :
                Replied(c, <<"entity", Only(list[1], criteria[c].select)>>)
  PROVE  \E r : Replied(c, r) /\ AnswerOf(call[c], r) /\ Port!Read(c, call[c])
<1> DEFINE m == call[c]
           found == Selected(criteria[c])
<1>1. /\ m \in Calls /\ criteria[c] = Options(m) /\ found = Port!Matching(rows, m.where)
      /\ found \in SUBSET Row /\ IsFiniteSet(found)
  BY Sent
<1>2. Options(m).order = ToOrder(m.orderBy) /\ Options(m).select = m.select BY DEF Options
<1>3. m.orderBy \in Orders BY <1>1, Assumed DEF Orders
<1> HIDE DEF m, found
<1>4. CASE found = {}
  <2>1. Replied(c, Nothing) BY <1>4, Zenon DEF found
  <2>2. Nothing[1] = "none" BY DEF Nothing
  <2>3. AnswerOf(m, Nothing) /\ Means(m, Nothing) = <<"null", 0>>
    BY <2>2 DEF AnswerOf, Means, ReplyKinds
  <2>4. OutcomeOf' = [OutcomeOf EXCEPT ![c] = <<"null", 0>>]
    BY <2>1, <2>3, AnswerMaps DEF m
  <2>5. Port!Read(c, m)
    BY <1>1, <1>4, <2>4, Zenon DEF Port!Read, OutcomeOf, OutcomeAt, m
  <2> QED BY <2>1, <2>3, <2>5 DEF m
<1>5. CASE found # {}
  <2>1. PICK list \in Lists(found, ToOrder(m.orderBy)) :
          Replied(c, <<"entity", Only(list[1], m.select)>>)
    BY <1>1, <1>2, <1>5, Zenon DEF found
  <2>2. list \in Port!Arrangements(found, m.orderBy) BY <1>1, <1>3, SameLists
  <2>3. list[1] \in found /\ \A s \in found : ~Port!Precedes(s, list[1], m.orderBy)
    BY <1>1, <1>3, <1>5, <2>2, FirstIsLeast
  <2> DEFINE r == <<"entity", Only(list[1], m.select)>>
  <2>4. r[1] = "entity" /\ r[2] = Port!Projected(list[1], m.select)
    BY DEF Only, Port!Projected
  <2>5. Replied(c, r) BY <2>1
  <2> HIDE DEF r
  <2>6. AnswerOf(m, r) /\ Means(m, r) = <<"row", Port!Projected(list[1], m.select)>>
    BY <2>4 DEF AnswerOf, Means, ReplyKinds
  <2>7. OutcomeOf' = [OutcomeOf EXCEPT ![c] = <<"row", Port!Projected(list[1], m.select)>>]
    BY <2>5, <2>6, AnswerMaps DEF m
  <2>8. Port!Read(c, m)
    BY <1>1, <2>3, <2>7, Zenon DEF Port!Read, OutcomeOf, OutcomeAt, m
  <2> QED BY <2>5, <2>6, <2>8 DEF m
<1> QED BY <1>4, <1>5

LEMMA ReadManyMaps ==
  ASSUME IInv, NEW c \in Clients, phase[c] = "sent", UNCHANGED <<driver, call, criteria, result>>,
         rows' = rows, call[c].kind = "findMany",
         NEW list \in Lists(Selected(criteria[c]), criteria[c].order), NEW page,
         page = Cut(list, criteria[c].limits),
         Replied(c, <<"entities", [i \in DOMAIN page |-> Only(page[i], criteria[c].select)]>>)
  PROVE  \E r : Replied(c, r) /\ AnswerOf(call[c], r) /\ Port!Read(c, call[c])
<1> DEFINE m == call[c]
           found == Selected(criteria[c])
<1>1. /\ m \in Calls /\ criteria[c] = Options(m) /\ found = Port!Matching(rows, m.where)
      /\ found \in SUBSET Row /\ IsFiniteSet(found)
  BY Sent
<1>2. /\ Options(m).order = ToOrder(m.orderBy) /\ Options(m).select = m.select
      /\ Options(m).limits = m.page
  BY DEF Options
<1>3. /\ m.orderBy \in Orders
      /\ "skip" \in DOMAIN m.page => m.page.skip \in Nat
      /\ "take" \in DOMAIN m.page => m.page.take \in Nat \ {0}
  BY <1>1, Assumed DEF Orders
<1>4. list \in Port!Arrangements(found, m.orderBy) BY <1>1, <1>2, <1>3, SameLists
<1>5. page = Port!Page(list, m.page)
  <2>1. Cardinality(found) \in Nat /\ list \in [1..Cardinality(found) -> found]
    BY <1>1, <1>4, ListsAreComplete
  <2>2. list \in Seq(found) BY <2>1
  <2>3. Cut(list, m.page) = Port!Page(list, m.page) BY <1>3, <2>2, SamePage
  <2> QED BY <1>1, <1>2, <2>3
<1> HIDE DEF m, found
<1> DEFINE rowsOf == [i \in DOMAIN page |-> Port!Projected(page[i], m.select)]
           r == <<"entities", rowsOf>>
<1>6. Replied(c, r)
  <2>1. rowsOf = [i \in DOMAIN page |-> Only(page[i], criteria[c].select)]
    BY <1>1, <1>2, Zenon DEF Only, Port!Projected
  <2> QED BY <2>1
<1> HIDE DEF rowsOf
<1>7. r[1] = "entities" /\ r[2] = rowsOf OBVIOUS
<1> HIDE DEF r
<1>8. AnswerOf(m, r) /\ Means(m, r) = <<"rows", rowsOf>> BY <1>7 DEF AnswerOf, Means, ReplyKinds
<1>9. OutcomeOf' = [OutcomeOf EXCEPT ![c] =
        <<"rows", [i \in DOMAIN page |-> Port!Projected(page[i], m.select)]>>]
  <2>1. OutcomeOf' = [OutcomeOf EXCEPT ![c] = <<"rows", rowsOf>>]
    BY <1>6, <1>8, AnswerMaps DEF m
  <2> QED BY <2>1 DEF rowsOf
<1>10. \E l \in Port!Arrangements(Port!Matching(rows, m.where), m.orderBy) :
         OutcomeOf' = [OutcomeOf EXCEPT ![c] =
           <<"rows", [i \in DOMAIN Port!Page(l, m.page) |->
                        Port!Projected(Port!Page(l, m.page)[i], m.select)]>>]
  BY <1>1, <1>4, <1>5, <1>9, Zenon
<1>11. m.kind = "findMany" /\ rows' = rows BY DEF m
<1>12. Port!Read(c, m)
  BY <1>10, <1>11, Zenon DEF Port!Read, OutcomeOf, OutcomeAt
<1> QED BY <1>6, <1>8, <1>12 DEF m

LEMMA CountMaps ==
  ASSUME IInv, NEW c \in Clients, phase[c] = "sent", UNCHANGED <<driver, call, criteria, result>>,
         rows' = rows, call[c].kind = "count",
         Replied(c, <<"total", Cardinality(Selected(criteria[c]))>>)
  PROVE  \E r : Replied(c, r) /\ AnswerOf(call[c], r) /\ Port!Read(c, call[c])
<1> DEFINE m == call[c]
           n == Port!Cardinality(Port!Matching(rows, m.where))
           r == <<"total", n>>
<1>1. Selected(criteria[c]) = Port!Matching(rows, m.where) BY Sent
<1>2. Replied(c, r) BY <1>1, SameCardinality
<1> HIDE DEF m, n
<1>3. r[1] = "total" /\ r[2] = n OBVIOUS
<1> HIDE DEF r
<1>4. AnswerOf(m, r) /\ Means(m, r) = <<"number", n>> BY <1>3 DEF AnswerOf, Means, ReplyKinds
<1>5. OutcomeOf' = [OutcomeOf EXCEPT ![c] = <<"number", n>>]
  BY <1>2, <1>4, AnswerMaps DEF m
<1>6. Port!Read(c, m)
  BY <1>1, <1>5, Zenon DEF Port!Read, OutcomeOf, OutcomeAt, m, n
<1> QED BY <1>2, <1>4, <1>6 DEF m

\* Port!Write, of the mapped state.
Written(c, t, o) ==
  \/ /\ Port!Legal(t) /\ rows' = t
     /\ OutcomeOf' = [OutcomeOf EXCEPT ![c] = o]
  \/ /\ ~Port!Legal(t) /\ rows' = rows
     /\ \E k \in Port!Violated(t) : OutcomeOf' = [OutcomeOf EXCEPT ![c] = <<"conflict", k>>]

\* A statement that writes leaves a legal table or is a duplicate.
LEMMA CommitMaps ==
  ASSUME IInv, NEW c \in Clients, UNCHANGED <<driver, call, criteria, result>>,
         NEW t, NEW r, Commit(c, t, r), AnswerOf(call[c], r),
         NEW u, u = t, NEW o, o = Means(call[c], r)
  PROVE  \E e : Replied(c, e) /\ AnswerOf(call[c], e) /\ Written(c, u, o)
<1>1. Port!Legal(u) <=> Unique(t) BY DEF Port!Legal, Unique
<1>2. CASE Unique(t)
  <2>1. rows' = t /\ Replied(c, r) BY <1>2, Zenon DEF Commit
  <2>2. rows' = u /\ OutcomeOf' = [OutcomeOf EXCEPT ![c] = o] BY <2>1, AnswerMaps
  <2>3. Written(c, u, o)
    BY <1>1, <1>2, <2>2, Zenon DEF Written
  <2> QED BY <2>1, <2>3
<1>3. CASE ~Unique(t)
  <2>1. PICK k \in {i \in {"id", "email"} : \E x, y \in t : x # y /\ x[i] = y[i]} :
          \E e \in Duplicate(k) : Replied(c, e)
    BY <1>3, Zenon DEF Commit
  <2>2. PICK e \in Duplicate(k) : Replied(c, e) BY <2>1
  <2>3. rows' = rows BY <1>3, Zenon DEF Commit
  <2>4. /\ e[1] = "error" /\ e \in Errors /\ e \notin {Disconnected, Unsupported}
        /\ e[2].constraint \in {k, "unknown"}
    BY <2>1, <2>2, DuplicateIsOne, DuplicateMeans
  <2>5. e[2].constraint \in Port!Violated(u)
    <3>1. k \in Port!Violated(u) BY <2>1 DEF Port!Violated
    <3>2. "unknown" \in Port!Violated(u) BY DEF Port!Violated
    <3> QED BY <2>4, <3>1, <3>2
  <2>6. Means(call[c], e) = <<"conflict", e[2].constraint>> BY <2>4 DEF Means
  <2>7. AnswerOf(call[c], e) BY <2>4 DEF AnswerOf, ReplyKinds
  <2>8. OutcomeOf' = [OutcomeOf EXCEPT ![c] = <<"conflict", e[2].constraint>>]
    BY <2>2, <2>6, AnswerMaps
  <2>9. Written(c, u, o)
    <3>1. \E x \in Port!Violated(u) : OutcomeOf' = [OutcomeOf EXCEPT ![c] = <<"conflict", x>>]
      BY <2>5, <2>8, Zenon
    <3> QED BY <1>1, <1>3, <2>3, <3>1, Zenon DEF Written
  <2> QED BY <2>2, <2>7, <2>9
<1> QED BY <1>2, <1>3

LEMMA InsertMaps ==
  ASSUME IInv, NEW c \in Clients, UNCHANGED <<driver, call, criteria, result>>, ExecuteInsert(c)
  PROVE  \E e : Replied(c, e) /\ AnswerOf(call[c], e) /\ Port!Insert(c, call[c])
<1> DEFINE m == call[c]
<1>1. PICK r \in NewRows(m.data) :
        IF r \in rows
          THEN /\ UNCHANGED rows
               /\ \E e \in Duplicate("id") \cup Duplicate("email") : Replied(c, e)
          ELSE Commit(c, rows \cup {r}, <<"generated", Generated(r, m.data)>>)
  BY Zenon DEF ExecuteInsert
<1>2. m.kind = "insert" BY Zenon DEF ExecuteInsert
<1>3. /\ r \in Row /\ \A column \in DOMAIN m.data : r[column] = m.data[column]
      /\ "deletedAt" \notin DOMAIN m.data => r.deletedAt = Null
      /\ "id" \notin DOMAIN m.data => \A s \in rows : s.id # r.id
  BY Zenon DEF NewRows
<1> HIDE DEF m
<1>4. CASE r \in rows
  <2>1. PICK e \in Duplicate("id") \cup Duplicate("email") : Replied(c, e) BY <1>1, <1>4
  <2>2. /\ e[1] = "error" /\ e \in Errors /\ e \notin {Disconnected, Unsupported}
        /\ e[2].constraint \in {"id", "email", "unknown"}
    <3>1. CASE e \in Duplicate("id") BY <3>1, DuplicateIsOne, DuplicateMeans
    <3>2. CASE e \in Duplicate("email") BY <3>2, DuplicateIsOne, DuplicateMeans
    <3> QED BY <2>1, <3>1, <3>2
  <2>3. Means(m, e) = <<"conflict", e[2].constraint>> /\ AnswerOf(m, e)
    BY <2>2 DEF Means, AnswerOf, ReplyKinds
  <2>4. OutcomeOf' = [OutcomeOf EXCEPT ![c] = <<"conflict", e[2].constraint>>]
    BY <2>1, <2>3, AnswerMaps DEF m
  <2>5. \E k \in {"id", "email", "unknown"} :
          OutcomeOf' = [OutcomeOf EXCEPT ![c] = <<"conflict", k>>]
    BY <2>2, <2>4, Zenon
  <2>6. rows' = rows BY <1>1, <1>4
  <2>7. Port!Insert(c, m)
    BY <1>2, <1>3, <1>4, <2>5, <2>6, Zenon DEF Port!Insert, Port!Row, Row, OutcomeOf, OutcomeAt
  <2> QED BY <2>1, <2>3, <2>7 DEF m
<1>5. CASE r \notin rows
  <2> DEFINE g == <<"generated", Generated(r, m.data)>>
  <2>1. g[1] = "generated" /\ g[2] = Generated(r, m.data) OBVIOUS
  <2>2. Commit(c, rows \cup {r}, g) BY <1>1, <1>5
  <2> HIDE DEF g
  <2>3. AnswerOf(m, g) BY <1>3, <2>1 DEF AnswerOf, ReplyKinds
  <2>4. Means(m, g) = <<"row", r>>
    <3>1. Means(m, g) = <<"row", [column \in Columns |->
                            IF column \in DOMAIN m.data THEN m.data[column] ELSE g[2][column]]>>
      BY <2>1 DEF Means
    <3>2. \A column \in Columns \ DOMAIN m.data : g[2][column] = r[column]
      BY <2>1 DEF Generated
    <3>3. r = [column \in Columns |-> r[column]] BY <1>3 DEF Row, Columns
    <3>4. [column \in Columns |-> IF column \in DOMAIN m.data THEN m.data[column] ELSE g[2][column]]
            = [column \in Columns |-> r[column]]
      BY <1>3, <3>2
    <3> QED BY <3>1, <3>3, <3>4
  <2>5. PICK e : /\ Replied(c, e) /\ AnswerOf(call[c], e)
                 /\ Written(c, rows \cup {r}, <<"row", r>>)
    <3>1. AnswerOf(call[c], g) /\ <<"row", r>> = Means(call[c], g) BY <2>3, <2>4 DEF m
    <3> DEFINE u == rows \cup {r}
               o == <<"row", r>>
    <3>2. u = rows \cup {r} /\ o = Means(call[c], g) BY <3>1
    <3>3. \E e : Replied(c, e) /\ AnswerOf(call[c], e) /\ Written(c, u, o)
      BY <2>2, <3>1, <3>2, CommitMaps, Zenon
    <3> QED BY <3>3
  <2>6. Port!Insert(c, m)
    BY <1>2, <1>3, <1>5, <2>5, Zenon DEF Port!Insert, Port!Row, Row, Port!Write, Written, OutcomeOf, OutcomeAt
  <2> QED BY <2>5, <2>6 DEF m
<1> QED BY <1>4, <1>5

\* The number of affected rows, or the zero that stands for a driver that does not tell.
LEMMA NumberMeans ==
  ASSUME NEW found, NEW m, NEW n, n = Port!Cardinality(found)
  PROVE  AnswerOf(m, Affected(n)) /\ Port!Number(found) = Means(m, Affected(n))
<1> DEFINE a == Affected(n)
           number == IF driver.reports THEN Port!Cardinality(found) ELSE 0
<1>1. Port!Number(found) = <<"number", number>> BY Zenon DEF Port!Number
<1>2. CASE driver.reports
  <2>1. a[1] = "affected" /\ a[2] = n BY <1>2 DEF Affected
  <2> HIDE DEF a
  <2>2. Means(m, a) = <<"number", n>> BY <2>1 DEF Means
  <2>3. AnswerOf(m, a) BY <2>1 DEF AnswerOf, ReplyKinds
  <2> QED BY <1>1, <1>2, <2>2, <2>3 DEF a
<1>3. CASE ~driver.reports
  <2>1. a[1] = "unreported" BY <1>3 DEF Affected
  <2> HIDE DEF a
  <2>2. Means(m, a) = <<"number", 0>> BY <2>1 DEF Means
  <2>3. AnswerOf(m, a) BY <2>1 DEF AnswerOf, ReplyKinds
  <2> QED BY <1>1, <1>3, <2>2, <2>3 DEF a
<1> QED BY <1>2, <1>3

LEMMA UpdateMaps ==
  ASSUME IInv, NEW c \in Clients, phase[c] = "sent", UNCHANGED <<driver, call, criteria, result>>,
         ExecuteUpdate(c)
  PROVE  \E e : Replied(c, e) /\ AnswerOf(call[c], e) /\ Port!Update(c, call[c])
<1> DEFINE found == Selected(criteria[c])
           patch == call[c].patch
           t == (rows \ found) \cup
                {[k \in Columns |-> IF k \in DOMAIN patch THEN patch[k] ELSE r[k]] : r \in found}
           n == Cardinality(found)
           a == Affected(n)
           matching == Port!Matching(rows, call[c].where)
           u == (rows \ matching) \cup {Port!Patched(r, call[c].patch) : r \in matching}
           o == Port!Number(matching)
<1>1. call[c].kind = "update" /\ Commit(c, t, a) BY Zenon DEF ExecuteUpdate
<1>2. found = matching /\ found \in SUBSET Row BY <1>1, Sent
<1>4. n = Port!Cardinality(found) BY SameCardinality
<1>5. u = t
  <2>1. ASSUME NEW r \in found
        PROVE  Port!Patched(r, patch) =
                 [k \in Columns |-> IF k \in DOMAIN patch THEN patch[k] ELSE r[k]]
    <3>1. DOMAIN r = Columns BY <1>2 DEF Row, Columns
    <3> QED BY <3>1, Zenon DEF Port!Patched
  <2> DEFINE P(r) == Port!Patched(r, patch)
             Q(r) == [k \in Columns |-> IF k \in DOMAIN patch THEN patch[k] ELSE r[k]]
  <2>2. {P(r) : r \in found} = {Q(r) : r \in found}
    <3>1. \A r \in found : P(r) = Q(r) BY <2>1, Zenon
    <3> HIDE DEF P, Q, found
    <3> QED BY <3>1
  <2> HIDE DEF found, matching
  <2> QED BY <1>2, <2>2, Zenon
<1> HIDE DEF found, t, n, matching, u
<1>6. AnswerOf(call[c], a) /\ o = Means(call[c], a)
  <2>1. o = Port!Number(found) BY <1>2
  <2> QED BY <1>4, <2>1, NumberMeans
<1> HIDE DEF a, o
<1>7. PICK e : Replied(c, e) /\ AnswerOf(call[c], e) /\ Written(c, u, o)
  BY <1>1, <1>5, <1>6, CommitMaps
<1>8. Port!Update(c, call[c])
  BY <1>1, <1>7, Zenon DEF Port!Update, Port!Write, Written, OutcomeOf, OutcomeAt, u, o, matching
<1> QED BY <1>7, <1>8

LEMMA RemoveMaps ==
  ASSUME IInv, NEW c \in Clients, phase[c] = "sent", UNCHANGED <<driver, call, criteria, result>>,
         ExecuteDelete(c)
  PROVE  \E e : Replied(c, e) /\ AnswerOf(call[c], e) /\ Port!Remove(c, call[c])
<1> DEFINE found == Selected(criteria[c])
           t == rows \ found
           n == Cardinality(found)
           a == Affected(n)
           matching == Port!Matching(rows, call[c].where)
           u == rows \ matching
           o == Port!Number(matching)
<1>1. call[c].kind = "remove" /\ Commit(c, t, a) BY Zenon DEF ExecuteDelete
<1>2. found = matching /\ u = t BY <1>1, Sent
<1>4. n = Port!Cardinality(found) BY SameCardinality
<1> HIDE DEF found, n, matching
<1>5. AnswerOf(call[c], a) /\ o = Means(call[c], a)
  <2>1. o = Port!Number(found) BY <1>2
  <2> QED BY <1>4, <2>1, NumberMeans
<1>6. PICK e : Replied(c, e) /\ AnswerOf(call[c], e) /\ Written(c, u, o)
  BY <1>1, <1>2, <1>5, CommitMaps, Zenon
<1>7. Port!Remove(c, call[c])
  BY <1>1, <1>6, Zenon DEF Port!Remove, Port!Write, Written, OutcomeOf, OutcomeAt, u, o, matching
<1> QED BY <1>6, <1>7

-----------------------------------------------------------------------------
(* Every step is one of the port's, or none                                *)

\* A failure without an effect.
Fails(c) == rows' = rows /\ OutcomeOf' = [OutcomeOf EXCEPT ![c] = <<"failed", 0>>]

LEMMA FailsMaps ==
  ASSUME IInv, NEW c \in Clients, NEW e \in {Disconnected, Unsupported}, Replied(c, e),
         UNCHANGED <<driver, call, criteria, result>>, rows' = rows
  PROVE  Fails(c) /\ AnswerOf(call[c], e)
<1>1. e[1] = "error" /\ e \in Errors BY FailureMeans
<1>2. Means(call[c], e) = <<"failed", 0>> BY <1>1 DEF Means
<1>3. AnswerOf(call[c], e) BY <1>1 DEF AnswerOf, ReplyKinds
<1> QED BY <1>2, <1>3, AnswerMaps DEF Fails

\* Any statement that is executed.
LEMMA ExecuteMaps ==
  ASSUME IInv, NEW c \in Clients, Execute(c)
  PROVE  /\ Port!Next /\ \E e : Replied(c, e) /\ AnswerOf(call[c], e)
         /\ \/ Port!Read(c, call[c]) \/ Fails(c)
            \/ call[c].kind \in {"insert", "update", "remove"}
<1>1. /\ phase[c] = "sent" /\ UNCHANGED <<driver, call, criteria, result>>
      /\ ExecuteRead(c) \/ ExecuteInsert(c) \/ ExecuteUpdate(c) \/ ExecuteDelete(c)
  BY Zenon DEF Execute
<1>2. \E e : /\ Replied(c, e) /\ AnswerOf(call[c], e)
             /\ \/ Port!Read(c, call[c]) \/ Port!Insert(c, call[c])
                \/ Port!Update(c, call[c]) \/ Port!Remove(c, call[c]) \/ Fails(c)
  <2>1. CASE ExecuteRead(c)
    <3>1. rows' = rows BY <2>1, Zenon DEF ExecuteRead
    <3>2. CASE /\ call[c].kind = "findOne"
               /\ IF Selected(criteria[c]) = {} THEN Replied(c, Nothing)
                  ELSE \E list \in Lists(Selected(criteria[c]), criteria[c].order) :
                         Replied(c, <<"entity", Only(list[1], criteria[c].select)>>)
      <4>1. \E e : Replied(c, e) /\ AnswerOf(call[c], e) /\ Port!Read(c, call[c])
        BY <1>1, <3>1, <3>2, ReadOneMaps, Zenon
      <4> QED BY <4>1, Zenon
    <3>3. CASE /\ call[c].kind = "findMany"
               /\ \E list \in Lists(Selected(criteria[c]), criteria[c].order) :
                    \E page : /\ page = Cut(list, criteria[c].limits)
                              /\ Replied(c, <<"entities", [i \in DOMAIN page |->
                                                 Only(page[i], criteria[c].select)]>>)
      <4>1. \E e : Replied(c, e) /\ AnswerOf(call[c], e) /\ Port!Read(c, call[c])
        BY <1>1, <3>1, <3>3, ReadManyMaps, Zenon
      <4> QED BY <4>1, Zenon
    <3>4. CASE /\ call[c].kind = "count"
               /\ Replied(c, <<"total", Cardinality(Selected(criteria[c]))>>)
      <4>1. \E e : Replied(c, e) /\ AnswerOf(call[c], e) /\ Port!Read(c, call[c])
        BY <1>1, <3>1, <3>4, CountMaps, Zenon
      <4> QED BY <4>1, Zenon
    <3>5. CASE Replied(c, Unsupported)
      <4>1. Fails(c) /\ AnswerOf(call[c], Unsupported) BY <1>1, <3>1, <3>5, FailsMaps
      <4> QED BY <3>5, <4>1, Zenon
    <3>6. \/ Replied(c, Unsupported)
          \/ /\ call[c].kind = "findOne"
             /\ IF Selected(criteria[c]) = {} THEN Replied(c, Nothing)
                ELSE \E list \in Lists(Selected(criteria[c]), criteria[c].order) :
                       Replied(c, <<"entity", Only(list[1], criteria[c].select)>>)
          \/ /\ call[c].kind = "findMany"
             /\ \E list \in Lists(Selected(criteria[c]), criteria[c].order) :
                  \E page : /\ page = Cut(list, criteria[c].limits)
                            /\ Replied(c, <<"entities", [i \in DOMAIN page |->
                                               Only(page[i], criteria[c].select)]>>)
          \/ /\ call[c].kind = "count"
             /\ Replied(c, <<"total", Cardinality(Selected(criteria[c]))>>)
      BY <2>1, Zenon DEF ExecuteRead
    <3> QED BY <3>2, <3>3, <3>4, <3>6, <3>5, Zenon
  <2>2. CASE ExecuteInsert(c) BY <1>1, <2>2, InsertMaps, Zenon
  <2>3. CASE ExecuteUpdate(c) BY <1>1, <2>3, UpdateMaps, Zenon
  <2>4. CASE ExecuteDelete(c) BY <1>1, <2>4, RemoveMaps, Zenon
  <2> QED BY <1>1, <2>1, <2>2, <2>3, <2>4, Zenon
<1>3. PICK e : /\ Replied(c, e) /\ AnswerOf(call[c], e)
               /\ \/ Port!Read(c, call[c]) \/ Port!Insert(c, call[c])
                  \/ Port!Update(c, call[c]) \/ Port!Remove(c, call[c]) \/ Fails(c)
  BY <1>2, Zenon
<1>4. StateOf[c] = "pending" BY <1>1, Sent
<1>5. StateOf' = [StateOf EXCEPT ![c] = "decided"] BY <1>1, <1>3, AnswerMaps
<1>6. call' = call /\ driver'.reports = driver.reports BY <1>1
<1>7. Port!TakeEffect(c)
  BY <1>3, <1>4, <1>5, <1>6, Zenon
     DEF Port!TakeEffect, Fails, StateOf, StateAt, OutcomeOf, OutcomeAt
<1>8. \/ Port!Read(c, call[c]) \/ Fails(c)
      \/ call[c].kind = "insert" \/ call[c].kind = "update" \/ call[c].kind = "remove"
  BY <1>3, Zenon DEF Port!Insert, Port!Update, Port!Remove
<1>9. Port!Next BY <1>7, Zenon DEF Port!Next
<1> QED BY <1>3, <1>8, <1>9

\* A connection that breaks.
LEMMA FailureMaps ==
  ASSUME IInv, NEW c \in Clients, FailBefore(c) \/ FailAfter(c)
  PROVE  /\ Port!Next /\ Replied(c, Disconnected)
         /\ OutcomeOf' = [OutcomeOf EXCEPT ![c] = <<"failed", 0>>]
<1>1. /\ phase[c] \in {"sent", "replied"} /\ Replied(c, Disconnected)
      /\ UNCHANGED <<driver, call, criteria, result>> /\ rows' = rows /\ call' = call
      /\ driver'.reports = driver.reports
  BY DEF FailBefore, FailAfter
<1>2. Means(call[c], Disconnected) = <<"failed", 0>> BY FailureMeans DEF Means
<1>3. /\ StateOf' = [StateOf EXCEPT ![c] = "decided"]
      /\ OutcomeOf' = [OutcomeOf EXCEPT ![c] = <<"failed", 0>>]
  BY <1>1, <1>2, AnswerMaps
<1>4. CASE phase[c] = "sent"
  <2>1. StateOf[c] = "pending" BY <1>4, Sent
  <2>2. Port!TakeEffect(c)
    BY <1>1, <1>3, <2>1, Zenon DEF Port!TakeEffect, StateOf, StateAt, OutcomeOf, OutcomeAt
  <2> QED BY <1>1, <1>3, <2>2, Zenon DEF Port!Next
<1>5. CASE phase[c] = "replied"
  <2>1. StateOf[c] = "decided"
    <3>1. StateAt(c) = "decided" BY <1>5 DEF StateAt
    <3> QED BY <3>1, Mapped
  <2>2. StateOf' = StateOf
    <3>1. StateOf = [d \in Clients |-> StateOf[d]] BY MappedShape, Zenon
    <3>2. [StateOf EXCEPT ![c] = "decided"] = StateOf
      <4> HIDE DEF StateOf
      <4> QED BY <2>1, <3>1
    <3> QED BY <1>3, <3>2, Zenon
  <2>3. Port!LoseAnswer(c)
    BY <1>1, <1>3, <2>1, <2>2, Zenon DEF Port!LoseAnswer, StateOf, StateAt, OutcomeOf, OutcomeAt
  <2> QED BY <1>1, <1>3, <2>3, Zenon DEF Port!Next
<1> QED BY <1>1, <1>4, <1>5

\* The caller is told.
LEMMA SettleMaps ==
  ASSUME IInv, AnswersInv, NEW c \in Clients, Settle(c)
  PROVE  Port!Next /\ OutcomeOf' = OutcomeOf
<1>1. /\ phase[c] = "replied" /\ phase' = [phase EXCEPT ![c] = "done"]
      /\ result' = [result EXCEPT ![c] = Settled(c)]
      /\ rows' = rows /\ call' = call /\ driver'.reports = driver.reports
  BY DEF Settle
<1>2. \A d \in Clients \ {c} : Untouched(d) BY SettleStep
<1>3. phase'[c] = "done" /\ result'[c] = Settled(c) BY <1>1 DEF IInv, ShapeInv
<1>4. Settled(c) = Meaning(c) BY <1>1, TruthTold DEF AnswersInv
<1>5. StateOf[c] = "decided" /\ OutcomeOf[c] = Meaning(c)
  <2>1. StateAt(c) = "decided" BY <1>1 DEF StateAt
  <2>2. OutcomeAt(c) = Meaning(c) BY <1>1 DEF OutcomeAt
  <2> QED BY <2>1, <2>2, Mapped
<1>6. StateOf'[c] = "done" /\ OutcomeOf'[c] = OutcomeOf[c]
  <2>1. StateAt(c)' = "done" BY <1>3 DEF StateAt
  <2>2. OutcomeAt(c)' = Meaning(c) BY <1>3, <1>4 DEF OutcomeAt
  <2> QED BY <1>5, <2>1, <2>2, Mapped
<1>7. StateOf' = [StateOf EXCEPT ![c] = "done"] BY <1>2, <1>6, OneMapped
<1>8. OutcomeOf' = OutcomeOf
  <2>1. /\ OutcomeOf = [d \in Clients |-> OutcomeOf[d]]
        /\ OutcomeOf' = [d \in Clients |-> OutcomeOf'[d]]
    BY MappedShape, Zenon
  <2>2. \A d \in Clients : OutcomeOf'[d] = OutcomeOf[d] BY <1>2, <1>6, MappedUntouched
  <2> QED BY <2>1, <2>2
<1>9. Port!Return(c)
  BY <1>1, <1>5, <1>7, <1>8, Zenon DEF Port!Return, StateOf, StateAt, OutcomeOf, OutcomeAt
<1> QED BY <1>8, <1>9, Zenon DEF Port!Next

\* A call is refused, answered at once or sent, as the port says.
LEMMA InvokeMaps ==
  ASSUME IInv, NEW c \in Clients, Invoke(c)
  PROVE  /\ Port!Next /\ phase'[c] # "replied" /\ \A d \in Clients \ {c} : Untouched(d)
         /\ OutcomeOf'[c][1] # "rows"
<1>1. PICK m \in Calls :
       /\ call' = [call EXCEPT ![c] = m]
       /\ \/ /\ Refuses(m)
             /\ result' = [result EXCEPT ![c] = <<"contract", 0>>]
             /\ phase' = [phase EXCEPT ![c] = "done"] /\ UNCHANGED criteria
          \/ /\ ~Refuses(m) /\ m.kind = "update" /\ DOMAIN m.patch = {}
             /\ result' = [result EXCEPT ![c] = <<"number", 0>>]
             /\ phase' = [phase EXCEPT ![c] = "done"] /\ UNCHANGED criteria
          \/ /\ ~Refuses(m) /\ (m.kind = "update" => DOMAIN m.patch # {})
             /\ criteria' = [criteria EXCEPT ![c] = Options(m)]
             /\ phase' = [phase EXCEPT ![c] = "sent"] /\ UNCHANGED result
  BY Zenon DEF Invoke
<1>2. /\ phase[c] = "idle" /\ rows' = rows /\ reply' = reply
      /\ driver'.reports = driver.reports
  BY Zenon DEF Invoke
<1>3. ShapeInv /\ result[c] = Open BY <1>2 DEF IInv, CallInv
<1>4. StateOf[c] = "idle"
  <2>1. StateAt(c) = "idle" BY <1>2 DEF StateAt
  <2> QED BY <2>1, Mapped
<1>5. Port!BreaksContract(m) <=> Refuses(m)
  <2>1. m.kind \in {"findOne", "findMany", "count", "insert", "update", "remove"} BY Assumed
  <2> QED BY <2>1 DEF Port!BreaksContract, Refuses, HasUndefined
<1>6. Port!Open = Open /\ Open # <<"contract", 0>> /\ Open # <<"number", 0>>
  BY DEF Port!Open, Open
<1>7. ASSUME NEW o, o # Open, o[1] # "rows", result' = [result EXCEPT ![c] = o],
             phase' = [phase EXCEPT ![c] = "done"], UNCHANGED criteria,
             Port!Immediate(m) = o
      PROVE  /\ Port!Next /\ phase'[c] # "replied" /\ \A d \in Clients \ {c} : Untouched(d)
             /\ OutcomeOf'[c][1] # "rows"
  <2>1. \A d \in Clients \ {c} : Untouched(d)
    BY <1>1, <1>2, <1>3, <1>7 DEF ShapeInv, Untouched
  <2>2. phase'[c] = "done" /\ result'[c] = o BY <1>3, <1>7 DEF ShapeInv
  <2>3. StateAt(c)' = "done" BY <2>2 DEF StateAt
  <2>4. OutcomeAt(c)' = o BY <2>2 DEF OutcomeAt
  <2>5. /\ StateOf' = [StateOf EXCEPT ![c] = "done"]
        /\ OutcomeOf' = [OutcomeOf EXCEPT ![c] = o]
    BY <2>1, <2>3, <2>4, Mapped, OneMapped
  <2>6. (IF Port!Immediate(m) = Port!Open THEN "pending" ELSE "done") = "done"
    BY <1>6, <1>7
  <2>7. Port!Call(c)
    BY <1>1, <1>2, <1>4, <1>7, <2>5, <2>6, Zenon
       DEF Port!Call, StateOf, StateAt, OutcomeOf, OutcomeAt
  <2>8. OutcomeOf'[c][1] # "rows" BY <1>7, <2>4, Mapped
  <2>9. phase'[c] # "replied" BY <2>2
  <2> QED BY <2>1, <2>7, <2>8, <2>9, Zenon DEF Port!Next
<1>8. CASE /\ Refuses(m) /\ result' = [result EXCEPT ![c] = <<"contract", 0>>]
           /\ phase' = [phase EXCEPT ![c] = "done"] /\ UNCHANGED criteria
  <2>1. Port!Immediate(m) = <<"contract", 0>> BY <1>5, <1>8 DEF Port!Immediate
  <2> QED BY <1>6, <1>7, <1>8, <2>1
<1>9. CASE /\ ~Refuses(m) /\ m.kind = "update" /\ DOMAIN m.patch = {}
           /\ result' = [result EXCEPT ![c] = <<"number", 0>>]
           /\ phase' = [phase EXCEPT ![c] = "done"] /\ UNCHANGED criteria
  <2>1. Port!Immediate(m) = <<"number", 0>> BY <1>5, <1>9 DEF Port!Immediate
  <2> QED BY <1>6, <1>7, <1>9, <2>1
<1>10. CASE /\ ~Refuses(m) /\ (m.kind = "update" => DOMAIN m.patch # {})
            /\ criteria' = [criteria EXCEPT ![c] = Options(m)]
            /\ phase' = [phase EXCEPT ![c] = "sent"] /\ UNCHANGED result
  <2>1. Port!Immediate(m) = Open BY <1>5, <1>6, <1>10 DEF Port!Immediate
  <2>2. \A d \in Clients \ {c} : Untouched(d)
    BY <1>1, <1>2, <1>3, <1>10 DEF ShapeInv, Untouched
  <2>3. phase'[c] = "sent" BY <1>3, <1>10 DEF ShapeInv
  <2>4. StateAt(c)' = "pending" BY <2>3 DEF StateAt
  <2>5. OutcomeAt(c)' = Open BY <2>3 DEF OutcomeAt
  <2>6. /\ StateOf' = [StateOf EXCEPT ![c] = "pending"]
        /\ OutcomeOf' = [OutcomeOf EXCEPT ![c] = Open]
    BY <2>2, <2>4, <2>5, Mapped, OneMapped
  <2>7. (IF Port!Immediate(m) = Port!Open THEN "pending" ELSE "done") = "pending"
    BY <1>6, <2>1
  <2>8. Port!Call(c)
    BY <1>1, <1>2, <1>4, <2>1, <2>6, <2>7, Zenon
       DEF Port!Call, StateOf, StateAt, OutcomeOf, OutcomeAt
  <2>9. OutcomeOf'[c][1] # "rows"
    <3>1. Open[1] = "open" BY DEF Open
    <3> QED BY <2>5, <3>1, Mapped
  <2>10. phase'[c] # "replied" BY <2>3
  <2> QED BY <2>2, <2>8, <2>9, <2>10, Zenon DEF Port!Next
<1> QED BY <1>1, <1>8, <1>9, <1>10, Zenon

\* Only one client's variables change, and a driver gives answers it has words for.
LEMMA AnswersStep == IInv /\ AnswersInv /\ [Next]_vars => AnswersInv'
<1> SUFFICES ASSUME IInv, AnswersInv, [Next]_vars PROVE AnswersInv' OBVIOUS
<1>1. CASE UNCHANGED vars BY <1>1 DEF vars, AnswersInv, AnswerOf
<1>2. ASSUME NEW c \in Clients, \A d \in Clients \ {c} : Untouched(d),
             phase'[c] = "replied" => AnswerOf(call'[c], reply'[c])
      PROVE  AnswersInv'
  <2>1. ASSUME NEW d \in Clients, phase'[d] = "replied" PROVE AnswerOf(call'[d], reply'[d])
    <3>1. CASE d = c BY <1>2, <2>1, <3>1
    <3>2. CASE d # c
      <4>1. phase[d] = "replied" /\ call'[d] = call[d] /\ reply'[d] = reply[d]
        BY <1>2, <2>1, <3>2 DEF Untouched
      <4>2. AnswerOf(call[d], reply[d]) BY <4>1 DEF AnswersInv
      <4> QED BY <4>1, <4>2
    <3> QED BY <3>1, <3>2
  <2> QED BY <2>1 DEF AnswersInv, AnswerOf
<1>3. ASSUME NEW c \in Clients, NEW e, Replied(c, e), UNCHANGED <<driver, call, criteria, result>>,
             AnswerOf(call[c], e)
      PROVE  AnswersInv'
  <2>1. reply'[c] = e /\ call'[c] = call[c] /\ \A d \in Clients \ {c} : Untouched(d)
    BY <1>3, AnswerMaps
  <2> QED BY <1>2, <1>3, <2>1
<1>4. ASSUME NEW c \in Clients, Execute(c) PROVE AnswersInv'
  <2>1. PICK e : Replied(c, e) /\ AnswerOf(call[c], e) BY <1>4, ExecuteMaps
  <2>2. UNCHANGED <<driver, call, criteria, result>> BY <1>4, Zenon DEF Execute
  <2> QED BY <1>3, <2>1, <2>2
<1>5. ASSUME NEW c \in Clients, FailBefore(c) \/ FailAfter(c) PROVE AnswersInv'
  <2>1. Replied(c, Disconnected) /\ UNCHANGED <<driver, call, criteria, result>>
    BY <1>5 DEF FailBefore, FailAfter
  <2>2. AnswerOf(call[c], Disconnected) BY FailureMeans DEF AnswerOf, ReplyKinds
  <2> QED BY <1>3, <2>1, <2>2
<1>6. ASSUME NEW c \in Clients, Invoke(c) PROVE AnswersInv'
  BY <1>2, <1>6, InvokeMaps
<1>7. ASSUME NEW c \in Clients, Settle(c) PROVE AnswersInv'
  <2>1. \A d \in Clients \ {c} : Untouched(d) BY <1>7, SettleStep
  <2>2. phase'[c] = "done" BY <1>7 DEF Settle, IInv, ShapeInv
  <2> QED BY <1>2, <2>1, <2>2
<1> QED BY <1>1, <1>4, <1>5, <1>6, <1>7 DEF Next, AllDone

LEMMA StepMaps ==
  ASSUME IInv, AnswersInv, [Next]_vars
  PROVE  [Port!Next]_Port!vars
<1>1. CASE UNCHANGED vars
  <2>1. ASSUME NEW c PROVE Meaning(c)' = Meaning(c) BY <1>1 DEF vars, Meaning
  <2>2. ASSUME NEW c PROVE StateAt(c)' = StateAt(c) /\ OutcomeAt(c)' = OutcomeAt(c)
    BY <1>1, <2>1 DEF vars, StateAt, OutcomeAt
  <2>3. StateOf' = StateOf BY <2>2 DEF StateOf
  <2>4. OutcomeOf' = OutcomeOf BY <2>2 DEF OutcomeOf
  <2>5. rows' = rows /\ call' = call /\ driver'.reports = driver.reports BY <1>1 DEF vars
  <2>6. UNCHANGED Port!vars
    BY <2>3, <2>4, <2>5, Zenon DEF Port!vars, StateOf, StateAt, OutcomeOf, OutcomeAt
  <2> QED BY <2>6
<1>2. ASSUME NEW c \in Clients, Invoke(c) PROVE Port!Next BY <1>2, InvokeMaps
<1>3. ASSUME NEW c \in Clients, Execute(c) PROVE Port!Next BY <1>3, ExecuteMaps
<1>4. ASSUME NEW c \in Clients, FailBefore(c) \/ FailAfter(c) PROVE Port!Next
  BY <1>4, FailureMaps
<1>5. ASSUME NEW c \in Clients, Settle(c) PROVE Port!Next BY <1>5, SettleMaps
<1> QED BY <1>1, <1>2, <1>3, <1>4, <1>5, Zenon DEF Next, AllDone

LEMMA InitMaps == Init => Port!Init /\ AnswersInv
<1> SUFFICES ASSUME Init PROVE Port!Init /\ AnswersInv OBVIOUS
<1>1. /\ rows \in {t \in SUBSET Row : Unique(t)}
      /\ call = [c \in Clients |-> NoCall]
      /\ \A c \in Clients : phase[c] = "idle"
  BY Zenon DEF Init
<1>2. AnswersInv BY <1>1 DEF AnswersInv
<1>3. rows \in {t \in SUBSET Port!Row : Port!Legal(t)}
  BY <1>1, Zenon DEF Port!Row, Row, Port!Legal, Unique
<1>4. \A c \in Clients : StateAt(c) = "idle" /\ OutcomeAt(c) = Port!Open
  BY <1>1 DEF StateAt, OutcomeAt, Open, Port!Open
<1>5. StateOf = [c \in Clients |-> "idle"] BY <1>4 DEF StateOf
<1>6. OutcomeOf = [c \in Clients |-> Port!Open] BY <1>4 DEF OutcomeOf
<1>7. call = [c \in Clients |-> Port!NoCall] BY <1>1, Zenon DEF NoCall, Port!NoCall
<1>8. driver.reports \in BOOLEAN
  <2>1. driver \in Drivers /\ Drivers \subseteq [dialect : {"postgres", "mysql"}, reports : BOOLEAN]
    BY RepositoryAssumption, Zenon DEF Init
  <2> QED BY <2>1
<1>9. Port!Init
  BY <1>3, <1>5, <1>6, <1>7, <1>8, Zenon DEF Port!Init, StateOf, StateAt, OutcomeOf, OutcomeAt
<1> QED BY <1>2, <1>9

\* Every call through the adapter is one the port promises, whoever else calls, however
\* the driver words a duplicate, whether or not it reports the rows it touched (an update
\* or a removal then answers zero), and wherever the connection breaks.
THEOREM Implements == Spec => ImplementsPort
<1>1. Init => Port!Init /\ AnswersInv BY InitMaps
<1>2. IInv /\ AnswersInv /\ [Next]_vars => AnswersInv' BY AnswersStep
<1>3. IInv /\ AnswersInv /\ [Next]_vars => [Port!Next]_Port!vars BY StepMaps
<1> QED BY <1>1, <1>2, <1>3, AlwaysIInv, PTL DEF Spec, ImplementsPort, Port!Spec

-----------------------------------------------------------------------------
(* Pages                                                                   *)

\* A set of numbers has a least one.
LEMMA Least ==
  ASSUME NEW T \in SUBSET Nat, T # {}
  PROVE  \E x \in T : \A y \in T : x <= y
<1>1. PICK x \in T : \A y \in T : ~(<<y, x>> \in OpToRel(<, Nat))
  BY NatLessThanWellFounded, WFMin, Zenon
<1>2. ASSUME NEW y \in T, y < x PROVE FALSE
  <2>1. <<y, x>> \in OpToRel(<, Nat) BY <1>2 DEF OpToRel
  <2> QED BY <1>1, <2>1
<1> QED BY <1>2

\* An order by a unique column tells any two rows apart.
LEMMA StrictOrder ==
  ASSUME RowsInv, NEW orderBy \in Orders,
         \E k \in DOMAIN orderBy : orderBy[k][2] # "undefined",
         NEW r \in rows, NEW s \in rows, r # s
  PROVE  Port!Precedes(r, s, orderBy) \/ Port!Precedes(s, r, orderBy)
<1>1. DOMAIN orderBy = 1..Len(orderBy) /\ Len(orderBy) \in Nat BY DEF Orders
<1>2. PICK k \in Directed(orderBy) : \A j \in Directed(orderBy) : k <= j
  <2>1. Directed(orderBy) \in SUBSET Nat /\ Directed(orderBy) # {} BY <1>1 DEF Directed
  <2> QED BY <2>1, Least
<1>3. k \in DOMAIN orderBy /\ orderBy[k][2] # "undefined" BY DEF Directed
<1>4. orderBy[k][1] \in {"id", "email"} /\ orderBy[k][2] \in {"asc", "desc"}
  <2>1. orderBy[k] \in {"id", "email"} \X {"asc", "desc", "undefined"}
    BY <1>1, <1>3 DEF Orders
  <2> QED BY <1>3, <2>1
<1>5. \A j \in 1..(k - 1) : orderBy[j][2] = "undefined"
  <2> SUFFICES ASSUME NEW j \in 1..(k - 1), orderBy[j][2] # "undefined" PROVE FALSE
    OBVIOUS
  <2>1. j \in DOMAIN orderBy /\ j < k BY <1>1, <1>3
  <2>2. j \in Directed(orderBy) BY <2>1 DEF Directed
  <2> QED BY <1>1, <1>2, <1>3, <2>1, <2>2
<1> DEFINE column == orderBy[k][1]
<1>6. r[column] # s[column]
  <2>1. r.id # s.id /\ r.email # s.email BY DEF RowsInv, Unique
  <2> QED BY <1>4, <2>1
<1>7. r[column] \in Nat /\ s[column] \in Nat
  <2>1. r \in Row /\ s \in Row BY DEF RowsInv
  <2> QED BY <1>4, <2>1, Assumed DEF Row
<1>8. r[column] < s[column] \/ r[column] > s[column] BY <1>6, <1>7
<1>9. \/ orderBy[k][2] = "asc" /\ r[column] < s[column]
      \/ orderBy[k][2] = "desc" /\ r[column] > s[column]
      \/ orderBy[k][2] = "asc" /\ s[column] < r[column]
      \/ orderBy[k][2] = "desc" /\ s[column] > r[column]
  BY <1>4, <1>7, <1>8
<1>10. ASSUME NEW x, NEW y,
              \/ orderBy[k][2] = "asc" /\ x[column] < y[column]
              \/ orderBy[k][2] = "desc" /\ x[column] > y[column]
       PROVE  Port!Precedes(x, y, orderBy)
  BY <1>3, <1>5, <1>10, Zenon DEF Port!Precedes
<1> HIDE DEF column
<1> QED BY <1>9, <1>10

\* Such an order arranges the rows in one way.
LEMMA OneArrangement ==
  ASSUME RowsInv, NEW orderBy \in Orders,
         \E k \in DOMAIN orderBy : orderBy[k][2] # "undefined",
         NEW found \in SUBSET rows,
         NEW list \in Port!Arrangements(found, orderBy),
         NEW other \in Port!Arrangements(found, orderBy)
  PROVE  list = other
<1> DEFINE n == Cardinality(found)
<1>1. IsFiniteSet(found)
  <2>1. IsFiniteSet(rows) BY FiniteRows
  <2> QED BY <2>1, FS_Subset
<1>2. /\ n \in Nat /\ list \in [1..n -> found] /\ other \in [1..n -> found]
      /\ \A r \in found : \E i \in 1..n : list[i] = r
      /\ \A r \in found : \E i \in 1..n : other[i] = r
  BY <1>1, ListsAreComplete
<1>3. /\ \A i, j \in DOMAIN list : i < j =>
           list[i] # list[j] /\ ~Port!Precedes(list[j], list[i], orderBy)
      /\ \A i, j \in DOMAIN other : i < j =>
           other[i] # other[j] /\ ~Port!Precedes(other[j], other[i], orderBy)
  BY DEF Port!Arrangements
<1> HIDE DEF n
<1> SUFFICES ASSUME list # other PROVE FALSE OBVIOUS
<1> DEFINE Differ == {i \in 1..n : list[i] # other[i]}
<1>4. PICK i \in Differ : \A j \in Differ : i <= j
  <2>1. Differ # {}
    <3> SUFFICES ASSUME \A i \in 1..n : list[i] = other[i] PROVE FALSE OBVIOUS
    <3>1. list = other BY <1>2
    <3> QED BY <3>1
  <2>2. Differ \in SUBSET Nat BY <1>2
  <2> HIDE DEF Differ
  <2> QED BY <2>1, <2>2, Least
<1>5. i \in 1..n /\ list[i] # other[i] OBVIOUS
<1>6. \A j \in 1..n : j < i => list[j] = other[j] BY <1>2, <1>4, <1>5
<1> HIDE DEF Differ
<1>7. PICK j \in 1..n : other[j] = list[i] BY <1>2, <1>5
<1>8. PICK k \in 1..n : list[k] = other[i] BY <1>2, <1>5
<1>9. i < j
  <2>1. j # i BY <1>5, <1>7
  <2>2. ~(j < i)
    <3> SUFFICES ASSUME j < i PROVE FALSE OBVIOUS
    <3>1. list[j] = list[i] BY <1>6, <1>7
    <3> QED BY <1>2, <1>3, <1>5, <3>1
  <2> QED BY <1>2, <1>5, <2>1, <2>2
<1>10. i < k
  <2>1. k # i BY <1>5, <1>8
  <2>2. ~(k < i)
    <3> SUFFICES ASSUME k < i PROVE FALSE OBVIOUS
    <3>1. other[k] = other[i] BY <1>6, <1>8
    <3> QED BY <1>2, <1>3, <1>5, <3>1
  <2> QED BY <1>2, <1>5, <2>1, <2>2
<1>11. ~Port!Precedes(list[i], other[i], orderBy)
  <2>1. ~Port!Precedes(other[j], other[i], orderBy) BY <1>2, <1>3, <1>5, <1>9
  <2> QED BY <1>7, <2>1
<1>12. ~Port!Precedes(other[i], list[i], orderBy)
  <2>1. ~Port!Precedes(list[k], list[i], orderBy) BY <1>2, <1>3, <1>5, <1>10
  <2> QED BY <1>8, <2>1
<1>13. list[i] \in rows /\ other[i] \in rows BY <1>2, <1>5
<1> QED BY <1>5, <1>11, <1>12, <1>13, StrictOrder

\* A piece of a list, row by row.
LEMMA Piece ==
  ASSUME NEW S, NEW s, NEW a \in Nat, NEW b \in Nat, NEW l \in Nat, l = b - a + 1,
         \A i \in a..b : s[i] \in S
  PROVE  /\ SubSeq(s, a, b) \in [1..l -> S]
         /\ \A i \in 1..l : SubSeq(s, a, b)[i] = s[a + i - 1]
<1> DEFINE x == SubSeq(s, a, b)
<1>1. x \in Seq(S) BY SubSeqProperties
<1>2. Len(x) = IF a <= b THEN b - a + 1 ELSE 0 BY SubSeqProperties
<1>3. \A i \in 1..(b - a + 1) : x[i] = s[a + i - 1] BY SubSeqProperties
<1> HIDE DEF x
<1>4. Len(x) = l BY <1>2
<1>5. x \in [1..l -> S] BY <1>1, <1>4
<1>6. \A i \in 1..l : x[i] = s[a + i - 1] BY <1>3
<1> QED BY <1>5, <1>6 DEF x

LEMMA FirstPiece ==
  ASSUME NEW S, NEW s \in Seq(S), NEW m \in 0..Len(s)
  PROVE  SubSeq(s, 1, m) \in [1..m -> S] /\ \A i \in 1..m : SubSeq(s, 1, m)[i] = s[i]
<1> DEFINE first == 1
           last == first + m - 1
<1>1. first \in Nat /\ last \in Nat /\ m \in Nat OBVIOUS
<1>2. \A i \in first..last : s[i] \in S OBVIOUS
<1>3. \A i \in 1..m : s[first + i - 1] = s[i] BY <1>1
<1>4. last = m OBVIOUS
<1>5. m = last - first + 1 OBVIOUS
<1> HIDE DEF first, last
<1>6. SubSeq(s, first, last) \in [1..m -> S]
  BY <1>1, <1>2, <1>5, Piece
<1>7. \A i \in 1..m : SubSeq(s, first, last)[i] = s[first + i - 1]
  BY <1>1, <1>2, <1>5, Piece
<1> QED BY <1>3, <1>4, <1>6, <1>7 DEF first

LEMMA LastPiece ==
  ASSUME NEW S, NEW s, NEW k \in Nat, NEW n \in Nat, k <= n, \A i \in (k + 1)..n : s[i] \in S
  PROVE  /\ SubSeq(s, k + 1, n) \in [1..(n - k) -> S]
         /\ \A i \in 1..(n - k) : SubSeq(s, k + 1, n)[i] = s[k + i]
<1> DEFINE first == k + 1
           x == n - k
<1>1. first \in Nat /\ x \in Nat /\ n \in Nat /\ x = n - first + 1 OBVIOUS
<1>2. \A i \in 1..x : s[first + i - 1] = s[k + i]
  <2>1. \A i \in 1..x : first + i - 1 = k + i OBVIOUS
  <2> QED BY <2>1
<1>3. \A i \in first..n : s[i] \in S OBVIOUS
<1> HIDE DEF first, x
<1>4. SubSeq(s, first, n) \in [1..x -> S]
  BY <1>1, <1>3, Piece
<1>5. \A i \in 1..x : SubSeq(s, first, n)[i] = s[first + i - 1]
  BY <1>1, <1>3, Piece
<1> QED BY <1>2, <1>4, <1>5 DEF first, x

\* What the caller sees of a list of rows.
Shown(select, list) == [i \in DOMAIN list |-> Port!Projected(list[i], select)]

\* The first m rows of a list and those from there to the n-th are its first n.
LEMMA PiecesMakeAPiece ==
  ASSUME NEW S, NEW list \in Seq(S), NEW n \in 0..Len(list), NEW k \in Nat \ {0}, NEW select,
         NEW m, m = IF k <= n THEN k ELSE n
  PROVE  Shown(select, SubSeq(list, 1, m)) \o Shown(select, SubSeq(list, k + 1, n))
           = Shown(select, SubSeq(list, 1, n))
<1> DEFINE P(r) == Port!Projected(r, select)
           T == {P(r) : r \in S}
           all == [i \in 1..n |-> P(list[i])]
           head == SubSeq(list, 1, m)
           rest == SubSeq(list, k + 1, n)
           l == n - m
<1>1. n \in Nat /\ n <= Len(list) /\ \A i \in 1..n : list[i] \in S OBVIOUS
<1>2. k \in Nat \ {0} /\ m \in 0..n OBVIOUS
<1>3. head \in [1..m -> S] /\ \A i \in 1..m : head[i] = list[i]
  <2>1. m \in 0..Len(list) BY <1>1, <1>2
  <2> QED BY <2>1, FirstPiece
<1>4. l \in Nat /\ rest \in [1..l -> S] /\ \A i \in 1..l : rest[i] = list[m + i]
  <2>1. l \in Nat BY <1>1, <1>2
  <2>2. CASE k <= n
    <3>1. m = k /\ l = n - k BY <2>2
    <3> HIDE DEF l
    <3>2. rest \in [1..(n - k) -> S] /\ \A i \in 1..(n - k) : rest[i] = list[k + i]
      <4>1. \A i \in (k + 1)..n : list[i] \in S BY <1>1, <1>2
      <4> QED BY <1>1, <1>2, <2>2, <4>1, LastPiece
    <3> QED BY <2>1, <3>1, <3>2
  <2>3. CASE ~(k <= n)
    <3>1. m = n /\ l = 0 BY <1>1, <2>3
    <3> HIDE DEF l
    <3>3. rest = <<>>
      <4>1. k + 1 \in Int /\ n \in Int /\ n < k + 1 BY <1>1, <1>2, <2>3
      <4> QED BY <4>1, SubSeqEmpty
    <3> HIDE DEF rest
    <3> QED BY <2>1, <3>1, <3>3
  <2> QED BY <2>2, <2>3
<1> HIDE DEF P, T, head, rest, l
<1> DEFINE a == [i \in DOMAIN head |-> P(head[i])]
           b == [i \in DOMAIN rest |-> P(rest[i])]
<1>5. a \in [1..m -> T] /\ \A i \in 1..m : a[i] = P(list[i])
  BY <1>1, <1>3 DEF T
<1>6. b \in [1..l -> T] /\ \A i \in 1..l : b[i] = P(list[m + i])
  BY <1>1, <1>4 DEF T
<1>7. n = m + l /\ m \in Nat /\ l \in Nat BY <1>1, <1>2, <1>4 DEF l
<1>8. all \in [1..n -> T] /\ \A i \in 1..n : all[i] = P(list[i])
  BY <1>1 DEF T
<1> HIDE DEF a, b, all
<1>9. a \in Seq(T) /\ Len(a) = m /\ b \in Seq(T) /\ Len(b) = l /\ all \in Seq(T) /\ Len(all) = n
  BY <1>5, <1>6, <1>7, <1>8
<1>10. a \o b \in Seq(T) /\ Len(a \o b) = n
  <2>1. a \o b \in Seq(T) BY <1>9
  <2>2. Len(a \o b) = Len(a) + Len(b) BY <1>9, ConcatProperties
  <2> QED BY <1>7, <1>9, <2>1, <2>2
<1>11. ASSUME NEW i \in 1..n PROVE (a \o b)[i] = all[i]
  <2>1. CASE i \in 1..m BY <1>5, <1>7, <1>8, <1>9, <2>1
  <2>2. CASE i \notin 1..m
    <3>1. i - m \in 1..l /\ m + (i - m) = i BY <1>7, <2>2
    <3>2. (a \o b)[i] = b[i - m] BY <1>7, <1>9, <2>2
    <3> QED BY <1>6, <1>8, <3>1, <3>2
  <2> QED BY <2>1, <2>2
<1>12. a \o b = all
  <2> DEFINE ab == a \o b
  <2>1. ab \in Seq(T) /\ Len(ab) = n /\ \A i \in 1..n : ab[i] = all[i] BY <1>10, <1>11
  <2> HIDE DEF ab
  <2>2. ab = all BY <1>1, <1>9, <2>1
  <2> QED BY <2>2 DEF ab
<1>13. all = Shown(select, SubSeq(list, 1, n))
  <2> DEFINE x == SubSeq(list, 1, n)
  <2>1. x \in [1..n -> S] /\ \A i \in 1..n : x[i] = list[i] BY FirstPiece
  <2> HIDE DEF x
  <2>2. [i \in DOMAIN x |-> P(x[i])] = all BY <2>1 DEF all
  <2> QED BY <2>2, Zenon DEF x, P, Shown
<1> QED BY <1>12, <1>13, Zenon DEF a, b, head, rest, P, Shown

\* Two consecutive pages of a list make up one.
LEMMA PagesMakeAPage ==
  ASSUME NEW S, NEW list \in Seq(S), NEW p, NEW q, NEW select,
         DOMAIN p = {"take"}, DOMAIN q \in {{"skip"}, {"skip", "take"}},
         p.take \in Nat \ {0}, p.take = q.skip, "take" \in DOMAIN q => q.take \in Nat \ {0}
  PROVE  Shown(select, Port!Page(list, p)) \o Shown(select, Port!Page(list, q))
           = Shown(select, Port!Page(list, Joined(p, q)))
<1> DEFINE len == Len(list)
           k == p.take
           t == q.take
           more == "take" \in DOMAIN q
           n == IF more /\ k + t <= len THEN k + t ELSE len
           m == IF k <= n THEN k ELSE n
           j == Joined(p, q)
<1>1. len \in Nat /\ k \in Nat \ {0} /\ (more => t \in Nat \ {0}) OBVIOUS
<1>2. n \in 0..len BY <1>1
<1>3. Port!Page(list, p) = SubSeq(list, 1, m)
  <2>1. "skip" \notin DOMAIN p /\ "take" \in DOMAIN p OBVIOUS
  <2>2. Port!Page(list, p) =
          SubSeq(list, 1, IF 1 + k <= len + 1 THEN 1 + k - 1 ELSE len)
    BY <2>1, Zenon DEF Port!Page
  <2> HIDE DEF k, t, len, more
  <2>3. (IF 1 + k <= len + 1 THEN 1 + k - 1 ELSE len) = m BY <1>1
  <2> QED BY <2>2, <2>3
<1>4. Port!Page(list, q) = SubSeq(list, k + 1, n)
  <2>1. "skip" \in DOMAIN q OBVIOUS
  <2>2. Port!Page(list, q) =
          SubSeq(list, q.skip + 1,
                 IF more /\ q.skip + 1 + t <= len + 1 THEN q.skip + 1 + t - 1 ELSE len)
    BY <2>1, Zenon DEF Port!Page
  <2>3. q.skip = k OBVIOUS
  <2> HIDE DEF k, t, len, more
  <2>4. (IF more /\ k + 1 + t <= len + 1 THEN k + 1 + t - 1 ELSE len) = n BY <1>1
  <2> QED BY <2>2, <2>3, <2>4
<1>5. Port!Page(list, j) = SubSeq(list, 1, n)
  <2>1. DOMAIN j = DOMAIN q \ {"skip"} /\ (more => j.take = k + t) BY DEF Joined
  <2>2. "skip" \notin DOMAIN j /\ ("take" \in DOMAIN j <=> more) BY <2>1
  <2> HIDE DEF j, k, t, len, more
  <2>3. Port!Page(list, j) =
          SubSeq(list, 1, IF more /\ 1 + j.take <= len + 1 THEN 1 + j.take - 1 ELSE len)
    BY <2>2, Zenon DEF Port!Page, len
  <2>4. (IF more /\ 1 + j.take <= len + 1 THEN 1 + j.take - 1 ELSE len) = n BY <1>1, <2>1
  <2> QED BY <2>3, <2>4
<1> HIDE DEF n, k
<1>6. Shown(select, SubSeq(list, 1, m)) \o Shown(select, SubSeq(list, k + 1, n))
        = Shown(select, SubSeq(list, 1, n))
  <2> HIDE DEF m
  <2>1. m = IF k <= n THEN k ELSE n BY DEF m
  <2> QED BY <1>1, <1>2, <2>1, PiecesMakeAPiece
<1> QED BY <1>3, <1>4, <1>5, <1>6, Zenon

\* While everybody reads, what a findMany came to is the page it asked of the rows.
ReadsOnly == \A c \in Clients : call[c].kind \notin {"insert", "update", "remove"}
PageOf(m, list) == Shown(m.select, Port!Page(list, m.page))
IsThePage(m, t, o) ==
  o[1] = "rows" =>
    /\ m.kind = "findMany"
    /\ \E list \in Port!Arrangements(Port!Matching(t, m.where), m.orderBy) :
         o[2] = PageOf(m, list)
PagesInv == ReadsOnly => \A c \in Clients : IsThePage(call[c], rows, OutcomeOf[c])

LEMMA ReadShows ==
  ASSUME NEW c \in Clients, Port!Read(c, call[c]), call' = call
  PROVE  rows' = rows /\ IsThePage(call'[c], rows, OutcomeOf'[c])
<1> DEFINE m == call[c]
           found == Port!Matching(rows, m.where)
<1>1. /\ \/ /\ m.kind = "findOne"
            /\ \/ OutcomeOf' = [OutcomeOf EXCEPT ![c] = <<"null", 0>>]
               \/ \E r : OutcomeOf' = [OutcomeOf EXCEPT ![c] =
                                         <<"row", Port!Projected(r, m.select)>>]
         \/ /\ m.kind = "findMany"
            /\ \E list \in Port!Arrangements(found, m.orderBy) :
                 OutcomeOf' = [OutcomeOf EXCEPT ![c] = <<"rows", PageOf(m, list)>>]
         \/ OutcomeOf' = [OutcomeOf EXCEPT ![c] = <<"number", Port!Cardinality(found)>>]
      /\ rows' = rows
  BY Zenon DEF Port!Read, OutcomeOf, OutcomeAt, PageOf, Shown
<1>2. DOMAIN OutcomeOf = Clients BY DEF OutcomeOf
<1> HIDE DEF found, OutcomeOf
<1>3. ASSUME NEW o, OutcomeOf' = [OutcomeOf EXCEPT ![c] = o] PROVE OutcomeOf'[c] = o
  BY <1>2, <1>3
<1>4. CASE \E list \in Port!Arrangements(found, m.orderBy) :
             m.kind = "findMany"
             /\ OutcomeOf' = [OutcomeOf EXCEPT ![c] = <<"rows", PageOf(m, list)>>]
  <2>1. PICK list \in Port!Arrangements(found, m.orderBy) :
             m.kind = "findMany" /\ OutcomeOf'[c] = <<"rows", PageOf(m, list)>>
    BY <1>3, <1>4
  <2>2. OutcomeOf'[c][2] = PageOf(m, list) BY <2>1
  <2> QED BY <1>1, <2>1, <2>2, Zenon DEF IsThePage, found
<1>5. CASE \E x : \/ OutcomeOf' = [OutcomeOf EXCEPT ![c] = <<"null", x>>]
                  \/ OutcomeOf' = [OutcomeOf EXCEPT ![c] = <<"row", x>>]
                  \/ OutcomeOf' = [OutcomeOf EXCEPT ![c] = <<"number", x>>]
  <2>1. PICK x : OutcomeOf'[c] \in {<<"null", x>>, <<"row", x>>, <<"number", x>>}
    BY <1>3, <1>5
  <2>2. OutcomeOf'[c][1] # "rows" BY <2>1
  <2> QED BY <1>1, <2>2 DEF IsThePage
<1> QED BY <1>1, <1>4, <1>5, Zenon

LEMMA FailureShows ==
  ASSUME NEW c \in Clients, Fails(c)
  PROVE  rows' = rows /\ IsThePage(call'[c], rows, OutcomeOf'[c])
<1>1. DOMAIN OutcomeOf = Clients BY DEF OutcomeOf
<1> HIDE DEF OutcomeOf
<1>2. rows' = rows /\ OutcomeOf'[c] = <<"failed", 0>> BY <1>1 DEF Fails
<1>3. OutcomeOf'[c][1] # "rows" BY <1>2
<1> QED BY <1>2, <1>3 DEF IsThePage

LEMMA PagesStep == IInv /\ AnswersInv /\ PagesInv /\ [Next]_vars => PagesInv'
<1> SUFFICES ASSUME IInv, AnswersInv, PagesInv, [Next]_vars, ReadsOnly'
             PROVE  \A c \in Clients : IsThePage(call[c], rows, OutcomeOf[c])'
  BY DEF PagesInv
<1>1. ASSUME NEW c \in Clients, \A d \in Clients \ {c} : Untouched(d), rows' = rows,
             IsThePage(call'[c], rows, OutcomeOf'[c]), ReadsOnly
      PROVE  \A d \in Clients : IsThePage(call[d], rows, OutcomeOf[d])'
  <2> SUFFICES ASSUME NEW d \in Clients PROVE IsThePage(call'[d], rows', OutcomeOf'[d])
    OBVIOUS
  <2>1. CASE d = c BY <1>1, <2>1
  <2>2. CASE d # c
    <3>1. call'[d] = call[d] /\ OutcomeOf'[d] = OutcomeOf[d]
      BY <1>1, <2>2, MappedUntouched DEF Untouched
    <3>2. IsThePage(call[d], rows, OutcomeOf[d]) BY <1>1 DEF PagesInv
    <3> QED BY <1>1, <3>1, <3>2
  <2> QED BY <2>1, <2>2
<1>2. CASE UNCHANGED vars
  <2>1. ASSUME NEW d \in Clients PROVE Untouched(d) BY <1>2 DEF vars, Untouched
  <2>2. ReadsOnly BY <1>2 DEF vars, ReadsOnly
  <2> SUFFICES ASSUME NEW d \in Clients PROVE IsThePage(call'[d], rows', OutcomeOf'[d])
    OBVIOUS
  <2>3. call'[d] = call[d] /\ rows' = rows BY <1>2 DEF vars
  <2>4. OutcomeOf'[d] = OutcomeOf[d] BY <2>1, MappedUntouched
  <2>5. IsThePage(call[d], rows, OutcomeOf[d]) BY <2>2 DEF PagesInv
  <2> QED BY <2>3, <2>4, <2>5
<1>3. ASSUME call' = call PROVE ReadsOnly BY <1>3 DEF ReadsOnly
<1>4. ASSUME NEW c \in Clients, Invoke(c)
      PROVE  \A d \in Clients : IsThePage(call[d], rows, OutcomeOf[d])'
  <2>1. (\A d \in Clients \ {c} : Untouched(d)) /\ OutcomeOf'[c][1] # "rows"
    BY <1>4, InvokeMaps
  <2>2. rows' = rows /\ phase[c] = "idle" BY <1>4, Zenon DEF Invoke
  <2>3. ReadsOnly
    <3>1. call[c] = NoCall BY <2>2 DEF IInv, CallInv
    <3>2. call[c].kind = "none" BY <3>1 DEF NoCall
    <3> QED BY <2>1, <3>2 DEF ReadsOnly, Untouched
  <2>4. IsThePage(call'[c], rows, OutcomeOf'[c]) BY <2>1 DEF IsThePage
  <2> QED BY <1>1, <2>1, <2>2, <2>3, <2>4
<1>5. ASSUME NEW c \in Clients, Execute(c)
      PROVE  \A d \in Clients : IsThePage(call[d], rows, OutcomeOf[d])'
  <2>1. UNCHANGED <<driver, call, criteria, result>> BY <1>5, Zenon DEF Execute
  <2>2. PICK e : Replied(c, e) BY <1>5, ExecuteMaps
  <2>3. \A d \in Clients \ {c} : Untouched(d) BY <2>1, <2>2, AnswerMaps
  <2>4. ReadsOnly BY <1>3, <2>1
  <2>5. Port!Read(c, call[c]) \/ Fails(c)
    <3>1. \/ Port!Read(c, call[c]) \/ Fails(c)
          \/ call[c].kind \in {"insert", "update", "remove"}
      BY <1>5, ExecuteMaps, Zenon
    <3>2. call[c].kind \notin {"insert", "update", "remove"} BY <2>4 DEF ReadsOnly
    <3> QED BY <3>1, <3>2, Zenon
  <2>6. rows' = rows /\ IsThePage(call'[c], rows, OutcomeOf'[c])
    <3>1. call' = call BY <2>1
    <3>2. CASE Port!Read(c, call[c]) BY <3>1, <3>2, ReadShows, Zenon
    <3>3. CASE Fails(c) BY <3>3, FailureShows, Zenon
    <3> QED BY <2>5, <3>2, <3>3
  <2> QED BY <1>1, <2>3, <2>4, <2>6
<1>6. ASSUME NEW c \in Clients, FailBefore(c) \/ FailAfter(c)
      PROVE  \A d \in Clients : IsThePage(call[d], rows, OutcomeOf[d])'
  <2>1. UNCHANGED <<driver, rows, call, criteria, result>> BY <1>6 DEF FailBefore, FailAfter
  <2>2. Replied(c, Disconnected) /\ OutcomeOf' = [OutcomeOf EXCEPT ![c] = <<"failed", 0>>]
    BY <1>6, FailureMaps
  <2>3. \A d \in Clients \ {c} : Untouched(d) BY <2>1, <2>2, AnswerMaps
  <2>5. IsThePage(call'[c], rows, OutcomeOf'[c]) BY <2>1, <2>2, FailureShows DEF Fails
  <2>6. ReadsOnly BY <1>3, <2>1
  <2> QED BY <1>1, <2>1, <2>3, <2>5, <2>6
<1>7. ASSUME NEW c \in Clients, Settle(c)
      PROVE  \A d \in Clients : IsThePage(call[d], rows, OutcomeOf[d])'
  <2>1. OutcomeOf' = OutcomeOf BY <1>7, SettleMaps
  <2>2. rows' = rows /\ call' = call BY <1>7 DEF Settle
  <2>3. ReadsOnly BY <1>3, <2>2
  <2>4. \A d \in Clients : IsThePage(call[d], rows, OutcomeOf[d]) BY <2>3 DEF PagesInv
  <2> HIDE DEF OutcomeOf, IsThePage
  <2> QED BY <2>1, <2>2, <2>4
<1> QED BY <1>2, <1>4, <1>5, <1>6, <1>7 DEF Next, AllDone

\* Two consecutive pages that two callers read of one strict order make up one, whatever
\* the table holds, while nobody writes and wherever connections break.
THEOREM PagesFit == Spec => []PagesFitTogether
<1>1. Init => PagesInv
  <2> SUFFICES ASSUME Init PROVE PagesInv OBVIOUS
  <2>1. ASSUME NEW c \in Clients PROVE OutcomeOf[c][1] # "rows"
    <3>1. phase[c] = "idle" BY DEF Init
    <3>2. OutcomeAt(c) = Open BY <3>1 DEF OutcomeAt
    <3>3. OutcomeOf[c] = Open BY <3>2, Mapped
    <3> QED BY <3>3 DEF Open
  <2> QED BY <2>1 DEF PagesInv, IsThePage
<1>2. IInv /\ PagesInv => PagesFitTogether
  <2> SUFFICES ASSUME IInv, PagesInv, ReadsOnly, NEW c \in Clients, NEW d \in Clients,
                      result[c][1] = "rows", result[d][1] = "rows",
                      Consecutive(call[c], call[d])
               PROVE  \E list \in Port!Arrangements(Port!Matching(rows, call[c].where),
                                                    call[c].orderBy) :
                        result[c][2] \o result[d][2] =
                          Shown(call[c].select,
                                Port!Page(list, Joined(call[c].page, call[d].page)))
    BY Zenon DEF PagesFitTogether, ReadsOnly, Shown
  <2> DEFINE m == call[c]
             n == call[d]
             found == Port!Matching(rows, m.where)
  <2>1. ASSUME NEW e \in Clients, result[e][1] = "rows"
        PROVE  /\ IsThePage(call[e], rows, result[e])
               /\ call[e] \in Calls
    <3>1. phase[e] = "done"
      <4>1. result[e] # Open BY <2>1 DEF Open
      <4> QED BY <4>1 DEF IInv, CallInv, ShapeInv
    <3>2. OutcomeOf[e] = result[e]
      <4>1. OutcomeAt(e) = result[e] BY <3>1 DEF OutcomeAt
      <4> QED BY <4>1, Mapped
    <3>3. call[e] \in Calls BY <3>1 DEF IInv, CallInv, ShapeInv
    <3> QED BY <3>2, <3>3 DEF PagesInv
  <2>2. PICK list \in Port!Arrangements(found, m.orderBy) : result[c][2] = PageOf(m, list)
    BY <2>1 DEF IsThePage
  <2>3. PICK other \in Port!Arrangements(found, m.orderBy) : result[d][2] = PageOf(n, other)
    BY <2>1 DEF IsThePage, Consecutive
  <2>4. m \in Calls /\ m.kind = "findMany" /\ m.orderBy \in Orders
    <3>1. m \in Calls BY <2>1
    <3>2. m.kind = "findMany" BY DEF Consecutive
    <3> QED BY <3>1, <3>2, Assumed DEF Orders
  <2>5. RowsInv /\ found \in SUBSET rows BY DEF IInv, Port!Matching
  <2>6. \E k \in DOMAIN m.orderBy : m.orderBy[k][2] # "undefined" BY DEF Consecutive
  <2>7. /\ DOMAIN m.page = {"take"} /\ DOMAIN n.page \in {{"skip"}, {"skip", "take"}}
        /\ m.page.take = n.page.skip /\ m.select = n.select
    BY DEF Consecutive
  <2>8. m.page.take \in Nat \ {0} /\ ("take" \in DOMAIN n.page => n.page.take \in Nat \ {0})
    <3>1. n \in Calls BY <2>1
    <3>2. n.kind = "findMany" BY DEF Consecutive
    <3> QED BY <2>4, <2>7, <3>1, <3>2, Assumed
  <2>9. list \in Seq(found)
    <3>1. IsFiniteSet(found)
      <4>1. IsFiniteSet(rows) BY <2>5, FiniteRows
      <4> QED BY <2>5, <4>1, FS_Subset
    <3>2. Cardinality(found) \in Nat /\ list \in [1..Cardinality(found) -> found]
      BY <3>1, ListsAreComplete
    <3> QED BY <3>2
  <2> HIDE DEF m, n, found
  <2>10. list = other BY <2>4, <2>5, <2>6, OneArrangement
  <2>11. PageOf(m, list) \o PageOf(n, list)
           = Shown(m.select, Port!Page(list, Joined(m.page, n.page)))
    <3> DEFINE p == m.page
               q == n.page
               select == m.select
    <3>1. /\ p.take \in Nat \ {0} /\ p.take = q.skip
          /\ "take" \in DOMAIN q => q.take \in Nat \ {0}
      BY <2>7, <2>8
    <3>2. DOMAIN p = {"take"} /\ DOMAIN q \in {{"skip"}, {"skip", "take"}} BY <2>7
    <3>3. PageOf(m, list) = Shown(select, Port!Page(list, p)) BY Zenon DEF PageOf
    <3>4. PageOf(n, list) = Shown(select, Port!Page(list, q)) BY <2>7, Zenon DEF PageOf
    <3> HIDE DEF p, q, select
    <3>5. Shown(select, Port!Page(list, p)) \o Shown(select, Port!Page(list, q))
            = Shown(select, Port!Page(list, Joined(p, q)))
      BY <2>9, <3>1, <3>2, PagesMakeAPage
    <3>6. PageOf(m, list) \o PageOf(n, list) = Shown(select, Port!Page(list, Joined(p, q)))
      BY <3>3, <3>4, <3>5, Zenon
    <3> QED BY <3>6 DEF select, p, q
  <2>12. result[c][2] \o result[d][2]
           = Shown(m.select, Port!Page(list, Joined(m.page, n.page)))
    BY <2>2, <2>3, <2>10, <2>11
  <2> QED BY <2>12, Zenon DEF m, n, found
<1>3. Init => AnswersInv BY InitMaps
<1> QED BY <1>1, <1>2, <1>3, AnswersStep, PagesStep, AlwaysIInv, PTL DEF Spec
=============================================================================
