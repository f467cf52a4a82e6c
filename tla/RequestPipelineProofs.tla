------------------------ MODULE RequestPipelineProofs ------------------------
(***************************************************************************)
(* Safety of RequestPipeline for any number of requests, clients and       *)
(* proxies and any limit.  IInv says, stage by stage, what a request has   *)
(* left in the response, in its sample and in the gauge, and ties the      *)
(* throttler's counts to the clients that caused them.                     *)
(***************************************************************************)
EXTENDS RequestPipeline, SequenceTheorems, FiniteSetTheorems, TLAPS

Handled == {r \in Requests : stage[r] = "handling"}

\* The gauge is the number of requests being handled, of which there are finitely many.
GaugeInv == IsFiniteSet(Handled) /\ active = Cardinality(Handled)

\* What a request has written: at most one status line, its present status; a body of
\* the pipeline's own is not on the wire before the end and then carries that status.
Written(r) ==
  /\ heads[r] = IF sent[r] = 0 THEN 0 ELSE 1
  /\ sent[r] # 0 => sent[r] = status[r]
  /\ stage[r] \in {"new", "admitted"} => sent[r] = 0
  /\ sent[r] # 0 /\ stage[r] # "ended" => code[r] = -1
  /\ stage[r] = "resolved" => code[r] \in {-1, status[r]}
  /\ stage[r] = "resolved" /\ outcome[r] = "circular" => sent[r] = 0
  /\ stage[r] = "ended" => sent[r] # 0 /\ code[r] \in {-1, sent[r]}

\* What the sample of a request was taken from, as long as the reply is outstanding.
Sampled(r) ==
  /\ thrown[r].http => thrown[r].status \in Statuses
  /\ stage[r] \in {"new", "admitted", "handling"} =>
       /\ observed[r] = <<>> /\ outcome[r] = "none"
       /\ r \notin touched => status[r] = 200
  /\ stage[r] \in {"new", "admitted"} => r \notin touched
  /\ stage[r] = "resolved" =>
       /\ observed[r] = <<status[r]>>
       /\ outcome[r] \in {"value", "envelope", "circular"}
  /\ stage[r] = "failed" =>
       /\ outcome[r] \in {"none", "circular", "http", "error"}
       /\ outcome[r] = "http" => thrown[r].http /\ observed[r] = <<thrown[r].status>>
       /\ outcome[r] = "error" =>
            ~thrown[r].http /\ (r \notin touched => observed[r] = <<500>>)
  /\ Regular(r) => observed[r] = <<sent[r]>>

WireInv == \A r \in Requests : Written(r)
SampleInv == \A r \in Requests : Sampled(r)

\* With every proxy trusted, a client's count is of its own requests only.
LimitInv ==
  TrustProxyHops = Len(Proxies) =>
    \A c \in Clients :
      /\ admitted[c] = IF hits[c] <= Limit THEN hits[c] ELSE Limit
      /\ c \in refused => hits[c] > Limit

IInv == TypeOK /\ GaugeInv /\ WireInv /\ SampleInv /\ LimitInv

-----------------------------------------------------------------------------
(* The address a request is counted under                                  *)

\* The forwarded addresses, the peer included, in the order Express looks at them.
LEMMA HopsAreAddresses ==
  ASSUME TypeOK, NEW r \in Requests
  PROVE  /\ Hops \in Nat
         /\ header[r] \o <<sender[r]>> \o Proxies \in Seq(Addresses)
         /\ Len(header[r] \o <<sender[r]>> \o Proxies) = Len(header[r]) + 1 + Len(Proxies)
<1>1. Hops \in Nat
  BY DEF Hops, NoHops
<1>2. header[r] \in Seq(Addresses) /\ <<sender[r]>> \in Seq(Addresses)
  <2>1. header[r] \in Seq(Clients) /\ sender[r] \in Clients
    BY PipelineAssumption DEF TypeOK
  <2> QED BY <2>1, SeqMonotonic DEF Addresses
<1>3. Proxies \in Seq(Addresses)
  BY PipelineAssumption, SeqOfRange, SeqMonotonic DEF Addresses, ToSet
<1> QED
  BY <1>1, <1>2, <1>3, ConcatProperties


LEMMA ReverseProperties ==
  ASSUME NEW S, NEW s \in Seq(S)
  PROVE  /\ Len(Reverse(s)) = Len(s)
         /\ \A i \in 1..Len(s) : Reverse(s)[i] = s[Len(s) - i + 1] /\ Reverse(s)[i] \in S
<1>1. Len(s) \in Nat /\ \A i \in 1..Len(s) : s[i] \in S
  OBVIOUS
<1>2. Len(Reverse(s)) = Len(s)
  BY <1>1 DEF Reverse
<1>3. ASSUME NEW i \in 1..Len(s)
      PROVE  Reverse(s)[i] = s[Len(s) - i + 1] /\ Reverse(s)[i] \in S
  <2>1. Reverse(s)[i] = s[Len(s) - i + 1]
    BY DEF Reverse
  <2>2. Len(s) - i + 1 \in 1..Len(s)
    BY <1>1
  <2> QED BY <1>1, <2>1, <2>2
<1> QED BY <1>2, <1>3

LEMMA AddressIsAddress ==
  ASSUME TypeOK, NEW r \in Requests
  PROVE  AddressOf(r) \in Addresses
<1> DEFINE s == header[r] \o <<sender[r]>> \o Proxies
<1>1. s \in Seq(Addresses) /\ Len(s) = Len(header[r]) + 1 + Len(Proxies) /\ Hops \in Nat
  BY HopsAreAddresses
<1>2. Len(header[r]) \in Nat /\ Len(Proxies) \in Nat
  BY PipelineAssumption DEF TypeOK
<1>3. AddressOf(r) = Reverse(s)[IF Hops < Len(Reverse(s)) THEN Hops + 1 ELSE Len(Reverse(s))]
  BY DEF AddressOf
<1> HIDE DEF s
<1> QED
  BY <1>1, <1>2, <1>3, ReverseProperties

\* As many hops as proxies: the sender's own address, whatever it wrote itself.
LEMMA OwnAddress ==
  ASSUME TypeOK, NEW r \in Requests, TrustProxyHops = Len(Proxies)
  PROVE  AddressOf(r) = sender[r]
<1> DEFINE s == header[r] \o <<sender[r]>> \o Proxies
<1>1. s \in Seq(Addresses) /\ Len(s) = Len(header[r]) + 1 + Len(Proxies)
  BY HopsAreAddresses
<1>2. Len(header[r]) \in Nat /\ Len(Proxies) \in Nat
  BY PipelineAssumption DEF TypeOK
<1>3. s[Len(header[r]) + 1] = sender[r]
  <2>1. header[r] \in Seq(Clients) /\ <<sender[r]>> \in Seq({sender[r]}) /\ Proxies \in Seq(STRING)
    BY PipelineAssumption DEF TypeOK
  <2> QED BY <2>1
<1>4. Hops = Len(Proxies)
  BY <1>2 DEF Hops, NoHops
<1>5. AddressOf(r) = Reverse(s)[IF Hops < Len(Reverse(s)) THEN Hops + 1 ELSE Len(Reverse(s))]
  BY DEF AddressOf
<1> HIDE DEF s
<1>6. Reverse(s)[Len(Proxies) + 1] = s[Len(header[r]) + 1] /\ Len(Reverse(s)) = Len(s)
  <2>1. Len(Proxies) + 1 \in 1..Len(s) /\ Len(s) - (Len(Proxies) + 1) + 1 = Len(header[r]) + 1
    BY <1>1, <1>2
  <2>2. /\ Reverse(s)[Len(Proxies) + 1] = s[Len(s) - (Len(Proxies) + 1) + 1]
        /\ Len(Reverse(s)) = Len(s)
    BY <1>1, <2>1, ReverseProperties
  <2> QED BY <2>1, <2>2
<1> QED
  BY <1>1, <1>2, <1>3, <1>4, <1>5, <1>6

-----------------------------------------------------------------------------
(* IInv is inductive                                                       *)

LEMMA InitInv == Init => IInv
<1> SUFFICES ASSUME Init
             PROVE  IInv
  OBVIOUS
<1>1. TypeOK
  BY PipelineAssumption DEF Init, TypeOK, NoError, Statuses
<1>2. GaugeInv
  <2>1. Handled = {} /\ active = 0
    BY DEF Init, Handled
  <2> QED BY <2>1, FS_EmptySet DEF GaugeInv
<1>3. WireInv /\ SampleInv
  BY DEF Init, WireInv, SampleInv, Written, Sampled, Regular, NoError
<1>4. LimitInv
  BY PipelineAssumption DEF Init, LimitInv, Addresses
<1> QED
  BY <1>1, <1>2, <1>3, <1>4 DEF IInv

\* A step that takes one request into or out of the interceptors moves the gauge by one.
LEMMA GaugeStep ==
  ASSUME IInv, [Next]_vars
  PROVE  GaugeInv' /\ active' \in Nat
<1> USE DEF wire, metrics, throttler, origin
<1>0. stage \in [Requests -> {"new", "admitted", "handling", "resolved", "failed",
                              "ended", "broken"}]
  BY DEF IInv, TypeOK
<1>1. ASSUME NEW r \in Requests, Intercept(r)
      PROVE  GaugeInv'
  <2>1. Handled' = Handled \cup {r} /\ r \notin Handled /\ active' = active + 1
    BY <1>0, <1>1 DEF Intercept, Handled
  <2> QED BY <2>1, FS_AddElement DEF IInv, GaugeInv
<1>2. ASSUME NEW r \in Requests, stage[r] = "handling", Finalize,
             NEW s \in {"resolved", "failed"}, stage' = [stage EXCEPT ![r] = s]
      PROVE  GaugeInv'
  <2>1. Handled' = Handled \ {r} /\ r \in Handled /\ active' = active - 1
    BY <1>0, <1>2 DEF Finalize, Handled
  <2> QED BY <2>1, FS_RemoveElement DEF IInv, GaugeInv
<1>3. UNCHANGED active /\ Handled' = Handled => GaugeInv'
  BY DEF IInv, GaugeInv
<1>4. GaugeInv'
  <2>1. ASSUME NEW r \in Requests, NotFound(r) \/ Skipped(r) \/ Guard(r)
        PROVE  UNCHANGED active /\ Handled' = Handled
    BY <1>0, <2>1 DEF NotFound, Skipped, Guard, Throws, Handled
  <2>2. ASSUME NEW r \in Requests, SetsStatus(r) \/ StartsResponse(r) \/ Reply(r) \/ Filter(r)
        PROVE  UNCHANGED active /\ Handled' = Handled
    BY <1>0, <2>2 DEF SetsStatus, StartsResponse, Reply, Filter, Throws, AnswersError, Handled
  <2>3. ASSUME NEW r \in Requests, NEW value \in {"value", "envelope", "circular"},
               Resolves(r, value)
        PROVE  GaugeInv'
    BY <1>2, <2>3 DEF Resolves
  <2>4. ASSUME NEW r \in Requests, NEW e \in {HttpException(400), Error}, Fails(r, e)
        PROVE  GaugeInv'
    BY <1>2, <2>4 DEF Fails, Throws
  <2>5. WindowEnds \/ UNCHANGED vars => UNCHANGED active /\ Handled' = Handled
    BY DEF WindowEnds, vars, Handled
  <2> QED
    BY <1>1, <1>3, <2>1, <2>2, <2>3, <2>4, <2>5 DEF Next
<1> QED
  BY <1>4, FS_CardinalityType DEF GaugeInv

LEMMA TypeStep ==
  ASSUME IInv, [Next]_vars
  PROVE  TypeOK'
<1> USE DEF TypeOK, wire, metrics, throttler, origin
<1>0. TypeOK /\ active' \in Nat
  BY GaugeStep DEF IInv
<1>1. CASE WindowEnds
  BY <1>0, <1>1, PipelineAssumption DEF WindowEnds
<1>2. ASSUME NEW r \in Requests, NotFound(r)
      PROVE  TypeOK'
  BY <1>0, <1>2 DEF NotFound, Throws, HttpException, Statuses
<1>3. ASSUME NEW r \in Requests, Skipped(r)
      PROVE  TypeOK'
  BY <1>0, <1>3 DEF Skipped
<1>4. ASSUME NEW r \in Requests, Guard(r)
      PROVE  TypeOK'
  <2>1. AddressOf(r) \in Addresses /\ sender[r] \in Clients
    BY <1>0, AddressIsAddress
  <2>2. hits' \in [Addresses -> Nat]
    BY <1>0, <1>4, <2>1 DEF Guard
  <2>3. CASE hits[AddressOf(r)] < Limit
    <3>1. /\ stage' = [stage EXCEPT ![r] = "admitted"] /\ UNCHANGED <<thrown, refused>>
          /\ admitted' = [admitted EXCEPT ![sender[r]] = @ + 1]
      BY <1>4, <2>3, Zenon DEF Guard
    <3> QED BY <1>0, <1>4, <2>1, <2>2, <3>1 DEF Guard
  <2>4. CASE ~(hits[AddressOf(r)] < Limit)
    <3>1. HttpException(429) \in [http : BOOLEAN, status : Statuses \cup {0}]
      BY DEF HttpException, Statuses
    <3>2. /\ stage' = [stage EXCEPT ![r] = "failed"] /\ UNCHANGED admitted
          /\ thrown' = [thrown EXCEPT ![r] = HttpException(429)]
          /\ refused' = refused \cup {sender[r]}
      BY <1>4, <2>4, Zenon DEF Guard, Throws
    <3> QED BY <1>0, <1>4, <2>1, <2>2, <3>1, <3>2 DEF Guard
  <2> QED BY <2>3, <2>4
<1>5. ASSUME NEW r \in Requests, Intercept(r)
      PROVE  TypeOK'
  BY <1>0, <1>5 DEF Intercept
<1>6. ASSUME NEW r \in Requests, SetsStatus(r)
      PROVE  TypeOK'
  BY <1>0, <1>6 DEF SetsStatus, Statuses
<1>7. ASSUME NEW r \in Requests, StartsResponse(r)
      PROVE  TypeOK'
  BY <1>0, <1>7 DEF StartsResponse, WritesHead
<1>8. ASSUME NEW r \in Requests, NEW value \in {"value", "envelope", "circular"},
             Resolves(r, value)
      PROVE  TypeOK'
  <2>1. status[r] \in Statuses
    BY <1>0
  <2>2. observed' \in [Requests -> Seq(Statuses)]
    BY <1>0, <1>8, <2>1 DEF Resolves, Observe
  <2>3. code' \in [Requests -> Statuses \cup {0, -1}]
    BY <1>0, <1>8, <2>1 DEF Resolves, EnvelopeCode
  <2> QED BY <1>0, <1>8, <2>2, <2>3 DEF Resolves
<1>9. ASSUME NEW r \in Requests, NEW e \in {HttpException(400), Error}, Fails(r, e)
      PROVE  TypeOK'
  <2>1. ResolveStatusCode(r, e) \in Statuses /\ e \in [http : BOOLEAN, status : Statuses \cup {0}]
    <3>1. CASE e = HttpException(400)
      BY <3>1 DEF ResolveStatusCode, HttpException, Statuses
    <3>2. CASE e = Error
      BY <1>0, <3>2 DEF ResolveStatusCode, Error, Statuses
    <3> QED BY <3>1, <3>2
  <2>2. observed' \in [Requests -> Seq(Statuses)]
    BY <1>0, <1>9, <2>1 DEF Fails, Observe
  <2> QED BY <1>0, <1>9, <2>1, <2>2 DEF Fails, Throws
<1>10. ASSUME NEW r \in Requests, Reply(r)
       PROVE  TypeOK'
  <2>1. CASE Throws(r, Error) /\ UNCHANGED <<sent, heads>>
    <3>1. Error \in [http : BOOLEAN, status : Statuses \cup {0}]
      BY DEF Error, Statuses
    <3> QED BY <1>0, <1>10, <2>1, <3>1 DEF Reply, Throws
  <2>2. CASE WritesHead(r, status[r]) /\ stage' = [stage EXCEPT ![r] = "ended"] /\ UNCHANGED thrown
    BY <1>0, <1>10, <2>2 DEF Reply, WritesHead
  <2>3. CASE stage' = [stage EXCEPT ![r] = "ended"] /\ UNCHANGED <<sent, heads, thrown>>
    BY <1>0, <1>10, <2>3 DEF Reply
  <2> QED BY <1>10, <2>1, <2>2, <2>3 DEF Reply
<1>11. ASSUME NEW r \in Requests, Filter(r)
       PROVE  TypeOK'
  <2>1. CASE AnswersError(r)
    <3> DEFINE n == IF thrown[r].http THEN thrown[r].status ELSE 500
    <3>1. n \in Statuses
      BY DEF IInv, SampleInv, Sampled, Statuses
    <3>2. status' = [status EXCEPT ![r] = n] /\ code' = [code EXCEPT ![r] = n]
      BY <2>1 DEF AnswersError
    <3>3. sent' = [sent EXCEPT ![r] = n] /\ heads' = [heads EXCEPT ![r] = @ + 1]
      BY <2>1 DEF AnswersError, WritesHead
    <3>4. stage' = [stage EXCEPT ![r] = "ended"]
      BY <2>1 DEF AnswersError
    <3> HIDE DEF n
    <3> QED BY <1>0, <1>11, <3>1, <3>2, <3>3, <3>4 DEF Filter
  <2>2. CASE stage' = [stage EXCEPT ![r] = "broken"] /\ UNCHANGED wire
    BY <1>0, <1>11, <2>2 DEF Filter
  <2> QED BY <1>11, <2>1, <2>2 DEF Filter
<1>12. CASE UNCHANGED vars
  BY <1>0, <1>12 DEF vars
<1> QED
  BY <1>1, <1>2, <1>3, <1>4, <1>5, <1>6, <1>7, <1>8, <1>9, <1>10, <1>11, <1>12 DEF Next

\* What a step of another request, or of the throttler, leaves alone.
LEMMA OthersUntouched ==
  ASSUME IInv, NEW q \in Requests, Written(q), Sampled(q),
         stage'[q] = stage[q], status'[q] = status[q], sent'[q] = sent[q],
         heads'[q] = heads[q], code'[q] = code[q], thrown'[q] = thrown[q],
         observed'[q] = observed[q], outcome'[q] = outcome[q],
         q \in touched' <=> q \in touched
  PROVE  Written(q)' /\ Sampled(q)'
BY DEF Written, Sampled, Regular

LEMMA RequestStep ==
  ASSUME IInv, TypeOK', [Next]_vars
  PROVE  WireInv' /\ SampleInv'
<1> SUFFICES ASSUME NEW q \in Requests
             PROVE  Written(q)' /\ Sampled(q)'
  BY DEF WireInv, SampleInv
<1> USE DEF wire, metrics, throttler, origin
<1>0. TypeOK /\ TypeOK' /\ Written(q) /\ Sampled(q)
  BY DEF IInv, WireInv, SampleInv
<1>1. CASE WindowEnds \/ UNCHANGED vars
  BY <1>0, <1>1, OthersUntouched DEF WindowEnds, vars
<1>2. ASSUME NEW r \in Requests, NotFound(r) \/ Skipped(r) \/ Intercept(r)
      PROVE  Written(q)' /\ Sampled(q)'
  <2>1. CASE r # q
    <3>1. UNCHANGED <<status, sent, heads, code, observed, outcome, touched>>
      BY <1>2 DEF NotFound, Skipped, Intercept
    <3>2. /\ \E s : stage' = [stage EXCEPT ![r] = s]
          /\ UNCHANGED thrown \/ \E e : thrown' = [thrown EXCEPT ![r] = e]
      BY <1>2, Zenon DEF NotFound, Skipped, Intercept, Throws
    <3>3. stage'[q] = stage[q] /\ thrown'[q] = thrown[q]
      BY <1>0, <2>1, <3>2 DEF TypeOK
    <3> QED BY <1>0, <3>1, <3>3, OthersUntouched
  <2>2. CASE r = q
    BY <1>0, <1>2, <2>2 DEF TypeOK, NotFound, Skipped, Intercept, Throws, HttpException,
       Written, Sampled, Regular, Statuses
  <2> QED BY <2>1, <2>2
<1>3. ASSUME NEW r \in Requests, Guard(r)
      PROVE  Written(q)' /\ Sampled(q)'
  <2>1. \/ stage' = [stage EXCEPT ![r] = "admitted"] /\ UNCHANGED thrown
        \/ Throws(r, HttpException(429))
    BY <1>3, Zenon DEF Guard
  <2>2. UNCHANGED <<status, sent, heads, code, observed, outcome, touched>> /\ stage[r] = "new"
    BY <1>3 DEF Guard
  <2>3. CASE r # q
    BY <1>0, <2>1, <2>2, <2>3, OthersUntouched DEF TypeOK, Throws
  <2>4. CASE r = q
    BY <1>0, <2>1, <2>2, <2>4 DEF TypeOK, Throws, HttpException, Written, Sampled, Regular, Statuses
  <2> QED BY <2>3, <2>4
<1>4. ASSUME NEW r \in Requests, SetsStatus(r)
      PROVE  Written(q)' /\ Sampled(q)'
  <2>1. CASE r # q
    BY <1>0, <1>4, <2>1, OthersUntouched DEF TypeOK, SetsStatus
  <2>2. CASE r = q
    BY <1>0, <1>4, <2>2 DEF TypeOK, SetsStatus, Written, Sampled, Regular
  <2> QED BY <2>1, <2>2
<1>5. ASSUME NEW r \in Requests, StartsResponse(r)
      PROVE  Written(q)' /\ Sampled(q)'
  <2>1. CASE r # q
    BY <1>0, <1>5, <2>1, OthersUntouched DEF TypeOK, StartsResponse, WritesHead
  <2>2. CASE r = q
    BY <1>0, <1>5, <2>2 DEF TypeOK, StartsResponse, WritesHead, Written, Sampled, Regular, Statuses
  <2> QED BY <2>1, <2>2
<1>6. ASSUME NEW r \in Requests, NEW value \in {"value", "envelope", "circular"},
             Resolves(r, value)
      PROVE  Written(q)' /\ Sampled(q)'
  <2>1. CASE r # q
    BY <1>0, <1>6, <2>1, OthersUntouched DEF TypeOK, Resolves, Observe, EnvelopeCode
  <2>2. CASE r = q
    <3>1. /\ stage'[q] = "resolved" /\ outcome'[q] = value
          /\ UNCHANGED <<status, sent, heads, thrown, touched>>
          /\ stage[q] = "handling" /\ (sent[q] # 0 => value = "value")
      BY <1>0, <1>6, <2>2 DEF TypeOK, Resolves
    <3>2. code'[q] = EnvelopeCode(q, value)
      BY <1>0, <1>6, <2>2 DEF TypeOK, Resolves
    <3>3. observed'[q] = <<status[q]>>
      BY <1>0, <1>6, <2>2 DEF TypeOK, Resolves, Observe, Sampled
    <3> QED
      BY <1>0, <3>1, <3>2, <3>3 DEF TypeOK, EnvelopeCode, Written, Sampled, Regular
  <2> QED BY <2>1, <2>2
<1>7. ASSUME NEW r \in Requests, NEW e \in {HttpException(400), Error}, Fails(r, e)
      PROVE  Written(q)' /\ Sampled(q)'
  <2>1. CASE r # q
    BY <1>0, <1>7, <2>1, OthersUntouched DEF TypeOK, Fails, Observe, Throws
  <2>2. CASE r = q
    <3>1. /\ stage'[q] = "failed" /\ thrown'[q] = e
          /\ outcome'[q] = IF e.http THEN "http" ELSE "error"
          /\ UNCHANGED <<status, sent, heads, code, touched>>
          /\ stage[q] = "handling"
      BY <1>0, <1>7, <2>2 DEF TypeOK, Fails, Throws
    <3>2. observed'[q] = <<ResolveStatusCode(q, e)>>
      BY <1>0, <1>7, <2>2 DEF TypeOK, Fails, Observe, Sampled
    <3>3. CASE e = HttpException(400)
      BY <1>0, <3>1, <3>2, <3>3 DEF TypeOK, ResolveStatusCode, HttpException, Written, Sampled,
         Regular, Statuses
    <3>4. CASE e = Error
      BY <1>0, <3>1, <3>2, <3>4 DEF TypeOK, ResolveStatusCode, Error, Written, Sampled, Regular
    <3> QED BY <3>3, <3>4
  <2> QED BY <2>1, <2>2
<1>8. ASSUME NEW r \in Requests, Reply(r)
      PROVE  Written(q)' /\ Sampled(q)'
  <2>1. CASE r # q
    <3>1. /\ UNCHANGED <<status, code, observed, outcome, touched>>
          /\ stage'[q] = stage[q] /\ thrown'[q] = thrown[q]
          /\ sent'[q] = sent[q] /\ heads'[q] = heads[q]
      BY <1>0, <1>8, <2>1 DEF TypeOK, Reply, WritesHead, Throws
    <3> QED BY <1>0, <3>1, OthersUntouched
  <2>2. CASE r = q
    <3>1. CASE outcome[q] = "circular" /\ Throws(q, Error) /\ UNCHANGED <<sent, heads>>
      BY <1>0, <1>8, <2>2, <3>1 DEF TypeOK, Reply, Throws, Error, Written, Sampled, Regular
    <3>2. CASE /\ sent[q] = 0 /\ outcome[q] # "circular" /\ WritesHead(q, status[q])
               /\ stage' = [stage EXCEPT ![q] = "ended"] /\ UNCHANGED thrown
      BY <1>0, <1>8, <2>2, <3>2 DEF TypeOK, Reply, WritesHead, Written, Sampled, Regular, Statuses
    <3>3. CASE sent[q] # 0 /\ stage' = [stage EXCEPT ![q] = "ended"] /\ UNCHANGED <<sent, heads, thrown>>
      BY <1>0, <1>8, <2>2, <3>3 DEF TypeOK, Reply, Written, Sampled, Regular
    <3> QED BY <1>8, <2>2, <3>1, <3>2, <3>3 DEF Reply
  <2> QED BY <2>1, <2>2
<1>9. ASSUME NEW r \in Requests, Filter(r)
      PROVE  Written(q)' /\ Sampled(q)'
  <2>1. CASE r # q
    BY <1>0, <1>9, <2>1, OthersUntouched DEF TypeOK, Filter, AnswersError, WritesHead
  <2>2. CASE r = q
    BY <1>0, <1>9, <2>2 DEF TypeOK, Filter, AnswersError, WritesHead, Written, Sampled, Regular,
       Statuses
  <2> QED BY <2>1, <2>2
<1> QED
  BY <1>1, <1>2, <1>3, <1>4, <1>5, <1>6, <1>7, <1>8, <1>9 DEF Next

LEMMA LimitStep ==
  ASSUME IInv, TypeOK', [Next]_vars
  PROVE  LimitInv'
<1> USE DEF wire, metrics, throttler, origin
<1>0. /\ hits \in [Addresses -> Nat] /\ admitted \in [Clients -> Nat] /\ refused \subseteq Clients
      /\ Limit \in Nat \ {0} /\ Clients \subseteq Addresses
      /\ \A r \in Requests : sender[r] \in Clients
  BY PipelineAssumption DEF IInv, TypeOK, Addresses
<1>1. CASE WindowEnds
  BY <1>0, <1>1 DEF WindowEnds, LimitInv
<1>2. ASSUME NEW r \in Requests, Guard(r)
      PROVE  LimitInv'
  <2> SUFFICES ASSUME TrustProxyHops = Len(Proxies), NEW c \in Clients
               PROVE  /\ admitted'[c] = IF hits'[c] <= Limit THEN hits'[c] ELSE Limit
                      /\ c \in refused' => hits'[c] > Limit
    BY DEF LimitInv
  <2>1. /\ admitted[c] = IF hits[c] <= Limit THEN hits[c] ELSE Limit
        /\ c \in refused => hits[c] > Limit
    BY DEF IInv, LimitInv
  <2>2. AddressOf(r) = sender[r]
    BY OwnAddress DEF IInv
  <2>3. hits' = [hits EXCEPT ![sender[r]] = @ + 1]
    BY <1>2, <2>2 DEF Guard
  <2>4. \/ /\ hits[sender[r]] < Limit
           /\ admitted' = [admitted EXCEPT ![sender[r]] = @ + 1] /\ UNCHANGED refused
        \/ /\ ~(hits[sender[r]] < Limit)
           /\ UNCHANGED admitted /\ refused' = refused \cup {sender[r]}
    BY <1>2, <2>2, Zenon DEF Guard
  <2> QED BY <1>0, <2>1, <2>3, <2>4
<1>3. UNCHANGED throttler => LimitInv'
  BY DEF IInv, LimitInv
<1>4. ASSUME NEW r \in Requests, \/ NotFound(r) \/ Skipped(r) \/ Intercept(r) \/ SetsStatus(r)
                                 \/ StartsResponse(r) \/ Reply(r) \/ Filter(r)
      PROVE  UNCHANGED throttler
  BY <1>4 DEF NotFound, Skipped, Intercept, SetsStatus, StartsResponse, Reply, Filter
<1>5. ASSUME NEW r \in Requests, NEW value \in {"value", "envelope", "circular"},
             Resolves(r, value)
      PROVE  UNCHANGED throttler
  BY <1>5 DEF Resolves
<1>6. ASSUME NEW r \in Requests, NEW e \in {HttpException(400), Error}, Fails(r, e)
      PROVE  UNCHANGED throttler
  BY <1>6 DEF Fails
<1>7. UNCHANGED vars => UNCHANGED throttler
  BY DEF vars
<1> QED
  BY <1>1, <1>2, <1>3, <1>4, <1>5, <1>6, <1>7 DEF Next

LEMMA Inductive == Spec => []IInv
<1>1. IInv /\ [Next]_vars => IInv'
  BY TypeStep, GaugeStep, RequestStep, LimitStep DEF IInv
<1> QED
  BY <1>1, InitInv, PTL DEF Spec

-----------------------------------------------------------------------------
(* The invariants of the specification                                     *)

\* The state keeps its type; in particular the gauge is never negative.
THEOREM TypeCorrect == Spec => []TypeOK
BY Inductive, PTL DEF IInv

\* The gauge is the number of requests in the interceptors' hands, whatever way each of
\* them leaves (MetricsInterceptor's inc and finalize).
THEOREM GaugeCounts == Spec => []GaugeCountsTheHandled
<1>1. IInv => GaugeCountsTheHandled
  BY DEF IInv, GaugeInv, GaugeCountsTheHandled, Handled
<1> QED BY <1>1, Inductive, PTL

\* One status line per request, and a body of the pipeline's own tells the status on it
\* (AllExceptionsFilter, ResponseInterceptor, the reply).
THEOREM OneResponse == Spec => []OneTruthfulResponse
<1>1. IInv => OneTruthfulResponse
  BY DEF IInv, TypeOK, WireInv, Written, OneTruthfulResponse
<1> QED BY <1>1, Inductive, PTL

\* The sample of a regular request carries the status that was sent, although it was
\* taken before (tap and resolveStatusCode against the reply and the filter).
THEOREM SampleIsTrue == Spec => []SampleShowsTheStatusSent
<1>1. IInv => SampleShowsTheStatusSent
  BY DEF IInv, SampleInv, Sampled, SampleShowsTheStatusSent
<1> QED BY <1>1, Inductive, PTL

\* With as many trusted hops as proxies, any number of them, the limit is each client's
\* own, whatever any client writes into X-Forwarded-For.
THEOREM LimitPerClient == Spec => []LimitIsPerClient
<1>1. IInv => LimitIsPerClient
  BY PipelineAssumption DEF IInv, TypeOK, LimitInv, LimitIsPerClient, Addresses
<1> QED BY <1>1, Inductive, PTL
=============================================================================
