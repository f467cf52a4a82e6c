--------------------------- MODULE RequestPipeline ---------------------------
(***************************************************************************)
(* The HTTP pipeline that configureHttpApp and AppModule assemble: the     *)
(* ThrottlerGuard behind `trust proxy`, MetricsInterceptor around          *)
(* ResponseInterceptor around the pipe and the handler, the reply, and     *)
(* AllExceptionsFilter for what is thrown anywhere on the way.             *)
(*                                                                         *)
(* The interceptors see a request only between the guard and the reply:    *)
(* what the guard or the router refuses never reaches them, and the reply  *)
(* is written after they have measured it.  Express, Nest's dispatch and   *)
(* the throttler's storage are modelled by how this code uses them.        *)
(***************************************************************************)
EXTENDS Integers, SequencesExt

CONSTANTS
  Requests,
  Clients,        \* addresses of clients
  Headers,        \* X-Forwarded-For as clients send it: sequences of addresses
  Proxies,        \* addresses of the proxies in front, the nearest one last
  TrustProxyHops, \* TRUST_PROXY_HOPS
  Limit,          \* THROTTLE_LIMIT
  MaxWindows      \* bound on the throttler's windows in one behaviour

ASSUME PipelineAssumption ==
  /\ Headers \subseteq Seq(Clients)
  /\ Proxies \in Seq(STRING)
  /\ Limit \in Nat \ {0}
  /\ MaxWindows \in Nat

VARIABLES
  sender,    \* per request: the client it comes from
  header,    \* per request: the X-Forwarded-For the client wrote itself
  route,     \* per request: an ordinary route, an observed one (health, metrics), none
  stage,     \* per request: how far it has come
  status,    \* per request: response.statusCode
  sent,      \* per request: the status line that went out, 0 before
  heads,     \* per request: how often a status line was written
  code,      \* per request: the `code` of the body the pipeline made, or of the
             \* envelope waiting to be written; -1 for a body of the handler's own
  thrown,    \* per request: the exception on its way to the filter
  active,    \* <prefix>http_active_requests
  observed,  \* per request: the status_code labels of its samples
  hits,      \* per address: the throttler's count in the present window
  admitted,  \* history: per client, requests the guard let through in this window
  refused,   \* history: clients that were answered 429 in this window
  outcome,   \* history: per request, how its handler ended
  touched,   \* history: requests whose handler set the status itself
  windows    \* history: number of windows that have ended

wire == <<status, sent, heads, code>>
metrics == <<active, observed>>
throttler == <<hits, admitted, refused, windows>>
origin == <<sender, header, route>>
vars == <<origin, stage, wire, thrown, metrics, throttler, outcome, touched>>

NoError == [http |-> FALSE, status |-> 0]
HttpException(n) == [http |-> TRUE, status |-> n]
Error == [http |-> FALSE, status |-> 500]

Addresses == Clients \cup ToSet(Proxies)
Statuses == {200, 400, 404, 429, 500, 503}

\* The type of the state.
TypeOK ==
  /\ sender \in [Requests -> Clients]
  /\ header \in [Requests -> Headers]
  /\ route \in [Requests -> {"ordinary", "observed", "none"}]
  /\ stage \in [Requests -> {"new", "admitted", "handling", "resolved", "failed",
                             "ended", "broken"}]
  /\ status \in [Requests -> Statuses]
  /\ sent \in [Requests -> Statuses \cup {0}]
  /\ heads \in [Requests -> Nat]
  /\ code \in [Requests -> Statuses \cup {0, -1}]
  /\ thrown \in [Requests -> [http : BOOLEAN, status : Statuses \cup {0}]]
  /\ active \in Nat
  /\ observed \in [Requests -> Seq(Statuses)]
  /\ hits \in [Addresses -> Nat]
  /\ admitted \in [Clients -> Nat]
  /\ refused \subseteq Clients
  /\ outcome \in [Requests -> {"none", "value", "envelope", "circular", "http", "error"}]
  /\ touched \subseteq Requests
  /\ windows \in 0..MaxWindows

Init ==
  /\ sender \in [Requests -> Clients]
  /\ header \in [Requests -> Headers]
  /\ route \in [Requests -> {"ordinary", "observed", "none"}]
  /\ stage = [r \in Requests |-> "new"]
  /\ status = [r \in Requests |-> 200]
  /\ sent = [r \in Requests |-> 0]
  /\ heads = [r \in Requests |-> 0]
  /\ code = [r \in Requests |-> 0]
  /\ thrown = [r \in Requests |-> NoError]
  /\ active = 0
  /\ observed = [r \in Requests |-> <<>>]
  /\ hits = [a \in Addresses |-> 0]
  /\ admitted = [c \in Clients |-> 0]
  /\ refused = {}
  /\ outcome = [r \in Requests |-> "none"]
  /\ touched = {}
  /\ windows = 0

-----------------------------------------------------------------------------
(* The router and the guard                                                *)

\* Express's default when configureTrustProxy returns early.
NoHops == 0

\* configureTrustProxy: anything but a positive integer is ignored.
Hops == IF TrustProxyHops \in Nat \ {0} THEN TrustProxyHops ELSE NoHops

\* req.ip: the socket's peer first, then X-Forwarded-For from its end; Express
\* passes over as many of them as it was told to trust.
AddressOf(r) ==
  LET hops == Reverse(header[r] \o <<sender[r]>> \o Proxies)
  IN hops[IF Hops < Len(hops) THEN Hops + 1 ELSE Len(hops)]

Throws(r, e) ==
  /\ stage' = [stage EXCEPT ![r] = "failed"]
  /\ thrown' = [thrown EXCEPT ![r] = e]

\* No route: Nest's handler for unmatched paths throws before guard and interceptors.
NotFound(r) ==
  /\ stage[r] = "new"
  /\ route[r] = "none"
  /\ Throws(r, HttpException(404))
  /\ UNCHANGED <<origin, wire, metrics, throttler, outcome, touched>>

\* @SkipThrottle() on the health and metrics controllers.
Skipped(r) ==
  /\ stage[r] = "new"
  /\ route[r] = "observed"
  /\ stage' = [stage EXCEPT ![r] = "admitted"]
  /\ UNCHANGED <<origin, wire, thrown, metrics, throttler, outcome, touched>>

\* ThrottlerGuard counts the request for its address, then decides.  Its key names the
\* handler too: all ordinary requests are to one of them.
Guard(r) ==
  LET a == AddressOf(r)
      c == sender[r]
  IN
  /\ stage[r] = "new"
  /\ route[r] = "ordinary"
  /\ hits' = [hits EXCEPT ![a] = @ + 1]
  /\ IF hits[a] < Limit
     THEN /\ stage' = [stage EXCEPT ![r] = "admitted"]
          /\ admitted' = [admitted EXCEPT ![c] = @ + 1]
          /\ UNCHANGED <<thrown, refused>>
     ELSE /\ Throws(r, HttpException(429))
          /\ refused' = refused \cup {c}
          /\ UNCHANGED admitted
  /\ UNCHANGED <<origin, wire, metrics, outcome, touched, windows>>

\* THROTTLE_TTL has passed.
WindowEnds ==
  /\ windows < MaxWindows
  /\ windows' = windows + 1
  /\ hits' = [a \in Addresses |-> 0]
  /\ admitted' = [c \in Clients |-> 0]
  /\ refused' = {}
  /\ UNCHANGED <<origin, stage, wire, thrown, metrics, outcome, touched>>

-----------------------------------------------------------------------------
(* The interceptors and the handler                                        *)

\* MetricsInterceptor.intercept up to next.handle(); LoggingInterceptor only adds a
\* field to the request's log, and ResponseInterceptor acts on the way back.
Intercept(r) ==
  /\ stage[r] = "admitted"
  /\ stage' = [stage EXCEPT ![r] = "handling"]
  /\ active' = active + 1
  /\ UNCHANGED <<origin, wire, thrown, observed, throttler, outcome, touched>>

\* The handler sets the status of a response it leaves to Nest to send.
SetsStatus(r) ==
  /\ stage[r] = "handling"
  /\ sent[r] = 0
  /\ r \notin touched
  /\ status' = [status EXCEPT ![r] = 503]
  /\ touched' = touched \cup {r}
  /\ UNCHANGED <<origin, stage, sent, heads, code, thrown, metrics, throttler, outcome>>

WritesHead(r, n) ==
  /\ sent' = [sent EXCEPT ![r] = n]
  /\ heads' = [heads EXCEPT ![r] = @ + 1]

\* The handler writes its own response (@Res()), headers first.
StartsResponse(r) ==
  /\ stage[r] = "handling"
  /\ sent[r] = 0
  /\ WritesHead(r, status[r])
  /\ code' = [code EXCEPT ![r] = -1]
  /\ UNCHANGED <<origin, stage, status, thrown, metrics, throttler, outcome, touched>>

\* One sample of http_request_duration_seconds.
Observe(r, n) == observed' = [observed EXCEPT ![r] = Append(@, n)]

StatusOfResponse(r, e) == IF status[r] >= 400 THEN status[r] ELSE 500

\* resolveStatusCode
ResolveStatusCode(r, e) ==
  CASE e.http -> e.status
    [] ~e.http /\ status[r] >= 400 -> status[r]
    [] OTHER -> 500

DecrementsTwice == active' = active - 2

StaysActive == UNCHANGED active

\* finalize
Finalize == active' = active - 1

\* ResponseInterceptor's map: a raw response and an envelope of the handler's own pass
\* unchanged, any other value is put into an envelope with the status the response
\* has at this moment (which nobody sends when the handler has written its own).
EnvelopeCode(r, value) ==
  IF value = "envelope" \/ sent[r] # 0 THEN -1 ELSE status[r]

\* The handler's value passes ResponseInterceptor, then tap and finalize of
\* MetricsInterceptor, in one turn.  A "circular" value is one JSON cannot express.
Resolves(r, value) ==
  /\ stage[r] = "handling"
  /\ sent[r] # 0 => value = "value"
  /\ code' = [code EXCEPT ![r] = EnvelopeCode(r, value)]
  /\ Observe(r, status[r])
  /\ Finalize
  /\ stage' = [stage EXCEPT ![r] = "resolved"]
  /\ outcome' = [outcome EXCEPT ![r] = value]
  /\ UNCHANGED <<origin, status, sent, heads, thrown, throttler, touched>>

FailsUncounted(r, e) ==
  /\ stage[r] = "handling"
  /\ Observe(r, ResolveStatusCode(r, e))
  /\ StaysActive
  /\ Throws(r, e)
  /\ outcome' = [outcome EXCEPT ![r] = IF e.http THEN "http" ELSE "error"]
  /\ UNCHANGED <<origin, wire, throttler, touched>>

\* The pipe or the handler throws: catchError and finalize of MetricsInterceptor.
Fails(r, e) ==
  /\ stage[r] = "handling"
  /\ Observe(r, ResolveStatusCode(r, e))
  /\ Finalize
  /\ Throws(r, e)
  /\ outcome' = [outcome EXCEPT ![r] = IF e.http THEN "http" ELSE "error"]
  /\ UNCHANGED <<origin, wire, throttler, touched>>

-----------------------------------------------------------------------------
(* The reply and the filter                                                *)

\* Nest writes the value, unless the handler has written a response itself; a value
\* that JSON cannot express throws here, after the interceptors are done.
Reply(r) ==
  /\ stage[r] = "resolved"
  /\ \/ /\ outcome[r] = "circular"
        /\ Throws(r, Error)
        /\ UNCHANGED <<sent, heads>>
     \/ /\ outcome[r] # "circular"
        /\ sent[r] = 0
        /\ WritesHead(r, status[r])
        /\ stage' = [stage EXCEPT ![r] = "ended"]
        /\ UNCHANGED thrown
     \/ /\ sent[r] # 0
        /\ stage' = [stage EXCEPT ![r] = "ended"]
        /\ UNCHANGED <<sent, heads, thrown>>
  /\ UNCHANGED <<origin, status, code, metrics, throttler, outcome, touched>>

\* response.status(n).json({ code: n, ... })
AnswersError(r) ==
  LET n == IF thrown[r].http THEN thrown[r].status ELSE 500 IN
  /\ status' = [status EXCEPT ![r] = n]
  /\ code' = [code EXCEPT ![r] = n]
  /\ WritesHead(r, n)
  /\ stage' = [stage EXCEPT ![r] = "ended"]

FilterUnguarded(r) ==
  /\ stage[r] = "failed"
  /\ AnswersError(r)
  /\ UNCHANGED <<origin, thrown, metrics, throttler, outcome, touched>>

FilterHttpOnly(r) ==
  /\ stage[r] = "failed"
  /\ thrown[r].http
  /\ AnswersError(r)
  /\ UNCHANGED <<origin, thrown, metrics, throttler, outcome, touched>>

\* AllExceptionsFilter.catch: a response that has begun is left as it is, open.
Filter(r) ==
  /\ stage[r] = "failed"
  /\ \/ /\ sent[r] # 0
        /\ stage' = [stage EXCEPT ![r] = "broken"]
        /\ UNCHANGED wire
     \/ sent[r] = 0 /\ AnswersError(r)
  /\ UNCHANGED <<origin, thrown, metrics, throttler, outcome, touched>>

-----------------------------------------------------------------------------
Next ==
  \/ WindowEnds
  \/ \E r \in Requests :
       \/ NotFound(r) \/ Skipped(r) \/ Guard(r) \/ Intercept(r)
       \/ SetsStatus(r) \/ StartsResponse(r)
       \/ \E value \in {"value", "envelope", "circular"} : Resolves(r, value)
       \/ \E e \in {HttpException(400), Error} : Fails(r, e)
       \/ Reply(r) \/ Filter(r)

\* Nest dispatches each request to its end, and a handler settles.
Settles(r) ==
  \/ \E value \in {"value", "envelope", "circular"} : Resolves(r, value)
  \/ \E e \in {HttpException(400), Error} : Fails(r, e)

Fairness ==
  \A r \in Requests :
    /\ WF_vars(NotFound(r) \/ Skipped(r) \/ Guard(r) \/ Intercept(r))
    /\ WF_vars(Settles(r))
    /\ WF_vars(Reply(r) \/ Filter(r))

Spec == Init /\ [][Next]_vars /\ Fairness

-----------------------------------------------------------------------------
(* Properties                                                              *)

\* The gauge counts the requests that are in the interceptors' hands and is back at
\* zero when all have left, by whichever way: a value, an exception, a response of
\* the handler's own (MetricsInterceptor's inc and finalize).
GaugeCountsTheHandled ==
  active = Cardinality({r \in Requests : stage[r] = "handling"})

\* A status line is written once per request, although reply, filter and handler can
\* each write one and an exception can come after any of them; the code of a body
\* that the pipeline made is the status on that line (AllExceptionsFilter's test
\* of headersSent, ResponseInterceptor's statusCode).
OneTruthfulResponse ==
  \A r \in Requests :
    /\ heads[r] <= 1
    /\ (stage[r] = "ended" /\ code[r] # -1) => code[r] = sent[r]

\* The handler left the response to the pipeline and gave it something to send.
Regular(r) ==
  /\ stage[r] = "ended"
  /\ outcome[r] \in {"value", "envelope", "http"} \/ (outcome[r] = "error" /\ r \notin touched)

\* A request a handler has served has one sample, labelled with the status that was
\* sent, although the sample is taken before it is sent.  Not covered, since there
\* they differ: a value JSON cannot express, an unexpected error after the handler
\* has set a status of 400 or more, and an error after the response has begun
\* (resolveStatusCode and tap against what the filter and the reply send).
SampleShowsTheStatusSent ==
  \A r \in Requests : Regular(r) => observed[r] = <<sent[r]>>

\* With TRUST_PROXY_HOPS set to the number of proxies in front, the limit is each
\* client's own: a client is refused only when it has used up its limit, never for
\* the requests of another, and whatever it writes into X-Forwarded-For it is not
\* let through more often (configureTrustProxy and the ThrottlerGuard).
LimitIsPerClient ==
  TrustProxyHops = Len(Proxies) =>
    \A c \in Clients :
      /\ admitted[c] <= Limit
      /\ c \in refused => admitted[c] = Limit

\* Every request is answered to the end, unless its handler had begun the response
\* itself and then failed (the filter and the reply, for whatever is thrown).
EveryRequestEnds ==
  \A r \in Requests :
    <>(stage[r] = "ended" \/ (stage[r] = "broken" /\ code[r] = -1))
=============================================================================
