---------------------------- MODULE HealthCheck ----------------------------
(***************************************************************************)
(* System health: HealthCoordinator and its five indicator adapters, asked *)
(* concurrently by GET /health (HealthController) and by the collect       *)
(* callback that HealthMetricsService registers on the Prometheus gauge.   *)
(* BullmqMetricsService's gauges have collect callbacks in the same scrape.*)
(*                                                                         *)
(* A check starts every indicator in one synchronous sweep; the replies    *)
(* then arrive one by one while the dependencies keep changing.            *)
(***************************************************************************)
EXTENDS Naturals

CONSTANTS
  Indicators,    \* the keys in HEALTH_INDICATORS of this build
  HttpChecks,    \* calls of GET /health
  Scrapes,       \* scrapes of the metrics endpoint
  Mixes,         \* bound: the sets of checks that may come in one behaviour
  QueueGauges,   \* bullmq_queue_waiting and bullmq_queue_active, {} without a queue
  RedisEnabled,  \* REDIS_ENABLED
  HeapThreshold, \* HEALTH_MEMORY_HEAP_THRESHOLD
  MaxChanges     \* bound on the changes of condition in one behaviour

Keys == {"database", "redis", "mongodb", "storage", "memory_heap"}
Checks == HttpChecks \cup Scrapes

ASSUME HealthAssumption ==
  /\ Indicators \subseteq Keys
  /\ HttpChecks \cap Scrapes = {}
  /\ Mixes \subseteq SUBSET Checks
  /\ RedisEnabled \in BOOLEAN
  /\ HeapThreshold \in Nat
  /\ MaxChanges \in Nat

VARIABLES
  cond,     \* the condition each dependency is in
  probe,    \* per check and indicator: where the adapter's call stands
  queue,    \* the condition Redis is in for the queue's own connection
  counts,   \* per scrape and queue gauge: where the count of its jobs stands
  gauge,    \* the series of <prefix>health_check_status, one per indicator
  collected,\* per scrape: how far it is with that gauge
  exposed,  \* per scrape: the series the registry read for it
  answer,   \* per check: the HTTP status, or "rendered" or 500 for a scrape
  crossed,  \* history, per scrape: those that touched the gauge between its own
            \* setting of the series and the registry's reading of them
  sound,    \* history: indicators that were sound at some moment of the check
  unsound,  \* history: indicators that were unsound at some moment of the check
  coming,   \* the checks of this behaviour
  changes   \* number of changes of condition so far

histories == <<sound, unsound>>
gaugeVars == <<gauge, collected, exposed, crossed>>
vars == <<cond, probe, queue, counts, gaugeVars, answer, histories, coming, changes>>

\* Conditions: a connection answers, answers amiss, fails, is known to be down or
\* stays silent; a disk is unusable, over the limit or on it, and so is the heap.
Conditions(i) ==
  CASE i \in {"database", "redis"} -> {"answers", "fails", "silent"}
    [] i = "mongodb"     -> {"answers", "amiss", "fails", "disconnected", "silent"}
    [] i = "storage"     -> {"empty", "full", "tight"}
    [] i = "memory_heap" -> {"above", "within"}

\* Blocks available and in total, as statfs returns them, and bytes in use.
Blocks == [empty |-> <<0, 0>>, full |-> <<4, 100>>, tight |-> <<5, 100>>]
HeapUsed == [above |-> HeapThreshold + 1, within |-> HeapThreshold]

\* What "up" is to mean: the reference the adapters are held against.
Sound(i, x) == x \in {"answers", "tight", "within"}

Statuses == {"up", "down"}
QueueConditions == {"answers", "fails", "silent"}
Absent == [i \in Indicators |-> "absent"]
Idle == [i \in Indicators |-> "idle"]

\* The type of the state.
TypeOK ==
  /\ DOMAIN cond = Indicators
  /\ \A i \in Indicators : cond[i] \in Conditions(i)
  /\ probe \in [Checks -> [Indicators -> {"idle", "waiting"} \cup Statuses]]
  /\ queue \in QueueConditions
  /\ counts \in [Scrapes -> [QueueGauges -> {"idle", "waiting", "read", "failed"}]]
  /\ gauge \in [Indicators -> {"absent", "0", "1"}]
  /\ collected \in [Scrapes -> {"pending", "set", "read"}]
  /\ crossed \in [Scrapes -> SUBSET Scrapes]
  /\ answer \in [Checks -> {"none", "200", "503", "rendered", "500"}]
  /\ exposed \in [Scrapes -> [Indicators -> {"absent", "0", "1"}]]
  /\ sound \in [Checks -> SUBSET Indicators]
  /\ unsound \in [Checks -> SUBSET Indicators]
  /\ coming \in Mixes
  /\ changes \in 0..MaxChanges

Init ==
  /\ cond \in [Indicators -> UNION {Conditions(i) : i \in Indicators}]
  /\ \A i \in Indicators : cond[i] \in Conditions(i)
  /\ probe = [c \in Checks |-> Idle]
  /\ queue \in QueueConditions /\ (QueueGauges = {} => queue = "answers")
  /\ counts = [s \in Scrapes |-> [g \in QueueGauges |-> "idle"]]
  /\ gauge = Absent
  /\ collected = [s \in Scrapes |-> "pending"]
  /\ crossed = [s \in Scrapes |-> {}]
  /\ answer = [c \in Checks |-> "none"]
  /\ exposed = [s \in Scrapes |-> Absent]
  /\ sound = [c \in Checks |-> {}]
  /\ unsound = [c \in Checks |-> {}]
  /\ coming \in Mixes
  /\ changes = 0

Started(c) == \A i \in Indicators : probe[c][i] # "idle"

\* The check is under way: no HTTP answer yet, no series set.
InProgress(c) ==
  Started(c) /\ IF c \in Scrapes THEN collected[c] = "pending" ELSE answer[c] = "none"

SoundIn(state) == {i \in Indicators : Sound(i, state[i])}

-----------------------------------------------------------------------------
(* The adapters                                                            *)

DiskStatusUntilEmpty(b) == IF b[2] > 0 /\ b[1] > 0 THEN "up" ELSE "down"

DiskStatusStrict(b) ==
  IF b[2] > 0 /\ (b[2] - b[1]) * 100 < 95 * b[2] THEN "up" ELSE "down"

\* usedRatio <= 0.95 over whole blocks, "down" on an empty file system.
DiskStatus(b) ==
  IF b[2] > 0 /\ (b[2] - b[1]) * 100 <= 95 * b[2] THEN "up" ELSE "down"

\* What the synchronous part of an adapter's check() decides: the heap is read
\* at once, a disconnected mongoose connection is not pinged, a null Redis
\* client answers DISABLED.  The others await a reply.
Prefix(i, x) ==
  CASE i = "memory_heap" -> IF HeapUsed[x] <= HeapThreshold THEN "up" ELSE "down"
    [] i = "mongodb" /\ x = "disconnected" -> "down"
    [] i = "redis" /\ ~RedisEnabled -> "down"
    [] OTHER -> "waiting"

\* What a reply in condition x makes the adapter return; "throws" when the
\* awaited call rejects.
Reply(i, x) ==
  CASE x = "answers" -> "up"
    [] x \in DOMAIN Blocks -> DiskStatus(Blocks[x])
    [] x \in {"amiss", "disconnected"} -> "down"
    [] OTHER -> "throws"

RejectionLost(r) == IF r = "throws" THEN "waiting" ELSE r

Rethrown(r) == r

\* HealthCoordinator.checkIndicator: a rejection is a snapshot like another.
CheckIndicator(r) == IF r = "throws" THEN "down" ELSE r

-----------------------------------------------------------------------------
(* The coordinator and its two callers                                     *)

\* indicators.map(...): every adapter is called before any reply is awaited.
StartCheck(c) ==
  /\ probe' = [probe EXCEPT ![c] = [i \in Indicators |-> Prefix(i, cond[i])]]
  /\ sound' = [sound EXCEPT ![c] = SoundIn(cond)]
  /\ unsound' = [unsound EXCEPT ![c] = Indicators \ SoundIn(cond)]

StartHttpCheck(c) ==
  /\ c \in coming /\ ~Started(c)
  /\ StartCheck(c)
  /\ UNCHANGED <<cond, queue, counts, gaugeVars, answer, coming, changes>>

\* Scrape c resets or sets the gauge, which others have set and not read yet.
Touches(c) ==
  crossed' = [s \in Scrapes |->
                IF collected[s] = "set" THEN crossed[s] \cup {c} ELSE crossed[s]]

\* MetricsService.render calls every collect callback in one turn: the one of the
\* health gauge resets its series before the check it awaits, those of the queue
\* ask Redis for a number of jobs.
StartScrape(c) ==
  /\ c \in coming /\ ~Started(c)
  /\ gauge' = Absent /\ Touches(c)
  /\ counts' = [counts EXCEPT ![c] = [g \in QueueGauges |-> "waiting"]]
  /\ StartCheck(c)
  /\ UNCHANGED <<cond, queue, collected, exposed, answer, coming, changes>>

\* A reply arrives.  No adapter has a timeout of its own, so a silent dependency
\* keeps the probe waiting.
ProbeReplies(c, i) ==
  /\ probe[c][i] = "waiting" /\ cond[i] # "silent"
  /\ probe' = [probe EXCEPT ![c][i] = CheckIndicator(Reply(i, cond[i]))]
  /\ UNCHANGED <<cond, queue, counts, gaugeVars, answer, histories, coming, changes>>

\* Promise.all has every snapshot.
Complete(c) == \A i \in Indicators : probe[c][i] \in Statuses

VerdictOfSome(c) == IF \E i \in Indicators : probe[c][i] = "up" THEN "up" ELSE "down"

\* The verdict: up only when every snapshot is.
Verdict(c) == IF \A i \in Indicators : probe[c][i] = "up" THEN "up" ELSE "down"

\* HealthController turns a "down" into ServiceUnavailableException.
AnswerHttp(c) ==
  /\ InProgress(c) /\ Complete(c)
  /\ answer' = [answer EXCEPT ![c] = IF Verdict(c) = "up" THEN "200" ELSE "503"]
  /\ UNCHANGED <<cond, probe, queue, counts, gaugeVars, histories, coming, changes>>

UpSeriesOnly(c) == [i \in Indicators |-> IF probe[c][i] = "up" THEN "1" ELSE gauge[i]]

Series(c) == [i \in Indicators |-> IF probe[c][i] = "up" THEN "1" ELSE "0"]

\* collect() sets the series, all of them in one turn, and its promise is fulfilled.
Collect(c) ==
  /\ InProgress(c) /\ Complete(c)
  /\ gauge' = Series(c) /\ Touches(c)
  /\ collected' = [collected EXCEPT ![c] = "set"]
  /\ UNCHANGED <<cond, probe, queue, counts, exposed, answer, histories, coming, changes>>

\* registry.metrics() resolves once every gauge is read.
Rendered(c, read) ==
  IF answer[c] = "none" /\ read THEN [answer EXCEPT ![c] = "rendered"] ELSE answer

\* The registry, which awaits collect(), reads the gauge in a later turn, whatever
\* series are in it then.
ReadGauge(c) ==
  /\ collected[c] = "set"
  /\ collected' = [collected EXCEPT ![c] = "read"]
  /\ exposed' = [exposed EXCEPT ![c] = gauge]
  /\ answer' = Rendered(c, \A g \in QueueGauges : counts[c][g] = "read")
  /\ UNCHANGED <<cond, probe, queue, counts, gauge, crossed, histories, coming, changes>>

\* getJobCounts of one queue gauge settles; a rejection rejects the whole rendering.
CountReplies(c, g) ==
  /\ counts[c][g] = "waiting"
  /\ \/ /\ queue = "answers"
        /\ counts' = [counts EXCEPT ![c][g] = "read"]
        /\ answer' = Rendered(c, /\ collected[c] = "read"
                                /\ \A h \in QueueGauges : counts'[c][h] = "read")
     \/ /\ queue = "fails"
        /\ counts' = [counts EXCEPT ![c][g] = "failed"]
        /\ answer' = [answer EXCEPT ![c] = "500"]
  /\ UNCHANGED <<cond, probe, queue, gaugeVars, histories, coming, changes>>

-----------------------------------------------------------------------------
\* A dependency changes its condition; the histories of the running checks
\* follow.
Change(i) ==
  /\ changes < MaxChanges
  /\ changes' = changes + 1
  /\ \E x \in Conditions(i) \ {cond[i]} : cond' = [cond EXCEPT ![i] = x]
  /\ sound' = [c \in Checks |->
                 IF InProgress(c) THEN sound[c] \cup SoundIn(cond') ELSE sound[c]]
  /\ unsound' = [c \in Checks |->
                   IF InProgress(c) THEN unsound[c] \cup (Indicators \ SoundIn(cond'))
                   ELSE unsound[c]]
  /\ UNCHANGED <<probe, queue, counts, gaugeVars, answer, coming>>

ChangeQueue ==
  /\ changes < MaxChanges /\ QueueGauges # {}
  /\ changes' = changes + 1
  /\ queue' \in QueueConditions \ {queue}
  /\ UNCHANGED <<cond, probe, counts, gaugeVars, answer, histories, coming>>

WaitsForSilence(c) ==
  \/ \E i \in Indicators : probe[c][i] = "waiting" /\ cond[i] = "silent"
  \/ c \in Scrapes /\ queue = "silent" /\ \E g \in QueueGauges : counts[c][g] = "waiting"

\* Every caller has its answer or waits for a silent dependency.
Quiet ==
  /\ changes = MaxChanges
  /\ \A c \in coming : answer[c] # "none" \/ WaitsForSilence(c)
  /\ UNCHANGED vars

Next ==
  \/ \E c \in HttpChecks : StartHttpCheck(c) \/ AnswerHttp(c)
  \/ \E c \in Scrapes :
       \/ StartScrape(c) \/ Collect(c) \/ ReadGauge(c)
       \/ \E g \in QueueGauges : CountReplies(c, g)
  \/ \E c \in Checks, i \in Indicators : ProbeReplies(c, i)
  \/ \E i \in Indicators : Change(i)
  \/ ChangeQueue
  \/ Quiet

\* A reply that is there is delivered and a complete check answered: both are
\* continuations the event loop runs.
Fairness ==
  /\ \A c \in Checks, i \in Indicators : WF_vars(ProbeReplies(c, i))
  /\ \A c \in HttpChecks : WF_vars(AnswerHttp(c))
  /\ \A c \in Scrapes : WF_vars(Collect(c)) /\ WF_vars(ReadGauge(c))
  /\ \A c \in Scrapes, g \in QueueGauges : WF_vars(CountReplies(c, g))

Spec == Init /\ [][Next]_vars /\ Fairness

-----------------------------------------------------------------------------
(* Properties                                                              *)

\* A 200 from /health vouches for every dependency: each was sound at some
\* moment between the request and its answer, though not all at the same one.
HealthyMeansEachWasSound ==
  \A c \in HttpChecks : answer[c] = "200" => sound[c] = Indicators

Enabled == IF RedisEnabled THEN Indicators ELSE Indicators \ {"redis"}

\* A 503 from /health has a cause: an enabled dependency was unsound at some
\* moment of the check (README.md: 200 when the enabled ones are all well).
UnhealthyHasACause ==
  \A c \in HttpChecks : answer[c] = "503" => unsound[c] \cap Enabled # {}

\* However scrapes overlap, and also when one of them has failed on a queue gauge and
\* left its health check running, each that is rendered exposes exactly what its own
\* check found, no series missing and none left over.  Only another scrape that touched
\* the gauge between its set and its read can make it show nothing instead, or the
\* series of that one's check; it never shows a mixture of two.
ScrapeShowsOneCheck ==
  \A c \in Scrapes : answer[c] = "rendered" =>
    \/ exposed[c] = Absent /\ crossed[c] # {}
    \/ \E d \in {c} \cup crossed[c] : /\ d # c => collected[d] # "pending"
                                      /\ exposed[c] = [i \in Indicators |->
                                           IF probe[d][i] = "up" THEN "1" ELSE "0"]

\* An exposed value has evidence: the dependency was in that state during the scrape, or
\* during one that crossed it.
ExposedValueHasEvidence ==
  \A c \in Scrapes, i \in Enabled :
    /\ exposed[c][i] = "1" => \E d \in {c} \cup crossed[c] : i \in sound[d]
    /\ exposed[c][i] = "0" => \E d \in {c} \cup crossed[c] : i \in unsound[d]

\* A check waits for its own probes and counts only: unless one of them meets silence it
\* is answered, whatever other checks wait for and however probes and counts fail.
ChecksAreIndependent ==
  \A c \in Checks :
    Started(c) ~> (answer[c] # "none" \/ WaitsForSilence(c))
=============================================================================
