-------------------------- MODULE HealthCheckProofs --------------------------
(***************************************************************************)
(* Safety of HealthCheck for every selection of indicators, any number of  *)
(* checks, scrapes and queue gauges and any number of changes.  IInv adds  *)
(* what makes the properties inductive: an open probe means a check in     *)
(* progress, whose histories contain the present conditions; a probe that  *)
(* has decided did so on a condition in the histories; the gauge holds     *)
(* nothing or the series of one check, that of the scrape about to read it *)
(* or of one that crossed it.                                              *)
(***************************************************************************)
EXTENDS HealthCheck, TLAPS

\* A check starts all its probes at once, and is not answered with one open.
ProbesInv(c) ==
  /\ Started(c) \/ probe[c] = Idle
  /\ c \in HttpChecks /\ ~Complete(c) => answer[c] = "none"
  /\ c \in Scrapes /\ ~Complete(c) => collected[c] = "pending"
  /\ \A i \in Indicators : i = "memory_heap" => probe[c][i] # "waiting"

\* The histories of a check in progress contain the present.
HistoryInv(c) ==
  InProgress(c) =>
    SoundIn(cond) \subseteq sound[c] /\ Indicators \ SoundIn(cond) \subseteq unsound[c]

\* What a probe has decided was so at some moment of its check.
TruthInv(c) ==
  \A i \in Indicators :
    /\ probe[c][i] = "up" => i \in sound[c]
    /\ probe[c][i] = "down" /\ i \in Enabled => i \in unsound[c]

\* An answer of the controller is the verdict.
AnswerInv(c) ==
  c \in HttpChecks =>
    /\ answer[c] = "200" => \A i \in Indicators : probe[c][i] = "up"
    /\ answer[c] = "503" => Complete(c) /\ \E i \in Indicators : probe[c][i] # "up"

\* How far a scrape is, with the gauge and as a whole.
ScrapeInv(c) ==
  c \in Scrapes =>
    /\ collected[c] # "read" => exposed[c] = Absent
    /\ answer[c] = "rendered" => collected[c] = "read"
    /\ \A g \in QueueGauges : counts[c][g] # "idle" => Started(c)

CheckInv(c) == ProbesInv(c) /\ HistoryInv(c) /\ TruthInv(c) /\ AnswerInv(c) /\ ScrapeInv(c)

\* The series of a check that has set the gauge: that of scrape c, or of one that
\* crossed it.
OneOf(c, series) ==
  \E d \in {c} \cup crossed[c] : collected[d] # "pending" /\ series = Series(d)

\* What the registry is about to read for a scrape, and what it has read.
GaugeInv(c) ==
  /\ collected[c] = "set" => (gauge = Absent /\ crossed[c] # {}) \/ OneOf(c, gauge)
  /\ collected[c] = "read" =>
       (exposed[c] = Absent /\ crossed[c] # {}) \/ OneOf(c, exposed[c])

IInv ==
  /\ TypeOK
  /\ \A c \in Checks : CheckInv(c)
  /\ \A c \in Scrapes : GaugeInv(c)

-----------------------------------------------------------------------------
(* The adapters judge a condition as it is                                 *)

\* What is decided before any reply: the heap always, a Redis that is switched off
\* always as down, the rest truthfully or later.
LEMMA PrefixTruth ==
  ASSUME NEW i \in Indicators, NEW x \in Conditions(i)
  PROVE  /\ Prefix(i, x) \in {"waiting", "up", "down"}
         /\ i = "memory_heap" => Prefix(i, x) # "waiting"
         /\ Prefix(i, x) = "up" => Sound(i, x)
         /\ Prefix(i, x) = "down" /\ i \in Enabled => ~Sound(i, x)
<1>1. CASE i = "memory_heap"
  <2>1. x \in {"above", "within"}
    BY <1>1 DEF Conditions
  <2>2. Prefix(i, x) = IF HeapUsed[x] <= HeapThreshold THEN "up" ELSE "down"
    BY <1>1 DEF Prefix
  <2>3. HeapUsed[x] <= HeapThreshold <=> x = "within"
    BY <2>1, HealthAssumption DEF HeapUsed
  <2> QED BY <1>1, <2>1, <2>2, <2>3 DEF Sound
<1>2. CASE i = "mongodb"
  BY <1>2 DEF Conditions, Prefix, Sound
<1>3. CASE i = "redis"
  BY <1>3 DEF Conditions, Prefix, Sound, Enabled
<1>4. CASE i \in {"database", "storage"}
  BY <1>4 DEF Conditions, Prefix, Sound
<1> QED BY <1>1, <1>2, <1>3, <1>4, HealthAssumption DEF Keys

\* A reply is judged exactly, whether the call resolves or rejects.
LEMMA ReplyTruth ==
  ASSUME NEW i \in Indicators, i # "memory_heap", NEW x \in Conditions(i), x # "silent"
  PROVE  CheckIndicator(Reply(i, x)) = IF Sound(i, x) THEN "up" ELSE "down"
<1>1. CASE i \in {"database", "redis", "mongodb"}
  <2>1. x \in {"answers", "amiss", "fails", "disconnected"}
    BY <1>1 DEF Conditions
  <2>2. x \notin DOMAIN Blocks
    BY <2>1 DEF Blocks
  <2>3. CASE x = "answers"
    BY <2>2, <2>3 DEF Reply, CheckIndicator, Sound
  <2>4. CASE x \in {"amiss", "disconnected"}
    BY <2>2, <2>4 DEF Reply, CheckIndicator, Sound
  <2>5. CASE x = "fails"
    BY <2>2, <2>5 DEF Reply, CheckIndicator, Sound
  <2> QED BY <2>1, <2>3, <2>4, <2>5
<1>2. CASE i = "storage"
  <2>1. x \in {"empty", "full", "tight"} /\ x \in DOMAIN Blocks
    BY <1>2 DEF Conditions, Blocks
  <2>2. Reply(i, x) = DiskStatus(Blocks[x])
    BY <2>1 DEF Reply
  <2>3. DiskStatus(Blocks[x]) = IF x = "tight" THEN "up" ELSE "down"
    BY <2>1 DEF DiskStatus, Blocks
  <2> QED BY <2>1, <2>2, <2>3 DEF CheckIndicator, Sound
<1> QED BY <1>1, <1>2, HealthAssumption DEF Keys

-----------------------------------------------------------------------------
(* IInv is inductive                                                       *)

LEMMA InitInv == Init => IInv
<1> SUFFICES ASSUME Init
             PROVE  IInv
  OBVIOUS
<1>1. TypeOK
  BY HealthAssumption DEF Init, TypeOK, Idle, Absent, Statuses
<1>2. ASSUME NEW c \in Checks
      PROVE  CheckInv(c)
  <2>1. /\ probe[c] = Idle /\ answer[c] = "none"
        /\ c \in Scrapes => exposed[c] = Absent /\ collected[c] = "pending"
    BY <1>2 DEF Init
  <2>2. ProbesInv(c)
    BY <2>1 DEF ProbesInv, Idle
  <2>3. HistoryInv(c)
    BY <2>1 DEF HistoryInv, InProgress, Started, Idle, SoundIn
  <2>4. TruthInv(c) /\ AnswerInv(c)
    BY <2>1 DEF TruthInv, AnswerInv, Idle
  <2>5. ScrapeInv(c)
    BY <2>1 DEF Init, ScrapeInv
  <2> QED BY <2>2, <2>3, <2>4, <2>5 DEF CheckInv
<1>3. ASSUME NEW c \in Scrapes
      PROVE  GaugeInv(c)
  BY DEF Init, GaugeInv
<1> QED
  BY <1>1, <1>2, <1>3 DEF IInv

LEMMA TouchesType ==
  ASSUME TypeOK, NEW c \in Scrapes, Touches(c)
  PROVE  crossed' \in [Scrapes -> SUBSET Scrapes]
BY DEF TypeOK, Touches

LEMMA TypeStep ==
  ASSUME IInv, [Next]_vars
  PROVE  TypeOK'
<1> USE DEF TypeOK, histories, Statuses, gaugeVars
<1>0. TypeOK
  BY DEF IInv
<1>1. ASSUME NEW c \in Checks, StartCheck(c)
      PROVE  /\ probe' \in [Checks -> [Indicators -> {"idle", "waiting"} \cup Statuses]]
             /\ sound' \in [Checks -> SUBSET Indicators]
             /\ unsound' \in [Checks -> SUBSET Indicators]
  <2>1. \A i \in Indicators : Prefix(i, cond[i]) \in {"waiting", "up", "down"}
    BY <1>0, PrefixTruth
  <2> QED BY <1>0, <1>1, <2>1 DEF StartCheck, SoundIn
<1>2. ASSUME NEW c \in HttpChecks, StartHttpCheck(c)
      PROVE  TypeOK'
  BY <1>0, <1>1, <1>2 DEF StartHttpCheck, Checks
<1>3. ASSUME NEW c \in Scrapes, StartScrape(c)
      PROVE  TypeOK'
  <2>1. /\ c \in Checks /\ StartCheck(c)
        /\ UNCHANGED <<cond, queue, collected, exposed, answer, coming, changes>>
    BY <1>3 DEF StartScrape, Checks
  <2>2. gauge' \in [Indicators -> {"absent", "0", "1"}]
    BY <1>3 DEF StartScrape, Absent
  <2>3. counts' \in [Scrapes -> [QueueGauges -> {"idle", "waiting", "read", "failed"}]]
    BY <1>0, <1>3 DEF StartScrape
  <2>4. crossed' \in [Scrapes -> SUBSET Scrapes]
    BY <1>0, <1>3, TouchesType DEF StartScrape
  <2> QED BY <1>0, <1>1, <2>1, <2>2, <2>3, <2>4
<1>4. ASSUME NEW c \in HttpChecks, AnswerHttp(c)
      PROVE  TypeOK'
  BY <1>0, <1>4 DEF AnswerHttp
<1>5. ASSUME NEW c \in Scrapes, Collect(c)
      PROVE  TypeOK'
  <2>1. gauge' \in [Indicators -> {"absent", "0", "1"}]
    BY <1>5 DEF Collect, Series
  <2>2. crossed' \in [Scrapes -> SUBSET Scrapes]
    BY <1>0, <1>5, TouchesType DEF Collect
  <2>3. collected' \in [Scrapes -> {"pending", "set", "read"}]
    BY <1>0, <1>5 DEF Collect
  <2> QED BY <1>0, <1>5, <2>1, <2>2, <2>3 DEF Collect
<1>11. ASSUME NEW c \in Scrapes, ReadGauge(c)
      PROVE  TypeOK'
  <2>1. exposed' \in [Scrapes -> [Indicators -> {"absent", "0", "1"}]]
    BY <1>0, <1>11 DEF ReadGauge
  <2>2. collected' \in [Scrapes -> {"pending", "set", "read"}]
    BY <1>0, <1>11 DEF ReadGauge
  <2>3. answer' \in [Checks -> {"none", "200", "503", "rendered", "500"}]
    BY <1>0, <1>11 DEF ReadGauge, Rendered
  <2> QED BY <1>0, <1>11, <2>1, <2>2, <2>3 DEF ReadGauge
<1>6. ASSUME NEW c \in Scrapes, NEW g \in QueueGauges, CountReplies(c, g)
      PROVE  TypeOK'
  <2>1. counts' \in [Scrapes -> [QueueGauges -> {"idle", "waiting", "read", "failed"}]]
    <3>1. \E v \in {"read", "failed"} : counts' = [counts EXCEPT ![c][g] = v]
      BY <1>6 DEF CountReplies
    <3> QED BY <1>0, <3>1
  <2>2. answer' \in [Checks -> {"none", "200", "503", "rendered", "500"}]
    BY <1>0, <1>6 DEF CountReplies, Rendered
  <2> QED BY <1>0, <1>6, <2>1, <2>2 DEF CountReplies
<1>7. ASSUME NEW c \in Checks, NEW i \in Indicators, ProbeReplies(c, i)
      PROVE  TypeOK'
  <2>1. CheckIndicator(Reply(i, cond[i])) \in Statuses
    BY <1>0, <1>7, ReplyTruth DEF ProbeReplies, IInv, CheckInv, ProbesInv
  <2> QED BY <1>0, <1>7, <2>1 DEF ProbeReplies
<1>8. ASSUME NEW i \in Indicators, Change(i)
      PROVE  TypeOK'
  <2>1. PICK x \in Conditions(i) : cond' = [cond EXCEPT ![i] = x]
    BY <1>8 DEF Change
  <2>2. DOMAIN cond' = Indicators /\ \A j \in Indicators : cond'[j] \in Conditions(j)
    BY <1>0, <2>1
  <2>3. sound' \in [Checks -> SUBSET Indicators] /\ unsound' \in [Checks -> SUBSET Indicators]
    BY <1>0, <1>8 DEF Change, SoundIn
  <2>4. changes' \in 0..MaxChanges
    BY <1>0, <1>8, HealthAssumption DEF Change
  <2> QED BY <1>0, <1>8, <2>2, <2>3, <2>4 DEF Change
<1>9. CASE ChangeQueue
  BY <1>0, <1>9, HealthAssumption DEF ChangeQueue
<1>10. CASE Quiet \/ UNCHANGED vars
  BY <1>0, <1>10 DEF Quiet, vars
<1> QED
  BY <1>2, <1>3, <1>4, <1>5, <1>6, <1>7, <1>8, <1>9, <1>10, <1>11 DEF Next

\* A step that leaves a check's own variables and the conditions alone.
LEMMA CheckUntouched ==
  ASSUME NEW d \in Checks, CheckInv(d), UNCHANGED cond,
         probe'[d] = probe[d], answer'[d] = answer[d],
         sound'[d] = sound[d], unsound'[d] = unsound[d],
         d \in Scrapes => /\ exposed'[d] = exposed[d] /\ counts'[d] = counts[d]
                          /\ collected'[d] = collected[d]
  PROVE  CheckInv(d)'
<1>1. ProbesInv(d)'
  BY DEF CheckInv, ProbesInv, Started, Complete
<1>2. HistoryInv(d)'
  BY DEF CheckInv, HistoryInv, InProgress, Started, SoundIn
<1>3. TruthInv(d)' /\ AnswerInv(d)'
  BY DEF CheckInv, TruthInv, AnswerInv, Complete
<1>4. ScrapeInv(d)'
  BY DEF CheckInv, ScrapeInv, Started
<1> QED BY <1>1, <1>2, <1>3, <1>4 DEF CheckInv

\* Before a check starts, nothing of it is there.
LEMMA NotStarted ==
  ASSUME TypeOK, NEW c \in Checks, CheckInv(c), ~Started(c)
  PROVE  /\ c \in HttpChecks => answer[c] = "none"
         /\ c \in Scrapes => /\ collected[c] = "pending" /\ exposed[c] = Absent
                            /\ answer[c] # "rendered"
         /\ c \in Scrapes => \A g \in QueueGauges : counts[c][g] = "idle"
<1>1. ~Complete(c)
  BY DEF Started, Complete, Statuses
<1> QED
  BY <1>1 DEF CheckInv, ProbesInv, ScrapeInv

LEMMA StartStep ==
  ASSUME IInv, NEW c \in Checks,
         \/ c \in HttpChecks /\ StartHttpCheck(c)
         \/ c \in Scrapes /\ StartScrape(c)
  PROVE  CheckInv(c)'
<1>0. TypeOK /\ CheckInv(c) /\ ~Started(c) /\ StartCheck(c) /\ UNCHANGED <<cond, answer, exposed, collected>>
  BY DEF IInv, StartHttpCheck, StartScrape, gaugeVars
<1>1. /\ \A i \in Indicators : probe'[c][i] = Prefix(i, cond[i]) /\ cond[i] \in Conditions(i)
      /\ sound'[c] = SoundIn(cond) /\ unsound'[c] = Indicators \ SoundIn(cond)
  BY <1>0 DEF TypeOK, StartCheck
<1>2. /\ c \in HttpChecks => answer'[c] = "none"
      /\ c \in Scrapes => /\ collected'[c] = "pending" /\ exposed'[c] = Absent
                         /\ answer'[c] # "rendered"
  BY <1>0, NotStarted
<1>3. Started(c)' /\ ProbesInv(c)'
  BY <1>1, <1>2, PrefixTruth DEF ProbesInv, Started
<1>4. HistoryInv(c)'
  BY <1>0, <1>1 DEF HistoryInv, SoundIn
<1>5. TruthInv(c)'
  BY <1>1, PrefixTruth DEF TruthInv, SoundIn
<1>6. AnswerInv(c)' /\ ScrapeInv(c)'
  BY <1>2, <1>3 DEF AnswerInv, ScrapeInv
<1> QED BY <1>3, <1>4, <1>5, <1>6 DEF CheckInv

\* A reply reaches a check in progress, whose histories contain the present condition.
LEMMA ReplyStep ==
  ASSUME IInv, NEW c \in Checks, NEW i \in Indicators, ProbeReplies(c, i)
  PROVE  CheckInv(c)'
<1>0. TypeOK /\ CheckInv(c) /\ probe[c][i] = "waiting" /\ cond[i] # "silent"
      /\ cond[i] \in Conditions(i)
  BY DEF IInv, ProbeReplies, TypeOK
<1>1. /\ ~Complete(c) /\ Started(c)
      /\ c \in HttpChecks => answer[c] = "none"
      /\ c \in Scrapes => collected[c] = "pending"
  BY <1>0 DEF CheckInv, ProbesInv, Complete, Statuses, Idle
<1>2. InProgress(c)
  BY <1>1 DEF InProgress, Checks
<1>3. /\ probe'[c][i] = IF Sound(i, cond[i]) THEN "up" ELSE "down"
      /\ \A j \in Indicators : j # i => probe'[c][j] = probe[c][j]
      /\ UNCHANGED <<cond, counts, answer, exposed, collected, sound, unsound>>
  <2>1. i # "memory_heap"
    BY <1>0 DEF CheckInv, ProbesInv
  <2> QED BY <1>0, <2>1, ReplyTruth DEF ProbeReplies, TypeOK, histories, gaugeVars
<1>4. Started(c)' /\ ProbesInv(c)'
  BY <1>0, <1>1, <1>3 DEF CheckInv, ProbesInv, Started
<1>5. HistoryInv(c)'
  BY <1>0, <1>2, <1>3 DEF CheckInv, HistoryInv, SoundIn
<1>6. TruthInv(c)'
  BY <1>0, <1>2, <1>3 DEF CheckInv, HistoryInv, TruthInv, SoundIn
<1>7. AnswerInv(c)'
  BY <1>1, <1>3, HealthAssumption DEF AnswerInv
<1>8. ScrapeInv(c)'
  BY <1>0, <1>3, <1>4 DEF CheckInv, ScrapeInv
<1> QED BY <1>4, <1>5, <1>6, <1>7, <1>8 DEF CheckInv

LEMMA AnswerStep ==
  ASSUME IInv, NEW c \in HttpChecks, AnswerHttp(c)
  PROVE  CheckInv(c)'
<1>0. /\ TypeOK /\ CheckInv(c) /\ Complete(c) /\ c \in Checks /\ c \notin Scrapes
      /\ UNCHANGED <<cond, probe, sound, unsound>>
  BY HealthAssumption DEF IInv, AnswerHttp, Checks, histories
<1>1. answer'[c] = IF \A i \in Indicators : probe[c][i] = "up" THEN "200" ELSE "503"
  BY <1>0 DEF AnswerHttp, TypeOK, Verdict
<1>2. ProbesInv(c)'
  BY <1>0, <1>1 DEF CheckInv, ProbesInv, Started, Complete
<1>3. HistoryInv(c)'
  BY <1>0, <1>1 DEF HistoryInv, InProgress
<1>4. TruthInv(c)' /\ AnswerInv(c)' /\ ScrapeInv(c)'
  BY <1>0, <1>1 DEF CheckInv, TruthInv, AnswerInv, ScrapeInv, Complete
<1> QED BY <1>2, <1>3, <1>4 DEF CheckInv

LEMMA CollectStep ==
  ASSUME IInv, NEW c \in Scrapes, Collect(c)
  PROVE  CheckInv(c)'
<1>0. /\ TypeOK /\ CheckInv(c) /\ Complete(c) /\ c \in Checks /\ c \notin HttpChecks
      /\ UNCHANGED <<cond, probe, counts, answer, exposed, sound, unsound>>
      /\ collected[c] = "pending"
  BY HealthAssumption DEF IInv, Collect, InProgress, Checks, histories
<1>1. collected'[c] = "set"
  BY <1>0 DEF Collect, TypeOK
<1>2. ProbesInv(c)'
  BY <1>0 DEF CheckInv, ProbesInv, Started, Complete
<1>3. HistoryInv(c)'
  BY <1>0, <1>1 DEF HistoryInv, InProgress
<1>4. TruthInv(c)' /\ AnswerInv(c)'
  BY <1>0 DEF CheckInv, TruthInv, AnswerInv
<1>5. ScrapeInv(c)'
  BY <1>0, <1>1 DEF CheckInv, ScrapeInv, Started
<1> QED BY <1>2, <1>3, <1>4, <1>5 DEF CheckInv

LEMMA ReadStep ==
  ASSUME IInv, NEW c \in Scrapes, ReadGauge(c)
  PROVE  CheckInv(c)'
<1>0. /\ TypeOK /\ CheckInv(c) /\ c \in Checks /\ c \notin HttpChecks
      /\ UNCHANGED <<cond, probe, counts, sound, unsound>>
      /\ collected[c] = "set" /\ collected'[c] = "read"
  BY HealthAssumption DEF IInv, ReadGauge, Checks, histories, TypeOK
<1>1. ProbesInv(c)'
  BY <1>0 DEF CheckInv, ProbesInv, Started, Complete
<1>2. HistoryInv(c)'
  BY <1>0 DEF HistoryInv, InProgress
<1>3. TruthInv(c)' /\ AnswerInv(c)'
  BY <1>0 DEF CheckInv, TruthInv, AnswerInv
<1>4. ScrapeInv(c)'
  BY <1>0 DEF CheckInv, ScrapeInv, Started
<1> QED BY <1>1, <1>2, <1>3, <1>4 DEF CheckInv

\* A scrape is rendered by the last of its gauges, the health gauge among them.
LEMMA CountStep ==
  ASSUME IInv, NEW c \in Scrapes, NEW g \in QueueGauges, CountReplies(c, g)
  PROVE  CheckInv(c)'
<1>0. /\ TypeOK /\ CheckInv(c) /\ c \in Checks /\ c \notin HttpChecks
      /\ UNCHANGED <<cond, probe, exposed, collected, sound, unsound>>
  BY HealthAssumption DEF IInv, CountReplies, Checks, histories, gaugeVars
<1>1. Started(c)
  BY <1>0 DEF CountReplies, CheckInv, ScrapeInv
<1>2. answer'[c] = "rendered" => answer[c] = "rendered" \/ collected[c] = "read"
  BY <1>0 DEF CountReplies, Rendered, TypeOK
<1>3. ProbesInv(c)' /\ TruthInv(c)' /\ AnswerInv(c)'
  BY <1>0 DEF CheckInv, ProbesInv, TruthInv, AnswerInv, Started, Complete
<1>4. HistoryInv(c)'
  BY <1>0 DEF CheckInv, HistoryInv, InProgress, Started, SoundIn
<1>5. ScrapeInv(c)'
  BY <1>0, <1>1, <1>2 DEF CheckInv, ScrapeInv, Started
<1> QED BY <1>3, <1>4, <1>5 DEF CheckInv

\* The histories of the checks in progress follow a change, the others stay.
LEMMA ChangeStep ==
  ASSUME IInv, NEW i \in Indicators, Change(i), NEW d \in Checks
  PROVE  CheckInv(d)'
<1>0. TypeOK /\ CheckInv(d) /\ UNCHANGED <<probe, counts, answer, exposed, collected>>
  BY DEF IInv, Change, gaugeVars
<1>1. /\ sound'[d] = IF InProgress(d) THEN sound[d] \cup SoundIn(cond') ELSE sound[d]
      /\ unsound'[d] = IF InProgress(d) THEN unsound[d] \cup (Indicators \ SoundIn(cond'))
                       ELSE unsound[d]
  BY DEF Change
<1>2. ProbesInv(d)' /\ AnswerInv(d)' /\ ScrapeInv(d)'
  BY <1>0 DEF CheckInv, ProbesInv, AnswerInv, ScrapeInv, Started, Complete, Series
<1>3. InProgress(d)' = InProgress(d) /\ SoundIn(cond)' = SoundIn(cond')
  BY <1>0 DEF InProgress, Started, SoundIn
<1>4. HistoryInv(d)'
  BY <1>1, <1>3 DEF HistoryInv
<1>5. TruthInv(d)'
  BY <1>0, <1>1 DEF CheckInv, TruthInv
<1> QED BY <1>2, <1>4, <1>5 DEF CheckInv

LEMMA CheckStep ==
  ASSUME IInv, [Next]_vars, NEW d \in Checks
  PROVE  CheckInv(d)'
<1> USE DEF histories, gaugeVars
<1>0. TypeOK /\ CheckInv(d)
  BY DEF IInv
<1>1. ASSUME NEW c \in HttpChecks, StartHttpCheck(c)
      PROVE  CheckInv(d)'
  <2>1. CASE c = d
    BY <1>1, <2>1, StartStep DEF Checks
  <2>2. CASE c # d
    BY <1>0, <1>1, <2>2, CheckUntouched DEF StartHttpCheck, StartCheck, TypeOK
  <2> QED BY <2>1, <2>2
<1>2. ASSUME NEW c \in Scrapes, StartScrape(c)
      PROVE  CheckInv(d)'
  <2>1. CASE c = d
    BY <1>2, <2>1, StartStep DEF Checks
  <2>2. CASE c # d
    BY <1>0, <1>2, <2>2, CheckUntouched DEF StartScrape, StartCheck, TypeOK
  <2> QED BY <2>1, <2>2
<1>3. ASSUME NEW c \in HttpChecks, AnswerHttp(c)
      PROVE  CheckInv(d)'
  <2>1. CASE c = d
    BY <1>3, <2>1, AnswerStep
  <2>2. CASE c # d
    BY <1>0, <1>3, <2>2, CheckUntouched DEF AnswerHttp, TypeOK
  <2> QED BY <2>1, <2>2
<1>4. ASSUME NEW c \in Scrapes, Collect(c)
      PROVE  CheckInv(d)'
  <2>1. CASE c = d
    BY <1>4, <2>1, CollectStep
  <2>2. CASE c # d
    BY <1>0, <1>4, <2>2, CheckUntouched DEF Collect, TypeOK
  <2> QED BY <2>1, <2>2
<1>9. ASSUME NEW c \in Scrapes, ReadGauge(c)
      PROVE  CheckInv(d)'
  <2>1. CASE c = d
    BY <1>9, <2>1, ReadStep
  <2>2. CASE c # d
    BY <1>0, <1>9, <2>2, CheckUntouched DEF ReadGauge, Rendered, TypeOK
  <2> QED BY <2>1, <2>2
<1>5. ASSUME NEW c \in Scrapes, NEW g \in QueueGauges, CountReplies(c, g)
      PROVE  CheckInv(d)'
  <2>1. CASE c = d
    BY <1>5, <2>1, CountStep
  <2>2. CASE c # d
    BY <1>0, <1>5, <2>2, CheckUntouched DEF CountReplies, Rendered, TypeOK
  <2> QED BY <2>1, <2>2
<1>6. ASSUME NEW c \in Checks, NEW i \in Indicators, ProbeReplies(c, i)
      PROVE  CheckInv(d)'
  <2>1. CASE c = d
    BY <1>6, <2>1, ReplyStep
  <2>2. CASE c # d
    BY <1>0, <1>6, <2>2, CheckUntouched DEF ProbeReplies, TypeOK
  <2> QED BY <2>1, <2>2
<1>7. ASSUME NEW i \in Indicators, Change(i)
      PROVE  CheckInv(d)'
  BY <1>7, ChangeStep
<1>8. CASE ChangeQueue \/ Quiet \/ UNCHANGED vars
  BY <1>0, <1>8, CheckUntouched DEF ChangeQueue, Quiet, vars
<1> QED
  BY <1>1, <1>2, <1>3, <1>4, <1>5, <1>6, <1>7, <1>8, <1>9 DEF Next

\* What a complete check found stays, so nothing happens to series already set.
LEMMA SeriesStay ==
  ASSUME IInv, [Next]_vars, NEW d \in Scrapes, collected[d] # "pending"
  PROVE  Series(d)' = Series(d)
<1>0. TypeOK /\ d \in Checks /\ Complete(d) /\ Started(d)
  BY DEF IInv, Checks, CheckInv, ProbesInv, Complete, Started, Statuses
<1>1. probe'[d] = probe[d]
  <2>1. ASSUME NEW c \in Checks, StartCheck(c), c # d
        PROVE  probe'[d] = probe[d]
    BY <1>0, <2>1 DEF StartCheck, TypeOK
  <2>2. ASSUME NEW c \in Checks, NEW i \in Indicators, ProbeReplies(c, i)
        PROVE  probe'[d] = probe[d]
    BY <1>0, <2>2 DEF ProbeReplies, Complete, Statuses, TypeOK
  <2> QED
    BY <1>0, <2>1, <2>2 DEF Next, Checks, StartHttpCheck, StartScrape, AnswerHttp, Collect,
       ReadGauge, CountReplies, Change, ChangeQueue, Quiet, vars
<1> QED
  BY <1>1 DEF Series

LEMMA GaugeStep ==
  ASSUME IInv, [Next]_vars, NEW d \in Scrapes
  PROVE  GaugeInv(d)'
<1>0. TypeOK /\ GaugeInv(d) /\ crossed[d] \subseteq Scrapes
  BY DEF IInv, TypeOK
<1>1. \A e \in Scrapes : collected[e] # "pending" => Series(e)' = Series(e)
  BY SeriesStay
<1>2. CASE UNCHANGED gaugeVars
  BY <1>0, <1>1, <1>2 DEF GaugeInv, OneOf, gaugeVars
\* Another scrape resets the gauge, or this one does before its own check.
<1>3. ASSUME NEW c \in Scrapes, StartScrape(c)
      PROVE  GaugeInv(d)'
  <2>1. gauge' = Absent /\ UNCHANGED <<collected, exposed>>
    BY <1>3 DEF StartScrape
  <2>2. collected[d] = "set" => crossed'[d] # {}
    BY <1>0, <1>3 DEF StartScrape, Touches
  <2>3. collected[d] = "read" => crossed'[d] = crossed[d]
    BY <1>0, <1>3 DEF StartScrape, Touches
  <2>4. collected[d] = "read" => GaugeInv(d)'
    BY <1>0, <1>1, <2>1, <2>3 DEF GaugeInv, OneOf
  <2> QED BY <2>1, <2>2, <2>4 DEF GaugeInv
\* A check sets the gauge: its own scrape will find it there, those it crosses as well.
<1>4. ASSUME NEW c \in Scrapes, Collect(c)
      PROVE  GaugeInv(d)'
  <2>1. /\ collected[c] = "pending" /\ gauge' = Series(c) /\ UNCHANGED exposed
        /\ collected' = [collected EXCEPT ![c] = "set"] /\ Series(c)' = Series(c)
    BY <1>4 DEF Collect, InProgress, Series
  <2>2. collected'[c] = "set" /\ \A e \in Scrapes : e # c => collected'[e] = collected[e]
    BY <1>0, <2>1 DEF TypeOK
  <2>3. CASE d = c
    BY <2>1, <2>2, <2>3 DEF GaugeInv, OneOf
  <2>4. CASE d # c /\ collected[d] = "set"
    <3>1. c \in crossed'[d] /\ collected'[d] = "set"
      BY <1>4, <2>2, <2>4 DEF Collect, Touches
    <3> QED BY <2>1, <2>2, <3>1 DEF GaugeInv, OneOf
  <2>5. CASE d # c /\ collected[d] # "set"
    <3>1. crossed'[d] = crossed[d] /\ collected'[d] = collected[d]
      BY <1>0, <1>4, <2>2, <2>5 DEF Collect, Touches
    <3> QED BY <1>0, <1>1, <2>1, <2>2, <2>5, <3>1 DEF GaugeInv, OneOf
  <2> QED BY <2>3, <2>4, <2>5
<1>5. ASSUME NEW c \in Scrapes, ReadGauge(c)
      PROVE  GaugeInv(d)'
  <2>1. /\ collected[c] = "set" /\ UNCHANGED <<gauge, crossed>>
        /\ collected' = [collected EXCEPT ![c] = "read"]
        /\ exposed' = [exposed EXCEPT ![c] = gauge]
    BY <1>5 DEF ReadGauge
  <2>2. /\ collected'[c] = "read" /\ exposed'[c] = gauge
        /\ \A e \in Scrapes : e # c => collected'[e] = collected[e] /\ exposed'[e] = exposed[e]
    BY <1>0, <2>1 DEF TypeOK
  <2>3. \A e \in Scrapes : collected[e] # "pending" => collected'[e] # "pending"
    BY <2>2
  <2> QED BY <1>0, <1>1, <2>1, <2>2, <2>3 DEF GaugeInv, OneOf
<1> QED
  BY <1>2, <1>3, <1>4, <1>5 DEF Next, StartHttpCheck, AnswerHttp, CountReplies,
     ProbeReplies, Change, ChangeQueue, Quiet, vars

LEMMA Inductive == Spec => []IInv
<1>1. IInv /\ [Next]_vars => IInv'
  BY TypeStep, CheckStep, GaugeStep DEF IInv
<1> QED
  BY <1>1, InitInv, PTL DEF Spec

-----------------------------------------------------------------------------
(* The invariants of the specification                                     *)

\* The state keeps its type: every condition, whenever it is met, yields a status.
THEOREM TypeCorrect == Spec => []TypeOK
BY Inductive, PTL DEF IInv

\* A 200 vouches for every dependency at some moment of the check, however many change
\* and however often (HealthCoordinator joins snapshots of different moments).
THEOREM HealthyIsSound == Spec => []HealthyMeansEachWasSound
<1>1. IInv => HealthyMeansEachWasSound
  <2> SUFFICES ASSUME IInv, NEW c \in HttpChecks, answer[c] = "200"
               PROVE  sound[c] = Indicators
    BY DEF HealthyMeansEachWasSound
  <2>1. c \in Checks /\ CheckInv(c) /\ sound[c] \subseteq Indicators
    BY DEF IInv, Checks, TypeOK
  <2> QED BY <2>1 DEF CheckInv, AnswerInv, TruthInv
<1> QED BY <1>1, Inductive, PTL

\* A 503 has a cause, unless Redis is switched off and its indicator is there all the
\* same: then it is always down, and the 503 has none (RedisHealthIndicatorAdapter).
THEOREM UnhealthyHasCause ==
  ASSUME RedisEnabled \/ "redis" \notin Indicators
  PROVE  Spec => []UnhealthyHasACause
<1>1. IInv => UnhealthyHasACause
  <2> SUFFICES ASSUME IInv, NEW c \in HttpChecks, answer[c] = "503"
               PROVE  unsound[c] \cap Enabled # {}
    BY DEF UnhealthyHasACause
  <2>1. c \in Checks /\ CheckInv(c) /\ Enabled = Indicators
    BY DEF IInv, Checks, Enabled
  <2>2. PICK i \in Indicators : probe[c][i] = "down"
    BY <2>1 DEF CheckInv, AnswerInv, Complete, Statuses
  <2> QED BY <2>1, <2>2 DEF CheckInv, TruthInv
<1> QED BY <1>1, Inductive, PTL

\* A rendered scrape exposes what its own check found, however many overlap and whichever
\* of them fail on a queue gauge, unless another touched the gauge between its set and its
\* read: then nothing, or what that one's check found (HealthMetricsService.collect).
THEOREM ScrapeShowsOne == Spec => []ScrapeShowsOneCheck
<1>1. IInv => ScrapeShowsOneCheck
  <2> SUFFICES ASSUME IInv, NEW c \in Scrapes, answer[c] = "rendered"
               PROVE  \/ exposed[c] = Absent /\ crossed[c] # {}
                      \/ \E d \in {c} \cup crossed[c] :
                           /\ d # c => collected[d] # "pending"
                           /\ exposed[c] = [i \in Indicators |->
                                             IF probe[d][i] = "up" THEN "1" ELSE "0"]
    BY DEF ScrapeShowsOneCheck
  <2>1. collected[c] = "read"
    BY DEF IInv, CheckInv, ScrapeInv, Checks
  <2>2. (exposed[c] = Absent /\ crossed[c] # {}) \/ OneOf(c, exposed[c])
    BY <2>1 DEF IInv, GaugeInv
  <2> QED BY <2>2 DEF OneOf, Series
<1> QED BY <1>1, Inductive, PTL

\* An exposed value was so during the scrape, or during one that crossed it.
THEOREM ExposedHasEvidence == Spec => []ExposedValueHasEvidence
<1>1. IInv => ExposedValueHasEvidence
  <2> SUFFICES ASSUME IInv, NEW c \in Scrapes, NEW i \in Enabled
               PROVE  /\ exposed[c][i] = "1" => \E d \in {c} \cup crossed[c] : i \in sound[d]
                      /\ exposed[c][i] = "0" => \E d \in {c} \cup crossed[c] : i \in unsound[d]
    BY DEF ExposedValueHasEvidence
  <2>1. i \in Indicators /\ TypeOK /\ CheckInv(c) /\ GaugeInv(c)
    BY DEF IInv, Checks, Enabled
  <2>2. CASE exposed[c] = Absent
    BY <2>1, <2>2 DEF Absent
  <2>3. CASE exposed[c] # Absent
    <3>1. collected[c] = "read"
      BY <2>1, <2>3 DEF CheckInv, ScrapeInv
    <3>2. OneOf(c, exposed[c])
      BY <2>1, <2>3, <3>1 DEF GaugeInv
    <3>3. PICK d \in {c} \cup crossed[c] : collected[d] # "pending" /\ exposed[c] = Series(d)
      BY <3>2 DEF OneOf
    <3>4. d \in Scrapes /\ CheckInv(d) /\ Complete(d)
      BY <2>1, <3>3 DEF IInv, TypeOK, Checks, CheckInv, ProbesInv
    <3>5. exposed[c][i] = IF probe[d][i] = "up" THEN "1" ELSE "0"
      BY <2>1, <3>3 DEF Series
    <3> QED BY <2>1, <3>4, <3>5 DEF Complete, Statuses, CheckInv, TruthInv
  <2> QED BY <2>2, <2>3
<1> QED BY <1>1, Inductive, PTL
=============================================================================
