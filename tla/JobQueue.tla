------------------------------ MODULE JobQueue ------------------------------
(***************************************************************************)
(* Background jobs: BackgroundJobsService and the publishers of            *)
(* MESSAGE_QUEUE, BullmqMessageQueueAdapter, BackgroundJobsProcessor and   *)
(* the counters of BullmqMetricsService, in several processes that share   *)
(* one queue in Redis.                                                     *)
(*                                                                         *)
(* BullMQ itself is outside the repository and is modelled by what the     *)
(* adapter's options and the processor's promise mean to it: one lock per  *)
(* active job, a retry while attempts are left, one recovery of a job      *)
(* whose lock was lost, a key that is free again once its job has settled. *)
(***************************************************************************)
EXTENDS Naturals, FiniteSets

CONSTANTS
  Jobs,          \* calls of publish
  Workers,       \* processes of the application, each with one worker
  Keys,          \* deduplication keys other than the empty text
  Messages,      \* the messages publishers send, reduced to their options
  DefaultAttempts, \* the attempts of a message that names none, 3 in the adapter
  MaxStalled,    \* BullMQ's maxStalledCount, which the code leaves at 1
  Unset          \* an option that is not given

\* PublishMessage
Message == [attempts : Nat \cup {Unset},
            deduplicationKey : Keys \cup {Unset, ""},
            delayed : BOOLEAN]
NoOptions == [attempts |-> Unset, deduplicationKey |-> Unset, delayed |-> FALSE]

ASSUME JobQueueAssumption ==
  /\ Jobs \cap {"none"} = {}
  /\ Workers \cap {"none", "gone"} = {}
  /\ Keys \cap {"none", ""} = {}
  /\ Messages \subseteq Message
  /\ DefaultAttempts \in Nat \ {0}
  /\ MaxStalled \in Nat
  /\ Unset \notin Keys \cup {"", "none"}
  /\ Unset \notin Nat

VARIABLES
  state,     \* per job: where it is in the queue
  attempts,  \* per job: the attempts option it was added with
  key,       \* per job: the deduplication id it was added with, or "none"
  made,      \* per job: attemptsMade, the failed attempts that were reported
  stalled,   \* per job: how often it was found active without a lock
  owner,     \* per job: who holds its lock; "gone" when the process has ended
  dedup,     \* per key: the job that holds it, or "none"
  at,        \* per worker: the job it processes, or "none"
  outcome,   \* per worker: how far process(job) has got
  processed, \* jobs_processed_total, added up over every process that ever ran
  failures,  \* jobs_failed_total, likewise
  asked,     \* history: per job, the message that was published
  runs,      \* history: per job, how often process(job) was called
  handled    \* history: the jobs one of whose runs resolved

queue == <<state, attempts, key, made, stalled, owner, dedup>>
counters == <<processed, failures>>
history == <<asked, runs, handled>>
vars == <<queue, at, outcome, counters, history>>

Live == {j \in Jobs : state[j] \in {"waiting", "delayed", "active"}}

\* The type of the state.
TypeOK ==
  /\ state \in [Jobs -> {"unused", "absorbed", "waiting", "delayed", "active",
                         "completed", "failed", "removed"}]
  /\ attempts \in [Jobs -> Nat]
  /\ key \in [Jobs -> Keys \cup {"none"}]
  /\ made \in [Jobs -> Nat]
  /\ stalled \in [Jobs -> 0..MaxStalled + 1]
  /\ owner \in [Jobs -> Workers \cup {"none", "gone"}]
  /\ dedup \in [Keys -> Jobs \cup {"none"}]
  /\ at \in [Workers -> Jobs \cup {"none"}]
  /\ outcome \in [Workers -> {"none", "running", "resolved", "threw"}]
  /\ processed \in Nat
  /\ failures \in Nat
  /\ asked \in [Jobs -> Messages \cup {NoOptions}]
  /\ runs \in [Jobs -> Nat]
  /\ handled \in SUBSET Jobs

Init ==
  /\ state = [j \in Jobs |-> "unused"]
  /\ attempts = [j \in Jobs |-> 0]
  /\ key = [j \in Jobs |-> "none"]
  /\ made = [j \in Jobs |-> 0]
  /\ stalled = [j \in Jobs |-> 0]
  /\ owner = [j \in Jobs |-> "none"]
  /\ dedup = [k \in Keys |-> "none"]
  /\ at = [w \in Workers |-> "none"]
  /\ outcome = [w \in Workers |-> "none"]
  /\ processed = 0
  /\ failures = 0
  /\ asked = [j \in Jobs |-> NoOptions]
  /\ runs = [j \in Jobs |-> 0]
  /\ handled = {}

-----------------------------------------------------------------------------
(* Publishing                                                              *)

AttemptsPassedOn(m) == m.attempts

\* options?.attempts ?? DefaultAttempts: zero is a value and is kept.
AttemptsOf(m) == IF m.attempts = Unset THEN DefaultAttempts ELSE m.attempts

NoDeduplication(m) == "none"

\* options?.deduplicationKey ? { id } : undefined: the empty text is no key.
DeduplicationOf(m) ==
  IF m.deduplicationKey \in {Unset, ""} THEN "none" ELSE m.deduplicationKey

\* removeOnComplete and removeOnFail.
Removed == [completed |-> TRUE, failed |-> FALSE]

\* queue.add with the adapter's options: BullMQ answers with the job that holds
\* the key, if there is one, and otherwise stores a new one.
Publish(j, m) ==
  LET k == DeduplicationOf(m)
      absorbed == k # "none" /\ dedup[k] # "none"
  IN
  /\ state[j] = "unused"
  /\ asked' = [asked EXCEPT ![j] = m]
  /\ IF absorbed
     THEN /\ state' = [state EXCEPT ![j] = "absorbed"]
          /\ UNCHANGED <<attempts, key, dedup>>
     ELSE /\ state' = [state EXCEPT ![j] = IF m.delayed THEN "delayed" ELSE "waiting"]
          /\ attempts' = [attempts EXCEPT ![j] = AttemptsOf(m)]
          /\ key' = [key EXCEPT ![j] = k]
          /\ dedup' = [x \in Keys |-> IF x = k THEN j ELSE dedup[x]]
  /\ UNCHANGED <<made, stalled, owner, at, outcome, counters, runs, handled>>

\* BackgroundJobsService.enqueue publishes without options.
Enqueue(j) == Publish(j, NoOptions)

-----------------------------------------------------------------------------
(* The queue: BullMQ in Redis                                              *)

\* The end of a job: it is kept or removed, and its key is free again.
Settle(j, how) ==
  /\ state' = [state EXCEPT ![j] = IF Removed[how] THEN "removed" ELSE how]
  /\ owner' = [owner EXCEPT ![j] = "none"]
  /\ dedup' = [k \in Keys |-> IF dedup[k] = j THEN "none" ELSE dedup[k]]

BackToWaiting(j) ==
  /\ state' = [state EXCEPT ![j] = "waiting"]
  /\ owner' = [owner EXCEPT ![j] = "none"]
  /\ UNCHANGED dedup

Promote(j) ==
  /\ state[j] = "delayed"
  /\ state' = [state EXCEPT ![j] = "waiting"]
  /\ UNCHANGED <<attempts, key, made, stalled, owner, dedup, at, outcome, counters, history>>

\* An idle worker takes a waiting job, locks it and calls process(job).
Take(w, j) ==
  /\ at[w] = "none"
  /\ state[j] = "waiting"
  /\ state' = [state EXCEPT ![j] = "active"]
  /\ owner' = [owner EXCEPT ![j] = w]
  /\ at' = [at EXCEPT ![w] = j]
  /\ outcome' = [outcome EXCEPT ![w] = "running"]
  /\ runs' = [runs EXCEPT ![j] = @ + 1]
  /\ UNCHANGED <<attempts, key, made, stalled, dedup, counters, asked, handled>>

\* The promise of process(job) has settled and the worker reports it.  The report
\* is refused unless the worker still holds the lock.
ReportOf(w, j) ==
  CASE owner[j] # w -> UNCHANGED queue
    [] owner[j] = w /\ outcome[w] = "resolved" ->
         /\ Settle(j, "completed")
         /\ UNCHANGED <<attempts, key, made, stalled>>
    [] owner[j] = w /\ outcome[w] = "threw" ->
         /\ made' = [made EXCEPT ![j] = @ + 1]
         /\ IF made[j] + 1 < attempts[j] THEN BackToWaiting(j) ELSE Settle(j, "failed")
         /\ UNCHANGED <<attempts, key, stalled>>

Report(w) ==
  /\ outcome[w] \in {"resolved", "threw"}
  /\ ReportOf(w, at[w])
  /\ at' = [at EXCEPT ![w] = "none"]
  /\ outcome' = [outcome EXCEPT ![w] = "none"]
  /\ UNCHANGED <<counters, history>>

\* A lock is not renewed: its process has ended, or cannot reach Redis, or its
\* event loop is blocked.
LockExpires(j) ==
  /\ state[j] = "active"
  /\ owner[j] # "none"
  /\ owner' = [owner EXCEPT ![j] = "none"]
  /\ UNCHANGED <<state, attempts, key, made, stalled, dedup, at, outcome, counters, history>>

StalledCheck(j) ==
  /\ state[j] = "active"
  /\ owner[j] = "none"
  /\ stalled' = [stalled EXCEPT ![j] = @ + 1]
  /\ IF stalled[j] < MaxStalled THEN BackToWaiting(j) ELSE Settle(j, "failed")
  /\ UNCHANGED <<attempts, key, made, at, outcome, counters, history>>

-----------------------------------------------------------------------------
(* The processor                                                           *)

RecordProcessed == processed' = processed + 1 /\ UNCHANGED failures
RecordFailed == failures' = failures + 1 /\ UNCHANGED processed

Resolves(w) ==
  /\ outcome[w] = "running"
  /\ RecordProcessed
  /\ outcome' = [outcome EXCEPT ![w] = "resolved"]
  /\ handled' = handled \cup {at[w]}
  /\ UNCHANGED <<queue, at, asked, runs>>

SwallowsTheError(w) ==
  /\ outcome[w] = "running"
  /\ RecordFailed
  /\ outcome' = [outcome EXCEPT ![w] = "resolved"]
  /\ UNCHANGED <<queue, at, history>>

CountsBoth(w) ==
  /\ outcome[w] = "running"
  /\ processed' = processed + 1
  /\ failures' = failures + 1
  /\ outcome' = [outcome EXCEPT ![w] = "threw"]
  /\ UNCHANGED <<queue, at, history>>

\* The catch block counts the run and throws again, so that BullMQ sees a failure.
Throws(w) ==
  /\ outcome[w] = "running"
  /\ RecordFailed
  /\ outcome' = [outcome EXCEPT ![w] = "threw"]
  /\ UNCHANGED <<queue, at, history>>

NeverSettles(w) == FALSE

\* process(job)
Process(w) == Resolves(w) \/ Throws(w)

\* The process ends in the middle of a run and another takes its place: nobody
\* renews the lock it held.  (One that ends between two runs loses nothing but its
\* registry, and the counters here are those of all registries together.)
Crash(w) ==
  /\ at[w] # "none"
  /\ owner' = [j \in Jobs |-> IF owner[j] = w THEN "gone" ELSE owner[j]]
  /\ at' = [at EXCEPT ![w] = "none"]
  /\ outcome' = [outcome EXCEPT ![w] = "none"]
  /\ UNCHANGED <<state, attempts, key, made, stalled, dedup, counters, history>>

-----------------------------------------------------------------------------
Next ==
  \/ \E j \in Jobs :
       \/ \E m \in Messages : Publish(j, m)
       \/ Enqueue(j)
       \/ Promote(j) \/ LockExpires(j) \/ StalledCheck(j)
  \/ \E w \in Workers :
       \/ \E j \in Jobs : Take(w, j)
       \/ Process(w) \/ Report(w) \/ Crash(w)

\* BullMQ's timers promote and recover, an idle worker takes what waits, a handler
\* settles and its outcome is reported; nobody need publish, and only the lock of
\* a process that has ended is sure to expire.
Fairness ==
  /\ \A j \in Jobs :
       /\ WF_vars(Promote(j))
       /\ WF_vars(StalledCheck(j))
       /\ WF_vars(owner[j] = "gone" /\ LockExpires(j))
  /\ WF_vars(\E w \in Workers, j \in Jobs : Take(w, j))
  /\ \A w \in Workers : WF_vars(Process(w)) /\ WF_vars(Report(w))

Spec == Init /\ [][Next]_vars /\ Fairness

-----------------------------------------------------------------------------
(* Properties                                                              *)

\* A key is held by exactly the job in the queue that was published with it: no two
\* live jobs share one, and none stays taken by a job that has completed, failed or
\* been given up, whatever was retried, recovered or refused in between (the
\* adapter's deduplication option).
KeyFollowsItsJob ==
  \A j \in Jobs, k \in Keys :
    (dedup[k] = j) <=> (j \in Live /\ asked[j].deduplicationKey = k)

\* The sum of f[j] over all jobs, which is finite at any time.
Total(f) == Cardinality(UNION {{j} \X (1..f[j]) : j \in Jobs})

InState(s) == {j \in Jobs : state[j] = s}

\* At rest the Prometheus counters of all processes agree with the queue up to the
\* runs that lost their lock: each completed job was counted as processed and each
\* failed attempt as failed, and what is counted beyond that is one run per stall at
\* most, whether a process ended or was late (recordProcessed and recordFailed
\* against what BullMQ was told).
CountersBracketTheQueue ==
  (InState("active") = {} /\ \A w \in Workers : at[w] = "none") =>
    LET done == Cardinality(InState("completed") \cup InState("removed"))
        failed == Total(made)
        lost == Total(stalled)
    IN /\ processed \in done..(done + lost)
       /\ failures \in failed..(failed + lost)
       /\ processed + failures <= done + failed + lost

\* What a caller may expect of a message, from the options it gave.
RunsAskedFor(m) ==
  CASE m.attempts = Unset -> DefaultAttempts
    [] m.attempts = 0 -> 1
    [] OTHER -> m.attempts

Fate(s) ==
  CASE s = "unused" -> "unknown"
    [] s = "absorbed" -> "absorbed"
    [] s \in {"completed", "removed"} -> "done"
    [] s = "failed" -> "dead"
    [] OTHER -> "pending"

Accepted(j) == state[j] \notin {"unused", "absorbed"}

Delivery == INSTANCE JobDelivery WITH
  fate <- [j \in Jobs |-> Fate(state[j])],
  key <- [j \in Jobs |-> IF Accepted(j) /\ asked[j].deduplicationKey \in Keys
                         THEN asked[j].deduplicationKey ELSE "none"],
  Limits <- {RunsAskedFor(m) + MaxStalled : m \in Messages \cup {NoOptions}},
  limit <- [j \in Jobs |-> IF Accepted(j) THEN RunsAskedFor(asked[j]) + MaxStalled ELSE 0]

\* The queue keeps the promise of JobDelivery: a published message is absorbed only
\* by a pending one with its key, leaves the queue only after a run that resolved
\* or to stay among the failed, and its handler runs no more often than it was
\* asked to, plus once for each recovery, through crashes, lost locks and refused
\* reports.
ImplementsDelivery == Delivery!Spec

\* Every job that was stored completes or fails in the end, although any number of
\* processes end and locks are lost (the retry, the recovery and the report of
\* each outcome).
EveryJobSettles ==
  \A j \in Jobs : state[j] = "waiting" \/ state[j] = "delayed" \/ state[j] = "active"
                    ~> state[j] \in {"removed", "completed", "failed"}
=============================================================================
