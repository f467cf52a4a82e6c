--------------------------- MODULE JobQueueProofs ---------------------------
(***************************************************************************)
(* Safety of JobQueue for any number of jobs, processes and keys, any      *)
(* messages and any number of attempts and recoveries; and the refinement  *)
(* of JobDelivery.  IInv accounts for every run of a handler: it was       *)
(* reported as failed, lost its lock, or is the one that is under way or   *)
(* has completed the job.                                                  *)
(***************************************************************************)
EXTENDS JobQueue, FiniteSetTheorems, TLAPS

Ran(j) == state[j] \in {"active", "completed", "removed"}

\* A job's runs, and who may report the present one.
JobInv(j) ==
  /\ state[j] \in {"unused", "absorbed"} => made[j] = 0 /\ stalled[j] = 0
  /\ runs[j] = made[j] + stalled[j] + IF Ran(j) THEN 1 ELSE 0
  /\ state[j] = "failed" => runs[j] > 0
  /\ j \in Live => stalled[j] <= MaxStalled /\ (made[j] = 0 \/ made[j] < attempts[j])
  /\ Accepted(j) => attempts[j] = AttemptsOf(asked[j])
  /\ state[j] # "active" => owner[j] = "none"
  /\ owner[j] \in Workers => at[owner[j]] = j

\* What a process has in hand was started, and what it will report as done was done.
WorkerInv(w) ==
  /\ outcome[w] = "none" <=> at[w] = "none"
  /\ at[w] # "none" => runs[at[w]] > 0
  /\ outcome[w] = "resolved" => at[w] \in handled

\* The runs as each counter sees them: those under way, and those that hold the lock
\* and have only to be reported.
Running == {w \in Workers : outcome[w] = "running"}
Reporting(how) == {w \in Workers : outcome[w] = how /\ \E j \in Jobs : at[w] = j /\ owner[j] = w}
RanJobs == {j \in Jobs : Ran(j)}
Done == InState("completed") \cup InState("removed")
Units(f) == UNION {{j} \X (1..f[j]) : j \in Jobs}

FiniteInv ==
  /\ IsFiniteSet(Running) /\ IsFiniteSet(Done) /\ IsFiniteSet(RanJobs)
  /\ IsFiniteSet(Reporting("resolved")) /\ IsFiniteSet(Reporting("threw"))
  /\ IsFiniteSet(Units(made)) /\ IsFiniteSet(Units(stalled))

CountInv ==
  /\ processed + failures + Cardinality(Running)
       <= Total(made) + Total(stalled) + Cardinality(RanJobs)
  /\ Cardinality(Done) + Cardinality(Reporting("resolved")) <= processed
  /\ Total(made) + Cardinality(Reporting("threw")) <= failures

IInv ==
  /\ TypeOK /\ KeyFollowsItsJob
  /\ \A j \in Jobs : JobInv(j)
  /\ \A w \in Workers : WorkerInv(w)

-----------------------------------------------------------------------------
(* The steps of the queue, with the ways a report and a recovery may end   *)

Sent == Messages \cup {NoOptions}
FreesTheKeyOf(j) == dedup' = [k \in Keys |-> IF dedup[k] = j THEN "none" ELSE dedup[k]]

MovesTo(j, s) ==
  /\ state' = [state EXCEPT ![j] = s]
  /\ owner' = [owner EXCEPT ![j] = "none"]

Recover(j) ==
  /\ state[j] = "active" /\ owner[j] = "none" /\ stalled[j] < MaxStalled
  /\ MovesTo(j, "waiting")
  /\ stalled' = [stalled EXCEPT ![j] = @ + 1]
  /\ UNCHANGED <<attempts, key, made, dedup, at, outcome, counters, history>>

GiveUp(j) ==
  /\ state[j] = "active" /\ owner[j] = "none" /\ ~ (stalled[j] < MaxStalled)
  /\ MovesTo(j, "failed") /\ FreesTheKeyOf(j)
  /\ stalled' = [stalled EXCEPT ![j] = @ + 1]
  /\ UNCHANGED <<attempts, key, made, at, outcome, counters, history>>

Puts(w) ==
  /\ at' = [at EXCEPT ![w] = "none"]
  /\ outcome' = [outcome EXCEPT ![w] = "none"]
  /\ UNCHANGED <<counters, history>>

Refused(w) ==
  /\ outcome[w] \in {"resolved", "threw"} /\ owner[at[w]] # w
  /\ Puts(w) /\ UNCHANGED queue

Completes(w) ==
  /\ outcome[w] = "resolved" /\ owner[at[w]] = w
  /\ MovesTo(at[w], "removed") /\ FreesTheKeyOf(at[w])
  /\ Puts(w) /\ UNCHANGED <<attempts, key, made, stalled>>

Retries(w) ==
  /\ outcome[w] = "threw" /\ owner[at[w]] = w /\ made[at[w]] + 1 < attempts[at[w]]
  /\ MovesTo(at[w], "waiting")
  /\ made' = [made EXCEPT ![at[w]] = @ + 1]
  /\ Puts(w) /\ UNCHANGED <<attempts, key, stalled, dedup>>

Buries(w) ==
  /\ outcome[w] = "threw" /\ owner[at[w]] = w
  /\ MovesTo(at[w], "failed") /\ FreesTheKeyOf(at[w])
  /\ made' = [made EXCEPT ![at[w]] = @ + 1]
  /\ Puts(w) /\ UNCHANGED <<attempts, key, stalled>>

\* A step is one of these.
LEMMA Steps ==
  ASSUME [Next]_vars
  PROVE  \/ UNCHANGED vars
         \/ \E j \in Jobs : \/ \E m \in Sent : Publish(j, m)
                            \/ Promote(j) \/ LockExpires(j) \/ Recover(j) \/ GiveUp(j)
         \/ \E w \in Workers :
              \/ \E j \in Jobs : Take(w, j)
              \/ Resolves(w) \/ Throws(w) \/ Crash(w)
              \/ Refused(w) \/ Completes(w) \/ Retries(w) \/ Buries(w)
<1>1. ASSUME NEW j, StalledCheck(j) PROVE Recover(j) \/ GiveUp(j)
  <2>1. CASE stalled[j] < MaxStalled
    <3>1. BackToWaiting(j) BY <1>1, <2>1, Zenon DEF StalledCheck
    <3> QED BY <1>1, <2>1, <3>1, Zenon DEF StalledCheck, BackToWaiting, Recover, MovesTo
  <2>2. CASE ~ (stalled[j] < MaxStalled)
    <3>1. Settle(j, "failed") BY <1>1, <2>2, Zenon DEF StalledCheck
    <3>2. state' = [state EXCEPT ![j] = "failed"] BY <3>1 DEF Settle, Removed
    <3> QED BY <1>1, <2>2, <3>1, <3>2, Zenon
         DEF StalledCheck, Settle, GiveUp, MovesTo, FreesTheKeyOf
  <2> QED BY <2>1, <2>2
<1>2. ASSUME NEW w, Report(w) PROVE Refused(w) \/ Completes(w) \/ Retries(w) \/ Buries(w)
  <2>1. outcome[w] \in {"resolved", "threw"} /\ ReportOf(w, at[w]) /\ Puts(w)
    BY <1>2, Zenon DEF Report, Puts
  <2>2. CASE owner[at[w]] # w BY <2>1, <2>2 DEF ReportOf, Refused
  <2>3. CASE owner[at[w]] = w /\ outcome[w] = "resolved"
    <3>1. Settle(at[w], "completed") /\ UNCHANGED <<attempts, key, made, stalled>>
      BY <2>1, <2>3 DEF ReportOf
    <3>2. state' = [state EXCEPT ![at[w]] = "removed"] BY <3>1 DEF Settle, Removed
    <3> QED BY <2>1, <2>3, <3>1, <3>2, Zenon DEF Settle, Completes, MovesTo, FreesTheKeyOf
  <2>4. CASE owner[at[w]] = w /\ outcome[w] = "threw"
    <3>1. /\ made' = [made EXCEPT ![at[w]] = @ + 1]
          /\ IF made[at[w]] + 1 < attempts[at[w]]
             THEN BackToWaiting(at[w]) ELSE Settle(at[w], "failed")
          /\ UNCHANGED <<attempts, key, stalled>>
      BY <2>1, <2>4 DEF ReportOf
    <3>2. CASE made[at[w]] + 1 < attempts[at[w]]
      BY <2>1, <2>4, <3>1, <3>2, Zenon DEF BackToWaiting, Retries, MovesTo
    <3>3. CASE ~ (made[at[w]] + 1 < attempts[at[w]])
      <4>1. Settle(at[w], "failed") BY <3>1, <3>3, Zenon
      <4>2. state' = [state EXCEPT ![at[w]] = "failed"] BY <4>1 DEF Settle, Removed
      <4> QED BY <2>1, <2>4, <3>1, <4>1, <4>2, Zenon
           DEF Settle, Buries, MovesTo, FreesTheKeyOf
    <3> QED BY <3>2, <3>3
  <2> QED BY <2>1, <2>2, <2>3, <2>4
<1> QED BY <1>1, <1>2, Zenon DEF Next, Enqueue, Process, Sent

\* What the assumption says, fact by fact.
LEMMA Constants ==
  /\ "none" \notin Jobs
  /\ "none" \notin Workers /\ "gone" \notin Workers
  /\ "none" \notin Keys /\ Unset \notin Keys
  /\ DefaultAttempts \in Nat \ {0} /\ MaxStalled \in Nat /\ Unset \notin Nat
  /\ Messages \subseteq Message
BY JobQueueAssumption, Zenon

\* A message's options, and what the adapter makes of them.
LEMMA Options ==
  ASSUME NEW m \in Sent
  PROVE  /\ AttemptsOf(m) \in Nat
         /\ DeduplicationOf(m) \in Keys \cup {"none"}
         /\ \A k \in Keys : DeduplicationOf(m) = k <=> m.deduplicationKey = k
         /\ RunsAskedFor(m) \in Nat \ {0} /\ AttemptsOf(m) <= RunsAskedFor(m)
<1>1. m \in Message
  <2>1. NoOptions \in Message BY DEF NoOptions, Message
  <2>2. Messages \subseteq Message BY Constants
  <2> QED BY <2>1, <2>2, Zenon DEF Sent
<1>2. m.attempts \in Nat \cup {Unset} BY <1>1 DEF Message
<1>3. /\ DefaultAttempts \in Nat \ {0} /\ Unset \notin Nat /\ Unset # 0
  BY Constants
<1>4. /\ m.deduplicationKey \in Keys \cup {Unset, ""}
      /\ "none" \notin Keys /\ "" \notin Keys /\ Unset \notin Keys
  BY <1>1, JobQueueAssumption DEF Message
<1>5. AttemptsOf(m) \in Nat BY <1>2, <1>3 DEF AttemptsOf
<1>6. RunsAskedFor(m) \in Nat \ {0} /\ AttemptsOf(m) <= RunsAskedFor(m)
  <2>1. CASE m.attempts = Unset /\ m.attempts # 0
    <3>1. RunsAskedFor(m) = DefaultAttempts /\ AttemptsOf(m) = DefaultAttempts
      BY <2>1 DEF AttemptsOf, RunsAskedFor
    <3> QED BY <1>2, <1>3, <2>1, <3>1
  <2>2. CASE m.attempts # Unset /\ m.attempts = 0
    <3>1. RunsAskedFor(m) = 1 /\ AttemptsOf(m) = 0
      BY <2>2 DEF AttemptsOf, RunsAskedFor
    <3> QED BY <1>2, <1>3, <2>2, <3>1
  <2>3. CASE m.attempts # Unset /\ m.attempts # 0
    <3>1. RunsAskedFor(m) = m.attempts /\ AttemptsOf(m) = m.attempts
      BY <2>3 DEF AttemptsOf, RunsAskedFor
    <3> QED BY <1>2, <1>3, <2>3, <3>1
  <2> QED BY <1>3, <2>1, <2>2, <2>3
<1>7. /\ DeduplicationOf(m) \in Keys \cup {"none"}
      /\ \A k \in Keys : DeduplicationOf(m) = k <=> m.deduplicationKey = k
  BY <1>4 DEF DeduplicationOf
<1> QED BY <1>5, <1>6, <1>7

-----------------------------------------------------------------------------
(* The invariant holds at first                                            *)

LEMMA InitInv == Init => IInv
<1> SUFFICES ASSUME Init PROVE IInv OBVIOUS
<1>1. TypeOK
  <2>1. 0 \in Nat /\ 0 \in 0..MaxStalled + 1 BY Constants
  <2> QED BY <2>1, Zenon DEF Init, TypeOK
<1>2. KeyFollowsItsJob BY Constants DEF Init, KeyFollowsItsJob, Live
<1>3. ASSUME NEW j \in Jobs PROVE JobInv(j)
  <2>1. /\ state[j] = "unused" /\ made[j] = 0 /\ stalled[j] = 0
        /\ owner[j] = "none" /\ runs[j] = 0
    BY <1>3, Zenon DEF Init
  <2>2. ~Ran(j) /\ j \notin Live /\ ~Accepted(j) BY <2>1 DEF Ran, Live, Accepted
  <2> QED BY <2>1, <2>2, Constants DEF JobInv
<1>4. ASSUME NEW w \in Workers PROVE WorkerInv(w)
  BY Constants DEF Init, WorkerInv
<1> QED BY <1>1, <1>2, <1>3, <1>4 DEF IInv

-----------------------------------------------------------------------------
(* A step preserves the types and the bound on recoveries                  *)

\* A process that has an outcome has a job in hand.
LEMMA InHand ==
  ASSUME IInv, NEW w \in Workers, outcome[w] # "none"
  PROVE  at[w] \in Jobs
BY Zenon DEF IInv, TypeOK, WorkerInv

LEMMA TypeStep ==
  ASSUME IInv, [Next]_vars
  PROVE  TypeOK'
<1>1. TypeOK BY DEF IInv
<1>2. CASE UNCHANGED vars
  BY <1>1, <1>2 DEF TypeOK, vars, queue, counters, history
<1>3. ASSUME NEW j \in Jobs, NEW m \in Sent, Publish(j, m) PROVE TypeOK'
  <2>1. /\ AttemptsOf(m) \in Nat /\ DeduplicationOf(m) \in Keys \cup {"none"}
        /\ m \in Messages \cup {NoOptions}
    BY Options DEF Sent
  <2>2. CASE DeduplicationOf(m) # "none" /\ dedup[DeduplicationOf(m)] # "none"
    <3>1. /\ state' = [state EXCEPT ![j] = "absorbed"]
          /\ asked' = [asked EXCEPT ![j] = m]
          /\ UNCHANGED <<attempts, key, dedup>>
          /\ UNCHANGED <<made, stalled, owner, at, outcome, counters, runs, handled>>
      BY <1>3, <2>2, Zenon DEF Publish
    <3> QED BY <1>1, <2>1, <3>1 DEF TypeOK, counters
  <2>3. CASE ~ (DeduplicationOf(m) # "none" /\ dedup[DeduplicationOf(m)] # "none")
    <3>1. /\ state' = [state EXCEPT ![j] = IF m.delayed THEN "delayed" ELSE "waiting"]
          /\ asked' = [asked EXCEPT ![j] = m]
          /\ attempts' = [attempts EXCEPT ![j] = AttemptsOf(m)]
          /\ key' = [key EXCEPT ![j] = DeduplicationOf(m)]
          /\ dedup' = [x \in Keys |-> IF x = DeduplicationOf(m) THEN j ELSE dedup[x]]
          /\ UNCHANGED <<made, stalled, owner, at, outcome, counters, runs, handled>>
      BY <1>3, <2>3, Zenon DEF Publish
    <3> QED BY <1>1, <2>1, <3>1 DEF TypeOK, counters
  <2> QED BY <2>2, <2>3
<1>4. ASSUME NEW j \in Jobs, Promote(j) PROVE TypeOK'
  BY <1>1, <1>4 DEF Promote, TypeOK, counters, history
<1>5. ASSUME NEW j \in Jobs, LockExpires(j) PROVE TypeOK'
  BY <1>1, <1>5 DEF LockExpires, TypeOK, counters, history
<1>6. ASSUME NEW j \in Jobs, Recover(j) PROVE TypeOK'
  BY <1>1, <1>6, Constants DEF Recover, MovesTo, TypeOK, counters, history
<1>7. ASSUME NEW j \in Jobs, GiveUp(j) PROVE TypeOK'
  <2>1. j \in Live BY <1>7 DEF GiveUp, Live
  <2>2. stalled[j] <= MaxStalled BY <2>1 DEF IInv, JobInv
  <2> QED BY <1>1, <1>7, <2>2, Constants
       DEF GiveUp, MovesTo, FreesTheKeyOf, TypeOK, counters, history
<1>8. ASSUME NEW w \in Workers, NEW j \in Jobs, Take(w, j) PROVE TypeOK'
  BY <1>1, <1>8 DEF Take, TypeOK, counters
<1>9. ASSUME NEW w \in Workers, Resolves(w) PROVE TypeOK'
  <2>1. at[w] \in Jobs BY <1>9, InHand DEF Resolves
  <2> QED BY <1>1, <1>9, <2>1 DEF Resolves, RecordProcessed, TypeOK, queue
<1>10. ASSUME NEW w \in Workers, Throws(w) PROVE TypeOK'
  BY <1>1, <1>10 DEF Throws, RecordFailed, TypeOK, queue, history
<1>11. ASSUME NEW w \in Workers, Crash(w) PROVE TypeOK'
  BY <1>1, <1>11 DEF Crash, TypeOK, counters, history
<1>12. ASSUME NEW w \in Workers, Refused(w) PROVE TypeOK'
  BY <1>1, <1>12 DEF Refused, Puts, TypeOK, queue, counters, history
<1>13. ASSUME NEW w \in Workers, Completes(w) PROVE TypeOK'
  BY <1>1, <1>13
  DEF Completes, MovesTo, FreesTheKeyOf, Puts, TypeOK, counters, history
<1>14. ASSUME NEW w \in Workers, Retries(w) PROVE TypeOK'
  <2>1. at[w] \in Jobs BY <1>14, InHand DEF Retries
  <2> QED BY <1>1, <1>14, <2>1 DEF Retries, MovesTo, Puts, TypeOK, counters, history
<1>15. ASSUME NEW w \in Workers, Buries(w) PROVE TypeOK'
  <2>1. at[w] \in Jobs BY <1>15, InHand DEF Buries
  <2> QED BY <1>1, <1>15, <2>1
       DEF Buries, MovesTo, FreesTheKeyOf, Puts, TypeOK,
           counters, history
<1> QED BY Steps, <1>2, <1>3, <1>4, <1>5, <1>6, <1>7, <1>8, <1>9, <1>10, <1>11,
           <1>12, <1>13, <1>14, <1>15, Zenon

-----------------------------------------------------------------------------
(* A step preserves the link between keys and jobs                         *)

\* The holder of a lock has the job in hand, and the job is active.
LEMMA Holder ==
  ASSUME IInv, NEW w \in Workers, NEW j \in Jobs, owner[j] = w
  PROVE  at[w] = j /\ state[j] = "active"
<1>1. JobInv(j) BY DEF IInv
<1> QED BY <1>1, Constants DEF JobInv

\* A job that leaves the queue gives its key back, and no other key moves.
LEMMA KeyFreed ==
  ASSUME IInv, NEW j \in Jobs, FreesTheKeyOf(j),
         Live' = Live \ {j}, asked' = asked
  PROVE  KeyFollowsItsJob'
<1>1. KeyFollowsItsJob BY DEF IInv
<1> SUFFICES ASSUME NEW i \in Jobs, NEW k \in Keys
             PROVE  dedup'[k] = i <=> (i \in Live' /\ asked'[i].deduplicationKey = k)
  BY DEF KeyFollowsItsJob
<1>2. dedup[k] = i <=> (i \in Live /\ asked[i].deduplicationKey = k)
  BY <1>1 DEF KeyFollowsItsJob
<1>3. dedup'[k] = IF dedup[k] = j THEN "none" ELSE dedup[k] BY DEF FreesTheKeyOf
<1> QED BY <1>2, <1>3, Constants

LEMMA KeyStep ==
  ASSUME IInv, [Next]_vars
  PROVE  KeyFollowsItsJob'
<1>1. TypeOK /\ KeyFollowsItsJob BY DEF IInv
<1>2. ASSUME Live' = Live, dedup' = dedup, asked' = asked PROVE KeyFollowsItsJob'
  BY <1>1, <1>2 DEF KeyFollowsItsJob
<1>3. CASE UNCHANGED vars
  <2>1. Live' = Live /\ dedup' = dedup /\ asked' = asked
    BY <1>3 DEF vars, queue, history, Live
  <2> QED BY <1>2, <2>1
<1>4. ASSUME NEW j \in Jobs, NEW m \in Sent, Publish(j, m) PROVE KeyFollowsItsJob'
  <2> SUFFICES ASSUME NEW i \in Jobs, NEW k \in Keys
               PROVE  dedup'[k] = i <=> (i \in Live' /\ asked'[i].deduplicationKey = k)
    BY DEF KeyFollowsItsJob
  <2>1. /\ state[j] = "unused" /\ asked' = [asked EXCEPT ![j] = m]
        /\ dedup[k] = i <=> (i \in Live /\ asked[i].deduplicationKey = k)
        /\ dedup[k] = j <=> (j \in Live /\ asked[j].deduplicationKey = k)
    BY <1>1, <1>4, Zenon DEF Publish, KeyFollowsItsJob
  <2>2. j \notin Live BY <2>1 DEF Live
  <2>3. asked'[j] = m /\ (i # j => asked'[i] = asked[i]) BY <1>1, <2>1 DEF TypeOK
  <2>4. DeduplicationOf(m) = k <=> m.deduplicationKey = k BY Options
  <2>5. CASE DeduplicationOf(m) # "none" /\ dedup[DeduplicationOf(m)] # "none"
    <3>1. state' = [state EXCEPT ![j] = "absorbed"] /\ dedup' = dedup
      BY <1>4, <2>5, Zenon DEF Publish
    <3>2. Live' = Live BY <1>1, <2>1, <3>1 DEF TypeOK, Live
    <3> QED BY <2>1, <2>2, <2>3, <3>1, <3>2
  <2>6. CASE ~ (DeduplicationOf(m) # "none" /\ dedup[DeduplicationOf(m)] # "none")
    <3>1. /\ state' = [state EXCEPT ![j] = IF m.delayed THEN "delayed" ELSE "waiting"]
          /\ dedup' = [x \in Keys |-> IF x = DeduplicationOf(m) THEN j ELSE dedup[x]]
      BY <1>4, <2>6, Zenon DEF Publish
    <3>2. Live' = Live \cup {j} BY <1>1, <2>1, <3>1 DEF TypeOK, Live
    <3>3. CASE DeduplicationOf(m) = k
      <4>1. dedup[k] = "none" /\ dedup'[k] = j BY <2>6, <3>1, <3>3, Constants
      <4>2. i \in Live => asked[i].deduplicationKey # k BY <2>1, <4>1, Constants
      <4> QED BY <2>2, <2>3, <2>4, <3>2, <3>3, <4>1, <4>2
    <3>4. CASE DeduplicationOf(m) # k
      <4>1. dedup'[k] = dedup[k] BY <3>1, <3>4
      <4> QED BY <2>1, <2>2, <2>3, <2>4, <3>2, <3>4, <4>1
    <3> QED BY <3>3, <3>4
  <2> QED BY <2>5, <2>6
<1>5. ASSUME NEW j \in Jobs, Promote(j) PROVE KeyFollowsItsJob'
  <2>1. Live' = Live BY <1>1, <1>5 DEF Promote, TypeOK, Live
  <2> QED BY <1>2, <1>5, <2>1 DEF Promote, history
<1>6. ASSUME NEW j \in Jobs, LockExpires(j) PROVE KeyFollowsItsJob'
  <2>1. Live' = Live BY <1>6 DEF LockExpires, Live
  <2> QED BY <1>2, <1>6, <2>1 DEF LockExpires, history
<1>7. ASSUME NEW j \in Jobs, Recover(j) PROVE KeyFollowsItsJob'
  <2>1. Live' = Live BY <1>1, <1>7 DEF Recover, MovesTo, TypeOK, Live
  <2> QED BY <1>2, <1>7, <2>1 DEF Recover, history
<1>8. ASSUME NEW j \in Jobs, GiveUp(j) PROVE KeyFollowsItsJob'
  <2>1. Live' = Live \ {j} BY <1>1, <1>8 DEF GiveUp, MovesTo, TypeOK, Live
  <2> QED BY <1>8, <2>1, KeyFreed DEF GiveUp, history
<1>9. ASSUME NEW w \in Workers, NEW j \in Jobs, Take(w, j) PROVE KeyFollowsItsJob'
  <2>1. Live' = Live BY <1>1, <1>9 DEF Take, TypeOK, Live
  <2> QED BY <1>2, <1>9, <2>1 DEF Take
<1>10. ASSUME NEW w \in Workers, Resolves(w) \/ Throws(w) \/ Crash(w) \/ Refused(w)
       PROVE  KeyFollowsItsJob'
  <2>1. Live' = Live /\ dedup' = dedup /\ asked' = asked
    BY <1>10 DEF Resolves, Throws, Crash, Refused, Puts, queue, history, Live
  <2> QED BY <1>2, <2>1
<1>11. ASSUME NEW w \in Workers, Completes(w) PROVE KeyFollowsItsJob'
  <2>1. at[w] \in Jobs /\ state[at[w]] = "active"
    BY <1>11, InHand, Holder DEF Completes
  <2>2. Live' = Live \ {at[w]} BY <1>1, <1>11, <2>1 DEF Completes, MovesTo, TypeOK, Live
  <2> QED BY <1>11, <2>1, <2>2, KeyFreed DEF Completes, Puts, history
<1>12. ASSUME NEW w \in Workers, Retries(w) PROVE KeyFollowsItsJob'
  <2>1. at[w] \in Jobs /\ state[at[w]] = "active" BY <1>12, InHand, Holder DEF Retries
  <2>2. Live' = Live BY <1>1, <1>12, <2>1 DEF Retries, MovesTo, TypeOK, Live
  <2> QED BY <1>2, <1>12, <2>2 DEF Retries, Puts, history
<1>13. ASSUME NEW w \in Workers, Buries(w) PROVE KeyFollowsItsJob'
  <2>1. at[w] \in Jobs /\ state[at[w]] = "active" BY <1>13, InHand, Holder DEF Buries
  <2>2. Live' = Live \ {at[w]} BY <1>1, <1>13, <2>1 DEF Buries, MovesTo, TypeOK, Live
  <2> QED BY <1>13, <2>1, <2>2, KeyFreed DEF Buries, Puts, history
<1> QED BY Steps, <1>3, <1>4, <1>5, <1>6, <1>7, <1>8, <1>9, <1>10, <1>11, <1>12,
           <1>13, Zenon

-----------------------------------------------------------------------------
(* A step accounts for its runs                                            *)

\* A job that keeps its place, its counts and the hand its lock is in.
LEMMA JobUntouched ==
  ASSUME NEW i \in Jobs, JobInv(i),
         state'[i] = state[i], attempts'[i] = attempts[i], asked'[i] = asked[i],
         made'[i] = made[i], stalled'[i] = stalled[i], runs'[i] = runs[i],
         owner'[i] \in Workers => owner'[i] = owner[i] /\ at'[owner[i]] = at[owner[i]],
         state[i] # "active" => owner'[i] = "none"
  PROVE  JobInv(i)'
<1>1. /\ Ran(i)' = Ran(i) /\ (i \in Live)' = (i \in Live) /\ Accepted(i)' = Accepted(i)
      /\ AttemptsOf(asked'[i]) = AttemptsOf(asked[i])
  BY DEF Ran, Live, Accepted
<1> QED BY <1>1 DEF JobInv

LEMMA JobStep ==
  ASSUME IInv, [Next]_vars, NEW i \in Jobs
  PROVE  JobInv(i)'
<1>1. TypeOK /\ JobInv(i) BY DEF IInv
<1>2. /\ made[i] \in Nat /\ stalled[i] \in Nat /\ runs[i] \in Nat /\ attempts[i] \in Nat
      /\ MaxStalled \in Nat /\ "none" \notin Workers
  BY <1>1, Constants DEF TypeOK
<1>3. CASE UNCHANGED vars
  BY <1>1, <1>3, JobUntouched DEF vars, queue, history, JobInv
<1>4. ASSUME NEW j \in Jobs, NEW m \in Sent, Publish(j, m) PROVE JobInv(i)'
  <2>1. /\ state[j] = "unused" /\ asked' = [asked EXCEPT ![j] = m]
        /\ UNCHANGED <<made, stalled, owner, at, runs>>
    BY <1>4, Zenon DEF Publish, counters
  <2>2. asked'[j] = m /\ (i # j => asked'[i] = asked[i]) BY <1>1, <2>1 DEF TypeOK
  <2>3. i = j => /\ made[i] = 0 /\ stalled[i] = 0 /\ runs[i] = 0
                 /\ owner[i] = "none"
    BY <1>1, <1>2, <2>1 DEF JobInv, Ran
  <2>4. CASE DeduplicationOf(m) # "none" /\ dedup[DeduplicationOf(m)] # "none"
    <3>1. state' = [state EXCEPT ![j] = "absorbed"] /\ attempts' = attempts
      BY <1>4, <2>4, Zenon DEF Publish
    <3>2. CASE i # j
      <4>1. state'[i] = state[i] BY <1>1, <3>1, <3>2 DEF TypeOK
      <4> QED BY <1>1, <2>1, <2>2, <3>1, <3>2, <4>1, JobUntouched DEF JobInv
    <3>3. CASE i = j
      <4>1. state'[i] = "absorbed" BY <1>1, <3>1, <3>3 DEF TypeOK
      <4>2. ~Ran(i)' /\ ~(i \in Live)' /\ ~Accepted(i)'
        BY <4>1 DEF Ran, Live, Accepted
      <4> QED BY <1>2, <2>1, <2>3, <3>3, <4>1, <4>2 DEF JobInv
    <3> QED BY <3>2, <3>3
  <2>5. CASE ~ (DeduplicationOf(m) # "none" /\ dedup[DeduplicationOf(m)] # "none")
    <3>1. /\ state' = [state EXCEPT ![j] = IF m.delayed THEN "delayed" ELSE "waiting"]
          /\ attempts' = [attempts EXCEPT ![j] = AttemptsOf(m)]
      BY <1>4, <2>5, Zenon DEF Publish
    <3>2. CASE i # j
      <4>1. state'[i] = state[i] /\ attempts'[i] = attempts[i]
        BY <1>1, <3>1, <3>2 DEF TypeOK
      <4> QED BY <1>1, <2>1, <2>2, <3>2, <4>1, JobUntouched DEF JobInv
    <3>3. CASE i = j
      <4>1. state'[i] \in {"delayed", "waiting"} /\ attempts'[i] = AttemptsOf(m)
        BY <1>1, <3>1, <3>3 DEF TypeOK
      <4>2. ~Ran(i)' BY <4>1 DEF Ran
      <4> QED BY <1>2, <2>1, <2>2, <2>3, <3>3, <4>1, <4>2 DEF JobInv
    <3> QED BY <3>2, <3>3
  <2> QED BY <2>4, <2>5
<1>5. ASSUME NEW j \in Jobs, Promote(j) PROVE JobInv(i)'
  <2>1. /\ state[j] = "delayed" /\ state' = [state EXCEPT ![j] = "waiting"]
        /\ UNCHANGED <<attempts, made, stalled, owner, at, asked, runs>>
    BY <1>5 DEF Promote, history
  <2>2. CASE i # j
    <3>1. state'[i] = state[i] BY <1>1, <2>1, <2>2 DEF TypeOK
    <3> QED BY <1>1, <2>1, <3>1, JobUntouched DEF JobInv
  <2>3. CASE i = j
    <3>1. state[i] = "delayed" /\ state'[i] = "waiting" BY <1>1, <2>1, <2>3 DEF TypeOK
    <3>2. /\ ~Ran(i) /\ ~Ran(i)' /\ Accepted(i) /\ i \in Live
      BY <3>1 DEF Ran, Accepted, Live
    <3> QED BY <1>1, <1>2, <2>1, <3>1, <3>2 DEF JobInv
  <2> QED BY <2>2, <2>3
<1>6. ASSUME NEW j \in Jobs, LockExpires(j) PROVE JobInv(i)'
  <2>1. /\ owner' = [owner EXCEPT ![j] = "none"]
        /\ UNCHANGED <<state, attempts, made, stalled, at, asked, runs>>
    BY <1>6 DEF LockExpires, history
  <2>2. owner'[i] = IF i = j THEN "none" ELSE owner[i] BY <1>1, <2>1 DEF TypeOK
  <2> QED BY <1>1, <1>2, <2>1, <2>2, JobUntouched DEF JobInv
<1>7. ASSUME NEW j \in Jobs, state[j] = "active", NEW s \in {"waiting", "failed"},
             MovesTo(j, s), UNCHANGED <<attempts, asked, runs>>,
             \A w \in Workers : owner[i] = w /\ i # j => at'[w] = at[w],
             \/ /\ stalled' = [stalled EXCEPT ![j] = @ + 1] /\ made' = made
                /\ s = "waiting" => stalled[j] < MaxStalled
             \/ /\ made' = [made EXCEPT ![j] = @ + 1] /\ stalled' = stalled
                /\ s = "waiting" => made[j] + 1 < attempts[j]
      PROVE  JobInv(i)'
  <2>1. CASE i # j
    <3>1. state'[i] = state[i] /\ owner'[i] = owner[i]
      BY <1>1, <1>7, <2>1 DEF MovesTo, TypeOK
    <3>2. made'[i] = made[i] /\ stalled'[i] = stalled[i] BY <1>1, <1>7, <2>1 DEF TypeOK
    <3> QED BY <1>1, <1>7, <2>1, <3>1, <3>2, JobUntouched DEF JobInv
  <2>2. CASE i = j
    <3>1. state'[i] = s /\ owner'[i] = "none" BY <1>1, <1>7, <2>2 DEF MovesTo, TypeOK
    <3>2. \/ /\ stalled'[i] = stalled[i] + 1 /\ made'[i] = made[i]
             /\ s = "waiting" => stalled[i] < MaxStalled
          \/ /\ made'[i] = made[i] + 1 /\ stalled'[i] = stalled[i]
             /\ s = "waiting" => made[i] + 1 < attempts[i]
      BY <1>1, <1>7, <2>2 DEF TypeOK
    <3>3. Ran(i) /\ Accepted(i) /\ i \in Live BY <1>7, <2>2 DEF Ran, Accepted, Live
    <3>4. ~Ran(i)' /\ ((i \in Live)' => s = "waiting") BY <3>1 DEF Ran, Live
    <3> QED BY <1>1, <1>2, <1>7, <3>1, <3>2, <3>3, <3>4 DEF JobInv
  <2> QED BY <2>1, <2>2
<1>8. ASSUME NEW j \in Jobs, Recover(j) \/ GiveUp(j) PROVE JobInv(i)'
  <2>1. CASE Recover(j) BY <1>7, <2>1 DEF Recover, history
  <2>2. CASE GiveUp(j) BY <1>7, <2>2 DEF GiveUp, history
  <2> QED BY <1>8, <2>1, <2>2
<1>9. ASSUME NEW w \in Workers, NEW j \in Jobs, Take(w, j) PROVE JobInv(i)'
  <2>1. /\ at[w] = "none" /\ state[j] = "waiting"
        /\ state' = [state EXCEPT ![j] = "active"] /\ owner' = [owner EXCEPT ![j] = w]
        /\ at' = [at EXCEPT ![w] = j] /\ runs' = [runs EXCEPT ![j] = @ + 1]
        /\ UNCHANGED <<attempts, made, stalled, asked>>
    BY <1>9 DEF Take
  <2>2. CASE i # j
    <3>1. state'[i] = state[i] /\ owner'[i] = owner[i] /\ runs'[i] = runs[i]
      BY <1>1, <2>1, <2>2 DEF TypeOK
    <3>2. owner[i] # w BY <1>1, <2>1, Constants DEF JobInv
    <3>3. owner[i] \in Workers => at'[owner[i]] = at[owner[i]]
      BY <1>1, <2>1, <3>2 DEF TypeOK
    <3> QED BY <1>1, <2>1, <3>1, <3>3, JobUntouched DEF JobInv
  <2>3. CASE i = j
    <3>1. /\ state[i] = "waiting" /\ state'[i] = "active" /\ owner'[i] = w
          /\ at'[w] = i /\ runs'[i] = runs[i] + 1
      BY <1>1, <2>1, <2>3 DEF TypeOK
    <3>2. ~Ran(i) /\ Ran(i)' /\ Accepted(i) /\ i \in Live
      BY <3>1 DEF Ran, Accepted, Live
    <3> QED BY <1>1, <1>2, <2>1, <3>1, <3>2 DEF JobInv
  <2> QED BY <2>2, <2>3
<1>10. ASSUME NEW w \in Workers, Resolves(w) \/ Throws(w) PROVE JobInv(i)'
  BY <1>1, <1>10, JobUntouched DEF Resolves, Throws, queue, history, JobInv
<1>11. ASSUME NEW w \in Workers, Crash(w) PROVE JobInv(i)'
  <2>1. /\ owner' = [j \in Jobs |-> IF owner[j] = w THEN "gone" ELSE owner[j]]
        /\ at' = [at EXCEPT ![w] = "none"]
        /\ UNCHANGED <<state, attempts, made, stalled, asked, runs>>
    BY <1>11 DEF Crash, history
  <2>2. owner'[i] = IF owner[i] = w THEN "gone" ELSE owner[i] BY <2>1
  <2>3. owner'[i] \in Workers => owner'[i] = owner[i] /\ owner[i] # w BY <2>2, Constants
  <2>4. state[i] # "active" => owner'[i] = "none" BY <1>1, <1>2, <2>2 DEF JobInv
  <2>5. owner[i] \in Workers /\ owner[i] # w => at'[owner[i]] = at[owner[i]]
    BY <1>1, <2>1 DEF TypeOK
  <2> QED BY <1>1, <2>1, <2>3, <2>4, <2>5, JobUntouched
<1>12. ASSUME NEW w \in Workers, Refused(w) PROVE JobInv(i)'
  <2>1. /\ owner[at[w]] # w /\ at' = [at EXCEPT ![w] = "none"]
        /\ UNCHANGED <<state, attempts, made, stalled, owner, asked, runs>>
    BY <1>12 DEF Refused, Puts, queue, history
  <2>2. owner[i] # w BY <2>1, Holder
  <2>3. owner[i] \in Workers => at'[owner[i]] = at[owner[i]] BY <1>1, <2>1, <2>2 DEF TypeOK
  <2> QED BY <1>1, <2>1, <2>3, JobUntouched DEF JobInv
<1>13. ASSUME NEW w \in Workers, Puts(w), at[w] \in Jobs,
              NEW v \in Workers, owner[i] = v, i # at[w]
       PROVE  at'[v] = at[v]
  <2>1. at[v] = i BY <1>13, Holder
  <2> QED BY <1>1, <1>13, <2>1 DEF Puts, TypeOK
<1>14. ASSUME NEW w \in Workers, Completes(w) PROVE JobInv(i)'
  <2>1. at[w] \in Jobs /\ state[at[w]] = "active"
    BY <1>14, InHand, Holder DEF Completes
  <2>2. /\ MovesTo(at[w], "removed") /\ Puts(w)
        /\ UNCHANGED <<attempts, made, stalled, asked, runs>>
    BY <1>14 DEF Completes, Puts, history
  <2>3. CASE i # at[w]
    <3>1. state'[i] = state[i] /\ owner'[i] = owner[i]
      BY <1>1, <2>2, <2>3 DEF MovesTo, TypeOK
    <3> QED BY <1>1, <1>13, <2>1, <2>2, <2>3, <3>1, JobUntouched DEF JobInv
  <2>4. CASE i = at[w]
    <3>1. state'[i] = "removed" /\ owner'[i] = "none"
      BY <1>1, <2>1, <2>2, <2>4 DEF MovesTo, TypeOK
    <3>2. Ran(i) /\ Accepted(i) /\ Ran(i)' /\ ~(i \in Live)'
      BY <2>1, <2>4, <3>1 DEF Ran, Accepted, Live
    <3> QED BY <1>1, <1>2, <2>2, <3>1, <3>2 DEF JobInv
  <2> QED BY <2>3, <2>4
<1>15. ASSUME NEW w \in Workers, Retries(w) \/ Buries(w) PROVE JobInv(i)'
  <2>1. at[w] \in Jobs /\ state[at[w]] = "active"
    BY <1>15, InHand, Holder DEF Retries, Buries
  <2>2. /\ Puts(w) /\ UNCHANGED <<attempts, stalled, asked, runs>>
        /\ made' = [made EXCEPT ![at[w]] = @ + 1]
    BY <1>15 DEF Retries, Buries, Puts, history
  <2>3. \A v \in Workers : owner[i] = v /\ i # at[w] => at'[v] = at[v]
    BY <1>13, <2>1, <2>2
  <2>4. CASE Retries(w) BY <1>7, <2>1, <2>2, <2>3, <2>4 DEF Retries
  <2>5. CASE Buries(w) BY <1>7, <2>1, <2>2, <2>3, <2>5 DEF Buries
  <2> QED BY <1>15, <2>4, <2>5
<1> QED BY Steps, <1>3, <1>4, <1>5, <1>6, <1>8, <1>9, <1>10, <1>11, <1>12,
           <1>14, <1>15, Zenon

-----------------------------------------------------------------------------
(* A step keeps what a process has in hand                                 *)

LEMMA WorkerStep ==
  ASSUME IInv, [Next]_vars, NEW v \in Workers
  PROVE  WorkerInv(v)'
<1>1. TypeOK /\ WorkerInv(v) BY DEF IInv
<1>2. at[v] # "none" => at[v] \in Jobs /\ runs[at[v]] \in Nat BY <1>1 DEF TypeOK
<1>3. ASSUME at'[v] = at[v], outcome'[v] = outcome[v], handled' = handled,
             at[v] # "none" => runs'[at[v]] >= runs[at[v]],
             at[v] # "none" => runs'[at[v]] \in Nat
      PROVE  WorkerInv(v)'
  BY <1>1, <1>2, <1>3 DEF WorkerInv
<1>4. ASSUME at' = at, outcome' = outcome, handled' = handled, runs' = runs
      PROVE  WorkerInv(v)'
  BY <1>2, <1>3, <1>4
<1>5. CASE UNCHANGED vars BY <1>4, <1>5 DEF vars, history
<1>6. ASSUME NEW j \in Jobs,
             \/ \E m \in Sent : Publish(j, m)
             \/ Promote(j) \/ LockExpires(j) \/ Recover(j) \/ GiveUp(j)
      PROVE  WorkerInv(v)'
  <2>1. at' = at /\ outcome' = outcome /\ handled' = handled /\ runs' = runs
    BY <1>6, Zenon DEF Publish, Promote, LockExpires, Recover, GiveUp, history
  <2> QED BY <1>4, <2>1
<1>7. ASSUME NEW w \in Workers, NEW j \in Jobs, Take(w, j) PROVE WorkerInv(v)'
  <2>1. /\ at' = [at EXCEPT ![w] = j] /\ outcome' = [outcome EXCEPT ![w] = "running"]
        /\ runs' = [runs EXCEPT ![j] = @ + 1] /\ handled' = handled
    BY <1>7 DEF Take
  <2>2. runs[j] \in Nat /\ j # "none" BY <1>1, Constants DEF TypeOK
  <2>3. runs'[j] = runs[j] + 1 BY <1>1, <2>1 DEF TypeOK
  <2>4. CASE v = w
    <3>1. at'[v] = j /\ outcome'[v] = "running" BY <1>1, <2>1, <2>4 DEF TypeOK
    <3> QED BY <2>2, <2>3, <3>1 DEF WorkerInv
  <2>5. CASE v # w
    <3>1. at'[v] = at[v] /\ outcome'[v] = outcome[v] BY <1>1, <2>1, <2>5 DEF TypeOK
    <3>2. ASSUME at[v] # "none" PROVE runs'[at[v]] >= runs[at[v]] /\ runs'[at[v]] \in Nat
      <4>1. CASE at[v] = j BY <2>2, <2>3, <4>1
      <4>2. CASE at[v] # j
        <5>1. runs'[at[v]] = runs[at[v]] BY <1>1, <1>2, <2>1, <3>2, <4>2 DEF TypeOK
        <5> QED BY <1>2, <3>2, <5>1
      <4> QED BY <4>1, <4>2
    <3> QED BY <1>3, <2>1, <3>1, <3>2
  <2> QED BY <2>4, <2>5
<1>8. ASSUME NEW w \in Workers, Resolves(w) PROVE WorkerInv(v)'
  <2>1. /\ outcome[w] = "running" /\ outcome' = [outcome EXCEPT ![w] = "resolved"]
        /\ handled' = handled \cup {at[w]} /\ at' = at /\ runs' = runs
    BY <1>8 DEF Resolves
  <2>2. outcome'[v] = IF v = w THEN "resolved" ELSE outcome[v] BY <1>1, <2>1 DEF TypeOK
  <2> QED BY <1>1, <2>1, <2>2 DEF WorkerInv
<1>9. ASSUME NEW w \in Workers, Throws(w) PROVE WorkerInv(v)'
  <2>1. /\ outcome[w] = "running" /\ outcome' = [outcome EXCEPT ![w] = "threw"]
        /\ handled' = handled /\ at' = at /\ runs' = runs
    BY <1>9 DEF Throws, history
  <2>2. outcome'[v] = IF v = w THEN "threw" ELSE outcome[v] BY <1>1, <2>1 DEF TypeOK
  <2> QED BY <1>1, <2>1, <2>2 DEF WorkerInv
<1>10. ASSUME NEW w \in Workers,
              Crash(w) \/ Refused(w) \/ Completes(w) \/ Retries(w) \/ Buries(w)
       PROVE  WorkerInv(v)'
  <2>1. /\ at' = [at EXCEPT ![w] = "none"] /\ outcome' = [outcome EXCEPT ![w] = "none"]
        /\ handled' = handled /\ runs' = runs
    BY <1>10, Zenon DEF Crash, Refused, Completes, Retries, Buries, Puts, history
  <2>2. /\ at'[v] = IF v = w THEN "none" ELSE at[v]
        /\ outcome'[v] = IF v = w THEN "none" ELSE outcome[v]
    BY <1>1, <2>1 DEF TypeOK
  <2> QED BY <1>1, <2>1, <2>2 DEF WorkerInv
<1> QED BY Steps, <1>5, <1>6, <1>7, <1>8, <1>9, <1>10, Zenon

-----------------------------------------------------------------------------
(* The theorems                                                            *)

LEMMA Inductive == IInv /\ [Next]_vars => IInv'
<1> SUFFICES ASSUME IInv, [Next]_vars PROVE IInv' OBVIOUS
<1>1. TypeOK' BY TypeStep
<1>2. KeyFollowsItsJob' BY KeyStep
<1>3. ASSUME NEW j \in Jobs PROVE JobInv(j)' BY JobStep
<1>4. ASSUME NEW w \in Workers PROVE WorkerInv(w)' BY WorkerStep
<1> QED BY <1>1, <1>2, <1>3, <1>4 DEF IInv

LEMMA AlwaysIInv == Spec => []IInv
BY InitInv, Inductive, PTL DEF Spec

\* The queue and the processes keep their types, and no job is recovered more often
\* than once beyond maxStalledCount.
THEOREM TypeCorrect == Spec => []TypeOK
<1>1. IInv => TypeOK BY DEF IInv
<1> QED BY AlwaysIInv, <1>1, PTL

\* A deduplication key belongs to exactly the live job that was published with it,
\* whatever was retried, recovered, refused or given up in between.
THEOREM KeyFollows == Spec => []KeyFollowsItsJob
<1>1. IInv => KeyFollowsItsJob BY DEF IInv
<1> QED BY AlwaysIInv, <1>1, PTL

-----------------------------------------------------------------------------
(* The queue implements JobDelivery                                        *)

\* What JobDelivery sees of the queue.
FateOf == [j \in Jobs |-> Fate(state[j])]
KeyOf == [j \in Jobs |-> IF Accepted(j) /\ asked[j].deduplicationKey \in Keys
                         THEN asked[j].deduplicationKey ELSE "none"]
LimitOf == [j \in Jobs |-> IF Accepted(j) THEN RunsAskedFor(asked[j]) + MaxStalled ELSE 0]

LEMMA Fates ==
  /\ Fate("unused") = "unknown" /\ Fate("absorbed") = "absorbed"
  /\ Fate("waiting") = "pending" /\ Fate("delayed") = "pending"
  /\ Fate("active") = "pending"
  /\ Fate("removed") = "done" /\ Fate("completed") = "done" /\ Fate("failed") = "dead"
<1>1. Fate("unused") = "unknown" BY DEF Fate
<1>2. Fate("absorbed") = "absorbed" BY DEF Fate
<1>3. Fate("waiting") = "pending" BY DEF Fate
<1>4. Fate("delayed") = "pending" BY DEF Fate
<1>5. Fate("active") = "pending" BY DEF Fate
<1>6. Fate("removed") = "done" BY DEF Fate
<1>7. Fate("completed") = "done" BY DEF Fate
<1>8. Fate("failed") = "dead" BY DEF Fate
<1> QED BY <1>1, <1>2, <1>3, <1>4, <1>5, <1>6, <1>7, <1>8

\* The pending messages are the jobs in the queue.
LEMMA PendingIsLive ==
  ASSUME TypeOK, NEW j \in Jobs
  PROVE  /\ FateOf[j] = "pending" <=> j \in Live
         /\ j \in Live => Accepted(j)
<1>1. state[j] \in {"unused", "absorbed", "waiting", "delayed", "active",
                    "completed", "failed", "removed"}
  BY DEF TypeOK
<1> QED BY <1>1, Fates DEF FateOf, Live, Accepted

\* A job that moves on inside the queue or out of it.
LEMMA Moves ==
  ASSUME TypeOK, NEW j \in Jobs, NEW s, Accepted(j),
         state' = [state EXCEPT ![j] = s], s \notin {"unused", "absorbed"}, asked' = asked
  PROVE  FateOf' = [FateOf EXCEPT ![j] = Fate(s)] /\ UNCHANGED <<KeyOf, LimitOf>>
<1>1. \A i \in Jobs : state'[i] = IF i = j THEN s ELSE state[i] BY DEF TypeOK
<1>2. \A i \in Jobs : Accepted(i)' = Accepted(i) BY <1>1 DEF Accepted
<1>3. FateOf' = [FateOf EXCEPT ![j] = Fate(s)]
  <2>1. state'[j] = s /\ \A i \in Jobs \ {j} : state'[i] = state[i] BY <1>1
  <2>2. Fate(state'[j]) = Fate(s) BY <2>1
  <2>3. \A i \in Jobs \ {j} : Fate(state'[i]) = Fate(state[i]) BY <2>1
  <2> QED BY <2>2, <2>3 DEF FateOf
<1>4. KeyOf' = KeyOf BY <1>2 DEF KeyOf
<1>5. LimitOf' = LimitOf BY <1>2 DEF LimitOf
<1> QED BY <1>3, <1>4, <1>5

LEMMA Unseen ==
  ASSUME state' = state, asked' = asked
  PROVE  UNCHANGED <<FateOf, KeyOf, LimitOf>>
<1>1. \A i \in Jobs : Accepted(i)' = Accepted(i) BY DEF Accepted
<1> QED BY <1>1 DEF FateOf, KeyOf, LimitOf

LEMMA Stutters ==
  ASSUME UNCHANGED <<FateOf, KeyOf, LimitOf>>, runs' = runs, handled' = handled
  PROVE  UNCHANGED Delivery!vars
BY Zenon DEF FateOf, KeyOf, LimitOf, Delivery!vars

\* A job is granted as many runs as its message asked for and one per recovery.
LEMMA MayStart ==
  ASSUME IInv, NEW j \in Jobs, state[j] = "waiting"
  PROVE  runs[j] < RunsAskedFor(asked[j]) + MaxStalled
<1>1. JobInv(j) /\ TypeOK BY DEF IInv
<1>2. ~Ran(j) /\ j \in Live /\ Accepted(j) BY DEF Ran, Live, Accepted
<1>3. /\ runs[j] = made[j] + stalled[j] /\ stalled[j] <= MaxStalled
      /\ made[j] = 0 \/ made[j] < attempts[j]
      /\ attempts[j] = AttemptsOf(asked[j])
      /\ made[j] \in Nat /\ stalled[j] \in Nat
  BY <1>1, <1>2, Constants DEF JobInv, TypeOK
<1>4. /\ AttemptsOf(asked[j]) \in Nat /\ RunsAskedFor(asked[j]) \in Nat \ {0}
      /\ AttemptsOf(asked[j]) <= RunsAskedFor(asked[j])
  BY <1>1, Options DEF TypeOK, Sent
<1> QED BY <1>3, <1>4, Constants

LEMMA PublishMaps ==
  ASSUME IInv, NEW j \in Jobs, NEW m \in Sent, Publish(j, m)
  PROVE  Delivery!Next
<1> DEFINE k == DeduplicationOf(m)
           n == RunsAskedFor(m) + MaxStalled
<1>1. TypeOK /\ KeyFollowsItsJob BY DEF IInv
<1>2. /\ state[j] = "unused" /\ asked' = [asked EXCEPT ![j] = m]
      /\ runs' = runs /\ handled' = handled
  BY Zenon DEF Publish
<1>3. /\ k \in Keys \cup {"none"}
      /\ \A x \in Keys : k = x <=> m.deduplicationKey = x
  BY Options
<1>4. FateOf[j] = "unknown" /\ ~Accepted(j) BY <1>2, Fates DEF FateOf, Accepted
<1>5. \A i \in Jobs : asked'[i] = IF i = j THEN m ELSE asked[i] BY <1>1, <1>2 DEF TypeOK
<1>6. CASE k # "none" /\ dedup[k] # "none"
  <2>1. state' = [state EXCEPT ![j] = "absorbed"] BY <1>6, Zenon DEF Publish
  <2>2. \A i \in Jobs : state'[i] = IF i = j THEN "absorbed" ELSE state[i]
    BY <1>1, <2>1 DEF TypeOK
  <2>3. \A i \in Jobs : Accepted(i)' = Accepted(i) BY <1>4, <2>2 DEF Accepted
  <2>4. FateOf' = [FateOf EXCEPT ![j] = "absorbed"] BY <2>2, Fates DEF FateOf
  <2>5. KeyOf' = KeyOf BY <1>4, <1>5, <2>3 DEF KeyOf
  <2>6. LimitOf' = LimitOf BY <1>4, <1>5, <2>3 DEF LimitOf
  <2>7. k \in Keys BY <1>3, <1>6
  <2>8. PICK i \in Jobs : dedup[k] = i BY <1>1, <1>6, <2>7 DEF TypeOK
  <2>9. i \in Live /\ asked[i].deduplicationKey = k BY <1>1, <2>7, <2>8 DEF KeyFollowsItsJob
  <2>10. FateOf[i] = "pending" /\ KeyOf[i] = k
    BY <1>1, <2>7, <2>9, PendingIsLive DEF KeyOf
  <2>11. Delivery!HoldersOf(k) # {}
    BY <2>10 DEF Delivery!HoldersOf, Delivery!Pending, FateOf, KeyOf
  <2>12. Delivery!Absorb(j, k)
    BY <1>2, <1>4, <2>4, <2>5, <2>6, <2>7, <2>11, Zenon
    DEF Delivery!Absorb, FateOf, KeyOf, LimitOf
  <2> QED BY <2>7, <2>12, Zenon DEF Delivery!Next
<1>7. CASE ~ (k # "none" /\ dedup[k] # "none")
  <2> DEFINE s == IF m.delayed THEN "delayed" ELSE "waiting"
  <2>1. state' = [state EXCEPT ![j] = s] BY <1>7, Zenon DEF Publish
  <2>2. \A i \in Jobs : state'[i] = IF i = j THEN s ELSE state[i]
    BY <1>1, <2>1 DEF TypeOK
  <2>3. \A i \in Jobs : Accepted(i)' = IF i = j THEN TRUE ELSE Accepted(i)
    BY <2>2 DEF Accepted
  <2>4. FateOf' = [FateOf EXCEPT ![j] = "pending"] BY <2>2, Fates DEF FateOf
  <2>5. (IF m.deduplicationKey \in Keys THEN m.deduplicationKey ELSE "none") = k
    BY <1>3, Constants
  <2>6. KeyOf' = [KeyOf EXCEPT ![j] = k] BY <1>5, <2>3, <2>5 DEF KeyOf
  <2>7. LimitOf' = [LimitOf EXCEPT ![j] = n] BY <1>5, <2>3 DEF LimitOf
  <2>8. ASSUME k \in Keys PROVE Delivery!HoldersOf(k) = {}
    <3> SUFFICES ASSUME NEW i \in Jobs, FateOf[i] = "pending", KeyOf[i] = k PROVE FALSE
      BY DEF Delivery!HoldersOf, Delivery!Pending, FateOf, KeyOf
    <3>1. i \in Live BY <1>1, PendingIsLive
    <3>2. asked[i].deduplicationKey = k BY <2>8, Constants DEF KeyOf
    <3>3. dedup[k] = i BY <1>1, <2>8, <3>1, <3>2 DEF KeyFollowsItsJob
    <3>4. dedup[k] = "none" /\ i # "none" BY <1>7, <2>8, Constants
    <3> QED BY <3>3, <3>4
  <2>9. Delivery!Accept(j, k, n)
    BY <1>2, <1>4, <2>4, <2>6, <2>7, <2>8, Zenon
    DEF Delivery!Accept, FateOf, KeyOf, LimitOf
  <2>10. n \in {RunsAskedFor(x) + MaxStalled : x \in Messages \cup {NoOptions}} BY DEF Sent
  <2> QED BY <1>3, <2>9, <2>10, Zenon DEF Delivery!Next
<1> QED BY <1>6, <1>7

\* A job that leaves the queue was started, and it leaves as handled or dead.
LEMMA LeaveMaps ==
  ASSUME IInv, NEW j \in Jobs, state[j] = "active", NEW s \in {"removed", "failed"},
         state' = [state EXCEPT ![j] = s], asked' = asked,
         runs' = runs, handled' = handled, s = "removed" => j \in handled
  PROVE  Delivery!Next
<1>1. TypeOK /\ JobInv(j) BY DEF IInv
<1>2. Accepted(j) /\ FateOf[j] = "pending" /\ Ran(j)
  BY Fates DEF FateOf, Accepted, Ran
<1>3. FateOf' = [FateOf EXCEPT ![j] = Fate(s)] /\ UNCHANGED <<KeyOf, LimitOf>>
  BY <1>1, <1>2, Moves
<1>4. CASE s = "removed"
  <2>1. FateOf' = [FateOf EXCEPT ![j] = "done"] BY <1>3, <1>4, Fates
  <2>2. Delivery!Complete(j)
    BY <1>2, <1>3, <1>4, <2>1, Zenon DEF Delivery!Complete, FateOf, KeyOf, LimitOf
  <2> QED BY <2>2, Zenon DEF Delivery!Next
<1>5. CASE s = "failed"
  <2>1. FateOf' = [FateOf EXCEPT ![j] = "dead"] BY <1>3, <1>5, Fates
  <2>2. runs[j] > 0 BY <1>1, <1>2 DEF JobInv, TypeOK
  <2>3. Delivery!Bury(j)
    BY <1>2, <1>3, <2>1, <2>2, Zenon DEF Delivery!Bury, FateOf, KeyOf, LimitOf
  <2> QED BY <2>3, Zenon DEF Delivery!Next
<1> QED BY <1>4, <1>5

\* A job that stays in the queue and is not started.
LEMMA StaysMaps ==
  ASSUME TypeOK, NEW j \in Jobs, j \in Live, state' = [state EXCEPT ![j] = "waiting"],
         asked' = asked, runs' = runs, handled' = handled
  PROVE  UNCHANGED Delivery!vars
<1>1. Accepted(j) /\ FateOf[j] = "pending" BY PendingIsLive
<1>2. FateOf' = [FateOf EXCEPT ![j] = "pending"] /\ UNCHANGED <<KeyOf, LimitOf>>
  <2>1. FateOf' = [FateOf EXCEPT ![j] = Fate("waiting")] /\ UNCHANGED <<KeyOf, LimitOf>>
    <3>1. "waiting" \notin {"unused", "absorbed"} OBVIOUS
    <3> QED BY <1>1, <3>1, Moves, Zenon
  <2> QED BY <2>1, Fates
<1>3. FateOf' = FateOf BY <1>1, <1>2 DEF FateOf
<1> QED BY <1>2, <1>3, Stutters

LEMMA StepMaps ==
  ASSUME IInv, [Next]_vars
  PROVE  [Delivery!Next]_Delivery!vars
<1>1. TypeOK BY DEF IInv
<1>2. ASSUME state' = state, asked' = asked, runs' = runs, handled' = handled
      PROVE  UNCHANGED Delivery!vars
  BY <1>2, Unseen, Stutters
<1>3. CASE UNCHANGED vars BY <1>2, <1>3 DEF vars, queue, history
<1>4. ASSUME NEW j \in Jobs, NEW m \in Sent, Publish(j, m) PROVE Delivery!Next
  BY <1>4, PublishMaps
<1>5. ASSUME NEW j \in Jobs, Promote(j) \/ Recover(j) PROVE UNCHANGED Delivery!vars
  <2>1. /\ j \in Live /\ state' = [state EXCEPT ![j] = "waiting"]
        /\ asked' = asked /\ runs' = runs /\ handled' = handled
    BY <1>5 DEF Promote, Recover, MovesTo, Live, history
  <2> QED BY <1>1, <2>1, StaysMaps
<1>6. ASSUME NEW j \in Jobs, LockExpires(j) PROVE UNCHANGED Delivery!vars
  BY <1>2, <1>6 DEF LockExpires, history
<1>7. ASSUME NEW j \in Jobs, GiveUp(j) PROVE Delivery!Next
  BY <1>7, LeaveMaps DEF GiveUp, MovesTo, history
<1>8. ASSUME NEW w \in Workers, NEW j \in Jobs, Take(w, j) PROVE Delivery!Next
  <2>1. /\ state[j] = "waiting" /\ state' = [state EXCEPT ![j] = "active"]
        /\ runs' = [runs EXCEPT ![j] = @ + 1] /\ asked' = asked /\ handled' = handled
    BY <1>8 DEF Take
  <2>2. j \in Live BY <2>1 DEF Live
  <2>3. Accepted(j) /\ FateOf[j] = "pending" BY <1>1, <2>2, PendingIsLive
  <2>4. FateOf' = [FateOf EXCEPT ![j] = "pending"] /\ UNCHANGED <<KeyOf, LimitOf>>
    <3>1. "active" \notin {"unused", "absorbed"} OBVIOUS
    <3>2. FateOf' = [FateOf EXCEPT ![j] = Fate("active")] /\ UNCHANGED <<KeyOf, LimitOf>>
      BY <1>1, <2>1, <2>3, <3>1, Moves, Zenon
    <3> QED BY <3>2, Fates
  <2>5. FateOf' = FateOf BY <2>3, <2>4 DEF FateOf
  <2>6. runs[j] < LimitOf[j] BY <2>1, <2>3, MayStart DEF LimitOf
  <2>7. Delivery!Start(j)
    BY <2>1, <2>3, <2>4, <2>5, <2>6, Zenon DEF Delivery!Start, FateOf, KeyOf, LimitOf
  <2> QED BY <2>7, Zenon DEF Delivery!Next
<1>9. ASSUME NEW w \in Workers, Resolves(w) PROVE Delivery!Next
  <2>1. /\ outcome[w] = "running" /\ handled' = handled \cup {at[w]}
        /\ state' = state /\ asked' = asked /\ runs' = runs
    BY <1>9 DEF Resolves, queue
  <2>2. at[w] \in Jobs /\ at[w] # "none" BY <2>1, InHand, Constants
  <2>3. runs[at[w]] > 0 BY <2>2 DEF IInv, WorkerInv
  <2>4. UNCHANGED <<FateOf, KeyOf, LimitOf>> BY <2>1, Unseen
  <2>5. Delivery!Handle(at[w])
    BY <2>1, <2>3, <2>4, Zenon DEF Delivery!Handle, FateOf, KeyOf, LimitOf
  <2> QED BY <2>2, <2>5, Zenon DEF Delivery!Next
<1>10. ASSUME NEW w \in Workers, Throws(w) \/ Crash(w) \/ Refused(w)
       PROVE  UNCHANGED Delivery!vars
  BY <1>2, <1>10 DEF Throws, Crash, Refused, Puts, queue, history
<1>11. ASSUME NEW w \in Workers, Completes(w) PROVE Delivery!Next
  <2>1. at[w] \in Jobs /\ state[at[w]] = "active" /\ at[w] \in handled
    BY <1>11, InHand, Holder DEF Completes, IInv, WorkerInv
  <2> QED BY <1>11, <2>1, LeaveMaps DEF Completes, MovesTo, Puts, history
<1>12. ASSUME NEW w \in Workers, Retries(w) PROVE UNCHANGED Delivery!vars
  <2>1. at[w] \in Jobs /\ state[at[w]] = "active" BY <1>12, InHand, Holder DEF Retries
  <2>2. at[w] \in Live BY <2>1 DEF Live
  <2> QED BY <1>1, <1>12, <2>1, <2>2, StaysMaps DEF Retries, MovesTo, Puts, history
<1>13. ASSUME NEW w \in Workers, Buries(w) PROVE Delivery!Next
  <2>1. at[w] \in Jobs /\ state[at[w]] = "active" BY <1>13, InHand, Holder DEF Buries
  <2> QED BY <1>13, <2>1, LeaveMaps DEF Buries, MovesTo, Puts, history
<1> QED BY Steps, <1>3, <1>4, <1>5, <1>6, <1>7, <1>8, <1>9, <1>10, <1>11, <1>12,
           <1>13, Zenon

LEMMA InitMaps == Init => Delivery!Init
<1> SUFFICES ASSUME Init PROVE Delivery!Init OBVIOUS
<1>1. /\ \A j \in Jobs : state[j] = "unused"
      /\ runs = [j \in Jobs |-> 0] /\ handled = {}
  BY Zenon DEF Init
<1>2. \A j \in Jobs : ~Accepted(j) BY <1>1 DEF Accepted
<1>3. FateOf = [j \in Jobs |-> "unknown"] BY <1>1, Fates DEF FateOf
<1>4. KeyOf = [j \in Jobs |-> "none"] BY <1>2 DEF KeyOf
<1>5. LimitOf = [j \in Jobs |-> 0] BY <1>2 DEF LimitOf
<1> QED BY <1>1, <1>3, <1>4, <1>5, Zenon DEF Delivery!Init, FateOf, KeyOf, LimitOf

\* The queue keeps the promise of JobDelivery for any messages: a message is absorbed
\* only by a pending one with its key, completes only after a run that resolved, and
\* is run no more often than it asked for and once for each recovery.
THEOREM Implements == Spec => ImplementsDelivery
<1>1. Init => Delivery!Init BY InitMaps
<1>2. IInv /\ [Next]_vars => [Delivery!Next]_Delivery!vars BY StepMaps
<1> QED BY <1>1, <1>2, AlwaysIInv, PTL DEF Spec, ImplementsDelivery, Delivery!Spec

-----------------------------------------------------------------------------
(* The counters                                                            *)

\* One more unit of a count.
LEMMA OneMore ==
  ASSUME NEW f \in [Jobs -> Nat], NEW j \in Jobs, IsFiniteSet(Units(f))
  PROVE  LET g == [f EXCEPT ![j] = @ + 1]
         IN  IsFiniteSet(Units(g)) /\ Total(g) = Total(f) + 1
<1> DEFINE g == [f EXCEPT ![j] = @ + 1]
           u == <<j, f[j] + 1>>
<1>1. \A i \in Jobs : g[i] = IF i = j THEN f[i] + 1 ELSE f[i] OBVIOUS
<1>2. ASSUME NEW h \in [Jobs -> Nat], NEW x
      PROVE  x \in Units(h) <=> \E i \in Jobs : \E n \in 1..h[i] : x = <<i, n>>
  BY DEF Units
<1>3. g \in [Jobs -> Nat] OBVIOUS
<1> HIDE DEF g
<1>4. Units(g) = Units(f) \cup {u}
  <2>1. ASSUME NEW x \in Units(g) PROVE x \in Units(f) \cup {u}
    <3>1. PICK i \in Jobs : \E n \in 1..g[i] : x = <<i, n>> BY <1>2, <1>3, <2>1
    <3>2. PICK n \in 1..g[i] : x = <<i, n>> BY <3>1
    <3>3. n \in 1..f[i] \/ (i = j /\ n = f[j] + 1) BY <1>1, <3>2
    <3> QED BY <1>2, <3>2, <3>3
  <2>2. ASSUME NEW x \in Units(f) PROVE x \in Units(g)
    <3>1. PICK i \in Jobs : \E n \in 1..f[i] : x = <<i, n>> BY <1>2, <2>2
    <3>2. PICK n \in 1..f[i] : x = <<i, n>> BY <3>1
    <3>3. n \in 1..g[i] BY <1>1, <3>2
    <3> QED BY <1>2, <1>3, <3>2, <3>3
  <2>3. u \in Units(g)
    <3>1. f[j] + 1 \in 1..g[j] BY <1>1
    <3> QED BY <1>2, <1>3, <3>1
  <2> QED BY <2>1, <2>2, <2>3
<1>5. u \notin Units(f)
  <2> SUFFICES ASSUME u \in Units(f) PROVE FALSE OBVIOUS
  <2>1. PICK i \in Jobs : \E n \in 1..f[i] : u = <<i, n>> BY <1>2
  <2>2. i = j /\ f[j] + 1 \in 1..f[j] BY <2>1
  <2> QED BY <2>2
<1>6. /\ IsFiniteSet(Units(f) \cup {u})
      /\ Cardinality(Units(f) \cup {u}) = Cardinality(Units(f)) + 1
  BY <1>5, FS_AddElement
<1>7. \A h : Total(h) = Cardinality(Units(h)) BY DEF Units, Total
<1>8. IsFiniteSet(Units(g)) /\ Total(g) = Total(f) + 1 BY <1>4, <1>6, <1>7, Zenon
<1> QED BY <1>8 DEF g

\* The sizes of the sets that are counted.
LEMMA Sizes ==
  ASSUME FiniteInv
  PROVE  /\ Cardinality(Running) \in Nat /\ Cardinality(RanJobs) \in Nat
         /\ Cardinality(Done) \in Nat
         /\ Cardinality(Reporting("resolved")) \in Nat
         /\ Cardinality(Reporting("threw")) \in Nat
         /\ Total(made) \in Nat /\ Total(stalled) \in Nat
BY FS_CardinalityType DEF FiniteInv, Units, Total

LEMMA CountInit == Init => FiniteInv /\ CountInv
<1> SUFFICES ASSUME Init PROVE FiniteInv /\ CountInv OBVIOUS
<1>1. /\ \A j \in Jobs : state[j] = "unused" /\ made[j] = 0 /\ stalled[j] = 0
      /\ \A w \in Workers : outcome[w] = "none"
      /\ processed = 0 /\ failures = 0
  BY Zenon DEF Init
<1>2. Running = {} /\ Reporting("resolved") = {} /\ Reporting("threw") = {}
  BY <1>1 DEF Running, Reporting
<1>3. RanJobs = {} /\ Done = {} BY <1>1 DEF RanJobs, Ran, Done, InState
<1>4. Units(made) = {} /\ Units(stalled) = {} BY <1>1 DEF Units
<1>5. Cardinality({}) = 0 /\ IsFiniteSet({}) BY FS_EmptySet
<1>6. Total(made) = 0 /\ Total(stalled) = 0 BY <1>4, <1>5 DEF Units, Total
<1> QED BY <1>1, <1>2, <1>3, <1>4, <1>5, <1>6 DEF FiniteInv, CountInv

\* A part of a finite set.
LEMMA Part ==
  ASSUME NEW S, IsFiniteSet(S), NEW T, T \subseteq S
  PROVE  IsFiniteSet(T) /\ Cardinality(T) \in Nat /\ Cardinality(T) <= Cardinality(S)
BY FS_Subset, FS_CardinalityType

\* A step that counts nothing may only take runs and reports away.
LEMMA CountSame ==
  ASSUME FiniteInv, CountInv, TypeOK,
         Running' \subseteq Running, RanJobs' = RanJobs, Done' = Done,
         Reporting("resolved")' \subseteq Reporting("resolved"),
         Reporting("threw")' \subseteq Reporting("threw"),
         UNCHANGED <<made, stalled, counters>>
  PROVE  FiniteInv' /\ CountInv'
<1>1. /\ IsFiniteSet(Running') /\ Cardinality(Running') \in Nat
      /\ Cardinality(Running') <= Cardinality(Running)
  BY Part DEF FiniteInv
<1>2. /\ IsFiniteSet(Reporting("resolved")') /\ Cardinality(Reporting("resolved")') \in Nat
      /\ Cardinality(Reporting("resolved")') <= Cardinality(Reporting("resolved"))
  BY Part DEF FiniteInv
<1>3. /\ IsFiniteSet(Reporting("threw")') /\ Cardinality(Reporting("threw")') \in Nat
      /\ Cardinality(Reporting("threw")') <= Cardinality(Reporting("threw"))
  BY Part DEF FiniteInv
<1>4. FiniteInv' BY <1>1, <1>2, <1>3 DEF FiniteInv
<1>5. /\ processed' = processed /\ failures' = failures
      /\ Total(made)' = Total(made) /\ Total(stalled)' = Total(stalled)
      /\ processed \in Nat /\ failures \in Nat
  BY DEF counters, TypeOK
<1>6. CountInv' BY <1>1, <1>2, <1>3, <1>4, <1>5, Sizes DEF CountInv
<1> QED BY <1>4, <1>6

\* A job that goes back or is given up after a stall is one run less under way and
\* one stall more; after a failure that is reported, one failed attempt more.
LEMMA CountEnded ==
  ASSUME FiniteInv, CountInv, TypeOK, NEW j \in Jobs, j \in RanJobs,
         Running' = Running, RanJobs' = RanJobs \ {j}, Done' = Done,
         Reporting("resolved")' \subseteq Reporting("resolved"),
         UNCHANGED counters,
         \/ /\ stalled' = [stalled EXCEPT ![j] = @ + 1] /\ made' = made
            /\ Reporting("threw")' \subseteq Reporting("threw")
         \/ /\ made' = [made EXCEPT ![j] = @ + 1] /\ stalled' = stalled
            /\ \E w \in Reporting("threw") : Reporting("threw")' \subseteq Reporting("threw") \ {w}
  PROVE  FiniteInv' /\ CountInv'
<1>1. IsFiniteSet(RanJobs') /\ Cardinality(RanJobs') = Cardinality(RanJobs) - 1
  BY FS_RemoveElement DEF FiniteInv
<1>2. /\ IsFiniteSet(Reporting("resolved")') /\ Cardinality(Reporting("resolved")') \in Nat
      /\ Cardinality(Reporting("resolved")') <= Cardinality(Reporting("resolved"))
  BY Part DEF FiniteInv
<1>3. /\ processed' = processed /\ failures' = failures
      /\ processed \in Nat /\ failures \in Nat
      /\ made \in [Jobs -> Nat] /\ stalled \in [Jobs -> Nat]
  BY Constants DEF counters, TypeOK
<1>4. CASE /\ stalled' = [stalled EXCEPT ![j] = @ + 1] /\ made' = made
           /\ Reporting("threw")' \subseteq Reporting("threw")
  <2>1. IsFiniteSet(Units(stalled')) /\ Total(stalled') = Total(stalled) + 1
    BY <1>3, <1>4, OneMore DEF FiniteInv
  <2>2. /\ IsFiniteSet(Reporting("threw")') /\ Cardinality(Reporting("threw")') \in Nat
        /\ Cardinality(Reporting("threw")') <= Cardinality(Reporting("threw"))
    BY <1>4, Part DEF FiniteInv
  <2>3. FiniteInv' BY <1>1, <1>2, <1>4, <2>1, <2>2 DEF FiniteInv
  <2>4. Total(made)' = Total(made) BY <1>4
  <2>5. CountInv' BY <1>1, <1>2, <1>3, <2>1, <2>2, <2>3, <2>4, Sizes DEF CountInv
  <2> QED BY <2>3, <2>5
<1>5. CASE /\ made' = [made EXCEPT ![j] = @ + 1] /\ stalled' = stalled
           /\ \E w \in Reporting("threw") : Reporting("threw")' \subseteq Reporting("threw") \ {w}
  <2>1. IsFiniteSet(Units(made')) /\ Total(made') = Total(made) + 1
    BY <1>3, <1>5, OneMore DEF FiniteInv
  <2>2. PICK w \in Reporting("threw") :
          Reporting("threw")' \subseteq Reporting("threw") \ {w}
    BY <1>5
  <2>3. /\ IsFiniteSet(Reporting("threw") \ {w})
        /\ Cardinality(Reporting("threw") \ {w}) = Cardinality(Reporting("threw")) - 1
    BY FS_RemoveElement DEF FiniteInv
  <2>4. /\ IsFiniteSet(Reporting("threw")') /\ Cardinality(Reporting("threw")') \in Nat
        /\ Cardinality(Reporting("threw")') <= Cardinality(Reporting("threw") \ {w})
    BY <2>2, <2>3, Part
  <2>5. FiniteInv' BY <1>1, <1>2, <1>5, <2>1, <2>4 DEF FiniteInv
  <2>6. Total(stalled)' = Total(stalled) BY <1>5
  <2>7. CountInv'
    BY <1>1, <1>2, <1>3, <2>1, <2>3, <2>4, <2>5, <2>6, Sizes DEF CountInv
  <2> QED BY <2>5, <2>7
<1> QED BY <1>4, <1>5

\* Nobody gains a report, and those that are gone are lost.
LEMMA ReportsShrink ==
  ASSUME NEW how \in {"resolved", "threw"},
         \A v \in Workers : outcome'[v] = how =>
           /\ outcome[v] = how /\ at'[v] = at[v]
           /\ \A j \in Jobs : at[v] = j /\ owner'[j] = v => owner[j] = v
  PROVE  Reporting(how)' \subseteq Reporting(how)
BY DEF Reporting

LEMMA CountStep ==
  ASSUME IInv, FiniteInv, CountInv, [Next]_vars
  PROVE  FiniteInv' /\ CountInv'
<1>1. TypeOK /\ "none" \notin Workers /\ "gone" \notin Workers BY Constants DEF IInv
<1>2. CASE UNCHANGED vars
  <2>1. Running' = Running /\ RanJobs' = RanJobs /\ Done' = Done
    BY <1>2 DEF vars, queue, Running, RanJobs, Ran, Done, InState
  <2>2. /\ Reporting("resolved")' = Reporting("resolved")
        /\ Reporting("threw")' = Reporting("threw")
    BY <1>2 DEF vars, queue, Reporting
  <2> QED BY <1>1, <1>2, <2>1, <2>2, CountSame DEF vars, queue
<1>3. ASSUME NEW j \in Jobs, NEW s, state' = [state EXCEPT ![j] = s],
             state[j] \notin {"active", "completed", "removed"},
             s \notin {"active", "completed", "removed"},
             UNCHANGED <<made, stalled, owner, at, outcome, counters>>
      PROVE  FiniteInv' /\ CountInv'
  <2>1. \A i \in Jobs : state'[i] = IF i = j THEN s ELSE state[i]
    BY <1>1, <1>3 DEF TypeOK
  <2>2. Running' = Running BY <1>3 DEF Running
  <2>3. RanJobs' = RanJobs BY <1>3, <2>1 DEF RanJobs, Ran
  <2>4. Done' = Done BY <1>3, <2>1 DEF Done, InState
  <2>5. /\ Reporting("resolved")' = Reporting("resolved")
        /\ Reporting("threw")' = Reporting("threw")
    BY <1>3 DEF Reporting
  <2> QED BY <1>1, <1>3, <2>2, <2>3, <2>4, <2>5, CountSame
<1>4. ASSUME NEW j \in Jobs, NEW m \in Sent, Publish(j, m) PROVE FiniteInv' /\ CountInv'
  <2>1. state[j] = "unused" /\ UNCHANGED <<made, stalled, owner, at, outcome, counters>>
    BY <1>4, Zenon DEF Publish
  <2>2. \E s \in {"absorbed", "delayed", "waiting"} : state' = [state EXCEPT ![j] = s]
    BY <1>4 DEF Publish
  <2> QED BY <1>3, <2>1, <2>2
<1>5. ASSUME NEW j \in Jobs, Promote(j) PROVE FiniteInv' /\ CountInv'
  <2>1. /\ state[j] = "delayed"
        /\ \E s \in {"waiting"} : state' = [state EXCEPT ![j] = s]
        /\ UNCHANGED <<made, stalled, owner, at, outcome, counters>>
    BY <1>5 DEF Promote
  <2> QED BY <1>3, <2>1
<1>6. ASSUME NEW j \in Jobs, owner' = [owner EXCEPT ![j] = "none"],
             at' = at, outcome' = outcome
      PROVE  /\ Reporting("resolved")' \subseteq Reporting("resolved")
             /\ Reporting("threw")' \subseteq Reporting("threw")
  <2>1. \A i \in Jobs : owner'[i] = IF i = j THEN "none" ELSE owner[i]
    BY <1>1, <1>6 DEF TypeOK
  <2> QED BY <1>1, <1>6, <2>1, ReportsShrink
<1>7. ASSUME NEW j \in Jobs, LockExpires(j) PROVE FiniteInv' /\ CountInv'
  <2>1. /\ owner' = [owner EXCEPT ![j] = "none"]
        /\ UNCHANGED <<state, made, stalled, at, outcome, counters>>
    BY <1>7 DEF LockExpires
  <2>2. /\ Reporting("resolved")' \subseteq Reporting("resolved")
        /\ Reporting("threw")' \subseteq Reporting("threw")
    BY <1>6, <2>1
  <2>3. Running' = Running /\ RanJobs' = RanJobs /\ Done' = Done
    BY <2>1 DEF Running, RanJobs, Ran, Done, InState
  <2> QED BY <1>1, <2>1, <2>2, <2>3, CountSame
<1>8. ASSUME NEW j \in Jobs, state[j] = "active",
             NEW s \in {"waiting", "failed"}, MovesTo(j, s)
      PROVE  j \in RanJobs /\ RanJobs' = RanJobs \ {j} /\ Done' = Done
  <2>1. \A i \in Jobs : state'[i] = IF i = j THEN s ELSE state[i]
    BY <1>1, <1>8 DEF TypeOK, MovesTo
  <2>2. j \in RanJobs /\ RanJobs' = RanJobs \ {j} BY <1>8, <2>1 DEF RanJobs, Ran
  <2>3. Done' = Done BY <1>8, <2>1 DEF Done, InState
  <2> QED BY <2>2, <2>3
<1>9. ASSUME NEW j \in Jobs, Recover(j) \/ GiveUp(j) PROVE FiniteInv' /\ CountInv'
  <2>1. /\ state[j] = "active" /\ \E s \in {"waiting", "failed"} : MovesTo(j, s)
        /\ stalled' = [stalled EXCEPT ![j] = @ + 1]
        /\ UNCHANGED <<made, at, outcome, counters>>
    BY <1>9 DEF Recover, GiveUp
  <2>2. j \in RanJobs /\ RanJobs' = RanJobs \ {j} /\ Done' = Done BY <1>8, <2>1
  <2>3. /\ Reporting("resolved")' \subseteq Reporting("resolved")
        /\ Reporting("threw")' \subseteq Reporting("threw")
    BY <1>6, <2>1 DEF MovesTo
  <2>4. Running' = Running BY <2>1 DEF Running
  <2> QED BY <1>1, <2>1, <2>2, <2>3, <2>4, CountEnded
<1>10. ASSUME NEW w \in Workers, NEW j \in Jobs, Take(w, j) PROVE FiniteInv' /\ CountInv'
  <2>1. /\ at[w] = "none" /\ state[j] = "waiting"
        /\ state' = [state EXCEPT ![j] = "active"] /\ owner' = [owner EXCEPT ![j] = w]
        /\ at' = [at EXCEPT ![w] = j] /\ outcome' = [outcome EXCEPT ![w] = "running"]
        /\ UNCHANGED <<made, stalled, counters>>
    BY <1>10 DEF Take
  <2>2. outcome[w] = "none" BY <2>1 DEF IInv, WorkerInv
  <2>3. \A v \in Workers : /\ outcome'[v] = IF v = w THEN "running" ELSE outcome[v]
                           /\ at'[v] = IF v = w THEN j ELSE at[v]
    BY <1>1, <2>1 DEF TypeOK
  <2>4. \A i \in Jobs : /\ state'[i] = IF i = j THEN "active" ELSE state[i]
                        /\ owner'[i] = IF i = j THEN w ELSE owner[i]
    BY <1>1, <2>1 DEF TypeOK
  <2>5. w \notin Running /\ Running' = Running \cup {w} BY <2>2, <2>3 DEF Running
  <2>6. j \notin RanJobs /\ RanJobs' = RanJobs \cup {j} BY <2>1, <2>4 DEF RanJobs, Ran
  <2>7. Done' = Done BY <2>1, <2>4 DEF Done, InState
  <2>8. /\ Reporting("resolved")' \subseteq Reporting("resolved")
        /\ Reporting("threw")' \subseteq Reporting("threw")
    BY <2>3, <2>4, ReportsShrink
  <2>9. /\ IsFiniteSet(Running') /\ Cardinality(Running') = Cardinality(Running) + 1
        /\ IsFiniteSet(RanJobs') /\ Cardinality(RanJobs') = Cardinality(RanJobs) + 1
    BY <2>5, <2>6, FS_AddElement DEF FiniteInv
  <2>10. /\ IsFiniteSet(Reporting("resolved")')
         /\ Cardinality(Reporting("resolved")') \in Nat
         /\ Cardinality(Reporting("resolved")') <= Cardinality(Reporting("resolved"))
    BY <2>8, Part DEF FiniteInv
  <2>11. /\ IsFiniteSet(Reporting("threw")') /\ Cardinality(Reporting("threw")') \in Nat
         /\ Cardinality(Reporting("threw")') <= Cardinality(Reporting("threw"))
    BY <2>8, Part DEF FiniteInv
  <2>12. FiniteInv' BY <2>1, <2>7, <2>9, <2>10, <2>11 DEF FiniteInv
  <2>13. /\ processed' = processed /\ failures' = failures
         /\ Total(made)' = Total(made) /\ Total(stalled)' = Total(stalled)
         /\ processed \in Nat /\ failures \in Nat
    BY <1>1, <2>1 DEF counters, TypeOK
  <2>14. CountInv' BY <2>7, <2>9, <2>10, <2>11, <2>13, Sizes DEF CountInv
  <2> QED BY <2>12, <2>14
<1>11. ASSUME NEW w \in Workers, NEW how \in {"resolved", "threw"},
              outcome[w] = "running", outcome' = [outcome EXCEPT ![w] = how],
              queue' = queue, at' = at
       PROVE  /\ Running' = Running \ {w} /\ w \in Running
              /\ RanJobs' = RanJobs /\ Done' = Done
              /\ Reporting(how)' \subseteq Reporting(how) \cup {w}
              /\ \A other \in {"resolved", "threw"} \ {how} : Reporting(other)' = Reporting(other)
  <2>1. \A v \in Workers : outcome'[v] = IF v = w THEN how ELSE outcome[v]
    BY <1>1, <1>11 DEF TypeOK
  <2>2. Running' = Running \ {w} /\ w \in Running BY <1>11, <2>1 DEF Running
  <2>3. RanJobs' = RanJobs /\ Done' = Done
    BY <1>11 DEF queue, RanJobs, Ran, Done, InState
  <2>4. Reporting(how)' \subseteq Reporting(how) \cup {w}
    BY <1>11, <2>1 DEF queue, Reporting
  <2>5. ASSUME NEW other \in {"resolved", "threw"} \ {how}
        PROVE  Reporting(other)' = Reporting(other)
    BY <1>11, <2>1, <2>5 DEF queue, Reporting
  <2> QED BY <2>2, <2>3, <2>4, <2>5
<1>12. ASSUME NEW w \in Workers, NEW how \in {"resolved", "threw"}, w \in Running,
              Running' = Running \ {w},
              Reporting(how)' \subseteq Reporting(how) \cup {w}
       PROVE  /\ IsFiniteSet(Running') /\ Cardinality(Running') = Cardinality(Running) - 1
              /\ IsFiniteSet(Reporting(how)') /\ Cardinality(Reporting(how)') \in Nat
              /\ Cardinality(Reporting(how)') <= Cardinality(Reporting(how)) + 1
  <2>1. IsFiniteSet(Reporting(how)) /\ Cardinality(Reporting(how)) \in Nat
    BY Sizes DEF FiniteInv
  <2>2. /\ IsFiniteSet(Reporting(how) \cup {w})
        /\ Cardinality(Reporting(how) \cup {w}) <= Cardinality(Reporting(how)) + 1
        /\ Cardinality(Reporting(how) \cup {w}) \in Nat
    BY <2>1, FS_AddElement, FS_CardinalityType
  <2>3. /\ IsFiniteSet(Reporting(how)') /\ Cardinality(Reporting(how)') \in Nat
        /\ Cardinality(Reporting(how)') <= Cardinality(Reporting(how) \cup {w})
    BY <1>12, <2>2, Part
  <2>4. IsFiniteSet(Running') /\ Cardinality(Running') = Cardinality(Running) - 1
    BY <1>12, FS_RemoveElement DEF FiniteInv
  <2> QED BY <2>1, <2>2, <2>3, <2>4
<1>13. ASSUME NEW w \in Workers, Resolves(w) PROVE FiniteInv' /\ CountInv'
  <2>1. /\ outcome[w] = "running" /\ outcome' = [outcome EXCEPT ![w] = "resolved"]
        /\ queue' = queue /\ at' = at /\ processed' = processed + 1 /\ failures' = failures
    BY <1>13 DEF Resolves, RecordProcessed
  <2>2. /\ Running' = Running \ {w} /\ w \in Running
        /\ RanJobs' = RanJobs /\ Done' = Done
        /\ Reporting("resolved")' \subseteq Reporting("resolved") \cup {w}
        /\ Reporting("threw")' = Reporting("threw")
    BY <1>11, <2>1
  <2>3. /\ IsFiniteSet(Running') /\ Cardinality(Running') = Cardinality(Running) - 1
        /\ IsFiniteSet(Reporting("resolved")') /\ Cardinality(Reporting("resolved")') \in Nat
        /\ Cardinality(Reporting("resolved")') <= Cardinality(Reporting("resolved")) + 1
    BY <1>12, <2>2
  <2>4. made' = made /\ stalled' = stalled BY <2>1 DEF queue
  <2>5. FiniteInv' BY <2>2, <2>3, <2>4 DEF FiniteInv
  <2>6. CountInv' BY <1>1, <2>1, <2>2, <2>3, <2>4, Sizes DEF CountInv, TypeOK
  <2> QED BY <2>5, <2>6
<1>14. ASSUME NEW w \in Workers, Throws(w) PROVE FiniteInv' /\ CountInv'
  <2>1. /\ outcome[w] = "running" /\ outcome' = [outcome EXCEPT ![w] = "threw"]
        /\ queue' = queue /\ at' = at /\ failures' = failures + 1 /\ processed' = processed
    BY <1>14 DEF Throws, RecordFailed
  <2>2. /\ Running' = Running \ {w} /\ w \in Running
        /\ RanJobs' = RanJobs /\ Done' = Done
        /\ Reporting("threw")' \subseteq Reporting("threw") \cup {w}
        /\ Reporting("resolved")' = Reporting("resolved")
    BY <1>11, <2>1
  <2>3. /\ IsFiniteSet(Running') /\ Cardinality(Running') = Cardinality(Running) - 1
        /\ IsFiniteSet(Reporting("threw")') /\ Cardinality(Reporting("threw")') \in Nat
        /\ Cardinality(Reporting("threw")') <= Cardinality(Reporting("threw")) + 1
    BY <1>12, <2>2
  <2>4. made' = made /\ stalled' = stalled BY <2>1 DEF queue
  <2>5. FiniteInv' BY <2>2, <2>3, <2>4 DEF FiniteInv
  <2>6. CountInv' BY <1>1, <2>1, <2>2, <2>3, <2>4, Sizes DEF CountInv, TypeOK
  <2> QED BY <2>5, <2>6
<1>15. ASSUME NEW w \in Workers, Crash(w) PROVE FiniteInv' /\ CountInv'
  <2>1. /\ owner' = [j \in Jobs |-> IF owner[j] = w THEN "gone" ELSE owner[j]]
        /\ at' = [at EXCEPT ![w] = "none"] /\ outcome' = [outcome EXCEPT ![w] = "none"]
        /\ UNCHANGED <<state, made, stalled, counters>>
    BY <1>15 DEF Crash
  <2>2. \A v \in Workers : /\ outcome'[v] = IF v = w THEN "none" ELSE outcome[v]
                           /\ at'[v] = IF v = w THEN "none" ELSE at[v]
    BY <1>1, <2>1 DEF TypeOK
  <2>3. \A j \in Jobs : owner'[j] = IF owner[j] = w THEN "gone" ELSE owner[j] BY <2>1
  <2>4. /\ Reporting("resolved")' \subseteq Reporting("resolved")
        /\ Reporting("threw")' \subseteq Reporting("threw")
    BY <1>1, <2>2, <2>3, ReportsShrink
  <2>5. Running' \subseteq Running BY <2>2 DEF Running
  <2>6. RanJobs' = RanJobs /\ Done' = Done BY <2>1 DEF RanJobs, Ran, Done, InState
  <2> QED BY <1>1, <2>1, <2>4, <2>5, <2>6, CountSame
<1>16. ASSUME NEW w \in Workers, Puts(w), outcome[w] \in {"resolved", "threw"}
       PROVE  /\ Running' = Running /\ UNCHANGED counters
              /\ \A v \in Workers \ {w} : outcome'[v] = outcome[v] /\ at'[v] = at[v]
              /\ outcome'[w] = "none"
  <2>1. \A v \in Workers : /\ outcome'[v] = IF v = w THEN "none" ELSE outcome[v]
                           /\ at'[v] = IF v = w THEN "none" ELSE at[v]
    BY <1>1, <1>16 DEF Puts, TypeOK
  <2> QED BY <1>16, <2>1 DEF Puts, Running
<1>17. ASSUME NEW w \in Workers, Refused(w) PROVE FiniteInv' /\ CountInv'
  <2>1. /\ Puts(w) /\ outcome[w] \in {"resolved", "threw"}
        /\ UNCHANGED <<state, made, stalled, owner>>
    BY <1>17 DEF Refused, queue
  <2>2. /\ Running' = Running /\ UNCHANGED counters
        /\ \A v \in Workers \ {w} : outcome'[v] = outcome[v] /\ at'[v] = at[v]
        /\ outcome'[w] = "none"
    BY <1>16, <2>1
  <2>3. /\ Reporting("resolved")' \subseteq Reporting("resolved")
        /\ Reporting("threw")' \subseteq Reporting("threw")
    BY <2>1, <2>2, ReportsShrink
  <2>4. RanJobs' = RanJobs /\ Done' = Done BY <2>1 DEF RanJobs, Ran, Done, InState
  <2> QED BY <1>1, <2>1, <2>2, <2>3, <2>4, CountSame
<1>18. ASSUME NEW w \in Workers, Completes(w) PROVE FiniteInv' /\ CountInv'
  <2>1. /\ Puts(w) /\ outcome[w] = "resolved" /\ owner[at[w]] = w
        /\ MovesTo(at[w], "removed") /\ UNCHANGED <<made, stalled>>
    BY <1>18 DEF Completes
  <2>2. at[w] \in Jobs /\ state[at[w]] = "active" BY <2>1, InHand, Holder
  <2>3. /\ Running' = Running /\ UNCHANGED counters
        /\ \A v \in Workers \ {w} : outcome'[v] = outcome[v] /\ at'[v] = at[v]
        /\ outcome'[w] = "none"
    BY <1>16, <2>1
  <2>4. \A j \in Jobs : /\ state'[j] = IF j = at[w] THEN "removed" ELSE state[j]
                        /\ owner'[j] = IF j = at[w] THEN "none" ELSE owner[j]
    BY <1>1, <2>1, <2>2 DEF MovesTo, TypeOK
  <2>5. RanJobs' = RanJobs BY <2>2, <2>4 DEF RanJobs, Ran
  <2>6. at[w] \notin Done /\ Done' = Done \cup {at[w]} BY <2>2, <2>4 DEF Done, InState
  <2>7. /\ Reporting("resolved")' \subseteq Reporting("resolved")
        /\ Reporting("threw")' \subseteq Reporting("threw")
    BY <1>1, <2>3, <2>4, ReportsShrink
  <2>8. w \in Reporting("resolved") /\ w \notin Reporting("resolved")'
    BY <2>1, <2>2, <2>3 DEF Reporting
  <2>9. /\ IsFiniteSet(Done') /\ Cardinality(Done') = Cardinality(Done) + 1
    BY <2>6, FS_AddElement DEF FiniteInv
  <2>10. /\ IsFiniteSet(Reporting("resolved") \ {w})
         /\ Cardinality(Reporting("resolved") \ {w}) = Cardinality(Reporting("resolved")) - 1
    BY <2>8, FS_RemoveElement DEF FiniteInv
  <2>11. /\ IsFiniteSet(Reporting("resolved")')
         /\ Cardinality(Reporting("resolved")') \in Nat
         /\ Cardinality(Reporting("resolved")') <= Cardinality(Reporting("resolved") \ {w})
    BY <2>7, <2>8, <2>10, Part
  <2>12. /\ IsFiniteSet(Reporting("threw")') /\ Cardinality(Reporting("threw")') \in Nat
         /\ Cardinality(Reporting("threw")') <= Cardinality(Reporting("threw"))
    BY <2>7, Part DEF FiniteInv
  <2>13. FiniteInv' BY <2>1, <2>3, <2>5, <2>9, <2>11, <2>12 DEF FiniteInv
  <2>14. /\ processed' = processed /\ failures' = failures
         /\ Total(made)' = Total(made) /\ Total(stalled)' = Total(stalled)
         /\ processed \in Nat /\ failures \in Nat
    BY <1>1, <2>1, <2>3 DEF counters, TypeOK
  <2>15. CountInv'
    BY <2>3, <2>5, <2>9, <2>10, <2>11, <2>12, <2>14, Sizes DEF CountInv
  <2> QED BY <2>13, <2>15
<1>19. ASSUME NEW w \in Workers, Retries(w) \/ Buries(w) PROVE FiniteInv' /\ CountInv'
  <2>1. /\ Puts(w) /\ outcome[w] = "threw" /\ owner[at[w]] = w /\ stalled' = stalled
        /\ \E s \in {"waiting", "failed"} : MovesTo(at[w], s)
        /\ made' = [made EXCEPT ![at[w]] = @ + 1]
    BY <1>19 DEF Retries, Buries
  <2>2. at[w] \in Jobs /\ state[at[w]] = "active" BY <2>1, InHand, Holder
  <2>3. /\ Running' = Running /\ UNCHANGED counters
        /\ \A v \in Workers \ {w} : outcome'[v] = outcome[v] /\ at'[v] = at[v]
        /\ outcome'[w] = "none"
    BY <1>16, <2>1
  <2>4. /\ at[w] \in RanJobs /\ RanJobs' = RanJobs \ {at[w]} /\ Done' = Done
    BY <1>8, <2>1, <2>2
  <2>5. \A j \in Jobs : owner'[j] = IF j = at[w] THEN "none" ELSE owner[j]
    BY <1>1, <2>1 DEF MovesTo, TypeOK
  <2>6. /\ Reporting("resolved")' \subseteq Reporting("resolved")
        /\ Reporting("threw")' \subseteq Reporting("threw")
    BY <1>1, <2>3, <2>5, ReportsShrink
  <2>7. w \in Reporting("threw") /\ w \notin Reporting("threw")'
    BY <2>1, <2>2, <2>3 DEF Reporting
  <2>8. \E v \in Reporting("threw") : Reporting("threw")' \subseteq Reporting("threw") \ {v}
    BY <2>6, <2>7
  <2> QED BY <1>1, <2>1, <2>2, <2>3, <2>4, <2>6, <2>8, CountEnded
<1> QED BY Steps, <1>2, <1>4, <1>5, <1>7, <1>9, <1>10, <1>13, <1>14, <1>15,
           <1>17, <1>18, <1>19, Zenon

\* At rest the counters of all processes agree with the queue up to one run for each
\* stall: each completed job was counted as processed and each failed attempt as
\* failed, for any number of jobs and processes that end or are late.
THEOREM CountersBracket == Spec => []CountersBracketTheQueue
<1> DEFINE CInv == IInv /\ FiniteInv /\ CountInv
<1>1. Init => CInv BY InitInv, CountInit
<1>2. CInv /\ [Next]_vars => CInv' BY Inductive, CountStep
<1>3. CInv => CountersBracketTheQueue
  <2> SUFFICES ASSUME IInv, FiniteInv, CountInv, InState("active") = {},
                      \A w \in Workers : at[w] = "none"
               PROVE  LET done == Cardinality(InState("completed") \cup InState("removed"))
                          failed == Total(made)
                          lost == Total(stalled)
                      IN /\ processed \in done..(done + lost)
                         /\ failures \in failed..(failed + lost)
                         /\ processed + failures <= done + failed + lost
    BY DEF CountersBracketTheQueue
  <2>1. RanJobs = Done BY DEF RanJobs, Ran, Done, InState
  <2>2. processed \in Nat /\ failures \in Nat BY DEF IInv, TypeOK
  <2>3. /\ processed + failures <= Total(made) + Total(stalled) + Cardinality(Done)
        /\ Cardinality(Done) <= processed /\ Total(made) <= failures
    BY <2>1, <2>2, Sizes DEF CountInv
  <2> QED BY <2>2, <2>3, Sizes DEF Done
<1> QED BY <1>1, <1>2, <1>3, PTL DEF Spec
=============================================================================
