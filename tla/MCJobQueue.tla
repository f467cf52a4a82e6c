----------------------------- MODULE MCJobQueue -----------------------------
(* JobQueue with two messages, two processes and one key.  A message comes   *)
(* through BackgroundJobsService, which leaves the attempts to the adapter,  *)
(* or asks for none at all, with a key and a delay or with an empty key.     *)
EXTENDS JobQueue

CONSTANTS job1, job2, worker1, worker2

MCJobs == {job1, job2}
MCWorkers == {worker1, worker2}
MCKeys == {"key"}
MCMessages == {
  [attempts |-> 0, deduplicationKey |-> "key", delayed |-> TRUE],
  [attempts |-> 0, deduplicationKey |-> "", delayed |-> FALSE]}
=============================================================================
