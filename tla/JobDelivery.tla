---------------------------- MODULE JobDelivery ----------------------------
(***************************************************************************)
(* What publishing a message promises, without a broker: a message that is *)
(* accepted is handled at least once or ends among the dead, where it      *)
(* stays; its handler runs a bounded number of times; and a message whose  *)
(* key belongs to a pending one is absorbed by it.                         *)
(***************************************************************************)
EXTENDS Naturals

CONSTANTS
  Jobs,   \* the messages that may be published
  Keys,   \* the deduplication keys
  Limits  \* how many runs of its handler a message may be granted

VARIABLES
  fate,    \* per message: unknown, pending, absorbed, done or dead
  key,     \* per message: its key, or "none"
  limit,   \* per message: how often its handler may run
  runs,    \* per message: how often its handler was started
  handled  \* the messages a handler has finished with success

vars == <<fate, key, limit, runs, handled>>

Pending == {j \in Jobs : fate[j] = "pending"}
HoldersOf(k) == {j \in Pending : key[j] = k}

Init ==
  /\ fate = [j \in Jobs |-> "unknown"]
  /\ key = [j \in Jobs |-> "none"]
  /\ limit = [j \in Jobs |-> 0]
  /\ runs = [j \in Jobs |-> 0]
  /\ handled = {}

Accept(j, k, n) ==
  /\ fate[j] = "unknown"
  /\ k \in Keys => HoldersOf(k) = {}
  /\ fate' = [fate EXCEPT ![j] = "pending"]
  /\ key' = [key EXCEPT ![j] = k]
  /\ limit' = [limit EXCEPT ![j] = n]
  /\ UNCHANGED <<runs, handled>>

Absorb(j, k) ==
  /\ fate[j] = "unknown"
  /\ k \in Keys /\ HoldersOf(k) # {}
  /\ fate' = [fate EXCEPT ![j] = "absorbed"]
  /\ UNCHANGED <<key, limit, runs, handled>>

Start(j) ==
  /\ fate[j] = "pending"
  /\ runs[j] < limit[j]
  /\ runs' = [runs EXCEPT ![j] = @ + 1]
  /\ UNCHANGED <<fate, key, limit, handled>>

\* A run may finish after its message was given to another, or given up.
Handle(j) ==
  /\ runs[j] > 0
  /\ handled' = handled \cup {j}
  /\ UNCHANGED <<fate, key, limit, runs>>

Complete(j) ==
  /\ fate[j] = "pending"
  /\ j \in handled
  /\ fate' = [fate EXCEPT ![j] = "done"]
  /\ UNCHANGED <<key, limit, runs, handled>>

Bury(j) ==
  /\ fate[j] = "pending"
  /\ runs[j] > 0
  /\ fate' = [fate EXCEPT ![j] = "dead"]
  /\ UNCHANGED <<key, limit, runs, handled>>

Next ==
  \E j \in Jobs :
    \/ \E k \in Keys \cup {"none"}, n \in Limits : Accept(j, k, n)
    \/ \E k \in Keys : Absorb(j, k)
    \/ Start(j) \/ Handle(j) \/ Complete(j) \/ Bury(j)

Spec == Init /\ [][Next]_vars
=============================================================================
