----------------------- MODULE ProcessLifecycleProofs -----------------------
(***************************************************************************)
(* Safety of ProcessLifecycle for every set of requests and of profiles.   *)
(* The invariants of the specification are not inductive: each             *)
(* follows from where bootstrap(), the socket, the phases of close() and   *)
(* the timer can stand together, which is what the conjuncts of IInv say.  *)
(***************************************************************************)
EXTENDS ProcessLifecycle, TLAPS

\* bootstrap() opens the pool first and the socket last.
BootInv ==
  /\ boot \in {"creating", "starting"} => http = "down"
  /\ boot = "creating" => ~shuttingDown
  /\ Running => boot # "failed"
  /\ boot = "ready" /\ close = "idle" => http = "open"
  /\ boot \in {"starting", "ready"} => rdb # "down"
  /\ rdb = "down" => http = "down"
  /\ http = "down" => early = {}

\* One signal starts one close(), and the timer is armed exactly meanwhile.
CloseInv ==
  /\ closes = IF shuttingDown THEN 1 ELSE 0
  /\ shuttingDown <=> close # "idle"
  /\ Settled => timer = "cleared"
  /\ close = "rejected" => exitCode = 1

\* What each phase of close() leaves behind.
PhaseInv ==
  /\ close \in {"disposing", "stopping", "resolved"} => redis \in {"off", "end"}
  /\ close = "resolved" => rdb \in {"closed", "leaked"}
  /\ rdb = "leaked" => close \notin {"idle", "destroying", "disposing"}
  /\ http \in {"draining", "closed"} => close \notin {"idle", "destroying"}
  /\ http = "closed" => close # "disposing"

\* Requests and the final log line.
RequestInv ==
  /\ http \in {"down", "closed"} => NoneActive
  /\ Running => \A r \in Requests : req[r] # "cut"
  /\ \A r \in early : req[r] # "none"
  /\ Running /\ Settled => log \in {"queued", "flushed"}

NoEarlyActive == \A r \in early : req[r] # "active"

\* Under the profiles with a shutdown hook the pool is closed behind the drain.
DrainInv ==
  /\ close = "disposing" /\ http # "draining" => early = {}
  /\ close \in {"stopping", "resolved"} => NoEarlyActive
  /\ PoolPhase = "stopping" /\ rdb \in {"closed", "leaked"} =>
       /\ close \in {"stopping", "resolved", "rejected"}
       /\ NoEarlyActive

Goals == CleanExitMeansCleanClose /\ FinalLineFlushed

IInv ==
  /\ TypeOK /\ BootInv /\ CloseInv /\ PhaseInv /\ RequestInv /\ DrainInv /\ Goals
-----------------------------------------------------------------------------

\* The states stay within their type, whatever the sets of requests are.
THEOREM TypeCorrect == Spec => []TypeOK
<1>1. ASSUME Init
      PROVE  TypeOK
  <2>1. shuttingDown \in BOOLEAN
    BY <1>1, Zenon DEF Init
  <2>2. closes \in Nat /\ exitCode \in {0, 1}
    BY <1>1 DEF Init
  <2>3. req \in [Requests -> {"none", "active", "cut"} \cup Outcomes]
    BY <1>1 DEF Init
  <2> QED
    BY <1>1, <2>1, <2>2, <2>3, Zenon DEF Init, TypeOK
<1>2. TypeOK /\ [Next]_vars => TypeOK'
  <2> SUFFICES ASSUME TypeOK, [Next]_vars
               PROVE  TypeOK'
    OBVIOUS
  <2> USE DEF TypeOK, vars, nestVars, shutdownVars, exitVars
  <2>1. CASE CreateApp
    BY <2>1 DEF CreateApp
  <2>2. CASE Listen
    BY <2>2 DEF Listen
  <2>3. CASE BootFails
    BY <2>3 DEF BootFails, CutOff
  <2>4. CASE RedisDrops
    BY <2>4 DEF RedisDrops
  <2>5. CASE RedisReconnects
    BY <2>5 DEF RedisReconnects
  <2>6. CASE SignalBeforeHandlers
    BY <2>6 DEF SignalBeforeHandlers, CutOff
  <2>7. CASE OnSignal
    <3>1. CASE shuttingDown
      BY <2>7, <3>1 DEF OnSignal
    <3>2. CASE ~shuttingDown
      <4>1. shuttingDown' \in BOOLEAN
        BY <2>7, <3>2, Zenon DEF OnSignal, StartClose
      <4>2. closes' \in Nat
        BY <2>7, <3>2 DEF OnSignal, StartClose
      <4> QED
        BY <2>7, <3>2, <4>1, <4>2, Zenon DEF OnSignal, StartClose
    <3> QED
      BY <3>1, <3>2
  <2>8. CASE QuitRedis
    BY <2>8 DEF QuitRedis
  <2>9. CASE QuitAcknowledged
    BY <2>9 DEF QuitAcknowledged
  <2>10. CASE QuitRejected
    BY <2>10 DEF QuitRejected, CloseRejected
  <2>11. CASE ClosePool
    BY <2>11 DEF ClosePool, PoolPhase
  <2>12. CASE PoolCloseRejected
    BY <2>12 DEF PoolCloseRejected, PoolPhase, CloseRejected
  <2>13. CASE DestroyHooksDone
    BY <2>13 DEF DestroyHooksDone
  <2>14. CASE Drained
    BY <2>14 DEF Drained
  <2>15. CASE ShutdownHooksDone
    BY <2>15 DEF ShutdownHooksDone, CloseFulfilled
  <2>16. CASE ForceExit
    BY <2>16 DEF ForceExit, CutOff
  <2>17. CASE FlushLog
    BY <2>17 DEF FlushLog
  <2>18. CASE NaturalExit
    BY <2>18 DEF NaturalExit, LoopAlive
  <2>19. ASSUME NEW r \in Requests, Arrive(r)
        PROVE  TypeOK'
    BY <2>19, LifecycleAssumption DEF Arrive
  <2>20. ASSUME NEW r \in Requests, Answer(r)
        PROVE  TypeOK'
    BY <2>20 DEF Answer, RedisReply, Outcomes
  <2>21. CASE Ended \/ UNCHANGED vars
    BY <2>21 DEF Ended
  <2>22. CASE PoolCloseLogged
    BY <2>22 DEF PoolCloseLogged, PoolPhase
  <2> QED
    BY <2>1, <2>2, <2>3, <2>4, <2>5, <2>6, <2>7, <2>8, <2>9, <2>10, <2>11, <2>12, <2>13, <2>14, <2>15, <2>16, <2>17, <2>18, <2>19, <2>20, <2>21, <2>22 DEF Next, Serve, Close
<1> QED
  BY <1>1, <1>2, PTL DEF Spec

\* IInv is inductive.
LEMMA InitInv ==
  ASSUME Init, TypeOK
  PROVE  IInv
<1>1. BootInv /\ PhaseInv
  BY DEF Init, BootInv, PhaseInv
<1>2. CloseInv
  BY Zenon DEF Init, CloseInv, Settled
<1>3. RequestInv /\ DrainInv
  BY DEF Init, RequestInv, DrainInv, NoneActive, NoEarlyActive, PoolPhase, Settled
<1>4. Goals
  BY DEF Init, Goals, CleanExitMeansCleanClose, FinalLineFlushed
<1> QED
  BY <1>1, <1>2, <1>3, <1>4 DEF IInv

LEMMA NextInv ==
  ASSUME IInv, TypeOK', [Next]_vars
  PROVE  IInv'
<1> USE DEF IInv, BootInv, CloseInv, PhaseInv, RequestInv, DrainInv, Goals,
            CleanExitMeansCleanClose, FinalLineFlushed, Running, Settled,
            NoneActive, NoEarlyActive, PoolPhase, vars, nestVars, shutdownVars, exitVars
<1>1. CASE CreateApp
  BY <1>1 DEF CreateApp, TypeOK
<1>2. CASE Listen
  BY <1>2 DEF Listen, TypeOK
<1>3. CASE BootFails
  BY <1>3 DEF BootFails, CutOff, TypeOK
<1>4. CASE RedisDrops
  BY <1>4 DEF RedisDrops, TypeOK
<1>5. CASE RedisReconnects
  BY <1>5 DEF RedisReconnects, TypeOK
<1>6. CASE SignalBeforeHandlers
  BY <1>6 DEF SignalBeforeHandlers, CutOff, TypeOK
<1>7. CASE OnSignal
  BY <1>7 DEF OnSignal, StartClose, TypeOK
<1>8. CASE QuitRedis
  BY <1>8 DEF QuitRedis, TypeOK
<1>9. CASE QuitAcknowledged
  BY <1>9 DEF QuitAcknowledged, TypeOK
<1>10. CASE QuitRejected
  BY <1>10 DEF QuitRejected, CloseRejected, TypeOK
<1>11. CASE ClosePool
  BY <1>11 DEF ClosePool, TypeOK
<1>12. CASE PoolCloseRejected
  BY <1>12 DEF PoolCloseRejected, CloseRejected, TypeOK
<1>13. CASE DestroyHooksDone
  BY <1>13 DEF DestroyHooksDone, TypeOK
<1>14. CASE Drained
  BY <1>14 DEF Drained, TypeOK
<1>15. CASE ShutdownHooksDone
  BY <1>15 DEF ShutdownHooksDone, CloseFulfilled, TypeOK
<1>16. CASE ForceExit
  BY <1>16 DEF ForceExit, CutOff, TypeOK
<1>17. CASE FlushLog
  BY <1>17 DEF FlushLog, TypeOK
<1>18. CASE NaturalExit
  BY <1>18 DEF NaturalExit, LoopAlive, TypeOK
<1>19. ASSUME NEW r \in Requests, Arrive(r)
      PROVE  IInv'
  BY <1>19 DEF Arrive, TypeOK
<1>20. ASSUME NEW r \in Requests, Answer(r)
      PROVE  IInv'
  BY <1>20 DEF Answer, RedisReply, TypeOK
<1>21. CASE Ended \/ UNCHANGED vars
  BY <1>21 DEF Ended, TypeOK
<1>22. CASE PoolCloseLogged
  BY <1>22 DEF PoolCloseLogged, TypeOK
<1> QED
  BY <1>1, <1>2, <1>3, <1>4, <1>5, <1>6, <1>7, <1>8, <1>9, <1>10, <1>11, <1>12, <1>13, <1>14, <1>15, <1>16, <1>17, <1>18, <1>19, <1>20, <1>21, <1>22 DEF Next, Serve, Close

LEMMA Inductive == Spec => []IInv
<1>1. Init /\ TypeOK => IInv
  BY InitInv
<1>2. IInv /\ TypeOK' /\ [Next]_vars => IInv'
  BY NextInv
<1> QED
  BY <1>1, <1>2, TypeCorrect, PTL DEF Spec

\* However many signals arrive, app.close() is called at most once.
THEOREM AtMostOneClose == Spec => []CloseOnce
<1>1. IInv => CloseOnce
  BY DEF IInv, CloseInv, CloseOnce
<1> QED
  BY <1>1, Inductive, PTL

\* Exit status 0 after a natural end means a complete shutdown.
THEOREM CleanExit == Spec => []CleanExitMeansCleanClose
<1>1. IInv => CleanExitMeansCleanClose
  BY DEF IInv, Goals
<1> QED
  BY <1>1, Inductive, PTL

\* A natural end never loses the line that reports the shutdown's outcome.
THEOREM FinalLine == Spec => []FinalLineFlushed
<1>1. IInv => FinalLineFlushed
  BY DEF IInv, Goals
<1> QED
  BY <1>1, Inductive, PTL

\* Under the profiles whose pool has a shutdown hook no request accepted before the signal loses the
\* pool while it is being handled.
THEOREM PoolOutlives == Spec => []PoolOutlivesDrain
<1>1. IInv => PoolOutlivesDrain
  <2> SUFFICES ASSUME IInv, PoolPhase = "stopping",
                      NEW r \in early, req[r] = "active"
               PROVE  rdb = "open"
    BY DEF PoolOutlivesDrain
  <2>1. rdb \notin {"closed", "leaked"}
    BY DEF IInv, DrainInv, NoEarlyActive
  <2>2. rdb # "down"
    BY DEF IInv, BootInv
  <2> QED
    BY <2>1, <2>2 DEF IInv, TypeOK
<1> QED
  BY <1>1, Inductive, PTL

\* The force-exit timer never ends a process whose close() has settled.
THEOREM BackstopSparesSettled == Spec => BackstopSparesSettledClose
<1>1. IInv /\ [Next]_vars => [Running /\ exit' = "forced" => ~Settled]_vars
  <2> SUFFICES ASSUME IInv, Next, Running, exit' = "forced"
               PROVE  ~Settled
    OBVIOUS
  <2>1. ForceExit
    BY DEF Next, Serve, Close, CreateApp, Listen, BootFails, Arrive, Answer,
           RedisDrops, RedisReconnects, SignalBeforeHandlers, OnSignal, QuitRedis,
           QuitAcknowledged, QuitRejected, ClosePool, PoolCloseLogged, PoolCloseRejected,
           CloseRejected, DestroyHooksDone, Drained, ShutdownHooksDone,
           CloseFulfilled, FlushLog, NaturalExit, Ended, Running, vars, exitVars
  <2> QED
    BY <2>1 DEF ForceExit, IInv, CloseInv
<1> QED
  BY <1>1, Inductive, PTL DEF Spec, BackstopSparesSettledClose
=============================================================================
