-------------------------- MODULE ProcessLifecycle --------------------------
(***************************************************************************)
(* The life of one API process: bootstrap() in src/main.ts, the signal     *)
(* handlers and the unref'd force-exit timer of registerGracefulShutdown,  *)
(* the phases of the Nest app.close() they start, the destroy hook of      *)
(* RedisService, the hook by which the ORM profile closes its pool, and    *)
(* the HTTP requests in flight meanwhile.                                  *)
(*                                                                         *)
(* app.close() awaits, in this order, the onModuleDestroy hooks            *)
(* ("destroying"), the HTTP server's close, which waits for the requests   *)
(* it has accepted ("disposing"), and the onApplicationShutdown hooks      *)
(* ("stopping").  A hook that rejects aborts the phases after it.  The     *)
(* pool's hook is @nestjs/typeorm's (onApplicationShutdown, which logs a   *)
(* failing destroy() and resolves), @mikro-orm/nestjs's (the same phase,   *)
(* but it rejects) or the onModuleDestroy of the drizzle and prisma        *)
(* templates (which rejects as well; "drizzle" stands for both).           *)
(***************************************************************************)
EXTENDS Naturals

CONSTANTS
  Requests,     \* HTTP requests that may arrive
  RedisUsers,   \* requests whose handler goes through RedisService
  PoolUsers,    \* requests whose handler queries the relational database
  Profiles      \* the ORM profiles the process may have been generated with

ASSUME LifecycleAssumption ==
  /\ RedisUsers \subseteq Requests
  /\ PoolUsers \subseteq Requests \ RedisUsers
  /\ Profiles \subseteq {"typeorm", "mikroorm", "drizzle"}

VARIABLES
  profile,      \* the ORM profile, which never changes
  boot,         \* where bootstrap() stands
  http,         \* the listening socket
  redis,        \* status of the ioredis client; "off" when there is none
  rdb,          \* the database pool; "leaked" when closing it has failed
  req,          \* per request: its state or its outcome
  early,        \* history: requests accepted before the first signal
  shuttingDown, \* the flag of registerGracefulShutdown
  timer,        \* the forceExit timer
  close,        \* phase of the promise app.close() returned
  closes,       \* history: how often app.close() was called
  log,          \* the final log line on its way through the pino worker
  exitCode,     \* process.exitCode
  exit          \* how the process ended

vars == <<profile, boot, http, redis, rdb, req, early, shuttingDown, timer,
          close, closes, log, exitCode, exit>>
nestVars == <<profile, boot, http, redis, rdb>>
shutdownVars == <<shuttingDown, timer, close, closes, log>>
exitVars == <<exitCode, exit>>

Outcomes == {"ok", "unavailable", "error", "orphaned"}

\* The type of the state: every phase, handle and outcome the code has.
TypeOK ==
  /\ boot \in {"creating", "starting", "ready", "failed"}
  /\ http \in {"down", "open", "draining", "closed"}
  /\ redis \in {"off", "wait", "ready", "lost", "quitting", "end"}
  /\ profile \in Profiles
  /\ rdb \in {"down", "open", "closed", "leaked"}
  /\ req \in [Requests -> {"none", "active", "cut"} \cup Outcomes]
  /\ early \subseteq Requests
  /\ shuttingDown \in BOOLEAN
  /\ timer \in {"unset", "armed", "cleared", "fired"}
  /\ close \in {"idle", "destroying", "disposing", "stopping", "resolved", "rejected"}
  /\ closes \in Nat
  /\ log \in {"none", "queued", "flushed", "lost"}
  /\ exitCode \in {0, 1}
  /\ exit \in {"running", "natural", "forced", "killed", "crashed"}

Init ==
  /\ profile \in Profiles
  /\ boot = "creating" /\ http = "down" /\ rdb = "down"
  /\ redis \in {"off", "wait"}    \* REDIS_ENABLED; a client is lazyConnect
  /\ req = [r \in Requests |-> "none"] /\ early = {}
  /\ shuttingDown = FALSE /\ timer = "unset"
  /\ close = "idle" /\ closes = 0 /\ log = "none"
  /\ exitCode = 0 /\ exit = "running"

Running == exit = "running"
Settled == close \in {"resolved", "rejected"}
NoneActive == \A r \in Requests : req[r] # "active"

\* What an abrupt end does to the requests in flight and to the queued line.
CutOff ==
  /\ req' = [r \in Requests |-> IF req[r] = "active" THEN "cut" ELSE req[r]]
  /\ log' = IF log = "queued" THEN "lost" ELSE log

-----------------------------------------------------------------------------
(* bootstrap()                                                             *)

\* NestFactory.create opens the pool; configureHttpApp and
\* registerGracefulShutdown follow without yielding, then listen is awaited.
CreateApp ==
  /\ Running
  /\ boot = "creating"
  /\ boot' = "starting" /\ rdb' = "open"
  /\ UNCHANGED <<profile, http, redis, req, early, shutdownVars, exitVars>>

\* app.listen fulfils.  bootstrap() does not look at shuttingDown, so a close
\* that ran meanwhile does not stop the socket from opening.
Listen ==
  /\ Running
  /\ boot = "starting"
  /\ boot' = "ready" /\ http' = "open"
  /\ UNCHANGED <<profile, redis, rdb, req, early, shutdownVars, exitVars>>

\* create or listen rejects: `void bootstrap()` leaves the rejection unhandled.
BootFails ==
  /\ Running
  /\ boot \in {"creating", "starting"}
  /\ boot' = "failed" /\ exit' = "crashed" /\ exitCode' = 1
  /\ CutOff
  /\ UNCHANGED <<profile, http, redis, rdb, early, shuttingDown, timer, close, closes>>

-----------------------------------------------------------------------------
(* Requests and the Redis client                                           *)

Arrive(r) ==
  /\ Running
  /\ http = "open" /\ req[r] = "none"
  /\ req' = [req EXCEPT ![r] = "active"]
  /\ early' = IF shuttingDown THEN early ELSE early \cup {r}
  /\ UNCHANGED <<nestVars, shutdownVars, exitVars>>

ReplyVerbatim(status) == status

\* What getRequiredConnectedClient and the command after it give the caller:
\* 503 without a client, a connect() only out of "wait", else the command
\* itself, which a lost connection rejects and an ended client refuses.
RedisReply(status) ==
  CASE status = "off"                -> "unavailable"
    [] status = "ready"              -> "ok"
    [] status = "lost"               -> "error"
    [] status \in {"quitting", "end"} -> "orphaned"

\* Handling of r ends.  A client still in "wait" is connected first, and the
\* connect may fail.
Answer(r) ==
  /\ Running
  /\ req[r] = "active"
  /\ \/ /\ r \in RedisUsers
        /\ redis' \in IF redis = "wait" THEN {"ready", "lost"} ELSE {redis}
        /\ req' = [req EXCEPT ![r] = RedisReply(redis')]
     \/ /\ r \notin RedisUsers
        /\ redis' = redis
        /\ req' = [req EXCEPT ![r] = IF r \in PoolUsers /\ rdb # "open"
                                       THEN "orphaned" ELSE "ok"]
  /\ UNCHANGED <<profile, boot, http, rdb, early, shutdownVars, exitVars>>

RedisDrops ==
  /\ Running
  /\ redis = "ready" /\ redis' = "lost"
  /\ UNCHANGED <<profile, boot, http, rdb, req, early, shutdownVars, exitVars>>

RedisReconnects ==
  /\ Running
  /\ redis = "lost" /\ redis' = "ready"
  /\ UNCHANGED <<profile, boot, http, rdb, req, early, shutdownVars, exitVars>>

-----------------------------------------------------------------------------
(* Signals                                                                 *)

\* Before registerGracefulShutdown has run, a signal has its default effect.
SignalBeforeHandlers ==
  /\ Running
  /\ boot = "creating"
  /\ exit' = "killed"
  /\ CutOff
  /\ UNCHANGED <<nestVars, early, shuttingDown, timer, close, closes, exitCode>>

StartCloseWithoutTimer ==
  /\ shuttingDown' = TRUE /\ timer' = timer
  /\ close' = "destroying" /\ closes' = closes + 1

StartClose ==
  /\ shuttingDown' = TRUE /\ timer' = "armed"
  /\ close' = "destroying" /\ closes' = closes + 1

OnSignalUnguarded ==
  /\ Running
  /\ boot \in {"starting", "ready"}
  /\ StartClose
  /\ UNCHANGED <<nestVars, req, early, log, exitVars>>

\* The handler: only the first signal starts a close, later ones return early.
OnSignal ==
  /\ Running
  /\ boot \in {"starting", "ready"}
  /\ \/ /\ ~shuttingDown /\ StartClose
        /\ UNCHANGED <<nestVars, req, early, log, exitVars>>
     \/ /\ shuttingDown /\ UNCHANGED vars

-----------------------------------------------------------------------------
(* Phases of app.close()                                                   *)

FulfilKeepingTimer ==
  /\ close' = "resolved" /\ timer' = timer /\ log' = "queued"
  /\ UNCHANGED exitVars

FulfilAndExit ==
  /\ close' = "resolved" /\ timer' = "cleared" /\ log' = "queued"
  /\ exit' = "natural" /\ UNCHANGED exitCode

\* then(): the timer is cleared and the last line logged, no process.exit().
CloseFulfilled ==
  /\ close' = "resolved" /\ timer' = "cleared" /\ log' = "queued"
  /\ UNCHANGED exitVars

RejectWithoutExitCode ==
  /\ close' = "rejected" /\ timer' = "cleared" /\ log' = "queued"
  /\ UNCHANGED exitVars

\* catch(): the timer is cleared here as well, and only the exit code is set.
CloseRejected ==
  /\ close' = "rejected" /\ timer' = "cleared" /\ log' = "queued"
  /\ exitCode' = 1 /\ UNCHANGED exit

\* RedisService.onModuleDestroy: quit() unless there is no client or it has
\* ended.  A client that never connected is ended locally.
QuitRedis ==
  /\ Running
  /\ close = "destroying" /\ redis \in {"wait", "ready", "lost"}
  /\ redis' = IF redis = "wait" THEN "end" ELSE "quitting"
  /\ UNCHANGED <<profile, boot, http, rdb, req, early, shutdownVars, exitVars>>

QuitAcknowledged ==
  /\ Running
  /\ close = "destroying" /\ redis = "quitting" /\ redis' = "end"
  /\ UNCHANGED <<profile, boot, http, rdb, req, early, shutdownVars, exitVars>>

\* quit() rejects (the connection is gone): the hook, hence close(), rejects.
QuitRejected ==
  /\ Running
  /\ close = "destroying" /\ redis = "quitting"
  /\ redis' \in {"lost", "end"}
  /\ CloseRejected
  /\ UNCHANGED <<profile, boot, http, rdb, req, early, shuttingDown, closes>>

PoolPhase == IF profile = "drizzle" THEN "destroying" ELSE "stopping"

ClosePoolInDestroyHook ==
  /\ Running
  /\ close = "destroying" /\ rdb = "open" /\ rdb' = "closed"
  /\ UNCHANGED <<profile, boot, http, redis, req, early, shutdownVars, exitVars>>

\* The hook of the ORM profile closes the pool.
ClosePool ==
  /\ Running
  /\ close = PoolPhase /\ rdb = "open" /\ rdb' = "closed"
  /\ UNCHANGED <<profile, boot, http, redis, req, early, shutdownVars, exitVars>>

\* dataSource.destroy() fails: @nestjs/typeorm logs it, and its hook is over
\* with connections left open.
PoolCloseLogged ==
  /\ Running
  /\ profile = "typeorm"
  /\ close = PoolPhase /\ rdb = "open" /\ rdb' = "leaked"
  /\ UNCHANGED <<profile, boot, http, redis, req, early, shutdownVars, exitVars>>

\* The hooks of the other profiles reject, and close() with them.
PoolCloseRejected ==
  /\ Running
  /\ profile # "typeorm"
  /\ close = PoolPhase /\ rdb = "open" /\ rdb' \in {"leaked", "closed"}
  /\ CloseRejected
  /\ UNCHANGED <<profile, boot, http, redis, req, early, shuttingDown, closes>>

DestroyHooksDoneKeepingRedis ==
  /\ Running
  /\ close = "destroying"
  /\ PoolPhase = "destroying" => rdb = "closed"
  /\ close' = "disposing"
  /\ http' = IF http = "open" THEN "draining" ELSE http
  /\ UNCHANGED <<profile, boot, redis, rdb, req, early, shuttingDown, timer, closes,
                 log, exitVars>>

\* Every destroy hook has resolved: the server stops accepting, if it listens.
DestroyHooksDone ==
  /\ Running
  /\ close = "destroying"
  /\ redis \in {"off", "end"}
  /\ PoolPhase = "destroying" => rdb = "closed"
  /\ close' = "disposing"
  /\ http' = IF http = "open" THEN "draining" ELSE http
  /\ UNCHANGED <<profile, boot, redis, rdb, req, early, shuttingDown, timer, closes,
                 log, exitVars>>

\* server.close() calls back once the accepted requests are answered, or at
\* once when the server was not listening.
Drained ==
  /\ Running
  /\ close = "disposing"
  /\ http = "draining" => NoneActive
  /\ close' = "stopping"
  /\ http' = IF http = "draining" THEN "closed" ELSE http
  /\ UNCHANGED <<profile, boot, redis, rdb, req, early, shuttingDown, timer, closes,
                 log, exitVars>>

\* The shutdown hooks are over; that of the pool need not have closed it.
ShutdownHooksDone ==
  /\ Running
  /\ close = "stopping" /\ rdb # "open"
  /\ CloseFulfilled
  /\ UNCHANGED <<nestVars, req, early, shuttingDown, closes>>

-----------------------------------------------------------------------------
(* Ends of the process                                                     *)

\* The timer fires: process.exit(1), whatever is still pending.
ForceExit ==
  /\ Running
  /\ timer = "armed"
  /\ timer' = "fired" /\ exit' = "forced" /\ exitCode' = 1
  /\ CutOff
  /\ UNCHANGED <<nestVars, early, shuttingDown, close, closes>>

\* The worker thread of the pino transport ships the queued line.
FlushLog ==
  /\ Running
  /\ log = "queued" /\ log' = "flushed"
  /\ UNCHANGED <<nestVars, req, early, shuttingDown, timer, close, closes,
                 exitVars>>

\* What keeps the event loop alive: open handles, and the input or output a
\* pending hook awaits.  The unref'd timer is not among it.
LoopAlive ==
  \/ boot \in {"creating", "starting"}
  \/ http \in {"open", "draining"}
  \/ redis \in {"ready", "lost", "quitting"}
  \/ rdb \in {"open", "leaked"}
  \/ close \in {"destroying", "disposing", "stopping"}
  \/ log = "queued"

\* Nothing is left to wait for: node exits with process.exitCode.
NaturalExit ==
  /\ Running
  /\ ~LoopAlive
  /\ exit' = "natural"
  /\ UNCHANGED <<nestVars, req, early, shutdownVars, exitCode>>

Serve == \E r \in Requests : Arrive(r) \/ Answer(r)
Close ==
  \/ QuitRedis \/ QuitAcknowledged \/ QuitRejected
  \/ ClosePool \/ PoolCloseLogged \/ PoolCloseRejected
  \/ DestroyHooksDone \/ Drained \/ ShutdownHooksDone

\* A process that has ended takes no further step.
Ended == ~Running /\ UNCHANGED vars

Next ==
  \/ CreateApp \/ Listen \/ BootFails
  \/ Serve \/ RedisDrops \/ RedisReconnects
  \/ SignalBeforeHandlers \/ OnSignal \/ Close
  \/ ForceExit \/ FlushLog \/ NaturalExit \/ Ended

\* Fair are the runtime's own steps: a due timer fires while the loop is
\* alive, an empty loop ends the process, the log worker drains its queue, and
\* listen settles.  Clients, signals, Redis and hooks owe nothing: a request or
\* a hook may hang for ever.
Fairness ==
  /\ WF_vars(ForceExit)
  /\ WF_vars(NaturalExit)
  /\ WF_vars(FlushLog)
  /\ WF_vars(Listen \/ BootFails)

Spec == Init /\ [][Next]_vars /\ Fairness

-----------------------------------------------------------------------------
(* Safety                                                                  *)

\* app.close() runs at most once however many SIGINT and SIGTERM arrive: a
\* second call would run every destroy hook again over half-closed modules.
CloseOnce == closes <= 1

\* Exit status 0 after a natural end tells the orchestrator that the shutdown
\* was complete: close() resolved, nothing was left open (a pool whose hook
\* failed without rejecting included), no request was cut.
CleanExitMeansCleanClose ==
  exit = "natural" /\ exitCode = 0 =>
    /\ close = "resolved"
    /\ http \in {"down", "closed"} /\ rdb = "closed" /\ redis \in {"off", "end"}
    /\ \A r \in Requests : req[r] \notin {"active", "cut"}

\* The last line of a shutdown, failed or not, is never lost to a natural end
\* (the reason why main.ts sets process.exitCode and does not call exit()).
FinalLineFlushed == exit = "natural" => log = "flushed"

\* With the pool closed in onApplicationShutdown, a request accepted before the
\* signal never finds its pool gone: the drain comes first.
PoolOutlivesDrain ==
  PoolPhase = "stopping" => \A r \in early : req[r] = "active" => rdb = "open"

\* Draining means that a request accepted before the signal is answered from
\* the dependencies it was accepted with.
DrainKeepsDependencies == \A r \in early : req[r] # "orphaned"

\* The backstop never ends a process whose close() has already settled, so it
\* cannot cut off the line that reports the outcome.
BackstopSparesSettledClose ==
  [][Running /\ exit' = "forced" => ~Settled]_vars

-----------------------------------------------------------------------------
(* Liveness                                                                *)

\* Neither a hanging hook nor a request that never ends holds a shutdown for
\* ever: close() settles or the process is gone.
CloseIsBounded == shuttingDown ~> (~Running \/ Settled)

\* A close() that resolved after the server had been listening, and whose pool
\* did close, lets the event loop run empty: no handle was forgotten.  A pool
\* that failed to close keeps the process for good, because then() has cleared
\* the timer all the same.
CleanShutdownExits ==
  (close = "resolved" /\ http = "closed" /\ rdb # "leaked") ~> ~Running

\* A failed close() still ends the process (the comment over
\* registerGracefulShutdown: without the timeout it would stay for ever).
FailedCloseExits == close = "rejected" ~> ~Running
=============================================================================
