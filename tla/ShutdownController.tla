------------------------- MODULE ShutdownController -------------------------
(***************************************************************************)
(* The process-wide shutdown of orca (src/jobcontroller/jobcontroller.go) *)
(* together with the goroutines that drive it and wait on it in main.go:  *)
(*   - the ShutdownController: a status under a mutex, the one-shot       *)
(*     shutdownRequestC, ShutdownCtx (cancelled on Demand and Force), the  *)
(*     two AfterFunc deadline timers and the shutdownWaiter goroutine that *)
(*     waits on the job WaitGroup and then closes Done;                   *)
(*   - its callers: the SIGINT handler (Request, Demand, Force on three    *)
(*     interrupts) and the log reader calling Demand on a Fatal message;   *)
(*   - the SSH server: its ListenAndServe job, the watcher goroutine that  *)
(*     shuts it down, and session handlers, each a job that ends when its  *)
(*     user leaves or ShutdownCtx is cancelled, and whose container is    *)
(*     then removed under CleanupCtx;                                      *)
(*   - the web server: the goroutine webHandler spawns (a job), its       *)
(*     watcher loop, and HTTP requests, whose Director is a job.          *)
(* Every method runs under sc.lock, so each is one step.                  *)
(***************************************************************************)
EXTENDS Naturals

CONSTANTS
    Sessions,           \* SSH sessions that may be opened
    Requests,           \* HTTP requests that may reach the web server
    RequestDeadlineSet, \* requestDeadline != -1 (main: 15 min)
    DemandDeadlineSet,  \* demandDeadline != -1 (main: 5 s)
    DockerMayHang       \* whether ContainerRemove may never answer

\* ShutdownStatus, in the order of the iota constants.
Working == 0
Requested == 1
Demanded == 2
Forced == 3
Done == 4

VARIABLES
    status,          \* sc.status
    requestTimer,    \* sc.requestDeadlineT # nil (armed)
    demandTimer,     \* sc.demandDeadlineT # nil (armed)
    waiting,         \* shutdownWaiter goroutines blocked in wg.Wait()
    requestClosed,   \* shutdownRequestC closed
    shutdownCtxDone, \* ShutdownCtx cancelled: jc.Done() is ready
    doneClosed,      \* shutdownDoneC closed: main returns
    pendingDemand,   \* an expired request deadline's call to Demand is pending
    pendingForce,    \* an expired demand deadline's call to Force is pending
    wg,              \* the job WaitGroup counter
    interrupts,      \* interruptCount of the SIGINT handler
    ihAlive,         \* the SIGINT handler goroutine is running
    listener,        \* SSH listener "open" | "shut"
    conns,           \* SSH connections "open" | "closed" (by s.Close())
    watcher,         \* SSH shutdown goroutine "idle" | "draining" | "done"
    serverJob,       \* SSH ListenAndServe job "running" | "returned"
    sess,            \* sess[s]: "none" | "spawned" | "running" | "cleanup" | "ended"
    webJob,          \* web server goroutine "spawned" | "serving" | "draining" | "returned"
    webListener,     \* web listener "none" | "open" | "shut"
    webConns,        \* web connections "open" | "closed" (by s.Close())
    req              \* req[r]: "none" | "spawned" | "director" | "proxy" | "ended"

ctlVars == <<status, requestTimer, demandTimer, waiting,
             requestClosed, shutdownCtxDone, doneClosed>>
webVars == <<webJob, webListener, webConns, req>>
envVars == <<wg, interrupts, ihAlive, listener, conns, watcher, serverJob, sess, webVars>>
timerVars == <<pendingDemand, pendingForce>>
vars == <<ctlVars, timerVars, envVars>>

Init ==
    /\ status = Working
    /\ requestTimer = FALSE /\ demandTimer = FALSE
    /\ waiting = 0
    /\ requestClosed = FALSE /\ shutdownCtxDone = FALSE /\ doneClosed = FALSE
    /\ pendingDemand = FALSE /\ pendingForce = FALSE
    /\ wg = 1                       \* the SSH server job, added at start-up
    /\ interrupts = 0 /\ ihAlive = TRUE
    /\ listener = "open" /\ conns = "open"
    /\ watcher = "idle" /\ serverJob = "running"
    /\ sess = [s \in Sessions |-> "none"]
    \* webHandler has returned; the goroutine it spawned has not yet run
    /\ webJob = "spawned" /\ webListener = "none" /\ webConns = "open"
    /\ req = [r \in Requests |-> "none"]

(* if sc.status == Working { go sc.shutdownWaiter() }                     *)
StartWaiter ==
    /\ waiting' = waiting + (IF status = Working THEN 1 ELSE 0)

\* Mutant: the request deadline never armed.
RequestWithoutDeadline ==
    IF status < Requested
    THEN /\ StartWaiter
         /\ requestClosed' = TRUE
         /\ status' = Requested
         /\ UNCHANGED <<requestTimer, demandTimer, shutdownCtxDone, doneClosed>>
    ELSE UNCHANGED ctlVars

(* Request(): close shutdownRequestC and arm the request deadline.        *)
Request ==
    IF status < Requested
    THEN /\ StartWaiter
         /\ requestClosed' = TRUE
         /\ status' = Requested
         /\ requestTimer' = RequestDeadlineSet
         /\ UNCHANGED <<demandTimer, shutdownCtxDone, doneClosed>>
    ELSE UNCHANGED ctlVars

(* Demand(): cancel ShutdownCtx, arm the demand deadline, stop the        *)
(* request deadline.                                                      *)
Demand ==
    IF status < Demanded
    THEN /\ StartWaiter
         /\ shutdownCtxDone' = TRUE
         /\ status' = Demanded
         /\ demandTimer' = DemandDeadlineSet
         /\ requestTimer' = FALSE
         /\ UNCHANGED <<requestClosed, doneClosed>>
    ELSE UNCHANGED ctlVars

\* Mutant: Force guarded by status != Forced instead of status < Forced.
ForceUnlessForced ==
    IF status # Forced
    THEN /\ StartWaiter
         /\ shutdownCtxDone' = TRUE
         /\ status' = Forced
         /\ requestTimer' = FALSE /\ demandTimer' = FALSE
         /\ UNCHANGED <<requestClosed, doneClosed>>
    ELSE UNCHANGED ctlVars

(* Force(): cancel ShutdownCtx (closeShutdownCtx, the code never calls    *)
(* closeCleanupCtx) and stop both deadlines.                              *)
Force ==
    IF status < Forced
    THEN /\ StartWaiter
         /\ shutdownCtxDone' = TRUE
         /\ status' = Forced
         /\ requestTimer' = FALSE /\ demandTimer' = FALSE
         /\ UNCHANGED <<requestClosed, doneClosed>>
    ELSE UNCHANGED ctlVars

(* shutdownWaiter: wg.Wait() returns, Done is closed, status = Done and   *)
(* both deadlines stopped.                                                *)
WaiterReturns ==
    /\ waiting > 0 /\ wg = 0
    /\ waiting' = waiting - 1
    /\ doneClosed' = TRUE
    /\ status' = Done
    /\ requestTimer' = FALSE /\ demandTimer' = FALSE
    /\ UNCHANGED <<requestClosed, shutdownCtxDone, timerVars, envVars>>

-----------------------------------------------------------------------------
(* An AfterFunc deadline expires: its function starts in a goroutine of  *)
(* its own; a later Stop() on the field no longer cancels it.             *)
RequestDeadlineExpires ==
    /\ requestTimer
    /\ requestTimer' = FALSE /\ pendingDemand' = TRUE
    /\ UNCHANGED <<status, demandTimer, waiting, requestClosed,
                   shutdownCtxDone, doneClosed, pendingForce, envVars>>

DemandDeadlineExpires ==
    /\ demandTimer
    /\ demandTimer' = FALSE /\ pendingForce' = TRUE
    /\ UNCHANGED <<status, requestTimer, waiting, requestClosed,
                   shutdownCtxDone, doneClosed, pendingDemand, envVars>>

(* The expired request deadline's goroutine calls sc.Demand; the demand   *)
(* deadline's calls sc.Force.                                             *)
DeadlineCallsDemand ==
    /\ pendingDemand
    /\ Demand
    /\ pendingDemand' = FALSE
    /\ UNCHANGED <<pendingForce, envVars>>

DeadlineCallsForce ==
    /\ pendingForce
    /\ Force
    /\ pendingForce' = FALSE
    /\ UNCHANGED <<pendingDemand, envVars>>

(* InterruptHandler: the first SIGINT requests, the second demands, the   *)
(* third forces and ends the handler.                                     *)
Interrupt ==
    /\ ihAlive
    /\ \/ /\ interrupts = 0 /\ interrupts' = 1 /\ Request
          /\ UNCHANGED ihAlive
       \/ /\ interrupts = 1 /\ interrupts' = 2 /\ Demand
          /\ UNCHANGED ihAlive
       \/ /\ interrupts = 2 /\ Force
          /\ ihAlive' = FALSE /\ UNCHANGED interrupts
    /\ UNCHANGED <<pendingDemand, pendingForce, wg, listener, conns, watcher, serverJob, sess, webVars>>

(* InterruptHandler: <-sc.Done() ends the handler.                        *)
InterruptHandlerExits ==
    /\ ihAlive /\ doneClosed
    /\ ihAlive' = FALSE
    /\ UNCHANGED <<ctlVars, pendingDemand, pendingForce, wg, interrupts, listener, conns, watcher, serverJob, sess, webVars>>

(* The log reader in main demands a shutdown on every Fatal message.      *)
FatalLogged ==
    /\ Demand
    /\ UNCHANGED <<timerVars, envVars>>

-----------------------------------------------------------------------------
(* SSH watcher goroutine: <-shutdownReq, then s.Shutdown(jc), which       *)
(* closes the listeners and waits for the connections or ShutdownCtx.     *)
SSHGracefulShutdown ==
    /\ watcher = "idle" /\ requestClosed
    /\ watcher' = "draining" /\ listener' = "shut"
    /\ UNCHANGED <<ctlVars, pendingDemand, pendingForce, wg, interrupts, ihAlive, conns, serverJob, sess, webVars>>

(* SSH watcher: ShutdownCtx cancelled, either directly or as the error of *)
(* s.Shutdown(jc): s.Close() closes the listeners and every connection.   *)
SSHClose ==
    /\ watcher \in {"idle", "draining"} /\ shutdownCtxDone
    /\ watcher' = "done" /\ listener' = "shut" /\ conns' = "closed"
    /\ UNCHANGED <<ctlVars, pendingDemand, pendingForce, wg, interrupts, ihAlive, serverJob, sess, webVars>>

\* Mutant: Job.Done called on every pass of the restart loop.
ListenAndServeReturnsDoneInLoop ==
    /\ serverJob = "running" /\ listener = "shut"
    /\ wg' = wg - 1
    /\ UNCHANGED <<ctlVars, pendingDemand, pendingForce, interrupts, ihAlive, listener, conns, watcher, serverJob, sess, webVars>>

(* SSH server job: ListenAndServe returns once the listener is shut; the  *)
(* server is shutting down, so the job returns and calls Job.Done.        *)
ListenAndServeReturns ==
    /\ serverJob = "running" /\ listener = "shut"
    /\ serverJob' = "returned" /\ wg' = wg - 1
    /\ UNCHANGED <<ctlVars, pendingDemand, pendingForce, interrupts, ihAlive, listener, conns, watcher, sess, webVars>>

(* A session opened on a live connection: the server spawns the Handler  *)
(* goroutine.  Nothing runs once main has returned.                       *)
Accept(s) ==
    /\ sess[s] = "none" /\ conns = "open" /\ ~doneClosed
    /\ sess' = [sess EXCEPT ![s] = "spawned"]
    /\ UNCHANGED <<ctlVars, pendingDemand, pendingForce, wg, interrupts, ihAlive, listener, conns, watcher, serverJob, webVars>>

(* Handler: jc.Job.Add(1), made inside the spawned goroutine.             *)
HandlerAdd(s) ==
    /\ sess[s] = "spawned"
    /\ sess' = [sess EXCEPT ![s] = "running"] /\ wg' = wg + 1
    /\ UNCHANGED <<ctlVars, pendingDemand, pendingForce, interrupts, ihAlive, listener, conns, watcher, serverJob, webVars>>

(* The user ends the session.                                             *)
SessionEnds(s) ==
    /\ sess[s] = "running"
    /\ sess' = [sess EXCEPT ![s] = "cleanup"]
    /\ UNCHANGED <<ctlVars, pendingDemand, pendingForce, wg, interrupts, ihAlive, listener, conns, watcher, serverJob, webVars>>

(* sshHandler returns before it has a container: the User value is        *)
(* missing, the menu fails (the user quits, or the proxy was closed), or   *)
(* GetContainer failed maxRestarts times (a Fatal, whose Demand is        *)
(* FatalLogged).  The exit handler writes its message and the deferred     *)
(* Job.Done runs.                                                         *)
SessionFails(s) ==
    /\ sess[s] = "running"
    /\ sess' = [sess EXCEPT ![s] = "ended"] /\ wg' = wg - 1
    /\ UNCHANGED <<ctlVars, pendingDemand, pendingForce, interrupts, ihAlive, listener, conns, watcher, serverJob, webVars>>

(* sshHandler: <-jc.Done() closes the session proxy and the session ends. *)
SessionInterrupted(s) ==
    /\ sess[s] = "running" /\ shutdownCtxDone
    /\ sess' = [sess EXCEPT ![s] = "cleanup"]
    /\ UNCHANGED <<ctlVars, pendingDemand, pendingForce, wg, interrupts, ihAlive, listener, conns, watcher, serverJob, webVars>>

(* The session's container is removed with ContainerRemove(CleanupCtx);   *)
(* when Docker answers, the job calls Job.Done.  No step of the code      *)
(* cancels CleanupCtx before main returns, so nothing else ends the call. *)
CleanupReturns(s) ==
    /\ sess[s] = "cleanup"
    /\ sess' = [sess EXCEPT ![s] = "ended"] /\ wg' = wg - 1
    /\ UNCHANGED <<ctlVars, pendingDemand, pendingForce, interrupts, ihAlive, listener, conns, watcher, serverJob, webVars>>

-----------------------------------------------------------------------------
(* Web server goroutine spawned by webHandler: jc.Job.Add(1) is made      *)
(* inside it, then the ListenAndServe goroutine opens the listener.        *)
(* Nothing runs once main has returned.                                   *)
WebJobAdd ==
    /\ webJob = "spawned" /\ ~doneClosed
    /\ webJob' = "serving" /\ webListener' = "open" /\ wg' = wg + 1
    /\ UNCHANGED <<ctlVars, timerVars, interrupts, ihAlive, listener, conns,
                   watcher, serverJob, sess, webConns, req>>

(* Web watcher loop: <-shutdownReq, then s.Shutdown(jc.ShutdownCtx)       *)
(* closes the listener and waits for the active connections.              *)
WebGracefulShutdown ==
    /\ webJob = "serving" /\ requestClosed
    /\ webJob' = "draining" /\ webListener' = "shut"
    /\ UNCHANGED <<ctlVars, timerVars, wg, interrupts, ihAlive, listener, conns,
                   watcher, serverJob, sess, webConns, req>>

(* s.Shutdown returns nil once no connection is active (a connection whose *)
(* handler goroutine has started counts as active): return, Job.Done.     *)
WebShutdownReturns ==
    /\ webJob = "draining"
    /\ \A r \in Requests : req[r] \in {"none", "ended"}
    /\ webJob' = "returned" /\ wg' = wg - 1
    /\ UNCHANGED <<ctlVars, timerVars, interrupts, ihAlive, listener, conns,
                   watcher, serverJob, sess, webListener, webConns, req>>

(* ShutdownCtx cancelled: either the select takes <-jc.Done(), or         *)
(* s.Shutdown returns its error, the Fatal is logged (the log reader's    *)
(* Demand is then a no-op) and the next pass takes <-jc.Done(), since     *)
(* shutdownReq is nil.  s.Close() closes the listener and every           *)
(* connection; the goroutine returns and calls Job.Done.                  *)
WebClose ==
    /\ webJob \in {"serving", "draining"} /\ shutdownCtxDone
    /\ webJob' = "returned" /\ webListener' = "shut" /\ webConns' = "closed"
    /\ wg' = wg - 1
    /\ UNCHANGED <<ctlVars, timerVars, interrupts, ihAlive, listener, conns,
                   watcher, serverJob, sess, req>>

(* A request on the open listener: the server spawns its handler.          *)
RequestAccepted(r) ==
    /\ req[r] = "none" /\ webListener = "open" /\ ~doneClosed
    /\ req' = [req EXCEPT ![r] = "spawned"]
    /\ UNCHANGED <<ctlVars, timerVars, wg, interrupts, ihAlive, listener, conns,
                   watcher, serverJob, sess, webJob, webListener, webConns>>

(* Director: jc.Job.Add(1), made inside the request's goroutine.          *)
DirectorAdd(r) ==
    /\ req[r] = "spawned"
    /\ req' = [req EXCEPT ![r] = "director"] /\ wg' = wg + 1
    /\ UNCHANGED <<ctlVars, timerVars, interrupts, ihAlive, listener, conns,
                   watcher, serverJob, sess, webJob, webListener, webConns>>

(* Director returns (an early return that marks OrcaRequestAction, or the *)
(* rewritten URL of a working container) and its deferred Job.Done runs;  *)
(* the proxied round trip that follows is not a job.                      *)
DirectorReturns(r) ==
    /\ req[r] = "director"
    /\ req' = [req EXCEPT ![r] = "proxy"] /\ wg' = wg - 1
    /\ UNCHANGED <<ctlVars, timerVars, interrupts, ihAlive, listener, conns,
                   watcher, serverJob, sess, webJob, webListener, webConns>>

(* The container answers and the response is written on the open         *)
(* connection.                                                            *)
ProxyAnswered(r) ==
    /\ req[r] = "proxy" /\ webConns = "open"
    /\ req' = [req EXCEPT ![r] = "ended"]
    /\ UNCHANGED <<ctlVars, timerVars, wg, interrupts, ihAlive, listener, conns,
                   watcher, serverJob, sess, webJob, webListener, webConns>>

(* s.Close() closed the connection: the round trip fails and ends.        *)
ProxyCut(r) ==
    /\ req[r] = "proxy" /\ webConns = "closed"
    /\ req' = [req EXCEPT ![r] = "ended"]
    /\ UNCHANGED <<ctlVars, timerVars, wg, interrupts, ihAlive, listener, conns,
                   watcher, serverJob, sess, webJob, webListener, webConns>>

-----------------------------------------------------------------------------
Next ==
    \/ WaiterReturns
    \/ RequestDeadlineExpires \/ DemandDeadlineExpires
    \/ DeadlineCallsDemand \/ DeadlineCallsForce
    \/ Interrupt \/ InterruptHandlerExits \/ FatalLogged
    \/ SSHGracefulShutdown \/ SSHClose \/ ListenAndServeReturns
    \/ \E s \in Sessions :
          \/ Accept(s) \/ HandlerAdd(s) \/ SessionEnds(s)
          \/ SessionInterrupted(s) \/ SessionFails(s) \/ CleanupReturns(s)
    \/ WebJobAdd \/ WebGracefulShutdown \/ WebShutdownReturns \/ WebClose
    \/ \E r \in Requests :
          \/ RequestAccepted(r) \/ DirectorAdd(r) \/ DirectorReturns(r)
          \/ ProxyAnswered(r) \/ ProxyCut(r)

(* Goroutines and timers are fair; users, signals and Fatal messages are  *)
(* not.  Docker's answer is fair unless DockerMayHang.  A Director is     *)
(* taken to return (its ContainerUser calls answer: the ContainerUser     *)
(* module checks when they may not); a container's HTTP answer is not.    *)
Fairness ==
    /\ WF_vars(WaiterReturns)
    /\ WF_vars(RequestDeadlineExpires) /\ WF_vars(DemandDeadlineExpires)
    /\ WF_vars(DeadlineCallsDemand) /\ WF_vars(DeadlineCallsForce)
    /\ WF_vars(InterruptHandlerExits)
    /\ WF_vars(SSHGracefulShutdown) /\ WF_vars(SSHClose)
    /\ WF_vars(ListenAndServeReturns)
    /\ \A s \in Sessions :
          /\ WF_vars(HandlerAdd(s)) /\ WF_vars(SessionInterrupted(s))
          /\ IF DockerMayHang THEN TRUE ELSE WF_vars(CleanupReturns(s))
    /\ WF_vars(WebJobAdd) /\ WF_vars(WebGracefulShutdown)
    /\ WF_vars(WebShutdownReturns) /\ WF_vars(WebClose)
    /\ \A r \in Requests :
          WF_vars(DirectorAdd(r)) /\ WF_vars(DirectorReturns(r)) /\ WF_vars(ProxyCut(r))

Spec == Init /\ [][Next]_vars /\ Fairness

-----------------------------------------------------------------------------
(* The WaitGroup counter never goes negative (Go panics if it does) and   *)
(* every variable keeps its type.                                         *)
TypeOK ==
    /\ status \in Working..Done
    /\ requestTimer \in BOOLEAN /\ demandTimer \in BOOLEAN
    /\ waiting \in Nat
    /\ {requestClosed, shutdownCtxDone, doneClosed, ihAlive,
        pendingDemand, pendingForce} \subseteq BOOLEAN
    /\ wg \in Nat
    /\ interrupts \in 0..2
    /\ listener \in {"open", "shut"} /\ conns \in {"open", "closed"}
    /\ watcher \in {"idle", "draining", "done"}
    /\ serverJob \in {"running", "returned"}
    /\ sess \in [Sessions -> {"none", "spawned", "running", "cleanup", "ended"}]
    /\ webJob \in {"spawned", "serving", "draining", "returned"}
    /\ webListener \in {"none", "open", "shut"} /\ webConns \in {"open", "closed"}
    /\ req \in [Requests -> {"none", "spawned", "director", "proxy", "ended"}]

(* Request, Demand, Force and the waiter, called in any order by the      *)
(* SIGINT handler, the deadlines and the log reader, never move the       *)
(* status back (spec: transitions to a state <= the current are no-ops).  *)
StatusNeverRegresses == [][status' >= status]_status

(* Once a shutdown has begun, the waiter eventually sees every job end    *)
(* and closes Done, so main returns.                                      *)
ShutdownCompletes == (status # Working) ~> doneClosed

(* Spec 4.1/6: Force cancels the cleanup context, so a forced shutdown    *)
(* completes even when Docker does not answer a removal.                  *)
ForcedShutdownCompletes == (status = Forced) ~> doneClosed

=============================================================================
