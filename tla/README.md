# TLA+ models of orca

orca runs a Docker container for each user who connects over SSH or the web,
and shares containers between users according to an image's labels
(`orca.users.concurrent`, `orca.users.total`). This directory holds TLA+ models of
its concurrent core. It also holds the TLC configurations that check them.

## 1. The system

| Part | Source | Concurrency |
|---|---|---|
| Image scheduler | `src/orca/image.go` `manageImageState`, `getContainer`, `getContainerC` | one scheduler goroutine per image; one `getContainer` goroutine per request |
| Container lifecycle | `src/orca/container.go` `launchContainer`, `manageContainerState` | one goroutine per container, with a deletion timer |
| Container user | `src/orca/containeruser.go`, `user.go` `newContainerUser`, `image.go` `GetContainerUser` | one goroutine per (user, image), with session and inactivity timers |
| Shutdown controller | `src/jobcontroller/jobcontroller.go` | a mutex-guarded phase, a WaitGroup of jobs, and two contexts (Shutdown, Cleanup) |
| User registry | `src/orca/user.go` `GetUserByWebToken` | handlers racing on a map, with an HTTP call made while unlocked |
| Image list | `src/orca/imagelist.go` | maps built once at start-up, then only read |
| Handlers | `src/main.go` `sshHandler`, `webHandler` | retry loops around `GetContainerUser`; an SSH session's end races two copier goroutines, the CU and the client |
| Trie | `src/orca/search/trie.go` | pure data structure |
| Docker, I/O, LDAP, logging | `mydocker`, `ioctrl`, `ldap`, `mylog`, `errctrl`, `ssh` | I/O wrappers |

**How the parts interact.** A handler asks the image for a ContainerUser (CU). The
CU's goroutine calls `getContainerC`, which runs `getContainer`. `getContainer`
asks the scheduler to open an *election*:

1. The scheduler closes the current *start signal*.
2. Every container that holds that signal checks whether it is admissible: it
   is not at end of life and `reserved + concurrent != ConcurrentUsers`. If so,
   it asks for the election's *candidates channel*.
3. An admitted container sends a candidacy and increments `reservedUsers`.
4. After 5 ms the requester stops the election and picks the candidate with the
   most users. If there is none, it launches a new container (reserved = 1).
5. A goroutine sends `nil` on every losing candidate's `candidacyResponce`,
   which releases their reservations.
6. When the CU becomes Working, it sends itself to the winner. The winner
   converts the reservation into a user.
7. When the CU exits, it sends `userLeft`.
8. A container with no users and no reservations starts a 30 s deletion timer.
   If the timer fires, the container becomes end-of-life and is removed when idle.

**Hard behaviours.**
- Any number of elections, bids, rejections and acceptances interleave. A
  container's admission request from one signal can outlive the election it was
  meant for.
- Timers race with messages.
- A goroutine blocked on an unbuffered send to a partner that has gone away
  never returns.
- Shutdown must wait for every job.

## 2. Modules

### ImageScheduler.tla (with MCImageScheduler.tla)

This module models the scheduler, the container lifecycles and the requests
together, because all their channels are rendezvous between them.

- **Constants.** `Containers` are the ids a launch may produce. `Requesters` are
  `getContainer` calls. `ConcurrentUsers` and `TotalUsers` are the labels, with
  -1 meaning unbounded. `LaunchAttempts` is the code's 5. `ShutdownPossible`
  says whether the process may be asked to shut down. `SessionScoped` says
  whether each request runs under its own SSH session's context, as
  `sshHandler` makes it (`jc.NewCtx(sess.Context())`, main.go:322). The
  web Director uses the server's `jc` (main.go:141).
- **Variables.**
  - `sigEpoch` and `curElection` are the scheduler's state.
  - `ctr[c]` holds every local of `manageContainerState`: the counters,
    `isEndOfLife`, the timer state (`off`, `armed`, `expired`, `drained`), the
    `snap` of `concurrentUsers` that the candidate carries, the signal it holds,
    and the `getSignal` / `getCandidatesChan` / `candidate` channels it has
    enabled.
  - `phase`, `cands`, `result`, `attempts` and `rejects` hold the per-request
    state of `getContainer`, of the rejection goroutine and of the CU's side.
    Phase `stopping` is the blocking `oi.electionStopC <- struct{}{}` send,
    and `gone` is a CU that returned on `jc.Done()` instead of sending on
    `candidacyResponce` or `userLeft`.
  - `shutdown` (`working`, `requested`, `demanded`) is the shutdown
    controller as these goroutines see it: `IsShuttingDown()` holds from
    `requested` on, and `jc.Done()` (ShutdownCtx) is closed at `demanded`.
    `schedRunning` is false once `manageImageState` has returned.
  - `sessGone` holds the requesters whose SSH session has ended. A request's
    `jc.Done()` is `JcDoneOf(r)`. A container runs under the `jc` of the
    `getContainer` call that launched it (`ctr[c].owner`, container.go:117),
    so its `jc.Done()` is `CtrJcDone(c)`.
- **Actions.** Each select case is one action, named after the case.
  - Scheduler side: `SendElectionStartSignal`, `RequestElection`,
    `SendCandidatesChan`, `StopElection`.
  - Container side: `ElectionStartSignalActivated`, `SendCandidate`,
    `AcceptCandidacy`, `UserLeft`, `DeletionTimerKicks`, and
    `DeletionTimerExpires` (the timer firing).
  - Requester side: `ElectionDeadline`, `LaunchContainer`, `DeliverContainer`,
    `RejectCandidacy`. `DeliveryOrphaned` is the CU leaving Starting before
    `ocC <- oc` (phase `orphaned`): the send never completes.
  - `SessionContextDone(r)`: the client of request `r` disconnects or its
    handler returns.
  - Shutdown: `ShutdownRequested` and `ShutdownDemanded` (Request, and
    Demand or Force), and the `jc.Done()` case of every goroutine:
    `SchedulerReturns`, `ContainerShutdown`, `GetContainerCancelled` (only
    in the requesting, collecting and launching phases, where the select
    has that case), `BindCancelled` (containeruser.go 157-168) and
    `RejectionSkipped` (the `break` leaves only the select, so the loop goes
    on to the next loser). The scheduler's cases are guarded by
    `schedRunning`.
  - `LoopTop` applies the checks at the head of the lifecycle loop
    (container.go 160-181) in the same step as each container case,
    including the signal, activation and candidates-channel cases. This
    includes the idle return (at end of life or once `IsShuttingDown()`),
    starting the timer, and the `Stop()`/drain that can block
    (`st = "hung"`).
- **Abstraction.** Why the CU leaves Starting first (a timer, its own
  `jc.Done()`) is left to ContainerUser, where `cu_orphan` shows it.
  Here `DeliveryOrphaned` just records the result. Docker calls are folded into the
  success or failure of a launch. Logging and web-port inspection are left out. The 5 ms deadline is a
  nondeterministic moment. The 30 s timer is an action that may fire whenever it
  is armed.

`MCImageScheduler.tla` supplies up to three containers and four requesters
as model values, in the sets the cfgs pick, and `Unlimited == -1`.

### ShutdownController.tla (with MCShutdownController.tla)

This module models `jobcontroller.go` together with the goroutines in `main.go`
that drive the shutdown and wait on it.

- **Constants.** `Sessions` are the SSH sessions that may open, and
  `Requests` the HTTP requests that may reach the web server.
  `RequestDeadlineSet` and `DemandDeadlineSet` say whether each deadline is
  configured; `main` sets both. `DockerMayHang` says whether a container removal
  may go unanswered.
- **Controller state.**
  - `status`: 0..4, the iota constants.
  - `requestClosed`, `shutdownCtxDone` and `doneClosed`: the three signals.
  - The deadline fields, and `pendingDemand` / `pendingForce`: the goroutine of
    an expired AfterFunc, whose call a later `Stop()` no longer cancels.
  - `waiting`: the shutdownWaiter goroutines blocked in `wg.Wait()`.
  - `wg`: the WaitGroup counter.
- **Actions.**
  - `Request`, `Demand`, `Force` and `WaiterReturns` run under `sc.lock`, so
    each is one step.
  - The SIGINT handler (`Interrupt`, `InterruptHandlerExits`), the log reader
    (`FatalLogged`) and the deadlines are their callers.
- **Environment.**
  - The SSH server job (`ListenAndServeReturns`).
  - Its watcher (`SSHGracefulShutdown` = `s.Shutdown`, `SSHClose` = `s.Close`).
  - Sessions: `Accept` spawns the handler, `HandlerAdd` is its
    `jc.Job.Add(1)`, the session ends through the user or `jc.Done()`, and
    `CleanupReturns` is the container removal under `CleanupCtx` followed by
    `Job.Done`.
  - `SessionFails` is a handler that returns before it has a container: the
    User value is missing, the menu fails, or `GetContainer` failed
    `maxRestarts` times. That last case logs a Fatal, whose `Demand` is
    `FatalLogged`.
  - The web server (`webJob`, `webListener`, `webConns`). `webHandler`
    returns at once. The goroutine it spawns makes its own `Job.Add(1)`
    (`WebJobAdd`), so at start-up that Add races the shutdown. Its watcher
    loop either drains (`WebGracefulShutdown`, then `WebShutdownReturns` once
    no connection is active) or, once ShutdownCtx is cancelled, closes
    (`WebClose`). The `Shutdown` error path logs a Fatal, and the next pass
    takes `<-jc.Done()`; one step covers both.
  - HTTP requests (`req`). `RequestAccepted`, then `DirectorAdd` (the
    Director's `Job.Add(1)`), `DirectorReturns` (its deferred `Job.Done`),
    then the proxied round trip. The round trip is not a job. It ends when
    the container answers (`ProxyAnswered`) or when `s.Close()` cuts it
    (`ProxyCut`).
- **Abstraction.** A session's handler job and its container's job are one
  job. It ends after the container removal (`CleanupReturns`). Both jobs are
  counted while the session runs, and the removal ends last.
- **Deliberately absent.** Nothing cancels `CleanupCtx`, because nothing in
  the code does before `main` returns.

### ContainerUser.tla (with MCContainerUser.tla)

This module models `manageContainerUserState` (containeruser.go) together with
everything that talks to it over channels:
- the SSH handler's retry loop (`sshHandler`, main.go 388-409);
- the image's per-user map and `containerLock` (`GetContainerUser`,
  `deleteContainerUser`, image.go);
- the `getContainerC` goroutine that delivers the container or an error;
- the copiers that drain the activity channel;
- the session and inactivity timers.

The handlers all belong to one user, so they share one map entry, `byUID`.

- **Constants.**
  - `CUs`: the ContainerUser objects that may be created.
  - `Handlers`: concurrent sessions of one user.
  - `MaxRestarts`: main.go's `maxRestarts`.
  - `Persist`: the image's `PersistBetweenReconnects`.
- **CU state.**
  - `state`, `connectionCount` and `noMoreConnections` are the code's own
    variables.
  - `running` says whether the goroutine has not returned.
  - `loc` is `"drain"` while the goroutine is blocked in
    `<-inactiveTimer.C`.
  - The timers are `armed`, `fired` (a value is waiting in `C`) or `spent`.
  - `activityBuf` is the one-slot `activityNotification`.
  - `source` is the `getContainerC` goroutine: `pending`, blocked sending
    `oc` or `err`, or `taken`.
- **Image state.**
  - `byUID` is the map entry and `lock` the holder of `containerLock`.
  - `deleting` says a `deleteContainerUser` goroutine is pending.
  - `deleteWaiters` counts `notifyDeleted` receivers.
  - `ctxDone[c]` says the CU's `jc.Done()` is closed. `sshHandler` passes
    `jc.NewCtx(sess.Context())` to `GetContainerUser`, so that is the
    context of the session that created the CU (`CreatorContextDone`). It
    ends when that client disconnects or that handler returns, whatever the
    other sessions reusing the CU do.
- **Actions.** Every unbuffered channel operation is a rendezvous. One action
  is the CU's select case together with the blocked partner's step:
  `SendContainer`, `ConnectionDropped`, `AliveReply`, `ShutdownReply`,
  `ReceiveContainer`, `ReceiveStartErr`, `SendActivity`,
  `NoMoreConnectionsNotified`, `JobDone`. A closed channel satisfies every
  receive at once (`IsAliveClosed`, `GetContainerClosed`, `StatusClosed`,
  `DropClosed`). `SetState` applies the loop-top in the same step: entering a
  shutdown state starts `deleteContainerUser`. `ReplaceCU` is
  `GetContainerUser` making a new CU when the old one is not alive.
- **Abstraction.** The container itself is a value. The scheduler behind
  `getContainer` is `GetContainerResult`, a container or an error. The
  byte-copying of the copiers is left out, and only their ticker drain of
  the activity channel is kept.

### SSHSession.tla

This module covers how one SSH session ends: from `AddCopier` in `sshHandler`
(main.go:421) to `sess.Exit`. It is a separate module from ContainerUser so
that `cu_safety` keeps its size. It models three things:
- the CopyMonitor (`ioctrl/copymonitor.go`);
- the proxy pipes (`ioctrl/ioctrl.go`);
- the ContainerUser cases that decide what `cu.ShutdownDone()` delivers.

Durations are not modelled, so any order of the goroutines' steps can happen.

**State.**
- `copier[c]` for the two copiers:
  - `out` copies `stream.Reader` to `sessProxy`;
  - `in` copies `sessProxy` to `stream.Conn`.
- `isDone`, `isCorrect`, `cmErr` are the CopyMonitor's fields under its lock.
- `cmClosed` means `cm.Close()` ran.
- `cuState` is the CU's `ContainerState`.
- The handler has its program counter, `err` (by `errors.Cause`) and
  `status_ExitCode`.
- The environment is `containerExit`, the client's input EOF, a late
  keystroke, a disconnect, and the server's Demand.
- `creator` says whose session context the CU runs under: this session's,
  or an earlier session's of the same user whose CU `GetContainerUser`
  reused. Only in the second case can the CU return on `jc.Done()` while
  this session goes on.

**Actions.**
- `OutEnds` and `InEnds` give the errors each copier's loop can end with,
  given the pipes:
  - `p2.Read` gets EOF once `p1` closed, and `ErrClosedPipe` once `p2` closed.
  - Writes fail once either end closed.
  - `ctxDone` is only seen between reads.
- `CopierEnds` is the loop's end plus the first-finisher record under
  `cm.lock`. A first finisher with an error closes the monitor at once.
- `GraceElapses` is the one-second sleep of a first finisher whose error is
  EOF or nil, followed by `cm.Close()`.
- `HandlerShutdownDone` and `HandlerIODone` are the two cases of the
  handler's select, each with the deferred `stream.Close()`.
- `ExitHandler` is the deferred mapping from `err` to the exit code.
- `CUExecResult`, `CUExecError`, `CUTimerFires` and `CUReturns` are the CU's
  select cases that set its state.
- The in copier fails with `ErrClosedPipe` when the proxy was closed, or
  when the client types after the process ended or the stream closed.
  A stream closing without data does not end its read.
- The session context is cancelled by a disconnect, or once the handler
  returns. It ends the monitor's context and starts the proxy closer.

### UserRegistry.tla (with MCUserRegistry.tla)

This module models `UserList` (user.go).
- **GetUserByWebToken** is three actions:
  - `LookupToken`, the first critical section;
  - `CheckToken`, the HTTP call to the token checker with the lock
    released, which answers 200 with a name or fails;
  - `Register`, the second critical section, which looks the token and then
    the name up again before it creates a user.
- **GetUserFromSSH** is one action.
- A User object is a model value with an `objID`.
- `got` records what each call returned, so that the properties can compare
  the results of different callers.

## 3. Runs

| Run | cfg | Labels | Checks | Result |
|---|---|---|---|---|
| sched_ssh | `MCImageScheduler_ssh.cfg` | concurrent 1, total 1 (SSH defaults), session-scoped, 2 requesters, 2 containers | `ContainersReclaimed` | pass, about 27k states, seconds |
| sched_web | `MCImageScheduler_web.cfg` | concurrent 2, total unbounded, 3 requesters, 2 containers, one launch attempt, shutdown possible, symmetry | `TypeOK`, `ReservationsAccounted` | pass, about 3.8M states, about 2.5 min |
| sched_hung | `MCImageScheduler_hung.cfg` | 2 / unbounded | `NoHungLifecycle` | violated: timer drain blocks |
| sched_overbind | `MCImageScheduler_overbind.cfg` | 2 / unbounded, 4 requesters, 2 containers | `BoundWithinCapacity` | violated: three users bound to a container of two |
| sched_wedge | `MCImageScheduler_wedge.cfg` | SSH defaults, session-scoped, 2 requesters | `GetContainerReturns` | violated: an abandoned election blocks the image |
| shutdown_live | `MCShutdownController_live.cfg` | both deadlines, Docker answers, 2 sessions, 1 request | `TypeOK`, `StatusNeverRegresses`, `ShutdownCompletes` | pass, about 56k states |
| shutdown_force | `MCShutdownController_force.cfg` | Docker may hang | `ForcedShutdownCompletes` | violated: Force does not cancel cleanup |
| cu_safety | `MCContainerUser_safety.cfg` | 2 CUs, 2 sessions, MaxRestarts 1, symmetry, view | `TypeOK`, `ConnectionsAccounted` | pass, about 6.4M states, about 2.2 min |
| cu_hang | `MCContainerUser_hang.cfg` | same | `NoHungContainerUser` | violated: inactivity-timer drain blocks |
| cu_orphan | `MCContainerUser_orphan.cfg` | same | `NoOrphanedContainerSend` | violated: container sent to a CU that left |
| ssh_exit_code | `MCSSHSession_exit.cfg` | clean exit, code 0 | `CleanExitCodeReported` | violated: exit status 255 after a clean exit |
| user_registry | `MCUserRegistry.cfg` | 2 callers, tokens t1,t2 of alice and t3 of bob, 3 objects | `TypeOK`, `OneUserPerName`, `TokenResolvesToOwner` | pass, about 4.6k states |

**What the properties say.**
- `ReservationsAccounted`: each container's `reservedUsers` equals the number of
  requests that still owe it an answer. These are pending winners that have not
  yet bound (an orphaned delivery included, which never will), plus entries
  left in rejection goroutines. A leaked or doubly released reservation
  breaks it. It is checked until `jc.Done()` closes, when every goroutine may
  abandon its answers; under `Request()` alone it also says that an idle
  container returning at its loop top is owed nothing.
- `BoundWithinCapacity`: a bounded container never has more bound users than
  `ConcurrentUsers` (spec 8, Capacity).
- `NoHungLifecycle`: no lifecycle goroutine blocks in the timer drain.
- `GetContainerReturns`: every `getContainer` call eventually returns, with a
  container, "retry exceeded" or `jc.Err()`.
- `ContainersReclaimed`: every launched container's lifecycle eventually
  returns and removes it: after its user leaves, after its launcher's session
  ends, or after the delivery to its CU was orphaned.
- `StatusNeverRegresses`: late deadline calls never move the status back.
- `ShutdownCompletes`: once shutdown begins, Done is eventually closed.
- `ForcedShutdownCompletes`: the spec's promise that Force ends a shutdown even
  when cleanup hangs.
- `ConnectionsAccounted`: a CU's `connectionCount` equals the number of
  handlers that hold a connection of it, unless it returned on `jc.Done()`.
  This includes the path in `GetContainer` where the status read after the
  container is no longer Working. It ties the CU's counter to the handlers'
  program counters across every interleaving of drops, replacements and
  context ends.
- `NoHungContainerUser`: the CU goroutine never blocks in the inactivity-timer
  drain.
- `NoOrphanedContainerSend`: a `getContainerC` goroutine holding a result is
  only ever blocked on a CU that can still receive it.
- `OneUserPerName`: every call for one name, by token or by SSH, returns the
  same User object, whatever the interleaving around the unlocked HTTP call
  (spec 4.4).
- `TokenResolvesToOwner`: a registered token maps to the user its checker
  named, and that user is the one registered under the name.
- `CleanExitCodeReported`: when the container's process exits cleanly with
  code k and nothing else ends the session, SSH reports k. "Nothing else"
  means the client stays connected with its input open and types nothing
  more, no timer fires, and the server is not shut down.
- In `ShutdownController`, `TypeOK` includes `wg >= 0`. Go panics on a
  negative WaitGroup counter.

**Findings.** These are recorded in `PROJECT.json`.
1. **Abandoned election blocks the image** (image.go:339). On SSH,
   `getContainer` runs under the session's context. If the client
   disconnects after its election request was taken and before the 5 ms
   deadline, the `jc.Done()` case returns without sending `electionStopC`.
   The scheduler keeps `electionRequestChan` nil and waits on `voteStop`,
   which nobody will ever send. Every later request for that image blocks
   on `electionRequestC` until its own session ends. Spec 9 expects the
   election to stay open only "until the next requester arrives"; in the
   code nothing closes it.
2. **Over-subscription** (container.go:197). On each start signal a
   container sets `getCandidatesChan` when admissible and never clears it
   otherwise, and the scheduler only answers it during an election. A
   container activated in one election can take the candidates channel of
   a later one while its first bid is still reserved, and the `!=`
   admissibility test lets the re-activation through. With
   `orca.users.concurrent = 2` and four users, TLC ends with three users
   bound to one container (28 steps), against spec 8 (Capacity) and the
   spec 4.5 edge case that says over-subscription is prevented.
3. **Clean exit reported as 255** (main.go:451). When the container's
   process ends, the out copier reads EOF. It is the first to finish, so it
   sleeps one second (copymonitor.go:152) and then calls `cm.Close()`.
   Separately, docker's `ContainerWait` result reaches the ContainerUser.
   If that result arrives later than the second, the handler's select
   takes `<-cm.Done()`. There `err` has cause `io.EOF`, which the exit
   handler maps to nil, and `status_ExitCode` keeps its initial 255. The
   user sees exit status 255 and no banner. Spec 6 and 7 and scenario 1
   say a clean `exit 0` gives 0.
   A related divergence was found by reading the code, and no run checks
   it. For `ShutdownWithErrMsg`, the handler sets the container's code, but
   it also sets `err` to the message. The exit handler's `default` case
   then overwrites the code with 255, while the spec's table says "exit code
   = container code". `MCSSHSession_exit.cfg` leaves this kind out
   (`ExitKinds = {"clean"}`) so that the trace shows the grace race.
4. **Timer drain hang** (container.go:175). The deletion timer fires while a won
   reservation is pending. Acceptance then makes `concurrentUsers != 0`, and
   `<-deletionTimer.C` blocks forever. The container is never removed and its
   job never finishes, so shutdown never completes.
5. **Force does not cancel cleanup** (jobcontroller.go:173). `Force()` calls
   `closeShutdownCtx`, not `closeCleanupCtx`. A removal that Docker does not
   answer therefore keeps its job alive forever, although the spec says Force
   aborts cleanup and the process exits.
6. **Inactivity drain hang** (containeruser.go:226). The select takes
   `<-inactiveTimer.C` and the CU shuts down. The activity case stays
   enabled, so once a copier or `Activity()` empties the one-slot buffer,
   the CU sends again. `Stop()` then returns false and the drain blocks
   forever. The CU never closes its channels and never calls `Job.Done`,
   against spec 4.7. A second session of the same user that reaches
   `GetContainerUser` before `deleteContainerUser` ran then blocks in
   `IsAlive` while it holds `containerLock` (image.go:179). Every later call
   on the image blocks with it.
7. **Orphaned container send** (image.go:198). The `getContainerC` goroutine
   sends its result on an unbuffered channel, outside any select. If the CU
   has left Starting (a timer fired) or returned on `jc.Done()`, nothing ever
   receives. The goroutine, its job and the container it won are leaked,
   against spec 5 ("every wait selects on its context").

**Findings not kept as a run.** The checker allows twelve runs. These were
found with the models here, and their runs were given up for the findings
above.
- **Election stop after shutdown** (image.go:283). The requester sends on
  `electionStopC` outside any select, and the scheduler returns on
  `jc.Done()`. If Demand (or Force) comes after the election deadline fired
  and the scheduler takes `jc.Done()` first, the requester blocks forever,
  and the job `getContainerC` added is never done. With
  `ShutdownPossible = TRUE`, the invariant
  `\A r : phase[r] = "stopping" => schedRunning` fails.
- **Job.Add inside the handler** (main.go:519). The graceful `s.Shutdown`
  closes the listener and the server job ends. A session opened on a
  still-open connection can then be spawned while the counter is 0, and the
  waiter closes Done before the handler's `Job.Add(1)` runs. The web
  Director does the same (main.go:90). In ShutdownController, "when
  `doneClosed`, every session is `none` or `ended` and no request is
  `spawned` or in `director`" fails.
- **Total cap** (container.go:161/197). Reservations are not counted against
  `TotalUsers`, and end of life tests `==`. With `ConcurrentUsers = 3` and
  `TotalUsers = 2`, three requesters let a container admit a third lifetime
  user, after which it never reaches end of life. The SSH defaults (one user
  in all) cannot reach it; web images with a finite `orca.users.total` above
  1 are exposed.
- **Launcher's session owns the container** (container.go:117).
  `launchContainer` starts the lifecycle with the launching request's `jc`,
  which on SSH is that session's context. On an SSH image labelled for two
  or more concurrent users, the launcher disconnecting removes the container
  under the other users. The SSH defaults allow one user per container, so
  the runs here do not reach it; `ImageScheduler` models it (`CtrJcDone`).

**Bounds.**
- ContainerUser uses two CUs, enough for a CU and the one that replaces it.
  It also uses two sessions of the same user, enough for one to hold a
  connection while the other asks `IsAlive`, drops, or retries.
  - `MaxRestarts = 1` keeps both the retry path and exhaustion reachable.
    The first failure gives up, and the second handler still meets the
    replaced CU.
  - `deleting` is a flag and not a count: pending deletions of one entry
    behave alike.
  - The VIEW treats the three stopped exit states as one, since only the
    exit code reported to the user tells them apart.
  - Symmetry over CUs and over sessions is sound: no property or action
    names one of them.
- UserRegistry uses two callers and three tokens: two tokens of one user
  (two first uses of one name) and one of another. It has three objects,
  one more than the names, so that a duplicate user could be made.
- One HTTP request is enough for the web server's races. Its Director can
  be counted or not when the waiter looks, and its round trip can be
  answered or cut.
- Two sessions are enough for the shutdown races: one running while the other
  is spawned or being cleaned up.
- `sched_web` has three requesters and two containers: two elections open in
  turn, a container seen by two elections, a loser rejected while a new
  election runs, and a launch while others bind. A third launch finds no
  free id and fails, as a Docker error would make it. Shutdown may begin in
  any state, which multiplies the state space many times; one launch
  attempt keeps the run within minutes.
- The over-subscription needs two bound users and a third bid on one
  container, plus the requester whose launch made it: four requesters.
- The SSH runs have two requesters and two containers. With sessions that
  may end at any step, three requesters pass ten minutes. Two are enough
  for an abandoned election with a user behind it, and for each way a
  container is reclaimed. `LaunchAttempts = 2` exercises both a retry and
  exhaustion; five attempts add no new control.
- SSHSession needs no bounds: all of its state is finite. The single
  container code stands for any code in 0..253, since the code only moves
  between variables.

**Fairness.**
- Weak fairness on each goroutine's steps: Go runs every runnable goroutine
  eventually.
- Shutdown is never forced to begin, and neither is a client disconnect or
  a CU leaving Starting before its container arrives. Once `jc.Done()` is
  closed, the scheduler's return and each goroutine's `jc.Done()` case are
  weakly fair, like its other steps.
- An orphaned delivery is followed, weakly fairly, by the end of that
  request's session. The CU has left Starting without the container, so
  `GetContainer` sees a non-Working status; `sshHandler` gives up after
  `maxRestarts` tries and returns, and gliderlabs/ssh then cancels the
  session's context.
- Strong fairness on `RequestElection`. Several requesters compete on one
  channel, and Go wakes blocked senders in FIFO order, so a requester that is
  repeatedly enabled is eventually served.
- The timer firing is weakly fair. A timer that is armed and never stopped fires.
- In ShutdownController:
  - Timers, goroutines and the waiter are weakly fair.
  - Users, signals and Fatal messages are not fair.
  - Docker's answer to a removal is fair unless `DockerMayHang`.
  - A Director is taken to return, since its ContainerUser calls answer.
    `cu_hang` shows when they do not. A container's HTTP answer is not fair;
    `s.Close()` cuts the round trip.
  - `CleanupReturns` folds the jobs a session leaves behind (its handler,
    its CU, its container's lifecycle and the removal) into one weakly fair
    step that ends with the removal. Each is a goroutine the runtime runs
    to its end when Docker answers and no goroutine hangs; the hangs are
    `cu_hang` and `sched_hung`.
- ContainerUser, SSHSession and UserRegistry are checked for safety only, so
  they assume no fairness.
- The SSH liveness runs use the SSH labels. There, the timer-hang case cannot
  occur, because a container is never idle with a pending reservation and a
  timer that fires before it.
- Deadlock checking is off in every cfg. Requests that end leave the system
  quiescent by design, and the hangs are themselves deadlocks of one
  goroutine, which `NoHungLifecycle` and `NoHungContainerUser` state
  directly.

## 4. Not modelled yet, and the plan

In order:
1. **Placement.tla.** An abstract spec of containers as slots with
   capacities. `ImageScheduler` would be shown to refine it through a
   refinement mapping from bound users, once the over-subscription (finding
   2) is fixed; as the code stands, no such mapping can hold.
2. **SSH restart loop.** `ListenAndServe` failing while `Working`, up to
   `maxRestarts`, then a Fatal. The loop checks `IsShuttingDown()` once and
   then listens again (main.go:595-600). A Request and the watcher's
   `s.Shutdown` in that window would leave a listener that nothing closes,
   and the server job would never end. Whether a listener reopened after
   `Shutdown` serves on is up to gliderlabs/ssh, which is not in this
   repository, so the hazard is listed without a run.

These are left out for good:
- Docker calls, the bytes that copiers move, the LDAP server, logging and SSH helpers are
  I/O without shared protocol state.
- Label parsing, URL rewriting and the exit messages are string formatting.
- The image list: `UpdateImages` runs once, at start-up (imagelist.go:48),
  before any handler reads the maps, so there is no concurrent refresh to
  check. Its diff adds before it removes, which would lose the name entry of
  an image rebuilt under the same name, but only on a later refresh, and the
  code never makes one.
- The prefix trie: a sequential, deterministic structure that completes menu
  input. It has no interleaving to explore, and a unit test over the same
  inputs reaches every case. Reading `search/trie.go` suggests `Search`
  returns `match.prefix + ch.prefix` on an exact match at a node with one
  child, so for tasks `python` and `python3`, completing `python` would give
  `pythonpython3`. No run here checks it; a unit test is the right tool.
