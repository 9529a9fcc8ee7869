---------------------------- MODULE ContainerUser ----------------------------
(***************************************************************************)
(* The ContainerUser state machine of src/orca/containeruser.go together  *)
(* with the callers that talk to it over its channels: the SSH session    *)
(* handler's retry loop (main.go, sshHandler), the image's per-user map   *)
(* and its lock (image.go GetContainerUser / deleteContainerUser), the    *)
(* getContainerC goroutine that delivers the container or an error, the   *)
(* CopyMonitor copiers that drain the activity channel, and the two       *)
(* timers.  All handlers belong to one user, so they share the map entry  *)
(* containerUsersByUID[ui.ID] (here byUID).                               *)
(*                                                                         *)
(* Every unbuffered channel operation is a rendezvous: one action is the  *)
(* CU's select case and the blocked receiver's step together.  A closed   *)
(* channel (the CU goroutine returned) satisfies every receive at once.   *)
(***************************************************************************)
EXTENDS Naturals, FiniteSets

CONSTANTS
    CUs,            \* ContainerUser objects that may be created
    Handlers,       \* concurrent SSH sessions of the same user
    None,           \* nil
    MaxRestarts,    \* main.go maxRestarts
    Persist         \* image.PersistBetweenReconnects

ASSUME MaxRestarts \in Nat \ {0} /\ Persist \in BOOLEAN /\ None \notin CUs

VARIABLES
    state,             \* cu.status.ContainerState
    running,           \* the manageContainerUserState goroutine has not returned
    loc,               \* "select", or "drain": blocked in <-inactiveTimer.C
    connectionCount,   \* cu.connectionCount
    noMoreConnections, \* the local noMoreConnections
    inactiveTimer,     \* "armed", "fired" (value in C) or "spent" (expired, C drained)
    sessionTimer,      \* "armed" or "spent"
    activityBuf,       \* cu.activityNotification (buffer of 1) holds a value
    source,            \* getContainerC goroutine: "pending", "oc", "err" (blocked sending), "taken"
    deleting,          \* a deleteContainerUser goroutine has not yet taken the lock
    deleteWaiters,     \* notifyDeleted receivers blocked on noMoreConnectionsNotification
    byUID,             \* oi.containerUsersByUID[ui.ID]
    lock,              \* holder of oi.containerLock across IsAlive
    pc,                \* where each handler is
    cuOf,              \* the handler's cu
    tries,             \* retries used by the handler's loop
    ctxDone            \* the CU's jc.Done() is closed: the context of the session that created it

cuVars == <<state, running, loc, connectionCount, noMoreConnections,
            inactiveTimer, sessionTimer, activityBuf, source>>
imgVars == <<deleting, deleteWaiters, byUID, lock, ctxDone>>
hVars == <<pc, cuOf, tries>>
vars == <<cuVars, imgVars, hVars>>

Terminal == {"StartErr", "Shutdown", "ShutdownInactivity", "ShutdownSessionLen",
             "ShutdownWithErr", "ShutdownWithErrMsg"}
States == {"Dead", "Starting", "Working"} \cup Terminal

\* a handler that got a container from containerC owes one NotifyConnectionClosed
Holding == {"status", "dropnow", "connected", "closing"}
PCs == {"lock", "isalive", "activity", "getc", "done", "failed"} \cup Holding

Selecting(c) == running[c] /\ loc[c] = "select"

(* The loop-top of manageContainerUserState: on every change of state it  *)
(* points the select's destination channels at the new state, and on      *)
(* entering a shutdown state starts a deleteContainerUser goroutine.  Of  *)
(* several such goroutines only the first to take the lock finds the map  *)
(* entry still this CU (a CU is never put back), so the rest are no-ops   *)
(* and one flag stands for all of them.                                    *)
(* The destinations are read off state by the guards below.                *)
SetState(c, s) ==
    /\ state' = [state EXCEPT ![c] = s]
    /\ deleting' = IF s # state[c] /\ s \in Terminal
                     THEN [deleting EXCEPT ![c] = TRUE] ELSE deleting

\* the goroutine returns; the deferred closes happen in the same step
Return(c) == running' = [running EXCEPT ![c] = FALSE]

Init ==
    /\ state = [c \in CUs |-> "Dead"]
    /\ running = [c \in CUs |-> FALSE]
    /\ loc = [c \in CUs |-> "select"]
    /\ connectionCount = [c \in CUs |-> 0]
    /\ noMoreConnections = [c \in CUs |-> ~Persist]
    /\ inactiveTimer = [c \in CUs |-> "armed"]
    /\ sessionTimer = [c \in CUs |-> "armed"]
    /\ activityBuf = [c \in CUs |-> FALSE]
    /\ source = [c \in CUs |-> "pending"]
    /\ deleting = [c \in CUs |-> FALSE]
    /\ deleteWaiters = [c \in CUs |-> 0]
    /\ byUID = None
    /\ lock = None
    /\ pc = [h \in Handlers |-> "lock"]
    /\ cuOf = [h \in Handlers |-> None]
    /\ tries = [h \in Handlers |-> 0]
    /\ ctxDone = [c \in CUs |-> FALSE]

-----------------------------------------------------------------------------
(* Handler side: the retry loop of sshHandler.                             *)

\* a failed attempt: retry, or give up after maxRestarts
Retry(h) ==
    /\ tries' = [tries EXCEPT ![h] = @ + 1]
    /\ pc' = [pc EXCEPT ![h] = IF tries[h] + 1 = MaxRestarts THEN "failed" ELSE "lock"]

\* newContainerUser: `go manageContainerUserState`, which sets Starting
NewContainerUser(c) ==
    /\ state' = [state EXCEPT ![c] = "Starting"]
    /\ running' = [running EXCEPT ![c] = TRUE]

(* GetContainerUser's tail: newContainerUser starts a fresh CU (its       *)
(* goroutine calls getContainerC and arms both timers), it replaces the   *)
(* map entry, `go cu.notifyDeleted()` is started on the old one (it       *)
(* returns at once if that CU has closed its channels), and the deferred  *)
(* Unlock runs.                                                            *)
ReplaceCU(h, old) ==
    \E c \in CUs :
        /\ state[c] = "Dead" /\ ~running[c]
        /\ NewContainerUser(c)
        /\ byUID' = c
        /\ cuOf' = [cuOf EXCEPT ![h] = c]
        /\ deleteWaiters' = IF old = None \/ ~running[old] THEN deleteWaiters
                            ELSE [deleteWaiters EXCEPT ![old] = @ + 1]
        /\ lock' = None
        /\ pc' = [pc EXCEPT ![h] = "activity"]
        /\ UNCHANGED <<loc, connectionCount, noMoreConnections, inactiveTimer,
                       sessionTimer, activityBuf, source, deleting, ctxDone, tries>>

\* GetContainerUser: Lock, look the user up; a nil entry is replaced at once
GetContainerUser(h) ==
    /\ pc[h] = "lock"
    /\ lock = None
    /\ \/ /\ byUID = None
          /\ ReplaceCU(h, None)
       \/ /\ byUID # None
          /\ lock' = h
          /\ cuOf' = [cuOf EXCEPT ![h] = byUID]
          /\ pc' = [pc EXCEPT ![h] = "isalive"]
          /\ UNCHANGED <<cuVars, deleting, deleteWaiters, byUID, ctxDone, tries>>

\* IsAlive on a CU whose goroutine returned: the closed containerAliveC gives false
IsAliveClosed(h) ==
    /\ pc[h] = "isalive"
    /\ ~running[cuOf[h]]
    /\ ReplaceCU(h, cuOf[h])

\* cu.Activity(): <-cu.activityNotification (closed: returns at once)
Activity(h) ==
    LET c == cuOf[h] IN
    /\ pc[h] = "activity"
    /\ activityBuf[c] \/ ~running[c]
    /\ activityBuf' = [activityBuf EXCEPT ![c] = FALSE]
    /\ pc' = [pc EXCEPT ![h] = "getc"]
    /\ UNCHANGED <<state, running, loc, connectionCount, noMoreConnections,
                   inactiveTimer, sessionTimer, source, imgVars, cuOf, tries>>

(* GetContainer on a closed CU: oc is nil, the status read from the closed *)
(* statusC is the zero status (Dead), NotifyConnectionClosed returns at    *)
(* once, and the loop retries.                                             *)
GetContainerClosed(h) ==
    /\ pc[h] = "getc"
    /\ ~running[cuOf[h]]
    /\ Retry(h)
    /\ UNCHANGED <<cuVars, imgVars, cuOf>>

\* status = <-cu.statusC on a closed channel: zero status, not Working
StatusClosed(h) ==
    /\ pc[h] = "status"
    /\ ~running[cuOf[h]]
    /\ pc' = [pc EXCEPT ![h] = "dropnow"]
    /\ UNCHANGED <<cuVars, imgVars, cuOf, tries>>

\* NotifyConnectionClosed on a closed CU returns at once
DropClosed(h) ==
    /\ pc[h] \in {"dropnow", "closing"}
    /\ ~running[cuOf[h]]
    /\ IF pc[h] = "dropnow" THEN Retry(h)
       ELSE /\ pc' = [pc EXCEPT ![h] = "done"] /\ UNCHANGED tries
    /\ UNCHANGED <<cuVars, imgVars, cuOf>>

\* a copier's ticker: non-blocking receive on cu.ActivityChan()
CopierDrains(h) ==
    LET c == cuOf[h] IN
    /\ pc[h] = "connected"
    /\ activityBuf[c]
    /\ activityBuf' = [activityBuf EXCEPT ![c] = FALSE]
    /\ UNCHANGED <<state, running, loc, connectionCount, noMoreConnections,
                   inactiveTimer, sessionTimer, source, imgVars, hVars>>

\* the select of sshHandler: <-cm.Done() (the user's IO closed), or
\* <-cu.ShutdownDone() on a closed channel; the deferred NotifyConnectionClosed follows
SessionEnds(h) ==
    /\ pc[h] = "connected"
    /\ pc' = [pc EXCEPT ![h] = "closing"]
    /\ UNCHANGED <<cuVars, imgVars, cuOf, tries>>

-----------------------------------------------------------------------------
(* The CU goroutine: one action per case of the select in                  *)
(* manageContainerUserState, each followed by the loop-top (SetState).     *)

\* mutant: GetContainer retries on a non-Working status without NotifyConnectionClosed
SendStatusWithoutDrop(c, h) ==
    /\ Selecting(c)
    /\ pc[h] = "status" /\ cuOf[h] = c
    /\ pc' = [pc EXCEPT ![h] = IF state[c] = "Working" THEN "connected" ELSE "lock"]
    /\ UNCHANGED <<cuVars, imgVars, cuOf, tries>>

\* case cu.statusC <- cu.status: the GetContainer caller reads the status
SendStatus(c, h) ==
    /\ Selecting(c)
    /\ pc[h] = "status" /\ cuOf[h] = c
    /\ pc' = [pc EXCEPT ![h] = IF state[c] = "Working" THEN "connected" ELSE "dropnow"]
    /\ UNCHANGED <<cuVars, imgVars, cuOf, tries>>

\* mutant: the send case forgets cu.connectionCount++
SendContainerUncounted(c, h) ==
    /\ Selecting(c)
    /\ state[c] = "Working"
    /\ pc[h] = "getc" /\ cuOf[h] = c
    /\ pc' = [pc EXCEPT ![h] = "status"]
    /\ UNCHANGED <<cuVars, imgVars, cuOf, tries>>

\* case containerDest <- cu.container: containerDest is non-nil only while Working
SendContainer(c, h) ==
    /\ Selecting(c)
    /\ state[c] = "Working"
    /\ pc[h] = "getc" /\ cuOf[h] = c
    /\ connectionCount' = [connectionCount EXCEPT ![c] = @ + 1]
    /\ pc' = [pc EXCEPT ![h] = "status"]
    /\ UNCHANGED <<state, running, loc, noMoreConnections, inactiveTimer,
                   sessionTimer, activityBuf, source, imgVars, cuOf, tries>>

\* case cu.connectionDroppedNotification <- struct{}{}: the last dropped
\* connection ends the CU once no new connections may come
ConnectionDropped(c, h) ==
    /\ Selecting(c)
    /\ pc[h] \in {"dropnow", "closing"} /\ cuOf[h] = c
    /\ connectionCount' = [connectionCount EXCEPT ![c] = @ - 1]
    /\ IF connectionCount[c] - 1 = 0 /\ noMoreConnections[c]
         THEN Return(c) ELSE UNCHANGED running
    /\ IF pc[h] = "dropnow" THEN Retry(h)
       ELSE /\ pc' = [pc EXCEPT ![h] = "done"] /\ UNCHANGED tries
    /\ UNCHANGED <<state, loc, noMoreConnections, inactiveTimer, sessionTimer,
                   activityBuf, source, imgVars, cuOf>>

\* case containerAliveDest <- struct{}{}: IsAlive is true, GetContainerUser
\* reuses the CU and unlocks
AliveReply(c, h) ==
    /\ Selecting(c)
    /\ state[c] \in {"Starting", "Working"}
    /\ pc[h] = "isalive" /\ cuOf[h] = c
    /\ lock' = None
    /\ pc' = [pc EXCEPT ![h] = "activity"]
    /\ UNCHANGED <<cuVars, deleting, deleteWaiters, byUID, ctxDone, cuOf, tries>>

(* case containerShutdownDest <- cu.status, taken by whichever receiver    *)
(* of containerShutdownC is waiting: IsAlive (not alive: replace the CU),  *)
(* GetContainer (no container: retry), or sshHandler's ShutdownDone().    *)
ShutdownReply(c, h) ==
    /\ Selecting(c)
    /\ state[c] \in Terminal
    /\ cuOf[h] = c
    /\ \/ /\ pc[h] = "isalive"
          /\ ReplaceCU(h, c)
       \/ /\ pc[h] = "getc"
          /\ Retry(h)
          /\ UNCHANGED <<cuVars, imgVars, cuOf>>
       \/ /\ pc[h] = "connected"
          /\ pc' = [pc EXCEPT ![h] = "closing"]
          /\ UNCHANGED <<cuVars, imgVars, cuOf, tries>>

\* case cu.container = <-containerSourceC: source channels are nil once the
\* CU has left Starting
ReceiveContainer(c) ==
    /\ Selecting(c)
    /\ state[c] = "Starting"
    /\ source[c] = "oc"
    /\ source' = [source EXCEPT ![c] = "taken"]
    /\ SetState(c, "Working")
    /\ UNCHANGED <<running, loc, connectionCount, noMoreConnections, inactiveTimer,
                   sessionTimer, activityBuf, deleteWaiters, byUID, lock, ctxDone, hVars>>

\* case cu.status.Err = <-containerSourceErrC
ReceiveStartErr(c) ==
    /\ Selecting(c)
    /\ state[c] = "Starting"
    /\ source[c] = "err"
    /\ source' = [source EXCEPT ![c] = "taken"]
    /\ SetState(c, "StartErr")
    /\ UNCHANGED <<running, loc, connectionCount, noMoreConnections, inactiveTimer,
                   sessionTimer, activityBuf, deleteWaiters, byUID, lock, ctxDone, hVars>>

\* cases <-execErrorSourceC and <-execResultSourceC (WaitForShutdown, only
\* while Working): the container stopped, with an error, a message or cleanly
ExecFinishes(c) ==
    /\ Selecting(c)
    /\ state[c] = "Working"
    /\ \E s \in {"ShutdownWithErr", "ShutdownWithErrMsg", "Shutdown"} : SetState(c, s)
    /\ UNCHANGED <<running, loc, connectionCount, noMoreConnections, inactiveTimer,
                   sessionTimer, activityBuf, source, deleteWaiters, byUID, lock, ctxDone, hVars>>

\* case <-sessionTimer.C: the session timer is never stopped, so its one
\* value is taken whenever the select gets to it
SessionTimerFires(c) ==
    /\ Selecting(c)
    /\ sessionTimer[c] = "armed"
    /\ sessionTimer' = [sessionTimer EXCEPT ![c] = "spent"]
    /\ SetState(c, "ShutdownSessionLen")
    /\ UNCHANGED <<running, loc, connectionCount, noMoreConnections, inactiveTimer,
                   activityBuf, source, deleteWaiters, byUID, lock, ctxDone, hVars>>

\* the inactivity timer expires: its value waits in inactiveTimer.C
InactiveTimerExpires(c) ==
    /\ running[c]
    /\ inactiveTimer[c] = "armed"
    /\ inactiveTimer' = [inactiveTimer EXCEPT ![c] = "fired"]
    /\ UNCHANGED <<state, running, loc, connectionCount, noMoreConnections,
                   sessionTimer, activityBuf, source, imgVars, hVars>>

\* case <-inactiveTimer.C
InactiveTimerCase(c) ==
    /\ Selecting(c)
    /\ inactiveTimer[c] = "fired"
    /\ inactiveTimer' = [inactiveTimer EXCEPT ![c] = "spent"]
    /\ SetState(c, "ShutdownInactivity")
    /\ UNCHANGED <<running, loc, connectionCount, noMoreConnections, sessionTimer,
                   activityBuf, source, deleteWaiters, byUID, lock, ctxDone, hVars>>

(* case cu.activityNotification <- struct{}{}, then                        *)
(*   if !inactiveTimer.Stop() { <-inactiveTimer.C }; inactiveTimer.Reset.  *)
(* Stop succeeds on an armed timer; on an expired one it fails, and the    *)
(* drain returns only if the expired value is still in the channel.  If    *)
(* the select already took it, the goroutine blocks for good.              *)
SendActivity(c) ==
    /\ Selecting(c)
    /\ ~activityBuf[c]
    /\ activityBuf' = [activityBuf EXCEPT ![c] = TRUE]
    /\ IF inactiveTimer[c] = "spent"
         THEN /\ loc' = [loc EXCEPT ![c] = "drain"]
              /\ UNCHANGED inactiveTimer
         ELSE /\ inactiveTimer' = [inactiveTimer EXCEPT ![c] = "armed"]
              /\ UNCHANGED loc
    /\ UNCHANGED <<state, running, connectionCount, noMoreConnections,
                   sessionTimer, source, imgVars, hVars>>

\* case cu.noMoreConnectionsNotification <- struct{}{}: a notifyDeleted caller
NoMoreConnectionsNotified(c) ==
    /\ Selecting(c)
    /\ deleteWaiters[c] > 0
    /\ deleteWaiters' = [deleteWaiters EXCEPT ![c] = @ - 1]
    /\ noMoreConnections' = [noMoreConnections EXCEPT ![c] = TRUE]
    /\ IF connectionCount[c] = 0 THEN Return(c) ELSE UNCHANGED running
    /\ UNCHANGED <<state, loc, connectionCount, inactiveTimer, sessionTimer,
                   activityBuf, source, deleting, byUID, lock, ctxDone, hVars>>

\* case <-jc.Done(): return
JobDone(c) ==
    /\ Selecting(c)
    /\ ctxDone[c]
    /\ Return(c)
    /\ UNCHANGED <<state, loc, connectionCount, noMoreConnections, inactiveTimer,
                   sessionTimer, activityBuf, source, imgVars, hVars>>

-----------------------------------------------------------------------------
(* The rest of the image.                                                  *)

(* sshHandler makes jc = jc.NewCtx(sess.Context()) and hands it to        *)
(* GetContainerUser, so a CU runs under the context of the session that   *)
(* created it: that client disconnecting, or that handler returning, or   *)
(* the server's shutdown closes its jc.Done(), whatever the other         *)
(* sessions that reuse the CU are doing.                                   *)
CreatorContextDone(c) ==
    /\ state[c] # "Dead"
    /\ ~ctxDone[c]
    /\ ctxDone' = [ctxDone EXCEPT ![c] = TRUE]
    /\ UNCHANGED <<cuVars, deleting, deleteWaiters, byUID, lock, hVars>>

\* the getContainerC goroutine: getContainer returns a container or an
\* error, and the goroutine then blocks sending it to the CU
GetContainerResult(c) ==
    /\ state[c] # "Dead"
    /\ source[c] = "pending"
    /\ \E r \in {"oc", "err"} : source' = [source EXCEPT ![c] = r]
    /\ UNCHANGED <<state, running, loc, connectionCount, noMoreConnections,
                   inactiveTimer, sessionTimer, activityBuf, imgVars, hVars>>

\* deleteContainerUser: under the lock, drop the map entry if it is still
\* this CU, unlock, then notifyDeleted (a waiter on noMoreConnections,
\* which returns at once if the CU has closed its channels)
DeleteContainerUser(c) ==
    /\ deleting[c]
    /\ lock = None
    /\ deleting' = [deleting EXCEPT ![c] = FALSE]
    /\ IF byUID = c
         THEN /\ byUID' = None
              /\ deleteWaiters' = IF running[c] THEN [deleteWaiters EXCEPT ![c] = @ + 1]
                                  ELSE deleteWaiters
         ELSE UNCHANGED <<byUID, deleteWaiters>>
    /\ UNCHANGED <<cuVars, lock, ctxDone, hVars>>

-----------------------------------------------------------------------------
HandlerStep(h) ==
    \/ GetContainerUser(h) \/ IsAliveClosed(h) \/ Activity(h)
    \/ GetContainerClosed(h) \/ StatusClosed(h) \/ DropClosed(h)
    \/ CopierDrains(h) \/ SessionEnds(h)

CUStep(c) ==
    \/ ReceiveContainer(c) \/ ReceiveStartErr(c) \/ ExecFinishes(c)
    \/ SessionTimerFires(c) \/ InactiveTimerExpires(c) \/ InactiveTimerCase(c)
    \/ SendActivity(c) \/ NoMoreConnectionsNotified(c) \/ JobDone(c)
    \/ GetContainerResult(c) \/ DeleteContainerUser(c)
    \/ \E h \in Handlers :
          SendStatus(c, h) \/ SendContainer(c, h) \/ ConnectionDropped(c, h)
          \/ AliveReply(c, h) \/ ShutdownReply(c, h)

Next ==
    \/ \E h \in Handlers : HandlerStep(h)
    \/ \E c \in CUs : CUStep(c)
    \/ \E c \in CUs : CreatorContextDone(c)

Spec == Init /\ [][Next]_vars

-----------------------------------------------------------------------------
TypeOK ==
    /\ state \in [CUs -> States]
    /\ running \in [CUs -> BOOLEAN]
    /\ loc \in [CUs -> {"select", "drain"}]
    /\ connectionCount \in [CUs -> Nat]
    /\ noMoreConnections \in [CUs -> BOOLEAN]
    /\ inactiveTimer \in [CUs -> {"armed", "fired", "spent"}]
    /\ sessionTimer \in [CUs -> {"armed", "spent"}]
    /\ activityBuf \in [CUs -> BOOLEAN]
    /\ source \in [CUs -> {"pending", "oc", "err", "taken"}]
    /\ deleting \in [CUs -> BOOLEAN] /\ deleteWaiters \in [CUs -> Nat]
    /\ byUID \in CUs \cup {None}
    /\ lock \in Handlers \cup {None}
    /\ pc \in [Handlers -> PCs]
    /\ cuOf \in [Handlers -> CUs \cup {None}]
    /\ tries \in [Handlers -> 0..MaxRestarts]
    /\ ctxDone \in [CUs -> BOOLEAN]

(* connectionCount is the number of handlers that took the container from *)
(* containerC and have not yet had their NotifyConnectionClosed taken:    *)
(* GetContainer's "concurrency is hard" path, where the status read after *)
(* the container is no longer Working, must give the connection back, and *)
(* no CU goroutine returns while a handler still holds a connection,      *)
(* unless it returned on jc.Done().                                         *)
ConnectionsAccounted ==
    \A c \in CUs : running[c] \/ ~ctxDone[c] =>
        connectionCount[c] = Cardinality({h \in Handlers : cuOf[h] = c /\ pc[h] \in Holding})

(* The CU goroutine never blocks in `<-inactiveTimer.C` of the activity   *)
(* case (containeruser.go:226): Stop() fails both when the expired value  *)
(* still waits in the channel and when the select already took it.        *)
NoHungContainerUser == \A c \in CUs : loc[c] = "select"

(* A getContainerC goroutine that has its container or error is blocked   *)
(* on an unbuffered send (image.go:198,201) that only a CU still Starting *)
(* can receive: once the CU leaves Starting, the container is orphaned.   *)
NoOrphanedContainerSend ==
    \A c \in CUs : source[c] \in {"oc", "err"} => running[c] /\ state[c] = "Starting"
=============================================================================
