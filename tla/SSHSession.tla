---------------------------- MODULE SSHSession ----------------------------
(***************************************************************************)
(* The tail of one SSH session, src/main.go sshHandler from the moment the *)
(* container is attached: the CopyMonitor of src/orca/ioctrl/copymonitor.go *)
(* with its two copier goroutines ("out": stream.Reader -> sessProxy, "in": *)
(* sessProxy -> stream.Conn), the proxy pipes of src/orca/ioctrl/ioctrl.go, *)
(* the select of the handler on cu.ShutdownDone() and cm.Done(), its       *)
(* deferred exit handler, and the cases of the ContainerUser goroutine     *)
(* (src/orca/containeruser.go) that decide what ShutdownDone delivers.     *)
(*                                                                         *)
(* Data is abstracted to what decides the exit code: an error is one of    *)
(* ErrorKinds, an exit status is its ContainerState.  Durations (the 1 s   *)
(* grace sleep, docker's latency in reporting the exit) are not modelled:  *)
(* any order of the goroutines' steps is possible.                         *)
(***************************************************************************)
EXTENDS Naturals

CONSTANTS
    ExitKinds,      \* how the container's process may end: "clean" (no error
                    \* message in ContainerWaitOKBody) or "msg"
    ContainerCode   \* the exit code the container's process ends with

ASSUME ExitKinds \subseteq {"clean", "msg"} /\ ContainerCode \in 0..253

Copiers == {"out", "in"}

\* the values of cm.err / the handler's err, by errors.Cause
ErrorKinds == {"nil", "EOF", "forced", "closedPipe", "timeout", "containerErr",
               "unexpected"}

CUStates == {"Working", "Shutdown", "ShutdownWithErrMsg", "ShutdownWithErr",
             "ShutdownSessionLen", "ShutdownInactivity", "closed"}

VARIABLES
    containerExit,  \* "running", or how the container's process ended
    cuState,        \* cu.status.ContainerState; "closed" once the CU returned
    inputEOF,       \* the client closed its input: the proxy closed p1
    clientGone,     \* the client disconnected: sess.Context() is cancelled
    sentLate,       \* the client typed something after the process ended
    proxyClosed,    \* sessProxy.Close() (p2) was called
    streamClosed,   \* the deferred stream.Close() ran
    demanded,       \* the server's ShutdownStatus() >= Demanded
    creator,        \* which session's context the CU runs under: "this" or "other"
    copier,         \* copier[c]: "copying", "grace" (first, sleeping 1 s), "done"
    isDone, isCorrect, cmErr,   \* the fields of CopyMonitor under cm.lock
    cmClosed,       \* cm.Close() was called
    handler,        \* "waiting" in the select, "returning", "exited"
    err,            \* the handler's err
    exitCode        \* status_ExitCode

vars == <<containerExit, cuState, inputEOF, clientGone, sentLate, proxyClosed,
          streamClosed, demanded, creator, copier, isDone, isCorrect, cmErr, cmClosed,
          handler, err, exitCode>>

\* the session context; gliderlabs/ssh cancels it once the handler returned
SessCtxDone == clientGone \/ handler = "exited"

\* cm.ctx = context.WithCancel(sess.Context())
CmCtxDone == cmClosed \/ SessCtxDone

-----------------------------------------------------------------------------
(* How a copier's loop can end, given the pipes (ioctrl.go).  sessProxy is *)
(* p2: p2.Read reads what p1 writes and gets EOF once p1 closed (client    *)
(* EOF), ErrClosedPipe once p2 itself closed; p2.Write fails once either   *)
(* end closed.  ctxDone is only looked at between two Reads.               *)

OutEnds ==
    (IF containerExit # "running" THEN {"EOF"} ELSE {})
    \cup (IF streamClosed \/ inputEOF \/ proxyClosed THEN {"closedPipe"} ELSE {})
    \cup (IF CmCtxDone THEN {"forced"} ELSE {})

InEnds ==
    (IF inputEOF /\ ~proxyClosed THEN {"EOF"} ELSE {})
    \cup (IF proxyClosed \/ (~inputEOF /\ sentLate)
          THEN {"closedPipe"} ELSE {})
    \cup (IF CmCtxDone THEN {"forced"} ELSE {})

Ends(c) == IF c = "out" THEN OutEnds ELSE InEnds

-----------------------------------------------------------------------------
Init ==
    /\ containerExit = "running"
    /\ cuState = "Working"
    /\ inputEOF = FALSE /\ clientGone = FALSE /\ sentLate = FALSE
    /\ proxyClosed = FALSE
    /\ streamClosed = FALSE /\ demanded = FALSE
    \* GetContainerUser reuses a live CU of the same user, created by an
    \* earlier session, or makes one with this session's jc
    /\ creator \in {"this", "other"}
    /\ copier = [c \in Copiers |-> "copying"]
    /\ isDone = FALSE /\ isCorrect = FALSE /\ cmErr = "nil" /\ cmClosed = FALSE
    /\ handler = "waiting" /\ err = "nil" /\ exitCode = 255

envVars == <<containerExit, inputEOF, clientGone, sentLate, proxyClosed, streamClosed,
             demanded, creator>>
cmVars == <<copier, isDone, isCorrect, cmErr, cmClosed>>
hVars == <<handler, err, exitCode>>

\* the environment: the container's process ends; the client closes its
\* input or disconnects; the server is told to Demand shutdown
ContainerExits(k) ==
    /\ containerExit = "running"
    /\ containerExit' = k
    /\ UNCHANGED <<creator, cuState, inputEOF, clientGone, sentLate, proxyClosed, streamClosed,
                   demanded, cmVars, hVars>>

ClientClosesInput ==
    /\ ~inputEOF
    /\ inputEOF' = TRUE
    /\ UNCHANGED <<creator, containerExit, cuState, clientGone, sentLate, proxyClosed,
                   streamClosed, demanded, cmVars, hVars>>

ClientDisconnects ==
    /\ ~clientGone
    /\ clientGone' = TRUE
    /\ UNCHANGED <<creator, containerExit, cuState, inputEOF, sentLate, proxyClosed,
                   streamClosed, demanded, cmVars, hVars>>

\* a keystroke read by the in copier once the process ended or the stream
\* was closed: its Write to stream.Conn fails
ClientSendsLate ==
    /\ (containerExit # "running" \/ streamClosed) /\ ~sentLate
    /\ sentLate' = TRUE
    /\ UNCHANGED <<creator, containerExit, cuState, inputEOF, clientGone, proxyClosed,
                   streamClosed, demanded, cmVars, hVars>>

ServerDemands ==
    /\ ~demanded
    /\ demanded' = TRUE
    /\ UNCHANGED <<creator, containerExit, cuState, inputEOF, clientGone, sentLate, proxyClosed,
                   streamClosed, cmVars, hVars>>

\* go func() { <-jc.Done(); sessProxy.Close() }(), jc.Done() being the
\* session context
ProxyCloser ==
    /\ SessCtxDone /\ ~proxyClosed
    /\ proxyClosed' = TRUE
    /\ UNCHANGED <<creator, containerExit, cuState, inputEOF, clientGone, sentLate, streamClosed,
                   demanded, cmVars, hVars>>

-----------------------------------------------------------------------------
(* The ContainerUser goroutine, the cases that set cu.status.              *)

\* case st := <-execResultSourceC, read only while Working
CUExecResult ==
    /\ cuState = "Working" /\ containerExit # "running"
    /\ cuState' = IF containerExit = "msg" THEN "ShutdownWithErrMsg" ELSE "Shutdown"
    /\ UNCHANGED <<envVars, cmVars, hVars>>

\* case cu.status.Err = <-execErrorSourceC
CUExecError ==
    /\ cuState = "Working"
    /\ cuState' = "ShutdownWithErr"
    /\ UNCHANGED <<envVars, cmVars, hVars>>

\* case <-sessionTimer.C / case <-inactiveTimer.C: neither timer is stopped
\* when the state leaves Working
CUTimerFires(t) ==
    /\ cuState # "closed"
    /\ cuState' = t
    /\ UNCHANGED <<envVars, cmVars, hVars>>

\* case <-jc.Done(): return; the deferred close(cu.containerShutdownC).
\* The CU's jc is the session context of the sshHandler that created it:
\* this one's, or another session's, which may end at any time.
CUReturns ==
    /\ cuState # "closed"
    /\ creator = "other" \/ SessCtxDone
    /\ cuState' = "closed"
    /\ UNCHANGED <<envVars, cmVars, hVars>>

-----------------------------------------------------------------------------
(* The copier goroutines of AddCopier.                                     *)

\* the loop ends with e; then, under cm.lock, the first one records it,
\* stops the ticker and, unless it is EOF or nil, calls cm.Close() at once
CopierEnds(c, e) ==
    /\ copier[c] = "copying" /\ e \in Ends(c)
    /\ IF ~isDone
         THEN /\ isDone' = TRUE
              /\ isCorrect' = (e \in {"EOF", "nil"})
              /\ cmErr' = e
              /\ copier' = [copier EXCEPT ![c] =
                              IF isCorrect' THEN "grace" ELSE "done"]
              /\ cmClosed' = (cmClosed \/ ~isCorrect')
         ELSE /\ copier' = [copier EXCEPT ![c] = "done"]
              /\ UNCHANGED <<isDone, isCorrect, cmErr, cmClosed>>
    /\ UNCHANGED <<cuState, envVars, hVars>>

\* time.Sleep(time.Second); cm.Close()
GraceElapses(c) ==
    /\ copier[c] = "grace"
    /\ copier' = [copier EXCEPT ![c] = "done"]
    /\ cmClosed' = TRUE
    /\ UNCHANGED <<isDone, isCorrect, cmErr, cuState, envVars, hVars>>

-----------------------------------------------------------------------------
(* sshHandler.                                                             *)

\* case exitStatus := <-cu.ShutdownDone(): the CU offers its status once it
\* left Working; a closed channel gives the zero ContainerStatus
HandlerShutdownDone ==
    /\ handler = "waiting" /\ cuState # "Working"
    /\ err' = CASE cuState \in {"ShutdownInactivity", "ShutdownSessionLen"} -> "timeout"
                [] cuState \in {"ShutdownWithErr", "ShutdownWithErrMsg"} -> "containerErr"
                [] cuState = "Shutdown" -> err
                [] OTHER -> "unexpected"
    /\ exitCode' = IF cuState \in {"Shutdown", "ShutdownWithErrMsg"}
                     THEN ContainerCode ELSE exitCode
    /\ handler' = "returning"
    /\ streamClosed' = TRUE
    /\ UNCHANGED <<creator, containerExit, cuState, inputEOF, clientGone, sentLate, proxyClosed,
                   demanded, cmVars>>

\* case <-cm.Done(): err = errors.WithMessage(cm.Status() err, "IO Closed"),
\* whose cause is cm.err (nil stays nil)
HandlerIODone ==
    /\ handler = "waiting" /\ CmCtxDone
    /\ err' = cmErr
    /\ handler' = "returning"
    /\ streamClosed' = TRUE
    /\ UNCHANGED <<creator, containerExit, cuState, inputEOF, clientGone, sentLate, proxyClosed,
                   demanded, cmVars, exitCode>>

\* the deferred exit handler: no error mapping once shutdown is Demanded;
\* nil, userFail and io.EOF keep the code, the timeouts give 254, anything
\* else 255; then sess.Exit(status_ExitCode)
ExitHandler ==
    /\ handler = "returning"
    /\ exitCode' = CASE demanded -> exitCode
                     [] err \in {"nil", "EOF"} -> exitCode
                     [] err = "timeout" -> 254
                     [] OTHER -> 255
    /\ err' = IF ~demanded /\ err \in {"nil", "EOF"} THEN "nil" ELSE err
    /\ handler' = "exited"
    /\ UNCHANGED <<envVars, cuState, cmVars>>

-----------------------------------------------------------------------------
Next ==
    \/ \E k \in ExitKinds : ContainerExits(k)
    \/ ClientClosesInput \/ ClientDisconnects \/ ClientSendsLate \/ ServerDemands \/ ProxyCloser
    \/ CUExecResult \/ CUExecError \/ CUReturns
    \/ \E t \in {"ShutdownSessionLen", "ShutdownInactivity"} : CUTimerFires(t)
    \/ \E c \in Copiers :
          \/ \E e \in Ends(c) : CopierEnds(c, e)
          \/ GraceElapses(c)
    \/ HandlerShutdownDone \/ HandlerIODone \/ ExitHandler

Spec == Init /\ [][Next]_vars

-----------------------------------------------------------------------------
TypeOK ==
    /\ containerExit \in {"running"} \cup ExitKinds
    /\ cuState \in CUStates
    /\ copier \in [Copiers -> {"copying", "grace", "done"}]
    /\ cmErr \in ErrorKinds /\ err \in ErrorKinds
    /\ handler \in {"waiting", "returning", "exited"}
    /\ exitCode \in 0..255
    /\ creator \in {"this", "other"}

\* Spec section 6 and 7, scenario 1: when the container's process ends
\* cleanly with code k and nothing else happened to the session (the client
\* stayed connected with its input open and sent nothing more, no timeout,
\* no shutdown), the SSH
\* exit status is k.  sshHandler takes it from cu.ShutdownDone(), but the
\* out copier's EOF also closes the CopyMonitor after its 1 s grace sleep,
\* and on <-cm.Done() status_ExitCode keeps its initial 255.
CleanExitCodeReported ==
    ( /\ handler = "exited" /\ containerExit = "clean"
      /\ ~inputEOF /\ ~clientGone /\ ~sentLate /\ ~demanded
      /\ cuState \in {"Working", "Shutdown"} )
    => exitCode = ContainerCode

=============================================================================
