--------------------------- MODULE ImageScheduler ---------------------------
(***************************************************************************)
(* The placement engine of one Image (src/orca/image.go, container.go):    *)
(*   - the scheduler goroutine manageImageState, which hands out election  *)
(*     start signals and the candidates channel of the open election;      *)
(*   - one manageContainerState goroutine per launched Container, which    *)
(*     bids in elections and keeps the concurrent/reserved/total counters; *)
(*   - getContainer, run for each Requester (one getContainerC call of a   *)
(*     ContainerUser), which opens an election, collects candidacies until *)
(*     its 5 ms deadline, picks the fullest candidate or launches a new    *)
(*     container with up to five attempts;                                 *)
(*   - the goroutine that sends nil to every rejected candidate, and the   *)
(*     ContainerUser side of the binding: the user sent on the winner's    *)
(*     candidacyResponce and, at exit, on its userLeft channel.            *)
(* Every unbuffered channel operation is a rendezvous: the send and the    *)
(* receive are one step of the model, taken by the two goroutines.         *)
(* Channels are named by what the code keeps in them: an election start   *)
(* signal is the number of the election that closes it, a candidates       *)
(* channel is the Requester that made it.                                  *)
(***************************************************************************)
EXTENDS Integers, Sequences, SequencesExt, FiniteSets, FiniteSetsExt

CONSTANTS
    Containers,      \* identities the runtime may give launched containers
    Requesters,      \* getContainer calls, one per ContainerUser
    ConcurrentUsers, \* Image.ConcurrentUsers, -1 = unbounded
    TotalUsers,      \* Image.TotalUsers, -1 = unbounded
    LaunchAttempts,  \* attamptsRemainings in getContainer (5 in the code)
    ShutdownPossible,\* whether the process may be asked to shut down
    SessionScoped,   \* whether each getContainer runs under its own SSH
                     \* session's context (sshHandler: jc.NewCtx(sess.Context()),
                     \* main.go:322) rather than the server's (webHandler)
    None             \* a nil channel or pointer

ASSUME /\ ConcurrentUsers \in Int /\ TotalUsers \in Int
       /\ LaunchAttempts \in Nat \ {0} /\ ShutdownPossible \in BOOLEAN
       /\ SessionScoped \in BOOLEAN
       /\ None \notin Containers \cup Requesters

VARIABLES
    sigEpoch,    \* manageImageState: number of elections started; the
                 \* nextElectionSignallingC handed out is signal sigEpoch,
                 \* and signal i is closed iff i < sigEpoch
    curElection, \* manageImageState: curElectionCandidatesC, None between
                 \* elections (then electionRequestChan is open and
                 \* getCandidatesChan, voteStop are nil)
    ctr,         \* ctr[c]: the locals of c's manageContainerState loop
    phase,       \* phase[r]: where getContainer / its ContainerUser is
    cands,       \* cands[r]: the candidates slice collected by r
    result,      \* result[r]: the container r returns, None before
    attempts,    \* attempts[r]: attamptsRemainings
    rejects,     \* rejects[r]: candidates still to be sent nil by the
                 \* rejection goroutine r started
    shutdown,    \* the ShutdownController: "working", "requested" (only
                 \* IsShuttingDown() holds), "demanded" (jc.Done() is closed)
    schedRunning,\* manageImageState has not returned
    sessGone     \* requesters whose SSH session context is cancelled

shutdownVars == <<shutdown, schedRunning, sessGone>>
vars == <<sigEpoch, curElection, ctr, phase, cands, result, attempts, rejects,
          shutdownVars>>

Phases == {"request",  \* electionRequestC <- candidatesC pending
           "collect",  \* election open, receiving on candidatesC
           "stopping", \* deadline fired, blocked on electionStopC <- {}
           "launch",   \* requestTimerC armed, launching containers
           "deliver",  \* getContainerC goroutine blocked on ocC <- oc
           "bind",     \* ContainerUser Working, sending on candidacyResponce
           "bound",    \* user bound to the container
           "left",     \* ContainerUser exited, userLeft delivered
           "gone",     \* ContainerUser returned on jc.Done() without sending
           "orphaned", \* ContainerUser left Starting first: ocC <- oc blocks for good
           "failed"}   \* getContainer returned "retry exceeded"

CStates == {"none", "running", "hung", "exited"}
Timers  == {"off", "armed", "expired", "drained"}
\* deletionTimer: nil; running; fired with its value still in the channel;
\* fired and its value consumed by the select (deletionTimer stays non-nil).

Unbounded(n) == n = -1

\* jc.IsShuttingDown(): Requested, Demanded or Forced
IsShuttingDown == shutdown # "working"
\* ShutdownCtx is closed: the server's jc.Done() is ready
JcDone == shutdown = "demanded"

\* jc.Done() of requester r: the jc its ContainerUser was made with, and
\* with it getContainerC, getContainer and the rejection goroutine
JcDoneOf(r) == JcDone \/ r \in sessGone

\* jc.Done() of c's lifecycle: launchContainer passes on the jc of the
\* requester that launched it
CtrJcDone(c) == JcDone \/ ctr[c].owner \in sessGone

(* A container id not yet launched, and the state launchContainer gives a *)
(* fresh one: reservedUsers = 1 for the user that caused its creation, and *)
(* the jc of requester r (recorded only where it is a session's).          *)
Unlaunched == [st |-> "none", concurrentUsers |-> 0, reservedUsers |-> 0,
               totalUsers |-> 0, isEndOfLife |-> FALSE, timer |-> "off",
               snap |-> 0, signal |-> None, wantSignal |-> FALSE,
               wantCands |-> FALSE, candCh |-> None, owner |-> None]
Launched(r) == [Unlaunched EXCEPT !.st = "running", !.reservedUsers = 1,
                                  !.wantSignal = TRUE,
                                  !.owner = IF SessionScoped THEN r ELSE None]

Idle(k) == k.concurrentUsers = 0 /\ k.reservedUsers = 0

(* isEndOfLife = isEndOfLife || oc.totalUsers == oc.Image.TotalUsers      *)
EndOfLife(k) == k.isEndOfLife \/ k.totalUsers = TotalUsers

(* The checks at the top of the lifecycle loop, run after every select    *)
(* case on the state that case produced.  A deletion timer that already   *)
(* fired and was consumed makes Stop() return FALSE, and the following    *)
(* <-deletionTimer.C never returns: the goroutine hangs.                  *)
LoopTop(k) ==
    LET k1 == [k EXCEPT !.isEndOfLife = EndOfLife(k)]
    IN  CASE Idle(k1) /\ (k1.isEndOfLife \/ IsShuttingDown)
                                                  -> [k1 EXCEPT !.st = "exited"]
          [] Idle(k1) /\ k1.timer = "off"         -> [k1 EXCEPT !.timer = "armed"]
          [] k1.concurrentUsers # 0 /\ k1.timer = "drained"
                                                  -> [k1 EXCEPT !.st = "hung"]
          [] k1.concurrentUsers # 0 /\ k1.timer \in {"armed", "expired"}
                                                  -> [k1 EXCEPT !.timer = "off"]
          [] OTHER                                -> k1

(* Whether a container bids when an election start signal fires.  The     *)
(* code compares with != rather than <.                                   *)
Admissible(k) ==
    ~k.isEndOfLife /\ k.reservedUsers + k.concurrentUsers # ConcurrentUsers

(* getContainer's scan: the first candidate with the largest snapshot of  *)
(* concurrentUsers (a later one wins only if strictly larger).            *)
BestCandidate(s) ==
    LET Scan(best, n) == IF s[n].cu > s[best].cu THEN n ELSE best
    IN  FoldLeft(Scan, 1, [i \in 1..Len(s) |-> i])

(* The rejected candidates, in the order the rejection goroutine sends:   *)
(* the winner's slot is overwritten by the last one and the slice cut.    *)
Rejected(s, b) == [i \in 1..Len(s)-1 |-> IF i = b THEN s[Len(s)].container
                                                   ELSE s[i].container]

Init ==
    /\ sigEpoch = 0
    /\ curElection = None
    /\ ctr = [c \in Containers |-> Unlaunched]
    /\ phase = [r \in Requesters |-> "request"]
    /\ cands = [r \in Requesters |-> <<>>]
    /\ result = [r \in Requesters |-> None]
    /\ attempts = [r \in Requesters |-> LaunchAttempts]
    /\ rejects = [r \in Requesters |-> <<>>]
    /\ shutdown = "working"
    /\ schedRunning = TRUE
    /\ sessGone = {}

Running(c) == ctr[c].st = "running"

-----------------------------------------------------------------------------
(* Scheduler <-> container: getElectionStartSignalC <- nextElectionSignallingC *)
SendElectionStartSignal(c) ==
    /\ schedRunning /\ Running(c) /\ ctr[c].wantSignal
    /\ ctr' = [ctr EXCEPT ![c] = LoopTop([@ EXCEPT !.signal = sigEpoch,
                                                    !.wantSignal = FALSE])]
    /\ UNCHANGED <<sigEpoch, curElection, phase, cands, result, attempts, rejects>>
    /\ UNCHANGED shutdownVars

(* Requester <-> scheduler: electionRequestC <- candidatesC.  The         *)
(* scheduler closes the pending start signal and makes the next one.      *)
RequestElection(r) ==
    /\ schedRunning /\ phase[r] = "request" /\ curElection = None
    /\ curElection' = r
    /\ sigEpoch' = sigEpoch + 1
    /\ phase' = [phase EXCEPT ![r] = "collect"]
    /\ UNCHANGED <<ctr, cands, result, attempts, rejects>>
    /\ UNCHANGED shutdownVars

(* Container: <-electionStartSignal fires.  It fetches the next signal    *)
(* and, if admissible, starts asking for the candidates channel; if not,  *)
(* getCandidatesChan keeps whatever value it had.                         *)
ElectionStartSignalActivated(c) ==
    /\ Running(c) /\ ctr[c].signal # None /\ ctr[c].signal < sigEpoch
    /\ ctr' = [ctr EXCEPT ![c] = LoopTop([@ EXCEPT !.signal = None,
                      !.wantSignal = TRUE, !.wantCands = Admissible(ctr[c]) \/ @])]
    /\ UNCHANGED <<sigEpoch, curElection, phase, cands, result, attempts, rejects>>
    /\ UNCHANGED shutdownVars

(* Scheduler <-> container: getCandidatesChan <- curElectionCandidatesC   *)
SendCandidatesChan(c) ==
    /\ schedRunning /\ Running(c) /\ ctr[c].wantCands /\ curElection # None
    /\ ctr' = [ctr EXCEPT ![c] = LoopTop([@ EXCEPT !.candCh = curElection,
                                                    !.wantCands = FALSE])]
    /\ UNCHANGED <<sigEpoch, curElection, phase, cands, result, attempts, rejects>>
    /\ UNCHANGED shutdownVars

\* Mutant: the bid sent without bumping reservedUsers.
SendCandidateWithoutReserving(c) ==
    LET r == ctr[c].candCh
    IN  /\ Running(c) /\ r # None /\ phase[r] = "collect"
        /\ cands' = [cands EXCEPT ![r] = Append(@, [container |-> c, cu |-> ctr[c].snap])]
        /\ ctr' = [ctr EXCEPT ![c] = LoopTop([@ EXCEPT !.candCh = None])]
        /\ UNCHANGED <<sigEpoch, curElection, phase, result, attempts, rejects>>
        /\ UNCHANGED shutdownVars

(* Container <-> requester: candidatesChannel <- candidate, received by   *)
(* getContainer only while its election is collecting.                    *)
SendCandidate(c) ==
    LET r == ctr[c].candCh
    IN  /\ Running(c) /\ r # None /\ phase[r] = "collect"
        /\ cands' = [cands EXCEPT ![r] = Append(@, [container |-> c, cu |-> ctr[c].snap])]
        /\ ctr' = [ctr EXCEPT ![c] = LoopTop([@ EXCEPT !.candCh = None,
                                                        !.reservedUsers = @ + 1])]
        /\ UNCHANGED <<sigEpoch, curElection, phase, result, attempts, rejects>>
        /\ UNCHANGED shutdownVars

(* Requester: <-electionDeadline; it then blocks on electionStopC.        *)
ElectionDeadline(r) ==
    /\ phase[r] = "collect"
    /\ phase' = [phase EXCEPT ![r] = "stopping"]
    /\ UNCHANGED <<sigEpoch, curElection, ctr, cands, result, attempts, rejects>>
    /\ UNCHANGED shutdownVars

\* Mutant: the scheduler never reopens elections after a stop.
StopElectionKeepingElection(r) ==
    /\ schedRunning /\ phase[r] = "stopping" /\ curElection = r
    /\ UNCHANGED curElection
    /\ IF cands[r] # <<>>
         THEN LET b == BestCandidate(cands[r])
              IN  /\ result' = [result EXCEPT ![r] = cands[r][b].container]
                  /\ rejects' = [rejects EXCEPT ![r] = Rejected(cands[r], b)]
                  /\ phase' = [phase EXCEPT ![r] = "deliver"]
         ELSE /\ phase' = [phase EXCEPT ![r] = "launch"]
              /\ UNCHANGED <<result, rejects>>
    /\ UNCHANGED <<sigEpoch, ctr, cands, attempts>>
    /\ UNCHANGED shutdownVars

(* Requester <-> scheduler: electionStopC <- {}; then the evaluation: the *)
(* fullest candidate wins and the others go to the rejection goroutine,   *)
(* or, with no candidate, the launch timer is armed.                      *)
StopElection(r) ==
    /\ schedRunning /\ phase[r] = "stopping" /\ curElection = r
    /\ curElection' = None
    /\ IF cands[r] # <<>>
         THEN LET b == BestCandidate(cands[r])
              IN  /\ result' = [result EXCEPT ![r] = cands[r][b].container]
                  /\ rejects' = [rejects EXCEPT ![r] = Rejected(cands[r], b)]
                  /\ phase' = [phase EXCEPT ![r] = "deliver"]
         ELSE /\ phase' = [phase EXCEPT ![r] = "launch"]
              /\ UNCHANGED <<result, rejects>>
    /\ UNCHANGED <<sigEpoch, ctr, cands, attempts>>
    /\ UNCHANGED shutdownVars

\* Mutant: the retry test made on the count before the decrement.
LaunchContainerCountingBeforeDecrement(r) ==
    /\ phase[r] = "launch"
    /\ attempts' = [attempts EXCEPT ![r] = @ - 1]
    /\ \/ /\ phase' = [phase EXCEPT ![r] = IF attempts[r] > 0 THEN "launch"
                                                             ELSE "failed"]
          /\ UNCHANGED <<ctr, result>>
       \/ \E c \in Containers :
             /\ ctr[c].st = "none"
             /\ ctr' = [ctr EXCEPT ![c] = LoopTop(Launched(r))]
             /\ result' = [result EXCEPT ![r] = c]
             /\ phase' = [phase EXCEPT ![r] = "deliver"]
    /\ UNCHANGED <<sigEpoch, curElection, cands, rejects>>
    /\ UNCHANGED shutdownVars

(* Requester: <-requestTimerC; launchContainer either fails (create,      *)
(* start or inspect) or yields a running container reserved for r.        *)
LaunchContainer(r) ==
    /\ phase[r] = "launch"
    /\ attempts' = [attempts EXCEPT ![r] = @ - 1]
    /\ \/ /\ phase' = [phase EXCEPT ![r] = IF attempts[r] - 1 > 0 THEN "launch"
                                                                   ELSE "failed"]
          /\ UNCHANGED <<ctr, result>>
       \/ \E c \in Containers :
             /\ ctr[c].st = "none"
             /\ ctr' = [ctr EXCEPT ![c] = LoopTop(Launched(r))]
             /\ result' = [result EXCEPT ![r] = c]
             /\ phase' = [phase EXCEPT ![r] = "deliver"]
    /\ UNCHANGED <<sigEpoch, curElection, cands, rejects>>
    /\ UNCHANGED shutdownVars

(* getContainerC goroutine <-> ContainerUser: ocC <- oc; the              *)
(* ContainerUser becomes Working.                                         *)
DeliverContainer(r) ==
    /\ phase[r] = "deliver"
    /\ phase' = [phase EXCEPT ![r] = "bind"]
    /\ UNCHANGED <<sigEpoch, curElection, ctr, cands, result, attempts, rejects>>
    /\ UNCHANGED shutdownVars

(* ContainerUser: it left Starting (a timer, or <-jc.Done()) before the   *)
(* getContainerC goroutine sent oc; the containerSourceC it would receive *)
(* on is nil from then on, so the send at image.go:201 never completes.    *)
DeliveryOrphaned(r) ==
    /\ phase[r] = "deliver"
    /\ phase' = [phase EXCEPT ![r] = "orphaned"]
    /\ UNCHANGED <<sigEpoch, curElection, ctr, cands, result, attempts, rejects>>
    /\ UNCHANGED shutdownVars

(* ContainerUser <-> winner: candidacyResponce <- user.                   *)
AcceptCandidacy(r) ==
    LET c == result[r]
    IN  /\ phase[r] = "bind" /\ Running(c)
        /\ ctr' = [ctr EXCEPT ![c] = LoopTop([@ EXCEPT
                      !.reservedUsers = @ - 1,
                      !.concurrentUsers = @ + 1,
                      !.totalUsers = @ + 1,
                      !.snap = ctr[c].concurrentUsers + 1])]
        /\ phase' = [phase EXCEPT ![r] = "bound"]
        /\ UNCHANGED <<sigEpoch, curElection, cands, result, attempts, rejects>>
        /\ UNCHANGED shutdownVars

(* Rejection goroutine <-> candidate: candidacyResponce <- nil.           *)
RejectCandidacy(r) ==
    LET c == Head(rejects[r])
    IN  /\ rejects[r] # <<>> /\ Running(c)
        /\ ctr' = [ctr EXCEPT ![c] = LoopTop([@ EXCEPT !.reservedUsers = @ - 1])]
        /\ rejects' = [rejects EXCEPT ![r] = Tail(@)]
        /\ UNCHANGED <<sigEpoch, curElection, phase, cands, result, attempts>>
        /\ UNCHANGED shutdownVars

\* Mutant: userLeft received without decrementing concurrentUsers.
UserLeftKeepingCount(r) ==
    LET c == result[r]
    IN  /\ phase[r] = "bound" /\ Running(c)
        /\ ctr' = [ctr EXCEPT ![c] = LoopTop(@)]
        /\ phase' = [phase EXCEPT ![r] = "left"]
        /\ UNCHANGED <<sigEpoch, curElection, cands, result, attempts, rejects>>
        /\ UNCHANGED shutdownVars

(* Exiting ContainerUser <-> container: userLeft <- user.                 *)
UserLeft(r) ==
    LET c == result[r]
    IN  /\ phase[r] = "bound" /\ Running(c)
        /\ ctr' = [ctr EXCEPT ![c] = LoopTop([@ EXCEPT !.concurrentUsers = @ - 1])]
        /\ phase' = [phase EXCEPT ![r] = "left"]
        /\ UNCHANGED <<sigEpoch, curElection, cands, result, attempts, rejects>>
        /\ UNCHANGED shutdownVars

(* The 30 s deletion timer expires: its value waits in the channel.       *)
DeletionTimerExpires(c) ==
    /\ Running(c) /\ ctr[c].timer = "armed"
    /\ ctr' = [ctr EXCEPT ![c].timer = "expired"]
    /\ UNCHANGED <<sigEpoch, curElection, phase, cands, result, attempts, rejects>>
    /\ UNCHANGED shutdownVars

(* Container: <-deletionTimerC marks it end-of-life.                      *)
DeletionTimerKicks(c) ==
    /\ Running(c) /\ ctr[c].timer = "expired"
    /\ ctr' = [ctr EXCEPT ![c] = LoopTop([@ EXCEPT !.timer = "drained",
                                                    !.isEndOfLife = TRUE])]
    /\ UNCHANGED <<sigEpoch, curElection, phase, cands, result, attempts, rejects>>
    /\ UNCHANGED shutdownVars

(* The shutdown controller, reduced to what these goroutines observe:     *)
(* Request() makes IsShuttingDown() true, Demand() (or Force()) closes    *)
(* ShutdownCtx and with it jc.Done().                                     *)
ShutdownRequested ==
    /\ ShutdownPossible /\ shutdown = "working"
    /\ shutdown' = "requested"
    /\ UNCHANGED <<sigEpoch, curElection, ctr, phase, cands, result, attempts,
                   rejects, schedRunning, sessGone>>

ShutdownDemanded ==
    /\ ShutdownPossible /\ shutdown \in {"working", "requested"}
    /\ shutdown' = "demanded"
    /\ UNCHANGED <<sigEpoch, curElection, ctr, phase, cands, result, attempts,
                   rejects, schedRunning, sessGone>>

(* Scheduler: case <-jc.Done(): return.  Every channel it served is then  *)
(* left without a partner, the electionStopC of an open election too.     *)
SchedulerReturns ==
    /\ schedRunning /\ JcDone
    /\ schedRunning' = FALSE
    /\ UNCHANGED <<sigEpoch, curElection, ctr, phase, cands, result, attempts,
                   rejects, shutdown, sessGone>>

(* The SSH session of requester r ends (the client disconnects, or the    *)
(* server closes it): sess.Context() is cancelled, and with it the jc of  *)
(* its ContainerUser and of every goroutine started with that jc.  The    *)
(* scheduler runs under the server's jc and is not affected.             *)
SessionContextDone(r) ==
    /\ SessionScoped /\ r \notin sessGone
    /\ sessGone' = sessGone \cup {r}
    /\ UNCHANGED <<sigEpoch, curElection, ctr, phase, cands, result, attempts,
                   rejects, shutdown, schedRunning>>

(* Container: case <-jc.Done(): return, whatever it still owes.  Its jc   *)
(* is the launching requester's: on SSH, that user's session.            *)
ContainerShutdown(c) ==
    /\ Running(c) /\ CtrJcDone(c)
    /\ ctr' = [ctr EXCEPT ![c].st = "exited"]
    /\ UNCHANGED <<sigEpoch, curElection, phase, cands, result, attempts, rejects>>
    /\ UNCHANGED shutdownVars

(* Requester: case <-jc.Done(): return nil, jc.Err().  The select is      *)
(* reached while requesting, collecting and launching; the blocking       *)
(* electionStopC send of the "stopping" phase is outside it.              *)
GetContainerCancelled(r) ==
    /\ phase[r] \in {"request", "collect", "launch"} /\ JcDoneOf(r)
    /\ phase' = [phase EXCEPT ![r] = "failed"]
    /\ UNCHANGED <<sigEpoch, curElection, ctr, cands, result, attempts, rejects>>
    /\ UNCHANGED shutdownVars

(* ContainerUser: the candidacyResponce send, and later its deferred      *)
(* userLeft send, both take <-jc.Done() instead; the user never reaches   *)
(* (or never leaves) the container.                                       *)
BindCancelled(r) ==
    /\ phase[r] \in {"bind", "bound"} /\ JcDoneOf(r)
    /\ phase' = [phase EXCEPT ![r] = "gone"]
    /\ UNCHANGED <<sigEpoch, curElection, ctr, cands, result, attempts, rejects>>
    /\ UNCHANGED shutdownVars

(* Rejection goroutine: case <-jc.Done(): break leaves only the select,  *)
(* so the loop goes on to the next rejected candidate.                    *)
RejectionSkipped(r) ==
    /\ rejects[r] # <<>> /\ JcDoneOf(r)
    /\ rejects' = [rejects EXCEPT ![r] = Tail(@)]
    /\ UNCHANGED <<sigEpoch, curElection, ctr, phase, cands, result, attempts>>
    /\ UNCHANGED shutdownVars

-----------------------------------------------------------------------------
ContainerStep(c) ==
    \/ SendElectionStartSignal(c)
    \/ ElectionStartSignalActivated(c)
    \/ SendCandidatesChan(c)
    \/ SendCandidate(c)
    \/ DeletionTimerExpires(c)
    \/ DeletionTimerKicks(c)
    \/ ContainerShutdown(c)

RequesterStep(r) ==
    \/ RequestElection(r)
    \/ ElectionDeadline(r)
    \/ StopElection(r)
    \/ LaunchContainer(r)
    \/ DeliverContainer(r)
    \/ DeliveryOrphaned(r)
    \/ AcceptCandidacy(r)
    \/ RejectCandidacy(r)
    \/ UserLeft(r)
    \/ GetContainerCancelled(r)
    \/ BindCancelled(r)
    \/ RejectionSkipped(r)

ShutdownStep ==
    \/ ShutdownRequested
    \/ ShutdownDemanded
    \/ SchedulerReturns
    \/ \E r \in Requesters : SessionContextDone(r)

Next ==
    \/ \E c \in Containers : ContainerStep(c)
    \/ \E r \in Requesters : RequesterStep(r)
    \/ ShutdownStep

(* Every goroutine that can act eventually does; a requester blocked on   *)
(* electionRequestC is served in FIFO order by the Go runtime, so it is   *)
(* served even though the channel is only intermittently open.  Shutdown  *)
(* itself, a ContainerUser leaving Starting, and a client disconnecting   *)
(* are never forced to happen; but once a requester's ContainerUser is    *)
(* finished without it (orphaned), sshHandler gets a non-Working status,  *)
(* gives up after its maxRestarts tries and returns, and gliderlabs/ssh   *)
(* then cancels the session's context.                                    *)
Fairness ==
    /\ \A c \in Containers : WF_vars(ContainerStep(c))
    /\ \A r \in Requesters :
         /\ SF_vars(RequestElection(r))
         /\ WF_vars(ElectionDeadline(r) \/ StopElection(r) \/ LaunchContainer(r)
                    \/ DeliverContainer(r) \/ AcceptCandidacy(r) \/ UserLeft(r)
                    \/ GetContainerCancelled(r) \/ BindCancelled(r))
         /\ WF_vars(RejectCandidacy(r) \/ RejectionSkipped(r))
         /\ WF_vars(phase[r] = "orphaned" /\ SessionContextDone(r))
    /\ WF_vars(SchedulerReturns)

Spec == Init /\ [][Next]_vars /\ Fairness

-----------------------------------------------------------------------------
TypeOK ==
    /\ sigEpoch \in 0..Cardinality(Requesters)
    /\ curElection \in Requesters \cup {None}
    /\ \A c \in Containers :
         /\ ctr[c].st \in CStates /\ ctr[c].timer \in Timers
         /\ ctr[c].concurrentUsers \in Nat /\ ctr[c].reservedUsers \in Nat
         /\ ctr[c].totalUsers \in Nat /\ ctr[c].snap \in Nat
         /\ ctr[c].isEndOfLife \in BOOLEAN
         /\ ctr[c].signal \in Nat \cup {None}
         /\ ctr[c].wantSignal \in BOOLEAN /\ ctr[c].wantCands \in BOOLEAN
         /\ ctr[c].candCh \in Requesters \cup {None}
    /\ phase \in [Requesters -> Phases]
    /\ \A r \in Requesters :
         /\ cands[r] \in Seq([container : Containers, cu : Nat])
         /\ rejects[r] \in Seq(Containers)
    /\ result \in [Requesters -> Containers \cup {None}]
    /\ attempts \in [Requesters -> 0..LaunchAttempts]
    /\ shutdown \in {"working", "requested", "demanded"}
    /\ schedRunning \in BOOLEAN
    /\ sessGone \subseteq Requesters
    /\ \A c \in Containers : ctr[c].owner \in Requesters \cup {None}

(* Responses container c is still owed: its bids held by a requester     *)
(* whose election is not yet evaluated, nil replies the rejection         *)
(* goroutines have yet to send, and the user of a requester that chose c  *)
(* and has not yet sent it on candidacyResponce (or never will: its       *)
(* delivery was orphaned).                                               *)
Owed(c) ==
    MapThenSumSet(LAMBDA r :
        (IF phase[r] \in {"collect", "stopping"}
           THEN Cardinality({i \in DOMAIN cands[r] : cands[r][i].container = c})
           ELSE 0)
        + Cardinality({i \in DOMAIN rejects[r] : rejects[r][i] = c})
        + (IF phase[r] \in {"deliver", "bind", "orphaned"} /\ result[r] = c
             THEN 1 ELSE 0),
      Requesters)

(* Reservations: every launched container's reservedUsers equals the     *)
(* number of candidacy responses (acceptances and nil rejections) still   *)
(* owed to it.  Since a lifecycle exits only with reservedUsers = 0, this *)
(* also says no response is ever owed to an exited container (a sender    *)
(* would block on its candidacyResponce forever).                         *)
ReservationsAccounted ==
    \A c \in Containers :
        ctr[c].st # "none" /\ ~JcDone => ctr[c].reservedUsers = Owed(c)

(* No over-subscription (spec 8): however bids, wins and departures      *)
(* interleave, a container never has more users bound than              *)
(* Image.ConcurrentUsers, although the getCandidatesChan an admissible   *)
(* activation sets (container.go:197) may outlive its election.          *)
BoundWithinCapacity ==
    \A c \in Containers :
        ~Unbounded(ConcurrentUsers) => ctr[c].concurrentUsers <= ConcurrentUsers

(* A lifecycle goroutine never blocks outside its select (at the          *)
(* <-deletionTimer.C drain of the loop top): a hung lifecycle never takes *)
(* userLeft, never removes its container and holds up shutdown.           *)
NoHungLifecycle ==
    \A c \in Containers : ctr[c].st # "hung"

(* Every getContainer call eventually returns: with the election's winner *)
(* or a launched container, with "retry exceeded", or with jc.Err() once  *)
(* its context is cancelled.  Requesters compete for electionRequestC,    *)
(* each election must be stopped by its own requester, and launches retry *)
(* a bounded number of times.  (Whether the result then reaches its       *)
(* ContainerUser is DeliverContainer's and DeliveryOrphaned's business.)  *)
GetContainerReturns ==
    \A r \in Requesters :
        <>(phase[r] \notin {"request", "collect", "stopping", "launch"})

(* Reclamation: every launched container's lifecycle eventually returns   *)
(* and removes it, whether its users leave, its launcher's session ends,  *)
(* or the delivery to its ContainerUser was orphaned.                     *)
ContainersReclaimed ==
    <>[](\A c \in Containers : ctr[c].st \in {"none", "exited"})

=============================================================================
