--------------------------- MODULE MCContainerUser ---------------------------
EXTENDS ContainerUser, TLC

CONSTANTS c1, c2, h1, h2

\* two CU objects: a user's CU and the one that replaces it
MCCUs == {c1, c2}
\* two sessions of the same user
MCHandlers == {h1, h2}

(* The three states of a stopped container are told apart only by the     *)
(* exit status that sshHandler reports; the select, the loop-top and the  *)
(* properties treat them alike, so states differing only there are one.   *)
ExitStates == {"Shutdown", "ShutdownWithErr", "ShutdownWithErrMsg"}
StateView == [c \in CUs |-> IF state[c] \in ExitStates THEN "Shutdown" ELSE state[c]]
View == <<StateView, running, loc, connectionCount, noMoreConnections, inactiveTimer,
          sessionTimer, activityBuf, source, imgVars, hVars>>

Symmetry == Permutations(MCCUs) \cup Permutations(MCHandlers)
=============================================================================
