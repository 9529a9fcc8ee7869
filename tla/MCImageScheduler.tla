------------------------- MODULE MCImageScheduler -------------------------
(* Instantiates ImageScheduler for TLC: three requests and three           *)
(* container identities, enough for every request to need its own         *)
(* container, a fourth requester for the runs that need three users of   *)
(* one container plus a requester that launches, and two of each for the *)
(* liveness runs, whose sessions may end at any step; the Image limits   *)
(* come from the cfg.                                                     *)
EXTENDS ImageScheduler, TLC

CONSTANTS c1, c2, c3, r1, r2, r3, r4

MCContainers == {c1, c2, c3}
MCContainers2 == {c1, c2}
MCRequesters == {r1, r2, r3}
MCRequesters4 == {r1, r2, r3, r4}
MCRequesters2 == {r1, r2}

\* Image.ConcurrentUsers and Image.TotalUsers of -1 (a cfg file cannot
\* write a negative number).
Unlimited == -1

Symmetry == Permutations(MCContainers) \cup Permutations(MCRequesters)
Symmetry4 == Permutations(MCContainers) \cup Permutations(MCRequesters4)
=============================================================================
