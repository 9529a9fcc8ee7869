--------------------------- MODULE MCUserRegistry ---------------------------
EXTENDS UserRegistry, TLC

CONSTANTS p1, p2, t1, t2, t3, alice, bob, u1, u2, u3

MCCallers == {p1, p2}
\* two tokens of one user and a token of another
MCTokens == {t1, t2, t3}
MCNames == {alice, bob}
MCOwner == (t1 :> alice) @@ (t2 :> alice) @@ (t3 :> bob)
\* one object more than there are names, so a duplicate can be made
MCObjs == {u1, u2, u3}

Symmetry == Permutations(MCCallers) \cup Permutations(MCObjs)
=============================================================================
