CONSTANTS
    p1 = p1  p2 = p2
    t1 = t1  t2 = t2  t3 = t3
    alice = alice  bob = bob
    u1 = u1  u2 = u2  u3 = u3
    None = None
    Callers <- MCCallers
    Tokens <- MCTokens
    Names <- MCNames
    Owner <- MCOwner
    Objs <- MCObjs
SPECIFICATION Spec
SYMMETRY Symmetry
INVARIANT TypeOK
INVARIANT OneUserPerName
INVARIANT TokenResolvesToOwner
