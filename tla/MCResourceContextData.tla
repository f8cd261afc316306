------------------------ MODULE MCResourceContextData ------------------------
EXTENDS ResourceContextData, TLC

CONSTANTS p1, p2, r1, r2

MCProxy == {p1, p2}
MCRequest == {r1, r2}
MCSymmetry == Permutations(MCProxy) \cup Permutations(MCRequest)
=============================================================================
