----------------------------- MODULE MCPointers ------------------------------
EXTENDS Pointers, TLC
CONSTANTS m1, m2, p1, p2
MCMice == {m1, m2}
MCPanels == {p1, p2}
MCFlaky == {m2, p2}
MCResolution == m1 :> 1 @@ m2 :> 2
=============================================================================
