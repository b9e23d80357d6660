----------------------------- MODULE MCWriteQueue -----------------------------
(* Model checking of WriteQueue: two foreign threads and the strand.        *)
EXTENDS WriteQueue

CONSTANTS p1, p2, m1, m2

MCPeers == {p1, p2}
MCMessages == {m1, m2}

===============================================================================
