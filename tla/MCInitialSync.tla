--------------------------- MODULE MCInitialSync ---------------------------
EXTENDS InitialSync

CONSTANTS p1, p2, p3, p4

\* p1 and p2 share a network prefix; p4 may lie.
MCPeers == {p1, p2, p3, p4}
MCByzantine == {p4}
MCPrefix == [p \in MCPeers |-> IF p \in {p1, p2} THEN 1 ELSE IF p = p3 THEN 2 ELSE 3]

=============================================================================
