--------------------------- MODULE MCPeerExchange ---------------------------
(* Model values and symmetry for checking PeerExchange.                    *)
EXTENDS PeerExchange, TLC

Neighbors == Responders \ {Self}
Symmetry == Permutations(Neighbors)
=============================================================================
