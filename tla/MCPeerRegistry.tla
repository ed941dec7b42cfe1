--------------------------- MODULE MCPeerRegistry ---------------------------
(***************************************************************************)
(* Instances of PeerRegistry.  Stations are interchangeable.               *)
(***************************************************************************)
EXTENDS PeerRegistry, TLC

CONSTANTS a, b, c

Stations == {a, b, c}
StationSymmetry == Permutations(Stations)
TwoStations == {a, b}
=============================================================================
