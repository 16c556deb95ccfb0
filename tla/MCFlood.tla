------------------------------ MODULE MCFlood ------------------------------
(* Instances of Flood for TLC: the origin, a tracker that relays everything, *)
(* one that relays tracker packets or none, and a Meshtastic node.           *)
EXTENDS Flood

CONSTANTS o, t, u, f

MCRelayMode == [n \in Trackers |-> CASE n = t -> "all" [] n = u -> "own" [] OTHER -> "none"]
MCNodeByte == [n \in Nodes |-> CASE n = o -> 17 [] n = t -> 34 [] n = u -> 51 [] OTHER -> 255]
=============================================================================
