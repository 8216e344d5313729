----------------------------- MODULE MCOverlay -----------------------------
(* Two nodes of the overlay that can both be reached, and look for each    *)
(* other through the tracker.                                              *)
EXTENDS Overlay

CONSTANTS a, b

BothNeed == [n \in Nodes |-> 2]
BothWays ==
  /\ OverlayInit
  /\ running = Nodes /\ reachable = Nodes /\ knownPeers = [n \in Nodes |-> {}]

BothSpec == BothWays /\ [][OverlayNext]_overlayVars /\ OverlayFairness
=============================================================================
