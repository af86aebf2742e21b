----------------------------- MODULE MCServerLoop -----------------------------
(* Instances of ServerLoop for TLC.                                        *)
EXTENDS ServerLoop, TLC

CONSTANTS p1, p2, p3, k1, k2

PeerSymmetry == Permutations(Peers)
===============================================================================
