----------------------------- MODULE MCBridgeLink -----------------------------
(* Two chat keys, the topics of one chat; three interchangeable connections, *)
(* each of which may register as the agent or as a relay; one verdict.       *)
EXTENDS BridgeLink, TLC

CONSTANTS k1, k2, c1, c2, c3, v1

MCKeys     == {k1, k2}
MCConns    == {c1, c2, c3}
MCVerdicts == {v1}
MCChatIdOf == [k \in MCKeys |-> "A"]
Symmetry   == Permutations(MCKeys) \cup Permutations(MCConns)
=============================================================================
