--------------------------- MODULE MCApprovalKernel ---------------------------
(* One agent with three interchangeable requests, two processes that serve    *)
(* requests and two concurrent lookups.  Both caps are one, so that the two   *)
(* processes can overshoot each of them and a third request finds them full.  *)
EXTENDS ApprovalKernel, TLC

CONSTANTS a1, q1, q2, q3, p1, p2, r1, r2

MCAgents   == {a1}
MCRequests == {q1, q2, q3}
MCAgentOf  == [q \in MCRequests |-> a1]
MCServers  == {p1, p2}
MCReaders  == {r1, r2}
Symmetry   == Permutations(MCReaders) \cup Permutations(MCRequests) \cup Permutations(MCServers)
                \cup Permutations(Canons)
=============================================================================
