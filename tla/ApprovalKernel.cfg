SPECIFICATION Spec
CONSTANTS
    a1 = a1
    q1 = q1
    q2 = q2
    q3 = q3
    p1 = p1
    p2 = p2
    r1 = r1
    r2 = r2
    Agents <- MCAgents
    Requests <- MCRequests
    AgentOf <- MCAgentOf
    Decisions = {d1}
    Servers <- MCServers
    Readers <- MCReaders
    Canons = {s1, s2}
    NonceTtl = 1
    TtlChoices = {2}
    MaxLifetime = 1
    MaxPerAgent = 1
    MaxGlobal = 1
    MaxTime = 2
SYMMETRY Symmetry
INVARIANTS TypeOK AllowOnceAtMostOnce TimedGrantEnds DecisionTraced PendingCapped
CHECK_DEADLOCK FALSE
