--------------------------- MODULE BridgeLinkProofs ---------------------------
(***************************************************************************)
(* What the delivery machine and the connection registry guarantee for     *)
(* every set of keys, connections and verdicts and every timing.           *)
(***************************************************************************)
EXTENDS BridgeLink, TLAPS

\* How far a turn may be past its TTL depends on how long ago the last tick was:
\* what the tick left behind had an outbound in the window then.
TickInv ==
    \A k \in Keys : started[k] - sinceTick > TurnTtl =>
        outbound[k] # NULL /\ outbound[k] < OutboundRecent + sinceTick

MachineInv == MachineTypeOK /\ TickInv

-----------------------------------------------------------------------------
LEMMA MachineInitInv == MachineInit => MachineInv
BY MachineAssumption
   DEF MachineInit, MachineInv, MachineTypeOK, TickInv, NULL, MaxStarted, MaxOutbound

LEMMA MachineStep == MachineInv /\ [MachineNext]_machineVars => MachineInv'
<1> SUFFICES ASSUME MachineInv, [MachineNext]_machineVars PROVE MachineInv'
    OBVIOUS
<1> USE MachineAssumption
    DEF MachineInv, MachineTypeOK, TickInv, NULL, MaxStarted, MaxOutbound
<1>1. CASE BridgeUp \/ BridgeDown
    BY <1>1 DEF BridgeUp, BridgeDown
<1>2. ASSUME NEW k \in Keys, Inbound(k) PROVE MachineInv'
    BY <1>2 DEF Inbound
<1>3. ASSUME NEW k \in Keys, TurnStart(k) PROVE MachineInv'
    BY <1>3 DEF TurnStart, InTurn
<1>4. ASSUME NEW k \in Keys, ModelOutbound(k) PROVE MachineInv'
    BY <1>4 DEF ModelOutbound
<1>5. ASSUME NEW k \in Keys, NEW emitted \in BOOLEAN, TurnEnd(k, emitted)
      PROVE  MachineInv'
    BY <1>5 DEF TurnEnd, Released
<1>6. CASE Tick
    BY <1>6 DEF Tick, Expired, Silent
<1>7. CASE Elapse
  <2>1. MachineTypeOK'
      BY <1>7 DEF Elapse, Older
  <2>2. TickInv'
      BY <1>7 DEF Elapse, Older
  <2> QED
      BY <2>1, <2>2
<1>8. CASE UNCHANGED machineVars
    BY <1>8 DEF machineVars
<1> QED
    BY <1>1, <1>2, <1>3, <1>4, <1>5, <1>6, <1>7, <1>8 DEF MachineNext

-----------------------------------------------------------------------------
(* The link.                                                               *)

\* A connection has no name before it registers.
UnnamedInv == \A c \in Conns : conn[c] \in {"new", "open"} => name[c] = None

LinkInv == MachineInv /\ LinkTypeOK /\ NewestRoutable /\ VerdictsResent /\ UnnamedInv

\* Every step of the link is a step of the machine or leaves it alone.
LEMMA LinkStepsMachine == [Next]_vars => [MachineNext]_machineVars
BY DEF Next, vars, MachineNext, machineVars, linkVars, Open, Register, Announce, Evict,
       Close, Disconnected, Verdict, Session, Message, Timer

\* Composed with the connections, the machine still is the machine: whatever the
\* registry, the verdict sites and the session feed it is one of its own events.
THEOREM LinkRunsMachine == Spec => MachineSpec
<1>1. Init => MachineInit
    BY DEF Init
<1> QED
    BY <1>1, LinkStepsMachine, PTL DEF Spec, MachineSpec

\* A turn outlives its TTL by more than a tick only while its model speaks (the
\* tick branch of transition()).
THEOREM SilentTurnsEnd == MachineSpec => []SilentTurnsExpire
<1>1. MachineInv => SilentTurnsExpire
    BY MachineAssumption
       DEF MachineInv, MachineTypeOK, TickInv, SilentTurnsExpire, NULL, MaxStarted, MaxOutbound
<1> QED
    BY <1>1, MachineInitInv, MachineStep, PTL DEF MachineSpec

LEMMA LinkInitInv == Init => LinkInv
<1> SUFFICES ASSUME Init PROVE LinkInv
    OBVIOUS
<1>1. MachineInv
    BY MachineInitInv DEF Init
<1>2. LinkTypeOK /\ NewestRoutable /\ VerdictsResent /\ UnnamedInv
    BY <1>1, LinkAssumption
       DEF Init, MachineInv, LinkTypeOK, NewestRoutable, VerdictsResent, UnnamedInv, Alive, ConnState,
           Names, Self, None
<1> QED
    BY <1>1, <1>2 DEF LinkInv

LEMMA LinkStep == LinkInv /\ [Next]_vars => LinkInv'
<1> SUFFICES ASSUME LinkInv, [Next]_vars PROVE LinkInv'
    OBVIOUS
<1>0. MachineInv'
    BY LinkStepsMachine, MachineStep DEF LinkInv
<1> DEFINE Registry == LinkTypeOK /\ NewestRoutable /\ VerdictsResent /\ UnnamedInv
<1> SUFFICES Registry'
    BY <1>0 DEF LinkInv
<1>m. MachineTypeOK'
    BY <1>0 DEF MachineInv
<1> USE LinkAssumption
    DEF LinkInv, LinkTypeOK, NewestRoutable, VerdictsResent, UnnamedInv, Alive, ConnState, Names, Self, None
<1>1. ASSUME NEW c \in Conns, Open(c) PROVE Registry'
    BY <1>m, <1>1 DEF Open, machineVars
<1>2. ASSUME NEW c \in Conns, NEW n \in Names, Register(c, n) PROVE Registry'
  <2>1. /\ agentIndex' \in [Names -> Conns \cup {None}]
        /\ agentIndex'[n] = c
        /\ \A m \in Names : m # n => agentIndex'[m] = IF m = name[c] THEN None ELSE agentIndex[m]
      BY <1>2 DEF Register, Renamed
  <2>2. /\ name' \in [Conns -> Names \cup {None}] /\ newest' \in [Names -> Conns \cup {None}]
        /\ name'[c] = n /\ newest'[n] = c
        /\ \A d \in Conns : d # c => name'[d] = name[d]
        /\ \A m \in Names : m # n => newest'[m] = newest[m]
      BY <1>2 DEF Register
  <2>3. /\ conn' \in [Conns -> ConnState]
        /\ \A d \in Conns : d # c /\ conn'[d] = "registered" =>
             conn[d] = "registered" /\ ~(d = agentIndex[n] /\ n # name[c])
      BY <1>2 DEF Register, Replacing, Renamed
  <2>4. \A m \in Names : agentIndex'[m] # None => name'[agentIndex'[m]] = m
      BY <2>1, <2>2
  <2>5. /\ pending' \subseteq Verdicts /\ relayed' \subseteq Verdicts
        /\ pending' \cap relayed' = {} /\ redundant' \in BOOLEAN
        /\ n = Self => pending' = {} \/ redundant'
        /\ n # Self => UNCHANGED <<pending, redundant>>
      BY <1>2 DEF Register, Announce
  <2>6. LinkTypeOK'
      BY <1>m, <2>1, <2>2, <2>3, <2>4, <2>5
  <2>7. ASSUME NEW d \in Conns, conn'[d] = "registered"
        PROVE  name'[d] # None /\ d = newest'[name'[d]] /\ agentIndex'[name'[d]] = d
    <3>1. CASE d = c
        BY <2>1, <2>2, <3>1
    <3>2. CASE d # c
      <4>1. /\ conn[d] = "registered" /\ name'[d] = name[d]
            /\ name[d] \in Names /\ d = newest[name[d]] /\ agentIndex[name[d]] = d
        BY <2>2, <2>3, <2>7, <3>2
      <4>2. name[d] # name[c]
        BY <1>2, <3>2, <4>1 DEF Register
      <4>3. name[d] # n
        BY <2>3, <2>7, <3>2, <4>1, <4>2
      <4> QED
        BY <2>1, <2>2, <4>1, <4>2, <4>3
    <3> QED
        BY <3>1, <3>2
  <2>8. NewestRoutable'
      BY <2>7
  <2>9. VerdictsResent'
    <3>1. CASE n = Self
        BY <2>5, <3>1
    <3>2. CASE n # Self
      <4>1. Alive' => Alive
        BY <2>1, <2>3, <3>2, <2>2
      <4> QED
        BY <2>5, <3>2, <4>1
    <3> QED
        BY <3>1, <3>2
  <2>10. UnnamedInv'
    <3>1. \A d \in Conns : d # c /\ conn'[d] \in {"new", "open"} => conn'[d] = conn[d]
        BY <1>2 DEF Register, Replacing
    <3>2. conn'[c] = "registered"
        BY <1>2 DEF Register, Replacing
    <3> QED
        BY <2>2, <3>1, <3>2
  <2> QED
      BY <2>6, <2>8, <2>9, <2>10
<1>3. ASSUME NEW c \in Conns, Evict(c) PROVE Registry'
    BY <1>m, <1>3 DEF Evict, machineVars
<1>4. ASSUME NEW c \in Conns, Close(c) PROVE Registry'
  <2>1. LinkTypeOK'
      BY <1>m, <1>4 DEF Close, Unindexed
  <2>2. NewestRoutable'
      BY <1>4 DEF Close, Unindexed
  <2>3. VerdictsResent'
      BY <1>4 DEF Close, Unindexed
  <2>4. UnnamedInv'
      BY <1>4 DEF Close
  <2> QED
      BY <2>1, <2>2, <2>3, <2>4
<1>5. ASSUME NEW v \in Verdicts, Verdict(v) PROVE Registry'
    BY <1>m, <1>5 DEF Verdict, machineVars
<1>6. CASE Session
    BY <1>m, <1>6 DEF Session, linkVars
<1>7. CASE Message \/ Timer
    BY <1>m, <1>7 DEF Message, Timer, linkVars
<1>8. CASE UNCHANGED vars
    BY <1>m, <1>8 DEF vars, machineVars, linkVars
<1> QED
    BY <1>1, <1>2, <1>3, <1>4, <1>5, <1>6, <1>7, <1>8 DEF Next

LEMMA LinkInvariant == Spec => []LinkInv
BY LinkInitInv, LinkStep, PTL DEF Spec

\* The registry and the machine keep their types whatever the order of opens,
\* registrations, evictions and close events.
THEOREM LinkTypeCorrect == Spec => []LinkTypeOK
<1>1. LinkInv => LinkTypeOK
    BY DEF LinkInv
<1> QED
    BY <1>1, LinkInvariant, PTL

\* A client stays reachable on its newest connection, the only one of its name that
\* is up (handleRegister, removeClient).
THEOREM NewestStaysRoutable == Spec => []NewestRoutable
<1>1. LinkInv => NewestRoutable
    BY DEF LinkInv
<1> QED
    BY <1>1, LinkInvariant, PTL

\* Beside a reachable bridge a buffered verdict waits on only if that bridge's
\* bridgeUp was redundant, for every set of connections and verdicts and every
\* interleaving of relays, replacements, evictions and late close events
\* (onClientRegistered, dispatchPermissionVerdict).
THEOREM VerdictsAreResent == Spec => []VerdictsResent
<1>1. LinkInv => VerdictsResent
    BY DEF LinkInv
<1> QED
    BY <1>1, LinkInvariant, PTL
=============================================================================
