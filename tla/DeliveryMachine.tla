--------------------------- MODULE DeliveryMachine ---------------------------
(***************************************************************************)
(* The inbound delivery state machine, transition() of                     *)
(* telegram-plugin/gateway/inbound-delivery-machine.ts, driven by          *)
(* shadowEmit and by the gateway's 30 s tick.                              *)
(*                                                                         *)
(* The machine is the gateway's only turn-in-flight gate: it holds a       *)
(* message back exactly while `global` names an active turn.  A timestamp  *)
(* is represented by its age, which stops growing once no comparison can   *)
(* tell the difference.  Events that leave the state alone (permVerdict, a *)
(* steer, an inbound that is buffered) are not actions.                    *)
(***************************************************************************)
EXTENDS Integers

CONSTANTS
    Keys,           \* chat keys, one per (chat, thread)
    ChatIdOf,       \* the chat of a key (chatIdOfKey)
    TurnTtl,        \* TURN_TTL_MS
    OutboundRecent, \* OUTBOUND_RECENT_MS
    TickEvery       \* DELIVERY_MACHINE_TICK_MS

ASSUME MachineAssumption ==
    /\ "dead" \notin Keys /\ "idle" \notin Keys
    /\ TurnTtl \in Nat /\ OutboundRecent \in Nat /\ TickEvery \in Nat \ {0}

VARIABLES
    global,     \* bridge_dead, bridge_alive_idle, or the key of the active turn
    started,    \* key -> age of turnStartedAt
    outbound,   \* key -> age of lastOutboundAt
    sinceTick   \* time since the last tick event

machineVars == <<global, started, outbound, sinceTick>>

NULL == -1

\* Ages saturate here.
MaxStarted  == TurnTtl + TickEvery + 1
MaxOutbound == OutboundRecent + TickEvery

MachineInit ==
    /\ global = "dead"
    /\ started = [k \in Keys |-> NULL]
    /\ outbound = [k \in Keys |-> NULL]
    /\ sinceTick = 0

InTurn == global \in Keys

-----------------------------------------------------------------------------
(* Events.                                                                 *)

BridgeUp ==
    /\ global = "dead"
    /\ global' = "idle"
    /\ UNCHANGED <<started, outbound, sinceTick>>

BridgeDown ==
    /\ global' = "dead"
    /\ UNCHANGED <<started, outbound, sinceTick>>

\* inbound that opens a fresh turn: the bridge is alive and no turn is active.
Inbound(k) ==
    /\ global = "idle"
    /\ global' = k
    /\ started' = [started EXCEPT ![k] = 0]
    /\ UNCHANGED <<outbound, sinceTick>>

\* turnStart keeps an active turn active; the key's clock restarts either way.
TurnStart(k) ==
    /\ global' = IF InTurn THEN global ELSE k
    /\ started' = [started EXCEPT ![k] = 0]
    /\ UNCHANGED <<outbound, sinceTick>>

\* turnEnd: clear the key and sweep the other keys of its chat; the gate opens
\* only when the key is the active one.
Ended(k) == {j \in Keys : j = k \/ ChatIdOf[j] = ChatIdOf[k]}

Released(k) == IF global = k THEN "idle" ELSE global

TurnEnd(k, outboundEmitted) ==
    /\ started' = [j \in Keys |-> IF j \in Ended(k) THEN NULL ELSE started[j]]
    /\ outbound' = [outbound EXCEPT ![k] = IF outboundEmitted THEN 0 ELSE @]
    /\ global' = Released(k)
    /\ UNCHANGED sinceTick

ModelOutbound(k) ==
    /\ outbound' = [outbound EXCEPT ![k] = 0]
    /\ UNCHANGED <<global, started, sinceTick>>

\* Variant: a fallback that any earlier outbound suppresses.
SilentForever(k) == outbound[k] = NULL

\* No outbound in the suppression window.
Silent(k) == outbound[k] = NULL \/ outbound[k] >= OutboundRecent

\* tick: turns older than the TTL whose model is silent are cleared.
Expired == {k \in Keys : started[k] # NULL /\ started[k] > TurnTtl /\ Silent(k)}

Tick ==
    /\ started' = [k \in Keys |-> IF k \in Expired THEN NULL ELSE started[k]]
    /\ global' = IF global \in Expired THEN "idle" ELSE global
    /\ sinceTick' = 0
    /\ UNCHANGED outbound

\* Time passes; the interval timer fires at the latest TickEvery after its last.
Older(age, max) == IF age = NULL \/ age >= max THEN age ELSE age + 1

Elapse ==
    /\ sinceTick < TickEvery
    /\ sinceTick' = sinceTick + 1
    /\ started' = [k \in Keys |-> Older(started[k], MaxStarted)]
    /\ outbound' = [k \in Keys |-> Older(outbound[k], MaxOutbound)]
    /\ UNCHANGED global

MachineNext ==
    \/ BridgeUp \/ BridgeDown
    \/ \E k \in Keys : Inbound(k) \/ TurnStart(k) \/ ModelOutbound(k)
    \/ \E k \in Keys, emitted \in BOOLEAN : TurnEnd(k, emitted)
    \/ Tick \/ Elapse

MachineSpec == MachineInit /\ [][MachineNext]_machineVars

-----------------------------------------------------------------------------
(* Properties.                                                             *)

\* The machine's state keeps its type.
MachineTypeOK ==
    /\ global \in {"dead", "idle"} \cup Keys
    /\ started \in [Keys -> {NULL} \cup 0..MaxStarted]
    /\ outbound \in [Keys -> {NULL} \cup 0..MaxOutbound]
    /\ sinceTick \in 0..TickEvery

\* A turn outlives its TTL by more than one tick only while its model speaks:
\* over every schedule of events, a key whose clock is past TURN_TTL_MS plus the
\* tick interval has an outbound within OUTBOUND_RECENT_MS plus that interval
\* (the tick branch with its suppression window).
SilentTurnsExpire ==
    \A k \in Keys : started[k] > TurnTtl + TickEvery =>
        outbound[k] # NULL /\ outbound[k] < OutboundRecent + TickEvery
=============================================================================
