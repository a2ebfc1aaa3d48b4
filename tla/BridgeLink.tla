------------------------------ MODULE BridgeLink ------------------------------
(***************************************************************************)
(* The connections of the bridge and of other named clients                *)
(* (telegram-plugin/gateway/ipc-server.ts) composed with the delivery      *)
(* machine they drive and with the buffer of permission verdicts           *)
(* (pending-permission-decisions.ts).                                      *)
(*                                                                         *)
(* Registration, eviction and the close event of a socket are separate     *)
(* events: close() only ends the socket, and onClientDisconnected runs     *)
(* when the runtime later delivers the close event, possibly after the     *)
(* bridge has registered again on a new connection.                        *)
(*                                                                         *)
(* A relay is a client that registers another name than the gateway's own  *)
(* agent; its registration and its close drive the one machine too.  A     *)
(* cron session's name is skipped by both handlers and an anonymous client *)
(* never registers: neither reaches this state.                            *)
(***************************************************************************)
EXTENDS DeliveryMachine

CONSTANTS
    Conns,      \* connections the clients may make
    Verdicts    \* operator verdicts on permission requests

None == "none"
ConnState == {"new", "open", "registered", "closed", "gone"}

\* The names registered on the socket: the gateway's own agent and a relay.
Self  == "agent"
Names == {Self, "relay"}

ASSUME LinkAssumption == None \notin Conns

VARIABLES
    conn,       \* connection -> state; closed: close() called, close event to come
    name,       \* connection -> its agentName
    agentIndex, \* name -> the connection sendToAgent uses
    pending,    \* the permission buffer of the agent
    \* observation only
    newest,     \* name -> the connection that registered it last
    relayed,    \* verdicts written to a bridge
    redundant   \* the agent's last bridgeUp found the machine already alive

linkVars == <<conn, name, agentIndex, pending, newest, relayed, redundant>>
vars == <<machineVars, linkVars>>

Init ==
    /\ MachineInit
    /\ conn = [c \in Conns |-> "new"]
    /\ name = [c \in Conns |-> None]
    /\ agentIndex = [n \in Names |-> None] /\ newest = [n \in Names |-> None]
    /\ pending = {} /\ relayed = {} /\ redundant = FALSE

-----------------------------------------------------------------------------
\* socket open
Open(c) ==
    /\ conn[c] = "new"
    /\ conn' = [conn EXCEPT ![c] = "open"]
    /\ UNCHANGED <<machineVars, name, agentIndex, pending, newest, relayed, redundant>>

\* handleRegister: the name the connection had before leaves the index ...
Renamed(c) == [m \in Names |-> IF m = name[c] THEN None ELSE agentIndex[m]]

\* ... and the connection the new one replaces is closed.
Replacing(c, n) ==
    [d \in Conns |->
        IF d = c THEN "registered"
        ELSE IF d = Renamed(c)[n] /\ conn[d] = "registered" THEN "closed"
        ELSE conn[d]]

\* Variant: the verdicts are re-sent but not taken out of the buffer.
AnnounceKeepsPending(n) ==
    \/ /\ BridgeUp
       /\ relayed' = IF n = Self THEN relayed \cup pending ELSE relayed
       /\ UNCHANGED pending
    \/ /\ global # "dead"
       /\ UNCHANGED <<machineVars, pending, relayed>>

\* Variant: a bridgeUp that only drains the inbound buffer.
AnnounceInboundsOnly(n) ==
    /\ BridgeUp \/ (global # "dead" /\ UNCHANGED machineVars)
    /\ UNCHANGED <<pending, relayed>>

\* onClientRegistered: the bridgeUp event and, unless it is redundant, the verdicts
\* buffered under the client's name written to the new connection.
Announce(n) ==
    \/ /\ BridgeUp
       /\ relayed' = IF n = Self THEN relayed \cup pending ELSE relayed
       /\ pending' = IF n = Self THEN {} ELSE pending
    \/ /\ global # "dead"
       /\ UNCHANGED <<machineVars, pending, relayed>>

Register(c, n) ==
    /\ conn[c] \in {"open", "registered"}
    /\ conn' = Replacing(c, n)
    /\ name' = [name EXCEPT ![c] = n]
    /\ agentIndex' = [Renamed(c) EXCEPT ![n] = c]
    /\ newest' = [newest EXCEPT ![n] = c]
    /\ redundant' = IF n = Self THEN global # "dead" ELSE redundant
    /\ Announce(n)

\* The heartbeat watchdog closes a registered connection that has gone quiet.
Evict(c) ==
    /\ conn[c] = "registered"
    /\ conn' = [conn EXCEPT ![c] = "closed"]
    /\ UNCHANGED <<machineVars, name, agentIndex, pending, newest, relayed, redundant>>

\* Variant: removeClient without the identity check.
UnindexedBlind(c) == [n \in Names |-> IF n = name[c] THEN None ELSE agentIndex[n]]

\* removeClient: only the connection the index still names leaves it.
Unindexed(c) ==
    [n \in Names |-> IF n = name[c] /\ agentIndex[n] = c THEN None ELSE agentIndex[n]]

\* onClientDisconnected: a named connection emits bridgeDown, whatever its name.
Disconnected(c) == IF name[c] # None THEN BridgeDown ELSE UNCHANGED machineVars

\* The close event, of a socket either side has ended.
Close(c) ==
    /\ conn[c] \in {"open", "registered", "closed"}
    /\ conn' = [conn EXCEPT ![c] = "gone"]
    /\ agentIndex' = Unindexed(c)
    /\ Disconnected(c)
    /\ UNCHANGED <<name, pending, newest, relayed, redundant>>

\* sendToAgent has a connection of the agent to write to.
Alive == agentIndex[Self] # None /\ conn[agentIndex[Self]] = "registered"

\* dispatchPermissionVerdict.
Verdict(v) ==
    /\ v \notin pending \cup relayed
    /\ IF Alive THEN relayed' = relayed \cup {v} /\ UNCHANGED pending
                ELSE pending' = pending \cup {v} /\ UNCHANGED relayed
    /\ UNCHANGED <<machineVars, conn, name, agentIndex, newest, redundant>>

\* Session events (enqueue, turn_end, replies) come over a named connection.
Session ==
    /\ \E c \in Conns : name[c] # None /\ conn[c] \in {"registered", "closed"}
    /\ \E k \in Keys : \/ TurnStart(k) \/ ModelOutbound(k)
                     \/ \E emitted \in BOOLEAN : TurnEnd(k, emitted)
    /\ UNCHANGED linkVars

Message == (\E k \in Keys : Inbound(k)) /\ UNCHANGED linkVars

Timer == (Tick \/ Elapse) /\ UNCHANGED linkVars

Next ==
    \/ \E c \in Conns : Open(c) \/ Evict(c) \/ Close(c)
    \/ \E c \in Conns, n \in Names : Register(c, n)
    \/ \E v \in Verdicts : Verdict(v)
    \/ Session \/ Message \/ Timer

Spec == Init /\ [][Next]_vars

-----------------------------------------------------------------------------
(* Properties.                                                             *)

\* The machine and the registry keep their types, the index names a connection only
\* under the name it registered, and no verdict is both buffered and written.
LinkTypeOK ==
    /\ MachineTypeOK
    /\ conn \in [Conns -> ConnState]
    /\ name \in [Conns -> Names \cup {None}]
    /\ agentIndex \in [Names -> Conns \cup {None}] /\ newest \in [Names -> Conns \cup {None}]
    /\ \A n \in Names : agentIndex[n] # None => name[agentIndex[n]] = n
    /\ pending \subseteq Verdicts /\ relayed \subseteq Verdicts
    /\ pending \cap relayed = {}
    /\ redundant \in BOOLEAN

\* A client is reachable on the connection it registered last for as long as
\* that connection is up: no late close event, eviction or replacement of an
\* older connection takes it out of the index, no second connection of the name
\* stays up beside it, and no client of another name disturbs it
\* (handleRegister's replacement and removeClient's identity check).
NewestRoutable ==
    \A c \in Conns : conn[c] = "registered" =>
        name[c] # None /\ c = newest[name[c]] /\ agentIndex[name[c]] = c

\* A verdict buffered while the bridge was away is re-sent when the bridge is back,
\* with one exception the machine makes: it waits on beside a reachable bridge only
\* if that bridge's registration found the machine already alive, because of a relay
\* or of an older connection whose close event was still to come (bridgeUp_redundant
\* skips redeliverPersistedPermVerdicts).
VerdictsResent == Alive /\ pending # {} => redundant
=============================================================================
