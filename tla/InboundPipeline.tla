--------------------------- MODULE InboundPipeline ---------------------------
(***************************************************************************)
(* The gateway's inbound path around the spool: the in-memory FIFO          *)
(* (pending-inbound-buffer.ts), the deliver-or-buffer routing of the        *)
(* delivery machine as handleInbound executes it, the drain triggers        *)
(* (bridge registration, turn end, the idle-drain tick), the escalation     *)
(* timer and the boot replay, composed with InboundSpool.                   *)
(*                                                                          *)
(* One agent; every inbound is an ordinary user message, so eviction takes  *)
(* the oldest entry (the tiers that protect approval outcomes are not       *)
(* modelled), and no inbound is re-presented by the obligation ledger.      *)
(* ChatOf stands for the (chat, thread, user) a merge requires to agree.    *)
(* The clock, file and memory of the spool are InboundSpool's.              *)
(***************************************************************************)
EXTENDS InboundSpool, Sequences

CONSTANTS
    Cap,        \* DEFAULT_PENDING_INBOUND_CAP
    Media,      \* ids that carry an image or attachment
    TTLs        \* [Ids -> Nat]: meta.expiresAt relative to arrival, 0 for none

ASSUME PipelineAssumption ==
    Cap \in Nat \ {0} /\ Media \subseteq Ids /\ TTLs \in [Ids -> Nat]

VARIABLES
    buffer,     \* the in-memory queue of the agent
    bridge,     \* a live registered bridge exists
    inTurn,     \* the machine's turn-in-flight gate
    sending,    \* inbounds inside handleInbound's pre-send await, in order
    draining,   \* what redeliverBufferedInbound drained and has still to send
    unacked,    \* originals of the group sent, still to be acked
    missed,     \* originals of a group whose send missed, still to be pushed back
    \* observation only
    arrived,    \* id -> arrival time
    delivered,  \* id -> how often it was sent to a live bridge
    retracted,  \* ids the escalation sweep tombstoned
    cutDrains   \* crashes that fell between a send and its acks

pipeVars == <<buffer, bridge, inTurn, sending, draining, unacked, missed>>
seenVars == <<arrived, delivered, retracted, cutDrains>>
vars     == <<spoolVars, pipeVars, seenVars>>

ToSet(s) == {s[i] : i \in DOMAIN s}

Init ==
    /\ SpoolInit
    /\ buffer = <<>> /\ bridge = FALSE /\ inTurn = FALSE
    /\ sending = <<>> /\ draining = <<>> /\ unacked = <<>> /\ missed = <<>>
    /\ arrived = [id \in Ids |-> NULL] /\ delivered = [id \in Ids |-> 0]
    /\ retracted = {} /\ cutDrains = 0

\* The gateway runs one handler at a time: nothing interleaves with a drain or
\* with a spool job.
Idle == job = "none" /\ draining = <<>> /\ unacked = <<>> /\ missed = <<>>

-----------------------------------------------------------------------------
(* The buffer.                                                              *)

\* Variant: an off-by-one cap check.
EnqueuePastCap(q, id) == Append(IF Len(q) > Cap THEN Tail(q) ELSE q, id)

\* push on the queue: at the cap the oldest (ordinary) entry is evicted.
Enqueue(q, id) == Append(IF Len(q) >= Cap THEN Tail(q) ELSE q, id)

\* Variant: a push that spools only what it did not have to make room for.
PushUnspooledAtCap(id, out, cmp) ==
    /\ buffer' = Enqueue(buffer, id)
    /\ IF Len(buffer) >= Cap
       THEN UNCHANGED <<memVars, fileVars, synced, faults>>
       ELSE SpoolPut(id, out, cmp)

\* push: queue the inbound, then put it into the spool.
Push(id, out, cmp) ==
    /\ buffer' = Enqueue(buffer, id)
    /\ SpoolPut(id, out, cmp)

-----------------------------------------------------------------------------
(* handleInbound.                                                           *)

\* A message arrives.  Mid-turn the machine buffers it at once; otherwise the
\* machine reserves the turn (alive) and the handler awaits the composer clear
\* before it sends.
\* Inputs stop early enough for the last one to age out before the clock does.
Arrive(id) ==
    /\ Idle /\ arrived[id] = NULL /\ now + EscalateAfter <= MaxTime
    /\ arrived' = [arrived EXCEPT ![id] = now]
    /\ UNCHANGED <<now, jobVars, tellVars, crashes, bridge, draining, unacked, missed>>
    /\ UNCHANGED <<delivered, retracted, cutDrains>>

ArriveMidTurn(id, out, cmp) ==
    /\ bridge /\ inTurn
    /\ Arrive(id)
    /\ Push(id, out, cmp)
    /\ UNCHANGED <<inTurn, sending>>

ArriveFresh(id) ==
    /\ ~(bridge /\ inTurn)
    /\ Arrive(id)
    /\ sending' = Append(sending, id)
    /\ inTurn' = bridge
    /\ UNCHANGED <<memVars, fileVars, synced, faults, buffer>>

\* After the await: sendToAgent reaches the bridge ...
SendFresh ==
    /\ Idle /\ sending # <<>> /\ bridge
    /\ sending' = Tail(sending)
    /\ delivered' = [delivered EXCEPT ![Head(sending)] = @ + 1]
    /\ UNCHANGED <<spoolVars, buffer, bridge, inTurn, draining, unacked, missed,
                   arrived, retracted, cutDrains>>

\* ... or misses, and the message is buffered with the "queued" notice.
SendMiss(out, cmp) ==
    /\ Idle /\ sending # <<>> /\ ~bridge
    /\ sending' = Tail(sending)
    /\ Push(Head(sending), out, cmp)
    /\ UNCHANGED <<now, jobVars, tellVars, crashes, bridge, inTurn, draining,
                   unacked, missed, seenVars>>

-----------------------------------------------------------------------------
(* Drains: redeliverBufferedInbound.                                        *)

\* The first n entries may share a turn: one chat, at most one media entry.
Joins(q, n) ==
    /\ \A i \in 1..n : ChatOf[q[i]] = ChatOf[q[1]]
    /\ \A i, j \in 1..n : i # j => ~(q[i] \in Media /\ q[j] \in Media)

\* planBufferedRedelivery: the first group is the longest prefix that joins.
Group(q) ==
    SubSeq(q, 1, CHOOSE n \in 1..Len(q) :
                     Joins(q, n) /\ \A k \in 1..Len(q) : Joins(q, k) => k <= n)

\* buffer.drain empties the queue; the loop then takes it group by group.
DrainAll ==
    /\ draining' = buffer /\ buffer' = <<>>

BridgeUp ==
    /\ Idle /\ ~bridge
    /\ bridge' = TRUE /\ inTurn' = FALSE
    /\ DrainAll
    /\ UNCHANGED <<spoolVars, sending, unacked, missed, seenVars>>

BridgeDown ==
    /\ Idle /\ bridge
    /\ bridge' = FALSE /\ inTurn' = FALSE
    /\ UNCHANGED <<spoolVars, buffer, sending, draining, unacked, missed, seenVars>>

\* turnEnd, or the silence fallback that stands in for it, also while a message
\* of the chat waits in handleInbound; without a reply it does not drain.
TurnEnd ==
    /\ Idle /\ bridge /\ inTurn
    /\ inTurn' = FALSE
    /\ DrainAll \/ UNCHANGED <<buffer, draining>>
    /\ UNCHANGED <<spoolVars, bridge, sending, unacked, missed, seenVars>>

IdleDrainTick ==
    /\ Idle /\ buffer # <<>> /\ bridge /\ ~inTurn
    /\ DrainAll
    /\ UNCHANGED <<spoolVars, bridge, inTurn, sending, unacked, missed, seenVars>>

\* A drain without a bridge: a turn end or the silence fallback of a session
\* whose bridge has died.
DrainOffline ==
    /\ Idle /\ buffer # <<>> /\ ~bridge
    /\ DrainAll
    /\ UNCHANGED <<spoolVars, bridge, inTurn, sending, unacked, missed, seenVars>>

\* The next group reaches the bridge; its acks follow ...
DrainSend ==
    /\ job = "none" /\ draining # <<>> /\ unacked = <<>> /\ missed = <<>> /\ bridge
    /\ LET g == Group(draining) IN
         /\ unacked' = g
         /\ draining' = SubSeq(draining, Len(g) + 1, Len(draining))
         /\ delivered' = [id \in Ids |-> delivered[id] + (IF id \in ToSet(g) THEN 1 ELSE 0)]
    /\ UNCHANGED <<spoolVars, buffer, bridge, inTurn, sending, missed,
                   arrived, retracted, cutDrains>>

\* ... or its send fails or throws, and its originals are pushed back before the
\* loop goes on.
DrainMiss ==
    /\ job = "none" /\ draining # <<>> /\ unacked = <<>> /\ missed = <<>>
    /\ LET g == Group(draining) IN
         /\ missed' = g
         /\ draining' = SubSeq(draining, Len(g) + 1, Len(draining))
    /\ UNCHANGED <<spoolVars, buffer, bridge, inTurn, sending, unacked, seenVars>>

\* Variant: a drain that forgets the tombstone of what it delivered.
DrainAckSkipped(out, cmp) ==
    /\ unacked # <<>>
    /\ UNCHANGED <<memVars, fileVars, synced, faults>>
    /\ unacked' = Tail(unacked)
    /\ UNCHANGED <<now, jobVars, tellVars, crashes, buffer, bridge, inTurn, sending,
                   draining, missed, seenVars>>

DrainAck(out, cmp) ==
    /\ unacked # <<>>
    /\ SpoolAck(Head(unacked), out, cmp)
    /\ unacked' = Tail(unacked)
    /\ UNCHANGED <<now, jobVars, tellVars, crashes, buffer, bridge, inTurn, sending,
                   draining, missed, seenVars>>

\* The originals are pushed back one by one: the put of a live id is a no-op,
\* an id the sweep has tombstoned meanwhile is spooled anew.
Rebuffer(out, cmp) ==
    /\ missed # <<>>
    /\ Push(Head(missed), out, cmp)
    /\ missed' = Tail(missed)
    /\ UNCHANGED <<now, jobVars, tellVars, crashes, bridge, inTurn, sending,
                   draining, unacked, seenVars>>

-----------------------------------------------------------------------------
(* The escalation timer, crash and boot.                                    *)

SweepBegin == Idle /\ SweepStart /\ UNCHANGED <<pipeVars, seenVars>>

SweepDrop(id, out) ==
    /\ SweepTombstone(id, out)
    /\ retracted' = retracted \cup {id}
    /\ UNCHANGED <<pipeVars, arrived, delivered, cutDrains>>

SweepSlide(id, out) == SweepWindow(id, out) /\ UNCHANGED <<pipeVars, seenVars>>

SweepTell(id, sent, cmp) == SweepNotice(id, sent, cmp) /\ UNCHANGED <<pipeVars, seenVars>>

\* liveEntries: what the file holds, oldest first, without what has expired.
Replayable ==
    {id \in Ids : OnDisk(id) /\ (TTLs[id] = 0 \/ arrived[id] + TTLs[id] > now)}

ReplayOrders ==
    LET R == Replayable
        n == Cardinality(R)
    IN  {s \in [1..n -> R] : /\ ToSet(s) = R
                             /\ \A i, j \in 1..n : i < j => disk[s[i]].firstAt <= disk[s[j]].firstAt}

\* The process dies and the next one hydrates the spool and pushes every live
\* entry into the new buffer (the put of a live id is a no-op); past the cap
\* the oldest are evicted again.
GatewayCrash ==
    /\ SpoolCrash
    /\ \E s \in ReplayOrders :
         buffer' = SubSeq(s, IF Len(s) > Cap THEN Len(s) - Cap + 1 ELSE 1, Len(s))
    /\ bridge' = FALSE /\ inTurn' = FALSE
    /\ sending' = <<>> /\ draining' = <<>> /\ unacked' = <<>> /\ missed' = <<>>
    /\ cutDrains' = cutDrains + (IF unacked # <<>> THEN 1 ELSE 0)
    /\ UNCHANGED <<arrived, delivered, retracted>>

\* The clock stops where a message still to be spooled could not age out.
Clock ==
    /\ Idle /\ (sending # <<>> => now + 1 + EscalateAfter <= MaxTime)
    /\ Tick
    /\ UNCHANGED <<pipeVars, seenVars>>

PipelineNext ==
    \/ \E id \in Ids, out \in Outcomes, cmp \in BOOLEAN : ArriveMidTurn(id, out, cmp)
    \/ \E id \in Ids : ArriveFresh(id)
    \/ SendFresh
    \/ \E out \in Outcomes, cmp \in BOOLEAN : SendMiss(out, cmp)
    \/ BridgeUp \/ BridgeDown \/ TurnEnd \/ IdleDrainTick \/ DrainOffline
    \/ DrainSend \/ DrainMiss
    \/ \E out \in Outcomes, cmp \in BOOLEAN : DrainAck(out, cmp)
    \/ \E out \in Outcomes, cmp \in BOOLEAN : Rebuffer(out, cmp)
    \/ SweepBegin
    \/ \E id \in Ids, out \in Outcomes : SweepDrop(id, out) \/ SweepSlide(id, out)
    \/ \E id \in Ids, sent \in NoticeSends, cmp \in BOOLEAN : SweepTell(id, sent, cmp)
    \/ GatewayCrash
    \/ Clock

\* The event loop serves every timer and every resumed await in turn, so the
\* clock, the 5 s interval that sweeps and a suspended handler are not starved by
\* drains that keep the thread busy; a handler that has started runs to its end.
Fairness ==
    /\ SF_vars(Clock)
    /\ SF_vars(SweepBegin)
    /\ SF_vars(SendFresh \/ \E out \in Outcomes, cmp \in BOOLEAN : SendMiss(out, cmp))
    /\ WF_vars(\E id \in Ids, out \in Outcomes : SweepDrop(id, out) \/ SweepSlide(id, out))
    /\ WF_vars(\E id \in Ids, sent \in NoticeSends, cmp \in BOOLEAN : SweepTell(id, sent, cmp))
    /\ WF_vars(DrainSend \/ DrainMiss \/ \E out \in Outcomes, cmp \in BOOLEAN :
                               DrainAck(out, cmp) \/ Rebuffer(out, cmp))

PipelineSpec == Init /\ [][PipelineNext]_vars /\ Fairness

-----------------------------------------------------------------------------
(* Properties.                                                              *)

\* Every variable keeps its type; the queue is bounded by the cap, it holds no
\* message twice, and a drain never acks and pushes back at once.
PipelineTypeOK ==
    /\ TypeOK
    /\ \A q \in {buffer, sending, draining, unacked, missed} :
          q \in Seq(Ids) /\ Cardinality(ToSet(q)) = Len(q)
    /\ Len(buffer) <= Cap
    /\ bridge \in BOOLEAN /\ inTurn \in BOOLEAN
    /\ missed = <<>> \/ unacked = <<>>
    /\ arrived \in [Ids -> Int] /\ delivered \in [Ids -> Nat]
    /\ retracted \subseteq Ids /\ cutDrains \in 0..MaxCrashes

\* Where a message the gateway has accepted responsibility for is kept.
Held(id) == IsLive(id) \/ id \in ToSet(buffer) \cup ToSet(draining) \cup ToSet(missed)

\* The refinement mapping to InboundPromise.
Fate(id) ==
    IF delivered[id] > 0 THEN "kept"
    ELSE IF id \in retracted THEN "retracted"
    ELSE IF Held(id) THEN "promised"
    ELSE "new"

PromiseAbs == INSTANCE InboundPromise WITH fate <- [id \in Ids |-> Fate(id)]

\* The pipeline implements the promise: with a spool whose appends succeed, a
\* message once buffered is never forgotten, by eviction at the cap, a drain cut
\* short, a crash and replay, or a compaction, and is eventually delivered to the
\* bridge or retracted by the escalation sweep.
KeepsPromise == PromiseAbs!PromiseSpec

\* At-least-once delivery repeats a message only for a reason: a crash that falls
\* between a drain's send and its acks, or an append that failed (a torn line takes
\* the record after it along, so one failure may undo two tombstones).  No other
\* sequence of misses, replays, evictions and escalations sends an id twice.
RepeatsAccounted == \A id \in Ids : delivered[id] <= 1 + cutDrains + 2 * faults
=============================================================================
