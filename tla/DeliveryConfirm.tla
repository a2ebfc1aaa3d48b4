---------------------------- MODULE DeliveryConfirm ----------------------------
(***************************************************************************)
(* Deliver-until-acked: the queue of inbounds that were written to the     *)
(* bridge and whose enqueue event has not come back                        *)
(* (inbound-delivery-confirm.ts) and the sweep that re-delivers them       *)
(* (delivery-confirm-wiring.ts), with the sites that enrol a delivery:     *)
(* handleInbound and the drains of the pending-inbound buffer.             *)
(*                                                                         *)
(* A message is a fresh user turn, or the merged group a drain sends as    *)
(* one.  The CLI is external: a notification that reaches it is either     *)
(* submitted, with whatever the composer already held, or strands in the   *)
(* composer; clearAgentComposer wipes what stranded.                       *)
(***************************************************************************)
EXTENDS Naturals, Sequences

CONSTANTS
    Msgs,
    Keys,       \* chat keys
    KeyOf,      \* [Msgs -> Keys]: chatKey of the message
    Timeout     \* DELIVERY_CONFIRM_TIMEOUT_MS

None == "none"

ASSUME ConfirmAssumption ==
    KeyOf \in [Msgs -> Keys] /\ Timeout \in Nat \ {0} /\ None \notin Msgs

VARIABLES
    bridge,     \* sendToAgent reaches a bridge
    gate,       \* the delivery machine is in a turn
    turn,       \* currentTurn is set
    cards,      \* keys with a live permission or ask_user card
    buffer,     \* the pending-inbound buffer
    draining,   \* what the running drain has still to send
    pending,    \* deliveryQueue.pending: key -> tracked message and age
    clearing,   \* handleInbound calls inside their await of the composer clear
    awaiting,   \* redeliverStrandedInbound calls inside their await
    composer,   \* messages stranded in the CLI's composer
    enqueued,   \* enqueue events on their way to the gateway
    \* observation only
    arrived, sent, landed

gateVars  == <<bridge, gate, turn, cards>>
queueVars == <<buffer, draining, pending, clearing, awaiting>>
cliVars   == <<composer, enqueued, sent, landed>>
vars      == <<gateVars, queueVars, cliVars, arrived>>

Untracked == [msg |-> None, age |-> 0]

Init ==
    /\ bridge = FALSE /\ gate = FALSE /\ turn = FALSE /\ cards = {}
    /\ buffer = <<>> /\ draining = <<>> /\ clearing = {} /\ awaiting = {}
    /\ pending = [k \in Keys |-> Untracked]
    /\ composer = {} /\ enqueued = {}
    /\ arrived = {} /\ sent = {} /\ landed = {}

\* A drain is one synchronous loop: what it could meet waits for it.  (The steps
\* that commute with its sends need not.)
Quiet == draining = <<>>

-----------------------------------------------------------------------------
(* The CLI's side of a send.                                               *)

\* The notification is submitted as one enqueue with what the composer held, and
\* its chat is read from one of the envelopes ...
Submits(m, held) ==
    /\ \E x \in held \cup {m} :
         enqueued' = enqueued \cup {[key |-> KeyOf[x], ids |-> held \cup {m}]}
    /\ landed' = landed \cup held \cup {m}
    /\ composer' = {}
    /\ sent' = sent \cup {m}

\* ... or strands.
Strands(m, held) ==
    /\ composer' = held \cup {m}
    /\ sent' = sent \cup {m}
    /\ UNCHANGED <<enqueued, landed>>

Send(m, held) == Submits(m, held) \/ Strands(m, held)

\* clearAgentComposer is best-effort: it may fail and leave what the composer held.
ClearedSend(m) == \E held \in {{}, composer} : Send(m, held)

-----------------------------------------------------------------------------
(* The queue.                                                              *)

\* Variant: the key is computed without the message's topic.
TrackedWithoutTopic(m) ==
    [pending EXCEPT ![CHOOSE k \in Keys : TRUE] = [msg |-> m, age |-> 0]]

\* trackDelivery overwrites whatever the key tracked.
Tracked(m) == [pending EXCEPT ![KeyOf[m]] = [msg |-> m, age |-> 0]]

Forgotten(k) == [pending EXCEPT ![k] = Untracked]

\* Variant: an ack by chat key alone.
AckedByKey(e) == Forgotten(e.key)

\* ackDelivery: only the enqueue that carries the tracked message acks it.
Acked(e) == IF pending[e.key].msg \in e.ids THEN Forgotten(e.key) ELSE pending

\* sweep: the tracked messages without an ack for Timeout.
Due == {k \in Keys : pending[k].msg # None /\ pending[k].age >= Timeout}

Swept == [k \in Keys |-> IF k \in Due THEN [pending[k] EXCEPT !.age = 0] ELSE pending[k]]

\* Variant: a re-delivery that takes the successful write for the ack.
ReaffirmedBySend(m) == Forgotten(KeyOf[m])

\* After a re-delivery was written: an ack that raced the await is undone.
Reaffirmed(m) == IF pending[KeyOf[m]].msg = None THEN Tracked(m) ELSE pending

-----------------------------------------------------------------------------
(* Enrolment.                                                              *)

\* handleInbound of a fresh turn: the machine takes the turn, then the import that
\* clears the composer is awaited ...
ArriveDecide(m) ==
    /\ Quiet /\ m \notin arrived /\ bridge /\ ~gate
    /\ arrived' = arrived \cup {m}
    /\ gate' = TRUE
    /\ clearing' = clearing \cup {m}
    /\ UNCHANGED <<bridge, turn, cards, buffer, draining, pending, awaiting, cliVars>>

\* ... then clear, send and track ...
ArriveDeliver(m) ==
    /\ Quiet /\ m \in clearing /\ bridge
    /\ clearing' = clearing \ {m}
    /\ ClearedSend(m)
    /\ pending' = Tracked(m)
    /\ UNCHANGED <<gateVars, buffer, draining, awaiting, arrived>>

\* ... or, when the send misses, buffer.
ArriveMiss(m) ==
    /\ Quiet /\ m \in clearing /\ ~bridge
    /\ clearing' = clearing \ {m}
    /\ buffer' = Append(buffer, m)
    /\ UNCHANGED <<gateVars, draining, pending, awaiting, cliVars, arrived>>

\* Mid-turn, or without a bridge, the message is buffered.
ArriveBuffer(m) ==
    /\ Quiet /\ m \notin arrived /\ (gate \/ ~bridge)
    /\ arrived' = arrived \cup {m}
    /\ buffer' = Append(buffer, m)
    /\ UNCHANGED <<gateVars, draining, pending, clearing, awaiting, cliVars>>

\* A drain starts: at a turn end, on the idle tick, and, without asking the gate,
\* from the no-reply timer and the silence fallback.
DrainStart ==
    /\ Quiet /\ bridge /\ buffer # <<>>
    /\ draining' = buffer /\ buffer' = <<>>
    /\ UNCHANGED <<gateVars, pending, clearing, awaiting, cliVars, arrived>>

\* Each send of the loop that is confirmed is tracked; the composer is not cleared.
DrainSend ==
    /\ draining # <<>>
    /\ draining' = Tail(draining)
    /\ Send(Head(draining), composer)
    /\ pending' = Tracked(Head(draining))
    /\ UNCHANGED <<gateVars, buffer, clearing, awaiting, arrived>>

-----------------------------------------------------------------------------
(* The sweep.                                                              *)

\* runDeliveryConfirmSweep: only while no turn is live; a key whose chat holds a
\* card has its clock reset but is not re-delivered.
Sweep ==
    /\ Quiet /\ ~turn /\ Due # {}
    /\ pending' = Swept
    /\ awaiting' = awaiting \cup {pending[k].msg : k \in Due \ cards}
    /\ UNCHANGED <<gateVars, buffer, draining, clearing, cliVars, arrived>>

\* redeliverStrandedInbound after its await: clear, send, re-affirm ...
Redeliver(m) ==
    /\ Quiet /\ m \in awaiting /\ bridge
    /\ awaiting' = awaiting \ {m}
    /\ ClearedSend(m)
    /\ pending' = Reaffirmed(m)
    /\ UNCHANGED <<gateVars, buffer, draining, clearing, arrived>>

\* ... or, without a bridge, hand the message back to the buffer and forget the key.
HandBack(m) ==
    /\ Quiet /\ m \in awaiting /\ ~bridge
    /\ awaiting' = awaiting \ {m}
    /\ buffer' = Append(buffer, m)
    /\ pending' = Forgotten(KeyOf[m])
    /\ UNCHANGED <<gateVars, draining, clearing, cliVars, arrived>>

-----------------------------------------------------------------------------
(* The session.                                                            *)

\* A turn of another source (cron, handback, restart marker) in the same chat.
Synthetic(k) ==
    /\ Quiet /\ bridge
    /\ enqueued' = enqueued \cup {[key |-> k, ids |-> {}]}
    /\ UNCHANGED <<gateVars, queueVars, composer, sent, landed, arrived>>

\* The enqueue event reaches the gateway: ack, and the turn starts.  (Behind a live
\* turn the start is parked; the parked start, which acks nothing, is a Synthetic.)
Enqueue(e) ==
    /\ Quiet /\ bridge /\ e \in enqueued
    /\ enqueued' = enqueued \ {e}
    /\ pending' = Acked(e)
    /\ turn' = TRUE /\ gate' = TRUE
    /\ UNCHANGED <<bridge, cards, buffer, draining, clearing, awaiting, composer, sent, landed, arrived>>

\* turn_end, or the silence fallback that ends the turn for it.
TurnEnd ==
    /\ turn
    /\ turn' = FALSE /\ gate' = FALSE
    /\ UNCHANGED <<bridge, cards, queueVars, cliVars, arrived>>

\* The machine's TTL tick opens the gate of a delivery that never became a turn.
GateExpires ==
    /\ Quiet /\ gate /\ ~turn
    /\ gate' = FALSE
    /\ UNCHANGED <<bridge, turn, cards, queueVars, cliVars, arrived>>

CardOpen(k) ==
    /\ Quiet /\ turn /\ k \notin cards
    /\ cards' = cards \cup {k}
    /\ UNCHANGED <<bridge, gate, turn, queueVars, cliVars, arrived>>

CardClose(k) ==
    /\ k \in cards
    /\ cards' = cards \ {k}
    /\ UNCHANGED <<bridge, gate, turn, queueVars, cliVars, arrived>>

\* The bridge goes away, alone or with the CLI session and its composer; events
\* it had not forwarded are lost.
BridgeDown ==
    /\ Quiet /\ bridge
    /\ bridge' = FALSE /\ gate' = FALSE
    /\ enqueued' = {}
    /\ composer' \in {composer, {}}
    /\ UNCHANGED <<turn, cards, queueVars, sent, landed, arrived>>

\* The bridge registers: the buffer is drained.
BridgeUp ==
    /\ Quiet /\ ~bridge
    /\ bridge' = TRUE /\ gate' = FALSE
    /\ draining' = buffer /\ buffer' = <<>>
    /\ UNCHANGED <<turn, cards, pending, clearing, awaiting, cliVars, arrived>>

\* Time passes; ages saturate at the bound the sweep tests.
Elapse ==
    /\ \E k \in Keys : pending[k].msg # None /\ pending[k].age < Timeout
    /\ pending' = [k \in Keys |->
         IF pending[k].msg # None /\ pending[k].age < Timeout
         THEN [pending[k] EXCEPT !.age = @ + 1] ELSE pending[k]]
    /\ UNCHANGED <<gateVars, buffer, draining, clearing, awaiting, cliVars, arrived>>

Next ==
    \/ \E m \in Msgs : ArriveDecide(m) \/ ArriveDeliver(m) \/ ArriveMiss(m) \/ ArriveBuffer(m)
    \/ \E m \in Msgs : Redeliver(m) \/ HandBack(m)
    \/ DrainStart \/ DrainSend
    \/ Sweep
    \/ \E k \in Keys : Synthetic(k) \/ CardOpen(k) \/ CardClose(k)
    \/ \E e \in enqueued : Enqueue(e)
    \/ TurnEnd \/ GateExpires \/ BridgeDown \/ BridgeUp \/ Elapse

\* A sweep that takes key k up, and a send of m that is submitted.
TakesUp(k) == k \in Due \ cards /\ Sweep
Lands(m)   == (Redeliver(m) \/ DrainSend) /\ m \in landed'

\* The timers run, a turn ends, a card is answered or expires, the supervisor
\* restarts the bridge.  Turns that come and go do not meet every sweep for ever,
\* and a message that is sent again and again is submitted eventually: the CLI's
\* part of the bargain.
Fairness ==
    /\ WF_vars(Elapse) /\ WF_vars(DrainSend) /\ WF_vars(BridgeUp) /\ WF_vars(TurnEnd)
    /\ \A m \in Msgs : WF_vars(Redeliver(m) \/ HandBack(m)) /\ SF_vars(Lands(m))
    /\ \A k \in Keys : WF_vars(CardClose(k)) /\ SF_vars(TakesUp(k))

Spec == Init /\ [][Next]_vars /\ Fairness

-----------------------------------------------------------------------------
(* Properties.                                                             *)

ToSet(s) == {s[i] : i \in DOMAIN s}

\* Someone still holds the message and will send it again.
Owed(m) ==
    \/ pending[KeyOf[m]].msg = m
    \/ m \in awaiting \cup ToSet(buffer) \cup ToSet(draining)

\* The only message of its key that was ever sent.
Alone(m) == \A x \in sent : KeyOf[x] = KeyOf[m] => x = m

\* Every variable keeps its type, and a key tracks only messages of its own that
\* were sent.
ConfirmTypeOK ==
    /\ bridge \in BOOLEAN /\ gate \in BOOLEAN /\ turn \in BOOLEAN /\ cards \subseteq Keys
    /\ buffer \in Seq(Msgs) /\ draining \in Seq(Msgs)
    /\ pending \in [Keys -> [msg : Msgs \cup {None}, age : 0..Timeout]]
    /\ awaiting \subseteq sent /\ composer \subseteq sent /\ landed \subseteq sent
    /\ sent \cup clearing \subseteq arrived /\ arrived \subseteq Msgs
    /\ enqueued \subseteq [key : Keys, ids : SUBSET Msgs]
    /\ \A k \in Keys : pending[k].msg # None => pending[k].msg \in sent /\ KeyOf[pending[k].msg] = k

\* A message with no rival in its chat is never dropped: while it has not landed
\* it is tracked, about to be re-delivered or buffered, although synthetic turns
\* of its chat are enqueued, acks race the re-delivery's await and the bridge
\* flaps at any point (ackDelivery's match, redeliverStrandedInbound).
LoneNeverDropped == \A m \in sent \ landed : Alone(m) => Owed(m)

\* A card that is open at a sweep resets the clock of its key (sweep runs before
\* isRedeliverySuspended): new cards for ever can starve the key.
CardsSubside == \A k \in Keys : <>[][~CardOpen(k)]_vars

\* If cards stop opening, it lands: strands, synthetic turns and bridge flaps only
\* delay it.
LoneLands ==
    CardsSubside => \A m \in Msgs : (m \in sent) ~> (m \in landed \/ ~Alone(m))

\* inbound-delivery-confirm.ts: "We never drop the message and never give up - a
\* reliable queue keeps the message until it lands".  (Violated: a second message
\* of the key overwrites the tracking of one that stranded, and the next clear of
\* the composer wipes it.)
NeverDropped == \A m \in sent \ landed : Owed(m) \/ m \in composer
=============================================================================
