--------------------------- MODULE ObligationLedger ---------------------------
(***************************************************************************)
(* The gateway's ledger of unanswered messages (obligation-ledger.ts), its *)
(* file (obligation-store.ts) and everything that opens, closes or moves   *)
(* an entry: handleInbound, the reply tool, the turn end, the turn-flush   *)
(* backstop, an interrupt, and the 5 s sweep that re-presents an           *)
(* unanswered message, resumes a captured answer or sends the operator     *)
(* nudge.                                                                  *)
(*                                                                         *)
(* Messages are numbered in the order they are opened, so that the oldest  *)
(* open entry is the least one.  Time is abstracted to the end of the      *)
(* windows the sweep consults, each of which may elapse at any moment.     *)
(***************************************************************************)
EXTENDS Naturals

CONSTANTS
    N,              \* messages received
    Threads,        \* the topics of the chat
    ThreadOf,       \* the topic of a message
    Worked,         \* bound: the messages whose turns the agent ever begins
    RepresentMax,   \* OBLIGATION_REPRESENT_MAX
    EscalateMax,    \* OBLIGATION_ESCALATE_MAX
    MaxFaults       \* bound: crashes, bridge losses and failed writes

Messages == 1..N
Items    == Messages \X {"message", "represent"}
Root     == 0   \* the chat outside its topics

ASSUME LedgerAssumption ==
    /\ N \in Nat
    /\ Threads \in SUBSET Nat
    /\ ThreadOf \in [Messages -> Threads]
    /\ Worked \in SUBSET Messages
    /\ RepresentMax \in Nat
    /\ EscalateMax \in Nat \ {0}
    /\ MaxFaults \in Nat

VARIABLES
    received,   \* messages handleInbound has seen
    ob,         \* the ledger in memory; the counters of a closed entry are history
    disk,       \* the ledger as it was last written to obligations.json
    held,       \* the trailing-answer or per-represent grace still protects
    fresh,      \* younger than the background-work ceiling
    settle,     \* the escalation settle window: none, open or passed
    heard,      \* history.db: outbound in the topic since open: 0, 1 short, 2 long
    route,      \* answerRouteOverrides: where the router has just sent the topic's replies
    rerouted,   \* messages for which a long outbound landed there in time
    buffer,     \* pendingInboundBuffer, which the spool restores after a crash
    cli,        \* origins handed to the CLI, turn not yet begun
    gate,       \* turnInFlightForGate()
    session,    \* the message the live turn answers, 0 when there is none
    called,     \* replyCalled of the live turn
    bridge,     \* the bridge is alive
    flushing,   \* messages whose turn-flush delivery is in flight
    resuming,   \* messages whose captured-answer resume is in flight
    nudging,    \* nudge sends of a message in flight
    faults,     \* faults so far
    nudges,     \* nudges the operator received for a message: 0, 1, 2 or more
    cut,        \* messages of which a nudge's fate was lost
    attempts,   \* nudge sends ever started for a message, restarts or not
    why         \* the reason the code had for closing the entry, if it is not a nudge

clocks   == <<held, fresh, settle>>
ledger   == <<ob, disk, faults>>
turnVars == <<cli, gate, session, called>>
sends    == <<flushing, resuming, nudging>>
rows     == <<heard, route, rerouted>>
observed == <<nudges, cut, attempts, why>>
vars     == <<received, ledger, clocks, rows, buffer, turnVars, bridge, sends, observed>>

Entries == [open : BOOLEAN, reps : 0..RepresentMax, atts : Nat, captured : BOOLEAN]

NoEntry == [open |-> FALSE, reps |-> 0, atts |-> 0, captured |-> FALSE]

Routes  == [Messages -> SUBSET Threads]
Reasons == {"", "answered", "tried", "cancelled", "heard", "rerouted", "unwritten"}

Init ==
    /\ received = {}
    /\ ob = [m \in Messages |-> NoEntry]
    /\ disk = [m \in Messages |-> NoEntry]
    /\ held = [m \in Messages |-> FALSE]
    /\ fresh = [m \in Messages |-> TRUE]
    /\ settle = [m \in Messages |-> "none"]
    /\ heard = [m \in Messages |-> 0]
    /\ route = [m \in Messages |-> {}]
    /\ rerouted = {}
    /\ buffer = {}
    /\ cli = {}
    /\ gate = FALSE
    /\ session = 0
    /\ called = FALSE
    /\ bridge = TRUE
    /\ flushing = {}
    /\ resuming = {}
    /\ nudging = [m \in Messages |-> 0]
    /\ faults = 0
    /\ nudges = [m \in Messages |-> 0]
    /\ cut = {}
    /\ attempts = [m \in Messages |-> 0]
    /\ why = [m \in Messages |-> ""]

-----------------------------------------------------------------------------
(* The ledger *)

\* persistObligations: the whole open set is written after every mutation; a
\* write that fails is logged and memory goes on alone.
Persist(entries) ==
    \/ disk' = entries /\ faults' = faults
    \/ faults < MaxFaults /\ disk' = disk /\ faults' = faults + 1

\* noteTurnEnded, noteCapturedDelivery, markRepresented, markEscalateAttempt:
\* nothing happens to an entry that is not open.
Update(m, entry) ==
    IF ob[m].open
    THEN ob' = [ob EXCEPT ![m] = entry] /\ Persist(ob')
    ELSE UNCHANGED <<ob, disk, faults>>

\* A deleted entry; its attempts and its snapshot are kept as history.
Deleted(entry) ==
    [open |-> FALSE, reps |-> 0, atts |-> entry.atts, captured |-> entry.captured]

\* close(): an entry that is not open is left alone and nothing is written.  The
\* clocks go with the entry.
Close(m) ==
    /\ Update(m, Deleted(ob[m]))
    /\ held' = [held EXCEPT ![m] = FALSE]
    /\ fresh' = [fresh EXCEPT ![m] = TRUE]
    /\ settle' = [settle EXCEPT ![m] = "none"]

\* The open entries among ms are about to be closed for this reason.
Mark(ms, reason) ==
    why' = [m \in Messages |-> IF m \in ms /\ ob[m].open THEN reason ELSE why[m]]

\* recordOutbound: a row of history.db counts for every message of the topic
\* opened before it, whichever of them it answers, and a row of any topic for a
\* message outside the topics.
Outbound(thread, size) ==
    /\ heard' = [m \in Messages |->
                   IF m \in received /\ ThreadOf[m] \in {thread, Root} /\ heard[m] < size
                   THEN size ELSE heard[m]]
    /\ rerouted' = rerouted \cup {m \in Messages : size = 2 /\ thread \in route[m]}
    /\ UNCHANGED route

-----------------------------------------------------------------------------
(* Messages and turns *)

\* handleInbound opens the entry before the deliver-or-buffer split; an idle
\* machine with a live bridge takes the message at once.
Receive(m) ==
    /\ m \notin received
    /\ \A p \in Messages : p < m => p \in received
    /\ received' = received \cup {m}
    /\ ob' = [ob EXCEPT ![m].open = TRUE]
    /\ Persist(ob')
    /\ \/ /\ bridge /\ ~gate
          /\ cli' = cli \cup {m}
          /\ gate' = TRUE
          /\ UNCHANGED buffer
       \/ /\ ~(bridge /\ ~gate)
          /\ buffer' = buffer \cup {<<m, "message">>}
          /\ UNCHANGED <<cli, gate>>
    /\ UNCHANGED <<clocks, rows, session, called, bridge, sends, observed>>

\* shouldSuppressRepresent: any outbound of the topic since the entry was last
\* re-presented, or opened.  An entry is re-presented only while there is none,
\* so the two cutoffs see the same rows.
SuppressRepresent(m) == heard[m] > 0

\* beforeRedeliver: a buffered represent of a closed entry is dropped, one whose
\* topic has an outbound by now is dropped and closes the entry.
Stale(i)   == i[2] = "represent" /\ (~ob[i[1]].open \/ SuppressRepresent(i[1]))
Retracted  == {m \in Messages : ob[m].open /\ <<m, "represent">> \in buffer /\ SuppressRepresent(m)}

\* redeliverBufferedInbound, from the idle drain or the bridge's registration.
Drain ==
    /\ bridge /\ ~gate /\ buffer # {}
    /\ cli' = cli \cup {m \in Messages : \E i \in buffer : i[1] = m /\ ~Stale(i)}
    /\ buffer' = {}
    /\ Mark(Retracted, "heard")
    /\ \/ /\ Retracted = {}
          /\ UNCHANGED ledger
       \/ /\ Retracted # {}
          /\ ob' = [m \in Messages |-> IF m \in Retracted THEN Deleted(ob[m]) ELSE ob[m]]
          /\ Persist(ob')
    /\ UNCHANGED <<received, clocks, rows, gate, session, called, bridge, sends, nudges, cut,
                   attempts>>

\* The CLI dequeues an inbound; a represent carries the origin of its message.
TurnStart(m) ==
    /\ m \in cli \cap Worked /\ session = 0
    /\ cli' = cli \ {m}
    /\ session' = m
    /\ called' = FALSE
    /\ gate' = TRUE
    /\ UNCHANGED <<received, ledger, clocks, rows, buffer, bridge, sends, observed>>

\* replyCalled is set by the tool call, whatever becomes of the send.  A reply
\* that is not the final answer, or was not sent (size 0), closes nothing.
Interim(thread, size) ==
    /\ session # 0
    /\ called' = TRUE
    /\ Outbound(thread, size)
    /\ UNCHANGED <<received, ledger, clocks, buffer, cli, gate, session, bridge, sends,
                   observed>>

\* A final reply closes the message t that the model echoes, quotes or answers; the
\* router may have sent it to another topic.
Reply(t, thread, size) ==
    /\ session # 0 /\ t \in received
    /\ called' = TRUE
    /\ Outbound(thread, size)
    /\ Close(t)
    /\ Mark({t}, "answered")
    /\ UNCHANGED <<received, buffer, cli, gate, session, bridge, sends, nudges, cut, attempts>>

\* So does one the flood queue takes over.
ReplyQueued(t) ==
    /\ session # 0 /\ t \in received
    /\ called' = TRUE
    /\ Close(t)
    /\ Mark({t}, "answered")
    /\ UNCHANGED <<received, rows, buffer, cli, gate, session, bridge, sends, nudges, cut,
                   attempts>>

\* Any other recorded send: a worker's trailing answer, a forward, an
\* acknowledgement of the gateway.  It closes nothing.
TrailingReply(thread, size) ==
    /\ Outbound(thread, size)
    /\ UNCHANGED <<received, ledger, clocks, buffer, turnVars, bridge, sends, observed>>

\* note: a reply that names the topic `named` is routed to the topic of its turn.  The
\* record counts for what is open in the named topic.
Reroute(named, to) ==
    /\ named \notin {to, Root}
    /\ route' = [m \in Messages |-> IF ob[m].open /\ ThreadOf[m] = named
                                    THEN route[m] \cup {to} ELSE route[m]]
    /\ UNCHANGED <<received, ledger, clocks, heard, rerouted, buffer, turnVars, bridge, sends,
                   observed>>

\* noteTurnEnded starts the trailing-answer grace of an open entry.
NoteTurnEnded(m, entry) ==
    /\ Update(m, entry)
    /\ held' = [held EXCEPT ![m] = ob[m].open]
    /\ UNCHANGED <<fresh, settle>>

\* endCurrentTurnAtomic with decideObligationTurnEnd: a turn that called the reply
\* tool closes its message, were it with an acknowledgement or in vain.
TurnEnd ==
    /\ session # 0
    /\ session' = 0
    /\ called' = FALSE
    /\ gate' = FALSE
    /\ \/ called /\ Close(session) /\ Mark({session}, "tried")
       \/ ~called /\ NoteTurnEnded(session, ob[session]) /\ UNCHANGED why
    /\ UNCHANGED <<received, rows, buffer, cli, bridge, sends, nudges, cut, attempts>>

\* A turn that ends with captured text and no reply call is delivered by the
\* turn-flush backstop; deferObligationClose leaves the ledger to its outcome.
TurnFlush ==
    /\ session # 0 /\ ~called
    /\ flushing' = flushing \cup {session}
    /\ session' = 0
    /\ gate' = FALSE
    /\ UNCHANGED <<received, ledger, clocks, rows, buffer, cli, called, bridge, resuming,
                   nudging, observed>>

\* Every chunk landed.
FlushDone(m, size) ==
    /\ m \in flushing
    /\ flushing' = flushing \ {m}
    /\ Outbound(ThreadOf[m], size)
    /\ Close(m)
    /\ Mark({m}, "answered")
    /\ UNCHANGED <<received, buffer, turnVars, bridge, resuming, nudging, nudges, cut, attempts>>

\* deliverAnswer gave up: the chunks that landed are recorded in history, the
\* snapshot is kept on the entry, and the trailing grace starts.
FlushFails(m, size) ==
    /\ m \in flushing
    /\ flushing' = flushing \ {m}
    /\ Outbound(ThreadOf[m], size)
    /\ NoteTurnEnded(m, [ob[m] EXCEPT !.captured = TRUE])
    /\ UNCHANGED <<received, buffer, turnVars, bridge, resuming, nudging, observed>>

\* The flush finds a recent long outbound in the topic and stands down.
FlushSuppressed(m) ==
    /\ m \in flushing /\ heard[m] = 2
    /\ flushing' = flushing \ {m}
    /\ NoteTurnEnded(m, ob[m])
    /\ UNCHANGED <<received, rows, buffer, turnVars, bridge, resuming, nudging, observed>>

\* An interrupt kills the live turn and cancels its message.
Interrupt ==
    /\ session # 0
    /\ Close(session)
    /\ Mark({session}, "cancelled")
    /\ session' = 0
    /\ called' = FALSE
    /\ gate' = FALSE
    /\ UNCHANGED <<received, rows, buffer, cli, bridge, sends, nudges, cut, attempts>>

\* The machine's TTL tick opens the gate although the turn may still be running.
Poke ==
    /\ gate
    /\ gate' = FALSE
    /\ UNCHANGED <<received, ledger, clocks, rows, buffer, cli, session, called, bridge, sends,
                   observed>>

-----------------------------------------------------------------------------
(* The sweep *)

\* Variant: reported work protects an entry of any age.
EligibleNoCeiling(work) == {m \in Messages : ob[m].open /\ ~held[m] /\ ~work}

\* oldestEligible; work stands for in-flight background work or a busy session.
Eligible(work) == {m \in Messages : ob[m].open /\ ~held[m] /\ ~(work /\ fresh[m])}

\* The entry the sweep acts on, if the gate is open.
Due(m, work) ==
    /\ ~gate
    /\ session # 0 => work
    /\ m \in Eligible(work)
    /\ \A p \in Eligible(work) : m <= p

\* Variant: one represent too many.
RepresentsOnceMore(m) == ob[m].reps <= RepresentMax

Represents(m) == ob[m].reps < RepresentMax

\* A represent is stale once the topic has an outbound: the entry is closed without
\* a word ...
SweepSuppress(m, work) ==
    /\ Due(m, work)
    /\ Represents(m) /\ SuppressRepresent(m)
    /\ Close(m)
    /\ Mark({m}, "heard")
    /\ UNCHANGED <<received, rows, buffer, turnVars, bridge, sends, nudges, cut, attempts>>

\* Variant: an acknowledgement stands the nudge down.
answeredSinceOpenByAck(m) == heard[m] > 0 \/ m \in rerouted

\* answeredSinceOpen: a long outbound in the topic, or where the router has sent it.
answeredSinceOpen(m) == heard[m] = 2 \/ m \in rerouted

\* ... and so is an entry about to be escalated.
SweepClose(m, work) ==
    /\ Due(m, work)
    /\ ~Represents(m) /\ bridge /\ answeredSinceOpen(m)
    /\ Close(m)
    /\ Mark({m} \cap rerouted, "rerouted")
    /\ UNCHANGED <<received, rows, buffer, turnVars, bridge, sends, nudges, cut, attempts>>

\* Variant: the represent is stamped but not counted.
MarkRepresentedUncounted(m) ==
    /\ Update(m, ob[m])
    /\ held' = [held EXCEPT ![m] = TRUE]
    /\ UNCHANGED <<fresh, settle>>

MarkRepresented(m) ==
    /\ Update(m, [ob[m] EXCEPT !.reps = @ + 1])
    /\ held' = [held EXCEPT ![m] = TRUE]
    /\ UNCHANGED <<fresh, settle>>

\* capturedResume.dispatch: nothing while a resume of the entry is in flight.
SweepResume(m, work) ==
    /\ Due(m, work)
    /\ Represents(m) /\ ~SuppressRepresent(m)
    /\ ob[m].captured /\ m \notin resuming
    /\ MarkRepresented(m)
    /\ resuming' = resuming \cup {m}
    /\ UNCHANGED <<received, rows, buffer, turnVars, bridge, flushing, nudging, observed>>

SweepRepresent(m, work) ==
    /\ Due(m, work)
    /\ Represents(m) /\ ~SuppressRepresent(m)
    /\ ~ob[m].captured /\ buffer = {}
    /\ MarkRepresented(m)
    /\ buffer' = {<<m, "represent">>}
    /\ UNCHANGED <<received, rows, turnVars, bridge, sends, observed>>

Escalates(m) == ~Represents(m) /\ bridge /\ ~answeredSinceOpen(m)

\* shouldDefer opens a window and the nudge waits for it to pass.
SweepSettle(m, work) ==
    /\ Due(m, work)
    /\ Escalates(m) /\ settle[m] = "none"
    /\ settle' = [settle EXCEPT ![m] = "open"]
    /\ UNCHANGED <<received, ledger, held, fresh, rows, buffer, turnVars, bridge, sends,
                   observed>>

NudgeStarts(m) ==
    /\ nudging' = [nudging EXCEPT ![m] = @ + 1]
    /\ attempts' = [attempts EXCEPT ![m] = @ + 1]

\* Variant: no check for a nudge in flight.
driveEscalationConcurrent(m) ==
    /\ Update(m, [ob[m] EXCEPT !.atts = @ + 1])
    /\ NudgeStarts(m)

\* Variant: the attempt is counted in memory only.
driveEscalationUnpersisted(m) ==
    /\ nudging[m] = 0
    /\ ob' = [ob EXCEPT ![m].atts = @ + 1]
    /\ UNCHANGED <<disk, faults>>
    /\ NudgeStarts(m)

\* driveEscalation: the attempt is counted and written, then the nudge is sent;
\* nothing while one is in flight.
driveEscalation(m) ==
    \/ /\ nudging[m] = 0
       /\ Update(m, [ob[m] EXCEPT !.atts = @ + 1])
       /\ NudgeStarts(m)
    \/ /\ nudging[m] > 0
       /\ UNCHANGED <<ledger, nudging, attempts>>

SweepEscalate(m, work) ==
    /\ Due(m, work)
    /\ Escalates(m) /\ settle[m] = "passed"
    /\ driveEscalation(m)
    /\ settle' = [settle EXCEPT ![m] = "none"]
    /\ UNCHANGED <<received, held, fresh, rows, buffer, turnVars, bridge, flushing, resuming,
                   nudges, cut, why>>

\* One tick of obligationSweep; the ticks that change nothing are stuttering.
SweepOf(m, work) ==
    \/ SweepSuppress(m, work)
    \/ SweepClose(m, work)
    \/ SweepResume(m, work)
    \/ SweepRepresent(m, work)
    \/ SweepSettle(m, work)
    \/ SweepEscalate(m, work)

-----------------------------------------------------------------------------
(* Sends that settle later *)

ResumeDone(m) ==
    /\ m \in resuming
    /\ resuming' = resuming \ {m}
    /\ Outbound(ThreadOf[m], 2)
    /\ Close(m)
    /\ Mark({m}, "answered")
    /\ UNCHANGED <<received, buffer, turnVars, bridge, flushing, nudging, nudges, cut, attempts>>

\* The tail, or part of it, did not land; the entry stays as it is.
ResumeFails(m, size) ==
    /\ m \in resuming
    /\ resuming' = resuming \ {m}
    /\ Outbound(ThreadOf[m], size)
    /\ UNCHANGED <<received, ledger, clocks, buffer, turnVars, bridge, flushing, nudging,
                   observed>>

Nudged(m) == nudges' = [nudges EXCEPT ![m] = IF @ < 2 THEN @ + 1 ELSE @]

\* The send resolved: the entry is closed only now.
NudgeAck(m) ==
    /\ nudging[m] > 0
    /\ nudging' = [nudging EXCEPT ![m] = @ - 1]
    /\ Nudged(m)
    /\ Close(m)
    /\ UNCHANGED <<received, rows, buffer, turnVars, bridge, flushing, resuming, cut,
                   attempts, why>>

\* The send failed, or withDeadline gave up on it: then it may have landed, or
\* may land later.  The last attempt closes the entry, an earlier one is left to
\* a later sweep.
NudgeFails(m) ==
    /\ nudging[m] > 0
    /\ nudging' = [nudging EXCEPT ![m] = @ - 1]
    /\ IF ob[m].atts >= EscalateMax THEN Close(m) ELSE UNCHANGED <<ledger, clocks>>
    /\ \/ UNCHANGED <<nudges, cut>>
       \/ cut' = cut \cup {m} /\ Nudged(m)
    /\ UNCHANGED <<received, rows, buffer, turnVars, bridge, flushing, resuming,
                   attempts, why>>

-----------------------------------------------------------------------------
(* Time and faults *)

GraceEnds(m) ==
    /\ held[m]
    /\ held' = [held EXCEPT ![m] = FALSE]
    /\ UNCHANGED <<received, ledger, fresh, settle, rows, buffer, turnVars, bridge, sends,
                   observed>>

\* OBLIGATION_BACKGROUND_WORK_GRACE_MS since openedAt.
Ages(m) ==
    /\ ob[m].open /\ fresh[m]
    /\ fresh' = [fresh EXCEPT ![m] = FALSE]
    /\ UNCHANGED <<received, ledger, held, settle, rows, buffer, turnVars, bridge, sends,
                   observed>>

SettlePasses(m) ==
    /\ settle[m] = "open"
    /\ settle' = [settle EXCEPT ![m] = "passed"]
    /\ UNCHANGED <<received, ledger, held, fresh, rows, buffer, turnVars, bridge, sends,
                   observed>>

\* A record, or the time it allows for the delivery, is over: rerouteMatchWindowMs.
\* What was found in time stays found while the settle window, which anchors the
\* search, is open.
RouteLapses(m) ==
    /\ route[m] # {} \/ m \in rerouted
    /\ route' = [route EXCEPT ![m] = {}]
    /\ rerouted' = IF settle[m] = "none" THEN rerouted \ {m} ELSE rerouted
    /\ UNCHANGED <<received, ledger, clocks, heard, buffer, turnVars, bridge, sends, observed>>

\* The CLI session is gone, with its queue and its turn.
SessionLost ==
    /\ bridge' = FALSE
    /\ cli' = {}
    /\ session' = 0
    /\ called' = FALSE
    /\ gate' = FALSE

BridgeDown ==
    /\ bridge /\ faults < MaxFaults
    /\ faults' = faults + 1
    /\ SessionLost
    /\ UNCHANGED <<received, ob, disk, clocks, rows, buffer, sends, observed>>

BridgeUp ==
    /\ ~bridge
    /\ bridge' = TRUE
    /\ UNCHANGED <<received, ledger, clocks, rows, buffer, turnVars, sends, observed>>

\* The gateway restarts: loadObligations and hydrate bring back what the file
\* holds, everything else in memory is gone, the fate of a nudge in flight too.
Crash ==
    /\ faults < MaxFaults
    /\ faults' = faults + 1
    /\ ob' = [m \in Messages |-> IF disk[m].open THEN disk[m] ELSE Deleted(ob[m])]
    /\ disk' = ob'
    /\ Mark({m \in Messages : ~disk[m].open}, "unwritten")
    /\ cut' = cut \cup {m \in Messages : nudging[m] > 0 \/ (disk[m].open /\ ~ob[m].open)}
    /\ \E landed \in SUBSET {m \in Messages : nudging[m] > 0} :
          nudges' = [m \in Messages |->
                       IF m \in landed /\ nudges[m] < 2 THEN nudges[m] + 1 ELSE nudges[m]]
    /\ settle' = [m \in Messages |-> "none"]
    /\ route' = [m \in Messages |-> {}]
    /\ rerouted' = {}
    /\ flushing' = {}
    /\ resuming' = {}
    /\ nudging' = [m \in Messages |-> 0]
    /\ SessionLost
    /\ UNCHANGED <<received, held, fresh, heard, buffer, attempts>>

-----------------------------------------------------------------------------
Sweep == \E m \in Messages, work \in BOOLEAN : SweepOf(m, work)

Turns ==
    \/ \E m \in Messages : Receive(m)
    \/ Drain
    \/ \E m \in Messages : TurnStart(m)
    \/ \E thread \in Threads, size \in 0..2 : Interim(thread, size)
    \/ \E t \in Messages, thread \in Threads, size \in 1..2 : Reply(t, thread, size)
    \/ \E t \in Messages : ReplyQueued(t)
    \/ \E thread \in Threads, size \in 1..2 : TrailingReply(thread, size)
    \/ \E named, to \in Threads : Reroute(named, to)
    \/ TurnEnd
    \/ TurnFlush
    \/ Interrupt
    \/ Poke

Settling ==
    \/ \E m \in Messages, size \in 1..2 : FlushDone(m, size)
    \/ \E m \in Messages, size \in 0..2 : FlushFails(m, size) \/ ResumeFails(m, size)
    \/ \E m \in Messages :
         \/ FlushSuppressed(m)
         \/ ResumeDone(m)
         \/ NudgeAck(m)
         \/ NudgeFails(m)

Environment ==
    \/ \E m \in Messages : GraceEnds(m) \/ Ages(m) \/ SettlePasses(m) \/ RouteLapses(m)
    \/ BridgeDown
    \/ BridgeUp
    \/ Crash

Next == Turns \/ Sweep \/ Settling \/ Environment

Spec == Init /\ [][Next]_vars

\* What the gateway does by itself: its 5 s interval, taken with background work
\* reported all the time, the drain, clocks, the deadline of the
\* nudge, the bounded retries of a resume, and the bridge's reconnection.  The
\* agent owes nothing: no turn need begin, end or reply.
Fairness ==
    /\ WF_vars(\E m \in Messages : SweepOf(m, TRUE))
    /\ WF_vars(Drain)
    /\ WF_vars(BridgeUp)
    /\ \A m \in Messages :
         /\ WF_vars(GraceEnds(m))
         /\ WF_vars(Ages(m))
         /\ WF_vars(SettlePasses(m))
         /\ WF_vars(NudgeAck(m) \/ NudgeFails(m))
         /\ WF_vars(ResumeDone(m) \/ \E size \in 0..2 : ResumeFails(m, size))

FairSpec == Spec /\ Fairness

-----------------------------------------------------------------------------
(* Properties *)

\* Type invariant: reps stays within the represent cap.
LedgerTypeOK ==
    /\ received \in SUBSET Messages
    /\ ob \in [Messages -> Entries] /\ disk \in [Messages -> Entries]
    /\ held \in [Messages -> BOOLEAN] /\ fresh \in [Messages -> BOOLEAN]
    /\ settle \in [Messages -> {"none", "open", "passed"}]
    /\ heard \in [Messages -> 0..2]
    /\ route \in Routes /\ rerouted \in SUBSET Messages
    /\ buffer \in SUBSET Items /\ cli \in SUBSET Messages
    /\ gate \in BOOLEAN /\ called \in BOOLEAN /\ bridge \in BOOLEAN
    /\ session \in {0} \cup Messages
    /\ flushing \in SUBSET Messages /\ resuming \in SUBSET Messages
    /\ nudging \in [Messages -> Nat]
    /\ faults \in 0..MaxFaults
    /\ nudges \in [Messages -> 0..2]
    /\ cut \in SUBSET Messages
    /\ attempts \in [Messages -> Nat]
    /\ why \in [Messages -> Reasons]

\* What the code takes for an answer: a final reply, a landed flush or resume, a reply
\* handed to the flood queue; any reply call of the message's own turn; a long
\* outbound in its topic, or in the topic the router had just sent it to; and, while
\* the entry has represents left, any outbound in its topic.
TakenAsAnswered(m) ==
    \/ why[m] \in {"answered", "tried", "rerouted"}
    \/ heard[m] = 2
    \/ why[m] = "heard" /\ heard[m] > 0

\* No message leaves the ledger unnoticed: once its entry is closed, the code has
\* seen what it takes for an answer, the operator was nudged, EscalateMax nudges were
\* attempted, the user interrupted the turn, or a restart found that the entry never
\* reached the file (driveEscalation's close after the send, the sweep's silent
\* closes, hydrate).  In particular an acknowledgement of another turn, which closes
\* nothing by itself, never stands a nudge down.
NeverDropped ==
    \A m \in received :
        \/ ob[m].open
        \/ TakenAsAnswered(m)
        \/ nudges[m] > 0
        \/ attempts[m] >= EscalateMax
        \/ why[m] \in {"cancelled", "unwritten"}

\* The operator is nudged once: a second nudge for a message means that the fate
\* of an earlier one was lost to a deadline, a dropped answer or a crash
\* (the in-flight set of driveEscalation and its close after the send).
OneNudge == \A m \in Messages : nudges[m] > 1 => m \in cut

\* The ladder is bounded: whatever restarts, failed writes and lost answers do to the
\* entry's counter, at most EscalateMax nudges of a message are sent, and one more
\* for each fault (markEscalateAttempt persisted before the send, hydrate).
LadderBounded == \A m \in Messages : attempts[m] <= EscalateMax + faults

\* Whatever the agent does, no entry stays open for ever, provided that the turn gate
\* does not stay shut for ever: the argument at the head of obligationSweep
\* (answered, nudged, or a bounded give-up), although every rung waits for the
\* gate, a grace, a window or a send.
EventuallySettled == []<>(~gate) => \A m \in Messages : []<>(~ob[m].open)
=============================================================================
