-------------------------------- MODULE Outbox --------------------------------
(***************************************************************************)
(* The durable outbox (outbox.ts), the sweep that delivers it              *)
(* (gateway/outbox-sweep.ts), its two producers (the Stop hook and the     *)
(* flood reply queue) and the turn flush that may deliver the same answer, *)
(* composed with the startup mutex: every gateway that owns the lock       *)
(* sweeps.                                                                 *)
(*                                                                         *)
(* A nonce names the files <nonce>.json (pending) and <nonce>.sending      *)
(* (claimed); a file is modelled by the age of its mtime, which a rename   *)
(* keeps.  The hook, the flush and each gateway's sweep are concurrent;    *)
(* a sweep awaits only its sends.  The order of the records within one     *)
(* sweep is left open.                                                     *)
(***************************************************************************)
EXTENDS StartupMutex

CONSTANTS
    Turns,      \* nonces of turns: captured by the Stop hook, perhaps flushed
    Floods,     \* content nonces of replies a flood window refused
    Withheld,   \* records of internal audience, or shown on the progress card
    Unroutable, \* records whose chat resolveOutboxChat does not find
    TextOf,     \* the text of each nonce: two nonces may have the same
    MaxWrites   \* captures per nonce

ASSUME OutboxAssumption ==
    /\ "none" \notin Turns \cup Floods
    /\ Turns \cap Floods = {}
    /\ DOMAIN TextOf = Turns \cup Floods
    /\ MaxWrites \in Nat

Nonces == Turns \cup Floods
SameText(n) == {m \in Nonces : TextOf[m] = TextOf[n]}
None   == "none"

\* The age of a file: younger than OUTBOX_QUIET_MS, older, or older than
\* OUTBOX_SENDING_TIMEOUT_MS.
Absent == 0
Fresh  == 1
Ripe   == 2
Old    == 3

VARIABLES
    json, sending,  \* the files of each nonce
    journal,        \* nonces in delivered.jsonl
    flood,          \* the persisted flood window is open
    sweep,          \* the sweep of each gateway
    flush,          \* the turn flush of each turn
    hook,           \* the Stop hook between its checks and its write
    writes,         \* captures so far
    \* observation only
    posts,          \* messages Telegram has accepted per nonce, up to 2
    owed,           \* nonces whose latest capture has not been posted
    mishap          \* nonces with a delivery that was cut between landing and journal
                    \* (crash, lost acknowledgement, failed append), that the flush and
                    \* the sweep sent at once, or that the hook captured again after it

fileVars   == <<json, sending, journal>>
senderVars == <<sweep, flush>>
obsVars    == <<posts, owed, mishap>>
outboxVars == <<fileVars, flood, senderVars, hook, writes, obsVars>>
vars       == <<mutexVars, outboxVars>>

\* todo: records still to be looked at; seen: the journal as read at the start;
\* cur: the record being sent; landed: Telegram has it.
Idle      == [todo |-> {}, seen |-> {}, cur |-> None, landed |-> FALSE]
Unflushed == [phase |-> "none", by |-> None]

Init ==
    /\ MutexInit
    /\ json = [n \in Nonces |-> Absent] /\ sending = [n \in Nonces |-> Absent]
    /\ journal = {} /\ flood = FALSE
    /\ sweep = [g \in Gateways |-> Idle]
    /\ flush = [n \in Turns |-> Unflushed]
    /\ hook = {} /\ writes = [n \in Nonces |-> 0]
    /\ posts = [n \in Nonces |-> 0] /\ owed = {} /\ mishap = {}

Pending == {n \in Nonces : json[n] # Absent}
OnDisk(n) == json[n] # Absent \/ sending[n] # Absent

\* Some machine has a send of n under way.
Sweeping(n) == \E g \in Gateways : sweep[g].cur = n
Flushing(n) == n \in Turns /\ flush[n].phase \in {"send", "landed"}

\* A sweep runs without yielding up to its next send: until then nothing else runs
\* in its process.
Yields(g) == sweep[g].todo = {} \/ sweep[g].cur # None

clearOutboxRecord(n) ==
    /\ json' = [json EXCEPT ![n] = Absent]
    /\ sending' = [sending EXCEPT ![n] = Absent]

Fault == faults < MaxFaults /\ faults' = faults + 1

\* appendDelivered is best-effort.
appendDelivered(n) ==
    \/ /\ journal' = journal \cup {n}
       /\ UNCHANGED <<faults, mishap>>
    \/ /\ Fault
       /\ mishap' = mishap \cup {n}
       /\ UNCHANGED journal

Post(n) ==
    /\ posts' = [posts EXCEPT ![n] = IF @ = 2 THEN 2 ELSE @ + 1]
    /\ owed' = owed \ {n}

-----------------------------------------------------------------------------
(* Producers                                                               *)

\* The Stop hook looks for a pending record and a journal entry ...
HookCheck(n) ==
    /\ n \notin hook /\ writes[n] < MaxWrites
    /\ json[n] = Absent /\ n \notin journal
    /\ hook' = hook \cup {n}
    /\ UNCHANGED <<mutexVars, fileVars, flood, senderVars, writes, obsVars>>

\* ... and writes the record.
HookWrite(n) ==
    /\ n \in hook
    /\ hook' = hook \ {n}
    /\ json' = [json EXCEPT ![n] = Fresh]
    /\ writes' = [writes EXCEPT ![n] = @ + 1]
    /\ owed' = owed \cup {n}
    /\ mishap' = IF n \in journal THEN mishap \cup {n} ELSE mishap
    /\ UNCHANGED <<mutexVars, sending, journal, flood, senderVars, posts>>

\* queueFloodBlockedReply: the open window, or the 429 that opens it, refused a reply.
\* The record is written unless one is pending; the journal is not consulted.  The
\* caller reports the reply as queued.
FloodQueue(n) ==
    /\ \E g \in holders : Yields(g)
    /\ writes[n] < MaxWrites
    /\ flood' = TRUE /\ (IF flood THEN UNCHANGED faults ELSE Fault)
    /\ json' = [json EXCEPT ![n] = IF @ = Absent THEN Fresh ELSE @]
    /\ writes' = [writes EXCEPT ![n] = @ + 1]
    /\ owed' = owed \cup {n}
    /\ UNCHANGED <<lockVars, sending, journal, senderVars, hook, posts, mishap>>

-----------------------------------------------------------------------------
(* sweepOutbox                                                             *)

\* The tick starts a sweep only if none is in flight and no flood window is open:
\* re-queue old claims, list, read the journal once.  Ages are those of this moment:
\* a record that is too young now is not looked at again in this sweep.
reclaimed(n) == IF sending[n] = Old THEN Old ELSE json[n]

Listed(n) == reclaimed(n) # Absent /\ (reclaimed(n) = Fresh => n \in Withheld \cup journal)

\* Mutant: claims a dead process left behind are not re-queued.
SweepStartNoReclaim(g) ==
    /\ g \in holders /\ ~flood
    /\ sweep[g].todo = {} /\ sweep[g].cur = None
    /\ sweep' = [sweep EXCEPT ![g].todo = {n \in Pending : json[n] # Fresh}, ![g].seen = journal]
    /\ UNCHANGED <<mutexVars, fileVars, flood, flush, hook, writes, obsVars>>

SweepStart(g) ==
    /\ g \in holders /\ ~flood
    /\ sweep[g].todo = {} /\ sweep[g].cur = None
    /\ json' = [n \in Nonces |-> reclaimed(n)]
    /\ sending' = [n \in Nonces |-> IF sending[n] = Old THEN Absent ELSE sending[n]]
    /\ sweep' = [sweep EXCEPT ![g].todo = {n \in Nonces : Listed(n)}, ![g].seen = journal]
    /\ UNCHANGED <<mutexVars, journal, flood, flush, hook, writes, obsVars>>

\* outboundDedup still holds the text: this process flushed it for some turn, and
\* recorded it even if the flush failed.
textAlreadyDelivered(g, n) ==
    /\ n \notin Unroutable
    /\ \E m \in Turns \cap SameText(n) : flush[m].by = g /\ flush[m].phase \in {"done", "failed"}

\* decideOutboxSweep: the record is not for the chat, was delivered, or is to be sent.
Suppress(g, n) ==
    \/ n \in Withheld
    \/ n \notin sweep[g].seen /\ textAlreadyDelivered(g, n)

\* Mutant: the journal is not consulted before a send.
AlreadyJournaledIgnored(g, n) == FALSE

AlreadyJournaled(g, n) == n \in sweep[g].seen \ Withheld

ToSend(g, n) == ~Suppress(g, n) /\ ~AlreadyJournaled(g, n)

\* A record that must not be sent is dropped, journaled first if it was not.
Drop(g, n) ==
    /\ \/ Suppress(g, n) /\ appendDelivered(n)
       \/ AlreadyJournaled(g, n) /\ UNCHANGED <<journal, faults, mishap>>
    /\ clearOutboxRecord(n)
    /\ sweep' = [sweep EXCEPT ![g].todo = @ \ {n}]
    /\ UNCHANGED <<posts, owed>>

\* One that is to be sent is claimed by renaming it ...
Claim(g, n) ==
    /\ ToSend(g, n) /\ n \notin Unroutable /\ json[n] # Absent
    /\ json' = [json EXCEPT ![n] = Absent]
    /\ sending' = [sending EXCEPT ![n] = json[n]]
    /\ sweep' = [sweep EXCEPT ![g].todo = @ \ {n}, ![g].cur = n]
    /\ mishap' = IF Flushing(n) THEN mishap \cup {n} ELSE mishap
    /\ UNCHANGED <<journal, faults, posts, owed>>

\* ... or left, if it has no chat or another machine has taken it meanwhile.
Leave(g, n) ==
    /\ ToSend(g, n) /\ (n \in Unroutable \/ json[n] = Absent)
    /\ sweep' = [sweep EXCEPT ![g].todo = @ \ {n}]
    /\ UNCHANGED <<fileVars, faults, obsVars>>

SweepRecord(g) ==
    /\ g \in holders /\ sweep[g].cur = None
    /\ \E n \in sweep[g].todo : Drop(g, n) \/ Claim(g, n) \/ Leave(g, n)
    /\ UNCHANGED <<lockVars, flood, flush, hook, writes>>

SweepLands(g) ==
    /\ sweep[g].cur # None /\ ~sweep[g].landed
    /\ sweep' = [sweep EXCEPT ![g].landed = TRUE]
    /\ Post(sweep[g].cur)
    /\ UNCHANGED <<mutexVars, fileVars, flood, flush, hook, writes, mishap>>

\* The send returned: journal it, then removeClaimed.
SweepAck(g) ==
    LET n == sweep[g].cur IN
    /\ n # None /\ sweep[g].landed
    /\ appendDelivered(n)
    /\ sending' = [sending EXCEPT ![n] = Absent]
    /\ sweep' = [sweep EXCEPT ![g].cur = None, ![g].landed = FALSE]
    /\ UNCHANGED <<lockVars, json, flood, flush, hook, writes, posts, owed>>

\* The send threw: releaseClaim.  Some of it may have landed (a later chunk failed,
\* or the answer was lost); a refused send records the flood window.
\* Mutant: a failed send removes the claimed file.
releaseClaimRemoves(n) ==
    /\ sending' = [sending EXCEPT ![n] = Absent]
    /\ UNCHANGED json

releaseClaim(n) ==
    IF sending[n] = Absent
    THEN UNCHANGED <<json, sending>>
    ELSE /\ json' = [json EXCEPT ![n] = sending[n]]
         /\ sending' = [sending EXCEPT ![n] = Absent]

SweepFails(g) ==
    LET n == sweep[g].cur IN
    /\ n # None /\ Fault
    /\ releaseClaim(n)
    /\ flood' \in {flood, TRUE}
    /\ mishap' = IF sweep[g].landed THEN mishap \cup {n} ELSE mishap
    /\ sweep' = [sweep EXCEPT ![g].cur = None, ![g].landed = FALSE]
    /\ UNCHANGED <<lockVars, journal, flush, hook, writes, posts, owed>>

-----------------------------------------------------------------------------
(* The turn flush: once per turn, in the gateway that saw the turn         *)

FlushStart(g, n) ==
    /\ g \in holders /\ Yields(g) /\ flush[n] = Unflushed
    /\ flush' = [flush EXCEPT ![n] =
         [phase |-> IF n \in journal THEN "done" ELSE "send", by |-> IF n \in journal THEN None ELSE g]]
    /\ mishap' = IF n \notin journal /\ Sweeping(n) THEN mishap \cup {n} ELSE mishap
    /\ UNCHANGED <<mutexVars, fileVars, flood, sweep, hook, writes, posts, owed>>

FlushLands(n) ==
    /\ flush[n].phase = "send"
    /\ flush' = [flush EXCEPT ![n].phase = "landed"]
    /\ Post(n)
    /\ UNCHANGED <<mutexVars, fileVars, flood, sweep, hook, writes, mishap>>

\* onAckClaim: journalExternalDelivery, then outboundDedup.record.
FlushAck(n) ==
    /\ flush[n].phase = "landed" /\ Yields(flush[n].by)
    /\ flush' = [flush EXCEPT ![n].phase = "done"]
    /\ appendDelivered(n) /\ clearOutboxRecord(n)
    /\ UNCHANGED <<lockVars, flood, sweep, hook, writes, posts, owed>>

\* deliverAnswer gave up: nothing is journaled, the record stays with the sweep, and
\* outboundDedup records the text all the same.
FlushFails(n) ==
    /\ Flushing(n) /\ Yields(flush[n].by) /\ Fault
    /\ flush' = [flush EXCEPT ![n].phase = "failed"]
    /\ flood' \in {flood, TRUE}
    /\ mishap' = IF flush[n].phase = "landed" THEN mishap \cup {n} ELSE mishap
    /\ UNCHANGED <<lockVars, fileVars, sweep, hook, writes, posts, owed>>

-----------------------------------------------------------------------------
(* The environment and the processes                                       *)

FloodCloses ==
    /\ flood /\ flood' = FALSE
    /\ UNCHANGED <<mutexVars, fileVars, senderVars, hook, writes, obsVars>>

\* Time passes; the dedup cache forgets after its TTL.
Older(age) == IF age \in {Fresh, Ripe} THEN age + 1 ELSE age

Ages(n) ==
    /\ \/ json[n] \in {Fresh, Ripe}
       \/ sending[n] \in {Fresh, Ripe}
    /\ json' = [json EXCEPT ![n] = Older(@)]
    /\ sending' = [sending EXCEPT ![n] = Older(@)]
    /\ UNCHANGED <<mutexVars, journal, flood, senderVars, hook, writes, obsVars>>

DedupEvicts(n) ==
    /\ flush[n].phase \in {"done", "failed"} /\ flush[n].by # None
    /\ flush' = [flush EXCEPT ![n].by = None]
    /\ UNCHANGED <<mutexVars, fileVars, flood, sweep, hook, writes, obsVars>>

\* A process that ends, or is about to (the release comes last), takes its sweep and
\* its flushes with it.
Ends(gs) ==
    /\ sweep' = [g \in Gateways |-> IF g \in gs THEN Idle ELSE sweep[g]]
    /\ flush' = [n \in Turns |->
         IF flush[n].by \in gs
         THEN [phase |-> IF flush[n].phase = "failed" THEN "failed" ELSE "done", by |-> None]
         ELSE flush[n]]
    /\ mishap' = mishap \cup {sweep[g].cur : g \in {h \in gs : sweep[h].landed}}
                        \cup {n \in Turns : flush[n].by \in gs /\ flush[n].phase = "landed"}
    /\ UNCHANGED <<fileVars, flood, hook, writes, posts, owed>>

\* Mutant: the lock is released while the process still sweeps and flushes.
MutexStepReleasesEarly(g) ==
    \/ (Boot(g) \/ Acquire(g) \/ FallBack(g) \/ ClearAndExit(g) \/ Release(g)) /\ UNCHANGED outboxVars
    \/ Crash(g) /\ Ends({g})

MutexStep(g) ==
    \/ (Boot(g) \/ Acquire(g) \/ FallBack(g) \/ ClearAndExit(g)) /\ UNCHANGED outboxVars
    \/ (Release(g) \/ Crash(g)) /\ Ends({g})

Next ==
    \/ \E g \in Gateways :
         MutexStep(g) \/ SweepStart(g) \/ SweepRecord(g) \/ SweepLands(g) \/ SweepAck(g) \/ SweepFails(g)
    \/ ContainerRestart /\ Ends(Gateways)
    \/ \E n \in Turns :
         \/ HookCheck(n) \/ HookWrite(n) \/ FlushLands(n) \/ FlushAck(n) \/ FlushFails(n)
         \/ DedupEvicts(n)
         \/ \E g \in Gateways : FlushStart(g, n)
    \/ \E n \in Floods : FloodQueue(n)
    \/ \E n \in Nonces : Ages(n)
    \/ FloodCloses

Spec == Init /\ [][Next]_vars

\* The supervisor restarts a gateway that is down, file system calls return, the tick
\* fires every 5 s, the retry policy ends every send, flood windows close.
Fairness ==
    /\ WF_vars(\E g \in Gateways : Boot(g) /\ UNCHANGED outboxVars)
    /\ \A g \in Gateways :
         /\ WF_vars(Acquire(g) /\ UNCHANGED outboxVars)
         /\ WF_vars(SweepStart(g)) /\ WF_vars(SweepRecord(g))
         /\ WF_vars(SweepLands(g)) /\ WF_vars(SweepAck(g))
    /\ \A n \in Nonces : WF_vars(Ages(n))
    /\ WF_vars(FloodCloses)

FairSpec == Spec /\ Fairness

-----------------------------------------------------------------------------
(* Properties                                                              *)

\* Well-formed files, sweeps and flushes, and only an owner of the lock sends: what
\* shutdown leaves under way ends with the process.
OutboxTypeOK ==
    /\ MutexTypeOK
    /\ json \in [Nonces -> Absent..Old] /\ sending \in [Nonces -> Absent..Old]
    /\ journal \subseteq Nonces /\ flood \in BOOLEAN
    /\ sweep \in [Gateways -> [todo : SUBSET Nonces, seen : SUBSET Nonces,
                               cur : Nonces \cup {None}, landed : BOOLEAN]]
    /\ flush \in [Turns -> [phase : {"none", "send", "landed", "done", "failed"},
                            by : Gateways \cup {None}]]
    /\ hook \subseteq Turns
    /\ writes \in [Nonces -> 0..MaxWrites]
    /\ posts \in [Nonces -> 0..2] /\ owed \subseteq Nonces /\ mishap \subseteq Nonces
    /\ \A g \in Gateways \ holders : sweep[g].todo = {} /\ sweep[g].cur = None
    /\ \A n \in Turns : flush[n].by \in holders \cup {None}

Answered(n)    == \E m \in SameText(n) : posts[m] > 0
FlushFailed(n) == \E m \in Turns \cap SameText(n) : flush[m].phase = "failed"

(* A captured answer for the user whose text Telegram has never accepted is *)
(* on disk, pending or claimed, whatever crashes, failed sends, reclaims,   *)
(* sweeps and second gateways did to its files, unless a flush of that text *)
(* failed: the flush enters it into outboundDedup all the same              *)
(* (stream-render.ts:2617), and a sweep of the next minute then journals    *)
(* and deletes the record (outbox-sweep.ts:400).                            *)
NeverLost ==
    \A n \in Nonces \ Withheld :
        writes[n] > 0 => OnDisk(n) \/ Answered(n) \/ FlushFailed(n)

(* A nonce is posted twice only if a delivery of it was cut between landing *)
(* and its journal entry (crash, lost acknowledgement, failed append), if   *)
(* the flush and the sweep were sending it at the same time, if the hook    *)
(* wrote the record after a delivery its check had not seen, or after the   *)
(* startup mutex was breached: in every other history the rename claim, the *)
(* journal and the single-flight sweep deliver it once.                     *)
PostedOnce ==
    \A n \in Nonces : posts[n] > 1 => n \in mishap \/ breached

(* The text of every captured answer that has a chat is eventually posted,  *)
(* with the same exception of a failed flush.                               *)
EventuallyPosted ==
    \A n \in Nonces \ (Withheld \cup Unroutable) :
        writes[n] > 0 ~> Answered(n) \/ FlushFailed(n)

(* "a flood-blocked reply is QUEUED, never discarded"                       *)
(* (outbound-send-path.ts:2222): a reply reported as queued stays on disk   *)
(* until it has been posted.                                                *)
QueuedRepliesKept ==
    \A n \in Floods : n \in owed => OnDisk(n)

=============================================================================
