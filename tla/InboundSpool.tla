---------------------------- MODULE InboundSpool ----------------------------
(***************************************************************************)
(* The durable spool of undelivered inbound messages                       *)
(* (telegram-plugin/gateway/inbound-spool.ts).                             *)
(*                                                                         *)
(* The gateway keeps `live`, an in-memory map from spool id to the un-acked*)
(* entry, and mirrors every change as one JSONL record appended to a file  *)
(* that survives the process.  The file is represented by what hydrate()   *)
(* would rebuild from it: `disk` and `escDisk` are the fold of the lines   *)
(* that parse, `torn` says that the last line has no newline, and `lines`  *)
(* stands for the size that triggers compaction.                           *)
(*                                                                         *)
(* The gateway is one thread, so an operation is atomic for its callers,   *)
(* but a crash can fall between two records of one operation: the          *)
(* multi-record operations (sweepEscalations, dropMatching) run as a `job` *)
(* whose steps no other operation interleaves with and a Crash may cut.    *)
(***************************************************************************)
EXTENDS Integers, FiniteSets

CONSTANTS
    Ids,             \* spool ids (spoolId): the logical identity of an inbound
    Chats,           \* (chat, thread) keys of escChatKey
    ChatOf,          \* [Ids -> Chats]
    Briefings,       \* ids whose source is boot_briefing
    EscalateAfter,   \* escalateAfterMs
    NoticeCooldown,  \* escalateNoticeCooldownMs
    CompactAt,       \* compactAtBytes, in records
    Outcomes,        \* what one appendRecord may do, a subset of AppendOutcome
    NoticeSends,     \* whether a notice may get through (TRUE), or not (FALSE)
    MaxFaults,       \* bound: failed appends in a behaviour
    MaxCrashes,      \* bound: process deaths in a behaviour
    MaxVersion,      \* bound: payload refreshes of a briefing
    MaxTime          \* bound: the clock

NULL == -1
AppendOutcome == {"ok", "unsynced", "lost", "torn"}

ASSUME SpoolAssumption ==
    /\ IsFiniteSet(Ids) /\ IsFiniteSet(Chats)
    /\ ChatOf \in [Ids -> Chats]
    /\ Briefings \subseteq Ids
    /\ EscalateAfter \in Nat /\ NoticeCooldown \in Nat /\ CompactAt \in Nat
    /\ Outcomes \subseteq AppendOutcome /\ NoticeSends \subseteq BOOLEAN
    /\ MaxFaults \in Nat /\ MaxCrashes \in Nat /\ MaxVersion \in Nat /\ MaxTime \in Nat

VARIABLES
    now,       \* the injected clock
    live,      \* live: id -> entry (Absent when the id is not live)
    esc,       \* escAttemptByChat: chat -> last escalation attempt
    degraded,  \* the latched durability health signal
    disk,      \* the entries hydrate() would rebuild from the file
    escDisk,   \* the attempt times hydrate() would rebuild
    torn,      \* the last line of the file has no newline
    lines,     \* records in the file, the measure of its size
    job,       \* the multi-record operation in progress
    due,       \* its entries still to be dropped
    cur,       \* the entry tombstoned whose onEscalate is still to run
    win,       \* its chat's window has slid: the notice onEscalate posts, or none
    \* observation only
    lastDrop,   \* chat -> when an entry of it was last escalated
    burst,      \* chat -> when one was after a cooldown without any
    lastNotice, \* chat -> when the last "couldn't deliver" notice was sent
    unheard,    \* chats whose last notice did not get through
    synced,     \* ids whose last put record was fsynced as a line of its own
    faults,     \* failed appends so far
    crashes     \* process deaths so far

fileVars  == <<disk, escDisk, torn, lines>>
memVars   == <<live, esc, degraded>>
jobVars   == <<job, due, cur, win>>
tellVars  == <<lastDrop, burst, lastNotice, unheard>>
obsVars   == <<tellVars, synced, faults, crashes>>
spoolVars == <<now, memVars, fileVars, jobVars, obsVars>>

Entry  == [firstAt : Int, ver : Nat]
Absent == [firstAt |-> NULL, ver |-> 0]

IsLive(id)   == live[id].firstAt # NULL
LiveIds      == {id \in Ids : live[id].firstAt # NULL}
OnDisk(id)   == disk[id].firstAt # NULL

-----------------------------------------------------------------------------
(* The file.                                                               *)

\* A complete record glued to a torn tail makes one line that does not parse.
Landed(out) == out \in {"ok", "unsynced"} /\ ~torn

TornAfter(out) == out = "torn" \/ (out = "lost" /\ torn)

\* Saturates past the bound: only lines > CompactAt is ever read.
LinesAfter(out) == IF out = "lost" \/ lines > CompactAt THEN lines ELSE lines + 1

\* The health latch of appendRecord: set by a failure, cleared by a success.
Health(out) ==
    /\ faults + (IF out = "ok" THEN 0 ELSE 1) <= MaxFaults
    /\ faults' = faults + (IF out = "ok" THEN 0 ELSE 1)
    /\ degraded' = (out # "ok")

\* Variant: a compaction that rewrites the entries and forgets the esc records.
SettleForgetsEsc(D, X, t, n, cmp) ==
    IF n > CompactAt /\ cmp
    THEN /\ disk' = live' /\ escDisk' = [c \in Chats |-> NULL] /\ torn' = FALSE
         /\ lines' = Cardinality({id \in Ids : live'[id].firstAt # NULL})
    ELSE /\ disk' = D /\ escDisk' = X /\ torn' = t /\ lines' = n

\* Variant: the log is rewritten before the entry has entered the map.
SettleTooEarly(D, X, t, n, cmp) ==
    IF n > CompactAt /\ cmp
    THEN /\ disk' = live /\ escDisk' = esc /\ torn' = FALSE
         /\ lines' = Cardinality({id \in Ids : IsLive(id)})
                      + Cardinality({c \in Chats : esc[c] # NULL})
    ELSE /\ disk' = D /\ escDisk' = X /\ torn' = t /\ lines' = n

\* maybeCompact: past the size bound the file is rewritten from memory and
\* renamed into place; when the rewrite fails (cmp is FALSE) the log stays.
Settle(D, X, t, n, cmp) ==
    IF n > CompactAt /\ cmp
    THEN /\ disk' = live' /\ escDisk' = esc' /\ torn' = FALSE
         /\ lines' = Cardinality({id \in Ids : live'[id].firstAt # NULL})
                      + Cardinality({c \in Chats : esc'[c] # NULL})
    ELSE /\ disk' = D /\ escDisk' = X /\ torn' = t /\ lines' = n

\* appendRecord of a put or an ack: afterwards the file holds e under id.
Recorded(id, e, out) ==
    IF Landed(out) THEN [disk EXCEPT ![id] = e] ELSE disk

-----------------------------------------------------------------------------
(* Operations.                                                             *)

SpoolInit ==
    /\ now = 0
    /\ live = [id \in Ids |-> Absent] /\ esc = [c \in Chats |-> NULL]
    /\ degraded = FALSE
    /\ disk = [id \in Ids |-> Absent] /\ escDisk = [c \in Chats |-> NULL]
    /\ torn = FALSE /\ lines = 0
    /\ job = "none" /\ due = {} /\ cur = {} /\ win = "none"
    /\ lastDrop = [c \in Chats |-> NULL] /\ burst = [c \in Chats |-> NULL]
    /\ lastNotice = [c \in Chats |-> NULL] /\ unheard = {} /\ synced = {}
    /\ faults = 0 /\ crashes = 0

\* Variant: a refresh that restarts the escalation clock.
PutEntryResetsClock(id) ==
    [firstAt |-> now, ver |-> IF IsLive(id) THEN live[id].ver + 1 ELSE 0]

\* The record a put writes: a fresh entry, or, for a live briefing, the fresher
\* payload under the original firstAt.
PutEntry(id) ==
    IF IsLive(id) THEN [live[id] EXCEPT !.ver = @ + 1]
    ELSE [firstAt |-> now, ver |-> 0]

\* put of an id that is not live, or a refresh of a live briefing.
PutRecord(id, out, cmp) ==
    /\ IsLive(id) => id \in Briefings /\ live[id].ver < MaxVersion
    /\ live' = [live EXCEPT ![id] = PutEntry(id)]
    /\ Health(out)
    /\ synced' = IF out = "ok" /\ ~torn THEN synced \cup {id} ELSE synced \ {id}
    /\ UNCHANGED esc
    /\ Settle(Recorded(id, PutEntry(id), out), escDisk, TornAfter(out), LinesAfter(out), cmp)

\* put of an id that is already live and is no briefing: a no-op.
PutDuplicate(id) ==
    /\ IsLive(id) /\ id \notin Briefings
    /\ UNCHANGED <<memVars, fileVars, synced, faults>>

SpoolPut(id, out, cmp) == PutRecord(id, out, cmp) \/ PutDuplicate(id)

\* ack of a live id: delete it and append its tombstone.
AckRecord(id, out, cmp) ==
    /\ IsLive(id)
    /\ live' = [live EXCEPT ![id] = Absent]
    /\ Health(out)
    /\ synced' = synced \ {id}
    /\ UNCHANGED esc
    /\ Settle(Recorded(id, Absent, out), escDisk, TornAfter(out), LinesAfter(out), cmp)

\* ack of an unknown id: a no-op.
AckUnknown(id) ==
    /\ ~IsLive(id)
    /\ UNCHANGED <<memVars, fileVars, synced, faults>>

SpoolAck(id, out, cmp) == AckRecord(id, out, cmp) \/ AckUnknown(id)

Put(id, out, cmp) ==
    /\ job = "none"
    /\ SpoolPut(id, out, cmp)
    /\ UNCHANGED <<now, jobVars, tellVars, crashes>>

Ack(id, out, cmp) ==
    /\ job = "none"
    /\ SpoolAck(id, out, cmp)
    /\ UNCHANGED <<now, jobVars, tellVars, crashes>>

\* Variant: a loop that never leaves its job.
JobDoneNever(rest) ==
    /\ due' = rest
    /\ job' = job

\* A job ends, and only then compacts, when its last entry has been dropped.
JobDone(rest) ==
    /\ due' = rest
    /\ job' = IF rest = {} THEN "none" ELSE job

\* dropMatching: the entries whose id the caller's predicate selects.
DropStart(S) ==
    /\ job = "none" /\ S # {} /\ S \subseteq LiveIds
    /\ job' = "drop" /\ due' = S
    /\ UNCHANGED <<now, memVars, fileVars, cur, win, obsVars>>

DropStep(id, out, cmp) ==
    /\ job = "drop" /\ id \in due
    /\ live' = [live EXCEPT ![id] = Absent]
    /\ Health(out)
    /\ synced' = synced \ {id}
    /\ JobDone(due \ {id})
    /\ UNCHANGED esc
    /\ Settle(Recorded(id, Absent, out), escDisk, TornAfter(out), LinesAfter(out),
              cmp /\ due = {id})
    /\ UNCHANGED <<now, cur, win, tellVars, crashes>>

\* sweepEscalations, first pass: the entries as old as escalateAfterMs.
Expired == {id \in LiveIds : live[id].firstAt <= now - EscalateAfter}

SweepStart ==
    /\ job = "none" /\ Expired # {}
    /\ job' = "sweep" /\ due' = Expired
    /\ UNCHANGED <<now, memVars, fileVars, cur, win, obsVars>>

\* What an observer of the chat's retractions notes.
Dropped(c) ==
    /\ lastDrop' = [lastDrop EXCEPT ![c] = now]
    /\ burst' = IF lastDrop[c] = NULL \/ now - lastDrop[c] >= NoticeCooldown
                THEN [burst EXCEPT ![c] = now] ELSE burst

\* Second pass, one entry: delete it and append its tombstone ...
SweepTombstone(id, out) ==
    /\ job = "sweep" /\ cur = {} /\ id \in due
    /\ live' = [live EXCEPT ![id] = Absent]
    /\ Health(out)
    /\ synced' = synced \ {id}
    /\ cur' = {id}
    /\ UNCHANGED esc
    /\ Settle(Recorded(id, Absent, out), escDisk, TornAfter(out), LinesAfter(out), FALSE)
    /\ Dropped(ChatOf[id])
    /\ UNCHANGED <<now, job, due, win, lastNotice, unheard, crashes>>

\* Variant: a notice only when the quiet was longer than the cooldown.
PostNoticeTooLate(c) == esc[c] = NULL \/ now - esc[c] > NoticeCooldown

\* The notice is due only when the chat's last attempt is a full cooldown ago.
PostNotice(c) == esc[c] = NULL \/ now - esc[c] >= NoticeCooldown

\* ... then slide the chat's window and append it ...
SweepWindow(id, out) ==
    LET c == ChatOf[id] IN
    /\ job = "sweep" /\ cur = {id} /\ win = "none"
    /\ win' = IF PostNotice(c) THEN "post" ELSE "quiet"
    /\ esc' = [esc EXCEPT ![c] = now]
    /\ Health(out)
    /\ UNCHANGED live
    /\ Settle(disk, IF Landed(out) THEN [escDisk EXCEPT ![c] = now] ELSE escDisk,
              TornAfter(out), LinesAfter(out), FALSE)
    /\ UNCHANGED <<now, job, due, cur, tellVars, synced, crashes>>

\* ... and run onEscalate, which sends the notice and does not wait for it: sent
\* says whether it gets through.  After its last entry the sweep compacts.
SweepNotice(id, sent, cmp) ==
    LET c == ChatOf[id] IN
    /\ job = "sweep" /\ cur = {id} /\ win # "none"
    /\ IF win = "quiet" THEN UNCHANGED <<lastNotice, unheard>>
       ELSE /\ lastNotice' = IF sent THEN [lastNotice EXCEPT ![c] = now] ELSE lastNotice
            /\ unheard' = IF sent THEN unheard \ {c} ELSE unheard \cup {c}
    /\ cur' = {} /\ win' = "none"
    /\ JobDone(due \ {id})
    /\ UNCHANGED <<memVars, faults>>
    /\ Settle(disk, escDisk, torn, lines, cmp /\ due = {id})
    /\ UNCHANGED <<now, lastDrop, burst, synced, crashes>>

\* The chat of the entry in hand is about to get its notice.
NoticeOwed(c) ==
    \E id \in cur : ChatOf[id] = c /\ (win = "post" \/ (win = "none" /\ PostNotice(c)))

\* The process dies; createInboundSpool's hydrate() rebuilds memory from the file.
SpoolCrash ==
    /\ crashes < MaxCrashes
    /\ crashes' = crashes + 1
    /\ live' = disk /\ esc' = escDisk /\ degraded' = FALSE
    /\ job' = "none" /\ due' = {} /\ cur' = {} /\ win' = "none"
    /\ unheard' = unheard \cup {c \in Chats : NoticeOwed(c)}
    /\ UNCHANGED <<now, fileVars, lastDrop, burst, lastNotice, synced, faults>>

Tick ==
    /\ job = "none" /\ now < MaxTime
    /\ now' = now + 1
    /\ UNCHANGED <<memVars, fileVars, jobVars, obsVars>>

Next ==
    \/ \E id \in Ids, out \in Outcomes, cmp \in BOOLEAN :
         \/ Put(id, out, cmp)
         \/ Ack(id, out, cmp)
         \/ DropStep(id, out, cmp)
    \/ \E id \in Ids, out \in Outcomes : SweepTombstone(id, out) \/ SweepWindow(id, out)
    \/ \E id \in Ids, sent \in NoticeSends, cmp \in BOOLEAN : SweepNotice(id, sent, cmp)
    \/ \E S \in SUBSET Ids : DropStart(S)
    \/ SweepStart
    \/ SpoolCrash
    \/ Tick

Spec == SpoolInit /\ [][Next]_spoolVars

-----------------------------------------------------------------------------
(* Properties.                                                             *)

\* Every variable of the spool keeps its type; a job has entries to drop, and
\* an entry awaiting onEscalate only while a sweep runs.
TypeOK ==
    /\ now \in Nat
    /\ live \in [Ids -> Entry] /\ disk \in [Ids -> Entry]
    /\ esc \in [Chats -> Int] /\ escDisk \in [Chats -> Int]
    /\ degraded \in BOOLEAN /\ torn \in BOOLEAN /\ lines \in Nat
    /\ job \in {"none", "drop", "sweep"} /\ due \in SUBSET Ids /\ cur \in SUBSET Ids
    /\ cur \subseteq due /\ (cur # {} => job = "sweep") /\ (job = "none" <=> due = {})
    /\ win \in {"none", "post", "quiet"} /\ (win # "none" => cur # {})
    /\ lastDrop \in [Chats -> Int] /\ burst \in [Chats -> Int]
    /\ lastNotice \in [Chats -> Int] /\ unheard \in SUBSET Chats /\ synced \in SUBSET Ids
    /\ faults \in 0..MaxFaults /\ crashes \in 0..MaxCrashes

\* As long as no append has failed, the file says exactly what memory says after
\* every record, so a crash at any point (also between two records of a sweep,
\* also right after a compaction) loses no un-acked entry, resurrects none and
\* keeps the notice window.
CrashLosesNothing == faults = 0 => disk = live /\ escDisk = esc

\* The escalation clock of an un-acked entry is never restarted: neither a
\* duplicate put, a refreshed briefing, a compaction nor a restart moves firstAt.
ClockStep ==
    faults = 0 => \A id \in Ids : IsLive(id) /\ live'[id].firstAt # NULL
                                  => live'[id].firstAt = live[id].firstAt
EscalationClockKept == [][ClockStep]_spoolVars

\* Two "couldn't deliver" notices of one chat are at least a cooldown apart,
\* whatever restarts and compactions happen between the two sweeps.
NoticeStep ==
    faults = 0 => \A c \in Chats : lastNotice'[c] # lastNotice[c] /\ lastNotice[c] # NULL
                                   => lastNotice'[c] - lastNotice[c] >= NoticeCooldown
NoticeSpacing == [][NoticeStep]_spoolVars

\* No burst of retractions is silent: since the last of a chat's escalations that
\* followed a cooldown of quiet, across restarts, lost window records and
\* compactions, the chat has been sent a notice that got through, except where
\* Telegram refused it or the process died before onEscalate had sent it.
BurstAnnounced ==
    \A c \in Chats : \/ burst[c] = NULL \/ lastNotice[c] >= burst[c]
                     \/ c \in unheard \/ NoticeOwed(c)

\* A put whose record was appended and fsynced, to a file that ended in a newline,
\* stays on disk until its entry is acked, dropped or retracted, whatever happens to
\* other records: failed, torn and joined lines, compactions that fail or succeed,
\* and crashes.  ("The record survives the process dying", appendRecord; a record
\* appended to a torn line does not, and is exempt.)
SyncedPutSurvives == \A id \in synced : OnDisk(id)
=============================================================================
