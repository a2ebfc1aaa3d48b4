------------------------------ MODULE Scheduler ------------------------------
(***************************************************************************)
(* The agent scheduler (src/agent-scheduler/index.ts with replay.ts, and   *)
(* src/scheduler/poll-state.ts): the process beside the agent that fires   *)
(* its cron entries into the gateway, catches up after a restart, and      *)
(* polls feeds.                                                            *)
(*                                                                         *)
(* One schedule entry, of any kind: the entries share nothing but the      *)
(* connection and the text of the skip notice.  Polls and actions are the  *)
(* cheap-cron ones (SWITCHROOM_CHEAP_CRON is on).  Time is counted in      *)
(* ticks, a fixed number of them a minute; cron fires on whole minutes.    *)
(*                                                                         *)
(* JavaScript runs a synchronous stretch to its end, but the process can   *)
(* be killed inside it: what is still to do of such a stretch is job, and  *)
(* while there is a job only a kill or the outside world can move.         *)
(***************************************************************************)
EXTENDS Integers, FiniteSets

CONSTANTS
    LastDue,        \* LastDue[t]: the latest time up to t that cronMatchesDate accepts
    Minute,         \* ticks per minute
    Tolerance,      \* AUDIT_TOLERANCE_MS, in ticks
    Window,         \* the replay window, in ticks
    StaleMax,       \* STALE_LOOKBACK_MAX_MIN, in ticks
    MaxAttempts,    \* maxQuotaDeferAttempts
    MaxTime,        \* bound: the clock
    MaxFeed,        \* bound: items the polled feed ever shows
    MaxStops        \* bound: kills and shutdowns of the scheduler

NULL  == -1
Time  == 0..MaxTime
Items == 1..MaxFeed
Kinds == {"prompt", "poll", "action"}

ASSUME SchedulerAssumption ==
    /\ Minute \in Nat \ {0} /\ Tolerance \in Nat /\ Window \in Nat /\ StaleMax \in Nat
    /\ MaxAttempts \in Nat /\ MaxTime \in Nat /\ MaxFeed \in Nat /\ MaxStops \in Nat
    /\ LastDue \in [Time -> Time \cup {NULL}]
    /\ \A t \in Time : LastDue[t] <= t
    /\ \A t, u \in Time : u <= t /\ LastDue[u] = u => u <= LastDue[t]

VARIABLES
    kind,       \* the entry's kind
    now,
    \* the process
    phase,      \* "down", "waiting" for the gateway, "replay", "recover", "register", "up"
    scan,       \* when this boot read the audit log
    clean,      \* this boot has told the gateway all it found
    missed,     \* the fire to replay, or NULL
    stale,      \* the fire to announce as skipped, or NULL
    conn,       \* the IPC client is connected to the gateway
    timers,     \* due cron callbacks (n = 0) and armed quota retries (n > 0)
    polls,      \* polls between reading the cursor and their answer
    job,        \* the rest of the synchronous stretch that is running
    \* disk
    rows,       \* scheduler.jsonl: startedAt of the rows with exit code 0
    cursor,     \* poll-state.json: the cursor, NULL before the first run ...
    pending,    \* ... and the items its pendingEscalation speaks of
    \* outside
    feed,       \* items the polled feed shows
    stops,
    \* observation only
    told,       \* the latest time the gateway took a fire or a notice
    settled,    \* the latest scan a boot has dealt with completely
    acted,      \* fire -> how often its action was performed, up to two
    seen,       \* items some poll has moved the cursor over
    sent,       \* item -> how many escalations the gateway got, up to two
    refused,    \* items an escalation of which was refused
    excused     \* items that may be escalated again: a kill between the
                \* dispatch and the clear, or a poll with an outdated cursor

boot    == <<scan, clean, missed, stale>>
process == <<boot, conn, timers, polls, job, phase>>
disk    == <<rows, cursor, pending>>
outside == <<kind, feed, stops>>
answers == <<told, settled, acted>>
leads   == <<seen, sent, refused, excused>>
vars    == <<now, process, disk, outside, answers, leads>>

Timer == [fire : Time, n : Nat]
Poll  == [fire : Time, at : Time, prev : {NULL} \cup 0..MaxFeed, saw : 0..MaxFeed]
NoJob == [do |-> "nothing", at |-> 0, items |-> {}]
Job   == {NoJob} \cup [do : {"escalate", "clear", "row"}, at : Time, items : SUBSET Items]

Due(t) == LastDue[t] = t
Row(t) == [do |-> "row", at |-> t, items |-> {}]
Bumped(f, S) == [x \in DOMAIN f |-> IF x \in S /\ f[x] < 2 THEN f[x] + 1 ELSE f[x]]
Larger(a, b) == IF a < b THEN b ELSE a

Init ==
    /\ kind \in Kinds /\ now = 0
    /\ phase = "down" /\ conn = FALSE
    /\ scan = 0 /\ clean = FALSE /\ missed = NULL /\ stale = NULL
    /\ timers = {} /\ polls = {} /\ job = NoJob
    /\ rows = {} /\ cursor = NULL /\ pending = {}
    /\ feed = 0 /\ stops = 0
    /\ told = NULL /\ settled = NULL /\ acted = [t \in Time |-> 0]
    /\ seen = {} /\ sent = [i \in Items |-> 0] /\ refused = {} /\ excused = {}

-----------------------------------------------------------------------------
(* What a write to the gateway's socket can come to: taken, if there is a  *)
(* connection; or not taken, always possible, and then it is counted as    *)
(* refused even if write() only answered FALSE because its buffer is full. *)

Taken == conn

-----------------------------------------------------------------------------
(* Boot (main).                                                            *)

MinuteOf(t) == t - (t % Minute)
LastMatch(t) == IF t < 0 THEN NULL ELSE LastDue[t]

\* findMissedFires: the latest match inside the window, unless a successful row
\* lies within the tolerance of it.
MissedFire(t) ==
    LET c == LastMatch(t) IN
    IF /\ c # NULL /\ MinuteOf(t) - Window < c
       /\ \A r \in rows : ~(c - Tolerance <= r /\ r <= c + Tolerance)
    THEN c ELSE NULL

\* Variant: the scan for skipped runs begins a minute further back.
StaleFireGap(t) ==
    LET c == LastMatch(MinuteOf(t) - Window - Minute) IN
    IF /\ Window < StaleMax
       /\ c # NULL /\ MinuteOf(t) - StaleMax < c
       /\ \A r \in rows : r < c - Tolerance
    THEN c ELSE NULL

\* findStaleSkippedFires: the latest match before the window and within the
\* lookback, unless a successful row is not older than it.
StaleFire(t) ==
    LET c == LastMatch(MinuteOf(t) - Window) IN
    IF /\ Window < StaleMax
       /\ c # NULL /\ MinuteOf(t) - StaleMax < c
       /\ \A r \in rows : r < c - Tolerance
    THEN c ELSE NULL

\* The start of main: lock, config, audit log.  The IPC client begins to connect
\* only when main first yields, which it does if there is something to replay or
\* to announce.
Boot ==
    /\ phase = "down"
    /\ scan' = now /\ clean' = TRUE
    /\ missed' = MissedFire(now) /\ stale' = StaleFire(now)
    /\ phase' = IF missed' = NULL /\ stale' = NULL THEN "recover" ELSE "waiting"
    /\ UNCHANGED <<now, conn, timers, polls, job, disk, outside, answers, leads>>

\* waitForConnect finds the gateway in time ...
Connected ==
    /\ phase = "waiting"
    /\ conn' = TRUE /\ phase' = "replay"
    /\ UNCHANGED <<now, boot, timers, polls, job, disk, outside, answers, leads>>

\* ... or gives up: "skipping this boot".
NotConnected ==
    /\ phase = "waiting"
    /\ clean' = FALSE /\ missed' = NULL /\ stale' = NULL /\ phase' = "recover"
    /\ UNCHANGED <<now, scan, conn, timers, polls, job, disk, outside, answers, leads>>

\* The replay of a missed prompt, and the row of it; its startedAt is the time of
\* the replay.
ReplayPrompt ==
    /\ phase = "replay" /\ job = NoJob /\ missed # NULL /\ kind = "prompt"
    /\ missed' = NULL
    /\ \/ Taken /\ told' = now /\ job' = Row(now) /\ UNCHANGED clean
       \/ clean' = FALSE /\ UNCHANGED <<told, job>>
    /\ UNCHANGED <<now, phase, scan, stale, conn, timers, polls, disk, outside,
                   settled, acted, leads>>

\* Variant: a missed action is performed on return.
SkipReplayActs ==
    /\ phase = "replay" /\ job = NoJob /\ missed # NULL /\ kind # "prompt"
    /\ missed' = NULL /\ job' = Row(now)
    /\ acted' = IF kind = "action" THEN Bumped(acted, {missed}) ELSE acted
    /\ UNCHANGED <<now, phase, scan, clean, stale, conn, timers, polls, disk, outside,
                   told, settled, leads>>

\* Missed polls and actions are not replayed; a successful row says so.
SkipReplay ==
    /\ phase = "replay" /\ job = NoJob /\ missed # NULL /\ kind # "prompt"
    /\ missed' = NULL /\ job' = Row(now)
    /\ UNCHANGED <<now, phase, scan, clean, stale, conn, timers, polls, disk, outside,
                   answers, leads>>

\* The skip notice, and the sentinel row once it is delivered.
Notice ==
    /\ phase = "replay" /\ job = NoJob /\ missed = NULL /\ stale # NULL
    /\ stale' = NULL
    /\ \/ Taken /\ told' = now /\ job' = Row(stale) /\ UNCHANGED clean
       \/ clean' = FALSE /\ UNCHANGED <<told, job>>
    /\ UNCHANGED <<now, phase, scan, missed, conn, timers, polls, disk, outside,
                   settled, acted, leads>>

\* Variant: the stage is cleared before its escalation is dispatched.
RecoverClearsFirst ==
    /\ \/ phase = "replay" /\ missed = NULL /\ stale = NULL
       \/ phase = "recover"
    /\ job = NoJob
    /\ phase' = "register"
    /\ pending' = {}
    /\ job' = IF kind = "poll" /\ pending # {}
              THEN [do |-> "escalate", at |-> now, items |-> pending] ELSE NoJob
    /\ UNCHANGED <<now, boot, conn, timers, polls, rows, cursor, outside, answers, leads>>

\* recoverPendingEscalations picks up what a poll staged and did not clear.
Recover ==
    /\ \/ phase = "replay" /\ missed = NULL /\ stale = NULL
       \/ phase = "recover"
    /\ job = NoJob
    /\ phase' = "register"
    /\ job' = IF kind = "poll" /\ pending # {}
              THEN [do |-> "escalate", at |-> now, items |-> pending] ELSE NoJob
    /\ UNCHANGED <<now, boot, conn, timers, polls, disk, outside, answers, leads>>

\* registerAgentSchedule: the live loop.
Register ==
    /\ phase = "register" /\ job = NoJob
    /\ phase' = "up"
    /\ settled' = IF clean THEN scan ELSE settled
    /\ UNCHANGED <<now, boot, conn, timers, polls, job, disk, outside, told, acted, leads>>

-----------------------------------------------------------------------------
(* The live loop (attemptFire).                                            *)

Running(t) == phase = "up" /\ job = NoJob /\ t \in timers

\* startedAt, taken before the await of the quota gate: the tick itself, or any
\* time since for a retry.
Started(t) == {u \in Time : t.fire <= u /\ u <= now /\ (t.n = 0 => u = t.fire)}

\* The quota gate, awaited while t stands in timers, defers: a bounded chain of
\* retries, no successful row.
Defer(t) ==
    /\ Running(t)
    /\ timers' = (timers \ {t}) \cup
                 (IF t.n + 1 < MaxAttempts THEN {[fire |-> t.fire, n |-> t.n + 1]} ELSE {})
    /\ UNCHANGED <<now, phase, boot, conn, polls, job, disk, outside, answers, leads>>

\* A model fire.
FirePrompt(t) ==
    /\ Running(t) /\ kind = "prompt"
    /\ timers' = timers \ {t}
    /\ \/ Taken /\ told' = now /\ \E u \in Started(t) : job' = Row(u)
       \/ UNCHANGED <<told, job>>
    /\ UNCHANGED <<now, phase, boot, conn, polls, disk, outside, settled, acted, leads>>

\* A model-free action; one that reports an error may still have been performed.
FireAction(t) ==
    /\ Running(t) /\ kind = "action"
    /\ timers' = timers \ {t}
    /\ \/ acted' = Bumped(acted, {t.fire}) /\ job' \in {NoJob} \cup {Row(u) : u \in Started(t)}
       \/ acted' = acted /\ job' = NoJob
    /\ UNCHANGED <<now, phase, boot, conn, polls, disk, outside, told, settled, leads>>

\* A poll reads the cursor and then awaits the feed.
StartPoll(t) ==
    /\ Running(t) /\ kind = "poll"
    /\ timers' = timers \ {t}
    /\ \E u \in Started(t) :
          polls' = polls \cup {[fire |-> t.fire, at |-> u, prev |-> cursor, saw |-> feed]}
    /\ UNCHANGED <<now, phase, boot, conn, job, disk, outside, answers, leads>>

Awaiting(p) == phase = "up" /\ job = NoJob /\ p \in polls

\* An error: no row counts it, the next tick polls again.
PollError(p) ==
    /\ Awaiting(p)
    /\ polls' = polls \ {p}
    /\ UNCHANGED <<now, phase, boot, conn, timers, job, disk, outside, answers, leads>>

\* The first answer ever is the baseline.
PollBaseline(p, v) ==
    /\ Awaiting(p) /\ p.prev = NULL
    /\ polls' = polls \ {p}
    /\ cursor' = v /\ pending' = {}
    /\ job' = Row(p.at)
    /\ excused' = excused \cup ((v + 1)..cursor)
    /\ UNCHANGED <<now, phase, boot, conn, timers, rows, outside, answers,
                   seen, sent, refused>>

\* HEARTBEAT_OK.
PollNoChange(p, v) ==
    /\ Awaiting(p) /\ p.prev # NULL /\ v <= p.prev
    /\ polls' = polls \ {p}
    /\ job' = Row(p.at)
    /\ UNCHANGED <<now, phase, boot, conn, timers, disk, outside, answers, leads>>

\* Variant: the escalation is staged and the cursor left where it was.
PollHitUnadvanced(p, v) ==
    LET items == (p.prev + 1)..v IN
    /\ Awaiting(p) /\ p.prev # NULL /\ p.prev < v
    /\ polls' = polls \ {p}
    /\ pending' = items
    /\ job' = [do |-> "escalate", at |-> p.at, items |-> items]
    /\ seen' = seen \cup items
    /\ UNCHANGED <<now, phase, boot, conn, timers, rows, cursor, outside, answers,
                   sent, refused, excused>>

\* Variant: the diff begins with the item the cursor stood on.
PollHitFromPrev(p, v) ==
    /\ Awaiting(p) /\ p.prev # NULL /\ p.prev < v
    /\ polls' = polls \ {p}
    /\ cursor' = v /\ pending' = p.prev..v
    /\ job' = [do |-> "escalate", at |-> p.at, items |-> p.prev..v]
    /\ seen' = seen \cup (p.prev..v)
    /\ UNCHANGED <<now, phase, boot, conn, timers, rows, outside, answers,
                   sent, refused, excused>>

\* A hit: writeAhead advances the cursor and stages the escalation in one write,
\* replacing whatever was staged.
PollHit(p, v) ==
    LET items == (p.prev + 1)..v IN
    /\ Awaiting(p) /\ p.prev # NULL /\ p.prev < v
    /\ polls' = polls \ {p}
    /\ cursor' = v /\ pending' = items
    /\ job' = [do |-> "escalate", at |-> p.at, items |-> items]
    /\ seen' = seen \cup items
    /\ excused' = IF p.prev = cursor THEN excused
                  ELSE excused \cup ((p.prev + 1)..Larger(v, cursor))
    /\ UNCHANGED <<now, phase, boot, conn, timers, rows, outside, answers, sent, refused>>

-----------------------------------------------------------------------------
(* The rest of a synchronous stretch.                                      *)

\* The staged escalation is dispatched.
Escalate ==
    /\ job.do = "escalate"
    /\ \/ /\ Taken
          /\ sent' = Bumped(sent, job.items)
          /\ job' = [job EXCEPT !.do = "clear"]
          /\ UNCHANGED refused
       \/ /\ sent' \in {sent} \cup (IF conn THEN {Bumped(sent, job.items)} ELSE {})
          /\ refused' = refused \cup job.items
          /\ job' = NoJob
    /\ UNCHANGED <<now, phase, boot, conn, timers, polls, disk, outside, answers,
                   seen, excused>>

\* clearPending, and the row that is recorded after it.
ClearPending ==
    /\ job.do = "clear"
    /\ pending' = {}
    /\ job' = Row(job.at)
    /\ UNCHANGED <<now, phase, boot, conn, timers, polls, rows, cursor, outside, answers, leads>>

\* recordFire with exit code 0.
RecordFire ==
    /\ job.do = "row"
    /\ rows' = rows \cup {job.at}
    /\ job' = NoJob
    /\ UNCHANGED <<now, phase, boot, conn, timers, polls, cursor, pending, outside, answers, leads>>

-----------------------------------------------------------------------------
(* Around the scheduler.                                                   *)

\* createScheduleReloader: another entry changed, so every task is stopped, its
\* retries with it, and registered again; polls on their way go on.
Reload ==
    /\ phase = "up" /\ job = NoJob
    /\ \E t \in timers : t.n > 0
    /\ timers' = {t \in timers : t.n = 0}
    /\ UNCHANGED <<now, phase, boot, conn, polls, job, disk, outside, answers, leads>>

\* A kill at any point, or a shutdown.
Stop ==
    /\ phase # "down" /\ stops < MaxStops
    /\ stops' = stops + 1
    /\ phase' = "down" /\ conn' = FALSE /\ timers' = {} /\ polls' = {} /\ job' = NoJob
    /\ missed' = NULL /\ stale' = NULL
    /\ excused' = IF job.do = "clear" THEN excused \cup job.items ELSE excused
    /\ UNCHANGED <<now, scan, clean, disk, kind, feed, answers, seen, sent, refused>>

\* The client reconnects, or its socket closes.
Link ==
    /\ phase = "up" /\ job = NoJob
    /\ conn' = ~conn
    /\ UNCHANGED <<now, phase, boot, timers, polls, job, disk, outside, answers, leads>>

FeedGrows ==
    /\ kind = "poll" /\ feed < MaxFeed
    /\ feed' = feed + 1
    /\ UNCHANGED <<now, process, disk, kind, stops, answers, leads>>

\* Time passes; node-cron runs a due callback within its minute, and the wait for
\* the gateway is shorter than a tick.
Tick ==
    /\ now < MaxTime /\ job = NoJob
    /\ phase \in {"down", "up"} \/ (phase = "waiting" /\ now = scan)
    /\ \A t \in timers : t.n > 0
    /\ now' = now + 1
    /\ timers' = IF phase = "up" /\ Due(now + 1)
                 THEN timers \cup {[fire |-> now + 1, n |-> 0]} ELSE timers
    /\ UNCHANGED <<phase, boot, conn, polls, job, disk, outside, answers, leads>>

Replay == ReplayPrompt \/ SkipReplay \/ Notice \/ Recover \/ Register
Attempt(t) == Defer(t) \/ FirePrompt(t) \/ FireAction(t) \/ StartPoll(t)
Polled(p) ==
    \/ PollError(p)
    \/ \E v \in p.saw..feed : PollBaseline(p, v) \/ PollNoChange(p, v) \/ PollHit(p, v)
Stretch == Escalate \/ ClearPending \/ RecordFire

Next ==
    \/ Boot \/ Connected \/ NotConnected \/ Replay
    \/ \E t \in timers : Attempt(t)
    \/ \E p \in polls : Polled(p)
    \/ Stretch
    \/ Reload \/ Stop \/ Link \/ FeedGrows \/ Tick

Spec == Init /\ [][Next]_vars

-----------------------------------------------------------------------------
(* Properties.                                                             *)

\* Types of the process, of its two files and of the observations.
SchedulerTypeOK ==
    /\ kind \in Kinds /\ now \in Time
    /\ phase \in {"down", "waiting", "replay", "recover", "register", "up"}
    /\ scan \in Time /\ clean \in BOOLEAN /\ conn \in BOOLEAN
    /\ missed \in Time \cup {NULL} /\ stale \in Time \cup {NULL}
    /\ timers \subseteq Timer /\ polls \subseteq Poll /\ job \in Job
    /\ rows \subseteq Time
    /\ cursor \in {NULL} \cup 0..MaxFeed /\ pending \subseteq Items
    /\ feed \in 0..MaxFeed /\ stops \in Nat
    /\ told \in Time \cup {NULL} /\ settled \in Time \cup {NULL}
    /\ acted \in [Time -> 0..2] /\ sent \in [Items -> 0..2]
    /\ seen \subseteq Items /\ refused \subseteq Items /\ excused \subseteq Items

\* "Fired on return or explicitly skipped, not silently dropped": once a boot has
\* handed the gateway all it found, for every run of a prompt that was due within
\* the lookback of that boot, whatever happened while the scheduler was down, in
\* earlier boots and to earlier deliveries, that run or a later one (earlier by no
\* more than the audit tolerance) was taken by the gateway, or a notice was.
NoRunSilentlyDropped ==
    kind = "prompt" /\ settled # NULL =>
        \A d \in Time :
            Due(d) /\ d <= settled /\ MinuteOf(settled) - Larger(Window, StaleMax) < d
            => told # NULL /\ d - Tolerance <= told

\* "A possibly-missed action over a double": no action is performed twice for one
\* fire, although runs are retried, replayed and cut short by kills.
ActionAtMostOnce ==
    \A d \in Time : acted[d] <= 1

\* The write-ahead loses no hit by itself: every item a poll has moved the cursor
\* over was escalated, is still staged, or had its escalation refused by the
\* gateway; kills and restarts in between do not matter.
HitSentOrStaged ==
    \A i \in seen : sent[i] > 0 \/ i \in pending \/ i \in refused

\* The "double-EMAIL guard": an item is escalated twice only when the process was
\* killed between the dispatch and the clear, when the gateway's refusal was
\* not one, or when two polls of one entry ran at the same time.
HitSentOnce ==
    \A i \in Items : sent[i] > 1 => i \in excused \/ i \in refused

\* recoverPendingEscalations: "On boot, re-dispatch each one exactly once and clear
\* it", before the live loop.  A boot leaves nothing staged, unless it waited for the
\* gateway in vain (~clean) or the connected gateway did not take the write (conn).
\* (Violated: a boot with nothing to replay does not wait for the connection, so
\* its recovery is always refused.)
BootRecovers ==
    [][Register /\ clean /\ ~conn => pending' = {}]_vars
=============================================================================
