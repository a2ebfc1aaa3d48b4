--------------------------- MODULE SchedulerProofs ---------------------------
(***************************************************************************)
(* Safety of the agent scheduler for any cron expression, window, lookback,*)
(* tolerance and number of retries, for any feed and any pattern of kills. *)
(***************************************************************************)
EXTENDS Scheduler, TLAPS

(* The minute a time lies in begins no later than the time.                 *)
LEMMA MinuteBegins ==
  ASSUME NEW t \in Time PROVE MinuteOf(t) \in Int /\ MinuteOf(t) <= t
  <1>1. t % Minute \in 0..(Minute - 1)
    BY SchedulerAssumption DEF Time
  <1>2. QED
    BY <1>1, SchedulerAssumption DEF MinuteOf, Time

(* What a boot's two scans return is a past time or nothing.                *)
LEMMA ScanTypes ==
  ASSUME SchedulerTypeOK, NEW t \in Time
  PROVE  /\ MissedFire(t) \in Time \cup {NULL} /\ MissedFire(t) <= t
         /\ StaleFire(t) \in Time \cup {NULL} /\ StaleFire(t) <= t
  <1>1. MinuteOf(t) \in Int /\ MinuteOf(t) <= t
    BY MinuteBegins
  <1>2. LastMatch(t) \in Time \cup {NULL} /\ LastMatch(t) <= t
    BY SchedulerAssumption DEF LastMatch, Time, NULL
  <1>3. /\ LastMatch(MinuteOf(t) - Window) \in Time \cup {NULL}
        /\ LastMatch(MinuteOf(t) - Window) <= t
    BY <1>1, SchedulerAssumption DEF LastMatch, Time, NULL
  <1>4. QED
    BY <1>2, <1>3 DEF MissedFire, StaleFire, Time, NULL

(* Counting up to two keeps the type of a counter.                          *)
LEMMA BumpedType ==
  ASSUME NEW D, NEW f \in [D -> 0..2], NEW S
  PROVE  /\ Bumped(f, S) \in [D -> 0..2]
         /\ \A x \in D : f[x] <= Bumped(f, S)[x] /\ Bumped(f, S)[x] <= f[x] + 1
         /\ \A x \in D : x \in S => Bumped(f, S)[x] > 0
         /\ \A x \in D : x \notin S => Bumped(f, S)[x] = f[x]
  BY DEF Bumped

(* Jobs have the type of a job, and carry the time and the items of one.    *)
LEMMA JobTypes ==
  /\ NoJob \in Job /\ NoJob.do = "nothing" /\ NoJob.items = {}
  /\ \A t \in Time : Row(t) \in Job /\ Row(t).do = "row" /\ Row(t).at = t
  /\ \A t \in Time, I \in SUBSET Items :
        [do |-> "escalate", at |-> t, items |-> I] \in Job
  /\ \A j \in Job :
        /\ j.items \subseteq Items
        /\ j # NoJob => j.at \in Time /\ [j EXCEPT !.do = "clear"] \in Job
        /\ j.do \in {"nothing", "escalate", "clear", "row"}
        /\ j.do = "nothing" <=> j = NoJob
  BY DEF NoJob, Job, Row, Items, Time

-----------------------------------------------------------------------------
(* Type correctness                                                        *)

LEMMA TypeInit == Init => SchedulerTypeOK
  <1> SUFFICES ASSUME Init PROVE SchedulerTypeOK
    OBVIOUS
  <1>1. /\ acted \in [Time -> 0..2] /\ sent \in [Items -> 0..2] /\ job \in Job
    BY JobTypes DEF Init
  <1>2. now \in Time /\ scan \in Time /\ feed \in 0..MaxFeed /\ stops \in Nat
    BY SchedulerAssumption DEF Init, Time
  <1>3. QED
    BY <1>1, <1>2 DEF Init, SchedulerTypeOK

LEMMA TypeStep == SchedulerTypeOK /\ [Next]_vars => SchedulerTypeOK'
  <1> SUFFICES ASSUME SchedulerTypeOK, [Next]_vars PROVE SchedulerTypeOK'
    OBVIOUS
  <1> USE SchedulerAssumption
      DEF SchedulerTypeOK, boot, process, disk, outside, answers, leads, Time, Items, NULL
  <1>1. ASSUME Boot PROVE SchedulerTypeOK'
    BY <1>1, ScanTypes DEF Boot
  <1>2. ASSUME Connected PROVE SchedulerTypeOK'
    BY <1>2 DEF Connected
  <1>3. ASSUME NotConnected PROVE SchedulerTypeOK'
    BY <1>3 DEF NotConnected
  <1>4. ASSUME ReplayPrompt PROVE SchedulerTypeOK'
    BY <1>4, JobTypes DEF ReplayPrompt
  <1>5. ASSUME SkipReplay PROVE SchedulerTypeOK'
    BY <1>5, JobTypes DEF SkipReplay
  <1>6. ASSUME Notice PROVE SchedulerTypeOK'
    BY <1>6, JobTypes DEF Notice
  <1>7. ASSUME Recover PROVE SchedulerTypeOK'
    BY <1>7, JobTypes DEF Recover
  <1>8. ASSUME Register PROVE SchedulerTypeOK'
    BY <1>8 DEF Register
  <1>9. ASSUME NEW t \in timers, Defer(t) PROVE SchedulerTypeOK'
    <2>1. [fire |-> t.fire, n |-> t.n + 1] \in Timer
      BY DEF Timer
    <2>2. timers' \subseteq Timer
      BY <1>9, <2>1 DEF Defer
    <2>3. QED
      BY <1>9, <2>2 DEF Defer
  <1>10. ASSUME NEW t \in timers, FirePrompt(t) PROVE SchedulerTypeOK'
    BY <1>10, JobTypes DEF FirePrompt, Started
  <1>11. ASSUME NEW t \in timers, FireAction(t) PROVE SchedulerTypeOK'
    <2>1. Bumped(acted, {t.fire}) \in [Time -> 0..2]
      BY BumpedType
    <2>2. job' \in Job
      BY <1>11, JobTypes DEF FireAction, Started
    <2>3. acted' \in [Time -> 0..2] /\ timers' \subseteq Timer
      BY <1>11, <2>1 DEF FireAction
    <2>4. QED
      BY <1>11, <2>2, <2>3 DEF FireAction
  <1>12. ASSUME NEW t \in timers, StartPoll(t) PROVE SchedulerTypeOK'
    <2>1. PICK u \in Started(t) :
             polls' = polls \cup {[fire |-> t.fire, at |-> u, prev |-> cursor, saw |-> feed]}
      BY <1>12 DEF StartPoll
    <2>2. [fire |-> t.fire, at |-> u, prev |-> cursor, saw |-> feed] \in Poll
      BY DEF Started, Timer, Poll
    <2>3. QED
      BY <1>12, <2>1, <2>2 DEF StartPoll
  <1>13. ASSUME NEW p \in polls, PollError(p) PROVE SchedulerTypeOK'
    BY <1>13 DEF PollError
  <1>14. ASSUME NEW p \in polls, NEW v \in p.saw..feed, PollBaseline(p, v) PROVE SchedulerTypeOK'
    <2>1. p.at \in Time /\ v \in 0..MaxFeed
      BY DEF Poll
    <2>2. job' \in Job
      BY <1>14, <2>1, JobTypes DEF PollBaseline
    <2>3. (v + 1)..cursor \subseteq Items
      BY <2>1
    <2>4. QED
      BY <1>14, <2>1, <2>2, <2>3 DEF PollBaseline
  <1>15. ASSUME NEW p \in polls, NEW v \in p.saw..feed, PollNoChange(p, v) PROVE SchedulerTypeOK'
    BY <1>15, JobTypes DEF PollNoChange, Poll
  <1>16. ASSUME NEW p \in polls, NEW v \in p.saw..feed, PollHit(p, v) PROVE SchedulerTypeOK'
    <2>1. p.at \in Time /\ p.prev \in 0..MaxFeed /\ v \in 0..MaxFeed
      BY <1>16 DEF PollHit, Poll
    <2>2. (p.prev + 1)..v \subseteq Items /\ (p.prev + 1)..Larger(v, cursor) \subseteq Items
      BY <2>1 DEF Larger
    <2>3. job' \in Job
      BY <1>16, <2>1, <2>2, JobTypes DEF PollHit
    <2>4. QED
      BY <1>16, <2>1, <2>2, <2>3 DEF PollHit
  <1>17. ASSUME Escalate PROVE SchedulerTypeOK'
    <2>1. job # NoJob
      BY <1>17, JobTypes DEF Escalate
    <2>2. job' \in Job /\ job.items \subseteq Items
      BY <1>17, <2>1, JobTypes DEF Escalate
    <2>3. sent' \in [Items -> 0..2]
      <3>1. Bumped(sent, job.items) \in [Items -> 0..2]
        BY BumpedType
      <3>2. sent' \in {sent, Bumped(sent, job.items)}
        BY <1>17 DEF Escalate
      <3>3. QED
        BY <3>1, <3>2
    <2>4. QED
      BY <1>17, <2>2, <2>3 DEF Escalate
  <1>18. ASSUME ClearPending PROVE SchedulerTypeOK'
    BY <1>18, JobTypes DEF ClearPending
  <1>19. ASSUME RecordFire PROVE SchedulerTypeOK'
    BY <1>19, JobTypes DEF RecordFire
  <1>20. ASSUME Reload PROVE SchedulerTypeOK'
    BY <1>20 DEF Reload
  <1>21. ASSUME Stop PROVE SchedulerTypeOK'
    <2>1. job' \in Job /\ job.items \subseteq Items
      BY <1>21, JobTypes DEF Stop
    <2>2. excused' \subseteq Items
      BY <1>21, <2>1 DEF Stop
    <2>3. /\ stops' \in Nat /\ missed' \in Time \cup {NULL} /\ stale' \in Time \cup {NULL}
      BY <1>21 DEF Stop
    <2>4. timers' \subseteq Timer /\ polls' \subseteq Poll /\ phase' = "down" /\ conn' \in BOOLEAN
      BY <1>21, Zenon DEF Stop
    <2>5. UNCHANGED <<now, scan, clean, disk, kind, feed, answers, seen, sent, refused>>
      BY <1>21 DEF Stop
    <2>6. QED
      BY <2>1, <2>2, <2>3, <2>4, <2>5
  <1>22. ASSUME Link PROVE SchedulerTypeOK'
    BY <1>22 DEF Link
  <1>23. ASSUME FeedGrows PROVE SchedulerTypeOK'
    BY <1>23 DEF FeedGrows
  <1>24. ASSUME Tick PROVE SchedulerTypeOK'
    BY <1>24 DEF Tick, Timer
  <1>25. ASSUME UNCHANGED vars PROVE SchedulerTypeOK'
    BY <1>25 DEF vars
  <1>26. QED
    BY <1>1, <1>2, <1>3, <1>4, <1>5, <1>6, <1>7, <1>8, <1>9, <1>10, <1>11, <1>12,
       <1>13, <1>14, <1>15, <1>16, <1>17, <1>18, <1>19, <1>20, <1>21, <1>22, <1>23,
       <1>24, <1>25
       DEF Next, Replay, Attempt, Polled, Stretch

(* The process, its audit log and poll state and the observations keep      *)
(* their types for any schedule, feed and pattern of kills.                 *)
THEOREM SchedulerTypeCorrect == Spec => []SchedulerTypeOK
  BY TypeInit, TypeStep, PTL DEF Spec

-----------------------------------------------------------------------------
(* No run of a prompt is silently dropped                                  *)

\* The gateway was told of the run due at d, or of something later.
Covered(d) == told # NULL /\ d - Tolerance <= told

\* The runs a boot that scanned at s answers for.
Answerable(s) ==
    {d \in Time : Due(d) /\ d <= s /\ MinuteOf(s) - Larger(Window, StaleMax) < d}

\* Every successful row of a prompt stands for something the gateway took no
\* earlier, and until a boot is done, what it answers for is covered unless there
\* is still something to replay or to announce.
BootInv ==
    /\ scan <= now /\ missed <= scan /\ stale <= scan /\ told <= now
    /\ phase \in {"recover", "register"} => missed = NULL /\ stale = NULL
    /\ kind = "prompt" => /\ \A r \in rows : r <= told
                          /\ job.do = "row" => job.at <= told
                          /\ polls = {} /\ job.do \in {"nothing", "row"}
    /\ kind = "prompt" /\ clean /\ phase \in {"waiting", "replay", "recover", "register"}
       => missed # NULL \/ stale # NULL \/ \A d \in Answerable(scan) : Covered(d)
    /\ NoRunSilentlyDropped

(* The two scans meet: when neither finds anything, every run the boot      *)
(* answers for has a successful row that is not older.                      *)
LEMMA ScansMeet ==
  ASSUME SchedulerTypeOK, MissedFire(now) = NULL, StaleFire(now) = NULL,
         NEW d \in Answerable(now)
  PROVE  \E r \in rows : d - Tolerance <= r
  <1> USE SchedulerAssumption DEF NULL
  <1>1. /\ now \in Time /\ MinuteOf(now) \in Int /\ MinuteOf(now) <= now
        /\ d \in Time /\ LastDue[d] = d /\ d <= now
        /\ MinuteOf(now) - Larger(Window, StaleMax) < d
    BY MinuteBegins DEF SchedulerTypeOK, Answerable, Due
  <1>2. /\ LastMatch(now) = LastDue[now] /\ LastDue[now] \in Time
        /\ d <= LastDue[now]
    BY <1>1 DEF LastMatch, Time
  <1>3. CASE MinuteOf(now) - Window < LastDue[now]
    <2>1. PICK r \in rows : LastDue[now] - Tolerance <= r
      BY <1>1, <1>2, <1>3 DEF MissedFire, Time
    <2>2. QED
      BY <2>1, <1>1, <1>2 DEF SchedulerTypeOK, Time
  <1>4. CASE ~(MinuteOf(now) - Window < LastDue[now])
    <2> DEFINE e == MinuteOf(now) - Window
    <2>1. e \in Time /\ d <= e
      BY <1>1, <1>2, <1>4 DEF Time
    <2>2. LastMatch(e) = LastDue[e] /\ LastDue[e] \in Time /\ d <= LastDue[e]
      BY <1>1, <2>1 DEF LastMatch, Time
    <2>3. Window < StaleMax /\ MinuteOf(now) - StaleMax < LastDue[e]
      BY <1>1, <2>1, <2>2 DEF Larger, Time
    <2>4. PICK r \in rows : ~(r < LastDue[e] - Tolerance)
      BY <2>2, <2>3 DEF StaleFire, Time
    <2>5. QED
      BY <2>4, <2>2, <1>1 DEF SchedulerTypeOK, Time
  <1>5. QED
    BY <1>3, <1>4

(* A step that leaves the boot, the log and what was told alone, and starts  *)
(* no row for a prompt, keeps the invariant.                                *)
LEMMA BootInvKept ==
  ASSUME SchedulerTypeOK, BootInv, UNCHANGED <<kind, phase, boot, rows, told, settled>>,
         now' \in Time, now <= now',
         kind = "prompt" => /\ polls' = {} /\ job'.do \in {"nothing", "row"}
                            /\ job'.do = "row" => job.do = "row" /\ job'.at = job.at
  PROVE  BootInv'
  <1>1. now \in Int /\ now' \in Int /\ scan \in Int /\ told \in Int
    BY SchedulerAssumption DEF SchedulerTypeOK, Time, NULL
  <1>2. NoRunSilentlyDropped'
    BY DEF BootInv, NoRunSilentlyDropped
  <1>3. (scan <= now /\ missed <= scan /\ stale <= scan /\ told <= now)'
    BY <1>1 DEF BootInv, boot
  <1>4. (\A d \in Answerable(scan) : Covered(d)) => (\A d \in Answerable(scan) : Covered(d))'
    BY DEF Covered, Answerable, boot
  <1>5. QED
    BY <1>2, <1>3, <1>4 DEF BootInv, boot

(* Once the gateway is told of something now, whatever a boot answers for   *)
(* is covered.                                                              *)
LEMMA ToldNow ==
  ASSUME SchedulerTypeOK, BootInv, told' = now, settled' = settled, kind' = kind
  PROVE  /\ NoRunSilentlyDropped'
         /\ \A d \in Answerable(scan) : d <= now /\ Covered(d)'
  <1>1. told <= now /\ scan <= now /\ now \in Time /\ scan \in Time /\ told \in Time \cup {NULL}
    BY DEF BootInv, SchedulerTypeOK
  <1>2. \A d \in Answerable(scan) : d <= now /\ Covered(d)'
    BY <1>1, SchedulerAssumption DEF Answerable, Covered, Time, NULL
  <1>3. NoRunSilentlyDropped
    BY DEF BootInv
  <1>4. NoRunSilentlyDropped'
    BY <1>1, <1>3, SchedulerAssumption DEF NoRunSilentlyDropped, Time, NULL
  <1>5. QED
    BY <1>2, <1>4

LEMMA BootInvInit == Init => BootInv
  BY SchedulerAssumption, JobTypes DEF Init, BootInv, NoRunSilentlyDropped, NULL

LEMMA BootInvStep == SchedulerTypeOK /\ BootInv /\ [Next]_vars => BootInv'
  <1> SUFFICES ASSUME SchedulerTypeOK, BootInv, [Next]_vars PROVE BootInv'
    OBVIOUS
  <1> USE SchedulerAssumption DEF boot, process, disk, outside, answers, leads
  <1>1. ASSUME Boot PROVE BootInv'
    <2>1. /\ MissedFire(now) \in Time \cup {NULL} /\ MissedFire(now) <= now
          /\ StaleFire(now) \in Time \cup {NULL} /\ StaleFire(now) <= now /\ now \in Time
      BY ScanTypes DEF SchedulerTypeOK
    <2>2. ASSUME kind = "prompt", missed' = NULL, stale' = NULL, NEW d \in Answerable(now)
          PROVE  Covered(d)
      <3>1. PICK r \in rows : d - Tolerance <= r
        BY <1>1, <2>2, ScansMeet DEF Boot
      <3>2. r <= told /\ r \in Time /\ d \in Time /\ told \in Time \cup {NULL}
        BY <2>2 DEF BootInv, SchedulerTypeOK, Answerable
      <3>3. QED
        BY <3>1, <3>2 DEF Covered, Time, NULL
    <2>3. kind = "prompt" => \/ missed' # NULL \/ stale' # NULL
                             \/ (\A d \in Answerable(scan) : Covered(d))'
      BY <1>1, <2>2 DEF Boot, Covered, Answerable, answers
    <2>4. NoRunSilentlyDropped'
      BY <1>1 DEF Boot, BootInv, NoRunSilentlyDropped
    <2>5. QED
      BY <1>1, <2>1, <2>3, <2>4 DEF Boot, BootInv, SchedulerTypeOK, Time
  <1>2. ASSUME Connected PROVE BootInv'
    <2>1. NoRunSilentlyDropped'
      BY <1>2 DEF Connected, BootInv, NoRunSilentlyDropped
    <2>2. (\A d \in Answerable(scan) : Covered(d)) => (\A d \in Answerable(scan) : Covered(d))'
      BY <1>2 DEF Connected, Covered, Answerable
    <2>3. QED
      BY <1>2, <2>1, <2>2, JobTypes DEF Connected, BootInv, SchedulerTypeOK, Time, NULL
  <1>3. ASSUME NotConnected PROVE BootInv'
    <2>1. NoRunSilentlyDropped'
      BY <1>3 DEF NotConnected, BootInv, NoRunSilentlyDropped
    <2>2. (\A d \in Answerable(scan) : Covered(d)) => (\A d \in Answerable(scan) : Covered(d))'
      BY <1>3 DEF NotConnected, Covered, Answerable
    <2>3. QED
      BY <1>3, <2>1, <2>2, JobTypes DEF NotConnected, BootInv, SchedulerTypeOK, Time, NULL
  <1>4. ASSUME ReplayPrompt PROVE BootInv'
    <2>1. CASE told' = now /\ job' = Row(now)
      <3>1. /\ NoRunSilentlyDropped'
            /\ \A d \in Answerable(scan) : d <= now /\ Covered(d)'
        BY <1>4, <2>1, ToldNow DEF ReplayPrompt
      <3>2. /\ job'.at = now /\ job'.do = "row" /\ now <= now
        <4>1. now \in Time /\ now <= now
          BY <1>4 DEF ReplayPrompt, BootInv, SchedulerTypeOK, Time, NULL
        <4>2. QED
          BY <2>1, <4>1, JobTypes
      <3>3. \A r \in rows : kind = "prompt" => r <= now
        BY DEF BootInv, SchedulerTypeOK, Time, NULL
      <3>4. (\A d \in Answerable(scan) : Covered(d))'
        BY <1>4, <3>1 DEF ReplayPrompt, Answerable
      <3>5. QED
        BY <1>4, <2>1, <3>1, <3>2, <3>3, <3>4 DEF ReplayPrompt, BootInv, SchedulerTypeOK, Time, NULL
    <2>2. CASE clean' = FALSE /\ UNCHANGED <<told, job>>
      <3>1. NoRunSilentlyDropped'
        BY <1>4, <2>2 DEF ReplayPrompt, BootInv, NoRunSilentlyDropped
      <3>2. (\A d \in Answerable(scan) : Covered(d)) => (\A d \in Answerable(scan) : Covered(d))'
        BY <1>4, <2>2 DEF ReplayPrompt, Covered, Answerable
      <3>3. QED
        BY <1>4, <2>2, <3>1, <3>2 DEF ReplayPrompt, BootInv, SchedulerTypeOK, Time, NULL
    <2>3. QED
      BY <1>4, <2>1, <2>2 DEF ReplayPrompt
  <1>5. ASSUME SkipReplay PROVE BootInv'
    <2>1. NoRunSilentlyDropped'
      BY <1>5 DEF SkipReplay, BootInv, NoRunSilentlyDropped
    <2>2. (\A d \in Answerable(scan) : Covered(d)) => (\A d \in Answerable(scan) : Covered(d))'
      BY <1>5 DEF SkipReplay, Covered, Answerable
    <2>3. QED
      BY <1>5, <2>1, <2>2, JobTypes DEF SkipReplay, BootInv, SchedulerTypeOK, Time, NULL
  <1>6. ASSUME Notice PROVE BootInv'
    <2>1. CASE told' = now /\ job' = Row(stale)
      <3>1. /\ NoRunSilentlyDropped'
            /\ \A d \in Answerable(scan) : d <= now /\ Covered(d)'
        BY <1>6, <2>1, ToldNow DEF Notice
      <3>2. /\ job'.at = stale /\ job'.do = "row" /\ stale <= now
        <4>1. stale \in Time /\ stale <= now
          BY <1>6 DEF Notice, BootInv, SchedulerTypeOK, Time, NULL
        <4>2. QED
          BY <2>1, <4>1, JobTypes
      <3>3. \A r \in rows : kind = "prompt" => r <= now
        BY DEF BootInv, SchedulerTypeOK, Time, NULL
      <3>4. (\A d \in Answerable(scan) : Covered(d))'
        BY <1>6, <3>1 DEF Notice, Answerable
      <3>5. QED
        BY <1>6, <2>1, <3>1, <3>2, <3>3, <3>4 DEF Notice, BootInv, SchedulerTypeOK, Time, NULL
    <2>2. CASE clean' = FALSE /\ UNCHANGED <<told, job>>
      <3>1. NoRunSilentlyDropped'
        BY <1>6, <2>2 DEF Notice, BootInv, NoRunSilentlyDropped
      <3>2. (\A d \in Answerable(scan) : Covered(d)) => (\A d \in Answerable(scan) : Covered(d))'
        BY <1>6, <2>2 DEF Notice, Covered, Answerable
      <3>3. QED
        BY <1>6, <2>2, <3>1, <3>2 DEF Notice, BootInv, SchedulerTypeOK, Time, NULL
    <2>3. QED
      BY <1>6, <2>1, <2>2 DEF Notice
  <1>7. ASSUME Recover PROVE BootInv'
    <2>1. NoRunSilentlyDropped'
      BY <1>7 DEF Recover, BootInv, NoRunSilentlyDropped
    <2>2. (\A d \in Answerable(scan) : Covered(d)) => (\A d \in Answerable(scan) : Covered(d))'
      BY <1>7 DEF Recover, Covered, Answerable
    <2>3. QED
      BY <1>7, <2>1, <2>2, JobTypes DEF Recover, BootInv, SchedulerTypeOK, Time, NULL
  <1>8. ASSUME Register PROVE BootInv'
    <2>1. (\A d \in Answerable(scan) : Covered(d)) => (\A d \in Answerable(scan) : Covered(d))'
      BY <1>8 DEF Register, Covered, Answerable
    <2>2. NoRunSilentlyDropped'
      <3>1. CASE clean
        BY <1>8, <3>1 DEF Register, BootInv, NoRunSilentlyDropped, Answerable, Covered
      <3>2. CASE ~clean
        BY <1>8, <3>2 DEF Register, BootInv, NoRunSilentlyDropped
      <3>3. QED
        BY <3>1, <3>2
    <2>3. QED
      BY <1>8, <2>1, <2>2 DEF Register, BootInv
  <1>9. ASSUME NEW t \in timers, Defer(t) PROVE BootInv'
    BY <1>9, BootInvKept, JobTypes DEF Defer, Time, BootInv, SchedulerTypeOK
  <1>10. ASSUME NEW t \in timers, FirePrompt(t) PROVE BootInv'
    <2>1. CASE told' = now /\ \E u \in Started(t) : job' = Row(u)
      <3>1. /\ NoRunSilentlyDropped'
            /\ \A d \in Answerable(scan) : d <= now /\ Covered(d)'
        BY <1>10, <2>1, ToldNow DEF FirePrompt
      <3>2. job'.do = "row" /\ job'.at <= now
        BY <2>1, JobTypes DEF Started
      <3>3. \A r \in rows : kind = "prompt" => r <= now
        BY DEF BootInv, SchedulerTypeOK, Time, NULL
      <3>4. (\A d \in Answerable(scan) : Covered(d))'
        BY <1>10, <3>1 DEF FirePrompt, Answerable
      <3>5. QED
        BY <1>10, <2>1, <3>1, <3>2, <3>3, <3>4 DEF FirePrompt, BootInv, SchedulerTypeOK, Time, NULL
    <2>2. CASE UNCHANGED <<told, job>>
      <3>1. NoRunSilentlyDropped'
        BY <1>10, <2>2 DEF FirePrompt, BootInv, NoRunSilentlyDropped
      <3>2. (\A d \in Answerable(scan) : Covered(d)) => (\A d \in Answerable(scan) : Covered(d))'
        BY <1>10, <2>2 DEF FirePrompt, Covered, Answerable
      <3>3. QED
        BY <1>10, <2>2, <3>1, <3>2 DEF FirePrompt, BootInv, SchedulerTypeOK, Time, NULL
    <2>3. QED
      BY <1>10, <2>1, <2>2 DEF FirePrompt
  <1>11. ASSUME NEW t \in timers, FireAction(t) PROVE BootInv'
    BY <1>11, BootInvKept, JobTypes DEF FireAction, Time, BootInv, SchedulerTypeOK
  <1>12. ASSUME NEW t \in timers, StartPoll(t) PROVE BootInv'
    BY <1>12, BootInvKept, JobTypes DEF StartPoll, Time, BootInv, SchedulerTypeOK
  <1>13. ASSUME NEW p \in polls, PollError(p) PROVE BootInv'
    BY <1>13, BootInvKept, JobTypes DEF PollError, Time, BootInv, SchedulerTypeOK
  <1>14. ASSUME NEW p \in polls, NEW v \in p.saw..feed, PollBaseline(p, v) PROVE BootInv'
    BY <1>14, BootInvKept, JobTypes DEF PollBaseline, Awaiting, Time, BootInv, SchedulerTypeOK
  <1>15. ASSUME NEW p \in polls, NEW v \in p.saw..feed, PollNoChange(p, v) PROVE BootInv'
    BY <1>15, BootInvKept, JobTypes DEF PollNoChange, Awaiting, Time, BootInv, SchedulerTypeOK
  <1>16. ASSUME NEW p \in polls, NEW v \in p.saw..feed, PollHit(p, v) PROVE BootInv'
    BY <1>16, BootInvKept, JobTypes DEF PollHit, Awaiting, Time, BootInv, SchedulerTypeOK
  <1>17. ASSUME Escalate PROVE BootInv'
    BY <1>17, BootInvKept, JobTypes DEF Escalate, Time, BootInv, SchedulerTypeOK
  <1>18. ASSUME ClearPending PROVE BootInv'
    BY <1>18, BootInvKept, JobTypes DEF ClearPending, Time, BootInv, SchedulerTypeOK
  <1>19. ASSUME RecordFire PROVE BootInv'
    <2>1. NoRunSilentlyDropped'
      BY <1>19 DEF RecordFire, BootInv, NoRunSilentlyDropped
    <2>2. (\A d \in Answerable(scan) : Covered(d)) => (\A d \in Answerable(scan) : Covered(d))'
      BY <1>19 DEF RecordFire, Covered, Answerable
    <2>3. QED
      BY <1>19, <2>1, <2>2, JobTypes DEF RecordFire, BootInv, SchedulerTypeOK, Time, NULL
  <1>20. ASSUME Reload PROVE BootInv'
    <2>1. /\ UNCHANGED <<kind, phase, boot, rows, told, settled, polls, job>>
          /\ now' \in Time /\ now <= now'
      BY <1>20 DEF Reload, SchedulerTypeOK, Time
    <2>2. kind = "prompt" => polls = {} /\ job.do \in {"nothing", "row"}
      BY DEF BootInv
    <2>3. QED
      BY <2>1, <2>2, BootInvKept
  <1>21. ASSUME Stop PROVE BootInv'
    <2>1. NoRunSilentlyDropped'
      BY <1>21 DEF Stop, BootInv, NoRunSilentlyDropped
    <2>2. (\A d \in Answerable(scan) : Covered(d)) => (\A d \in Answerable(scan) : Covered(d))'
      BY <1>21 DEF Stop, Covered, Answerable
    <2>3. QED
      BY <1>21, <2>1, <2>2, JobTypes DEF Stop, BootInv, SchedulerTypeOK, Time, NULL
  <1>22. ASSUME Link PROVE BootInv'
    <2>1. /\ UNCHANGED <<kind, phase, boot, rows, told, settled, polls, job>>
          /\ now' \in Time /\ now <= now'
      BY <1>22 DEF Link, SchedulerTypeOK, Time
    <2>2. kind = "prompt" => polls = {} /\ job.do \in {"nothing", "row"}
      BY DEF BootInv
    <2>3. QED
      BY <2>1, <2>2, BootInvKept
  <1>23. ASSUME FeedGrows PROVE BootInv'
    <2>1. /\ UNCHANGED <<kind, phase, boot, rows, told, settled, polls, job>>
          /\ now' \in Time /\ now <= now'
      BY <1>23 DEF FeedGrows, SchedulerTypeOK, Time
    <2>2. kind = "prompt" => polls = {} /\ job.do \in {"nothing", "row"}
      BY DEF BootInv
    <2>3. QED
      BY <2>1, <2>2, BootInvKept
  <1>24. ASSUME Tick PROVE BootInv'
    <2>1. /\ UNCHANGED <<kind, phase, boot, rows, told, settled, polls, job>>
          /\ now' \in Time /\ now <= now'
      BY <1>24 DEF Tick, SchedulerTypeOK, Time
    <2>2. kind = "prompt" => polls = {} /\ job.do \in {"nothing", "row"}
      BY DEF BootInv
    <2>3. QED
      BY <2>1, <2>2, BootInvKept
  <1>25. ASSUME UNCHANGED vars PROVE BootInv'
    BY <1>25, BootInvKept DEF vars, BootInv, SchedulerTypeOK, Time
  <1>26. QED
    BY <1>1, <1>2, <1>3, <1>4, <1>5, <1>6, <1>7, <1>8, <1>9, <1>10, <1>11, <1>12,
       <1>13, <1>14, <1>15, <1>16, <1>17, <1>18, <1>19, <1>20, <1>21, <1>22, <1>23,
       <1>24, <1>25
       DEF Next, Replay, Attempt, Polled, Stretch

(* After a boot that reached the gateway no due run of a prompt within the  *)
(* lookback is left without itself, a later run or a notice, for any cron   *)
(* expression, window, lookback and tolerance and any history of kills.     *)
THEOREM RunsNotDropped == Spec => []NoRunSilentlyDropped
  <1>1. BootInv => NoRunSilentlyDropped
    BY DEF BootInv
  <1>2. QED
    BY <1>1, TypeInit, TypeStep, BootInvInit, BootInvStep, PTL DEF Spec

-----------------------------------------------------------------------------
(* No action is performed twice                                            *)

\* A fire has at most one timer, it is for a time that has come, and as long as
\* it is armed its action has not been performed.
ActionInv ==
    /\ \A t \in timers : t.fire <= now /\ acted[t.fire] = 0
    /\ \A t, u \in timers : t.fire = u.fire => t = u
    /\ \A d \in Time : now < d => acted[d] = 0
    /\ ActionAtMostOnce

LEMMA ActionInvInit == Init => ActionInv
  BY DEF Init, ActionInv, ActionAtMostOnce

(* Fewer timers, and no action performed.                                   *)
LEMMA ActionInvKept ==
  ASSUME ActionInv, timers' \subseteq timers, acted' = acted, now' = now PROVE ActionInv'
  BY DEF ActionInv, ActionAtMostOnce

LEMMA ActionInvStep == SchedulerTypeOK /\ ActionInv /\ [Next]_vars => ActionInv'
  <1> SUFFICES ASSUME SchedulerTypeOK, ActionInv, [Next]_vars PROVE ActionInv'
    OBVIOUS
  <1> USE DEF boot, process, disk, outside, answers, leads
  <1>1. ASSUME Boot PROVE ActionInv'
    BY <1>1, ActionInvKept DEF Boot
  <1>2. ASSUME Connected PROVE ActionInv'
    BY <1>2, ActionInvKept DEF Connected
  <1>3. ASSUME NotConnected PROVE ActionInv'
    BY <1>3, ActionInvKept DEF NotConnected
  <1>4. ASSUME ReplayPrompt PROVE ActionInv'
    BY <1>4, ActionInvKept DEF ReplayPrompt
  <1>5. ASSUME SkipReplay PROVE ActionInv'
    BY <1>5, ActionInvKept DEF SkipReplay
  <1>6. ASSUME Notice PROVE ActionInv'
    BY <1>6, ActionInvKept DEF Notice
  <1>7. ASSUME Recover PROVE ActionInv'
    BY <1>7, ActionInvKept DEF Recover
  <1>8. ASSUME Register PROVE ActionInv'
    BY <1>8, ActionInvKept DEF Register
  <1>9. ASSUME NEW t \in timers, Defer(t) PROVE ActionInv'
    <2> DEFINE later == [fire |-> t.fire, n |-> t.n + 1]
    <2>1. t \in Timer /\ later.fire = t.fire
      BY DEF SchedulerTypeOK, Timer
    <2>2. /\ \A x \in timers' : x = later \/ x \in timers \ {t}
          /\ now' = now /\ acted' = acted
      BY <1>9 DEF Defer
    <2>3. \A x \in timers' : x.fire <= now /\ acted[x.fire] = 0
      BY <2>1, <2>2 DEF ActionInv
    <2>4. ASSUME NEW x \in timers', NEW y \in timers', x.fire = y.fire PROVE x = y
      BY <2>1, <2>2, <2>4 DEF ActionInv
    <2>5. QED
      BY <2>2, <2>3, <2>4 DEF ActionInv, ActionAtMostOnce
  <1>10. ASSUME NEW t \in timers, FirePrompt(t) PROVE ActionInv'
    BY <1>10, ActionInvKept DEF FirePrompt
  <1>11. ASSUME NEW t \in timers, FireAction(t) PROVE ActionInv'
    <2>1. t.fire \in Time /\ now \in Time /\ acted \in [Time -> 0..2]
      BY DEF SchedulerTypeOK, Timer
    <2>2. acted[t.fire] = 0 /\ t.fire <= now
      BY DEF ActionInv
    <2>3. /\ \A d \in Time : d # t.fire => acted'[d] = acted[d]
          /\ acted'[t.fire] <= 1 /\ acted' \in [Time -> 0..2]
      <3>1. /\ Bumped(acted, {t.fire}) \in [Time -> 0..2]
            /\ Bumped(acted, {t.fire})[t.fire] <= acted[t.fire] + 1
            /\ \A d \in Time : d # t.fire => Bumped(acted, {t.fire})[d] = acted[d]
        BY <2>1, BumpedType
      <3>2. acted' = acted \/ acted' = Bumped(acted, {t.fire})
        BY <1>11 DEF FireAction
      <3>3. QED
        BY <2>1, <2>2, <3>1, <3>2
    <2>4. timers' = timers \ {t} /\ now' = now
      BY <1>11 DEF FireAction
    <2>5. \A u \in timers' : u.fire \in Time /\ u.fire # t.fire
      BY <2>4 DEF ActionInv, SchedulerTypeOK, Timer
    <2>6. \A u \in timers' : u.fire <= now /\ acted'[u.fire] = 0
      BY <2>3, <2>4, <2>5 DEF ActionInv
    <2>7. \A d \in Time : (now < d => acted'[d] = 0) /\ acted'[d] <= 1
      BY <2>1, <2>2, <2>3, SchedulerAssumption DEF ActionInv, ActionAtMostOnce, Time
    <2>8. QED
      BY <2>4, <2>6, <2>7 DEF ActionInv, ActionAtMostOnce
  <1>12. ASSUME NEW t \in timers, StartPoll(t) PROVE ActionInv'
    BY <1>12, ActionInvKept DEF StartPoll
  <1>13. ASSUME NEW p \in polls, PollError(p) PROVE ActionInv'
    BY <1>13, ActionInvKept DEF PollError
  <1>14. ASSUME NEW p \in polls, NEW v \in p.saw..feed, PollBaseline(p, v) PROVE ActionInv'
    BY <1>14, ActionInvKept DEF PollBaseline
  <1>15. ASSUME NEW p \in polls, NEW v \in p.saw..feed, PollNoChange(p, v) PROVE ActionInv'
    BY <1>15, ActionInvKept DEF PollNoChange
  <1>16. ASSUME NEW p \in polls, NEW v \in p.saw..feed, PollHit(p, v) PROVE ActionInv'
    BY <1>16, ActionInvKept DEF PollHit
  <1>17. ASSUME Escalate PROVE ActionInv'
    BY <1>17, ActionInvKept DEF Escalate
  <1>18. ASSUME ClearPending PROVE ActionInv'
    BY <1>18, ActionInvKept DEF ClearPending
  <1>19. ASSUME RecordFire PROVE ActionInv'
    BY <1>19, ActionInvKept DEF RecordFire
  <1>20. ASSUME Reload PROVE ActionInv'
    BY <1>20, ActionInvKept DEF Reload
  <1>21. ASSUME Stop PROVE ActionInv'
    BY <1>21, ActionInvKept DEF Stop
  <1>22. ASSUME Link PROVE ActionInv'
    BY <1>22, ActionInvKept DEF Link
  <1>23. ASSUME FeedGrows PROVE ActionInv'
    BY <1>23, ActionInvKept DEF FeedGrows
  <1>24. ASSUME Tick PROVE ActionInv'
    <2> DEFINE due == [fire |-> now + 1, n |-> 0]
    <2>1. now \in Int /\ now' = now + 1 /\ acted' = acted /\ now + 1 \in Time
      BY <1>24, SchedulerAssumption DEF Tick, SchedulerTypeOK, Time
    <2>2. \A x \in timers' : x = due \/ x \in timers
      BY <1>24 DEF Tick
    <2>3. \A x \in timers : x.fire <= now /\ x.fire \in Int /\ acted[x.fire] = 0
      BY SchedulerAssumption DEF ActionInv, SchedulerTypeOK, Timer, Time
    <2>4. due.fire = now + 1 /\ acted[now + 1] = 0
      BY <2>1 DEF ActionInv
    <2>5. \A x \in timers' : x.fire <= now + 1 /\ acted[x.fire] = 0
      BY <2>1, <2>2, <2>3, <2>4
    <2>6. ASSUME NEW x \in timers', NEW y \in timers', x.fire = y.fire PROVE x = y
      <3>1. CASE x \in timers /\ y \in timers
        BY <3>1, <2>6 DEF ActionInv
      <3>2. CASE x = due \/ y = due
        BY <2>1, <2>2, <2>3, <2>4, <2>6, <3>2
      <3>3. QED
        BY <2>2, <3>1, <3>2
    <2>7. \A d \in Time : now + 1 < d => acted[d] = 0
      BY <2>1, SchedulerAssumption DEF ActionInv, Time
    <2>8. QED
      BY <2>1, <2>5, <2>6, <2>7 DEF ActionInv, ActionAtMostOnce
  <1>25. ASSUME UNCHANGED vars PROVE ActionInv'
    BY <1>25, ActionInvKept DEF vars
  <1>26. QED
    BY <1>1, <1>2, <1>3, <1>4, <1>5, <1>6, <1>7, <1>8, <1>9, <1>10, <1>11, <1>12,
       <1>13, <1>14, <1>15, <1>16, <1>17, <1>18, <1>19, <1>20, <1>21, <1>22, <1>23,
       <1>24, <1>25
       DEF Next, Replay, Attempt, Polled, Stretch

(* No action is performed twice for one fire, with any number of retries,   *)
(* kills and replays.                                                       *)
THEOREM ActionsOnce == Spec => []ActionAtMostOnce
  <1>1. ActionInv => ActionAtMostOnce
    BY DEF ActionInv
  <1>2. QED
    BY <1>1, TypeInit, TypeStep, ActionInvInit, ActionInvStep, PTL DEF Spec

-----------------------------------------------------------------------------
(* What a poll hit is neither lost nor sent twice                          *)

Dispatching == job.do \in {"escalate", "clear"}
Live == phase \in {"register", "up"}

\* What is staged lies under the cursor; while it is dispatched it is what the
\* running stretch speaks of; once the live loop can replace it, it was sent or
\* refused; and unless it is excused it was not sent before.
LeadInv ==
    /\ kind # "poll" => pending = {} /\ polls = {}
    /\ \A i \in pending : i <= cursor
    /\ Dispatching => job.items = pending
    /\ job.do = "clear" => \A i \in pending : sent[i] > 0
    /\ Live /\ ~Dispatching => \A i \in pending : sent[i] > 0 \/ i \in refused
    /\ \A i \in pending : job.do # "clear" /\ sent[i] > 0 => i \in excused \cup refused
    /\ \A i \in Items : sent[i] > 0 /\ i > cursor => i \in excused \cup refused
    /\ HitSentOrStaged
    /\ HitSentOnce

LEMMA LeadInvInit == Init => LeadInv
  BY JobTypes DEF Init, LeadInv, Dispatching, Live, HitSentOrStaged, HitSentOnce

(* A step that leaves the leads and the stage alone.                        *)
LEMMA LeadKept ==
  ASSUME LeadInv, kind' = kind, cursor' = cursor, pending' = pending,
         seen' = seen, sent' = sent, refused' = refused, excused' = excused,
         polls' \subseteq polls \/ kind = "poll",
         job' = job \/ (~Dispatching /\ ~Dispatching'),
         Live' => Live
  PROVE  LeadInv'
  BY DEF LeadInv, Dispatching, HitSentOrStaged, HitSentOnce

LEMMA LeadInvStep == SchedulerTypeOK /\ LeadInv /\ [Next]_vars => LeadInv'
  <1> SUFFICES ASSUME SchedulerTypeOK, LeadInv, [Next]_vars PROVE LeadInv'
    OBVIOUS
  <1> USE DEF boot, process, disk, outside, answers, leads
  <1>1. ASSUME Boot PROVE LeadInv'
    BY <1>1, LeadKept, JobTypes DEF Boot, Dispatching, Live
  <1>2. ASSUME Connected PROVE LeadInv'
    BY <1>2, LeadKept, JobTypes DEF Connected, Dispatching, Live
  <1>3. ASSUME NotConnected PROVE LeadInv'
    BY <1>3, LeadKept, JobTypes DEF NotConnected, Dispatching, Live
  <1>4. ASSUME ReplayPrompt PROVE LeadInv'
    <2>1. ~Dispatching /\ ~Dispatching'
      BY <1>4, JobTypes DEF ReplayPrompt, Dispatching, SchedulerTypeOK
    <2>2. QED
      BY <1>4, <2>1, LeadKept DEF ReplayPrompt, Live
  <1>5. ASSUME SkipReplay PROVE LeadInv'
    <2>1. ~Dispatching /\ ~Dispatching'
      BY <1>5, JobTypes DEF SkipReplay, Dispatching, SchedulerTypeOK
    <2>2. QED
      BY <1>5, <2>1, LeadKept DEF SkipReplay, Live
  <1>6. ASSUME Notice PROVE LeadInv'
    <2>1. ~Dispatching /\ ~Dispatching'
      BY <1>6, JobTypes DEF Notice, Dispatching, SchedulerTypeOK
    <2>2. QED
      BY <1>6, <2>1, LeadKept DEF Notice, Live
  <1>7. ASSUME Recover PROVE LeadInv'
    <2>1. job.do = "nothing"
      BY <1>7, JobTypes DEF Recover
    <2>2. CASE pending = {}
      <3>1. ~Dispatching /\ ~Dispatching'
        BY <1>7, <2>1, <2>2, JobTypes DEF Recover, Dispatching
      <3>2. QED
        BY <1>7, <2>1, <2>2, <3>1, JobTypes DEF Recover, LeadInv, Dispatching, HitSentOrStaged, HitSentOnce
    <2>3. CASE pending # {}
      <3>1. kind = "poll"
        BY <2>3 DEF LeadInv
      <3>2. job'.do = "escalate" /\ job'.items = pending
        BY <1>7, <2>3, <3>1 DEF Recover
      <3>3. QED
        BY <1>7, <2>1, <3>1, <3>2 DEF Recover, LeadInv, Dispatching, HitSentOrStaged, HitSentOnce
    <2>4. QED
      BY <2>2, <2>3
  <1>8. ASSUME Register PROVE LeadInv'
    BY <1>8, LeadKept, JobTypes DEF Register, Dispatching, Live
  <1>9. ASSUME NEW t \in timers, Defer(t) PROVE LeadInv'
    BY <1>9, LeadKept, JobTypes DEF Defer, Dispatching, Live
  <1>10. ASSUME NEW t \in timers, FirePrompt(t) PROVE LeadInv'
    <2>1. ~Dispatching /\ ~Dispatching'
      BY <1>10, JobTypes DEF FirePrompt, Started, Running, Dispatching, SchedulerTypeOK
    <2>2. QED
      BY <1>10, <2>1, LeadKept DEF FirePrompt, Live
  <1>11. ASSUME NEW t \in timers, FireAction(t) PROVE LeadInv'
    <2>1. ~Dispatching /\ ~Dispatching'
      BY <1>11, JobTypes DEF FireAction, Started, Running, Dispatching, SchedulerTypeOK
    <2>2. QED
      BY <1>11, <2>1, LeadKept DEF FireAction, Live
  <1>12. ASSUME NEW t \in timers, StartPoll(t) PROVE LeadInv'
    BY <1>12, LeadKept, JobTypes DEF StartPoll, Dispatching, Live
  <1>13. ASSUME NEW p \in polls, PollError(p) PROVE LeadInv'
    BY <1>13, LeadKept, JobTypes DEF PollError, Dispatching, Live
  <1>14. ASSUME NEW p \in polls, NEW v \in p.saw..feed, PollBaseline(p, v) PROVE LeadInv'
    <2>1. v \in Int /\ cursor \in Int /\ Items \subseteq Int /\ polls # {} /\ p.at \in Time
      BY SchedulerAssumption DEF SchedulerTypeOK, Poll, Items, NULL
    <2>2. Live /\ ~Dispatching /\ kind = "poll"
      BY <1>14, <2>1, JobTypes DEF PollBaseline, Awaiting, Live, Dispatching, LeadInv
    <2>3. /\ pending' = {} /\ cursor' = v /\ sent' = sent /\ seen' = seen /\ refused' = refused
          /\ kind' = kind /\ excused' = excused \cup ((v + 1)..cursor)
          /\ job'.do = "row"
      BY <1>14, <2>1, JobTypes DEF PollBaseline
    <2>4. HitSentOrStaged'
      BY <2>2, <2>3 DEF LeadInv, HitSentOrStaged
    <2>5. \A i \in Items : sent[i] > 0 /\ i > v => i \in excused' \cup refused
      <3> SUFFICES ASSUME NEW i \in Items, sent[i] > 0, i > v PROVE i \in excused' \cup refused
        OBVIOUS
      <3>1. CASE i > cursor
        BY <3>1, <2>3 DEF LeadInv
      <3>2. CASE i <= cursor
        BY <3>2, <2>1, <2>3
      <3>3. QED
        BY <2>1, <3>1, <3>2
    <2>6. HitSentOnce'
      BY <2>3 DEF LeadInv, HitSentOnce
    <2>7. QED
      BY <2>2, <2>3, <2>4, <2>5, <2>6 DEF LeadInv, Dispatching
  <1>15. ASSUME NEW p \in polls, NEW v \in p.saw..feed, PollNoChange(p, v) PROVE LeadInv'
    <2>1. ~Dispatching /\ ~Dispatching'
      BY <1>15, JobTypes DEF PollNoChange, Awaiting, Dispatching, SchedulerTypeOK, Poll
    <2>2. QED
      BY <1>15, <2>1, LeadKept DEF PollNoChange, Live
  <1>16. ASSUME NEW p \in polls, NEW v \in p.saw..feed, PollHit(p, v) PROVE LeadInv'
    <2> DEFINE items == (p.prev + 1)..v
    <2>1. /\ v \in Int /\ cursor \in Int /\ Items \subseteq Int /\ polls # {}
          /\ p.prev \in Int /\ p.prev < v /\ items \subseteq Items
      BY <1>16, SchedulerAssumption DEF PollHit, SchedulerTypeOK, Poll, Items, NULL
    <2>2. Live /\ ~Dispatching /\ kind = "poll" /\ job.do = "nothing"
      BY <1>16, <2>1, JobTypes DEF PollHit, Awaiting, Live, Dispatching, LeadInv
    <2>3. /\ pending' = items /\ cursor' = v /\ seen' = seen \cup items
          /\ sent' = sent /\ refused' = refused /\ kind' = kind
          /\ job'.do = "escalate" /\ job'.items = items
      BY <1>16 DEF PollHit
    <2>4. /\ excused \subseteq excused'
          /\ p.prev # cursor => excused' = excused \cup ((p.prev + 1)..Larger(v, cursor))
      BY <1>16 DEF PollHit
    <2>5. HitSentOrStaged'
      BY <2>2, <2>3 DEF LeadInv, HitSentOrStaged
    <2>6. \A i \in items : i <= v
      BY <2>1
    <2>7. \A i \in items : sent[i] > 0 => i \in excused' \cup refused
      <3> SUFFICES ASSUME NEW i \in items, sent[i] > 0 PROVE i \in excused' \cup refused
        OBVIOUS
      <3>1. CASE p.prev = cursor
        BY <2>1, <2>4, <3>1 DEF LeadInv
      <3>2. CASE p.prev # cursor
        BY <2>1, <2>4, <3>2 DEF Larger
      <3>3. QED
        BY <3>1, <3>2
    <2>8. \A i \in Items : sent[i] > 0 /\ i > v => i \in excused' \cup refused
      <3> SUFFICES ASSUME NEW i \in Items, sent[i] > 0, i > v PROVE i \in excused' \cup refused
        OBVIOUS
      <3>1. CASE i > cursor
        BY <3>1, <2>4 DEF LeadInv
      <3>2. CASE i <= cursor
        BY <3>2, <2>1, <2>4 DEF Larger
      <3>3. QED
        BY <2>1, <3>1, <3>2
    <2>9. HitSentOnce'
      BY <2>3, <2>4 DEF LeadInv, HitSentOnce
    <2>10. QED
      BY <2>2, <2>3, <2>5, <2>6, <2>7, <2>8, <2>9 DEF LeadInv, Dispatching
  <1>17. ASSUME Escalate PROVE LeadInv'
    <2>1. /\ job \in Job /\ job # NoJob /\ job.items = pending /\ pending \subseteq Items
          /\ Items \subseteq Int /\ cursor \in Int /\ sent \in [Items -> 0..2]
      BY <1>17, JobTypes, SchedulerAssumption
         DEF Escalate, SchedulerTypeOK, LeadInv, Dispatching, Items, NULL
    <2>2. /\ Bumped(sent, pending) \in [Items -> 0..2]
          /\ \A i \in Items : /\ sent[i] <= Bumped(sent, pending)[i]
                              /\ Bumped(sent, pending)[i] <= sent[i] + 1
          /\ \A i \in Items : i \in pending => Bumped(sent, pending)[i] > 0
          /\ \A i \in Items : i \notin pending => Bumped(sent, pending)[i] = sent[i]
      BY <2>1 DEF Bumped
    <2>3. /\ sent' = sent \/ sent' = Bumped(sent, pending)
          /\ UNCHANGED <<kind, polls, cursor, pending, seen, excused, phase>>
          /\ refused \subseteq refused'
      BY <1>17, <2>1 DEF Escalate
    <2>4. \/ sent' = Bumped(sent, pending) /\ job'.do = "clear" /\ job'.items = pending
          \/ pending \subseteq refused' /\ job'.do = "nothing"
      BY <1>17, <2>1, JobTypes DEF Escalate, Job
    <2>5. \A i \in Items : /\ sent[i] \in 0..2 /\ sent'[i] \in 0..2
                           /\ sent[i] <= sent'[i] /\ sent'[i] <= sent[i] + 1
                           /\ i \notin pending => sent'[i] = sent[i]
      BY <2>1, <2>2, <2>3
    <2>6. HitSentOrStaged'
      <3>1. seen \subseteq Items
        BY DEF SchedulerTypeOK
      <3>2. QED
        BY <2>3, <2>5, <3>1 DEF LeadInv, HitSentOrStaged
    <2>7. HitSentOnce'
      <3> SUFFICES ASSUME NEW i \in Items, sent'[i] > 1 PROVE i \in excused \cup refused'
        BY <2>3 DEF HitSentOnce
      <3>1. CASE i \in pending
        <4>1. sent[i] > 0
          BY <2>5
        <4>2. job.do # "clear"
          BY <1>17 DEF Escalate
        <4>3. QED
          BY <2>3, <3>1, <4>1, <4>2 DEF LeadInv
      <3>2. CASE i \notin pending
        BY <2>3, <2>5, <3>2 DEF LeadInv, HitSentOnce
      <3>3. QED
        BY <3>1, <3>2
    <2>8. \A i \in Items : sent'[i] > 0 /\ i > cursor => i \in excused \cup refused'
      <3> SUFFICES ASSUME NEW i \in Items, sent'[i] > 0, i > cursor
                   PROVE  i \in excused \cup refused'
        OBVIOUS
      <3>1. i \notin pending
        BY <2>1 DEF LeadInv
      <3>2. QED
        BY <2>3, <2>5, <3>1 DEF LeadInv
    <2>9. CASE sent' = Bumped(sent, pending) /\ job'.do = "clear" /\ job'.items = pending
      BY <2>1, <2>2, <2>3, <2>6, <2>7, <2>8, <2>9 DEF LeadInv, Dispatching, Live
    <2>10. CASE pending \subseteq refused' /\ job'.do = "nothing"
      BY <2>1, <2>3, <2>6, <2>7, <2>8, <2>10 DEF LeadInv, Dispatching, Live
    <2>11. QED
      BY <2>4, <2>9, <2>10
  <1>18. ASSUME ClearPending PROVE LeadInv'
    <2>1. job.at \in Time
      BY <1>18, JobTypes DEF ClearPending, SchedulerTypeOK
    <2>2. /\ pending' = {} /\ job'.do = "row"
          /\ UNCHANGED <<kind, polls, cursor, seen, sent, refused, excused>>
      BY <1>18, <2>1, JobTypes DEF ClearPending
    <2>3. HitSentOrStaged'
      BY <1>18, <2>2 DEF ClearPending, LeadInv, HitSentOrStaged
    <2>4. QED
      BY <2>2, <2>3 DEF LeadInv, Dispatching, HitSentOnce
  <1>19. ASSUME RecordFire PROVE LeadInv'
    <2>1. ~Dispatching /\ ~Dispatching'
      BY <1>19, JobTypes DEF RecordFire, Dispatching
    <2>2. QED
      BY <1>19, <2>1, LeadKept DEF RecordFire, Live
  <1>20. ASSUME Reload PROVE LeadInv'
    BY <1>20, LeadKept, JobTypes DEF Reload, Dispatching, Live
  <1>21. ASSUME Stop PROVE LeadInv'
    <2>1. /\ job'.do = "nothing" /\ phase' = "down" /\ polls' = {}
          /\ UNCHANGED <<kind, cursor, pending, seen, sent, refused>>
          /\ excused \subseteq excused'
          /\ job.do = "clear" => job.items \subseteq excused'
      BY <1>21, JobTypes DEF Stop
    <2>2. job.do = "clear" => pending \subseteq excused'
      BY <2>1 DEF LeadInv, Dispatching
    <2>3. HitSentOrStaged' /\ HitSentOnce'
      BY <2>1 DEF LeadInv, HitSentOrStaged, HitSentOnce
    <2>4. QED
      BY <2>1, <2>2, <2>3 DEF LeadInv, Dispatching, Live
  <1>22. ASSUME Link PROVE LeadInv'
    BY <1>22, LeadKept, JobTypes DEF Link, Dispatching, Live
  <1>23. ASSUME FeedGrows PROVE LeadInv'
    BY <1>23, LeadKept, JobTypes DEF FeedGrows, Dispatching, Live
  <1>24. ASSUME Tick PROVE LeadInv'
    BY <1>24, LeadKept, JobTypes DEF Tick, Dispatching, Live
  <1>25. ASSUME UNCHANGED vars PROVE LeadInv'
    BY <1>25, LeadKept DEF vars, Dispatching, Live
  <1>26. QED
    BY <1>1, <1>2, <1>3, <1>4, <1>5, <1>6, <1>7, <1>8, <1>9, <1>10, <1>11, <1>12,
       <1>13, <1>14, <1>15, <1>16, <1>17, <1>18, <1>19, <1>20, <1>21, <1>22, <1>23,
       <1>24, <1>25
       DEF Next, Replay, Attempt, Polled, Stretch

(* Every hit was sent, is staged or was refused, for any feed, any order of *)
(* polls and any kills.                                                     *)
THEOREM HitsKept == Spec => []HitSentOrStaged
  <1>1. LeadInv => HitSentOrStaged
    BY DEF LeadInv
  <1>2. QED
    BY <1>1, TypeInit, TypeStep, LeadInvInit, LeadInvStep, PTL DEF Spec

(* No hit is sent twice, but for the kills, refusals and overlapping polls  *)
(* the property names.                                                      *)
THEOREM HitsOnce == Spec => []HitSentOnce
  <1>1. LeadInv => HitSentOnce
    BY DEF LeadInv
  <1>2. QED
    BY <1>1, TypeInit, TypeStep, LeadInvInit, LeadInvStep, PTL DEF Spec

=============================================================================
