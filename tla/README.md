# Verification of switchroom's message and approval core

switchroom runs coding agents behind a Telegram gateway. A message a user sends
must reach the agent's CLI session exactly as promised although the session
restarts, the bridge flaps, the process is killed and the CLI swallows input; it must
be answered or somebody must be told; the answer must be posted, once; a scheduled run
must happen or be reported; and what an operator approved must authorize what was
approved, once, in time. This
directory holds TLA+ models of that core, the TLC runs that check them on small
instances and TLAPS proofs of the central results for all instances.

- `PROJECT.json`: components, runs, mutants (plausible bugs each property catches),
  the map from every definition to the source lines it models, findings, hazards and
  theorems.
- `*.tla`, `*.cfg`: the modules and the TLC configurations.
- To run: `tlc -config X.cfg MCModule` and `tlapm ModuleProofs.tla` in this directory.

Paths below are relative to `telegram-plugin/gateway/` unless they start with `src/`.

## 1. Inventory

### How a message travels

Telegram update → `handleInbound` (gateway.ts) → the **delivery machine** decides
*deliver* or *buffer* → either `sendToAgent` writes it to the **bridge** connection of
the **IPC server**, after an awaited composer clear, or it goes into the **pending
inbound buffer**, mirrored in the **spool** on disk → a **drain** (bridge registration,
turn end, idle tick, silence fallback) sends what was buffered → the **deliver-until-acked
queue** re-sends what the CLI did not enqueue → the session's events (`enqueue`,
outbound, `turn_end`) drive the machine → the **obligation ledger** watches that the
message is answered, the **outbox** that the answer is sent. Tool calls that need a human
go through cards, the **verdict buffer** and, across processes, the **approval kernel**.

Beside the gateway, the **agent scheduler** injects cron fires and the hits of polls into
the same path, and the **startup mutex** keeps a second gateway of the same agent away.

The gateway is one JavaScript thread: a handler is atomic up to its next `await`, its
process may die anywhere. So is the scheduler. The Stop hook is a process of its own on
the outbox's files; kernel and vault broker are two processes on one SQLite file.

### Components

| Component | State | Operations | What makes it hard | Correct means |
|---|---|---|---|---|
| Inbound spool (`inbound-spool.ts`) | map of un-acked entries, notice windows, an append-only file | put, ack, dropMatching, sweepEscalations, compact, hydrate | crash between two records, failed and torn appends, compaction | a crash loses and resurrects nothing; the escalation clock never restarts; notices keep their cooldown |
| Pending inbound buffer and drains (`pending-inbound-buffer.ts`, `turn-end.ts`) | bounded FIFO per agent | push, drain, redeliver, re-buffer | eviction at the cap, drains that miss, crash between send and ack | a buffered message is delivered or retracted, repeats only after a cut drain |
| Delivery machine (`inbound-delivery-machine*.ts`) | global state (dead, idle, in turn), turn clocks, last outbounds | bridgeUp/Down, inbound, turnStart/End, outbound, tick | siblings of one chat, TTL against late output | a silent turn expires, a gate that is shut can open |
| IPC server (`ipc-server.ts`) | connections, index by agent name | open, register, evict, close, sendToAgent | a replacement registers before the old close event | the newest registered connection stays routable |
| Verdict buffer (`pending-permission-decisions.ts`) | pending verdicts | push, drain | drain hangs on the machine's dead-to-alive edge | a buffered verdict is re-sent when the bridge is back |
| Deliver-until-acked queue (`inbound-delivery-confirm.ts`, `delivery-confirm-wiring.ts`) | one tracked message per chat key | track, ack, sweep, re-deliver, forget | ack racing an await, synthetic turns, composer shared by chats, one slot per key | a sent message is held until it lands |
| Approval kernel (`src/vault/approvals/kernel.ts`, `kernel-server.ts`) | nonces, decisions, audit | request, consume, record, lookup, revoke | requests and lookups of two processes interleave between select and write; expiry boundaries | allow_once grants once; timed grants end; decisions trace to a tap; caps are overshot by overlapping checks only |
| Approval client (`src/vault/approvals/wait.ts`) | none | request, poll | polls a scope, not its request | the answer is the answer to this request |
| Obligation ledger (`obligation-ledger.ts`, `obligation-wiring.ts`, `escalation-drive.ts`, `captured-answer-resume.ts` …) | open obligations with counters and clocks, a snapshot file, sends in flight | open, close, note a turn end, represent, resume, settle, nudge, hydrate | every rung waits for windows that turns keep moving; acknowledgements and rerouted answers look like answers; sends time out and land later; restart; failed writes | every message is answered or escalated, boundedly, the operator nudged once |
| Outbox (`telegram-plugin/outbox.ts`, `outbox-sweep.ts`, the Stop hook, the flood queue, the turn flush) | record files, journal | capture, claim, send, journal, release, reclaim | three writers and two senders on the same files; crash between send and journal; slow send against the reclaim | an answer is never lost, is posted, and twice only after a named mishap |
| Startup mutex (`startup-mutex.ts`) | a lock file | link, inspect, unlink, retry, release, legacy fallback | two booters recovering one stale lock, recycled pids, shutdown against boot | one owner unless a live record was destroyed; a lone gateway is never kept down |
| Flood breaker, 429 ledger, reply queue, send gate | windows, queues | trip, probe, flush | retries against windows | nothing is sent into a window, nothing is lost |
| Agent scheduler (`src/agent-scheduler/`, `src/scheduler/`) | audit log, poll cursor and staged escalation on disk; timers, polls in flight | boot scan, replay, notice, recover, fire, defer, poll, escalate, reload | kill between dispatch, clear and record; edges of two time windows; overlapping polls | no run within the lookback is silently dropped, no action twice, no poll hit lost |
| Always-allow queue, worktree claims, vault locks, auth broker failover, buzz gateway, host control | files and queues | – | stale recovery, retries | – |
| CLI, config, setup, web, integrations, rendering, images | – | – | mostly sequential | – |

Every component, with its status and the reason when it is left out, is in
`PROJECT.json`.

### Hazards

The 40 hazards of `PROJECT.json` are what the properties were chosen for. Two have no
property: the scope-keyed poll of `waitForApproval` (planned), and the sibling turn end of
the delivery machine, where the code is known to miss its promise (section 3, *Noted*).

## 2. Modules

| Module | Models | Extends / composes |
|---|---|---|
| `InboundSpool` | the spool | – |
| `InboundPipeline` | handleInbound's routing, buffer, drains, escalation timer, boot | extends `InboundSpool` |
| `InboundPromise` | abstract: what the user is promised | implemented by `InboundPipeline` |
| `DeliveryMachine` | the delivery machine | – |
| `BridgeLink` | IPC connections, verdict buffer | extends `DeliveryMachine` |
| `DeliveryConfirm` | deliver-until-acked queue, its sweep, the sites that enrol | – |
| `ApprovalKernel` | nonces, decisions, two-process lookups | – |
| `StartupMutex` | the lock file and the gateways that boot, stop and crash over it | – |
| `Outbox` | captures, sweeps, flush, journal | extends `StartupMutex`: every owner sweeps |
| `ObligationLedger` | unanswered messages, the sweep, its sends, the snapshot | – |
| `Scheduler` | one cron entry, its files, boot recovery and live loop | – |
| `…Proofs` | theorems | extend the module they are about and `TLAPS` |
| `MC…` | instances for TLC | extend the module they instantiate |

An operator whose comment starts with "Variant" is a mutated form of the definition that
follows it; no specification uses one.

### InboundSpool

`live` is the in-memory map, `disk`/`escDisk` are what `hydrate()` would rebuild from the
file, `torn` that the last line lacks its newline. An append succeeds, fails before or
after the write, or is torn (`Outcomes`). `sweepEscalations` and `dropMatching` write
several records: they run as a `job` of one record per step, which nothing interleaves
with and a crash may cut. Compaction is part of the action whose append triggered it
(`Settle`); whether a threshold append compacts is a choice, since record sizes are
abstracted. The sweep of one entry is three steps, with a crash possible between any two:
the tombstone, the record of the notice window, and `onEscalate`, which sends the notice
without waiting for it and may fail to. Time is a bounded counter.

### InboundPipeline and InboundPromise

One agent, ordinary user messages. `sending` is the pre-send await of `handleInbound`;
`draining`, `unacked` and `missed` are the positions in the loop of
`redeliverBufferedInbound`, split because a crash can fall between the send of a merged
group and the acks of its originals; each group of a drain is sent or missed by itself, and a
turn may end while a message is in the await. A drain may also find no bridge
(`DrainOffline`). `bridge` merges two facts of the code, that the machine is alive and that
a connection is reachable; `BridgeLink` keeps them apart. `GatewayCrash` includes the boot: hydrate, TTL
filter, push of every live entry, eviction past the cap. The abstract specification has one
variable, each message's fate (new, promised, kept, retracted); the refinement mapping
reads it off the spool, the queue and what was delivered.

### DeliveryMachine and BridgeLink

The machine's `global` is `"dead"`, `"idle"` or the key whose turn is active; clocks are
ages that saturate where the code stops distinguishing them, so the state space is finite
without a time bound. `BridgeLink` adds connections (new, open, registered, closed, gone),
the index by name and the verdicts. A connection registers as the agent or as a relay, and may
register again under the other name; every named registration and every named close drives
the one machine, as in `onClientRegistered` and `onClientDisconnected`; `closed` (by replacement or watchdog) and `gone` (the close event was handled)
are separate, and everything may happen between them.

### DeliveryConfirm

`pending` maps each chat key to its tracked message. `clearing` and `awaiting` are the two
awaits (`handleInbound`'s and `redeliverStrandedInbound`'s), between which everything may
happen. The CLI is external, modelled from how the code describes and uses it: a
notification is submitted, with what the composer held, as one enqueue, or strands in the
composer; the composer clear is best-effort. Bridge flaps lose undelivered enqueue events.

### ApprovalKernel

A request is two steps, the count of the open cards (`CheckCaps`) and the insert (`Request`), in
each of the processes (`Servers`) that serve it on the file. A lookup is two steps as well: the select (`LookupByScope`, `LookupByRequest`)
takes a snapshot, the second acts on it (`GrantOnce`, `GrantTtl`, `GrantAlways`,
`DriftRevoke`, `Refuse`), with any step of the other process in between. Both tap paths are
there: `approval_consume` then `approval_record`, and the atomic consume-and-record.

### StartupMutex and Outbox

Every file system call of `acquireStartupLock`, of the shutdown and of the legacy fallback
is a step, with crashes and container restarts between any two; a pid is recycled after
its process. Reuse of a pid within one boot of the container, while a record still names it, is
excluded: it needs the pid counter to wrap around in that time. `breached` observes that a process destroyed the record of another live one
(the code can: see *Noted*), `contended` that acquisitions overlapped.

A file of the outbox is the age of its mtime (absent, fresh, past the quiet period, past
the sending timeout); a rename keeps it, as `reclaimStaleSending` sees it. A sweep holds
its list and the journal as read at its start; it awaits only its sends. `outboundDedup` knows
texts, not nonces (`TextOf`), and a flush enters its text whether or not it was delivered, so
that a sweep within the cache's TTL takes the record of a failed flush for delivered. The hook is
between its checks and its write; the flush between start, landing and journal. A crash of
the owner ends its sweep and its flushes. `mishap` collects the nonces for which the code
cannot know what happened: a delivery cut between landing and journal, the flush and the
sweep sending at once, the hook capturing after a delivery its check had not seen. The
journal's compaction to its newest 2000 entries is left out.

### ObligationLedger

An entry is its open flag, its two counters and whether a partial answer was captured.
Every window the sweep consults (trailing-answer and per-represent grace, the
background-work ceiling, the settle window) is a flag that time may clear at any moment;
`heard` is what history shows for the topic since the entry was opened (nothing, a short
outbound, a substantive one), and an outbound counts for every entry of its topic, as in
the code; `route` are the topics the router has just sent replies to that named the entry's
topic, `rerouted` that a substantive outbound was then found there. A reply of the turn is
interim, final, handed to the flood queue or failed; other sends (acknowledgements, a worker's
trailing answer) come at any time. `why` observes the reason the code had for a close, and
`attempts` the nudges really sent, which no restart rolls back. `buffer`, `cli`, `gate` and `session` are the way of a message or a re-present to
the agent. Sends in flight (flush, resume, nudge) end later, in any order; a nudge's
deadline may pass although the nudge lands. Every mutation writes the snapshot or fails to;
`Crash` reloads it.

### Scheduler

One entry of each kind (prompt, poll, action), time in ticks. A synchronous stretch
(dispatch, `clearPending`, `recordFire`) runs as a `job`, which only a kill can cut. `Boot` reads
the audit log once; replay, notice, recovery and registration follow in the code's order.
`missed` and `stale` are the results of the two scans, written from the latest match of the
cron expression (`LastDue`, a constant: any matcher). A poll reads the cursor before it
awaits the feed, so two of them can overlap. `startedAt` is taken before the await of the quota
gate, so the row of a retry carries any time since its tick (`Started`).

## 3. Runs

| Run | Instance | Distinct states | Shows |
|---|---|---|---|
| spool | 2 ids (one a briefing), 1 chat, 1 fault of any kind, notices that fail, 1 crash, time 4 | 557 165 | `CrashLosesNothing`, `SyncedPutSurvives`, `BurstAnnounced`, `EscalationClockKept`, `NoticeSpacing` |
| pipeline | 3 ids, cap 2, 1 crash, time 2 | 420 800 | `KeepsPromise` (refinement, with its liveness), `RepeatsAccounted` |
| link | 3 connections, each the agent's or a relay's, 1 verdict, 2 topics of one chat | 1 429 568 (symmetry) | `SilentTurnsExpire`, `NewestRoutable`, `VerdictsResent` |
| confirm | 2 chats, 1 message each | 103 016 | `LoneNeverDropped`, `LoneLands` |
| kernel | 3 requests, 2 processes, caps 1, 1 decision, 2 concurrent lookups, 2 approver sets, time 2 | 1 769 430 (symmetry) | `AllowOnceAtMostOnce`, `TimedGrantEnds`, `DecisionTraced`, `PendingCapped` |
| outbox | 2 gateways, 1 turn, 1 queued reply, of the same text, 2 captures each, 1 fault | 464 897 | `OneOwnerUnlessBreached`, `NeverBlockedAlone`, `NeverLost`, `PostedOnce`, `EventuallyPosted` |
| ledger | 1 message in a topic, a second topic (the root), 1 represent, 2 escalation attempts, 2 faults | 351 388 | `NeverDropped`, `OneNudge`, `LadderBounded`, `EventuallySettled` |
| ledger_pair | 2 messages of one topic, caps 1, the agent works on the first only | 274 910 | `EventuallySettled`: the oldest-first sweep does not starve the second |
| scheduler | half-minute ticks, due minutes 1, 4, 5, window 2 min, lookback 4 min, tolerance 90 s, 2 attempts, 2 feed items, 2 kills | 4 370 811 | `NoRunSilentlyDropped`, `ActionAtMostOnce`, `HitSentOrStaged`, `HitSentOnce` |

Why the bounds are enough: the spool needs two entries so that one can be escalated or
compacted around the other, a cooldown longer than the escalation bound so that a second
burst falls inside the window and a later one outside it, and one crash, since boot resets
all volatile state. The pipeline needs one message more than the cap for an eviction and
two media messages so that a drain has two groups. Three connections allow a chain of two
replacements whose close events arrive in either order. The third connection may be a relay that keeps the machine alive. The kernel's renewals need a
lifetime shorter than the horizon and than the `ttl_ms` asked for; its caps need two requests
that pass the check together and a third that meets full caps; lookups need two on one decision.
The per-agent and the global cap coincide in this instance; `CapsHold` proves them for any.
Timers in `DeliveryMachine` need one step below and one above each threshold, which 1 gives.
The mutex's races need two gateways and one fault each; the outbox's need a second capture of
one nonce, so that a delivered record can come back, and a nonce of each producer. The
ledger has every kind of rung and a nudge that can be retried (the code's caps are two and
three; the proofs are for any); two faults cut an attempt and fail a write in one behaviour. The scheduler's due minutes are chosen so
that two of them lie within one tolerance, one falls out of the window while the scheduler is
down and the scans of two boots overlap; two kills let a boot be killed and followed by
another.

`CHECK_DEADLOCK FALSE` stands where a bounded clock or budget ends the behaviour (spool, kernel,
scheduler), or where all answers are posted and everything may rest (outbox);
the others have no deadlock.

### Fairness

- *pipeline*: the clock, the escalation interval and a suspended `handleInbound` are served
  by the event loop however busy the drains keep it (strong fairness, since a drain
  disables them for as long as it runs); a handler that has started runs to its end (weak).
  Bridge, turns and arrivals get none: the promise must hold if the bridge never comes back.
- *confirm*: timers run, turns end, cards are answered or expire, the supervisor restarts
  the bridge (weak). Strong fairness says that turns that come and go do not meet every
  sweep for ever, and that a message re-sent for ever is submitted at some time: without
  the latter nothing the gateway does can help. `LoneLands` assumes besides that cards stop
  opening, because `sweep` resets an entry's clock before `isRedeliverySuspended` is asked,
  so ever new cards starve the key.
- *outbox*: the supervisor restarts a gateway that is down, file system calls return, the 5 s
  tick fires, the retry policy ends every send, flood windows close, files age (all weak).
  Nothing is assumed of the hook or the flush, and one fault may fall anywhere.
- *ledger*: the sweep's interval, the drain, clocks, `withDeadline` of a
  nudge and the bridge's reconnection (weak). That the turn gate opens time and again is not
  among them: the TTL tick clears silent turns that have a clock, and a sibling turn end can
  leave the gate shut without one (*Noted*). `EventuallySettled` has it as a hypothesis. A resume is assumed to end: its retries are
  bounded, but unlike the nudge it has no deadline. The agent owes nothing: no turn need begin,
  end or reply, and background work may be reported for ever.

The other runs check safety only.

### Findings (runs that are violated)

| Run | Property | What happens |
|---|---|---|
| confirm_dropped | `NeverDropped` | a message stranded by a drain is wiped from the composer and from the queue by the next delivery of its chat |
| outbox_requeued | `QueuedRepliesKept` | a flood-queued reply is named by its content, so the journal of an earlier delivery makes the sweep discard a later reply with the same text |
| scheduler_recovery | `BootRecovers` | a boot with nothing to replay recovers staged escalations before its IPC client has begun to connect: always refused, and overwritten by the next hit |

### Noted while modelling, without a run

Spool, buffer and machine:
- a torn line is joined with the next record and both are skipped at boot, the second although
  its fsync succeeded (`inbound-spool.ts:368`, header `:32`); `SyncedPutSurvives` therefore
  speaks of puts after an intact line;
- the spool reports recovery after the next successful append although earlier entries are
  still in memory only (`:376`); notices are coalesced per chat (`:599`) although the header
  (`:21`) speaks of every entry;
- the escalation sweep tells the user to resend (`:590`), and the copy in the queue is
  delivered later (`gateway.ts:11780`);
- per-chat FIFO is lost when the bridge flaps during the pre-send await (comment at
  `gateway.ts:15330`);
- a turn end in a sibling topic clears the active turn's clock and leaves the gate shut
  (`inbound-delivery-machine.ts:340`, against `inbound-delivery-machine-shadow.ts:52`);
- a bridge that registers while a relay, or an older connection whose close event is still to
  come, keeps the machine alive is redundant, and the verdicts buffered meanwhile stay buffered
  beside it (`:234`, against `pending-permission-decisions.ts:18-23`); `VerdictsResent` names the
  case. Conversely the close of a relay or the late close of a replaced connection makes the
  machine dead beside a live bridge (`gateway.ts:10587`; the watchdog alone tells relays apart,
  `gateway.ts:10377`);
- a crash between the tombstone and the notice retracts a message without a word
  (`inbound-spool.ts:590-601`, against "visibly retracted", `gateway.ts:11781`), and if the
  window record was written the rest of the burst is silent too: the case `unheard` of
  `BurstAnnounced`.

Kernel: both processes can pass the cap check on the last place (`kernel-server.ts:402`,
`src/vault/broker/server.ts:2999`); `approval_record` can be repeated for one consumed nonce (`kernel-server.ts:559`);
`allow_ttl` without `ttl_ms` has no expiry (`kernel.ts:632`), which `TimedGrantEnds` excludes;
the per-agent retry query binds its parameters in the wrong order (`kernel.ts:198`, comment
`:182`), so a limited agent always hears the default.

Startup mutex:
- the stale-record race (`startup-mutex.ts:321-331`) and `clearPidFile` after the release
  (`gateway.ts:22688-22695`) both remove the record of a live gateway, and the release does
  not check whose record it unlinks (`startup-mutex.ts:368-393`): the cases `breached` names,
  against `gateway.ts:9250`;
- "MUST treat thrown errors as fatal" (`startup-mutex.ts:203`), while the caller falls back to
  the overwriting `writePidFile` (`gateway.ts:9310-9337`, `pid-file.ts:32`).

Outbox: a flush that failed is entered into `outboundDedup` like one that was delivered
(`stream-render.ts:2617`, against "after a successful send", `../recent-outbound-dedup.ts:84`), so a
sweep within the TTL journals and deletes the captured record as "already delivered"
(`outbox-sweep.ts:400`): the exception `FlushFailed` of `NeverLost` and `EventuallyPosted`; flush and sweep can post the same answer when they overlap (`outbox.ts:29`); the reclaim
measures the age of the record, not of the claim (`outbox.ts:371-389`), so a slow send of an old
record can be reclaimed while it runs; the hook's check and write are not one step.

Obligation ledger:
- `replyCalled` is set by the tool call, whatever becomes of the send
  (`stream-render.ts:1332`), and closes the entry at the turn end, against
  `obligation-wiring.ts:75-77` and "a substantive answer (not a bare interim ack)",
  `obligation-ledger.ts:9-14`: `TakenAsAnswered` lists what the code settles for;
- an entry about to be escalated is closed in silence on a substantive outbound in the topic a
  reroute record names, whatever that outbound answered (`escalation-staleness.ts:399-420`);
- any outbound of the topic, of one character, suppresses a re-present; the represent branch
  asks that before it looks at the captured snapshot (`obligation-wiring.ts:252`), so the
  landed head of a partial answer closes the entry and its tail is never resumed
  (`captured-answer-resume.ts:25`);
- a resume has no deadline and blocks the others (`gateway.ts:9849-9857`); a timed-out nudge may
  land late; the sweep may re-present while a flush is in flight; the comment at
  `obligation-wiring.ts:245-249` is outdated.

Scheduler:
- a replayed run is audited at the boot's time, so each boot within the window replays it again,
  which the spool's dedup hides only until the ack (`gateway.ts:11425-11436`);
- `socket.write` returning FALSE on back-pressure counts as a refusal although the bytes are
  sent; overlapping polls escalate twice (`poll-state.ts:14-20`); a kill between dispatch and
  clear sends again; a refused escalation is overwritten by the next hit;
- a fire the gateway only buffered in memory is audited as delivered; a minute between the scan
  and the registration is not fired; the 90 s tolerance lets the row of one minute cover the
  adjacent one (`replay.ts:33-38`), which `NoRunSilentlyDropped` allows for;
- a reload cancels pending quota retries; rows are keyed by `scheduleIndex`, which shifts when an
  entry is removed; the NOTE at `poll-state.ts:20-25` is outdated.

## 4. Proofs

All for arbitrary constants, from the named assumptions of the modules (`SpoolAssumption`,
`KernelAssumption`, `MachineAssumption`, `LinkAssumption`, `ConfirmAssumption`,
`MutexAssumption`, `OutboxAssumption`, `LedgerAssumption`, `SchedulerAssumption`), which TLC
evaluates in every run.

- **InboundSpoolProofs**: `TypeCorrect`, `CrashSafe`, `SyncedPutsKept`, `BurstsAnnounced`,
  `ClockKept`, `NoticesSpaced`.
  `CrashLosesNothing` is inductive together with the types and the shape of a job: after
  each record file and memory agree while no append failed (`Mirror`), so the cut of a job
  needs no case of its own. For the spacing of notices the last notice of a chat must be
  what memory records as its window (`NoticeKnown`), and `Mirror` makes it survive a boot.
  A synced put is live in memory and on disk until it is resolved (`SyncedHeld`: the disk alone is not
  inductive, since compaction rewrites it from memory). A window, in memory or on disk, is never
  younger than the chat's last retraction (`WindowsOld`), so the first retraction of a burst finds
  the window open; from there its notice is sent, owed, or lost for one of the two named reasons.
- **InboundPipelineProofs**: `PipelineRunsSpool` and `SpoolHoldsInPipeline` (every step of the pipeline is
  an operation of the spool or leaves it alone, so the spool's theorems hold inside the gateway),
  `PipelineTypeCorrect`, `RepeatsHaveReasons`, `PromiseNeverForgotten`, `SyncedPromisesKept`, for any set of messages, cap,
  number of crashes and of failed appends. The lemmas at the top treat a queue without repeats as a
  set: what a slice, a push at the cap, the first group of a drain and the boot replay leave of it.
  - `PipeInv` says where a message can be: each queue holds it once (`QueuesOK`), the buffer, the
    drain's three lists and the pre-send await do not share it (`Apart`), one handler runs at a time
    (`OneThread`), and what has not arrived is nowhere (`Fresh`). The types alone are not inductive:
    a drain pushed back over an id the buffer already had would put it there twice.
  - `RepeatInv` counts: the sends of a message plus those still owed to it never exceed one plus the
    excuses. Owed is a copy in a queue and an entry that outlived its ack, in memory or only on disk
    (`Ghost`). A cut drain is one excuse. A failed append is two, because a torn line loses the next record
    too (`TornCounted`); with `1 + cutDrains + faults` TLC finds a counterexample in an instance that
    allows a fault. `RepeatsAccounted` states the bound the proof gives.
  - `SpoolBacked` says that a queued message that was neither sent nor retracted is live in the
    spool, so an eviction or a cut drain loses a copy only. With `Mirror` of the spool a crash then keeps
    every fate, and each step maps to a step of `InboundPromise` or a stutter. The theorem assumes
    `NoCrashAfterFault`: a process that dies after a failed append forgets what it could not write,
    as the code says (`inbound-spool.ts:397-399`). Without that assumption `SyncedPromisesKept` says
    that a promise whose record was durably written is still never forgotten.
- **ApprovalKernelProofs**: `KernelTypeCorrect`, `OnceOnly`, `TimedEnds`, `Traced`, `CapsHold`. The
  inductive invariant has six parts beside the types: a decision that granted once is
  revoked (`OnceInv`); an expiry never exceeds the hard cap, in the row and in every
  snapshot (`ExpiryInv`, `SnapshotInv` — a renewal writes from a snapshot, so the bound on
  the row alone is not inductive); a consumed nonce was consumed in time (`NonceInv`); nonce
  and decision point at each other (`LinkInv`); what a process has let past the caps is no row yet and
  belongs to it alone (`AskInv`). The caps count open and admitted cards together, so that an insert
  changes nothing and a check adds one of at most `Overlap` too many.
- **BridgeLinkProofs**: `LinkRunsMachine` shows that every step of the composition is a step
  of the machine or leaves it alone, so machine results carry over; `SilentTurnsEnd` needs
  that a turn further past its TTL than the last tick had sent something inside the window
  at that tick (`TickInv`);
  `LinkTypeCorrect`, `NewestStaysRoutable` and `VerdictsAreResent` are one induction.
- **DeliveryConfirmProofs**: `ConfirmTypeCorrect`, `LoneMessagesKept`. The promise needs
  that an enqueue event only carries what landed (`Backed`: an ack is never early) and that
  what is buffered arrived (`Known`). Two lemmas carry the argument: a step that sends
  nothing keeps every debt, and a step that sends n keeps the debts of the other keys,
  since a rival of n is no longer alone.

- **OutboxProofs**, the mutex: `MutexSafe`, by one invariant: until a breach the file names whoever owns the
  lock (`FileNamesOwner`); a booting process that is alive beside another is noted as contended, so
  that whoever meets a record after it removed one has met another process (`MeetingsNoted`,
  `SecondRecordExcused`); and a booting process never finds a record of its own (`NoOwnRecord`,
  `BootIdsStamped`).
- **OutboxProofs**, the outbox: `OneOwner` and `NotBlockedAlone` carry the mutex's results over (every step of the
  composition is a mutex step or leaves it alone). `AnswersKept` needs what a post, a journal entry,
  a failed flush and a snapshot of the journal imply of each other (`PostedFacts`). `AnswersPostedOnce` needs
  that sweeps run only in an owner (`SweepsHeld`) and, per nonce, that the record, the claim, the
  journal and the sends in flight are never two chances to post (`Once`).
- **ObligationLedgerProofs**: `LedgerTypeCorrect`, `NothingDropped`, `NudgedOnce`, `LadderIsBounded`, from
  one invariant per message (`Accounted`): an entry that is not open was closed for a reason or after a
  nudge (`Kept`, `Excused`); its counter, in memory and on disk, misses at most one of the attempts
  made per fault and invents none, and an open entry without a nudge in flight has one to spare
  (`Spare`); and a nudge that was received is the last one unless some nudge's fate was lost
  (`LastNudge`). The bound on the attempts made does not follow from the cap of the counter alone,
  since a crash brings back what the disk holds.
- **SchedulerProofs**: `SchedulerTypeCorrect`, `RunsNotDropped`, `ActionsOnce`, `HitsKept`, `HitsOnce`, for any cron
  expression, window, lookback and tolerance. `BootInv` ties every successful row to a run the
  gateway took and says that until a boot is done its runs are covered unless something is left
  to replay or to announce; its core is that the two scans meet (`ScansMeet`). `ActionInv` says
  that a fire with an armed timer has not been performed; `LeadInv` that what is staged lies
  under the cursor, is what the running stretch dispatches and, unless excused, was not sent
  before.

Only model-checked: liveness (`LoneLands`, `EventuallyPosted`, `EventuallySettled`, and what
`KeepsPromise` says beyond its safety half), since fairness and ENABLED are beyond this prover.
Every invariant and every action property that a passing run checks is also a theorem.

## 5. Plan

Done: the spool, the pipeline with its abstract specification, the machine with its link, the
deliver-until-acked queue, the kernel, the startup mutex composed with the outbox, the obligation
ledger, the scheduler, and the proofs above.

Next, in this order:

1. `ApprovalWait`: `waitForApproval` composed with `ApprovalKernel`; an answer belongs to the
   caller's own request, or a run shows the stale answer.
2. The buffer's eviction tiers and the verdict cap, in `InboundPipeline` and `BridgeLink`; parked
   turn starts.
3. The always-allow queue, worktree claims, the cron session in the gateway.

### Not modelled

Not planned: formatting and cards, CLI and setup commands, clients of external services, images and
packaging: sequential code, or behaviour that is not in this repository. Most of the repository's
lines are of this kind; the models cover the delivery, approval and scheduling core.
Within the modelled parts: the journal's compaction, the sweep's back-off, per-chunk sends,
the bounded memory of the reroute registry, the scheduler's own lock and its watcher of an empty
schedule, message validation. `PROJECT.json` lists every component with its status and reason.
