---------------------------- MODULE OutboxProofs ----------------------------
(***************************************************************************)
(* Safety of the startup mutex and of the outbox behind it, for any number *)
(* of gateways, turns, queued replies, writes and faults.  The lemmas about *)
(* the mutex are about [MutexNext]_lockVars, so that they hold of it alone *)
(* (MutexSpec) and inside the outbox (Spec).                               *)
(***************************************************************************)
EXTENDS Outbox, TLAPS

-----------------------------------------------------------------------------
(* The mutex                                                               *)

LockTypeOK ==
    /\ pc \in [Gateways -> Down \cup Booting \cup {"held", "released"}]
    /\ tries \in [Gateways -> 0..2]
    /\ file \in [pid : Gateways \cup {"none"}, boot : Nat]
    /\ boot \in Nat \ {NoBootId}
    /\ contended \subseteq Gateways
    /\ breached \in BOOLEAN /\ fellBack \in BOOLEAN

\* A process that may still fail an attempt has failed at most one.
AttemptsLeft ==
    \A g \in Gateways : pc[g] \in {"link", "read", "unlink"} => tries[g] \in {0, 1}

\* Until a breach the file names whoever owns the lock.
FileNamesOwner ==
    breached \/ \A g \in Gateways : pc[g] = "held" => file.pid = g

\* Two processes that are alive while one of them is booting.
MeetingsNoted ==
    \A g, h \in Gateways : g # h /\ pc[g] \in Booting /\ isAlive(h) => g \in contended

\* A booting process has no record of its own in the file.
NoOwnRecord ==
    \A g \in Gateways : pc[g] \in Booting => file # [pid |-> g, boot |-> boot]

\* Only the absent record names no process or, until a fallback, no boot.
BootIdsStamped ==
    /\ file.pid = "none" => file = NoRecord
    /\ file.boot = NoBootId => file = NoRecord \/ fellBack

\* Whoever meets a record after it removed one has met another process.
Excused(g) == g \in contended \/ fellBack

SecondRecordExcused ==
    \A g \in Gateways :
        /\ pc[g] = "link" /\ tries[g] = 1 /\ file # NoRecord => Excused(g)
        /\ pc[g] \in {"read", "unlink"} /\ tries[g] = 1 => Excused(g)
        /\ pc[g] \in {"final", "blocked"} => Excused(g)

MutexInv ==
    /\ LockTypeOK /\ AttemptsLeft /\ FileNamesOwner /\ MeetingsNoted
    /\ NoOwnRecord /\ BootIdsStamped /\ SecondRecordExcused

LEMMA MutexInvInit == MutexInit => MutexInv
  <1> SUFFICES ASSUME MutexInit PROVE MutexInv
    OBVIOUS
  <1> USE MutexAssumption DEF MutexInit, NoRecord, NoBootId, Down, Booting
  <1>1. LockTypeOK
    <2>1. breached \in BOOLEAN /\ fellBack \in BOOLEAN
      BY Zenon
    <2>2. boot \in Nat \ {NoBootId}
      OBVIOUS
    <2>3. file \in [pid : Gateways \cup {"none"}, boot : Nat]
      OBVIOUS
    <2>4. QED
      BY <2>1, <2>2, <2>3 DEF LockTypeOK
  <1>2. AttemptsLeft
    BY DEF AttemptsLeft
  <1>3. FileNamesOwner
    BY DEF FileNamesOwner
  <1>4. MeetingsNoted
    BY DEF MeetingsNoted
  <1>5. NoOwnRecord
    BY DEF NoOwnRecord
  <1>6. BootIdsStamped
    BY DEF BootIdsStamped
  <1>7. SecondRecordExcused
    BY DEF SecondRecordExcused
  <1>8. QED
    BY <1>1, <1>2, <1>3, <1>4, <1>5, <1>6, <1>7 DEF MutexInv

LEMMA LockTypeStep ==
  ASSUME LockTypeOK, AttemptsLeft, [MutexNext]_lockVars
  PROVE  LockTypeOK'
  <1> USE MutexAssumption DEF LockTypeOK, AttemptsLeft, NoRecord, NoBootId, Down, Booting, Destroys
  <1>1. ASSUME NEW g \in Gateways, Boot(g) PROVE LockTypeOK'
    BY <1>1 DEF Boot
  <1>2. ASSUME NEW g \in Gateways, LinkTmp(g) PROVE LockTypeOK'
    BY <1>2 DEF LinkTmp
  <1>3. ASSUME NEW g \in Gateways, ReadHolder(g) PROVE LockTypeOK'
    BY <1>3 DEF ReadHolder
  <1>4. ASSUME NEW g \in Gateways, UnlinkStale(g) PROVE LockTypeOK'
    BY <1>4 DEF UnlinkStale, NextAttempt
  <1>5. ASSUME NEW g \in Gateways, GiveUp(g) PROVE LockTypeOK'
    BY <1>5 DEF GiveUp
  <1>6. ASSUME NEW g \in Gateways, FallBack(g) PROVE LockTypeOK'
    BY <1>6 DEF FallBack
  <1>7. ASSUME NEW g \in Gateways, Release(g) PROVE LockTypeOK'
    BY <1>7 DEF Release
  <1>8. ASSUME NEW g \in Gateways, ClearAndExit(g) PROVE LockTypeOK'
    BY <1>8 DEF ClearAndExit
  <1>9. ASSUME NEW g \in Gateways, Crash(g) PROVE LockTypeOK'
    BY <1>9 DEF Crash
  <1>10. CASE ContainerRestart
    BY <1>10 DEF ContainerRestart
  <1>11. CASE UNCHANGED lockVars
    BY <1>11 DEF lockVars
  <1>12. QED
    BY <1>1, <1>2, <1>3, <1>4, <1>5, <1>6, <1>7, <1>8, <1>9, <1>10, <1>11
       DEF MutexNext, Step, Acquire

LEMMA AttemptsLeftStep ==
  ASSUME LockTypeOK, AttemptsLeft, [MutexNext]_lockVars
  PROVE  AttemptsLeft'
  <1> USE DEF LockTypeOK, AttemptsLeft, Down, Booting
  <1>1. ASSUME NEW g \in Gateways, Boot(g) PROVE AttemptsLeft'
    BY <1>1 DEF Boot
  <1>2. ASSUME NEW g \in Gateways, LinkTmp(g) PROVE AttemptsLeft'
    BY <1>2 DEF LinkTmp
  <1>3. ASSUME NEW g \in Gateways, ReadHolder(g) PROVE AttemptsLeft'
    BY <1>3 DEF ReadHolder
  <1>4. ASSUME NEW g \in Gateways, UnlinkStale(g) PROVE AttemptsLeft'
    BY <1>4 DEF UnlinkStale, NextAttempt
  <1>5. ASSUME NEW g \in Gateways, GiveUp(g) PROVE AttemptsLeft'
    BY <1>5 DEF GiveUp
  <1>6. ASSUME NEW g \in Gateways, FallBack(g) PROVE AttemptsLeft'
    BY <1>6 DEF FallBack
  <1>7. ASSUME NEW g \in Gateways, Release(g) PROVE AttemptsLeft'
    BY <1>7 DEF Release
  <1>8. ASSUME NEW g \in Gateways, ClearAndExit(g) PROVE AttemptsLeft'
    BY <1>8 DEF ClearAndExit
  <1>9. ASSUME NEW g \in Gateways, Crash(g) PROVE AttemptsLeft'
    BY <1>9 DEF Crash
  <1>10. CASE ContainerRestart
    BY <1>10 DEF ContainerRestart
  <1>11. CASE UNCHANGED lockVars
    BY <1>11 DEF lockVars
  <1>12. QED
    BY <1>1, <1>2, <1>3, <1>4, <1>5, <1>6, <1>7, <1>8, <1>9, <1>10, <1>11
       DEF MutexNext, Step, Acquire

LEMMA FileNamesOwnerStep ==
  ASSUME LockTypeOK, FileNamesOwner, [MutexNext]_lockVars
  PROVE  FileNamesOwner'
  <1> USE MutexAssumption DEF LockTypeOK, FileNamesOwner, Down, Booting, NoRecord, Destroys, holders
  <1>1. ASSUME NEW g \in Gateways, Boot(g) PROVE FileNamesOwner'
    BY <1>1 DEF Boot
  <1>2. ASSUME NEW g \in Gateways, LinkTmp(g) PROVE FileNamesOwner'
    BY <1>2 DEF LinkTmp
  <1>3. ASSUME NEW g \in Gateways, ReadHolder(g) PROVE FileNamesOwner'
    BY <1>3 DEF ReadHolder
  <1>4. ASSUME NEW g \in Gateways, UnlinkStale(g) PROVE FileNamesOwner'
    BY <1>4 DEF UnlinkStale, NextAttempt
  <1>5. ASSUME NEW g \in Gateways, GiveUp(g) PROVE FileNamesOwner'
    BY <1>5 DEF GiveUp
  <1>6. ASSUME NEW g \in Gateways, FallBack(g) PROVE FileNamesOwner'
    BY <1>6 DEF FallBack
  <1>7. ASSUME NEW g \in Gateways, Release(g) PROVE FileNamesOwner'
    BY <1>7 DEF Release
  <1>8. ASSUME NEW g \in Gateways, ClearAndExit(g) PROVE FileNamesOwner'
    BY <1>8 DEF ClearAndExit
  <1>9. ASSUME NEW g \in Gateways, Crash(g) PROVE FileNamesOwner'
    BY <1>9 DEF Crash
  <1>10. CASE ContainerRestart
    BY <1>10 DEF ContainerRestart
  <1>11. CASE UNCHANGED lockVars
    BY <1>11 DEF lockVars
  <1>12. QED
    BY <1>1, <1>2, <1>3, <1>4, <1>5, <1>6, <1>7, <1>8, <1>9, <1>10, <1>11
       DEF MutexNext, Step, Acquire

LEMMA MeetingsNotedStep ==
  ASSUME LockTypeOK, MeetingsNoted, [MutexNext]_lockVars
  PROVE  MeetingsNoted'
  <1> USE DEF LockTypeOK, MeetingsNoted, Down, Booting, isAlive
  <1>1. ASSUME NEW g \in Gateways, Boot(g) PROVE MeetingsNoted'
    BY <1>1 DEF Boot, OthersAlive
  <1>2. ASSUME NEW g \in Gateways, LinkTmp(g) PROVE MeetingsNoted'
    BY <1>2 DEF LinkTmp
  <1>3. ASSUME NEW g \in Gateways, ReadHolder(g) PROVE MeetingsNoted'
    BY <1>3 DEF ReadHolder
  <1>4. ASSUME NEW g \in Gateways, UnlinkStale(g) PROVE MeetingsNoted'
    BY <1>4 DEF UnlinkStale, NextAttempt
  <1>5. ASSUME NEW g \in Gateways, GiveUp(g) PROVE MeetingsNoted'
    BY <1>5 DEF GiveUp
  <1>6. ASSUME NEW g \in Gateways, FallBack(g) PROVE MeetingsNoted'
    BY <1>6 DEF FallBack
  <1>7. ASSUME NEW g \in Gateways, Release(g) PROVE MeetingsNoted'
    BY <1>7 DEF Release
  <1>8. ASSUME NEW g \in Gateways, ClearAndExit(g) PROVE MeetingsNoted'
    BY <1>8 DEF ClearAndExit
  <1>9. ASSUME NEW g \in Gateways, Crash(g) PROVE MeetingsNoted'
    BY <1>9 DEF Crash
  <1>10. CASE ContainerRestart
    BY <1>10 DEF ContainerRestart
  <1>11. CASE UNCHANGED lockVars
    BY <1>11 DEF lockVars
  <1>12. QED
    BY <1>1, <1>2, <1>3, <1>4, <1>5, <1>6, <1>7, <1>8, <1>9, <1>10, <1>11
       DEF MutexNext, Step, Acquire

LEMMA NoOwnRecordStep ==
  ASSUME LockTypeOK, NoOwnRecord, [MutexNext]_lockVars
  PROVE  NoOwnRecord'
  <1> USE MutexAssumption DEF LockTypeOK, NoOwnRecord, Down, Booting, NoRecord, NoBootId
  <1>1. ASSUME NEW g \in Gateways, Boot(g) PROVE NoOwnRecord'
    BY <1>1 DEF Boot
  <1>2. ASSUME NEW g \in Gateways, LinkTmp(g) PROVE NoOwnRecord'
    BY <1>2 DEF LinkTmp
  <1>3. ASSUME NEW g \in Gateways, ReadHolder(g) PROVE NoOwnRecord'
    BY <1>3 DEF ReadHolder
  <1>4. ASSUME NEW g \in Gateways, UnlinkStale(g) PROVE NoOwnRecord'
    BY <1>4 DEF UnlinkStale, NextAttempt
  <1>5. ASSUME NEW g \in Gateways, GiveUp(g) PROVE NoOwnRecord'
    BY <1>5 DEF GiveUp
  <1>6. ASSUME NEW g \in Gateways, FallBack(g) PROVE NoOwnRecord'
    BY <1>6 DEF FallBack
  <1>7. ASSUME NEW g \in Gateways, Release(g) PROVE NoOwnRecord'
    BY <1>7 DEF Release
  <1>8. ASSUME NEW g \in Gateways, ClearAndExit(g) PROVE NoOwnRecord'
    BY <1>8 DEF ClearAndExit
  <1>9. ASSUME NEW g \in Gateways, Crash(g) PROVE NoOwnRecord'
    BY <1>9 DEF Crash
  <1>10. CASE ContainerRestart
    BY <1>10 DEF ContainerRestart
  <1>11. CASE UNCHANGED lockVars
    BY <1>11 DEF lockVars
  <1>12. QED
    BY <1>1, <1>2, <1>3, <1>4, <1>5, <1>6, <1>7, <1>8, <1>9, <1>10, <1>11
       DEF MutexNext, Step, Acquire

LEMMA BootIdsStampedStep ==
  ASSUME LockTypeOK, BootIdsStamped, [MutexNext]_lockVars
  PROVE  BootIdsStamped'
  <1> USE MutexAssumption DEF LockTypeOK, BootIdsStamped, NoRecord, NoBootId
  <1>1. ASSUME NEW g \in Gateways, Boot(g) PROVE BootIdsStamped'
    BY <1>1 DEF Boot
  <1>2. ASSUME NEW g \in Gateways, LinkTmp(g) PROVE BootIdsStamped'
    BY <1>2 DEF LinkTmp
  <1>3. ASSUME NEW g \in Gateways, ReadHolder(g) PROVE BootIdsStamped'
    BY <1>3 DEF ReadHolder
  <1>4. ASSUME NEW g \in Gateways, UnlinkStale(g) PROVE BootIdsStamped'
    BY <1>4 DEF UnlinkStale
  <1>5. ASSUME NEW g \in Gateways, GiveUp(g) PROVE BootIdsStamped'
    BY <1>5 DEF GiveUp
  <1>6. ASSUME NEW g \in Gateways, FallBack(g) PROVE BootIdsStamped'
    BY <1>6 DEF FallBack
  <1>7. ASSUME NEW g \in Gateways, Release(g) PROVE BootIdsStamped'
    BY <1>7 DEF Release
  <1>8. ASSUME NEW g \in Gateways, ClearAndExit(g) PROVE BootIdsStamped'
    BY <1>8 DEF ClearAndExit
  <1>9. ASSUME NEW g \in Gateways, Crash(g) PROVE BootIdsStamped'
    BY <1>9 DEF Crash
  <1>10. CASE ContainerRestart
    BY <1>10 DEF ContainerRestart
  <1>11. CASE UNCHANGED lockVars
    BY <1>11 DEF lockVars
  <1>12. QED
    BY <1>1, <1>2, <1>3, <1>4, <1>5, <1>6, <1>7, <1>8, <1>9, <1>10, <1>11
       DEF MutexNext, Step, Acquire

LEMMA SecondRecordExcusedStep ==
  ASSUME LockTypeOK, AttemptsLeft, MeetingsNoted, NoOwnRecord, BootIdsStamped, SecondRecordExcused, [MutexNext]_lockVars
  PROVE  SecondRecordExcused'
  <1> USE MutexAssumption DEF LockTypeOK, AttemptsLeft, MeetingsNoted, NoOwnRecord, BootIdsStamped, SecondRecordExcused, Excused, Down, Booting, NoRecord, NoBootId, isAlive
  <1>1. ASSUME NEW g \in Gateways, Boot(g) PROVE SecondRecordExcused'
    BY <1>1 DEF Boot
  <1>2. ASSUME NEW g \in Gateways, LinkTmp(g) PROVE SecondRecordExcused'
    BY <1>2 DEF LinkTmp
  <1>3. ASSUME NEW g \in Gateways, ReadHolder(g) PROVE SecondRecordExcused'
    <2>1. CASE Stale(file)
      BY <1>3, <2>1 DEF ReadHolder
    <2>2. CASE ~Stale(file)
      <3>1. file.pid \in Gateways /\ pc[file.pid] \notin {"off", "blocked"}
        BY <2>2 DEF Stale
      <3>2. file.pid = g => fellBack
        <4>1. file = [pid |-> file.pid, boot |-> file.boot]
          OBVIOUS
        <4>2. file.boot = 0 \/ file.boot = boot
          BY <2>2 DEF Stale, bootMismatch
        <4>3. pc[g] = "read"
          BY <1>3 DEF ReadHolder
        <4>4. QED
          BY <2>2, <4>1, <4>2, <4>3 DEF Stale
      <3>3. Excused(g)
        BY <1>3, <3>1, <3>2 DEF ReadHolder
      <3>4. QED
        BY <1>3, <2>2, <3>3 DEF ReadHolder
    <2>3. QED
      BY <2>1, <2>2
  <1>4. ASSUME NEW g \in Gateways, UnlinkStale(g) PROVE SecondRecordExcused'
    BY <1>4 DEF UnlinkStale, NextAttempt
  <1>5. ASSUME NEW g \in Gateways, GiveUp(g) PROVE SecondRecordExcused'
    BY <1>5 DEF GiveUp
  <1>6. ASSUME NEW g \in Gateways, FallBack(g) PROVE SecondRecordExcused'
    BY <1>6 DEF FallBack
  <1>7. ASSUME NEW g \in Gateways, Release(g) PROVE SecondRecordExcused'
    BY <1>7 DEF Release
  <1>8. ASSUME NEW g \in Gateways, ClearAndExit(g) PROVE SecondRecordExcused'
    BY <1>8 DEF ClearAndExit
  <1>9. ASSUME NEW g \in Gateways, Crash(g) PROVE SecondRecordExcused'
    BY <1>9 DEF Crash
  <1>10. CASE ContainerRestart
    BY <1>10 DEF ContainerRestart
  <1>11. CASE UNCHANGED lockVars
    BY <1>11 DEF lockVars
  <1>12. QED
    BY <1>1, <1>2, <1>3, <1>4, <1>5, <1>6, <1>7, <1>8, <1>9, <1>10, <1>11
       DEF MutexNext, Step, Acquire

LEMMA MutexInvStep == MutexInv /\ [MutexNext]_lockVars => MutexInv'
  BY LockTypeStep, AttemptsLeftStep, FileNamesOwnerStep, MeetingsNotedStep, NoOwnRecordStep,
     BootIdsStampedStep, SecondRecordExcusedStep
     DEF MutexInv

LEMMA MutexInvImplies == MutexInv => OneOwnerUnlessBreached /\ NeverBlockedAlone
  <1> SUFFICES ASSUME MutexInv PROVE OneOwnerUnlessBreached /\ NeverBlockedAlone
    OBVIOUS
  <1>1. OneOwnerUnlessBreached
    BY DEF MutexInv, FileNamesOwner, OneOwnerUnlessBreached, holders
  <1>2. NeverBlockedAlone
    BY DEF MutexInv, SecondRecordExcused, Excused, NeverBlockedAlone
  <1>3. QED
    BY <1>1, <1>2

(* The invariant of the mutex on its own, for any number of gateways.       *)
THEOREM MutexSafe == MutexSpec => [](OneOwnerUnlessBreached /\ NeverBlockedAlone)
  <1>1. MutexInv /\ [MutexNext]_mutexVars => MutexInv'
    BY MutexInvStep DEF mutexVars
  <1>2. QED
    BY MutexInvInit, <1>1, MutexInvImplies, PTL DEF MutexSpec

-----------------------------------------------------------------------------
(* The mutex inside the composition                                        *)

LEMMA OutboxLock == [Next]_vars => [MutexNext]_lockVars
  <1> SUFFICES ASSUME [Next]_vars PROVE [MutexNext]_lockVars
    OBVIOUS
  <1> USE DEF mutexVars
  <1>1. ASSUME NEW g \in Gateways,
               (Boot(g) \/ Acquire(g) \/ FallBack(g) \/ ClearAndExit(g)) /\ UNCHANGED outboxVars
        PROVE  [MutexNext]_lockVars
    BY <1>1 DEF MutexNext, Step
  <1>2. ASSUME NEW g \in Gateways, (Release(g) \/ Crash(g)) /\ Ends({g}) PROVE [MutexNext]_lockVars
    BY <1>2 DEF MutexNext, Step
  <1>3. ASSUME ContainerRestart /\ Ends(Gateways) PROVE [MutexNext]_lockVars
    BY <1>3 DEF MutexNext
  <1>4. ASSUME NEW g \in Gateways, SweepStart(g) PROVE [MutexNext]_lockVars
    BY <1>4 DEF SweepStart
  <1>5. ASSUME NEW g \in Gateways, SweepRecord(g) PROVE [MutexNext]_lockVars
    BY <1>5 DEF SweepRecord
  <1>6. ASSUME NEW g \in Gateways, SweepLands(g) PROVE [MutexNext]_lockVars
    BY <1>6 DEF SweepLands
  <1>7. ASSUME NEW g \in Gateways, SweepAck(g) PROVE [MutexNext]_lockVars
    BY <1>7 DEF SweepAck
  <1>8. ASSUME NEW g \in Gateways, SweepFails(g) PROVE [MutexNext]_lockVars
    BY <1>8 DEF SweepFails
  <1>9. ASSUME NEW n \in Turns, HookCheck(n) PROVE [MutexNext]_lockVars
    BY <1>9 DEF HookCheck
  <1>10. ASSUME NEW n \in Turns, HookWrite(n) PROVE [MutexNext]_lockVars
    BY <1>10 DEF HookWrite
  <1>11. ASSUME NEW n \in Turns, FlushLands(n) PROVE [MutexNext]_lockVars
    BY <1>11 DEF FlushLands
  <1>12. ASSUME NEW n \in Turns, FlushAck(n) PROVE [MutexNext]_lockVars
    BY <1>12 DEF FlushAck
  <1>13. ASSUME NEW n \in Turns, FlushFails(n) PROVE [MutexNext]_lockVars
    BY <1>13 DEF FlushFails
  <1>14. ASSUME NEW n \in Turns, DedupEvicts(n) PROVE [MutexNext]_lockVars
    BY <1>14 DEF DedupEvicts
  <1>15. ASSUME NEW n \in Turns, NEW g \in Gateways, FlushStart(g, n) PROVE [MutexNext]_lockVars
    BY <1>15 DEF FlushStart
  <1>16. ASSUME NEW n \in Floods, FloodQueue(n) PROVE [MutexNext]_lockVars
    BY <1>16 DEF FloodQueue
  <1>17. ASSUME NEW n \in Nonces, Ages(n) PROVE [MutexNext]_lockVars
    BY <1>17 DEF Ages
  <1>18. ASSUME FloodCloses PROVE [MutexNext]_lockVars
    BY <1>18 DEF FloodCloses
  <1>19. ASSUME UNCHANGED vars PROVE [MutexNext]_lockVars
    BY <1>19 DEF vars
  <1>20. QED
    BY <1>1, <1>2, <1>3, <1>4, <1>5, <1>6, <1>7, <1>8, <1>9, <1>10, <1>11, <1>12,
       <1>13, <1>14, <1>15, <1>16, <1>17, <1>18, <1>19
       DEF Next, MutexStep

(* In the composition, too, two gateways own the lock only after a breach   *)
(* and none is blocked alone: the outbox never touches the lock.            *)
LEMMA OutboxMutexInv == Spec => []MutexInv
  <1>1. Init => MutexInv
    BY MutexInvInit DEF Init
  <1>2. MutexInv /\ [Next]_vars => MutexInv'
    BY MutexInvStep, OutboxLock
  <1>3. QED
    BY <1>1, <1>2, PTL DEF Spec

(* Two gateways own the lock at once only after a process unlinked or       *)
(* overwrote a live owner's record, whatever sweeps and flushes run.        *)
THEOREM OneOwner == Spec => []OneOwnerUnlessBreached
  BY OutboxMutexInv, MutexInvImplies, PTL

(* No stale record keeps a lone gateway from starting.                      *)
THEOREM NotBlockedAlone == Spec => []NeverBlockedAlone
  BY OutboxMutexInv, MutexInvImplies, PTL

-----------------------------------------------------------------------------
(* Type correctness                                                        *)

SweepState == [todo : SUBSET Nonces, seen : SUBSET Nonces,
               cur : Nonces \cup {None}, landed : BOOLEAN]
FlushState == [phase : {"none", "send", "landed", "done", "failed"}, by : Gateways \cup {None}]

\* OutboxTypeOK without the lock; a sweep has landed only what it is sending, and a
\* hook between its check and its write has a write left.
QueueTypeOK ==
    /\ faults \in 0..MaxFaults
    /\ json \in [Nonces -> Absent..Old] /\ sending \in [Nonces -> Absent..Old]
    /\ journal \subseteq Nonces /\ flood \in BOOLEAN
    /\ sweep \in [Gateways -> SweepState]
    /\ flush \in [Turns -> FlushState]
    /\ hook \subseteq Turns
    /\ writes \in [Nonces -> 0..MaxWrites]
    /\ posts \in [Nonces -> 0..2] /\ owed \subseteq Nonces /\ mishap \subseteq Nonces
    /\ \A g \in Gateways : sweep[g].landed => sweep[g].cur # None
    /\ \A n \in hook : writes[n] < MaxWrites

\* The sweep of g has the given fields in s2 and every other one is as in s1.
SweepSet(s1, s2, g, todo, seen, cur, landed) ==
    /\ s2 \in [Gateways -> SweepState]
    /\ s2[g].todo = todo /\ s2[g].seen = seen /\ s2[g].cur = cur /\ s2[g].landed = landed
    /\ \A h \in Gateways \ {g} : s2[h] = s1[h]

LEMMA SweepFields ==
  ASSUME NEW f \in [Gateways -> SweepState], NEW g \in Gateways,
         NEW t \in SUBSET Nonces, NEW s \in SUBSET Nonces, NEW c \in Nonces \cup {None},
         NEW l \in BOOLEAN
  PROVE  /\ SweepSet(f, [f EXCEPT ![g].todo = t, ![g].seen = s], g, t, s, f[g].cur, f[g].landed)
         /\ SweepSet(f, [f EXCEPT ![g].todo = t, ![g].cur = c], g, t, f[g].seen, c, f[g].landed)
         /\ SweepSet(f, [f EXCEPT ![g].cur = c, ![g].landed = l], g, f[g].todo, f[g].seen, c, l)
         /\ SweepSet(f, [f EXCEPT ![g].todo = t], g, t, f[g].seen, f[g].cur, f[g].landed)
         /\ SweepSet(f, [f EXCEPT ![g].landed = l], g, f[g].todo, f[g].seen, f[g].cur, l)
  <1>1. ASSUME NEW r \in SweepState
        PROVE  /\ [r EXCEPT !.todo = t, !.seen = s] \in SweepState
               /\ [r EXCEPT !.todo = t, !.cur = c] \in SweepState
               /\ [r EXCEPT !.cur = c, !.landed = l] \in SweepState
               /\ [r EXCEPT !.todo = t] \in SweepState
               /\ [r EXCEPT !.landed = l] \in SweepState
    BY DEF SweepState
  <1>2. ASSUME NEW r \in SweepState, NEW ff, ff = [f EXCEPT ![g] = r]
        PROVE  SweepSet(f, ff, g, r.todo, r.seen, r.cur, r.landed)
    BY <1>2 DEF SweepSet
  <1> DEFINE r1 == [f[g] EXCEPT !.todo = t, !.seen = s]
             r2 == [f[g] EXCEPT !.todo = t, !.cur = c]
             r3 == [f[g] EXCEPT !.cur = c, !.landed = l]
             r4 == [f[g] EXCEPT !.todo = t]
             r5 == [f[g] EXCEPT !.landed = l]
  <1>3. /\ r1 \in SweepState /\ r2 \in SweepState /\ r3 \in SweepState
        /\ r4 \in SweepState /\ r5 \in SweepState
    BY <1>1
  <1>4. /\ r1.todo = t /\ r1.seen = s /\ r1.cur = f[g].cur /\ r1.landed = f[g].landed
        /\ r2.todo = t /\ r2.seen = f[g].seen /\ r2.cur = c /\ r2.landed = f[g].landed
        /\ r3.todo = f[g].todo /\ r3.seen = f[g].seen /\ r3.cur = c /\ r3.landed = l
        /\ r4.todo = t /\ r4.seen = f[g].seen /\ r4.cur = f[g].cur /\ r4.landed = f[g].landed
        /\ r5.todo = f[g].todo /\ r5.seen = f[g].seen /\ r5.cur = f[g].cur /\ r5.landed = l
    BY DEF SweepState
  <1> HIDE DEF r1, r2, r3, r4, r5
  <1>5. SweepSet(f, [f EXCEPT ![g] = r1], g, t, s, f[g].cur, f[g].landed)
    BY <1>2, <1>3, <1>4
  <1>6. SweepSet(f, [f EXCEPT ![g] = r2], g, t, f[g].seen, c, f[g].landed)
    BY <1>2, <1>3, <1>4
  <1>7. SweepSet(f, [f EXCEPT ![g] = r3], g, f[g].todo, f[g].seen, c, l)
    BY <1>2, <1>3, <1>4
  <1>8. SweepSet(f, [f EXCEPT ![g] = r4], g, t, f[g].seen, f[g].cur, f[g].landed)
    BY <1>2, <1>3, <1>4
  <1>9. SweepSet(f, [f EXCEPT ![g] = r5], g, f[g].todo, f[g].seen, f[g].cur, l)
    BY <1>2, <1>3, <1>4
  <1>10. QED
    BY <1>5, <1>6, <1>7, <1>8, <1>9 DEF r1, r2, r3, r4, r5

\* What each step of a sweep does to the sweeps.
LEMMA SweepMoves ==
  ASSUME QueueTypeOK, NEW g \in Gateways
  PROVE  /\ SweepStart(g) =>
              SweepSet(sweep, sweep', g, {n \in Nonces : Listed(n)}, journal, None, FALSE)
         /\ SweepLands(g) =>
              SweepSet(sweep, sweep', g, sweep[g].todo, sweep[g].seen, sweep[g].cur, TRUE)
         /\ SweepAck(g) \/ SweepFails(g) =>
              SweepSet(sweep, sweep', g, sweep[g].todo, sweep[g].seen, None, FALSE)
         /\ \A n \in Nonces :
              /\ Claim(g, n) =>
                   SweepSet(sweep, sweep', g, sweep[g].todo \ {n}, sweep[g].seen, n, sweep[g].landed)
              /\ Drop(g, n) \/ Leave(g, n) =>
                   SweepSet(sweep, sweep', g, sweep[g].todo \ {n}, sweep[g].seen,
                            sweep[g].cur, sweep[g].landed)
  <1> USE SweepFields DEF QueueTypeOK
  <1>1. SweepStart(g) =>
          SweepSet(sweep, sweep', g, {n \in Nonces : Listed(n)}, journal, None, FALSE)
    <2> SUFFICES ASSUME SweepStart(g)
                 PROVE  SweepSet(sweep, sweep', g, {n \in Nonces : Listed(n)}, journal, None, FALSE)
      OBVIOUS
    <2>1. SweepSet(sweep, sweep', g, {n \in Nonces : Listed(n)}, journal, None, sweep[g].landed)
      BY DEF SweepStart
    <2>2. sweep[g].landed = FALSE
      BY DEF SweepStart, SweepState
    <2>3. QED
      BY <2>1, <2>2
  <1>2. SweepLands(g) =>
          SweepSet(sweep, sweep', g, sweep[g].todo, sweep[g].seen, sweep[g].cur, TRUE)
    BY DEF SweepLands
  <1>3. SweepAck(g) \/ SweepFails(g) =>
          SweepSet(sweep, sweep', g, sweep[g].todo, sweep[g].seen, None, FALSE)
    <2>1. SweepAck(g) \/ SweepFails(g) => sweep' = [sweep EXCEPT ![g].cur = None, ![g].landed = FALSE]
      BY DEF SweepAck, SweepFails
    <2>2. SweepSet(sweep, [sweep EXCEPT ![g].cur = None, ![g].landed = FALSE], g,
                   sweep[g].todo, sweep[g].seen, None, FALSE)
      OBVIOUS
    <2>3. QED
      BY <2>1, <2>2
  <1>4. ASSUME NEW n \in Nonces
        PROVE  /\ Claim(g, n) =>
                    SweepSet(sweep, sweep', g, sweep[g].todo \ {n}, sweep[g].seen, n, sweep[g].landed)
               /\ Drop(g, n) \/ Leave(g, n) =>
                    SweepSet(sweep, sweep', g, sweep[g].todo \ {n}, sweep[g].seen,
                             sweep[g].cur, sweep[g].landed)
    <2> DEFINE t == sweep[g].todo \ {n}
    <2>1. t \in SUBSET Nonces
      BY DEF SweepState
    <2>2. /\ Claim(g, n) => sweep' = [sweep EXCEPT ![g].todo = t, ![g].cur = n]
          /\ Drop(g, n) \/ Leave(g, n) => sweep' = [sweep EXCEPT ![g].todo = t]
      BY DEF Claim, Drop, Leave
    <2> HIDE DEF t
    <2>3. /\ Claim(g, n) => SweepSet(sweep, sweep', g, t, sweep[g].seen, n, sweep[g].landed)
          /\ Drop(g, n) \/ Leave(g, n) =>
               SweepSet(sweep, sweep', g, t, sweep[g].seen, sweep[g].cur, sweep[g].landed)
      <3>1. /\ SweepSet(sweep, [sweep EXCEPT ![g].todo = t, ![g].cur = n], g,
                        t, sweep[g].seen, n, sweep[g].landed)
            /\ SweepSet(sweep, [sweep EXCEPT ![g].todo = t], g,
                        t, sweep[g].seen, sweep[g].cur, sweep[g].landed)
        BY <2>1
      <3>2. QED
        BY <2>2, <3>1
    <2>4. QED
      BY <2>3 DEF t
  <1>5. QED
    BY <1>1, <1>2, <1>3, <1>4

\* One record of a sweep is dropped, claimed or left.
LEMMA RecordMoves ==
  ASSUME QueueTypeOK, NEW g \in Gateways, SweepRecord(g)
  PROVE  \E n \in sweep[g].todo :
           /\ n \in Nonces /\ sweep[g].cur = None
           /\ \/ /\ Claim(g, n)
                 /\ SweepSet(sweep, sweep', g, sweep[g].todo \ {n}, sweep[g].seen, n, FALSE)
              \/ /\ Drop(g, n) \/ Leave(g, n)
                 /\ SweepSet(sweep, sweep', g, sweep[g].todo \ {n}, sweep[g].seen, None, FALSE)
  <1>1. PICK n \in sweep[g].todo : Drop(g, n) \/ Claim(g, n) \/ Leave(g, n)
    BY DEF SweepRecord
  <1>2. n \in Nonces
    BY DEF QueueTypeOK, SweepState
  <1>3. sweep[g].cur = None
    BY DEF SweepRecord
  <1>4. sweep[g].landed = FALSE
    BY <1>3 DEF QueueTypeOK, SweepState
  <1>5. CASE Claim(g, n)
    <2>1. SweepSet(sweep, sweep', g, sweep[g].todo \ {n}, sweep[g].seen, n, sweep[g].landed)
      BY <1>2, <1>5, SweepMoves
    <2>2. QED
      BY <1>1, <1>2, <1>3, <1>4, <1>5, <2>1
  <1>6. CASE Drop(g, n) \/ Leave(g, n)
    <2>1. SweepSet(sweep, sweep', g, sweep[g].todo \ {n}, sweep[g].seen,
                   sweep[g].cur, sweep[g].landed)
      BY <1>2, <1>6, SweepMoves
    <2>2. QED
      BY <1>1, <1>2, <1>3, <1>4, <1>6, <2>1
  <1>7. QED
    BY <1>1, <1>5, <1>6

LEMMA QueueTypeStep ==
  ASSUME QueueTypeOK, [Next]_vars
  PROVE  QueueTypeOK'
  <1> USE MutexAssumption, OutboxAssumption
      DEF QueueTypeOK, SweepState, FlushState, Nonces, None, Absent, Fresh, Ripe, Old
  <1>1. ASSUME NEW g \in Gateways,
               (Boot(g) \/ Acquire(g) \/ FallBack(g) \/ ClearAndExit(g)) /\ UNCHANGED outboxVars
        PROVE  QueueTypeOK'
    BY <1>1
       DEF Boot, Acquire, LinkTmp, ReadHolder, UnlinkStale, GiveUp, FallBack, ClearAndExit,
           outboxVars, fileVars, senderVars, obsVars
  <1>2. ASSUME NEW g \in Gateways, (Release(g) \/ Crash(g)) /\ Ends({g}) PROVE QueueTypeOK'
    BY <1>2 DEF Release, Crash, Ends, Idle, fileVars
  <1>3. ASSUME ContainerRestart /\ Ends(Gateways) PROVE QueueTypeOK'
    BY <1>3 DEF ContainerRestart, Ends, Idle, fileVars
  <1>4. ASSUME NEW g \in Gateways, SweepStart(g) PROVE QueueTypeOK'
    <2>1. /\ sweep' \in [Gateways -> SweepState]
          /\ \A h \in Gateways : sweep'[h].landed => sweep'[h].cur # None
      BY <1>4, SweepMoves DEF SweepSet
    <2>2. json' \in [Nonces -> Absent..Old] /\ sending' \in [Nonces -> Absent..Old]
      BY <1>4 DEF SweepStart, reclaimed
    <2>3. QED
      BY <1>4, <2>1, <2>2
         DEF SweepStart, reclaimed, mutexVars, lockVars, fileVars, senderVars, obsVars
  <1>5. ASSUME NEW g \in Gateways, SweepRecord(g) PROVE QueueTypeOK'
    <2>1. PICK n \in sweep[g].todo :
             /\ n \in Nonces
             /\ Drop(g, n) \/ Claim(g, n) \/ Leave(g, n)
             /\ \E c \in {None, n} :
                  SweepSet(sweep, sweep', g, sweep[g].todo \ {n}, sweep[g].seen, c, FALSE)
      BY <1>5, RecordMoves
    <2>2. n \in Nonces
      BY <2>1
    <2>3. /\ sweep' \in [Gateways -> SweepState]
          /\ \A h \in Gateways : sweep'[h].landed => sweep'[h].cur # None
      BY <2>1 DEF SweepSet
    <2> USE DEF SweepRecord, lockVars, fileVars, obsVars
    <2>4. CASE Drop(g, n)
      <3>1. json' \in [Nonces -> Absent..Old] /\ sending' \in [Nonces -> Absent..Old]
        BY <2>2, <2>4 DEF Drop, clearOutboxRecord
      <3>2. /\ journal' \subseteq Nonces /\ mishap' \subseteq Nonces
            /\ faults' \in 0..MaxFaults
        BY <2>2, <2>4 DEF Drop, appendDelivered, Fault
      <3>3. UNCHANGED <<posts, owed, flood, flush, hook, writes>>
        BY <1>5, <2>4 DEF Drop
      <3>4. QED
        BY <2>3, <3>1, <3>2, <3>3
    <2>5. CASE Claim(g, n)
      <3>1. mishap' \subseteq Nonces
        BY <2>2, <2>5 DEF Claim
      <3>2. QED
        BY <1>5, <2>2, <2>3, <2>5, <3>1 DEF Claim
    <2>6. CASE Leave(g, n)
      BY <1>5, <2>2, <2>3, <2>6 DEF Leave
    <2>7. QED
      BY <2>1, <2>4, <2>5, <2>6
  <1>6. ASSUME NEW g \in Gateways, SweepLands(g) PROVE QueueTypeOK'
    <2>1. /\ sweep' \in [Gateways -> SweepState]
          /\ \A h \in Gateways : sweep'[h].landed => sweep'[h].cur # None
      BY <1>6, SweepMoves DEF SweepSet, SweepLands
    <2>2. posts' \in [Nonces -> 0..2] /\ owed' \subseteq Nonces
      BY <1>6 DEF SweepLands, Post
    <2>3. QED
      BY <1>6, <2>1, <2>2 DEF SweepLands, Post, mutexVars, lockVars, fileVars, senderVars, obsVars
  <1>7. ASSUME NEW g \in Gateways, SweepAck(g) PROVE QueueTypeOK'
    <2>1. /\ sweep' \in [Gateways -> SweepState]
          /\ \A h \in Gateways : sweep'[h].landed => sweep'[h].cur # None
      BY <1>7, SweepMoves DEF SweepSet
    <2>2. sweep[g].cur \in Nonces
      BY <1>7 DEF SweepAck
    <2>3. QED
      BY <1>7, <2>1, <2>2
         DEF SweepAck, appendDelivered, Fault, mutexVars, lockVars, fileVars, senderVars,
             obsVars
  <1>8. ASSUME NEW g \in Gateways, SweepFails(g) PROVE QueueTypeOK'
    <2>1. /\ sweep' \in [Gateways -> SweepState]
          /\ \A h \in Gateways : sweep'[h].landed => sweep'[h].cur # None
      BY <1>8, SweepMoves DEF SweepSet
    <2>2. sweep[g].cur \in Nonces
      BY <1>8 DEF SweepFails
    <2>3. json' \in [Nonces -> Absent..Old] /\ sending' \in [Nonces -> Absent..Old]
      BY <1>8, <2>2 DEF SweepFails, releaseClaim
    <2>4. mishap' \subseteq Nonces
      BY <1>8, <2>2 DEF SweepFails
    <2>5. flood' \in BOOLEAN
      BY <1>8, Zenon DEF SweepFails
    <2>6. QED
      BY <1>8, <2>1, <2>2, <2>3, <2>4, <2>5
         DEF SweepFails, releaseClaim, Fault, mutexVars, lockVars, fileVars, senderVars, obsVars
  <1>9. ASSUME NEW n \in Turns, HookCheck(n) PROVE QueueTypeOK'
    BY <1>9 DEF HookCheck, mutexVars, lockVars, fileVars, senderVars, obsVars
  <1>10. ASSUME NEW n \in Turns, HookWrite(n) PROVE QueueTypeOK'
    <2>1. mishap' \subseteq Nonces
      BY <1>10 DEF HookWrite
    <2>2. writes' \in [Nonces -> 0..MaxWrites]
      BY <1>10 DEF HookWrite
    <2>3. QED
      BY <1>10, <2>1, <2>2 DEF HookWrite, mutexVars, lockVars, fileVars, senderVars, obsVars
  <1>11. ASSUME NEW n \in Turns, FlushLands(n) PROVE QueueTypeOK'
    BY <1>11 DEF FlushLands, Post, mutexVars, lockVars, fileVars, senderVars, obsVars
  <1>12. ASSUME NEW n \in Turns, FlushAck(n) PROVE QueueTypeOK'
    BY <1>12
       DEF FlushAck, appendDelivered, clearOutboxRecord, Fault, mutexVars, lockVars, fileVars,
           senderVars, obsVars
  <1>13. ASSUME NEW n \in Turns, FlushFails(n) PROVE QueueTypeOK'
    <2>1. mishap' \subseteq Nonces
      BY <1>13 DEF FlushFails
    <2>2. flood' \in BOOLEAN
      BY <1>13, Zenon DEF FlushFails
    <2>3. flush' \in [Turns -> FlushState]
      BY <1>13 DEF FlushFails
    <2>4. QED
      BY <1>13, <2>1, <2>2, <2>3
         DEF FlushFails, Flushing, Fault, mutexVars, lockVars, fileVars, senderVars, obsVars
  <1>14. ASSUME NEW n \in Turns, DedupEvicts(n) PROVE QueueTypeOK'
    BY <1>14 DEF DedupEvicts, mutexVars, lockVars, fileVars, senderVars, obsVars
  <1>15. ASSUME NEW n \in Turns, NEW g \in Gateways, FlushStart(g, n) PROVE QueueTypeOK'
    BY <1>15 DEF FlushStart, mutexVars, lockVars, fileVars, senderVars, obsVars
  <1>16. ASSUME NEW n \in Floods, FloodQueue(n) PROVE QueueTypeOK'
    BY <1>16 DEF FloodQueue, Fault, mutexVars, lockVars, fileVars, senderVars, obsVars
  <1>17. ASSUME NEW n \in Nonces, Ages(n) PROVE QueueTypeOK'
    BY <1>17 DEF Ages, Older, mutexVars, lockVars, fileVars, senderVars, obsVars
  <1>18. ASSUME FloodCloses PROVE QueueTypeOK'
    BY <1>18 DEF FloodCloses, mutexVars, lockVars, fileVars, senderVars, obsVars
  <1>19. ASSUME UNCHANGED vars PROVE QueueTypeOK'
    BY <1>19 DEF vars, mutexVars, outboxVars, fileVars, senderVars, obsVars
  <1>20. QED
    BY <1>1, <1>2, <1>3, <1>4, <1>5, <1>6, <1>7, <1>8, <1>9, <1>10, <1>11, <1>12,
       <1>13, <1>14, <1>15, <1>16, <1>17, <1>18, <1>19
       DEF Next, MutexStep

LEMMA QueueTypeInit == Init => QueueTypeOK
  <1> SUFFICES ASSUME Init PROVE QueueTypeOK
    OBVIOUS
  <1> USE MutexAssumption, OutboxAssumption DEF Init, MutexInit
  <1>1. sweep \in [Gateways -> SweepState]
    BY DEF Idle, SweepState
  <1>2. flush \in [Turns -> FlushState]
    BY DEF Unflushed, FlushState
  <1>3. flood \in BOOLEAN
    BY Zenon
  <1>4. \A g \in Gateways : sweep[g].landed => sweep[g].cur # None
    BY DEF Idle
  <1>5. /\ faults \in 0..MaxFaults
        /\ json \in [Nonces -> Absent..Old] /\ sending \in [Nonces -> Absent..Old]
        /\ writes \in [Nonces -> 0..MaxWrites] /\ posts \in [Nonces -> 0..2]
    BY DEF Absent, Old
  <1>6. QED
    BY <1>1, <1>2, <1>3, <1>4, <1>5 DEF QueueTypeOK

-----------------------------------------------------------------------------
(* No answer is lost                                                       *)

\* Nonces whose text has been posted, or was in a flush that failed: no step undoes it.
Settled == {n \in Nonces : Answered(n) \/ FlushFailed(n)}

\* What is journaled is settled, what has landed or a dedup cache remembers of a flush
\* that succeeded has been posted; a sweep has read the journal at some earlier time.
PostedFacts ==
    /\ journal \ Withheld \subseteq Settled
    /\ \A g \in Gateways : sweep[g].seen \subseteq journal
    /\ \A g \in Gateways : sweep[g].landed => posts[sweep[g].cur] > 0
    /\ \A n \in Turns :
         flush[n].phase = "landed" \/ (flush[n].phase = "done" /\ flush[n].by \in Gateways)
           => posts[n] > 0

\* NeverLost, said with Settled.
Kept == \A n \in Nonces \ Withheld : writes[n] > 0 => OnDisk(n) \/ n \in Settled

LEMMA PostCounts ==
  ASSUME QueueTypeOK, NEW n \in Nonces, Post(n)
  PROVE  /\ posts'[n] > 0
         /\ \A m \in Nonces : posts'[m] >= posts[m]
         /\ \A m \in Nonces \ {n} : posts'[m] = posts[m]
  <1>1. /\ posts \in [Nonces -> 0..2]
        /\ posts' = [posts EXCEPT ![n] = IF @ = 2 THEN 2 ELSE @ + 1]
    BY DEF Post, QueueTypeOK
  <1>2. QED
    BY <1>1

LEMMA SettledBy ==
  ASSUME NEW n \in Nonces
  PROVE  /\ posts[n] > 0 => n \in Settled
         /\ n \notin Unroutable /\ PostedFacts /\ (\E g \in Gateways : textAlreadyDelivered(g, n))
              => n \in Settled
  <1>1. n \in SameText(n)
    BY DEF SameText
  <1>2. \A m \in SameText(n) : m \in Nonces
    BY DEF SameText
  <1>3. QED
    BY <1>1, <1>2 DEF Settled, Answered, FlushFailed, PostedFacts, textAlreadyDelivered

LEMMA SettledStays ==
  ASSUME QueueTypeOK, [Next]_vars
  PROVE  Settled \subseteq Settled'
  <1>1. posts' = posts \/ \E n \in Nonces : Post(n)
    BY DEF Next, MutexStep, outboxVars, obsVars, Ends, SweepStart, SweepRecord, Drop, Claim, Leave,
       SweepLands, SweepAck, SweepFails, HookCheck, HookWrite, FloodQueue,
       FlushStart, FlushLands, FlushAck, FlushFails, FloodCloses, Ages, DedupEvicts, vars,
       QueueTypeOK, SweepState, Nonces
  <1>2. \A n \in Nonces : posts[n] > 0 => posts'[n] > 0
    BY <1>1, PostCounts DEF QueueTypeOK
  <1>3. \A n \in Turns : flush[n].phase = "failed" => flush'[n].phase = "failed"
    <2> USE DEF QueueTypeOK, FlushState
    <2>1. \A gs : Ends(gs) => \A n \in Turns : flush[n].phase = "failed" => flush'[n].phase = "failed"
      BY DEF Ends
    <2>2. ASSUME NEW k \in Turns, FlushLands(k) \/ FlushAck(k) \/ FlushFails(k) \/ DedupEvicts(k)
          PROVE  \A n \in Turns : flush[n].phase = "failed" => flush'[n].phase = "failed"
      BY <2>2 DEF FlushLands, FlushAck, FlushFails, Flushing, DedupEvicts
    <2>3. ASSUME NEW k \in Turns, NEW g \in Gateways, FlushStart(g, k)
          PROVE  \A n \in Turns : flush[n].phase = "failed" => flush'[n].phase = "failed"
      BY <2>3 DEF FlushStart, Unflushed
    <2>4. CASE UNCHANGED flush
      BY <2>4
    <2>5. QED
      BY <2>1, <2>2, <2>3, <2>4
         DEF Next, MutexStep, outboxVars, senderVars, SweepStart, SweepRecord, SweepLands, SweepAck,
             SweepFails, HookCheck, HookWrite, FloodQueue, FloodCloses, Ages, vars
  <1>4. QED
    BY <1>2, <1>3 DEF Settled, Answered, FlushFailed, SameText

LEMMA PostedFactsStep ==
  ASSUME QueueTypeOK, PostedFacts, [Next]_vars
  PROVE  PostedFacts'
  <1> USE SettledStays
  <1> USE MutexAssumption, OutboxAssumption
      DEF QueueTypeOK, PostedFacts, SweepState, FlushState, Nonces, None
  <1>1. ASSUME NEW g \in Gateways,
               (Boot(g) \/ Acquire(g) \/ FallBack(g) \/ ClearAndExit(g)) /\ UNCHANGED outboxVars
        PROVE  PostedFacts'
    BY <1>1 DEF outboxVars, fileVars, senderVars, obsVars
  <1>2. ASSUME NEW g \in Gateways, (Release(g) \/ Crash(g)) /\ Ends({g}) PROVE PostedFacts'
    BY <1>2 DEF Ends, Idle, fileVars
  <1>3. ASSUME ContainerRestart /\ Ends(Gateways) PROVE PostedFacts'
    BY <1>3 DEF Ends, Idle, fileVars
  <1>4. ASSUME NEW g \in Gateways, SweepStart(g) PROVE PostedFacts'
    <2>1. SweepSet(sweep, sweep', g, {n \in Nonces : Listed(n)}, journal, None, FALSE)
      BY <1>4, SweepMoves, Zenon
    <2>2. posts' = posts /\ journal' = journal /\ flush' = flush
      BY <1>4 DEF SweepStart, fileVars, obsVars
    <2>3. QED
      BY <2>1, <2>2 DEF SweepSet
  <1>5. ASSUME NEW g \in Gateways, SweepRecord(g) PROVE PostedFacts'
    <2>1. PICK n \in sweep[g].todo :
             /\ n \in Nonces
             /\ Drop(g, n) \/ Claim(g, n) \/ Leave(g, n)
             /\ \E c \in {None, n} :
                  SweepSet(sweep, sweep', g, sweep[g].todo \ {n}, sweep[g].seen, c, FALSE)
      BY <1>5, RecordMoves
    <2>2. posts' = posts /\ flush' = flush
      BY <1>5, <2>1 DEF SweepRecord, Drop, Claim, Leave, obsVars
    <2>3. \/ journal' = journal
          \/ journal' = journal \cup {n} /\ (n \in Withheld \/ n \in Settled)
      <3>1. CASE Drop(g, n)
        BY <2>1, <3>1, SettledBy DEF Drop, appendDelivered, Suppress, textAlreadyDelivered
      <3>2. CASE Claim(g, n) \/ Leave(g, n)
        BY <3>2 DEF Claim, Leave, fileVars
      <3>3. QED
        BY <2>1, <3>1, <3>2
    <2>4. QED
      BY <2>1, <2>2, <2>3 DEF SweepSet
  <1>6. ASSUME NEW g \in Gateways, SweepLands(g) PROVE PostedFacts'
    <2>1. sweep[g].cur \in Nonces
      BY <1>6 DEF SweepLands
    <2>2. /\ posts'[sweep[g].cur] > 0
          /\ \A n \in Nonces : posts[n] > 0 => posts'[n] > 0
      BY <1>6, <2>1, PostCounts DEF SweepLands
    <2>3. SweepSet(sweep, sweep', g, sweep[g].todo, sweep[g].seen, sweep[g].cur, TRUE)
      BY <1>6, SweepMoves, Zenon
    <2>4. posts' \in [Nonces -> 0..2] /\ journal' = journal /\ flush' = flush
      BY <1>6, <2>1 DEF SweepLands, Post, fileVars
    <2>5. ASSUME NEW h \in Gateways, sweep'[h].landed PROVE posts'[sweep'[h].cur] > 0
      <3>1. CASE h = g
        BY <2>2, <2>3, <3>1 DEF SweepSet
      <3>2. CASE h # g
        BY <2>2, <2>3, <2>5, <3>2 DEF SweepSet
      <3>3. QED
        BY <3>1, <3>2
    <2>6. \A h \in Gateways : sweep'[h].seen = sweep[h].seen
      BY <2>3 DEF SweepSet
    <2>7. QED
      BY <2>1, <2>2, <2>4, <2>5, <2>6
  <1>7. ASSUME NEW g \in Gateways, SweepAck(g) PROVE PostedFacts'
    <2>1. SweepSet(sweep, sweep', g, sweep[g].todo, sweep[g].seen, None, FALSE)
      BY <1>7, SweepMoves, Zenon
    <2>2. posts' = posts /\ flush' = flush
      BY <1>7 DEF SweepAck
    <2>3. \/ journal' = journal
          \/ journal' = journal \cup {sweep[g].cur} /\ sweep[g].cur \in Settled
      BY <1>7, SettledBy DEF SweepAck, appendDelivered
    <2>4. QED
      BY <2>1, <2>2, <2>3 DEF SweepSet
  <1>8. ASSUME NEW g \in Gateways, SweepFails(g) PROVE PostedFacts'
    <2>1. SweepSet(sweep, sweep', g, sweep[g].todo, sweep[g].seen, None, FALSE)
      BY <1>8, SweepMoves, Zenon
    <2>2. posts' = posts /\ flush' = flush
      BY <1>8 DEF SweepFails
    <2>3. journal' = journal
      BY <1>8 DEF SweepFails
    <2>4. QED
      BY <2>1, <2>2, <2>3 DEF SweepSet
  <1>9. ASSUME NEW n \in Turns, HookCheck(n) PROVE PostedFacts'
    BY <1>9 DEF HookCheck, mutexVars, lockVars, fileVars, senderVars, obsVars
  <1>10. ASSUME NEW n \in Turns, HookWrite(n) PROVE PostedFacts'
    BY <1>10 DEF HookWrite, mutexVars, lockVars, fileVars, senderVars, obsVars
  <1>11. ASSUME NEW n \in Turns, FlushLands(n) PROVE PostedFacts'
    <2>1. /\ posts'[n] > 0
          /\ \A m \in Nonces : posts[m] > 0 => posts'[m] > 0
      BY <1>11, PostCounts DEF FlushLands
    <2>2. posts' \in [Nonces -> 0..2] /\ journal' = journal /\ sweep' = sweep
      BY <1>11 DEF FlushLands, Post, fileVars
    <2>3. QED
      BY <1>11, <2>1, <2>2 DEF FlushLands
  <1>12. ASSUME NEW n \in Turns, FlushAck(n) PROVE PostedFacts'
    BY <1>12, SettledBy
       DEF FlushAck, appendDelivered, clearOutboxRecord, Fault, mutexVars, lockVars, fileVars,
           senderVars, obsVars
  <1>13. ASSUME NEW n \in Turns, FlushFails(n) PROVE PostedFacts'
    BY <1>13 DEF FlushFails, Flushing, Fault, mutexVars, lockVars, fileVars, senderVars, obsVars
  <1>14. ASSUME NEW n \in Turns, DedupEvicts(n) PROVE PostedFacts'
    BY <1>14 DEF DedupEvicts, mutexVars, lockVars, fileVars, senderVars, obsVars
  <1>15. ASSUME NEW n \in Turns, NEW g \in Gateways, FlushStart(g, n) PROVE PostedFacts'
    BY <1>15 DEF FlushStart, mutexVars, lockVars, fileVars, senderVars, obsVars
  <1>16. ASSUME NEW n \in Floods, FloodQueue(n) PROVE PostedFacts'
    BY <1>16 DEF FloodQueue, Fault, mutexVars, lockVars, fileVars, senderVars, obsVars
  <1>17. ASSUME NEW n \in Nonces, Ages(n) PROVE PostedFacts'
    BY <1>17 DEF Ages, Older, mutexVars, lockVars, fileVars, senderVars, obsVars
  <1>18. ASSUME FloodCloses PROVE PostedFacts'
    BY <1>18 DEF FloodCloses, mutexVars, lockVars, fileVars, senderVars, obsVars
  <1>19. ASSUME UNCHANGED vars PROVE PostedFacts'
    BY <1>19 DEF vars, mutexVars, outboxVars, fileVars, senderVars, obsVars
  <1>20. QED
    BY <1>1, <1>2, <1>3, <1>4, <1>5, <1>6, <1>7, <1>8, <1>9, <1>10, <1>11, <1>12,
       <1>13, <1>14, <1>15, <1>16, <1>17, <1>18, <1>19
       DEF Next, MutexStep

LEMMA KeptStep ==
  ASSUME QueueTypeOK, PostedFacts, Kept, [Next]_vars
  PROVE  Kept'
  <1> USE MutexAssumption, OutboxAssumption, SettledStays
      DEF QueueTypeOK, PostedFacts, Kept, OnDisk, SweepState, FlushState, Nonces, None,
          Absent, Fresh, Ripe, Old
  <1>1. ASSUME NEW g \in Gateways,
               (Boot(g) \/ Acquire(g) \/ FallBack(g) \/ ClearAndExit(g)) /\ UNCHANGED outboxVars
        PROVE  Kept'
    BY <1>1 DEF outboxVars, fileVars, senderVars, obsVars
  <1>2. ASSUME NEW g \in Gateways, (Release(g) \/ Crash(g)) /\ Ends({g}) PROVE Kept'
    BY <1>2 DEF Ends, Idle, fileVars
  <1>3. ASSUME ContainerRestart /\ Ends(Gateways) PROVE Kept'
    BY <1>3 DEF Ends, Idle, fileVars
  <1>4. ASSUME NEW g \in Gateways, SweepStart(g) PROVE Kept'
    BY <1>4 DEF SweepStart, reclaimed, obsVars
  <1>5. ASSUME NEW g \in Gateways, SweepRecord(g) PROVE Kept'
    <2>1. PICK n \in sweep[g].todo : n \in Nonces /\ (Drop(g, n) \/ Claim(g, n) \/ Leave(g, n))
      BY <1>5, RecordMoves
    <2>2. posts' = posts /\ writes' = writes
      BY <1>5, <2>1 DEF SweepRecord, Drop, Claim, Leave, obsVars
    <2>3. CASE Drop(g, n)
      <3>1. n \in Withheld \/ n \in Settled
        BY <2>1, <2>3, SettledBy DEF Drop, Suppress, textAlreadyDelivered, AlreadyJournaled
      <3>2. QED
        BY <2>1, <2>2, <2>3, <3>1 DEF Drop, clearOutboxRecord
    <2>4. CASE Claim(g, n)
      BY <2>1, <2>2, <2>4 DEF Claim
    <2>5. CASE Leave(g, n)
      BY <2>1, <2>2, <2>5 DEF Leave, fileVars
    <2>6. QED
      BY <2>1, <2>3, <2>4, <2>5
  <1>6. ASSUME NEW g \in Gateways, SweepLands(g) PROVE Kept'
    BY <1>6 DEF SweepLands, fileVars
  <1>7. ASSUME NEW g \in Gateways, SweepAck(g) PROVE Kept'
    BY <1>7, SettledBy DEF SweepAck
  <1>8. ASSUME NEW g \in Gateways, SweepFails(g) PROVE Kept'
    BY <1>8 DEF SweepFails, releaseClaim
  <1>9. ASSUME NEW n \in Turns, HookCheck(n) PROVE Kept'
    BY <1>9 DEF HookCheck, mutexVars, lockVars, fileVars, senderVars, obsVars
  <1>10. ASSUME NEW n \in Turns, HookWrite(n) PROVE Kept'
    BY <1>10 DEF HookWrite, mutexVars, lockVars, fileVars, senderVars, obsVars
  <1>11. ASSUME NEW n \in Turns, FlushLands(n) PROVE Kept'
    BY <1>11 DEF FlushLands, fileVars
  <1>12. ASSUME NEW n \in Turns, FlushAck(n) PROVE Kept'
    BY <1>12, SettledBy
       DEF FlushAck, appendDelivered, clearOutboxRecord, Fault, mutexVars, lockVars, fileVars,
           senderVars, obsVars
  <1>13. ASSUME NEW n \in Turns, FlushFails(n) PROVE Kept'
    BY <1>13 DEF FlushFails, Flushing, Fault, mutexVars, lockVars, fileVars, senderVars, obsVars
  <1>14. ASSUME NEW n \in Turns, DedupEvicts(n) PROVE Kept'
    BY <1>14 DEF DedupEvicts, mutexVars, lockVars, fileVars, senderVars, obsVars
  <1>15. ASSUME NEW n \in Turns, NEW g \in Gateways, FlushStart(g, n) PROVE Kept'
    BY <1>15 DEF FlushStart, mutexVars, lockVars, fileVars, senderVars, obsVars
  <1>16. ASSUME NEW n \in Floods, FloodQueue(n) PROVE Kept'
    BY <1>16 DEF FloodQueue, Fault, mutexVars, lockVars, fileVars, senderVars, obsVars
  <1>17. ASSUME NEW n \in Nonces, Ages(n) PROVE Kept'
    BY <1>17 DEF Ages, Older, mutexVars, lockVars, fileVars, senderVars, obsVars
  <1>18. ASSUME FloodCloses PROVE Kept'
    BY <1>18 DEF FloodCloses, mutexVars, lockVars, fileVars, senderVars, obsVars
  <1>19. ASSUME UNCHANGED vars PROVE Kept'
    BY <1>19 DEF vars, mutexVars, outboxVars, fileVars, senderVars, obsVars
  <1>20. QED
    BY <1>1, <1>2, <1>3, <1>4, <1>5, <1>6, <1>7, <1>8, <1>9, <1>10, <1>11, <1>12,
       <1>13, <1>14, <1>15, <1>16, <1>17, <1>18, <1>19
       DEF Next, MutexStep

(* A captured answer for the user whose text Telegram has never accepted is *)
(* on disk unless a flush of that text failed, for any number of gateways,  *)
(* records, crashes and failed sends: every other step that removes a file  *)
(* has a posting behind it.                                                 *)
THEOREM AnswersKept == Spec => []NeverLost
  <1> DEFINE Inv == QueueTypeOK /\ PostedFacts /\ Kept
  <1>1. Init => Inv
    <2> SUFFICES ASSUME Init PROVE Inv
      OBVIOUS
    <2>1. PostedFacts
      BY MutexAssumption DEF Init, PostedFacts, Idle, Unflushed
    <2>2. Kept
      BY DEF Init, Kept
    <2>3. QED
      BY <2>1, <2>2, QueueTypeInit
  <1>2. Inv /\ [Next]_vars => Inv'
    BY QueueTypeStep, PostedFactsStep, KeptStep
  <1>3. Inv => NeverLost
    BY DEF Kept, NeverLost, Settled
  <1>4. QED
    BY <1>1, <1>2, <1>3, PTL DEF Spec

-----------------------------------------------------------------------------
(* No answer is posted twice                                               *)

\* Only an owner of the lock sweeps, and what it sends it has taken off its list.
SweepsHeld ==
    /\ \A g \in Gateways : sweep[g].todo # {} \/ sweep[g].cur # None => pc[g] = "held"
    /\ \A g \in Gateways : sweep[g].cur \notin sweep[g].todo

LEMMA SweepsHeldStep ==
  ASSUME LockTypeOK, QueueTypeOK, SweepsHeld, [Next]_vars
  PROVE  SweepsHeld'
  <1> USE MutexAssumption, OutboxAssumption DEF LockTypeOK, QueueTypeOK, SweepsHeld, SweepState, Nonces, None
  <1>1. ASSUME NEW g \in Gateways,
               (Boot(g) \/ Acquire(g) \/ FallBack(g) \/ ClearAndExit(g)) /\ UNCHANGED outboxVars
        PROVE  SweepsHeld'
    <2>1. sweep' = sweep
      BY <1>1 DEF outboxVars, senderVars
    <2>2. \A h \in Gateways : pc[h] = "held" => pc'[h] = "held"
      BY <1>1 DEF Boot, Acquire, LinkTmp, ReadHolder, UnlinkStale, GiveUp, FallBack, ClearAndExit,
         isAlive, Down
    <2>3. QED
      BY <2>1, <2>2
  <1>2. ASSUME NEW g \in Gateways, (Release(g) \/ Crash(g)) /\ Ends({g}) PROVE SweepsHeld'
    BY <1>2 DEF Release, Crash, Ends, Idle
  <1>3. ASSUME ContainerRestart /\ Ends(Gateways) PROVE SweepsHeld'
    BY <1>3 DEF Ends, Idle
  <1>4. ASSUME NEW g \in Gateways, SweepStart(g) PROVE SweepsHeld'
    <2>1. SweepSet(sweep, sweep', g, {n \in Nonces : Listed(n)}, journal, None, FALSE)
      BY <1>4, SweepMoves, Zenon
    <2>2. pc' = pc /\ pc[g] = "held"
      BY <1>4 DEF SweepStart, holders, mutexVars, lockVars
    <2>3. /\ sweep'[g].cur \notin sweep'[g].todo
          /\ \A h \in Gateways \ {g} : sweep'[h] = sweep[h]
      BY <2>1 DEF SweepSet
    <2>4. QED
      BY <2>2, <2>3
  <1>5. ASSUME NEW g \in Gateways, SweepRecord(g) PROVE SweepsHeld'
    <2>1. PICK n \in sweep[g].todo : \E c \in {None, n} :
             SweepSet(sweep, sweep', g, sweep[g].todo \ {n}, sweep[g].seen, c, FALSE)
      BY <1>5, RecordMoves
    <2>2. pc' = pc /\ pc[g] = "held"
      BY <1>5 DEF SweepRecord, holders, lockVars
    <2>3. /\ sweep'[g].cur \notin sweep'[g].todo
          /\ \A h \in Gateways \ {g} : sweep'[h] = sweep[h]
      BY <2>1 DEF SweepSet
    <2>4. QED
      BY <2>2, <2>3
  <1>6. ASSUME NEW g \in Gateways, SweepLands(g) PROVE SweepsHeld'
    <2>1. SweepSet(sweep, sweep', g, sweep[g].todo, sweep[g].seen, sweep[g].cur, TRUE)
      BY <1>6, SweepMoves, Zenon
    <2>2. pc' = pc /\ pc[g] = "held"
      BY <1>6 DEF SweepLands, holders, mutexVars, lockVars
    <2>3. QED
      BY <2>1, <2>2 DEF SweepSet
  <1>7. ASSUME NEW g \in Gateways, SweepAck(g) PROVE SweepsHeld'
    <2>1. SweepSet(sweep, sweep', g, sweep[g].todo, sweep[g].seen, None, FALSE)
      BY <1>7, SweepMoves, Zenon
    <2>2. pc' = pc /\ pc[g] = "held"
      BY <1>7 DEF SweepAck, holders, mutexVars, lockVars
    <2>3. QED
      BY <2>1, <2>2 DEF SweepSet
  <1>8. ASSUME NEW g \in Gateways, SweepFails(g) PROVE SweepsHeld'
    <2>1. SweepSet(sweep, sweep', g, sweep[g].todo, sweep[g].seen, None, FALSE)
      BY <1>8, SweepMoves, Zenon
    <2>2. pc' = pc /\ pc[g] = "held"
      BY <1>8 DEF SweepFails, holders, mutexVars, lockVars
    <2>3. QED
      BY <2>1, <2>2 DEF SweepSet
  <1>9. ASSUME NEW n \in Turns, HookCheck(n) PROVE SweepsHeld'
    BY <1>9 DEF HookCheck, mutexVars, lockVars, fileVars, senderVars, obsVars
  <1>10. ASSUME NEW n \in Turns, HookWrite(n) PROVE SweepsHeld'
    BY <1>10 DEF HookWrite, mutexVars, lockVars, fileVars, senderVars, obsVars
  <1>11. ASSUME NEW n \in Turns, FlushLands(n) PROVE SweepsHeld'
    BY <1>11 DEF FlushLands, Post, mutexVars, lockVars, fileVars, senderVars, obsVars
  <1>12. ASSUME NEW n \in Turns, FlushAck(n) PROVE SweepsHeld'
    BY <1>12
       DEF FlushAck, appendDelivered, clearOutboxRecord, Fault, mutexVars, lockVars, fileVars,
           senderVars, obsVars
  <1>13. ASSUME NEW n \in Turns, FlushFails(n) PROVE SweepsHeld'
    BY <1>13 DEF FlushFails, Flushing, Fault, mutexVars, lockVars, fileVars, senderVars, obsVars
  <1>14. ASSUME NEW n \in Turns, DedupEvicts(n) PROVE SweepsHeld'
    BY <1>14 DEF DedupEvicts, mutexVars, lockVars, fileVars, senderVars, obsVars
  <1>15. ASSUME NEW n \in Turns, NEW g \in Gateways, FlushStart(g, n) PROVE SweepsHeld'
    BY <1>15 DEF FlushStart, mutexVars, lockVars, fileVars, senderVars, obsVars
  <1>16. ASSUME NEW n \in Floods, FloodQueue(n) PROVE SweepsHeld'
    BY <1>16 DEF FloodQueue, Fault, mutexVars, lockVars, fileVars, senderVars, obsVars
  <1>17. ASSUME NEW n \in Nonces, Ages(n) PROVE SweepsHeld'
    BY <1>17 DEF Ages, Older, mutexVars, lockVars, fileVars, senderVars, obsVars
  <1>18. ASSUME FloodCloses PROVE SweepsHeld'
    BY <1>18 DEF FloodCloses, mutexVars, lockVars, fileVars, senderVars, obsVars
  <1>19. ASSUME UNCHANGED vars PROVE SweepsHeld'
    BY <1>19 DEF vars, mutexVars, lockVars, outboxVars, fileVars, senderVars, obsVars
  <1>20. QED
    BY <1>1, <1>2, <1>3, <1>4, <1>5, <1>6, <1>7, <1>8, <1>9, <1>10, <1>11, <1>12,
       <1>13, <1>14, <1>15, <1>16, <1>17, <1>18, <1>19
       DEF Next, MutexStep

\* Only an owner of the lock flushes.
FlushesHeld == \A n \in Turns : flush[n].by \in Gateways => pc[flush[n].by] = "held"

LEMMA FlushesHeldStep ==
  ASSUME LockTypeOK, QueueTypeOK, FlushesHeld, [Next]_vars
  PROVE  FlushesHeld'
  <1> USE MutexAssumption, OutboxAssumption DEF LockTypeOK, QueueTypeOK, FlushesHeld, FlushState, None
  <1>1. ASSUME NEW g \in Gateways,
               (Boot(g) \/ Acquire(g) \/ FallBack(g) \/ ClearAndExit(g)) /\ UNCHANGED outboxVars
        PROVE  FlushesHeld'
    <2>1. flush' = flush
      BY <1>1 DEF outboxVars, senderVars
    <2>2. \A h \in Gateways : pc[h] = "held" => pc'[h] = "held"
      BY <1>1 DEF Boot, Acquire, LinkTmp, ReadHolder, UnlinkStale, GiveUp, FallBack, ClearAndExit,
         isAlive, Down
    <2>3. QED
      BY <2>1, <2>2
  <1>2. ASSUME NEW g \in Gateways, (Release(g) \/ Crash(g)) /\ Ends({g}) PROVE FlushesHeld'
    <2>1. \A h \in Gateways \ {g} : pc'[h] = pc[h]
      BY <1>2 DEF Release, Crash
    <2>2. \A n \in Turns : flush'[n].by = IF flush[n].by = g THEN None ELSE flush[n].by
      BY <1>2 DEF Ends
    <2>3. QED
      BY <2>1, <2>2
  <1>3. ASSUME ContainerRestart /\ Ends(Gateways) PROVE FlushesHeld'
    BY <1>3 DEF Ends
  <1>4. ASSUME NEW n \in Turns, NEW g \in Gateways, FlushStart(g, n) PROVE FlushesHeld'
    BY <1>4 DEF FlushStart, holders, mutexVars, lockVars
  <1>5. ASSUME NEW n \in Turns, FlushLands(n) \/ FlushAck(n) \/ FlushFails(n) \/ DedupEvicts(n)
        PROVE  FlushesHeld'
    <2>1. pc' = pc
      BY <1>5 DEF FlushLands, FlushAck, FlushFails, DedupEvicts, mutexVars, lockVars
    <2>2. ASSUME NEW k \in Turns PROVE flush'[k].by \in {flush[k].by, None}
      <3>1. CASE FlushLands(n)
        BY <3>1 DEF FlushLands, Flushing
      <3>2. CASE FlushAck(n)
        BY <3>2 DEF FlushAck, Flushing
      <3>3. CASE FlushFails(n)
        BY <3>3 DEF FlushFails, Flushing
      <3>4. CASE DedupEvicts(n)
        BY <3>4 DEF DedupEvicts
      <3>5. QED
        BY <1>5, <3>1, <3>2, <3>3, <3>4
    <2>3. QED
      BY <2>1, <2>2
  <1>6. CASE UNCHANGED <<pc, flush>>
    BY <1>6
  <1>7. QED
    BY <1>1, <1>2, <1>3, <1>4, <1>5, <1>6
       DEF Next, MutexStep, mutexVars, lockVars, outboxVars, senderVars, SweepStart, SweepRecord,
           SweepLands, SweepAck, SweepFails, HookCheck, HookWrite, FloodQueue, FloodCloses, Ages, vars

(* The outbox, its journal and the state of every sweep and flush stay      *)
(* well-formed, and only an owner of the startup lock sweeps and flushes,   *)
(* for any number of gateways, records and faults.                          *)
THEOREM OutboxTypeCorrect == Spec => []OutboxTypeOK
  <1> DEFINE Inv == MutexInv /\ QueueTypeOK /\ SweepsHeld /\ FlushesHeld
  <1>1. Init => Inv
    <2> SUFFICES ASSUME Init PROVE Inv
      OBVIOUS
    <2>1. SweepsHeld
      BY MutexAssumption DEF Init, SweepsHeld, Idle
    <2>2. FlushesHeld
      BY MutexAssumption DEF Init, FlushesHeld, Unflushed, None
    <2>3. QED
      BY <2>1, <2>2, MutexInvInit, QueueTypeInit DEF Init
  <1>2. Inv /\ [Next]_vars => Inv'
    BY MutexInvStep, OutboxLock, QueueTypeStep, SweepsHeldStep, FlushesHeldStep DEF MutexInv
  <1>3. Inv => OutboxTypeOK
    <2> SUFFICES ASSUME Inv PROVE OutboxTypeOK
      OBVIOUS
    <2>1. \A g \in Gateways \ holders : sweep[g].todo = {} /\ sweep[g].cur = None
      BY DEF SweepsHeld, holders
    <2>2. \A n \in Turns : flush[n].by \in holders \cup {None}
      BY DEF FlushesHeld, QueueTypeOK, FlushState, holders
    <2>3. QED
      BY <2>1, <2>2
         DEF MutexInv, LockTypeOK, QueueTypeOK, SweepState, FlushState, OutboxTypeOK, MutexTypeOK
  <1>4. QED
    BY <1>1, <1>2, <1>3, PTL DEF Spec

\* While n has met no mishap it is posted at most once: whoever posted it has journaled
\* it or is about to, nobody sends what has been posted or is being sent, and a sweep
\* whose list is older than the journal entry finds no file.
Once(n) ==
    /\ posts[n] <= 1
    /\ posts[n] = 1 => \/ n \in journal
                       \/ \E g \in Gateways : sweep[g].cur = n /\ sweep[g].landed
                       \/ n \in Turns /\ flush[n].phase = "landed"
    /\ \A g \in Gateways : sweep[g].cur = n /\ ~sweep[g].landed => posts[n] = 0
    /\ n \in Turns /\ flush[n].phase = "send" => posts[n] = 0
    /\ ~(Sweeping(n) /\ Flushing(n))
    /\ \A g \in Gateways : n \in sweep[g].todo /\ n \in journal =>
         n \in sweep[g].seen \/ (n \in Turns /\ json[n] = Absent)

OnceInv == breached \/ \A n \in Nonces : n \in mishap \/ Once(n)

LEMMA MishapsStay ==
  ASSUME [Next]_vars
  PROVE  (breached => breached') /\ mishap \subseteq mishap'
  <1>1. breached => breached'
    <2>1. [MutexNext]_lockVars
      BY OutboxLock
    <2>2. QED
      BY <2>1 DEF MutexNext, Step, Acquire, Boot, LinkTmp, ReadHolder, UnlinkStale, GiveUp,
         FallBack, Release, ClearAndExit, Crash, ContainerRestart, lockVars
  <1>2. mishap \subseteq mishap'
    BY DEF Next, MutexStep, outboxVars, obsVars, Ends, SweepStart, SweepRecord, Drop, Claim, Leave,
       appendDelivered, SweepLands, SweepAck, SweepFails, HookCheck, HookWrite, FloodQueue,
       FlushStart, FlushLands, FlushAck, FlushFails, FloodCloses, Ages, DedupEvicts, vars
  <1>3. QED
    BY <1>1, <1>2

\* Until a breach an owner of the lock is the only one that sweeps.
LEMMA SoleSweeper ==
  ASSUME MutexInv, QueueTypeOK, SweepsHeld, ~breached,
         NEW g \in Gateways, pc[g] = "held", NEW h \in Gateways, h # g
  PROVE  sweep[h].todo = {} /\ sweep[h].cur = None /\ ~sweep[h].landed
  <1>1. pc[h] # "held"
    BY MutexInvImplies DEF OneOwnerUnlessBreached, holders
  <1>2. sweep[h].todo = {} /\ sweep[h].cur = None
    BY <1>1 DEF SweepsHeld
  <1>3. QED
    BY <1>2 DEF QueueTypeOK

LEMMA OnceStep ==
  ASSUME MutexInv, QueueTypeOK, SweepsHeld, OnceInv, [Next]_vars
  PROVE  OnceInv'
  <1> SUFFICES ASSUME ~breached', NEW m \in Nonces, m \notin mishap'
               PROVE  Once(m)'
    BY DEF OnceInv
  <1>a. ~breached /\ m \notin mishap /\ Once(m)
    BY MishapsStay DEF OnceInv
  <1> USE MutexAssumption, OutboxAssumption, <1>a
      DEF QueueTypeOK, Once, Sweeping, Flushing, SweepState, FlushState, Nonces, None,
          Absent, Fresh, Ripe, Old
  <1>1. ASSUME NEW g \in Gateways,
               (Boot(g) \/ Acquire(g) \/ FallBack(g) \/ ClearAndExit(g)) /\ UNCHANGED outboxVars
        PROVE  Once(m)'
    BY <1>1 DEF outboxVars, fileVars, senderVars, obsVars
  <1>2. ASSUME NEW g \in Gateways, (Release(g) \/ Crash(g)) /\ Ends({g}) PROVE Once(m)'
    BY <1>2 DEF Ends, Idle, fileVars
  <1>3. ASSUME ContainerRestart /\ Ends(Gateways) PROVE Once(m)'
    BY <1>3 DEF Ends, Idle, fileVars
  <1>4. ASSUME NEW g \in Gateways, SweepStart(g) PROVE Once(m)'
    <2>1. SweepSet(sweep, sweep', g, {n \in Nonces : Listed(n)}, journal, None, FALSE)
      BY <1>4, SweepMoves, Zenon
    <2>2. pc[g] = "held"
      BY <1>4 DEF SweepStart, holders, SweepsHeld
    <2>3. \A h \in Gateways \ {g} :
            /\ sweep[h].todo = {} /\ sweep[h].cur = None /\ ~sweep[h].landed
            /\ sweep'[h].todo = {} /\ sweep'[h].cur = None /\ ~sweep'[h].landed
      BY <1>a, <2>1, <2>2, SoleSweeper DEF SweepSet
    <2>4. posts' = posts /\ journal' = journal /\ flush' = flush
      BY <1>4 DEF SweepStart, obsVars
    <2>5. sweep[g].cur = None
      BY <1>4 DEF SweepStart
    <2>6. QED
      BY <2>1, <2>3, <2>4, <2>5 DEF SweepSet
  <1>5. ASSUME NEW g \in Gateways, SweepRecord(g) PROVE Once(m)'
    <2>1. PICK n \in sweep[g].todo :
             /\ n \in Nonces /\ sweep[g].cur = None
             /\ \/ /\ Claim(g, n)
                   /\ SweepSet(sweep, sweep', g, sweep[g].todo \ {n}, sweep[g].seen, n, FALSE)
                \/ /\ Drop(g, n) \/ Leave(g, n)
                   /\ SweepSet(sweep, sweep', g, sweep[g].todo \ {n}, sweep[g].seen, None, FALSE)
      BY <1>5, RecordMoves
    <2>2. pc[g] = "held"
      BY <1>5 DEF SweepRecord, holders
    <2>3. \A h \in Gateways \ {g} :
            /\ sweep[h].todo = {} /\ sweep[h].cur = None /\ ~sweep[h].landed
            /\ sweep'[h].todo = {} /\ sweep'[h].cur = None /\ ~sweep'[h].landed
      BY <1>a, <2>1, <2>2, SoleSweeper DEF SweepSet
    <2>4. flush' = flush /\ posts' = posts
      BY <1>5, <2>1 DEF SweepRecord, Claim, Drop, Leave, obsVars
    <2>5. CASE Claim(g, n) /\ SweepSet(sweep, sweep', g, sweep[g].todo \ {n}, sweep[g].seen, n, FALSE)
      <3>1. journal' = journal /\ json' = [json EXCEPT ![n] = Absent]
        BY <2>5 DEF Claim
      <3>2. CASE m = n
        <4>1. ~Flushing(n)
          BY <2>5, <3>2 DEF Claim
        <4>2. n \notin journal
          BY <2>1, <2>5, <3>2 DEF Claim, ToSend, AlreadyJournaled, Suppress
        <4>3. posts[n] = 0
          BY <2>1, <2>3, <3>2, <4>1, <4>2
        <4>4. QED
          BY <2>1, <2>3, <2>4, <2>5, <3>1, <3>2, <4>1, <4>2, <4>3 DEF SweepSet
      <3>3. CASE m # n
        BY <2>1, <2>3, <2>4, <2>5, <3>1, <3>3 DEF SweepSet
      <3>4. QED
        BY <3>2, <3>3
    <2>6. CASE /\ Drop(g, n) \/ Leave(g, n)
               /\ SweepSet(sweep, sweep', g, sweep[g].todo \ {n}, sweep[g].seen, None, FALSE)
      <3>1. \/ journal' = journal
            \/ journal' = journal \cup {n}
        BY <2>6 DEF Drop, Leave, fileVars, appendDelivered
      <3>2. json' = json \/ json' = [json EXCEPT ![n] = Absent]
        BY <2>6 DEF Drop, Leave, fileVars, clearOutboxRecord
      <3>3. QED
        BY <2>1, <2>3, <2>4, <2>6, <3>1, <3>2 DEF SweepSet
    <2>7. QED
      BY <2>1, <2>5, <2>6
  <1>6. ASSUME NEW g \in Gateways, SweepLands(g) PROVE Once(m)'
    <2>1. SweepSet(sweep, sweep', g, sweep[g].todo, sweep[g].seen, sweep[g].cur, TRUE)
      BY <1>6, SweepMoves, Zenon
    <2>2. pc[g] = "held"
      BY <1>6 DEF SweepLands, holders, SweepsHeld
    <2>3. \A h \in Gateways \ {g} :
            /\ sweep[h].todo = {} /\ sweep[h].cur = None /\ ~sweep[h].landed
            /\ sweep'[h].todo = {} /\ sweep'[h].cur = None /\ ~sweep'[h].landed
      BY <1>a, <2>1, <2>2, SoleSweeper DEF SweepSet
    <2>4. journal' = journal /\ json' = json /\ flush' = flush
      BY <1>6 DEF SweepLands, fileVars
    <2>5. sweep[g].cur \in Nonces /\ ~sweep[g].landed
      BY <1>6 DEF SweepLands
    <2>6. CASE m = sweep[g].cur
      <3>1. posts[m] = 0 /\ posts'[m] = 1
        BY <1>6, <2>5, <2>6 DEF SweepLands, Post
      <3>2. sweep'[g].cur = m /\ sweep'[g].landed
        BY <2>1, <2>6 DEF SweepSet
      <3>3. ~(m \in Turns /\ flush[m].phase \in {"send", "landed"})
        BY <2>6
      <3>4. \A h \in Gateways : sweep'[h].todo = sweep[h].todo /\ sweep'[h].seen = sweep[h].seen
        BY <2>1 DEF SweepSet
      <3>5. \A h \in Gateways : ~(sweep'[h].cur = m /\ ~sweep'[h].landed)
        BY <2>3, <3>2
      <3>6. QED
        BY <2>4, <3>1, <3>2, <3>3, <3>4, <3>5
    <2>7. CASE m # sweep[g].cur
      <3>1. posts'[m] = posts[m]
        BY <1>6, <2>5, <2>7, PostCounts DEF SweepLands
      <3>2. QED
        BY <2>1, <2>3, <2>4, <2>5, <2>7, <3>1 DEF SweepSet
    <2>8. QED
      BY <2>6, <2>7
  <1>7. ASSUME NEW g \in Gateways, SweepAck(g) PROVE Once(m)'
    <2>1. SweepSet(sweep, sweep', g, sweep[g].todo, sweep[g].seen, None, FALSE)
      BY <1>7, SweepMoves, Zenon
    <2>2. pc[g] = "held"
      BY <1>7 DEF SweepAck, holders, SweepsHeld
    <2>3. \A h \in Gateways \ {g} :
            /\ sweep[h].todo = {} /\ sweep[h].cur = None /\ ~sweep[h].landed
            /\ sweep'[h].todo = {} /\ sweep'[h].cur = None /\ ~sweep'[h].landed
      BY <1>a, <2>1, <2>2, SoleSweeper DEF SweepSet
    <2>4. /\ json' = json /\ posts' = posts /\ flush' = flush
          /\ sweep[g].cur \in Nonces /\ sweep[g].landed
      BY <1>7 DEF SweepAck
    <2>5. m = sweep[g].cur => m \in journal'
      BY <1>7 DEF SweepAck, appendDelivered
    <2>6. journal' = journal \/ journal' = journal \cup {sweep[g].cur}
      BY <1>7 DEF SweepAck, appendDelivered
    <2>7. sweep[g].cur \notin sweep[g].todo
      BY DEF SweepsHeld
    <2>8. QED
      BY <2>1, <2>3, <2>4, <2>5, <2>6, <2>7 DEF SweepSet
  <1>8. ASSUME NEW g \in Gateways, SweepFails(g) PROVE Once(m)'
    <2>1. SweepSet(sweep, sweep', g, sweep[g].todo, sweep[g].seen, None, FALSE)
      BY <1>8, SweepMoves, Zenon
    <2>2. pc[g] = "held"
      BY <1>8 DEF SweepFails, holders, SweepsHeld
    <2>3. \A h \in Gateways \ {g} :
            /\ sweep[h].todo = {} /\ sweep[h].cur = None /\ ~sweep[h].landed
            /\ sweep'[h].todo = {} /\ sweep'[h].cur = None /\ ~sweep'[h].landed
      BY <1>a, <2>1, <2>2, SoleSweeper DEF SweepSet
    <2>4. /\ journal' = journal /\ posts' = posts /\ flush' = flush
          /\ sweep[g].cur \in Nonces
      BY <1>8 DEF SweepFails
    <2>5. m = sweep[g].cur => ~sweep[g].landed
      BY <1>8 DEF SweepFails
    <2>6. m # sweep[g].cur => json'[m] = json[m]
      BY <1>8, <2>4 DEF SweepFails, releaseClaim
    <2>7. sweep[g].cur \notin sweep[g].todo
      BY DEF SweepsHeld
    <2>8. QED
      BY <2>1, <2>3, <2>4, <2>5, <2>6, <2>7 DEF SweepSet
  <1>9. ASSUME NEW n \in Turns, HookCheck(n) PROVE Once(m)'
    BY <1>9 DEF HookCheck, mutexVars, lockVars, fileVars, senderVars, obsVars
  <1>10. ASSUME NEW n \in Turns, HookWrite(n) PROVE Once(m)'
    BY <1>10 DEF HookWrite, mutexVars, lockVars, fileVars, senderVars, obsVars
  <1>11. ASSUME NEW n \in Turns, FlushLands(n) PROVE Once(m)'
    BY <1>11 DEF FlushLands, Post, mutexVars, lockVars, fileVars, senderVars, obsVars
  <1>12. ASSUME NEW n \in Turns, FlushAck(n) PROVE Once(m)'
    BY <1>12
       DEF FlushAck, appendDelivered, clearOutboxRecord, Fault, mutexVars, lockVars, fileVars,
           senderVars, obsVars
  <1>13. ASSUME NEW n \in Turns, FlushFails(n) PROVE Once(m)'
    BY <1>13 DEF FlushFails, Flushing, Fault, mutexVars, lockVars, fileVars, senderVars, obsVars
  <1>14. ASSUME NEW n \in Turns, DedupEvicts(n) PROVE Once(m)'
    BY <1>14 DEF DedupEvicts, mutexVars, lockVars, fileVars, senderVars, obsVars
  <1>15. ASSUME NEW n \in Turns, NEW g \in Gateways, FlushStart(g, n) PROVE Once(m)'
    <2>1. /\ sweep' = sweep /\ journal' = journal /\ json' = json /\ posts' = posts
          /\ flush' \in [Turns -> FlushState]
          /\ \A k \in Turns \ {n} : flush'[k] = flush[k]
          /\ flush[n].phase = "none"
          /\ flush'[n].phase = IF n \in journal THEN "done" ELSE "send"
      BY <1>15 DEF FlushStart, Unflushed, fileVars
    <2>2. CASE m = n /\ n \notin journal
      <3>1. \A h \in Gateways : sweep[h].cur # n
        BY <1>15, <2>2 DEF FlushStart
      <3>2. posts[m] = 0
        BY <2>1, <2>2, <3>1
      <3>3. QED
        BY <2>1, <2>2, <3>1, <3>2
    <2>3. CASE m = n /\ n \in journal
      BY <2>1, <2>3
    <2>4. CASE m # n
      BY <2>1, <2>4
    <2>5. QED
      BY <2>2, <2>3, <2>4
  <1>16. ASSUME NEW n \in Floods, FloodQueue(n) PROVE Once(m)'
    BY <1>16 DEF FloodQueue, Fault, mutexVars, lockVars, fileVars, senderVars, obsVars
  <1>17. ASSUME NEW n \in Nonces, Ages(n) PROVE Once(m)'
    BY <1>17 DEF Ages, Older, mutexVars, lockVars, fileVars, senderVars, obsVars
  <1>18. ASSUME FloodCloses PROVE Once(m)'
    BY <1>18 DEF FloodCloses, mutexVars, lockVars, fileVars, senderVars, obsVars
  <1>19. ASSUME UNCHANGED vars PROVE Once(m)'
    BY <1>19 DEF vars, mutexVars, outboxVars, fileVars, senderVars, obsVars
  <1>20. QED
    BY <1>1, <1>2, <1>3, <1>4, <1>5, <1>6, <1>7, <1>8, <1>9, <1>10, <1>11, <1>12,
       <1>13, <1>14, <1>15, <1>16, <1>17, <1>18, <1>19
       DEF Next, MutexStep

(* A nonce is posted twice only after a delivery of it was cut between      *)
(* landing and journal, after flush and sweep sent it at once, after a hook *)
(* wrote behind a delivery, or after the startup mutex was breached; for    *)
(* any number of gateways, records and faults.                              *)
THEOREM AnswersPostedOnce == Spec => []PostedOnce
  <1> DEFINE Inv == MutexInv /\ QueueTypeOK /\ SweepsHeld /\ OnceInv
  <1>1. Init => Inv
    <2> SUFFICES ASSUME Init PROVE Inv
      OBVIOUS
    <2>1. SweepsHeld
      BY MutexAssumption DEF Init, SweepsHeld, Idle
    <2>2. OnceInv
      BY OutboxAssumption
         DEF Init, OnceInv, Once, Sweeping, Flushing, Idle, Unflushed, Nonces, None
    <2>3. QED
      BY <2>1, <2>2, MutexInvInit, QueueTypeInit DEF Init
  <1>2. Inv /\ [Next]_vars => Inv'
    BY MutexInvStep, OutboxLock, QueueTypeStep, SweepsHeldStep, OnceStep DEF MutexInv
  <1>3. Inv => PostedOnce
    BY DEF OnceInv, Once, QueueTypeOK, PostedOnce
  <1>4. QED
    BY <1>1, <1>2, <1>3, PTL DEF Spec

=============================================================================
