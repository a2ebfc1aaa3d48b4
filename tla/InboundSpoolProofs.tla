------------------------- MODULE InboundSpoolProofs -------------------------
(***************************************************************************)
(* Proofs about the durable spool, for every set of ids and chats and every *)
(* value of the bounds.  The inductive invariant is TypeOK together with    *)
(* Mirror (the file agrees with memory while no append has failed),         *)
(* SyncedHeld (what was durably put is in memory and on disk), Announced    *)
(* (no window is younger than the last retraction, so none hides the start  *)
(* of a burst) and NoticeKnown (a chat's last notice is covered by its      *)
(* attempt window, also while onEscalate is still to run).                  *)
(***************************************************************************)
EXTENDS InboundSpool, TLAPS, FiniteSetTheorems

USE DEF NULL, AppendOutcome, tellVars

\* The spool's constants, as the actions use them.
LEMMA Constants ==
    /\ ChatOf \in [Ids -> Chats] /\ Outcomes \subseteq AppendOutcome
    /\ CompactAt \in Nat /\ MaxFaults \in Nat /\ MaxCrashes \in Nat
    /\ NoticeCooldown \in Nat /\ EscalateAfter \in Nat
BY SpoolAssumption

\* Compaction counts finitely many live ids and chats.
LEMMA LiveCount ==
    ASSUME NEW L, NEW X
    PROVE  /\ Cardinality({id \in Ids : L[id].firstAt # NULL}) \in Nat
           /\ Cardinality({c \in Chats : X[c] # NULL}) \in Nat
<1>1. IsFiniteSet({id \in Ids : L[id].firstAt # NULL})
  BY SpoolAssumption, FS_Subset, {id \in Ids : L[id].firstAt # NULL} \subseteq Ids
<1>2. IsFiniteSet({c \in Chats : X[c] # NULL})
  BY SpoolAssumption, FS_Subset, {c \in Chats : X[c] # NULL} \subseteq Chats
<1> QED  BY <1>1, <1>2, FS_CardinalityType

\* The file after an operation is either the log the operation leaves or the
\* compacted image of memory, and has its type in both cases.
LEMMA SettleType ==
    ASSUME NEW D \in [Ids -> Entry], NEW X \in [Chats -> Int], NEW t \in BOOLEAN,
           NEW n \in Nat, NEW cmp \in BOOLEAN,
           live' \in [Ids -> Entry], esc' \in [Chats -> Int],
           Settle(D, X, t, n, cmp)
    PROVE  /\ disk' \in [Ids -> Entry] /\ escDisk' \in [Chats -> Int]
           /\ torn' \in BOOLEAN /\ lines' \in Nat
<1>1. CASE n > CompactAt /\ cmp
  <2> DEFINE n1 == Cardinality({id \in Ids : live'[id].firstAt # NULL})
             n2 == Cardinality({c \in Chats : esc'[c] # NULL})
  <2>1. n1 \in Nat /\ n2 \in Nat  BY LiveCount
  <2>2. lines' = n1 + n2  BY <1>1 DEF Settle
  <2> HIDE DEF n1, n2
  <2>3. lines' \in Nat  BY <2>1, <2>2
  <2> QED  BY <1>1, <2>3 DEF Settle
<1>2. CASE ~(n > CompactAt /\ cmp)  BY <1>2 DEF Settle
<1> QED  BY <1>1, <1>2

\* The tail and the size of the file after an append.
LEMMA AppendType ==
    ASSUME TypeOK, NEW out \in Outcomes
    PROVE  TornAfter(out) \in BOOLEAN /\ LinesAfter(out) \in Nat
BY Constants DEF TypeOK, TornAfter, LinesAfter

\* The health latch and the fault counter keep their types.
LEMMA HealthType ==
    ASSUME TypeOK, NEW out \in Outcomes, Health(out)
    PROVE  /\ faults' \in 0..MaxFaults /\ degraded' \in BOOLEAN
           /\ faults' = 0 => faults = 0 /\ out = "ok"
BY Constants DEF TypeOK, Health

\* The entries and chats an operation writes have their types.
LEMMA EntryTypes ==
    ASSUME TypeOK, NEW id \in Ids, NEW out \in Outcomes
    PROVE  /\ Absent \in Entry
           /\ PutEntry(id) \in Entry
           /\ \A e \in Entry : Recorded(id, e, out) \in [Ids -> Entry]
<1>1. Absent \in Entry  BY DEF Absent, Entry
<1>2. PutEntry(id) \in Entry  BY DEF PutEntry, IsLive, TypeOK, Entry
<1>3. \A e \in Entry : Recorded(id, e, out) \in [Ids -> Entry]  BY DEF Recorded, TypeOK
<1> QED  BY <1>1, <1>2, <1>3

\* Type correctness is inductive, one case per operation.
LEMMA TypeStep == TypeOK /\ [Next]_spoolVars => TypeOK'
<1> SUFFICES ASSUME TypeOK, [Next]_spoolVars PROVE TypeOK'  OBVIOUS
<1> USE Constants
<1>1. ASSUME NEW id \in Ids, NEW out \in Outcomes, NEW cmp \in BOOLEAN, Put(id, out, cmp)
      PROVE TypeOK'
  <2>1. CASE PutDuplicate(id)
    BY <1>1, <2>1 DEF Put, PutDuplicate, TypeOK, memVars, fileVars, jobVars
  <2>2. CASE PutRecord(id, out, cmp)
    <3>1. live' \in [Ids -> Entry] /\ esc' \in [Chats -> Int]
      BY <2>2, EntryTypes DEF PutRecord, TypeOK
    <3>2. faults' \in 0..MaxFaults /\ degraded' \in BOOLEAN
      BY <2>2, HealthType DEF PutRecord
    <3>3. /\ disk' \in [Ids -> Entry] /\ escDisk' \in [Chats -> Int]
          /\ torn' \in BOOLEAN /\ lines' \in Nat
      <4>1. Recorded(id, PutEntry(id), out) \in [Ids -> Entry]  BY EntryTypes
      <4>2. escDisk \in [Chats -> Int]  BY DEF TypeOK
      <4> QED  BY <2>2, <3>1, <4>1, <4>2, SettleType, AppendType DEF PutRecord
    <3> QED  BY <1>1, <2>2, <3>1, <3>2, <3>3 DEF Put, PutRecord, TypeOK, jobVars
  <2> QED  BY <1>1, <2>1, <2>2 DEF Put, SpoolPut
<1>2. ASSUME NEW id \in Ids, NEW out \in Outcomes, NEW cmp \in BOOLEAN, Ack(id, out, cmp)
      PROVE TypeOK'
  <2>1. CASE AckUnknown(id)
    BY <1>2, <2>1 DEF Ack, AckUnknown, TypeOK, memVars, fileVars, jobVars
  <2>2. CASE AckRecord(id, out, cmp)
    <3>1. live' \in [Ids -> Entry] /\ esc' \in [Chats -> Int]
      BY <2>2, EntryTypes DEF AckRecord, TypeOK
    <3>2. faults' \in 0..MaxFaults /\ degraded' \in BOOLEAN
      BY <2>2, HealthType DEF AckRecord
    <3>3. /\ disk' \in [Ids -> Entry] /\ escDisk' \in [Chats -> Int]
          /\ torn' \in BOOLEAN /\ lines' \in Nat
      <4>1. Recorded(id, Absent, out) \in [Ids -> Entry]  BY EntryTypes
      <4>2. escDisk \in [Chats -> Int]  BY DEF TypeOK
      <4> QED  BY <2>2, <3>1, <4>1, <4>2, SettleType, AppendType DEF AckRecord
    <3> QED  BY <1>2, <2>2, <3>1, <3>2, <3>3 DEF Ack, AckRecord, TypeOK, jobVars
  <2> QED  BY <1>2, <2>1, <2>2 DEF Ack, SpoolAck
<1>3. ASSUME NEW id \in Ids, NEW out \in Outcomes, NEW cmp \in BOOLEAN, DropStep(id, out, cmp)
      PROVE TypeOK'
  <2>1. live' \in [Ids -> Entry] /\ esc' \in [Chats -> Int]
    BY <1>3, EntryTypes DEF DropStep, TypeOK
  <2>2. faults' \in 0..MaxFaults /\ degraded' \in BOOLEAN
    BY <1>3, HealthType DEF DropStep
  <2>3. /\ disk' \in [Ids -> Entry] /\ escDisk' \in [Chats -> Int]
        /\ torn' \in BOOLEAN /\ lines' \in Nat
    <3>1. Recorded(id, Absent, out) \in [Ids -> Entry]  BY EntryTypes
    <3>2. escDisk \in [Chats -> Int]  BY DEF TypeOK
    <3>3. (cmp /\ due = {id}) \in BOOLEAN  OBVIOUS
    <3>4. Settle(Recorded(id, Absent, out), escDisk, TornAfter(out), LinesAfter(out),
                 cmp /\ due = {id})
      BY <1>3 DEF DropStep
    <3> QED  BY <2>1, <3>1, <3>2, <3>3, <3>4, SettleType, AppendType
  <2>4. /\ job' \in {"none", "drop", "sweep"} /\ due' \in SUBSET Ids /\ cur' \in SUBSET Ids
        /\ cur' \subseteq due' /\ (cur' # {} => job' = "sweep") /\ (job' = "none" <=> due' = {})
        /\ win' \in {"none", "post", "quiet"} /\ (win' # "none" => cur' # {})
    BY <1>3 DEF DropStep, JobDone, TypeOK
  <2>5. /\ lastDrop' \in [Chats -> Int] /\ burst' \in [Chats -> Int]
        /\ lastNotice' \in [Chats -> Int] /\ unheard' \in SUBSET Chats /\ synced' \in SUBSET Ids
    BY <1>3 DEF DropStep, TypeOK
  <2>6. now' \in Nat /\ crashes' \in 0..MaxCrashes
    BY <1>3 DEF DropStep, TypeOK
  <2> QED  BY <2>1, <2>2, <2>3, <2>4, <2>5, <2>6 DEF TypeOK
<1>4. ASSUME NEW id \in Ids, NEW sent \in NoticeSends, NEW cmp \in BOOLEAN, SweepNotice(id, sent, cmp)
      PROVE TypeOK'
  <2>1. live' \in [Ids -> Entry] /\ esc' \in [Chats -> Int] /\ degraded' \in BOOLEAN
        /\ faults' \in 0..MaxFaults
    BY <1>4 DEF SweepNotice, TypeOK, memVars
  <2>2. /\ disk' \in [Ids -> Entry] /\ escDisk' \in [Chats -> Int]
        /\ torn' \in BOOLEAN /\ lines' \in Nat
    <3>1. disk \in [Ids -> Entry] /\ escDisk \in [Chats -> Int] /\ torn \in BOOLEAN /\ lines \in Nat
      BY DEF TypeOK
    <3>2. (cmp /\ due = {id}) \in BOOLEAN  OBVIOUS
    <3>3. Settle(disk, escDisk, torn, lines, cmp /\ due = {id})  BY <1>4 DEF SweepNotice
    <3> QED  BY <2>1, <3>1, <3>2, <3>3, SettleType
  <2>3. /\ job' \in {"none", "drop", "sweep"} /\ due' \in SUBSET Ids /\ cur' \in SUBSET Ids
        /\ cur' \subseteq due' /\ (cur' # {} => job' = "sweep") /\ (job' = "none" <=> due' = {})
        /\ win' \in {"none", "post", "quiet"} /\ (win' # "none" => cur' # {})
    BY <1>4 DEF SweepNotice, JobDone, TypeOK
  <2>4. /\ lastDrop' \in [Chats -> Int] /\ burst' \in [Chats -> Int]
        /\ lastNotice' \in [Chats -> Int] /\ unheard' \in SUBSET Chats /\ synced' \in SUBSET Ids
    BY <1>4 DEF SweepNotice, TypeOK
  <2>5. now' \in Nat /\ crashes' \in 0..MaxCrashes  BY <1>4 DEF SweepNotice, TypeOK
  <2> QED  BY <2>1, <2>2, <2>3, <2>4, <2>5 DEF TypeOK
<1>11. ASSUME NEW id \in Ids, NEW out \in Outcomes, SweepWindow(id, out)
      PROVE TypeOK'
  <2> DEFINE X == IF Landed(out) THEN [escDisk EXCEPT ![ChatOf[id]] = now] ELSE escDisk
  <2>1. live' \in [Ids -> Entry] /\ esc' \in [Chats -> Int] /\ X \in [Chats -> Int]
    BY <1>11 DEF SweepWindow, TypeOK
  <2>2. faults' \in 0..MaxFaults /\ degraded' \in BOOLEAN
    BY <1>11, HealthType DEF SweepWindow
  <2>3. /\ disk' \in [Ids -> Entry] /\ escDisk' \in [Chats -> Int]
        /\ torn' \in BOOLEAN /\ lines' \in Nat
    <3>1. disk \in [Ids -> Entry]  BY DEF TypeOK
    <3>2. Settle(disk, X, TornAfter(out), LinesAfter(out), FALSE)  BY <1>11 DEF SweepWindow
    <3> HIDE DEF X
    <3> QED  BY <2>1, <3>1, <3>2, SettleType, AppendType
  <2> QED  BY <1>11, <2>1, <2>2, <2>3 DEF SweepWindow, TypeOK
<1>5. ASSUME NEW id \in Ids, NEW out \in Outcomes, SweepTombstone(id, out)
      PROVE TypeOK'
  <2>1. live' \in [Ids -> Entry] /\ esc' \in [Chats -> Int]
    BY <1>5, EntryTypes DEF SweepTombstone, TypeOK
  <2>2. faults' \in 0..MaxFaults /\ degraded' \in BOOLEAN
    BY <1>5, HealthType DEF SweepTombstone
  <2>3. /\ disk' \in [Ids -> Entry] /\ escDisk' \in [Chats -> Int]
        /\ torn' \in BOOLEAN /\ lines' \in Nat
    <3>1. Recorded(id, Absent, out) \in [Ids -> Entry]  BY EntryTypes
    <3>2. escDisk \in [Chats -> Int]  BY DEF TypeOK
    <3> QED  BY <1>5, <2>1, <3>1, <3>2, SettleType, AppendType DEF SweepTombstone
  <2>4. lastDrop' \in [Chats -> Int] /\ burst' \in [Chats -> Int]
    BY <1>5 DEF SweepTombstone, Dropped, TypeOK
  <2> QED  BY <1>5, <2>1, <2>2, <2>3, <2>4 DEF SweepTombstone, TypeOK
<1>6. ASSUME NEW S \in SUBSET Ids, DropStart(S) PROVE TypeOK'
  BY <1>6 DEF DropStart, TypeOK, memVars, fileVars, obsVars
<1>7. CASE SweepStart
  BY <1>7 DEF SweepStart, Expired, LiveIds, TypeOK, memVars, fileVars, obsVars
<1>8. CASE SpoolCrash
  <2>1. degraded' \in BOOLEAN /\ torn' \in BOOLEAN  BY <1>8 DEF SpoolCrash, TypeOK, fileVars
  <2>2. /\ job' \in {"none", "drop", "sweep"} /\ due' \in SUBSET Ids /\ cur' \in SUBSET Ids
        /\ cur' \subseteq due' /\ (cur' # {} => job' = "sweep") /\ (job' = "none" <=> due' = {})
        /\ win' \in {"none", "post", "quiet"} /\ (win' # "none" => cur' # {})
        /\ unheard' \in SUBSET Chats
    BY <1>8 DEF SpoolCrash, TypeOK
  <2>3. crashes' \in 0..MaxCrashes  BY <1>8 DEF SpoolCrash, TypeOK
  <2>4. /\ live' \in [Ids -> Entry] /\ disk' \in [Ids -> Entry]
        /\ esc' \in [Chats -> Int] /\ escDisk' \in [Chats -> Int]
    BY <1>8 DEF SpoolCrash, TypeOK, fileVars
  <2> QED  BY <1>8, <2>1, <2>2, <2>3, <2>4 DEF SpoolCrash, TypeOK, fileVars
<1>9. CASE Tick
  BY <1>9 DEF Tick, TypeOK, memVars, fileVars, jobVars, obsVars
<1>10. CASE UNCHANGED spoolVars
  BY <1>10 DEF spoolVars, TypeOK, memVars, fileVars, jobVars, obsVars
<1> QED  BY <1>1, <1>2, <1>3, <1>4, <1>5, <1>6, <1>7, <1>8, <1>9, <1>10, <1>11 DEF Next

LEMMA SpoolInitType == SpoolInit => TypeOK
<1> SUFFICES ASSUME SpoolInit PROVE TypeOK  OBVIOUS
<1>1. Absent \in Entry  BY DEF Absent, Entry
<1>2. live \in [Ids -> Entry] /\ disk \in [Ids -> Entry]  BY <1>1 DEF SpoolInit
<1>3. degraded \in BOOLEAN /\ torn \in BOOLEAN  BY DEF SpoolInit
<1>4. /\ esc \in [Chats -> Int] /\ escDisk \in [Chats -> Int]
      /\ lastNotice \in [Chats -> Int] /\ lastDrop \in [Chats -> Int] /\ burst \in [Chats -> Int]
  BY DEF SpoolInit
<1>5. now \in Nat /\ lines \in Nat /\ faults \in 0..MaxFaults /\ crashes \in 0..MaxCrashes
  BY Constants DEF SpoolInit
<1>6. /\ job \in {"none", "drop", "sweep"} /\ due \in SUBSET Ids /\ cur \in SUBSET Ids
      /\ cur \subseteq due /\ (cur # {} => job = "sweep") /\ (job = "none" <=> due = {})
      /\ synced \in SUBSET Ids /\ win \in {"none", "post", "quiet"} /\ (win # "none" => cur # {})
      /\ unheard \in SUBSET Chats
  BY DEF SpoolInit
<1> QED  BY <1>2, <1>3, <1>4, <1>5, <1>6 DEF TypeOK

\* Every reachable state of the spool is well typed.
THEOREM TypeCorrect == Spec => []TypeOK
BY SpoolInitType, TypeStep, PTL DEF Spec

-----------------------------------------------------------------------------
(* While no append has failed the file has no torn tail either, so the next *)
(* record lands; this is what makes the agreement of file and memory        *)
(* inductive.                                                               *)

Mirror == faults = 0 => disk = live /\ escDisk = esc /\ torn = FALSE

\* One record of the entry table: the file follows memory, compacted or not.
LEMMA EntryRecord ==
    ASSUME TypeOK, Mirror, NEW id \in Ids, NEW e, NEW out \in Outcomes, NEW cmp,
           Health(out), live' = [live EXCEPT ![id] = e], esc' = esc,
           Settle(Recorded(id, e, out), escDisk, TornAfter(out), LinesAfter(out), cmp)
    PROVE  Mirror'
<1> SUFFICES ASSUME faults' = 0 PROVE disk' = live' /\ escDisk' = esc' /\ torn' = FALSE
  BY DEF Mirror
<1>1. faults = 0 /\ out = "ok"  BY HealthType
<1>2. disk = live /\ escDisk = esc /\ torn = FALSE  BY <1>1 DEF Mirror
<1>3. Recorded(id, e, out) = live'  BY <1>1, <1>2 DEF Recorded, Landed
<1>4. TornAfter(out) = FALSE  BY <1>1 DEF TornAfter
<1> QED  BY <1>2, <1>3, <1>4 DEF Settle

\* The agreement of file and memory is preserved by every operation.
LEMMA MirrorStep == TypeOK /\ Mirror /\ [Next]_spoolVars => Mirror'
<1> SUFFICES ASSUME TypeOK, Mirror, [Next]_spoolVars PROVE Mirror'  OBVIOUS
<1>1. ASSUME NEW id \in Ids, NEW out \in Outcomes, NEW cmp \in BOOLEAN, Put(id, out, cmp)
      PROVE Mirror'
  <2>1. CASE PutDuplicate(id)  BY <2>1 DEF PutDuplicate, Mirror, memVars, fileVars
  <2>2. CASE PutRecord(id, out, cmp)  BY <2>2, EntryRecord DEF PutRecord
  <2> QED  BY <1>1, <2>1, <2>2 DEF Put, SpoolPut
<1>2. ASSUME NEW id \in Ids, NEW out \in Outcomes, NEW cmp \in BOOLEAN, Ack(id, out, cmp)
      PROVE Mirror'
  <2>1. CASE AckUnknown(id)  BY <2>1 DEF AckUnknown, Mirror, memVars, fileVars
  <2>2. CASE AckRecord(id, out, cmp)  BY <2>2, EntryRecord DEF AckRecord
  <2> QED  BY <1>2, <2>1, <2>2 DEF Ack, SpoolAck
<1>3. ASSUME NEW id \in Ids, NEW out \in Outcomes, NEW cmp \in BOOLEAN, DropStep(id, out, cmp)
      PROVE Mirror'
  BY <1>3, EntryRecord DEF DropStep
<1>4. ASSUME NEW id \in Ids, NEW out \in Outcomes, SweepWindow(id, out) PROVE Mirror'
  <2> SUFFICES ASSUME faults' = 0 PROVE disk' = live' /\ escDisk' = esc' /\ torn' = FALSE
    BY DEF Mirror
  <2>1. faults = 0 /\ out = "ok"  BY <1>4, HealthType DEF SweepWindow
  <2>2. disk = live /\ escDisk = esc /\ torn = FALSE  BY <2>1 DEF Mirror
  <2>3. Landed(out) /\ TornAfter(out) = FALSE  BY <2>1, <2>2 DEF Landed, TornAfter
  <2> QED  BY <1>4, <2>2, <2>3 DEF SweepWindow, Settle
<1>11. ASSUME NEW id \in Ids, NEW sent \in NoticeSends, NEW cmp \in BOOLEAN, SweepNotice(id, sent, cmp)
      PROVE Mirror'
  BY <1>11 DEF SweepNotice, Settle, Mirror, memVars
<1>5. ASSUME NEW id \in Ids, NEW out \in Outcomes, SweepTombstone(id, out) PROVE Mirror'
  BY <1>5, EntryRecord DEF SweepTombstone
<1>6. ASSUME NEW S \in SUBSET Ids, DropStart(S) PROVE Mirror'
  BY <1>6 DEF DropStart, Mirror, memVars, fileVars, obsVars
<1>7. CASE SweepStart  BY <1>7 DEF SweepStart, Mirror, memVars, fileVars, obsVars
<1>8. CASE SpoolCrash  BY <1>8 DEF SpoolCrash, Mirror, fileVars
<1>9. CASE Tick  BY <1>9 DEF Tick, Mirror, memVars, fileVars, obsVars
<1>10. CASE UNCHANGED spoolVars
  BY <1>10 DEF spoolVars, Mirror, memVars, fileVars, obsVars
<1> QED  BY <1>1, <1>2, <1>3, <1>4, <1>5, <1>6, <1>7, <1>8, <1>9, <1>10, <1>11 DEF Next

\* A crash at any point of any operation restores exactly the un-acked entries
\* and notice windows the gateway held, as long as no append has failed.
THEOREM CrashSafe == Spec => []CrashLosesNothing
<1>1. SpoolInit => Mirror  BY DEF SpoolInit, Mirror
<1>2. Mirror => CrashLosesNothing  BY DEF Mirror, CrashLosesNothing
<1> QED  BY <1>1, <1>2, TypeCorrect, MirrorStep, PTL DEF Spec

-----------------------------------------------------------------------------
(* What was durably put stays, whatever fails around it.                    *)

\* An entry on disk outlives a compaction only if memory holds it too.
SyncedHeld == \A id \in synced : id \in Ids /\ IsLive(id) /\ OnDisk(id)

\* One record of the entry table leaves every other entry where it was.
LEMMA OthersHeld ==
    ASSUME TypeOK, SyncedHeld, NEW id \in Ids, NEW e \in Entry, NEW out, NEW cmp, NEW i \in synced, i # id,
           live' = [live EXCEPT ![id] = e],
           Settle(Recorded(id, e, out), escDisk, TornAfter(out), LinesAfter(out), cmp)
    PROVE  i \in Ids /\ IsLive(i)' /\ OnDisk(i)'
<1>1. /\ i \in Ids /\ live[i].firstAt # NULL /\ disk[i].firstAt # NULL
      /\ live \in [Ids -> Entry] /\ disk \in [Ids -> Entry]
  BY DEF SyncedHeld, IsLive, OnDisk, TypeOK
<1>2. live'[i] = live[i]  BY <1>1
<1>3. disk' = live' \/ disk' = Recorded(id, e, out)  BY DEF Settle
<1>4. Recorded(id, e, out)[i] = disk[i]  BY <1>1 DEF Recorded
<1> QED  BY <1>1, <1>2, <1>3, <1>4 DEF IsLive, OnDisk

LEMMA SyncedHeldStep == TypeOK /\ SyncedHeld /\ [Next]_spoolVars => SyncedHeld'
<1> SUFFICES ASSUME TypeOK, SyncedHeld, [Next]_spoolVars PROVE SyncedHeld'  OBVIOUS
<1>1. ASSUME UNCHANGED <<live, disk, synced>> PROVE SyncedHeld'
  BY <1>1 DEF SyncedHeld, IsLive, OnDisk
<1>2. Absent \in Entry  BY Constants DEF Absent, Entry
<1>3. ASSUME NEW id \in Ids, NEW out \in Outcomes, NEW cmp \in BOOLEAN, Put(id, out, cmp)
      PROVE SyncedHeld'
  <2>1. CASE PutDuplicate(id)  BY <1>1, <2>1 DEF PutDuplicate, memVars, fileVars
  <2>2. CASE PutRecord(id, out, cmp)
    <3>1. PutEntry(id) \in Entry /\ PutEntry(id).firstAt # NULL
      BY Constants DEF PutEntry, TypeOK, Entry, IsLive, NULL
    <3>2. \A i \in synced : i # id => i \in Ids /\ IsLive(i)' /\ OnDisk(i)'
      BY <2>2, <3>1, OthersHeld DEF PutRecord
    <3>3. id \in synced' => IsLive(id)' /\ OnDisk(id)'
      <4> SUFFICES ASSUME id \in synced' PROVE IsLive(id)' /\ OnDisk(id)'  OBVIOUS
      <4>1. out = "ok" /\ ~torn  BY <2>2 DEF PutRecord
      <4>2. live'[id] = PutEntry(id)  BY <2>2 DEF PutRecord, TypeOK
      <4>3. Recorded(id, PutEntry(id), out)[id] = PutEntry(id)
        BY <4>1 DEF Recorded, Landed, TypeOK
      <4>4. disk' = live' \/ disk' = Recorded(id, PutEntry(id), out)
        BY <2>2 DEF PutRecord, Settle
      <4> QED  BY <3>1, <4>2, <4>3, <4>4 DEF IsLive, OnDisk
    <3>4. synced' \subseteq synced \cup {id}  BY <2>2 DEF PutRecord
    <3> QED  BY <3>2, <3>3, <3>4 DEF SyncedHeld
  <2> QED  BY <1>3, <2>1, <2>2 DEF Put, SpoolPut
<1>4. ASSUME NEW id \in Ids, NEW out \in Outcomes, NEW cmp \in BOOLEAN, Ack(id, out, cmp)
      PROVE SyncedHeld'
  <2>1. CASE AckUnknown(id)  BY <1>1, <2>1 DEF AckUnknown, memVars, fileVars
  <2>2. CASE AckRecord(id, out, cmp)
    <3>1. \A i \in synced : i # id => i \in Ids /\ IsLive(i)' /\ OnDisk(i)'
      BY <1>2, <2>2, OthersHeld DEF AckRecord
    <3> QED  BY <2>2, <3>1 DEF AckRecord, SyncedHeld
  <2> QED  BY <1>4, <2>1, <2>2 DEF Ack, SpoolAck
<1>5. ASSUME NEW id \in Ids, NEW out \in Outcomes, NEW cmp \in BOOLEAN, DropStep(id, out, cmp)
      PROVE SyncedHeld'
  <2>1. \A i \in synced : i # id => i \in Ids /\ IsLive(i)' /\ OnDisk(i)'
    BY <1>2, <1>5, OthersHeld DEF DropStep
  <2> QED  BY <1>5, <2>1 DEF DropStep, SyncedHeld
<1>6. ASSUME NEW id \in Ids, NEW sent \in NoticeSends, NEW cmp \in BOOLEAN, SweepNotice(id, sent, cmp)
      PROVE SyncedHeld'
  BY <1>6 DEF SweepNotice, Settle, SyncedHeld, IsLive, OnDisk, memVars
<1>13. ASSUME NEW id \in Ids, NEW out \in Outcomes, SweepWindow(id, out) PROVE SyncedHeld'
  BY <1>1, <1>13 DEF SweepWindow, Settle
<1>7. ASSUME NEW id \in Ids, NEW out \in Outcomes, SweepTombstone(id, out) PROVE SyncedHeld'
  <2>1. \A i \in synced : i # id => i \in Ids /\ IsLive(i)' /\ OnDisk(i)'
    BY <1>2, <1>7, OthersHeld DEF SweepTombstone
  <2> QED  BY <1>7, <2>1 DEF SweepTombstone, SyncedHeld
<1>8. ASSUME NEW S \in SUBSET Ids, DropStart(S) PROVE SyncedHeld'
  BY <1>1, <1>8 DEF DropStart, memVars, fileVars, obsVars
<1>9. CASE SweepStart  BY <1>1, <1>9 DEF SweepStart, memVars, fileVars, obsVars
<1>10. CASE SpoolCrash  BY <1>10 DEF SpoolCrash, fileVars, SyncedHeld, IsLive, OnDisk
<1>11. CASE Tick  BY <1>1, <1>11 DEF Tick, memVars, fileVars, obsVars
<1>12. CASE UNCHANGED spoolVars  BY <1>1, <1>12 DEF spoolVars, memVars, fileVars, obsVars
<1> QED  BY <1>3, <1>4, <1>5, <1>6, <1>7, <1>8, <1>9, <1>10, <1>11, <1>12, <1>13 DEF Next

\* A put whose record was fsynced as a line of its own is on disk until its entry is
\* acked, dropped or retracted, with any number of failed appends and crashes.
THEOREM SyncedPutsKept == Spec => []SyncedPutSurvives
<1>1. SpoolInit => SyncedHeld  BY DEF SpoolInit, SyncedHeld
<1>2. SyncedHeld => SyncedPutSurvives  BY DEF SyncedHeld, SyncedPutSurvives
<1> QED  BY <1>1, <1>2, TypeCorrect, SyncedHeldStep, PTL DEF Spec

-----------------------------------------------------------------------------
(* No silent burst.                                                         *)

\* A window, in memory or on disk, is never younger than the chat's last
\* retraction: when a burst begins no window can hide it, however many window
\* records were lost.
WindowsOld ==
    /\ \A c \in Chats :
        /\ esc[c] # NULL => lastDrop[c] # NULL /\ esc[c] <= lastDrop[c]
        /\ escDisk[c] # NULL => lastDrop[c] # NULL /\ escDisk[c] <= lastDrop[c]
        /\ lastDrop[c] <= now /\ burst[c] <= now
    /\ \A id \in cur : lastDrop[ChatOf[id]] = now

Announced == WindowsOld /\ BurstAnnounced

LEMMA AnnouncedStep == TypeOK /\ Announced /\ [Next]_spoolVars => Announced'
<1> SUFFICES ASSUME TypeOK, Announced, [Next]_spoolVars PROVE Announced'  OBVIOUS
<1> USE DEF Announced
<1>1. ASSUME UNCHANGED <<esc, tellVars, cur, win, now>>, escDisk' \in {esc, escDisk} PROVE Announced'
  BY <1>1 DEF WindowsOld, BurstAnnounced, NoticeOwed, PostNotice
<1>2. ASSUME NEW id \in Ids, NEW out \in Outcomes, NEW cmp \in BOOLEAN, Put(id, out, cmp)
      PROVE Announced'
  BY <1>1, <1>2 DEF Put, SpoolPut, PutDuplicate, PutRecord, Settle, memVars, fileVars, jobVars
<1>3. ASSUME NEW id \in Ids, NEW out \in Outcomes, NEW cmp \in BOOLEAN, Ack(id, out, cmp)
      PROVE Announced'
  BY <1>1, <1>3 DEF Ack, SpoolAck, AckUnknown, AckRecord, Settle, memVars, fileVars, jobVars
<1>4. ASSUME NEW id \in Ids, NEW out \in Outcomes, NEW cmp \in BOOLEAN, DropStep(id, out, cmp)
      PROVE Announced'
  BY <1>1, <1>4 DEF DropStep, Settle
<1>5. ASSUME NEW id \in Ids, NEW out \in Outcomes, SweepTombstone(id, out) PROVE Announced'
  <2> DEFINE c == ChatOf[id]
  <2>1. /\ c \in Chats /\ now \in Nat /\ NoticeCooldown \in Nat /\ cur = {} /\ win = "none"
        /\ esc \in [Chats -> Int] /\ escDisk \in [Chats -> Int]
        /\ lastDrop \in [Chats -> Int] /\ burst \in [Chats -> Int] /\ lastNotice \in [Chats -> Int]
    BY <1>5, Constants DEF TypeOK, SweepTombstone
  <2>2. /\ cur' = {id} /\ win' = "none" /\ esc' = esc /\ escDisk' = escDisk /\ now' = now
        /\ lastDrop' = [lastDrop EXCEPT ![c] = now] /\ UNCHANGED <<lastNotice, unheard>>
        /\ burst' = IF lastDrop[c] = NULL \/ now - lastDrop[c] >= NoticeCooldown
                    THEN [burst EXCEPT ![c] = now] ELSE burst
    BY <1>5, <2>1 DEF SweepTombstone, Settle, Dropped
  <2>3. \A d \in Chats : ~NoticeOwed(d)  BY <2>1 DEF NoticeOwed
  <2>4. WindowsOld'  BY <2>1, <2>2 DEF WindowsOld
  <2>5. burst'[c] # burst[c] => PostNotice(c)
    BY <2>1, <2>2 DEF WindowsOld, PostNotice
  <2>6. PostNotice(c) => NoticeOwed(c)'  BY <2>2 DEF NoticeOwed, PostNotice
  <2>7. \A d \in Chats : d # c => burst'[d] = burst[d]  BY <2>1, <2>2
  <2>8. BurstAnnounced'  BY <2>1, <2>2, <2>3, <2>5, <2>6, <2>7 DEF BurstAnnounced
  <2> QED  BY <2>4, <2>8
<1>6. ASSUME NEW id \in Ids, NEW out \in Outcomes, SweepWindow(id, out) PROVE Announced'
  <2> DEFINE c == ChatOf[id]
  <2>1. /\ c \in Chats /\ now \in Nat /\ cur = {id} /\ win = "none" /\ cur' = {id}
        /\ esc \in [Chats -> Int] /\ escDisk \in [Chats -> Int]
        /\ lastDrop \in [Chats -> Int] /\ burst \in [Chats -> Int]
    BY <1>6, Constants DEF TypeOK, SweepWindow
  <2>2. /\ esc' = [esc EXCEPT ![c] = now] /\ UNCHANGED <<tellVars, now>>
        /\ \/ escDisk' = escDisk \/ escDisk' = [escDisk EXCEPT ![c] = now]
        /\ win' = IF PostNotice(c) THEN "post" ELSE "quiet"
    BY <1>6 DEF SweepWindow, Settle
  <2>3. WindowsOld /\ BurstAnnounced  OBVIOUS
  <2>4. lastDrop[c] = now  BY <2>1, <2>3 DEF WindowsOld
  <2>5. WindowsOld'  BY <2>1, <2>2, <2>3, <2>4 DEF WindowsOld
  <2>6. \A d \in Chats : NoticeOwed(d) => NoticeOwed(d)'  BY <2>1, <2>2 DEF NoticeOwed
  <2>7. BurstAnnounced'  BY <2>2, <2>3, <2>6 DEF BurstAnnounced
  <2> QED  BY <2>5, <2>7
<1>7. ASSUME NEW id \in Ids, NEW sent \in NoticeSends, NEW cmp \in BOOLEAN, SweepNotice(id, sent, cmp)
      PROVE Announced'
  <2> DEFINE c == ChatOf[id]
  <2>1. /\ c \in Chats /\ now \in Nat /\ cur = {id} /\ cur' = {} /\ win \in {"post", "quiet"}
        /\ burst \in [Chats -> Int] /\ lastNotice \in [Chats -> Int]
        /\ UNCHANGED <<esc, lastDrop, burst, now>> /\ escDisk' \in {esc, escDisk}
        /\ win = "quiet" => UNCHANGED <<lastNotice, unheard>>
    BY <1>7, Constants DEF TypeOK, SweepNotice, Settle, memVars
  <2>2. CASE win = "quiet"
    <3>1. \A d \in Chats : ~NoticeOwed(d)  BY <2>1, <2>2 DEF NoticeOwed
    <3> QED  BY <2>1, <2>2, <3>1 DEF WindowsOld, BurstAnnounced
  <2>3. CASE win = "post"
    <3>1. \A d \in Chats : d # c => ~NoticeOwed(d)  BY <2>1 DEF NoticeOwed
    <3>2. \A d \in Chats : d # c => lastNotice'[d] = lastNotice[d] /\ (d \in unheard' <=> d \in unheard)
      BY <1>7, <2>1, <2>3 DEF SweepNotice
    <3>3. lastNotice'[c] = now \/ c \in unheard'
      BY <1>7, <2>1, <2>3 DEF SweepNotice
    <3>4. burst[c] <= now  BY <2>1 DEF WindowsOld
    <3>5. WindowsOld'  BY <2>1 DEF WindowsOld
    <3>6. BurstAnnounced'  BY <2>1, <3>1, <3>2, <3>3, <3>4 DEF BurstAnnounced
    <3> QED  BY <3>5, <3>6
  <2> QED  BY <2>1, <2>2, <2>3
<1>8. ASSUME NEW S \in SUBSET Ids, DropStart(S) PROVE Announced'
  BY <1>1, <1>8 DEF DropStart, memVars, fileVars, obsVars
<1>9. CASE SweepStart  BY <1>1, <1>9 DEF SweepStart, memVars, fileVars, obsVars
<1>10. CASE SpoolCrash
  <2>1. /\ cur' = {} /\ esc' = escDisk /\ escDisk' = escDisk
        /\ UNCHANGED <<now, lastDrop, burst, lastNotice>>
        /\ unheard' = unheard \cup {c \in Chats : NoticeOwed(c)}
    BY <1>10 DEF SpoolCrash, fileVars
  <2> QED  BY <2>1 DEF WindowsOld, BurstAnnounced
<1>11. CASE Tick
  <2>1. /\ cur = {} /\ now \in Nat /\ now' = now + 1 /\ UNCHANGED <<esc, escDisk, cur, tellVars>>
        /\ lastDrop \in [Chats -> Int] /\ burst \in [Chats -> Int]
    BY <1>11 DEF Tick, TypeOK, memVars, fileVars, jobVars, obsVars
  <2> QED  BY <2>1 DEF WindowsOld, BurstAnnounced, NoticeOwed
<1>12. CASE UNCHANGED spoolVars
  BY <1>1, <1>12 DEF spoolVars, memVars, fileVars, jobVars, obsVars
<1> QED  BY <1>2, <1>3, <1>4, <1>5, <1>6, <1>7, <1>8, <1>9, <1>10, <1>11, <1>12 DEF Next

\* Every burst of retractions is announced, or its notice was refused or cut by the
\* death of the process, through any number of lost window records and restarts.
THEOREM BurstsAnnounced == Spec => []BurstAnnounced
<1>1. SpoolInit => Announced
  BY DEF SpoolInit, Announced, WindowsOld, BurstAnnounced
<1> QED  BY <1>1, TypeCorrect, AnnouncedStep, PTL DEF Spec, Announced

-----------------------------------------------------------------------------
(* The escalation clock.                                                    *)

\* No step restarts the clock of an entry that stays un-acked.
THEOREM ClockKept == Spec => EscalationClockKept
<1>1. ASSUME TypeOK, Mirror, [Next]_spoolVars PROVE ClockStep
  <2> SUFFICES ASSUME faults = 0, NEW i \in Ids, IsLive(i), live'[i].firstAt # NULL
               PROVE  live'[i].firstAt = live[i].firstAt
    BY DEF ClockStep
  <2> USE DEF IsLive, Absent
  <2>1. ASSUME NEW id \in Ids, NEW e, live' = [live EXCEPT ![id] = e],
               e.firstAt # NULL /\ live[id].firstAt # NULL => e.firstAt = live[id].firstAt
        PROVE  live'[i].firstAt = live[i].firstAt
    BY <1>1, <2>1 DEF TypeOK
  <2>2. ASSUME NEW id \in Ids, NEW out \in Outcomes, NEW cmp \in BOOLEAN, Put(id, out, cmp)
        PROVE  live'[i].firstAt = live[i].firstAt
    <3>1. CASE PutDuplicate(id)  BY <3>1 DEF PutDuplicate, memVars
    <3>2. CASE PutRecord(id, out, cmp)
      <4>1. live[id].firstAt # NULL => PutEntry(id).firstAt = live[id].firstAt
        BY <1>1 DEF PutEntry, TypeOK, Entry
      <4> QED  BY <2>1, <3>2, <4>1 DEF PutRecord
    <3> QED  BY <2>2, <3>1, <3>2 DEF Put, SpoolPut
  <2>3. ASSUME NEW id \in Ids, live' = [live EXCEPT ![id] = Absent]
        PROVE  live'[i].firstAt = live[i].firstAt
    <3>1. Absent.firstAt = NULL  OBVIOUS
    <3> QED  BY <2>1, <2>3, <3>1
  <2>4. ASSUME NEW id \in Ids, NEW out \in Outcomes, NEW cmp \in BOOLEAN, Ack(id, out, cmp)
        PROVE  live'[i].firstAt = live[i].firstAt
    <3>1. CASE AckUnknown(id)  BY <3>1 DEF AckUnknown, memVars
    <3>2. CASE AckRecord(id, out, cmp)  BY <2>3, <3>2 DEF AckRecord
    <3> QED  BY <2>4, <3>1, <3>2 DEF Ack, SpoolAck
  <2>5. CASE SpoolCrash  BY <1>1, <2>5 DEF SpoolCrash, Mirror
  <2>6. ASSUME NEW id \in Ids, NEW out \in Outcomes,
               SweepTombstone(id, out) \/ \E cmp \in BOOLEAN : DropStep(id, out, cmp)
        PROVE  live'[i].firstAt = live[i].firstAt
    BY <2>3, <2>6 DEF DropStep, SweepTombstone
  <2>7. CASE UNCHANGED live  BY <2>7
  <2>10. ASSUME NEW id \in Ids, \/ \E out \in Outcomes : SweepWindow(id, out)
                                \/ \E sent \in NoticeSends, cmp \in BOOLEAN : SweepNotice(id, sent, cmp)
         PROVE  UNCHANGED live
    BY <2>10 DEF SweepWindow, SweepNotice, memVars
  <2>8. ASSUME NEW S \in SUBSET Ids, DropStart(S) PROVE UNCHANGED live
    BY <2>8 DEF DropStart, memVars
  <2>9. SweepStart \/ Tick \/ UNCHANGED spoolVars => UNCHANGED live
    BY DEF SweepStart, Tick, spoolVars, memVars
  <2> QED  BY <1>1, <2>2, <2>4, <2>5, <2>6, <2>7, <2>8, <2>9, <2>10 DEF Next
<1>2. SpoolInit => Mirror  BY DEF SpoolInit, Mirror
<1>3. Spec => [](TypeOK /\ Mirror)  BY <1>2, TypeCorrect, MirrorStep, PTL DEF Spec
<1> QED  BY <1>1, <1>3, PTL DEF Spec, EscalationClockKept

-----------------------------------------------------------------------------
(* The notice window.  A chat's last notice is not after its last attempt,  *)
(* and the attempt is not in the future; a restart keeps both because the   *)
(* window is on disk (Mirror).                                              *)

NoticeKnown ==
    /\ faults = 0 => \A c \in Chats :
          lastNotice[c] # NULL => esc[c] # NULL /\ lastNotice[c] <= esc[c] /\ esc[c] <= now
    /\ win # "none" => \A id \in cur : esc[ChatOf[id]] = now
    /\ faults = 0 /\ win = "post" => \A id \in cur :
          lastNotice[ChatOf[id]] # NULL => now - lastNotice[ChatOf[id]] >= NoticeCooldown

Telling == \/ \E id \in Ids, out \in Outcomes : SweepWindow(id, out)
           \/ \E id \in Ids, sent \in NoticeSends, cmp \in BOOLEAN : SweepNotice(id, sent, cmp)

\* Only a sweep's second half posts a notice or moves a window.
LEMMA NoticeUntouched ==
    ASSUME TypeOK, Mirror, [Next]_spoolVars, ~Telling
    PROVE  /\ lastNotice' = lastNotice
           /\ faults' = 0 => faults = 0
           /\ faults = 0 => esc' = esc
           /\ now' \in Nat /\ now' >= now
           /\ win' = "none" \/ UNCHANGED <<win, cur, now, esc>>
<1> USE DEF memVars, jobVars, obsVars
<1>1. ASSUME NEW id \in Ids, NEW out \in Outcomes, NEW cmp \in BOOLEAN,
             Put(id, out, cmp) \/ Ack(id, out, cmp)
      PROVE  lastNotice' = lastNotice /\ (faults' = 0 => faults = 0) /\ UNCHANGED <<win, cur, now, esc>>
  BY <1>1, HealthType DEF Put, Ack, SpoolPut, SpoolAck, PutDuplicate, AckUnknown,
                         PutRecord, AckRecord
<1>2. ASSUME NEW id \in Ids, NEW out \in Outcomes, NEW cmp \in BOOLEAN, DropStep(id, out, cmp)
      PROVE  lastNotice' = lastNotice /\ (faults' = 0 => faults = 0) /\ UNCHANGED <<win, cur, now, esc>>
  BY <1>2, HealthType DEF DropStep
<1>3. ASSUME NEW id \in Ids, NEW out \in Outcomes, SweepTombstone(id, out)
      PROVE  /\ lastNotice' = lastNotice /\ (faults' = 0 => faults = 0) /\ UNCHANGED <<now, esc>>
             /\ win' = "none"
  BY <1>3, HealthType DEF SweepTombstone, TypeOK
<1>4. ASSUME NEW S \in SUBSET Ids, DropStart(S)
      PROVE  lastNotice' = lastNotice /\ faults' = faults /\ UNCHANGED <<win, cur, now, esc>>
  BY <1>4 DEF DropStart
<1>5. CASE SweepStart \/ UNCHANGED spoolVars
  BY <1>5 DEF SweepStart, spoolVars, TypeOK
<1>6. CASE Tick  BY <1>6 DEF Tick, TypeOK
<1>7. CASE SpoolCrash  BY <1>7 DEF SpoolCrash, Mirror, TypeOK
<1>8. now \in Nat  BY DEF TypeOK
<1> QED  BY <1>1, <1>2, <1>3, <1>4, <1>5, <1>6, <1>7, <1>8 DEF Next, Telling

\* The window bookkeeping survives every operation, restarts included.
LEMMA NoticeKnownStep == TypeOK /\ Mirror /\ NoticeKnown /\ [Next]_spoolVars => NoticeKnown'
<1> SUFFICES ASSUME TypeOK, Mirror, NoticeKnown, [Next]_spoolVars PROVE NoticeKnown'  OBVIOUS
<1>1. ASSUME NEW id \in Ids, NEW out \in Outcomes, SweepWindow(id, out) PROVE NoticeKnown'
  <2>1. faults' = 0 => faults = 0  BY <1>1, HealthType DEF SweepWindow
  <2>2. /\ cur' = {id} /\ UNCHANGED <<now, lastNotice>> /\ esc' = [esc EXCEPT ![ChatOf[id]] = now]
        /\ win' = IF PostNotice(ChatOf[id]) THEN "post" ELSE "quiet"
    BY <1>1 DEF SweepWindow
  <2> QED  BY <2>1, <2>2, Constants DEF PostNotice, NoticeKnown, TypeOK
<1>2. ASSUME NEW id \in Ids, NEW sent \in NoticeSends, NEW cmp \in BOOLEAN, SweepNotice(id, sent, cmp)
      PROVE  NoticeKnown'
  <2>1. /\ cur = {id} /\ win # "none" /\ cur' = {} /\ win' = "none" /\ UNCHANGED <<faults, esc, now>>
        /\ lastNotice' = lastNotice \/ lastNotice' = [lastNotice EXCEPT ![ChatOf[id]] = now]
    BY <1>2 DEF SweepNotice, memVars
  <2> QED  BY <2>1, Constants DEF NoticeKnown, TypeOK
<1>3. CASE ~Telling
  <2>1. win' = "none" \/ UNCHANGED <<win, cur, now, esc>>  BY <1>3, NoticeUntouched
  <2> QED  BY <1>3, <2>1, NoticeUntouched DEF NoticeKnown, TypeOK
<1> QED  BY <1>1, <1>2, <1>3 DEF Telling

\* Notices of one chat are a cooldown apart, across restarts and compactions.
THEOREM NoticesSpaced == Spec => NoticeSpacing
<1>1. ASSUME TypeOK, Mirror, NoticeKnown, [Next]_spoolVars PROVE NoticeStep
  <2>1. ASSUME NEW id \in Ids, NEW sent \in NoticeSends, NEW cmp \in BOOLEAN, SweepNotice(id, sent, cmp)
        PROVE  NoticeStep
    <3>1. /\ cur = {id}
          /\ \/ lastNotice' = lastNotice
             \/ win = "post" /\ lastNotice' = [lastNotice EXCEPT ![ChatOf[id]] = now]
      BY <1>1, <2>1 DEF SweepNotice, TypeOK
    <3> QED  BY <1>1, <3>1, Constants DEF NoticeStep, NoticeKnown, TypeOK
  <2>2. ASSUME NEW id \in Ids, NEW out \in Outcomes, SweepWindow(id, out) PROVE NoticeStep
    BY <2>2 DEF SweepWindow, NoticeStep
  <2>3. CASE ~Telling
    BY <1>1, <2>3, NoticeUntouched DEF NoticeStep
  <2> QED  BY <2>1, <2>2, <2>3 DEF Telling
<1>2. SpoolInit => Mirror /\ NoticeKnown  BY DEF SpoolInit, Mirror, NoticeKnown
<1>3. Spec => [](TypeOK /\ Mirror /\ NoticeKnown)
  BY <1>2, TypeCorrect, MirrorStep, NoticeKnownStep, PTL DEF Spec
<1> QED  BY <1>1, <1>3, PTL DEF Spec, NoticeSpacing
=============================================================================
