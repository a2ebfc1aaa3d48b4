----------------------- MODULE ObligationLedgerProofs -----------------------
(***************************************************************************)
(* Theorems about ObligationLedger for any number of messages, any caps    *)
(* and any number of faults.                                               *)
(***************************************************************************)
EXTENDS ObligationLedger, TLAPS

-----------------------------------------------------------------------------
(* What the ledger's operations do *)

\* A write keeps the ledger's file a ledger and never lowers the fault count.
LEMMA PersistEffect ==
    ASSUME LedgerTypeOK, NEW entries \in [Messages -> Entries], Persist(entries)
    PROVE  /\ disk' \in [Messages -> Entries]
           /\ disk' = disk \/ disk' = entries
           /\ faults' \in 0..MaxFaults
           /\ faults' >= faults
  BY LedgerAssumption DEF LedgerTypeOK, Persist

\* Update touches the entry it names, if that entry is open, and nothing else.
LEMMA UpdateEffect ==
    ASSUME LedgerTypeOK, NEW m \in Messages, NEW entry \in Entries, Update(m, entry)
    PROVE  /\ ob' \in [Messages -> Entries] /\ disk' \in [Messages -> Entries]
           /\ \A p \in Messages : p # m => ob'[p] = ob[p]
           /\ ob'[m] = IF ob[m].open THEN entry ELSE ob[m]
           /\ disk' = disk \/ disk' = ob'
           /\ faults' \in 0..MaxFaults
           /\ faults' >= faults
<1>1. CASE ob[m].open
  <2>1. ob' = [ob EXCEPT ![m] = entry] /\ Persist(ob')
    BY <1>1 DEF Update
  <2>2. ob' \in [Messages -> Entries]
    BY <2>1 DEF LedgerTypeOK
  <2>3. /\ disk' \in [Messages -> Entries]
        /\ disk' = disk \/ disk' = ob'
        /\ faults' \in 0..MaxFaults
        /\ faults' >= faults
    BY <2>1, <2>2, PersistEffect
  <2> QED
    BY <1>1, <2>1, <2>2, <2>3 DEF LedgerTypeOK
<1>2. CASE ~ob[m].open
  <2>1. ob' = ob /\ disk' = disk /\ faults' = faults
    BY <1>2 DEF Update
  <2> QED
    BY <1>2, <2>1, LedgerAssumption DEF LedgerTypeOK
<1> QED
  BY <1>1, <1>2

\* close() leaves every other entry alone and the counters of its own.
LEMMA CloseEffect ==
    ASSUME LedgerTypeOK, NEW m \in Messages, Close(m)
    PROVE  /\ ob' \in [Messages -> Entries] /\ disk' \in [Messages -> Entries]
           /\ \A p \in Messages : p # m => ob'[p] = ob[p]
           /\ ~ob'[m].open
           /\ ob'[m].atts = ob[m].atts
           /\ disk' = disk \/ disk' = ob'
           /\ faults' \in 0..MaxFaults
           /\ faults' >= faults
           /\ held' \in [Messages -> BOOLEAN] /\ fresh' \in [Messages -> BOOLEAN]
           /\ settle' \in [Messages -> {"none", "open", "passed"}]
<1> DEFINE entry == Deleted(ob[m])
<1>1. ob[m].atts \in Nat /\ ob[m].captured \in BOOLEAN
  BY DEF LedgerTypeOK, Entries
<1>2. /\ entry \in Entries
      /\ ~entry.open
      /\ entry.atts = ob[m].atts
  BY <1>1, LedgerAssumption DEF Entries, Deleted
<1>3. Update(m, entry)
  BY DEF Close
<1>4. /\ ob' \in [Messages -> Entries] /\ disk' \in [Messages -> Entries]
      /\ \A p \in Messages : p # m => ob'[p] = ob[p]
      /\ ob'[m] = IF ob[m].open THEN entry ELSE ob[m]
      /\ disk' = disk \/ disk' = ob'
      /\ faults' \in 0..MaxFaults
      /\ faults' >= faults
  <2> HIDE DEF entry
  <2> QED BY <1>2, <1>3, UpdateEffect
<1>5. ~ob'[m].open /\ ob'[m].atts = ob[m].atts
  <2> HIDE DEF entry
  <2> QED BY <1>2, <1>4
<1>6. /\ held' \in [Messages -> BOOLEAN] /\ fresh' \in [Messages -> BOOLEAN]
      /\ settle' \in [Messages -> {"none", "open", "passed"}]
  BY DEF Close, LedgerTypeOK
<1> QED
  BY <1>4, <1>5, <1>6

\* History only grows: what was heard in a topic stays heard.
LEMMA OutboundEffect ==
    ASSUME LedgerTypeOK, NEW thread, NEW size \in 0..2, Outbound(thread, size)
    PROVE  /\ heard' \in [Messages -> 0..2]
           /\ \A p \in Messages : heard'[p] >= heard[p]
           /\ route' = route /\ rerouted' \in SUBSET Messages
<1>1. heard' \in [Messages -> 0..2] /\ \A p \in Messages : heard'[p] >= heard[p]
  BY DEF LedgerTypeOK, Outbound
<1>2. route' = route /\ rerouted' \in SUBSET Messages
  BY DEF LedgerTypeOK, Outbound
<1> QED
  BY <1>1, <1>2

\* A reason is a reason.
LEMMA MarkTypes ==
    ASSUME LedgerTypeOK, NEW ms, NEW reason \in Reasons, Mark(ms, reason)
    PROVE  why' \in [Messages -> Reasons]
  BY DEF LedgerTypeOK, Mark

-----------------------------------------------------------------------------
(* Types *)

\* Entries built by the operations are entries.
LEMMA EntryTypes ==
    ASSUME LedgerTypeOK, NEW m \in Messages
    PROVE  /\ ob[m] \in Entries /\ disk[m] \in Entries
           /\ Deleted(ob[m]) \in Entries
           /\ [ob[m] EXCEPT !.open = TRUE] \in Entries
           /\ [ob[m] EXCEPT !.captured = TRUE] \in Entries
           /\ [ob[m] EXCEPT !.atts = @ + 1] \in Entries
           /\ Represents(m) => [ob[m] EXCEPT !.reps = @ + 1] \in Entries
<1>1. ob[m] \in Entries /\ disk[m] \in Entries
  BY DEF LedgerTypeOK
<1>2. ob[m].atts \in Nat /\ ob[m].captured \in BOOLEAN /\ ob[m].reps \in 0..RepresentMax
  BY <1>1 DEF Entries
<1>3. Deleted(ob[m]) \in Entries
  BY <1>2, LedgerAssumption DEF Deleted, Entries
<1>4. /\ [ob[m] EXCEPT !.open = TRUE] \in Entries
      /\ [ob[m] EXCEPT !.captured = TRUE] \in Entries
  BY <1>1 DEF Entries
<1>5. [ob[m] EXCEPT !.atts = @ + 1] \in Entries
  BY <1>1, <1>2 DEF Entries
<1>6. ASSUME Represents(m) PROVE [ob[m] EXCEPT !.reps = @ + 1] \in Entries
  <2>1. ob[m].reps + 1 \in 0..RepresentMax
    BY <1>2, <1>6, LedgerAssumption DEF Represents
  <2> QED
    BY <1>1, <2>1 DEF Entries
<1> QED
  BY <1>1, <1>3, <1>4, <1>5, <1>6

\* The messages and turns keep the types.
LEMMA TurnsTypes == LedgerTypeOK /\ Turns => LedgerTypeOK'
<1> SUFFICES ASSUME LedgerTypeOK, Turns PROVE LedgerTypeOK'
  OBVIOUS
<1> USE LedgerAssumption
<1>1. ASSUME NEW m \in Messages, Receive(m) PROVE LedgerTypeOK'
  <2>1. [ob[m] EXCEPT !.open = TRUE] \in Entries
    BY EntryTypes
  <2>2. ob' \in [Messages -> Entries]
    BY <1>1, <2>1 DEF Receive, LedgerTypeOK, rows
  <2>3. disk' \in [Messages -> Entries] /\ faults' \in 0..MaxFaults
    BY <1>1, <2>2, PersistEffect DEF Receive, rows
  <2>4. buffer' \in SUBSET Items /\ cli' \in SUBSET Messages /\ gate' \in BOOLEAN
    <3>1. <<m, "message">> \in Items
      BY DEF Items
    <3>2. CASE bridge /\ ~gate
      BY <1>1, <3>2 DEF Receive, LedgerTypeOK, rows
    <3>3. CASE ~(bridge /\ ~gate)
      BY <1>1, <3>1, <3>3 DEF Receive, LedgerTypeOK, rows
    <3> QED
      BY <3>2, <3>3
  <2> QED
    BY <1>1, <2>2, <2>3, <2>4
    DEF Receive, LedgerTypeOK, Items, clocks, sends, observed, rows
<1>2. CASE Drain
  <2>1. /\ ob' \in [Messages -> Entries] /\ disk' \in [Messages -> Entries]
        /\ faults' \in 0..MaxFaults
    <3>1. CASE Retracted = {}
      BY <1>2, <3>1 DEF Drain, ledger, LedgerTypeOK, rows
    <3>2. CASE Retracted # {}
      <4>1. ob' \in [Messages -> Entries]
        BY <1>2, <3>2, EntryTypes DEF Drain, rows
      <4> QED
        BY <1>2, <3>2, <4>1, PersistEffect DEF Drain, rows
    <3> QED
      BY <3>1, <3>2
  <2>2. why' \in [Messages -> Reasons]
    BY <1>2, MarkTypes DEF Drain, Reasons
  <2> QED
    BY <1>2, <2>1, <2>2 DEF Drain, LedgerTypeOK, Items, clocks, sends, rows
<1>3. ASSUME NEW m \in Messages, TurnStart(m) PROVE LedgerTypeOK'
  BY <1>3 DEF TurnStart, LedgerTypeOK, ledger, clocks, sends, observed, rows
<1>4. ASSUME NEW t \in Messages, NEW thread \in Threads, NEW size \in 1..2,
             Reply(t, thread, size)
      PROVE  LedgerTypeOK'
  <2>1. heard' \in [Messages -> 0..2] /\ route' = route /\ rerouted' \in SUBSET Messages
    BY <1>4, OutboundEffect DEF Reply
  <2>2. why' \in [Messages -> Reasons]
    BY <1>4, MarkTypes DEF Reply, Reasons
  <2> QED
    BY <1>4, <2>1, <2>2, CloseEffect DEF Reply, LedgerTypeOK, sends
<1>5. ASSUME NEW thread \in Threads, NEW size \in 1..2, TrailingReply(thread, size)
      PROVE  LedgerTypeOK'
  <2>1. heard' \in [Messages -> 0..2] /\ route' = route /\ rerouted' \in SUBSET Messages
    BY <1>5, OutboundEffect DEF TrailingReply
  <2> QED
    BY <1>5, <2>1
    DEF TrailingReply, LedgerTypeOK, ledger, clocks, turnVars, sends, observed
<1>10. ASSUME NEW t \in Messages, ReplyQueued(t) PROVE LedgerTypeOK'
  <2>1. why' \in [Messages -> Reasons]
    BY <1>10, MarkTypes DEF ReplyQueued, Reasons
  <2> QED
    BY <1>10, <2>1, CloseEffect DEF ReplyQueued, LedgerTypeOK, sends, rows
<1>11. ASSUME NEW thread \in Threads, NEW size \in 0..2, Interim(thread, size)
       PROVE  LedgerTypeOK'
  <2>1. heard' \in [Messages -> 0..2] /\ route' = route /\ rerouted' \in SUBSET Messages
    BY <1>11, OutboundEffect DEF Interim
  <2> QED
    BY <1>11, <2>1 DEF Interim, LedgerTypeOK, ledger, clocks, sends, observed
<1>12. ASSUME NEW named \in Threads, NEW to \in Threads, Reroute(named, to)
       PROVE  LedgerTypeOK'
  <2>1. route' \in Routes
    BY <1>12 DEF Reroute, LedgerTypeOK, Routes
  <2> QED
    BY <1>12, <2>1 DEF Reroute, LedgerTypeOK, ledger, clocks, turnVars, sends, observed
<1>6. CASE TurnEnd
  <2>1. session \in Messages
    BY <1>6 DEF TurnEnd, LedgerTypeOK, rows
  <2>2. CASE called
    <3>1. why' \in [Messages -> Reasons]
      BY <1>6, <2>2, MarkTypes DEF TurnEnd, Reasons
    <3> QED
      BY <1>6, <2>1, <2>2, <3>1, CloseEffect DEF TurnEnd, LedgerTypeOK, sends, rows
  <2>3. CASE ~called
    <3>1. Update(session, ob[session])
      BY <1>6, <2>3 DEF TurnEnd, NoteTurnEnded, rows
    <3>2. /\ ob' \in [Messages -> Entries] /\ disk' \in [Messages -> Entries]
          /\ faults' \in 0..MaxFaults
      BY <2>1, <3>1, EntryTypes, UpdateEffect
    <3>3. held' \in [Messages -> BOOLEAN] /\ UNCHANGED <<fresh, settle, why>>
      BY <1>6, <2>1, <2>3 DEF TurnEnd, NoteTurnEnded, LedgerTypeOK, Entries, rows
    <3> QED
      BY <1>6, <3>2, <3>3 DEF TurnEnd, LedgerTypeOK, sends, rows
  <2> QED
    BY <2>2, <2>3
<1>7. CASE TurnFlush
  BY <1>7 DEF TurnFlush, LedgerTypeOK, ledger, clocks, observed, rows
<1>8. CASE Interrupt
  <2>1. session \in Messages
    BY <1>8 DEF Interrupt, LedgerTypeOK, rows
  <2>2. why' \in [Messages -> Reasons]
    BY <1>8, MarkTypes DEF Interrupt, Reasons
  <2> QED
    BY <1>8, <2>1, <2>2, CloseEffect DEF Interrupt, LedgerTypeOK, sends, rows
<1>9. CASE Poke
  BY <1>9 DEF Poke, LedgerTypeOK, ledger, clocks, sends, observed, rows
<1> QED
  BY <1>1, <1>2, <1>3, <1>4, <1>5, <1>6, <1>7, <1>8, <1>9, <1>10, <1>11, <1>12 DEF Turns

\* The sweep keeps the types: the represent cap bounds reps.
LEMMA SweepTypes == LedgerTypeOK /\ Sweep => LedgerTypeOK'
<1> SUFFICES ASSUME LedgerTypeOK,
                    NEW m \in Messages, NEW work \in BOOLEAN, SweepOf(m, work)
             PROVE  LedgerTypeOK'
  BY DEF Sweep
<1> USE LedgerAssumption
<1>1. CASE SweepClose(m, work)
  <2>1. why' \in [Messages -> Reasons]
    BY <1>1, MarkTypes DEF SweepClose, Reasons
  <2> QED
    BY <1>1, <2>1, CloseEffect DEF SweepClose, LedgerTypeOK, turnVars, sends, rows
<1>7. CASE SweepSuppress(m, work)
  <2>1. why' \in [Messages -> Reasons]
    BY <1>7, MarkTypes DEF SweepSuppress, Reasons
  <2> QED
    BY <1>7, <2>1, CloseEffect DEF SweepSuppress, LedgerTypeOK, turnVars, sends, rows
<1>2. ASSUME Represents(m), MarkRepresented(m)
      PROVE  /\ ob' \in [Messages -> Entries] /\ disk' \in [Messages -> Entries]
             /\ faults' \in 0..MaxFaults
             /\ held' \in [Messages -> BOOLEAN] /\ UNCHANGED <<fresh, settle>>
  <2>1. [ob[m] EXCEPT !.reps = @ + 1] \in Entries
    BY <1>2, EntryTypes
  <2>2. Update(m, [ob[m] EXCEPT !.reps = @ + 1])
    BY <1>2 DEF MarkRepresented
  <2>3. /\ ob' \in [Messages -> Entries] /\ disk' \in [Messages -> Entries]
        /\ faults' \in 0..MaxFaults
    BY <2>1, <2>2, UpdateEffect
  <2> QED
    BY <1>2, <2>3 DEF MarkRepresented, LedgerTypeOK
<1>3. CASE SweepResume(m, work)
  BY <1>2, <1>3 DEF SweepResume, LedgerTypeOK, turnVars, observed, rows
<1>4. CASE SweepRepresent(m, work)
  <2>1. {<<m, "represent">>} \in SUBSET Items
    BY DEF Items
  <2> QED
    BY <1>2, <1>4, <2>1 DEF SweepRepresent, LedgerTypeOK, turnVars, sends, observed, rows
<1>5. CASE SweepSettle(m, work)
  BY <1>5 DEF SweepSettle, LedgerTypeOK, ledger, turnVars, sends, observed, rows
<1>6. CASE SweepEscalate(m, work)
  <2>1. /\ ob' \in [Messages -> Entries] /\ disk' \in [Messages -> Entries]
        /\ faults' \in 0..MaxFaults
        /\ nudging' \in [Messages -> Nat] /\ attempts' \in [Messages -> Nat]
    <3>1. CASE nudging[m] = 0
      <4>1. Update(m, [ob[m] EXCEPT !.atts = @ + 1])
        BY <1>6, <3>1 DEF SweepEscalate, driveEscalation, rows
      <4>2. /\ ob' \in [Messages -> Entries] /\ disk' \in [Messages -> Entries]
            /\ faults' \in 0..MaxFaults
        BY <4>1, EntryTypes, UpdateEffect
      <4>3. /\ nudging' = [nudging EXCEPT ![m] = @ + 1]
            /\ attempts' = [attempts EXCEPT ![m] = @ + 1]
        BY <1>6, <3>1 DEF SweepEscalate, driveEscalation, NudgeStarts
      <4>4. nudging' \in [Messages -> Nat] /\ attempts' \in [Messages -> Nat]
        BY <4>3 DEF LedgerTypeOK
      <4> QED
        BY <4>2, <4>4
    <3>2. CASE nudging[m] # 0
      BY <1>6, <3>2 DEF SweepEscalate, driveEscalation, LedgerTypeOK, ledger, rows
    <3> QED
      BY <3>1, <3>2
  <2> QED
    BY <1>6, <2>1 DEF SweepEscalate, LedgerTypeOK, turnVars, observed, rows
<1> QED
  BY <1>1, <1>3, <1>4, <1>5, <1>6, <1>7 DEF SweepOf

\* Sends that settle keep the types.
LEMMA SettlingTypes == LedgerTypeOK /\ Settling => LedgerTypeOK'
<1> SUFFICES ASSUME LedgerTypeOK, Settling PROVE LedgerTypeOK'
  OBVIOUS
<1> USE LedgerAssumption
<1>1. ASSUME NEW m \in Messages, NEW size \in 1..2, FlushDone(m, size) PROVE LedgerTypeOK'
  <2>1. heard' \in [Messages -> 0..2] /\ route' = route /\ rerouted' \in SUBSET Messages
    BY <1>1, OutboundEffect DEF FlushDone
  <2>2. why' \in [Messages -> Reasons]
    BY <1>1, MarkTypes DEF FlushDone, Reasons
  <2> QED
    BY <1>1, <2>1, <2>2, CloseEffect DEF FlushDone, LedgerTypeOK, turnVars
<1>2. ASSUME NEW m \in Messages, NEW entry \in Entries, NoteTurnEnded(m, entry)
      PROVE  /\ ob' \in [Messages -> Entries] /\ disk' \in [Messages -> Entries]
             /\ faults' \in 0..MaxFaults
             /\ held' \in [Messages -> BOOLEAN] /\ UNCHANGED <<fresh, settle>>
  <2>1. Update(m, entry)
    BY <1>2 DEF NoteTurnEnded
  <2>2. /\ ob' \in [Messages -> Entries] /\ disk' \in [Messages -> Entries]
        /\ faults' \in 0..MaxFaults
    BY <2>1, UpdateEffect
  <2> QED
    BY <1>2, <2>2 DEF NoteTurnEnded, LedgerTypeOK, Entries
<1>3. ASSUME NEW m \in Messages, NEW size \in 0..2, FlushFails(m, size) PROVE LedgerTypeOK'
  <2>1. heard' \in [Messages -> 0..2] /\ route' = route /\ rerouted' \in SUBSET Messages
    BY <1>3, OutboundEffect DEF FlushFails, rows
  <2>2. [ob[m] EXCEPT !.captured = TRUE] \in Entries
    BY EntryTypes
  <2>3. NoteTurnEnded(m, [ob[m] EXCEPT !.captured = TRUE])
    BY <1>3 DEF FlushFails, rows
  <2>4. /\ ob' \in [Messages -> Entries] /\ disk' \in [Messages -> Entries]
        /\ faults' \in 0..MaxFaults
        /\ held' \in [Messages -> BOOLEAN] /\ UNCHANGED <<fresh, settle>>
    BY <1>2, <2>2, <2>3
  <2> QED
    BY <1>3, <2>1, <2>4 DEF FlushFails, LedgerTypeOK, turnVars, observed, rows
<1>4. ASSUME NEW m \in Messages, FlushSuppressed(m) PROVE LedgerTypeOK'
  <2>1. ob[m] \in Entries
    BY EntryTypes
  <2> QED
    BY <1>2, <1>4, <2>1 DEF FlushSuppressed, LedgerTypeOK, turnVars, observed, rows
<1>5. ASSUME NEW m \in Messages, ResumeDone(m) PROVE LedgerTypeOK'
  <2>1. heard' \in [Messages -> 0..2] /\ route' = route /\ rerouted' \in SUBSET Messages
    BY <1>5, OutboundEffect DEF ResumeDone
  <2>2. why' \in [Messages -> Reasons]
    BY <1>5, MarkTypes DEF ResumeDone, Reasons
  <2> QED
    BY <1>5, <2>1, <2>2, CloseEffect DEF ResumeDone, LedgerTypeOK, turnVars
<1>6. ASSUME NEW m \in Messages, NEW size \in 0..2, ResumeFails(m, size) PROVE LedgerTypeOK'
  <2>1. heard' \in [Messages -> 0..2] /\ route' = route /\ rerouted' \in SUBSET Messages
    BY <1>6, OutboundEffect DEF ResumeFails, rows
  <2> QED
    BY <1>6, <2>1 DEF ResumeFails, LedgerTypeOK, ledger, clocks, turnVars, observed, rows
<1>7. ASSUME NEW m \in Messages, Nudged(m) PROVE nudges' \in [Messages -> 0..2]
  BY <1>7 DEF Nudged, LedgerTypeOK
<1>8. ASSUME NEW m \in Messages, NudgeAck(m) PROVE LedgerTypeOK'
  BY <1>7, <1>8, CloseEffect DEF NudgeAck, LedgerTypeOK, turnVars, rows
<1>9. ASSUME NEW m \in Messages, NudgeFails(m) PROVE LedgerTypeOK'
  <2>1. nudges' \in [Messages -> 0..2] /\ cut' \in SUBSET Messages
    BY <1>7, <1>9 DEF NudgeFails, LedgerTypeOK, rows
  <2>4. nudging' \in [Messages -> Nat]
    BY <1>9 DEF NudgeFails, LedgerTypeOK, rows
  <2>2. CASE ob[m].atts >= EscalateMax
    BY <1>9, <2>1, <2>2, <2>4, CloseEffect DEF NudgeFails, LedgerTypeOK, turnVars, rows
  <2>3. CASE ~(ob[m].atts >= EscalateMax)
    BY <1>9, <2>1, <2>3, <2>4 DEF NudgeFails, LedgerTypeOK, ledger, clocks, turnVars, rows
  <2> QED
    BY <2>2, <2>3
<1> QED
  BY <1>1, <1>3, <1>4, <1>5, <1>6, <1>8, <1>9 DEF Settling

\* Time and faults keep the types.
LEMMA EnvironmentTypes == LedgerTypeOK /\ Environment => LedgerTypeOK'
<1> SUFFICES ASSUME LedgerTypeOK, Environment PROVE LedgerTypeOK'
  OBVIOUS
<1> USE LedgerAssumption
<1>1. ASSUME NEW m \in Messages, GraceEnds(m) \/ Ages(m) \/ SettlePasses(m) \/ RouteLapses(m)
      PROVE  LedgerTypeOK'
  <2>1. CASE GraceEnds(m)
    BY <2>1 DEF GraceEnds, LedgerTypeOK, ledger, turnVars, sends, observed, rows
  <2>2. CASE Ages(m)
    BY <2>2 DEF Ages, LedgerTypeOK, ledger, turnVars, sends, observed, rows
  <2>3. CASE SettlePasses(m)
    BY <2>3 DEF SettlePasses, LedgerTypeOK, ledger, turnVars, sends, observed, rows
  <2>4. CASE RouteLapses(m)
    <3>1. route' \in Routes /\ rerouted' \in SUBSET Messages
      BY <2>4 DEF RouteLapses, LedgerTypeOK, Routes
    <3> QED
      BY <2>4, <3>1 DEF RouteLapses, LedgerTypeOK, ledger, clocks, turnVars, sends, observed
  <2> QED
    BY <1>1, <2>1, <2>2, <2>3, <2>4
<1>2. CASE BridgeDown
  <2>1. faults' \in 0..MaxFaults
    BY <1>2 DEF BridgeDown, LedgerTypeOK, rows
  <2>2. /\ bridge' \in BOOLEAN /\ gate' \in BOOLEAN /\ called' \in BOOLEAN
        /\ cli' \in SUBSET Messages /\ session' \in {0} \cup Messages
    BY <1>2 DEF BridgeDown, SessionLost, rows
  <2> QED
    BY <1>2, <2>1, <2>2 DEF BridgeDown, LedgerTypeOK, clocks, sends, observed, rows
<1>3. CASE BridgeUp
  BY <1>3 DEF BridgeUp, LedgerTypeOK, ledger, clocks, turnVars, sends, observed, rows
<1>4. CASE Crash
  <2>1. ob' \in [Messages -> Entries] /\ disk' \in [Messages -> Entries]
    BY <1>4, EntryTypes DEF Crash, rows
  <2>2. nudges' \in [Messages -> 0..2]
    BY <1>4 DEF Crash, LedgerTypeOK, rows
  <2>3. /\ nudging' \in [Messages -> Nat]
        /\ cut' \in SUBSET Messages
        /\ flushing' \in SUBSET Messages /\ resuming' \in SUBSET Messages
        /\ settle' \in [Messages -> {"none", "open", "passed"}]
    BY <1>4 DEF Crash, LedgerTypeOK, rows
  <2>4. faults' \in 0..MaxFaults
    BY <1>4 DEF Crash, LedgerTypeOK
  <2>7. route' \in Routes /\ rerouted' \in SUBSET Messages
    BY <1>4 DEF Crash, Routes
  <2>6. why' \in [Messages -> Reasons]
    BY <1>4, MarkTypes DEF Crash, Reasons
  <2>5. /\ bridge' \in BOOLEAN /\ gate' \in BOOLEAN /\ called' \in BOOLEAN
        /\ cli' \in SUBSET Messages /\ session' \in {0} \cup Messages
    BY <1>4 DEF Crash, SessionLost, rows
  <2> QED
    BY <1>4, <2>1, <2>2, <2>3, <2>4, <2>5, <2>6, <2>7 DEF Crash, LedgerTypeOK, rows
<1> QED
  BY <1>1, <1>2, <1>3, <1>4 DEF Environment

\* Initial states are well typed, and steps keep them so.
LEMMA TypesInit == Init => LedgerTypeOK
<1> SUFFICES ASSUME Init PROVE LedgerTypeOK
  OBVIOUS
<1>1. NoEntry \in Entries
  BY LedgerAssumption DEF Entries, NoEntry
<1>2. 0 \in 0..2 /\ 0 \in 0..MaxFaults
  BY LedgerAssumption
<1>3. route \in Routes /\ why \in [Messages -> Reasons]
  BY DEF Init, Routes, Reasons
<1> QED
  BY <1>1, <1>2, <1>3 DEF Init, LedgerTypeOK

LEMMA TypesStep == LedgerTypeOK /\ [Next]_vars => LedgerTypeOK'
<1> SUFFICES ASSUME LedgerTypeOK, [Next]_vars PROVE LedgerTypeOK'
  OBVIOUS
<1>1. CASE Next
  BY <1>1, TurnsTypes, SweepTypes, SettlingTypes, EnvironmentTypes DEF Next
<1>2. CASE UNCHANGED vars
  BY <1>2 DEF vars, LedgerTypeOK, ledger, clocks, turnVars, sends, observed, rows
<1> QED
  BY <1>1, <1>2

\* The ledger, its file and the ladder keep their types: in particular no entry
\* is re-presented more than RepresentMax times, in memory or on disk.
THEOREM LedgerTypeCorrect == Spec => []LedgerTypeOK
<1> QED
  BY TypesInit, TypesStep, PTL DEF Spec

-----------------------------------------------------------------------------
(* Accounting *)

\* Nothing has happened to a message before it is received.
Unheardof(m) ==
    m \notin received =>
        ~ob[m].open /\ ~disk[m].open /\ attempts[m] = 0 /\ nudges[m] = 0 /\ nudging[m] = 0

\* The reasons for which an entry is closed without a nudge.
Excused(m) == TakenAsAnswered(m) \/ why[m] \in {"cancelled", "unwritten"}

\* NeverDropped for one message.
Kept(m) ==
    m \in received =>
        ob[m].open \/ Excused(m) \/ nudges[m] > 0 \/ attempts[m] >= EscalateMax

\* The counter, in memory and on disk, misses at most one attempt per fault and
\* invents none, and an open entry without a nudge in flight has one to spare.
Spare(m) ==
    /\ attempts[m] <= EscalateMax + faults
    /\ attempts[m] <= ob[m].atts + faults /\ ob[m].atts <= attempts[m]
    /\ attempts[m] <= disk[m].atts + faults /\ disk[m].atts <= attempts[m]
    /\ nudging[m] <= 1
    /\ ob[m].open /\ nudging[m] = 0 => attempts[m] < EscalateMax + faults

\* Unless a nudge's fate was lost, one that was received is the last: its entry is
\* closed and no other is in flight.
LastNudge(m) ==
    m \notin cut => nudges[m] <= 1 /\ (nudges[m] = 1 => ~ob[m].open /\ nudging[m] = 0)

Accounted(m) == Unheardof(m) /\ Kept(m) /\ Spare(m) /\ LastNudge(m)

LedgerInv == LedgerTypeOK /\ \A m \in Messages : Accounted(m)

\* Whatever closes entries for a reason, and sends no nudge, keeps the account.
LEMMA ReasonedStep ==
    ASSUME LedgerTypeOK, LedgerTypeOK', NEW p \in Messages, Accounted(p),
           received' = received,
           ob'[p].atts = ob[p].atts,
           ob'[p].open => ob[p].open,
           ob[p].open /\ ~ob'[p].open => Excused(p)',
           disk'[p] = disk[p] \/ disk'[p] = ob'[p],
           faults' >= faults,
           UNCHANGED <<nudging, nudges, cut, attempts>>,
           Excused(p) => Excused(p)'
    PROVE  Accounted(p)'
<1>1. /\ ob[p].atts \in Nat /\ disk[p].atts \in Nat /\ disk'[p].atts \in Nat
      /\ ob[p].open \in BOOLEAN /\ ob'[p].open \in BOOLEAN
      /\ nudging[p] \in Nat /\ nudges[p] \in 0..2 /\ attempts[p] \in Nat
      /\ faults \in Nat /\ faults' \in Nat /\ EscalateMax \in Nat
  BY LedgerAssumption DEF LedgerTypeOK, Entries
<1>2. Unheardof(p)'
  BY DEF Accounted, Unheardof
<1>3. Kept(p)'
  BY <1>1 DEF Accounted, Kept
<1>4. Spare(p)'
  BY <1>1 DEF Accounted, Spare
<1>5. LastNudge(p)'
  BY <1>1 DEF Accounted, LastNudge
<1> QED
  BY <1>2, <1>3, <1>4, <1>5 DEF Accounted

\* What was heard stays heard.
LEMMA HeardGrows ==
    ASSUME NEW a \in 0..2, NEW b \in 0..2, b >= a
    PROVE  (a = 2 => b = 2) /\ (a > 0 => b > 0)
  OBVIOUS

\* A marked entry is excused, and none loses its excuse.
LEMMA MarkEffect ==
    ASSUME LedgerTypeOK, LedgerTypeOK', NEW ms, NEW reason \in Reasons \ {""}, Mark(ms, reason),
           NEW p \in Messages, heard'[p] >= heard[p],
           reason = "heard" /\ p \in ms => heard'[p] > 0
    PROVE  /\ Excused(p) => Excused(p)'
           /\ p \in ms /\ ob[p].open => Excused(p)'
<1>1. heard[p] \in 0..2 /\ heard'[p] \in 0..2
  BY DEF LedgerTypeOK
<1>2. why'[p] = IF p \in ms /\ ob[p].open THEN reason ELSE why[p]
  BY DEF Mark
<1>3. ASSUME p \in ms, ob[p].open PROVE Excused(p)'
  <2>1. why'[p] = reason
    BY <1>2, <1>3
  <2>2. CASE reason = "heard"
    BY <1>3, <2>1, <2>2 DEF Excused, TakenAsAnswered
  <2>3. CASE reason \in {"answered", "tried", "rerouted", "cancelled", "unwritten"}
    BY <2>1, <2>3 DEF Excused, TakenAsAnswered
  <2> QED
    BY <2>2, <2>3 DEF Reasons
<1>4. ASSUME Excused(p), ~(p \in ms /\ ob[p].open) PROVE Excused(p)'
  <2>1. why'[p] = why[p]
    BY <1>2, <1>4
  <2>2. (heard[p] = 2 => heard'[p] = 2) /\ (heard[p] > 0 => heard'[p] > 0)
    BY <1>1, HeardGrows
  <2> QED
    BY <1>4, <2>1, <2>2 DEF Excused, TakenAsAnswered
<1> QED
  BY <1>3, <1>4

\* A step that leaves the ledger and the nudges alone.
LEMMA QuietStep ==
    ASSUME LedgerTypeOK, LedgerTypeOK', NEW p \in Messages, Accounted(p),
           UNCHANGED <<received, ob, disk, nudging, nudges, cut, attempts, why>>,
           faults' >= faults, heard'[p] >= heard[p]
    PROVE  Accounted(p)'
<1>1. heard[p] \in 0..2 /\ heard'[p] \in 0..2
  BY DEF LedgerTypeOK
<1>2. Excused(p) => Excused(p)'
  BY <1>1 DEF Excused, TakenAsAnswered
<1> QED
  BY <1>2, ReasonedStep DEF LedgerTypeOK

\* A step that closes m for a reason.
LEMMA CloseStep ==
    ASSUME LedgerTypeOK, LedgerTypeOK', NEW m \in Messages, Close(m),
           ob[m].open => Excused(m)',
           NEW p \in Messages, Accounted(p),
           UNCHANGED <<received, nudging, nudges, cut, attempts>>,
           Excused(p) => Excused(p)'
    PROVE  Accounted(p)'
<1>1. /\ \A q \in Messages : q # m => ob'[q] = ob[q]
      /\ ~ob'[m].open
      /\ ob'[m].atts = ob[m].atts
      /\ disk' = disk \/ disk' = ob'
      /\ faults' >= faults
  BY CloseEffect
<1>2. disk'[p] = disk[p] \/ disk'[p] = ob'[p]
  BY <1>1
<1>3. CASE p = m
  BY <1>1, <1>2, <1>3, ReasonedStep
<1>4. CASE p # m
  BY <1>1, <1>2, <1>4, ReasonedStep
<1> QED
  BY <1>3, <1>4

\* A step that closes m and says why.
LEMMA MarkedClose ==
    ASSUME LedgerTypeOK, LedgerTypeOK', NEW m \in Messages, Close(m),
           NEW reason \in Reasons \ {""}, Mark({m}, reason),
           reason = "heard" => heard'[m] > 0,
           NEW p \in Messages, Accounted(p),
           UNCHANGED <<received, nudging, nudges, cut, attempts>>,
           \A q \in Messages : heard'[q] >= heard[q]
    PROVE  Accounted(p)'
<1>1. ob[m].open => Excused(m)'
  BY MarkEffect
<1>2. Excused(p) => Excused(p)'
  <2>1. reason = "heard" /\ p \in {m} => heard'[p] > 0
    OBVIOUS
  <2>2. heard'[p] >= heard[p]
    OBVIOUS
  <2> QED
    BY <2>1, <2>2, MarkEffect
<1> QED
  BY <1>1, <1>2, CloseStep

\* A step that rewrites an entry without closing it or counting an attempt.
LEMMA RewriteStep ==
    ASSUME LedgerTypeOK, LedgerTypeOK', NEW m \in Messages, NEW entry \in Entries,
           Update(m, entry), entry.atts = ob[m].atts, entry.open = ob[m].open,
           NEW p \in Messages, Accounted(p),
           UNCHANGED <<received, nudging, nudges, cut, attempts, why>>,
           heard'[p] >= heard[p]
    PROVE  Accounted(p)'
<1>1. /\ \A q \in Messages : q # m => ob'[q] = ob[q]
      /\ ob'[m] = IF ob[m].open THEN entry ELSE ob[m]
      /\ disk' = disk \/ disk' = ob'
      /\ faults' >= faults
  BY UpdateEffect
<1>2. /\ disk'[p] = disk[p] \/ disk'[p] = ob'[p]
      /\ ob'[p].atts = ob[p].atts
      /\ ob'[p].open = ob[p].open
  BY <1>1
<1>3. heard[p] \in 0..2 /\ heard'[p] \in 0..2
  BY DEF LedgerTypeOK
<1>4. Excused(p) => Excused(p)'
  BY <1>3 DEF Excused, TakenAsAnswered
<1> QED
  BY <1>1, <1>2, <1>4, ReasonedStep

\* Messages and turns keep the account.
LEMMA TurnsAccount ==
    ASSUME LedgerInv, LedgerTypeOK', Turns, NEW p \in Messages
    PROVE  Accounted(p)'
<1>1. LedgerTypeOK /\ Accounted(p)
  BY DEF LedgerInv
<1>2. /\ heard[p] \in Nat /\ faults \in Nat
      /\ ob[p] \in Entries /\ ob[p].atts \in Nat /\ ob[p].open \in BOOLEAN
  <2>1. heard[p] \in 0..2 /\ faults \in 0..MaxFaults /\ ob[p] \in Entries
    BY <1>1 DEF LedgerTypeOK
  <2> QED
    BY <2>1, LedgerAssumption DEF Entries
<1>3. heard[p] >= heard[p] /\ faults >= faults
  BY <1>2
<1>16. ASSUME heard' = heard PROVE \A q \in Messages : heard'[q] >= heard[q]
  BY <1>1, <1>16 DEF LedgerTypeOK
<1>4. ASSUME NEW m \in Messages, Receive(m) PROVE Accounted(p)'
  <2>1. /\ ob' = [ob EXCEPT ![m].open = TRUE]
        /\ Persist(ob')
        /\ received' = received \cup {m} /\ m \notin received
        /\ UNCHANGED <<heard, nudging, nudges, cut, attempts, why>>
    BY <1>4 DEF Receive, sends, observed, rows
  <2>2. ob' \in [Messages -> Entries]
    BY DEF LedgerTypeOK
  <2>3. (disk' = disk \/ disk' = ob') /\ faults' >= faults
    BY <1>1, <2>1, <2>2, PersistEffect
  <2>4. CASE p # m
    <3>1. ob'[p] = ob[p] /\ (p \in received' <=> p \in received)
      BY <1>1, <2>1, <2>4 DEF LedgerTypeOK
    <3>2. disk'[p] = disk[p] \/ disk'[p] = ob'[p]
      BY <2>3
    <3>3. /\ disk[p].atts \in Nat /\ disk'[p].atts \in Nat /\ nudging[p] \in Nat
          /\ attempts[p] \in Nat /\ faults' \in Nat /\ EscalateMax \in Nat
      BY <1>1, LedgerAssumption DEF LedgerTypeOK, Entries
    <3>4. Unheardof(p)' /\ Kept(p)' /\ LastNudge(p)'
      BY <1>1, <2>1, <3>1, <3>2
      DEF Accounted, Unheardof, Kept, LastNudge, Excused, TakenAsAnswered
    <3>5. Spare(p)'
      BY <1>1, <1>2, <2>1, <2>3, <3>1, <3>2, <3>3 DEF Accounted, Spare
    <3> QED
      BY <3>4, <3>5 DEF Accounted
  <2>5. CASE p = m
    <3>1. /\ ~ob[p].open /\ ~disk[p].open /\ attempts[p] = 0 /\ nudges[p] = 0 /\ nudging[p] = 0
          /\ p \in received'
      BY <1>1, <2>1, <2>5 DEF Accounted, Unheardof
    <3>7. disk[p].atts \in Nat /\ disk[p].atts <= attempts[p] /\ ob[p].atts <= attempts[p]
      BY <1>1 DEF LedgerTypeOK, Entries, Accounted, Spare
    <3>8. ob[p].atts = 0 /\ disk[p].atts = 0
      BY <1>2, <3>1, <3>7
    <3>2. ob'[p].open /\ ob'[p].atts = 0
      BY <1>1, <1>2, <2>1, <2>5, <3>8 DEF LedgerTypeOK, Entries
    <3>3. faults' \in Nat /\ EscalateMax \in Nat \ {0} /\ disk'[p].atts = 0
      BY <1>1, <2>3, <3>2, <3>8, LedgerAssumption DEF LedgerTypeOK
    <3>4. Unheardof(p)' /\ Kept(p)'
      BY <3>1, <3>2 DEF Unheardof, Kept
    <3>5. Spare(p)'
      BY <1>2, <2>1, <2>3, <3>1, <3>2, <3>3 DEF Spare
    <3>6. LastNudge(p)'
      BY <2>1, <3>1 DEF LastNudge
    <3> QED
      BY <3>4, <3>5, <3>6 DEF Accounted
  <2> QED
    BY <2>4, <2>5
<1>5. CASE Drain
  <2>1. UNCHANGED <<received, heard, nudging, nudges, cut, attempts>> /\ Mark(Retracted, "heard")
    BY <1>5 DEF Drain, sends, observed, rows
  <2>4. p \in Retracted => heard'[p] > 0
    BY <2>1 DEF Retracted, SuppressRepresent
  <2>5. /\ Excused(p) => Excused(p)'
        /\ p \in Retracted /\ ob[p].open => Excused(p)'
    BY <1>1, <1>3, <2>1, <2>4, MarkEffect DEF Reasons
  <2>2. CASE Retracted = {}
    <3>1. UNCHANGED ledger
      BY <1>5, <2>2 DEF Drain
    <3> QED
      BY <1>1, <1>3, <2>1, <2>5, <3>1, ReasonedStep DEF ledger
  <2>3. CASE Retracted # {}
    <3>1. ob' = [m \in Messages |-> IF m \in Retracted THEN Deleted(ob[m]) ELSE ob[m]]
      BY <1>5, <2>3 DEF Drain, rows
    <3>2. ob' \in [Messages -> Entries] /\ Persist(ob')
      BY <1>5, <2>3 DEF Drain, LedgerTypeOK, rows
    <3>3. (disk' = disk \/ disk' = ob') /\ faults' >= faults
      BY <1>1, <3>2, PersistEffect
    <3>4. ob'[p].atts = ob[p].atts /\ (ob'[p].open => ob[p].open)
      BY <1>2, <3>1 DEF Deleted
    <3>5. ob[p].open /\ ~ob'[p].open => Excused(p)'
      BY <2>5, <3>1
    <3>6. disk'[p] = disk[p] \/ disk'[p] = ob'[p]
      BY <3>3
    <3> QED
      BY <1>1, <2>1, <2>5, <3>3, <3>4, <3>5, <3>6, ReasonedStep
  <2> QED
    BY <2>2, <2>3
<1>6. ASSUME NEW m \in Messages, TurnStart(m) PROVE Accounted(p)'
  BY <1>1, <1>3, <1>6, QuietStep DEF TurnStart, ledger, sends, observed, rows
<1>7. ASSUME NEW t \in Messages, NEW thread \in Threads, NEW size \in 1..2,
             Reply(t, thread, size)
      PROVE  Accounted(p)'
  <2>1. \A q \in Messages : heard'[q] >= heard[q]
    BY <1>1, <1>7, OutboundEffect DEF Reply
  <2> QED
    BY <1>1, <1>7, <2>1, MarkedClose DEF Reply, sends, Reasons
<1>8. ASSUME NEW thread \in Threads, NEW size \in 1..2, TrailingReply(thread, size)
      PROVE  Accounted(p)'
  <2>1. heard'[p] >= heard[p]
    BY <1>1, <1>8, OutboundEffect DEF TrailingReply
  <2> QED
    BY <1>1, <1>3, <1>8, <2>1, QuietStep DEF TrailingReply, ledger, sends, observed
<1>13. ASSUME NEW t \in Messages, ReplyQueued(t) PROVE Accounted(p)'
  BY <1>1, <1>13, <1>16, MarkedClose DEF ReplyQueued, sends, Reasons, rows
<1>14. ASSUME NEW thread \in Threads, NEW size \in 0..2, Interim(thread, size)
       PROVE  Accounted(p)'
  <2>1. heard'[p] >= heard[p]
    BY <1>1, <1>14, OutboundEffect DEF Interim
  <2> QED
    BY <1>1, <1>3, <1>14, <2>1, QuietStep DEF Interim, ledger, sends, observed
<1>15. ASSUME NEW named \in Threads, NEW to \in Threads, Reroute(named, to)
       PROVE  Accounted(p)'
  BY <1>1, <1>3, <1>15, QuietStep DEF Reroute, ledger, sends, observed
<1>9. CASE TurnEnd
  <2>1. session \in Messages
    BY <1>1, <1>9 DEF TurnEnd, LedgerTypeOK, rows
  <2>2. UNCHANGED <<received, heard, nudging, nudges, cut, attempts>>
    BY <1>9 DEF TurnEnd, sends, rows
  <2>3. CASE called
    <3>1. Close(session) /\ Mark({session}, "tried")
      BY <1>9, <2>3 DEF TurnEnd
    <3> QED
      BY <1>1, <1>16, <2>1, <2>2, <3>1, MarkedClose DEF Reasons
  <2>4. CASE ~called
    <3>1. Update(session, ob[session]) /\ why' = why
      BY <1>9, <2>4 DEF TurnEnd, NoteTurnEnded, rows
    <3>2. ob[session] \in Entries
      BY <1>1, <2>1, EntryTypes
    <3> QED
      BY <1>1, <1>3, <2>1, <2>2, <3>1, <3>2, RewriteStep
  <2> QED
    BY <2>3, <2>4
<1>10. CASE TurnFlush
  BY <1>1, <1>3, <1>10, QuietStep DEF TurnFlush, ledger, observed, rows
<1>11. CASE Interrupt
  <2>1. session \in Messages
    BY <1>1, <1>11 DEF Interrupt, LedgerTypeOK, rows
  <2> QED
    BY <1>1, <1>11, <1>16, <2>1, MarkedClose DEF Interrupt, sends, rows, Reasons
<1>12. CASE Poke
  BY <1>1, <1>3, <1>12, QuietStep DEF Poke, ledger, sends, observed, rows
<1> QED
  BY <1>4, <1>5, <1>6, <1>7, <1>8, <1>9, <1>10, <1>11, <1>12, <1>13, <1>14, <1>15 DEF Turns

\* The sweep keeps the account: it closes in silence only what its topic has
\* heard, and starts a nudge only with an attempt to spare.
LEMMA SweepAccount ==
    ASSUME LedgerInv, LedgerTypeOK', Sweep, NEW p \in Messages
    PROVE  Accounted(p)'
<1>1. PICK m \in Messages, work \in BOOLEAN : SweepOf(m, work)
  BY DEF Sweep
<1>2. LedgerTypeOK /\ Accounted(p) /\ Accounted(m)
  BY DEF LedgerInv
<1>3. /\ heard[p] \in Nat /\ heard[m] \in Nat /\ faults \in Nat /\ faults' \in Nat
      /\ ob[m] \in Entries /\ ob[p] \in Entries
  <2>1. /\ heard[p] \in 0..2 /\ heard[m] \in 0..2
        /\ faults \in 0..MaxFaults /\ faults' \in 0..MaxFaults
        /\ ob[m] \in Entries /\ ob[p] \in Entries
    BY <1>2 DEF LedgerTypeOK
  <2> QED
    BY <2>1, LedgerAssumption
<1>4. heard[p] >= heard[p] /\ faults >= faults
  BY <1>3
<1>5. CASE SweepClose(m, work)
  <2>1. /\ heard[m] = 2 \/ m \in rerouted
        /\ Close(m) /\ Mark({m} \cap rerouted, "rerouted")
        /\ UNCHANGED <<received, heard, nudging, nudges, cut, attempts>>
    BY <1>5 DEF SweepClose, answeredSinceOpen, sends, rows
  <2>2. heard'[m] >= heard[m] /\ heard'[p] >= heard[p]
    BY <1>3, <2>1
  <2>3. /\ Excused(p) => Excused(p)'
        /\ m \in {m} \cap rerouted /\ ob[m].open => Excused(m)'
    <3>1. "rerouted" \in Reasons \ {""} /\ "rerouted" # "heard"
      BY DEF Reasons
    <3>2. Excused(p) => Excused(p)'
      BY <1>2, <2>1, <2>2, <3>1, MarkEffect
    <3>3. m \in {m} \cap rerouted /\ ob[m].open => Excused(m)'
      BY <1>2, <2>1, <2>2, <3>1, MarkEffect
    <3> QED
      BY <3>2, <3>3
  <2>4. ob[m].open => Excused(m)'
    BY <2>1, <2>3 DEF Excused, TakenAsAnswered
  <2> QED
    BY <1>2, <2>1, <2>3, <2>4, CloseStep
<1>11. CASE SweepSuppress(m, work)
  <2>1. /\ heard[m] > 0 /\ Close(m) /\ Mark({m}, "heard")
        /\ UNCHANGED <<received, heard, nudging, nudges, cut, attempts>>
    BY <1>11 DEF SweepSuppress, SuppressRepresent, sends, rows
  <2>2. \A q \in Messages : heard'[q] >= heard[q]
    BY <1>2, <2>1 DEF LedgerTypeOK
  <2> QED
    BY <1>2, <2>1, <2>2, MarkedClose DEF Reasons
<1>6. ASSUME Represents(m), MarkRepresented(m),
             UNCHANGED <<received, heard, nudging, nudges, cut, attempts, why>>
      PROVE  Accounted(p)'
  <2> DEFINE entry == [ob[m] EXCEPT !.reps = @ + 1]
  <2>1. entry \in Entries
    BY <1>2, <1>6, EntryTypes
  <2>2. entry.atts = ob[m].atts /\ entry.open = ob[m].open
    BY <1>3 DEF Entries
  <2>3. Update(m, entry)
    BY <1>6 DEF MarkRepresented
  <2> HIDE DEF entry
  <2> QED
    BY <1>2, <1>4, <1>6, <2>1, <2>2, <2>3, RewriteStep
<1>7. CASE SweepResume(m, work)
  BY <1>6, <1>7 DEF SweepResume, observed, rows
<1>8. CASE SweepRepresent(m, work)
  BY <1>6, <1>8 DEF SweepRepresent, sends, observed, rows
<1>9. CASE SweepSettle(m, work)
  BY <1>2, <1>4, <1>9, QuietStep DEF SweepSettle, ledger, sends, observed, rows
<1>10. CASE SweepEscalate(m, work)
  <2>1. UNCHANGED <<received, heard, nudges, cut, why>> /\ ob[m].open
    BY <1>10 DEF SweepEscalate, observed, Due, Eligible, rows
  <2>2. CASE nudging[m] # 0
    <3>1. UNCHANGED <<ledger, nudging, attempts>>
      BY <1>10, <2>2 DEF SweepEscalate, driveEscalation, rows
    <3> QED
      BY <1>2, <1>4, <2>1, <3>1, QuietStep DEF ledger
  <2>3. CASE nudging[m] = 0
    <3> DEFINE entry == [ob[m] EXCEPT !.atts = @ + 1]
    <3>1. /\ entry \in Entries /\ ob[m].atts \in Nat
          /\ entry.atts = ob[m].atts + 1 /\ entry.open = ob[m].open
      BY <1>3, EntryTypes DEF Entries
    <3>2. /\ Update(m, entry) /\ nudging' = [nudging EXCEPT ![m] = @ + 1]
          /\ attempts' = [attempts EXCEPT ![m] = @ + 1]
      BY <1>10, <2>3 DEF SweepEscalate, driveEscalation, NudgeStarts
    <3>6. Excused(p) => Excused(p)'
      BY <2>1 DEF Excused, TakenAsAnswered
    <3>3. /\ \A q \in Messages : q # m => ob'[q] = ob[q]
          /\ ob'[m] = entry
          /\ disk' = disk \/ disk' = ob'
          /\ faults' >= faults
      <4> HIDE DEF entry
      <4> QED BY <1>2, <2>1, <3>1, <3>2, UpdateEffect
    <3>4. CASE p # m
      <4>1. ob'[p] = ob[p] /\ nudging'[p] = nudging[p] /\ attempts'[p] = attempts[p]
        BY <1>2, <3>2, <3>3, <3>4 DEF LedgerTypeOK
      <4>2. disk'[p] = disk[p] \/ disk'[p] = ob'[p]
        BY <3>3
      <4>3. /\ ob[p].atts \in Nat /\ disk[p].atts \in Nat
            /\ nudging[p] \in Nat /\ attempts[p] \in Nat /\ EscalateMax \in Nat
        BY <1>2, LedgerAssumption DEF LedgerTypeOK, Entries
      <4>4. Unheardof(p)' /\ Kept(p)' /\ LastNudge(p)'
        BY <1>2, <2>1, <3>6, <4>1, <4>2 DEF Accounted, Unheardof, Kept, LastNudge
      <4>5. Spare(p)'
        BY <1>2, <1>3, <3>3, <4>1, <4>2, <4>3 DEF Accounted, Spare
      <4> QED
        BY <4>4, <4>5 DEF Accounted
    <3>5. CASE p = m
      <4>1. /\ ob'[p].open /\ ob'[p].atts = ob[p].atts + 1
            /\ nudging'[p] = 1 /\ attempts'[p] = attempts[p] + 1
        <5>1. ob'[p].open /\ ob'[p].atts = ob[p].atts + 1
          BY <2>1, <3>1, <3>3, <3>5
        <5>2. nudging'[p] = 1 /\ attempts'[p] = attempts[p] + 1
          BY <1>2, <2>3, <3>2, <3>5 DEF LedgerTypeOK
        <5> QED
          BY <5>1, <5>2
      <4>2. /\ ob[p].atts \in Nat /\ disk[p].atts \in Nat /\ disk'[p].atts \in Nat
            /\ attempts[p] \in Nat /\ EscalateMax \in Nat
        BY <1>2, LedgerAssumption DEF LedgerTypeOK, Entries
      <4>3. disk' = disk => faults' = faults + 1 \/ disk = ob'
        <5>1. Persist(ob')
          BY <2>1, <3>2 DEF Update
        <5> QED
          BY <5>1 DEF Persist
      <4>4. disk'[p].atts = ob'[p].atts \/ (disk'[p].atts = disk[p].atts /\ faults' = faults + 1)
        BY <3>3, <4>3
      <4>5. /\ p \in received /\ attempts[p] < EscalateMax + faults
            /\ attempts[p] <= ob[p].atts + faults /\ ob[p].atts <= attempts[p]
            /\ attempts[p] <= disk[p].atts + faults /\ disk[p].atts <= attempts[p]
            /\ p \notin cut => nudges[p] = 0
        <5>1. /\ attempts[p] < EscalateMax + faults
              /\ attempts[p] <= ob[p].atts + faults /\ ob[p].atts <= attempts[p]
              /\ attempts[p] <= disk[p].atts + faults /\ disk[p].atts <= attempts[p]
          BY <1>2, <2>1, <2>3, <3>5 DEF Accounted, Spare
        <5>2. p \in received
          BY <1>2, <2>1, <3>5 DEF Accounted, Unheardof
        <5>3. p \notin cut => nudges[p] = 0
          BY <1>2, <2>1, <3>5 DEF Accounted, LastNudge, LedgerTypeOK
        <5> QED
          BY <5>1, <5>2, <5>3
      <4>6. Unheardof(p)' /\ Kept(p)' /\ LastNudge(p)'
        BY <2>1, <4>1, <4>5 DEF Unheardof, Kept, LastNudge
      <4>7. Spare(p)'
        BY <1>3, <3>3, <4>1, <4>2, <4>4, <4>5 DEF Spare
      <4> QED
        BY <4>6, <4>7 DEF Accounted
    <3> QED
      BY <3>4, <3>5
  <2> QED
    BY <2>2, <2>3
<1> QED
  BY <1>1, <1>5, <1>7, <1>8, <1>9, <1>10, <1>11 DEF SweepOf

\* A nudge of m that settles leaves the account of every other message alone.
LEMMA OtherNudge ==
    ASSUME LedgerTypeOK, LedgerTypeOK', NEW p \in Messages, Accounted(p),
           UNCHANGED <<received, heard, attempts, why>>,
           ob'[p] = ob[p], nudging'[p] = nudging[p], nudges'[p] = nudges[p],
           cut \subseteq cut',
           disk'[p] = disk[p] \/ disk'[p] = ob'[p],
           faults' >= faults
    PROVE  Accounted(p)'
<1>1. /\ ob[p].atts \in Nat /\ disk[p].atts \in Nat /\ disk'[p].atts \in Nat
      /\ nudging[p] \in Nat /\ attempts[p] \in Nat
      /\ faults \in Nat /\ faults' \in Nat /\ EscalateMax \in Nat
  BY LedgerAssumption DEF LedgerTypeOK, Entries
<1>2. Unheardof(p)' /\ Kept(p)' /\ LastNudge(p)'
  BY DEF Accounted, Unheardof, Kept, LastNudge, Excused, TakenAsAnswered
<1>3. Spare(p)'
  BY <1>1 DEF Accounted, Spare
<1> QED
  BY <1>2, <1>3 DEF Accounted

\* A nudge that settles keeps the account: one that landed closes the entry, one
\* that failed leaves it an attempt to spare or was the last.
LEMMA NudgeAccount ==
    ASSUME LedgerInv, LedgerTypeOK', NEW m \in Messages, NudgeAck(m) \/ NudgeFails(m),
           NEW p \in Messages
    PROVE  Accounted(p)'
<1>1. LedgerTypeOK /\ Accounted(p) /\ Accounted(m)
  BY DEF LedgerInv
<1>2. /\ ob[m].atts \in Nat /\ disk[m].atts \in Nat /\ disk'[m].atts \in Nat
      /\ ob[m].open \in BOOLEAN /\ nudging[m] \in Nat /\ nudges[m] \in 0..2
      /\ attempts[m] \in Nat
      /\ faults \in Nat /\ faults' \in Nat /\ EscalateMax \in Nat
  BY <1>1, LedgerAssumption DEF LedgerTypeOK, Entries
<1>3. /\ nudging[m] = 1 /\ m \in received
      /\ m \notin cut => nudges[m] = 0
      /\ attempts[m] <= EscalateMax + faults
      /\ attempts[m] <= ob[m].atts + faults /\ ob[m].atts <= attempts[m]
      /\ attempts[m] <= disk[m].atts + faults /\ disk[m].atts <= attempts[m]
  <2>1. nudging[m] > 0
    BY DEF NudgeAck, NudgeFails, rows
  <2>2. /\ nudging[m] = 1
        /\ attempts[m] <= EscalateMax + faults
        /\ attempts[m] <= ob[m].atts + faults /\ ob[m].atts <= attempts[m]
        /\ attempts[m] <= disk[m].atts + faults /\ disk[m].atts <= attempts[m]
    BY <1>1, <1>2, <2>1 DEF Accounted, Spare
  <2>3. m \in received
    BY <1>1, <2>1 DEF Accounted, Unheardof
  <2>4. m \notin cut => nudges[m] = 0
    BY <1>1, <1>2, <2>1 DEF Accounted, LastNudge
  <2> QED
    BY <2>2, <2>3, <2>4
<1>4. /\ UNCHANGED <<received, heard, attempts, why>>
      /\ nudging' = [nudging EXCEPT ![m] = @ - 1]
      /\ cut' = cut \/ cut' = cut \cup {m}
      /\ nudges' = nudges \/ Nudged(m)
  BY DEF NudgeAck, NudgeFails, rows
<1>5. /\ \A q \in Messages : q # m => ob'[q] = ob[q]
      /\ ob'[m].atts = ob[m].atts
      /\ disk' = disk \/ disk' = ob'
      /\ faults' >= faults
      /\ ob'[m] = ob[m] \/ ~ob'[m].open
  <2>1. CASE Close(m)
    BY <1>1, <2>1, CloseEffect
  <2>2. CASE UNCHANGED ledger
    BY <1>2, <2>2 DEF ledger
  <2> QED
    BY <2>1, <2>2 DEF NudgeAck, NudgeFails, rows
<1>6. disk'[p] = disk[p] \/ disk'[p] = ob'[p]
  BY <1>5
<1>7. CASE p # m
  <2>1. nudging'[p] = nudging[p] /\ nudges'[p] = nudges[p]
    BY <1>1, <1>4, <1>7 DEF LedgerTypeOK, Nudged
  <2> QED
    BY <1>1, <1>4, <1>5, <1>6, <1>7, <2>1, OtherNudge
<1>8. CASE p = m
  <2>1. nudging'[m] = 0
    BY <1>1, <1>3, <1>4 DEF LedgerTypeOK
  <2>2. CASE NudgeAck(m)
    <3>1. Nudged(m) /\ cut' = cut /\ Close(m)
      BY <2>2 DEF NudgeAck, rows
    <3>2. ~ob'[m].open
      BY <1>1, <3>1, CloseEffect
    <3>3. nudges'[m] = IF nudges[m] < 2 THEN nudges[m] + 1 ELSE nudges[m]
      BY <1>1, <3>1 DEF Nudged, LedgerTypeOK
    <3>4. nudges'[m] > 0 /\ (m \notin cut => nudges'[m] = 1)
      BY <1>2, <1>3, <3>3
    <3>5. Unheardof(m)' /\ Kept(m)'
      BY <1>3, <1>4, <3>4 DEF Unheardof, Kept
    <3>6. Spare(m)'
      BY <1>2, <1>3, <1>4, <1>5, <1>6, <1>8, <2>1, <3>2 DEF Spare
    <3>7. LastNudge(m)'
      BY <2>1, <3>1, <3>2, <3>4 DEF LastNudge
    <3> QED
      BY <1>8, <3>5, <3>6, <3>7 DEF Accounted
  <2>3. CASE NudgeFails(m)
    <3>1. CASE ob[m].atts >= EscalateMax
      <4>1. ~ob'[m].open
        BY <1>1, <2>3, <3>1, CloseEffect DEF NudgeFails, rows
      <4>2. Unheardof(m)' /\ Kept(m)'
        BY <1>2, <1>3, <1>4, <3>1 DEF Unheardof, Kept
      <4>3. Spare(m)'
        BY <1>2, <1>3, <1>4, <1>5, <1>6, <1>8, <2>1, <4>1 DEF Spare
      <4> QED
        <5>1. LastNudge(m)'
          BY <1>2, <1>3, <2>3 DEF LastNudge, NudgeFails
        <5> QED
          BY <1>8, <4>2, <4>3, <5>1 DEF Accounted
    <3>2. CASE ~(ob[m].atts >= EscalateMax)
      <4>1. ob' = ob /\ disk' = disk /\ faults' = faults
        BY <2>3, <3>2 DEF NudgeFails, ledger, rows
      <4>2. nudges'[m] > 0 \/ nudges' = nudges
        <5>1. CASE Nudged(m)
          BY <1>1, <1>2, <5>1 DEF Nudged, LedgerTypeOK
        <5> QED
          BY <1>4, <5>1
      <4>3. Unheardof(m)'
        BY <1>3, <1>4 DEF Unheardof
      <4>4. Kept(m)'
        BY <1>1, <1>4, <4>1, <4>2 DEF Accounted, Kept, Excused, TakenAsAnswered
      <4>5. Spare(m)'
        BY <1>2, <1>3, <1>4, <2>1, <3>2, <4>1 DEF Spare
      <4>6. LastNudge(m)'
        BY <1>2, <1>3, <2>3 DEF LastNudge, NudgeFails
      <4> QED
        BY <1>8, <4>3, <4>4, <4>5, <4>6 DEF Accounted
    <3> QED
      BY <3>1, <3>2
  <2> QED
    BY <2>2, <2>3
<1> QED
  BY <1>7, <1>8

\* Sends that settle keep the account.
LEMMA SettlingAccount ==
    ASSUME LedgerInv, LedgerTypeOK', Settling, NEW p \in Messages
    PROVE  Accounted(p)'
<1>1. LedgerTypeOK /\ Accounted(p)
  BY DEF LedgerInv
<1>2. heard[p] \in Nat /\ faults \in Nat
  <2>1. heard[p] \in 0..2 /\ faults \in 0..MaxFaults
    BY <1>1 DEF LedgerTypeOK
  <2> QED
    BY <2>1, LedgerAssumption
<1>3. heard[p] >= heard[p] /\ faults >= faults
  BY <1>2
<1>4. ASSUME NEW m \in Messages, NEW size \in 1..2, FlushDone(m, size) PROVE Accounted(p)'
  <2>1. \A q \in Messages : heard'[q] >= heard[q]
    BY <1>1, <1>4, OutboundEffect DEF FlushDone
  <2> QED
    BY <1>1, <1>4, <2>1, MarkedClose DEF FlushDone, Reasons
<1>5. ASSUME NEW m \in Messages, NEW size \in 0..2, FlushFails(m, size) PROVE Accounted(p)'
  <2> DEFINE entry == [ob[m] EXCEPT !.captured = TRUE]
  <2>1. heard'[p] >= heard[p]
    BY <1>1, <1>5, OutboundEffect DEF FlushFails, rows
  <2>2. entry \in Entries /\ ob[m] \in Entries
    BY <1>1, EntryTypes
  <2>3. entry.atts = ob[m].atts /\ entry.open = ob[m].open
    BY <2>2 DEF Entries
  <2>4. Update(m, entry)
    BY <1>5 DEF FlushFails, NoteTurnEnded, rows
  <2> HIDE DEF entry
  <2> QED
    BY <1>1, <1>5, <2>1, <2>2, <2>3, <2>4, RewriteStep DEF FlushFails, observed, rows
<1>6. ASSUME NEW m \in Messages, NEW size \in 0..2, ResumeFails(m, size) PROVE Accounted(p)'
  <2>1. heard'[p] >= heard[p]
    BY <1>1, <1>6, OutboundEffect DEF ResumeFails, rows
  <2> QED
    BY <1>1, <1>3, <1>6, <2>1, QuietStep DEF ResumeFails, ledger, observed, rows
<1>7. ASSUME NEW m \in Messages, FlushSuppressed(m) PROVE Accounted(p)'
  <2>1. ob[m] \in Entries
    BY <1>1, EntryTypes
  <2>2. Update(m, ob[m])
    BY <1>7 DEF FlushSuppressed, NoteTurnEnded, rows
  <2> QED
    BY <1>1, <1>3, <1>7, <2>1, <2>2, RewriteStep DEF FlushSuppressed, observed, rows
<1>8. ASSUME NEW m \in Messages, ResumeDone(m) PROVE Accounted(p)'
  <2>1. \A q \in Messages : heard'[q] >= heard[q]
    BY <1>1, <1>8, OutboundEffect DEF ResumeDone
  <2> QED
    BY <1>1, <1>8, <2>1, MarkedClose DEF ResumeDone, Reasons
<1> QED
  BY <1>4, <1>5, <1>6, <1>7, <1>8, NudgeAccount DEF Settling

\* A restart keeps the account: an entry it loses is excused, one it brings
\* back, or whose nudge it cuts, is marked as cut, and the fault it is pays for
\* one more attempt.
LEMMA CrashAccount ==
    ASSUME LedgerInv, LedgerTypeOK', Crash, NEW p \in Messages
    PROVE  Accounted(p)'
<1>1. LedgerTypeOK /\ Accounted(p)
  BY DEF LedgerInv
<1>2. /\ ob[p].atts \in Nat /\ disk[p].atts \in Nat /\ nudging[p] \in Nat
      /\ ob[p].open \in BOOLEAN /\ disk[p].open \in BOOLEAN
      /\ faults \in Nat /\ EscalateMax \in Nat /\ nudges[p] \in 0..2 /\ attempts[p] \in Nat
  BY <1>1, LedgerAssumption DEF LedgerTypeOK, Entries
<1>3. /\ received' = received /\ heard' = heard /\ faults' = faults + 1
      /\ nudging'[p] = 0 /\ attempts' = attempts
      /\ ob'[p] = IF disk[p].open THEN disk[p] ELSE Deleted(ob[p])
      /\ disk'[p] = ob'[p]
      /\ p \in cut' <=> p \in cut \/ nudging[p] > 0 \/ (disk[p].open /\ ~ob[p].open)
  BY DEF Crash, rows
<1>4. nudges'[p] = nudges[p] \/ (nudging[p] > 0 /\ nudges'[p] > 0)
  BY <1>2 DEF Crash, rows
<1>5. /\ ob'[p].open <=> disk[p].open
      /\ ob'[p].atts = IF disk[p].open THEN disk[p].atts ELSE ob[p].atts
  BY <1>3 DEF Deleted
<1>10. /\ Excused(p) => Excused(p)'
       /\ ob[p].open /\ ~disk[p].open => Excused(p)'
  <2>1. Mark({m \in Messages : ~disk[m].open}, "unwritten")
    BY DEF Crash
  <2>2. heard'[p] >= heard[p]
    BY <1>1, <1>3 DEF LedgerTypeOK
  <2>3. "unwritten" \in Reasons \ {""} /\ "unwritten" # "heard"
    BY DEF Reasons
  <2> DEFINE lost == {m \in Messages : ~disk[m].open}
  <2>4. /\ Excused(p) => Excused(p)'
        /\ p \in lost /\ ob[p].open => Excused(p)'
    <3> HIDE DEF lost
    <3> QED
      BY <1>1, <2>1, <2>2, <2>3, MarkEffect DEF lost
  <2> QED
    BY <2>4
<1>6. Unheardof(p)'
  BY <1>1, <1>2, <1>3, <1>4, <1>5 DEF Accounted, Unheardof
<1>7. Kept(p)'
  BY <1>1, <1>2, <1>3, <1>4, <1>5, <1>10 DEF Accounted, Kept
<1>8. Spare(p)'
  BY <1>1, <1>2, <1>3, <1>5 DEF Accounted, Spare
<1>9. LastNudge(p)'
  BY <1>1, <1>2, <1>3, <1>4, <1>5 DEF Accounted, LastNudge
<1> QED
  BY <1>6, <1>7, <1>8, <1>9 DEF Accounted

\* Time and faults keep the account.
LEMMA EnvironmentAccount ==
    ASSUME LedgerInv, LedgerTypeOK', Environment, NEW p \in Messages
    PROVE  Accounted(p)'
<1>1. LedgerTypeOK /\ Accounted(p)
  BY DEF LedgerInv
<1>2. heard[p] \in Nat /\ faults \in Nat
  <2>1. heard[p] \in 0..2 /\ faults \in 0..MaxFaults
    BY <1>1 DEF LedgerTypeOK
  <2> QED
    BY <2>1, LedgerAssumption
<1>3. heard[p] >= heard[p] /\ faults >= faults /\ faults + 1 >= faults
  BY <1>2
<1>4. ASSUME NEW m \in Messages, GraceEnds(m) \/ Ages(m) \/ SettlePasses(m) \/ RouteLapses(m)
      PROVE  Accounted(p)'
  <2>1. UNCHANGED <<received, ledger, heard, sends, observed>>
    BY <1>4 DEF GraceEnds, Ages, SettlePasses, RouteLapses, rows
  <2> QED
    BY <1>1, <1>3, <2>1, QuietStep DEF ledger, sends, observed
<1>5. CASE BridgeDown
  BY <1>1, <1>3, <1>5, QuietStep DEF BridgeDown, sends, observed, rows
<1>6. CASE BridgeUp
  BY <1>1, <1>3, <1>6, QuietStep DEF BridgeUp, ledger, sends, observed, rows
<1> QED
  BY <1>4, <1>5, <1>6, CrashAccount DEF Environment

\* LedgerInv holds initially.
LEMMA LedgerInvInit == Init => LedgerInv
<1> SUFFICES ASSUME Init PROVE LedgerInv
  OBVIOUS
<1>1. LedgerTypeOK
  BY TypesInit
<1>2. ASSUME NEW m \in Messages PROVE Accounted(m)
  <2>1. /\ ob[m] = NoEntry /\ disk[m] = NoEntry /\ nudges[m] = 0 /\ nudging[m] = 0
        /\ received = {} /\ faults = 0 /\ attempts[m] = 0
    BY DEF Init
  <2>2. ~ob[m].open /\ ~disk[m].open /\ ob[m].atts = 0 /\ disk[m].atts = 0
    BY <2>1 DEF NoEntry
  <2> QED
    BY <2>1, <2>2, LedgerAssumption DEF Accounted, Unheardof, Kept, Spare, LastNudge
<1> QED
  BY <1>1, <1>2 DEF LedgerInv

\* Every step keeps LedgerInv.
LEMMA LedgerInvStep == LedgerInv /\ [Next]_vars => LedgerInv'
<1> SUFFICES ASSUME LedgerInv, [Next]_vars PROVE LedgerInv'
  OBVIOUS
<1>1. LedgerTypeOK'
  BY TypesStep DEF LedgerInv
<1>2. ASSUME NEW p \in Messages PROVE Accounted(p)'
  <2>1. CASE UNCHANGED vars
    <3>1. LedgerTypeOK /\ Accounted(p)
      BY DEF LedgerInv
    <3>2. heard[p] \in 0..2 /\ faults \in 0..MaxFaults
      BY <3>1 DEF LedgerTypeOK
    <3>3. heard[p] >= heard[p] /\ faults >= faults
      BY <3>2, LedgerAssumption
    <3> QED
      BY <1>1, <2>1, <3>1, <3>3, QuietStep DEF vars, ledger, sends, observed, rows
  <2> QED
    BY <1>1, <2>1, TurnsAccount, SweepAccount, SettlingAccount, EnvironmentAccount DEF Next
<1> QED
  BY <1>1, <1>2 DEF LedgerInv

-----------------------------------------------------------------------------
(* Theorems *)

\* LedgerInv is an invariant of the ledger.
LEMMA LedgerAccounted == Spec => []LedgerInv
  BY LedgerInvInit, LedgerInvStep, PTL DEF Spec

\* No message leaves the ledger unnoticed, whatever crashes, failed writes and
\* replies to other topics come in between (driveEscalation's close after the
\* send, the sweep's silent closes, hydrate).
THEOREM NothingDropped == Spec => []NeverDropped
<1>1. LedgerInv => NeverDropped
  BY DEF LedgerInv, LedgerTypeOK, Accounted, Kept, Excused, NeverDropped
<1> QED
  BY <1>1, LedgerAccounted, PTL

\* A second operator nudge for a message means that the fate of an earlier one was
\* lost (the in-flight set of driveEscalation and its close after the send).
THEOREM NudgedOnce == Spec => []OneNudge
<1>1. ASSUME LedgerInv, NEW m \in Messages, nudges[m] > 1 PROVE m \in cut
  <2>1. nudges[m] \in 0..2 /\ LastNudge(m)
    BY <1>1 DEF LedgerInv, LedgerTypeOK, Accounted
  <2> QED
    BY <1>1, <2>1 DEF LastNudge
<1>2. LedgerInv => OneNudge
  BY <1>1 DEF OneNudge
<1> QED
  BY <1>2, LedgerAccounted, PTL

\* A message is attempted at most EscalateMax times, and once more per fault
\* (markEscalateAttempt persisted before the send, NudgeFails' give-up, hydrate).
THEOREM LadderIsBounded == Spec => []LadderBounded
<1>1. LedgerInv => LadderBounded
  BY DEF LedgerInv, Accounted, Spare, LadderBounded
<1> QED
  BY <1>1, LedgerAccounted, PTL

=============================================================================
