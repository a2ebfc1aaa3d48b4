------------------------- MODULE DeliveryConfirmProofs -------------------------
(***************************************************************************)
(* A message without a rival in its chat is never dropped, for any chats,  *)
(* messages and timeout.                                                   *)
(***************************************************************************)
EXTENDS DeliveryConfirm, TLAPS

\* Only what landed is enqueued: an ack is never early.
Backed == \A e \in enqueued : e.ids \subseteq landed

\* Only what arrived is buffered.
Known == ToSet(buffer) \cup ToSet(draining) \subseteq arrived

ConfirmInv == ConfirmTypeOK /\ Backed /\ Known /\ LoneNeverDropped

Entries == [msg : Msgs \cup {None}, age : 0..Timeout]

-----------------------------------------------------------------------------
(* Sequences as sets.                                                      *)

\* Appending adds one member.
LEMMA AppendMembers ==
    ASSUME NEW S, NEW s \in Seq(S), NEW x \in S
    PROVE  Append(s, x) \in Seq(S) /\ ToSet(Append(s, x)) = ToSet(s) \cup {x}
<1>1. /\ Append(s, x) \in Seq(S)
      /\ Len(Append(s, x)) = Len(s) + 1
      /\ \A i \in 1..Len(s) : Append(s, x)[i] = s[i]
      /\ Append(s, x)[Len(s) + 1] = x
  OBVIOUS
<1>2. ToSet(Append(s, x)) \subseteq ToSet(s) \cup {x}
  BY <1>1 DEF ToSet
<1>3. ToSet(s) \cup {x} \subseteq ToSet(Append(s, x))
  BY <1>1 DEF ToSet
<1> QED BY <1>1, <1>2, <1>3

\* A sequence holds its head and its tail's members.
LEMMA HeadTailMembers ==
    ASSUME NEW S, NEW s \in Seq(S), s # <<>>
    PROVE  /\ Head(s) \in S /\ Tail(s) \in Seq(S)
           /\ ToSet(s) = {Head(s)} \cup ToSet(Tail(s))
<1>1. /\ Head(s) \in S /\ Tail(s) \in Seq(S) /\ Len(s) >= 1
      /\ Head(s) = s[1] /\ Len(Tail(s)) = Len(s) - 1
      /\ \A i \in 1..(Len(s) - 1) : Tail(s)[i] = s[i + 1]
  OBVIOUS
<1>2. ToSet(s) \subseteq {Head(s)} \cup ToSet(Tail(s))
  <2>1. SUFFICES ASSUME NEW i \in 1..Len(s), i # 1
                 PROVE  s[i] \in ToSet(Tail(s))
    BY <1>1 DEF ToSet
  <2>2. i - 1 \in 1..(Len(s) - 1) /\ Tail(s)[i - 1] = s[i]
    BY <1>1, <2>1
  <2>3. DOMAIN Tail(s) = 1..(Len(s) - 1)
    BY <1>1
  <2> QED BY <2>2, <2>3 DEF ToSet
<1>3. {Head(s)} \cup ToSet(Tail(s)) \subseteq ToSet(s)
  <2>1. ASSUME NEW i \in 1..(Len(s) - 1)
        PROVE  Tail(s)[i] \in ToSet(s)
    BY <1>1, <2>1 DEF ToSet
  <2> QED BY <1>1, <2>1 DEF ToSet
<1> QED BY <1>1, <1>2, <1>3

-----------------------------------------------------------------------------
(* The queue's operations.                                                 *)

\* trackDelivery sets the entry of the message's key and no other.
LEMMA TrackedEntry ==
    ASSUME NEW m \in Msgs, pending \in [Keys -> Entries]
    PROVE  /\ Tracked(m) \in [Keys -> Entries]
           /\ Tracked(m)[KeyOf[m]].msg = m
           /\ \A k \in Keys : k # KeyOf[m] => Tracked(m)[k] = pending[k]
<1>1. KeyOf[m] \in Keys
  BY ConfirmAssumption
<1>2. [msg |-> m, age |-> 0] \in Entries
  BY ConfirmAssumption DEF Entries
<1> QED BY <1>1, <1>2 DEF Tracked

\* forgetDelivery empties one entry.
LEMMA ForgottenEntry ==
    ASSUME NEW k \in Keys, pending \in [Keys -> Entries]
    PROVE  /\ Forgotten(k) \in [Keys -> Entries]
           /\ Forgotten(k)[k].msg = None
           /\ \A j \in Keys : j # k => Forgotten(k)[j] = pending[j]
<1>1. Untracked \in Entries /\ Untracked.msg = None
  BY ConfirmAssumption DEF Entries, Untracked
<1> QED BY <1>1 DEF Forgotten

\* Resetting or advancing a clock leaves the tracked message.
LEMMA AgedEntry ==
    ASSUME NEW e \in Entries, NEW a \in 0..Timeout
    PROVE  [e EXCEPT !.age = a] \in Entries /\ [e EXCEPT !.age = a].msg = e.msg
BY DEF Entries

-----------------------------------------------------------------------------
(* The type part of a step: it is enough to look at what the step changes. *)

\* A send adds the message to the sent ones, loses no landed one and enqueues
\* only what landed.
LEMMA SendFacts ==
    ASSUME ConfirmTypeOK, Backed, NEW m \in Msgs, NEW held \in SUBSET sent,
           Send(m, held)
    PROVE  /\ sent' = sent \cup {m} /\ landed \subseteq landed'
           /\ landed' \subseteq sent' /\ composer' \subseteq sent'
           /\ enqueued' \subseteq [key : Keys, ids : SUBSET Msgs]
           /\ Backed'
<1> USE DEF ConfirmTypeOK, Backed
<1>1. held \cup {m} \in SUBSET Msgs
  OBVIOUS
<1>2. CASE Submits(m, held)
  <2>1. PICK x \in held \cup {m} :
          enqueued' = enqueued \cup {[key |-> KeyOf[x], ids |-> held \cup {m}]}
    BY <1>2 DEF Submits
  <2>2. KeyOf[x] \in Keys
    BY <1>1, ConfirmAssumption
  <2>3. [key |-> KeyOf[x], ids |-> held \cup {m}] \in [key : Keys, ids : SUBSET Msgs]
    BY <1>1, <2>2
  <2>4. /\ landed' = landed \cup held \cup {m} /\ composer' = {}
        /\ sent' = sent \cup {m}
    BY <1>2 DEF Submits
  <2>5. ASSUME NEW e \in enqueued' PROVE e.ids \subseteq landed'
    BY <2>1, <2>4
  <2> QED BY <2>1, <2>3, <2>4, <2>5
<1>3. CASE Strands(m, held)
  BY <1>3 DEF Strands
<1> QED BY <1>2, <1>3 DEF Send

\* The same of a send after clearing the composer.
LEMMA ClearedSendFacts ==
    ASSUME ConfirmTypeOK, Backed, NEW m \in Msgs, ClearedSend(m)
    PROVE  /\ sent' = sent \cup {m} /\ landed \subseteq landed'
           /\ landed' \subseteq sent' /\ composer' \subseteq sent'
           /\ enqueued' \subseteq [key : Keys, ids : SUBSET Msgs]
           /\ Backed'
<1>1. PICK held \in {{}, composer} : Send(m, held)
  BY DEF ClearedSend
<1>2. held \in SUBSET sent
  BY DEF ConfirmTypeOK
<1> QED BY <1>1, <1>2, SendFacts

-----------------------------------------------------------------------------
(* What the steps do to the queue.                                         *)

\* The queue's part of ConfirmTypeOK.
Queued ==
    /\ pending \in [Keys -> Entries]
    /\ \A k \in Keys : pending[k].msg # None =>
         pending[k].msg \in sent /\ KeyOf[pending[k].msg] = k

\* It is one of ConfirmTypeOK's conjuncts.
LEMMA TypeQueued == ConfirmTypeOK => Queued
BY DEF ConfirmTypeOK, Queued, Entries

\* Tracking a sent message keeps the queue typed.
LEMMA TrackKeeps ==
    ASSUME Queued, NEW n \in Msgs, sent \subseteq sent', n \in sent', pending' = Tracked(n)
    PROVE  Queued'
<1>1. /\ pending' \in [Keys -> Entries]
      /\ pending'[KeyOf[n]].msg = n
      /\ \A k \in Keys : k # KeyOf[n] => pending'[k] = pending[k]
  BY TrackedEntry DEF Queued
<1>2. ASSUME NEW k \in Keys, pending'[k].msg # None
      PROVE  pending'[k].msg \in sent' /\ KeyOf[pending'[k].msg] = k
  <2>1. CASE k = KeyOf[n]
    BY <1>1, <2>1
  <2>2. CASE k # KeyOf[n]
    BY <1>1, <1>2, <2>2 DEF Queued
  <2> QED BY <2>1, <2>2
<1> QED BY <1>1, <1>2 DEF Queued

\* So does forgetting a key.
LEMMA ForgetKeeps ==
    ASSUME Queued, NEW j \in Keys, sent \subseteq sent', pending' = Forgotten(j)
    PROVE  Queued'
<1>1. /\ pending' \in [Keys -> Entries]
      /\ pending'[j].msg = None
      /\ \A k \in Keys : k # j => pending'[k] = pending[k]
  BY ForgottenEntry DEF Queued
<1>2. ASSUME NEW k \in Keys, pending'[k].msg # None
      PROVE  pending'[k].msg \in sent' /\ KeyOf[pending'[k].msg] = k
  <2>1. k # j
    BY <1>1, <1>2
  <2> QED BY <1>1, <1>2, <2>1 DEF Queued
<1> QED BY <1>1, <1>2 DEF Queued

\* So does a change of clocks alone.
LEMMA ClockKeeps ==
    ASSUME Queued, sent' = sent, pending' \in [Keys -> Entries],
           \A k \in Keys : pending'[k].msg = pending[k].msg
    PROVE  Queued'
BY DEF Queued

-----------------------------------------------------------------------------
(* What a step owes.                                                       *)

\* A step that sends nothing keeps the promise if it keeps every debt.
LEMMA DebtsKept ==
    ASSUME LoneNeverDropped, sent' = sent, landed \subseteq landed',
           \A m \in sent \ landed : Alone(m) /\ Owed(m) => Owed(m)'
    PROVE  LoneNeverDropped'
BY DEF LoneNeverDropped, Alone

\* A step that sends n keeps it if n is owed unless it has a rival, and the debts
\* of the other keys are kept.
LEMMA SendKeepsDebts ==
    ASSUME LoneNeverDropped, NEW n \in Msgs, sent' = sent \cup {n}, landed \subseteq landed',
           Alone(n)' => Owed(n)',
           \A m \in sent \ landed : KeyOf[m] # KeyOf[n] /\ Owed(m) => Owed(m)'
    PROVE  LoneNeverDropped'
<1>1. SUFFICES ASSUME NEW m \in sent' \ landed', Alone(m)'
               PROVE  Owed(m)'
  BY DEF LoneNeverDropped
<1>2. CASE m = n
  BY <1>1, <1>2
<1>3. CASE m # n
  <2>1. m \in sent \ landed /\ KeyOf[m] # KeyOf[n] /\ Alone(m)
    BY <1>1, <1>3 DEF Alone
  <2> QED BY <2>1 DEF LoneNeverDropped
<1> QED BY <1>2, <1>3

-----------------------------------------------------------------------------
(* The invariant.                                                          *)

\* ConfirmInv holds initially.
LEMMA InvInit == Init => ConfirmInv
<1> SUFFICES ASSUME Init PROVE ConfirmInv
  OBVIOUS
<1>1. pending \in [Keys -> [msg : Msgs \cup {None}, age : 0..Timeout]]
  BY ConfirmAssumption DEF Init, Untracked
<1>2. \A k \in Keys : pending[k].msg = None
  BY DEF Init, Untracked
<1>3. ConfirmTypeOK
  <2>1. bridge \in BOOLEAN /\ gate \in BOOLEAN /\ turn \in BOOLEAN /\ cards \subseteq Keys
    BY Zenon DEF Init
  <2>2. buffer \in Seq(Msgs) /\ draining \in Seq(Msgs)
    BY DEF Init
  <2>3. /\ awaiting \subseteq sent /\ composer \subseteq sent /\ landed \subseteq sent
        /\ sent \cup clearing \subseteq arrived /\ arrived \subseteq Msgs
        /\ enqueued \subseteq [key : Keys, ids : SUBSET Msgs]
    BY DEF Init
  <2> QED BY <1>1, <1>2, <2>1, <2>2, <2>3 DEF ConfirmTypeOK
<1>4. Backed /\ Known /\ LoneNeverDropped
  BY DEF Init, Backed, Known, ToSet, LoneNeverDropped
<1> QED BY <1>3, <1>4 DEF ConfirmInv

\* The deliveries of handleInbound and of the drains keep it.
LEMMA DeliveriesKeep ==
    ASSUME ConfirmInv, NEW n \in Msgs,
           ArriveDecide(n) \/ ArriveDeliver(n) \/ ArriveMiss(n) \/ ArriveBuffer(n)
    PROVE  ConfirmInv'
<1> USE DEF ConfirmInv, gateVars, cliVars
<1>q. Queued
  BY TypeQueued
<1>1. CASE ArriveDecide(n)
  <2> USE <1>1 DEF ArriveDecide
  <2>1. ConfirmTypeOK'
    BY DEF ConfirmTypeOK
  <2>2. Backed'
    BY DEF Backed
  <2>3. LoneNeverDropped'
    BY DebtsKept DEF Owed
  <2>4. Known'
    BY DEF Known
  <2> QED BY <2>1, <2>2, <2>3, <2>4
<1>2. CASE ArriveDeliver(n)
  <2> USE <1>2 DEF ArriveDeliver
  <2>1. /\ sent' = sent \cup {n} /\ landed \subseteq landed'
        /\ landed' \subseteq sent' /\ composer' \subseteq sent'
        /\ enqueued' \subseteq [key : Keys, ids : SUBSET Msgs]
        /\ Backed'
    BY ClearedSendFacts
  <2>2. Queued'
    BY <1>q, <2>1, TrackKeeps
  <2>3. ConfirmTypeOK'
    BY <2>1, <2>2 DEF ConfirmTypeOK, Queued, Entries
  <2>4. /\ pending'[KeyOf[n]].msg = n
        /\ \A k \in Keys : k # KeyOf[n] => pending'[k] = pending[k]
    BY <1>q, TrackedEntry DEF Queued
  <2>5. \A m \in sent \ landed : KeyOf[m] # KeyOf[n] /\ Owed(m) => Owed(m)'
    BY <2>4, ConfirmAssumption DEF Owed, ConfirmTypeOK
  <2>6. LoneNeverDropped'
    BY <2>1, <2>4, <2>5, SendKeepsDebts DEF Owed
  <2>7. Known'
    BY DEF Known
  <2> QED BY <2>1, <2>3, <2>6, <2>7
<1>3. CASE ArriveMiss(n) \/ ArriveBuffer(n)
  <2> USE <1>3 DEF ArriveMiss, ArriveBuffer
  <2>0. buffer' = Append(buffer, n) /\ buffer \in Seq(Msgs) /\ n \in arrived'
    BY DEF ConfirmTypeOK
  <2>1. buffer' \in Seq(Msgs) /\ ToSet(buffer') = ToSet(buffer) \cup {n}
    BY <2>0, AppendMembers
  <2>2. ConfirmTypeOK'
    BY <2>1 DEF ConfirmTypeOK
  <2>3. Backed'
    BY DEF Backed
  <2>4. \A m \in sent \ landed : Owed(m) => Owed(m)'
    BY <2>1 DEF Owed
  <2>5. LoneNeverDropped'
    BY <2>4, DebtsKept
  <2>6. Known'
    BY <2>0, <2>1 DEF Known
  <2> QED BY <2>2, <2>3, <2>5, <2>6
<1> QED BY <1>1, <1>2, <1>3

\* The drain's loop keeps it.
LEMMA DrainKeeps ==
    ASSUME ConfirmInv, DrainStart \/ DrainSend
    PROVE  ConfirmInv'
<1> USE DEF ConfirmInv, gateVars, cliVars
<1>q. Queued
  BY TypeQueued
<1>1. CASE DrainStart
  <2> USE <1>1 DEF DrainStart, Quiet
  <2>1. ConfirmTypeOK'
    BY DEF ConfirmTypeOK
  <2>2. Backed'
    BY DEF Backed
  <2>3. \A m \in sent \ landed : Owed(m) => Owed(m)'
    BY DEF Owed, ToSet
  <2>4. LoneNeverDropped'
    BY <2>3, DebtsKept
  <2>5. Known'
    BY DEF Known, ToSet
  <2> QED BY <2>1, <2>2, <2>4, <2>5
<1>2. CASE DrainSend
  <2> DEFINE n == Head(draining)
  <2> USE <1>2 DEF DrainSend
  <2>0. /\ n \in Msgs /\ draining' \in Seq(Msgs)
        /\ ToSet(draining) = {n} \cup ToSet(draining')
        /\ n \in arrived
    BY HeadTailMembers DEF ConfirmTypeOK, Known
  <2>c. composer \in SUBSET sent
    BY DEF ConfirmTypeOK
  <2> HIDE DEF n
  <2>s. Send(n, composer) /\ pending' = Tracked(n) /\ draining # <<>>
    BY DEF n
  <2>1. /\ sent' = sent \cup {n} /\ landed \subseteq landed'
        /\ landed' \subseteq sent' /\ composer' \subseteq sent'
        /\ enqueued' \subseteq [key : Keys, ids : SUBSET Msgs]
        /\ Backed'
    BY <2>0, <2>c, <2>s, SendFacts
  <2>2. Queued'
    BY <1>q, <2>0, <2>s, <2>1, TrackKeeps
  <2>3. ConfirmTypeOK'
    BY <2>0, <2>1, <2>2 DEF ConfirmTypeOK, Queued, Entries
  <2>4. /\ pending'[KeyOf[n]].msg = n
        /\ \A k \in Keys : k # KeyOf[n] => pending'[k] = pending[k]
    BY <1>q, <2>0, <2>s, TrackedEntry DEF Queued
  <2>5. \A m \in sent \ landed : KeyOf[m] # KeyOf[n] /\ Owed(m) => Owed(m)'
    BY <2>0, <2>4, ConfirmAssumption DEF Owed, ConfirmTypeOK
  <2>6. LoneNeverDropped'
    BY <2>0, <2>1, <2>4, <2>5, SendKeepsDebts DEF Owed
  <2>7. Known'
    BY <2>0 DEF Known
  <2> QED BY <2>1, <2>3, <2>6, <2>7
<1> QED BY <1>1, <1>2

\* The sweep and its re-deliveries keep it.
LEMMA SweepKeeps ==
    ASSUME ConfirmInv, Sweep \/ \E m \in Msgs : Redeliver(m) \/ HandBack(m)
    PROVE  ConfirmInv'
<1> USE DEF ConfirmInv, gateVars, cliVars
<1>q. Queued
  BY TypeQueued
<1>1. CASE Sweep
  <2> USE <1>1 DEF Sweep
  <2>1. pending' \in [Keys -> Entries] /\ \A k \in Keys : pending'[k].msg = pending[k].msg
    <3>1. 0 \in 0..Timeout
      BY ConfirmAssumption
    <3> QED BY <1>q, <3>1, AgedEntry DEF Swept, Queued
  <2>2. Queued'
    BY <1>q, <2>1, ClockKeeps
  <2>3. awaiting \subseteq awaiting' /\ awaiting' \subseteq sent
    BY <1>q DEF Due, Queued, ConfirmTypeOK
  <2>4. ConfirmTypeOK'
    BY <2>2, <2>3 DEF ConfirmTypeOK, Queued, Entries
  <2>5. Backed' /\ Known'
    BY DEF Backed, Known
  <2>6. \A m \in sent \ landed : Owed(m) => Owed(m)'
    BY <2>1, <2>3, ConfirmAssumption DEF Owed, ConfirmTypeOK
  <2>7. LoneNeverDropped'
    BY <2>6, DebtsKept
  <2> QED BY <2>4, <2>5, <2>7
<1>2. ASSUME NEW n \in Msgs, Redeliver(n) PROVE ConfirmInv'
  <2> USE <1>2 DEF Redeliver
  <2>0. n \in sent /\ KeyOf[n] \in Keys
    BY ConfirmAssumption DEF ConfirmTypeOK
  <2>1. /\ sent' = sent \cup {n} /\ landed \subseteq landed'
        /\ landed' \subseteq sent' /\ composer' \subseteq sent'
        /\ enqueued' \subseteq [key : Keys, ids : SUBSET Msgs]
        /\ Backed'
    BY ClearedSendFacts
  <2>2. CASE pending[KeyOf[n]].msg = None
    <3>1. pending' = Tracked(n)
      BY <2>2 DEF Reaffirmed
    <3>2. Queued'
      BY <1>q, <2>1, <3>1, TrackKeeps
    <3>3. ConfirmTypeOK'
      BY <2>1, <3>2 DEF ConfirmTypeOK, Queued, Entries
    <3>4. /\ pending'[KeyOf[n]].msg = n
          /\ \A k \in Keys : k # KeyOf[n] => pending'[k] = pending[k]
      BY <1>q, <3>1, TrackedEntry DEF Queued
    <3>5. \A m \in sent \ landed : KeyOf[m] # KeyOf[n] /\ Owed(m) => Owed(m)'
      BY <3>4, ConfirmAssumption DEF Owed, ConfirmTypeOK
    <3>6. LoneNeverDropped'
      BY <2>1, <3>4, <3>5, SendKeepsDebts DEF Owed
    <3> QED BY <2>1, <3>3, <3>6 DEF Known
  <2>3. CASE pending[KeyOf[n]].msg # None
    <3>1. pending' = pending
      BY <2>3 DEF Reaffirmed
    <3>2. ConfirmTypeOK'
      BY <2>0, <2>1, <3>1 DEF ConfirmTypeOK
    <3>3. Alone(n)' => Owed(n)'
      \* a rival of n is tracked, or n is
      BY <1>q, <2>0, <2>1, <2>3, <3>1 DEF Alone, Owed, Queued
    <3>4. \A m \in sent \ landed : KeyOf[m] # KeyOf[n] /\ Owed(m) => Owed(m)'
      BY <3>1 DEF Owed
    <3>5. LoneNeverDropped'
      BY <2>1, <3>3, <3>4, SendKeepsDebts
    <3> QED BY <2>1, <3>2, <3>5 DEF Known
  <2> QED BY <2>2, <2>3
<1>3. ASSUME NEW n \in Msgs, HandBack(n) PROVE ConfirmInv'
  <2> USE <1>3 DEF HandBack
  <2>0. n \in sent /\ n \in arrived /\ KeyOf[n] \in Keys /\ buffer \in Seq(Msgs)
    BY ConfirmAssumption DEF ConfirmTypeOK
  <2>1. buffer' \in Seq(Msgs) /\ ToSet(buffer') = ToSet(buffer) \cup {n}
    BY <2>0, AppendMembers
  <2>2. Queued'
    BY <1>q, <2>0, ForgetKeeps
  <2>3. ConfirmTypeOK'
    BY <2>1, <2>2 DEF ConfirmTypeOK, Queued, Entries
  <2>4. Backed' /\ Known'
    BY <2>0, <2>1 DEF Backed, Known
  <2>5. \A k \in Keys : k # KeyOf[n] => pending'[k] = pending[k]
    BY <1>q, <2>0, ForgottenEntry DEF Queued
  <2>6. ASSUME NEW m \in sent \ landed, Alone(m), Owed(m) PROVE Owed(m)'
    <3>1. CASE KeyOf[m] = KeyOf[n]
      BY <2>0, <2>1, <2>6, <3>1 DEF Alone, Owed
    <3>2. CASE KeyOf[m] # KeyOf[n]
      BY <2>1, <2>5, <2>6, <3>2, ConfirmAssumption DEF Owed, ConfirmTypeOK
    <3> QED BY <3>1, <3>2
  <2>7. LoneNeverDropped'
    BY <2>6, DebtsKept
  <2> QED BY <2>3, <2>4, <2>7
<1> QED BY <1>1, <1>2, <1>3

\* An enqueue event acks only a message that landed.
LEMMA EnqueueKeeps ==
    ASSUME ConfirmInv, NEW e \in enqueued, Enqueue(e)
    PROVE  ConfirmInv'
<1> USE DEF ConfirmInv, Enqueue
<1>q. Queued
  BY TypeQueued
<1>0. e.key \in Keys /\ e.ids \subseteq landed
  BY DEF ConfirmTypeOK, Backed
<1>1. turn' \in BOOLEAN /\ gate' \in BOOLEAN
  BY Zenon
<1>2. Backed' /\ Known'
  BY DEF Backed, Known
<1>3. CASE pending[e.key].msg \in e.ids
  <2>1. pending' = Forgotten(e.key)
    BY <1>3 DEF Acked
  <2>2. Queued'
    BY <1>q, <1>0, <2>1, ForgetKeeps
  <2>3. ConfirmTypeOK'
    BY <1>1, <2>2 DEF ConfirmTypeOK, Queued, Entries
  <2>4. \A k \in Keys : k # e.key => pending'[k] = pending[k]
    BY <1>q, <1>0, <2>1, ForgottenEntry DEF Queued
  <2>5. ASSUME NEW m \in sent \ landed, Owed(m) PROVE Owed(m)'
    <3>1. KeyOf[m] \in Keys
      BY ConfirmAssumption DEF ConfirmTypeOK
    <3>2. CASE KeyOf[m] = e.key
      BY <1>0, <1>3, <2>5, <3>2 DEF Owed
    <3>3. CASE KeyOf[m] # e.key
      BY <2>4, <2>5, <3>1, <3>3 DEF Owed
    <3> QED BY <3>2, <3>3
  <2>6. LoneNeverDropped'
    BY <2>5, DebtsKept
  <2> QED BY <1>2, <2>3, <2>6
<1>4. CASE pending[e.key].msg \notin e.ids
  <2>1. pending' = pending
    BY <1>4 DEF Acked
  <2>2. ConfirmTypeOK'
    BY <1>1, <2>1 DEF ConfirmTypeOK
  <2>3. \A m \in sent \ landed : Owed(m) => Owed(m)'
    BY <2>1 DEF Owed
  <2>4. LoneNeverDropped'
    BY <2>3, DebtsKept
  <2> QED BY <1>2, <2>2, <2>4
<1> QED BY <1>3, <1>4

\* The steps that leave the queue's holders alone, or only pass time.
LEMMA SessionKeeps ==
    ASSUME ConfirmInv,
           \/ \E k \in Keys : Synthetic(k) \/ CardOpen(k) \/ CardClose(k)
           \/ TurnEnd \/ GateExpires \/ BridgeDown \/ BridgeUp \/ Elapse
    PROVE  ConfirmInv'
<1> USE DEF ConfirmInv, gateVars, queueVars, cliVars
<1>q. Queued
  BY TypeQueued
<1>1. ASSUME NEW k \in Keys, Synthetic(k) PROVE ConfirmInv'
  <2> USE <1>1 DEF Synthetic
  <2>1. enqueued' = enqueued \cup {[key |-> k, ids |-> {}]}
    OBVIOUS
  <2>2. [key |-> k, ids |-> {}] \in [key : Keys, ids : SUBSET Msgs]
    OBVIOUS
  <2>3. ConfirmTypeOK'
    BY <2>1, <2>2 DEF ConfirmTypeOK
  <2>4. Backed' /\ Known'
    BY <2>1 DEF Backed, Known
  <2>5. LoneNeverDropped'
    BY DebtsKept DEF Owed
  <2> QED BY <2>3, <2>4, <2>5
<1>2. ASSUME NEW k \in Keys, CardOpen(k) \/ CardClose(k) PROVE ConfirmInv'
  <2> USE <1>2 DEF CardOpen, CardClose
  <2>1. ConfirmTypeOK' /\ Backed' /\ Known'
    BY DEF ConfirmTypeOK, Backed, Known
  <2>2. LoneNeverDropped'
    BY DebtsKept DEF Owed
  <2> QED BY <2>1, <2>2
<1>3. CASE TurnEnd \/ GateExpires
  <2> USE <1>3 DEF TurnEnd, GateExpires
  <2>0. turn' \in BOOLEAN /\ gate' \in BOOLEAN
    BY Zenon DEF ConfirmTypeOK
  <2>1. ConfirmTypeOK' /\ Backed' /\ Known'
    BY <2>0 DEF ConfirmTypeOK, Backed, Known
  <2>2. LoneNeverDropped'
    BY DebtsKept DEF Owed
  <2> QED BY <2>1, <2>2
<1>4. CASE BridgeDown
  <2> USE <1>4 DEF BridgeDown
  <2>0. bridge' \in BOOLEAN /\ gate' \in BOOLEAN
    BY Zenon
  <2>1. ConfirmTypeOK' /\ Backed' /\ Known'
    BY <2>0 DEF ConfirmTypeOK, Backed, Known
  <2>2. LoneNeverDropped'
    BY DebtsKept DEF Owed
  <2> QED BY <2>1, <2>2
<1>5. CASE BridgeUp
  <2> USE <1>5 DEF BridgeUp, Quiet
  <2>0. bridge' \in BOOLEAN /\ gate' \in BOOLEAN
    BY Zenon
  <2>1. ConfirmTypeOK'
    BY <2>0 DEF ConfirmTypeOK
  <2>2. Backed' /\ Known'
    BY DEF Backed, Known, ToSet
  <2>3. \A m \in sent \ landed : Owed(m) => Owed(m)'
    BY DEF Owed, ToSet
  <2>4. LoneNeverDropped'
    BY <2>3, DebtsKept
  <2> QED BY <2>1, <2>2, <2>4
<1>6. CASE Elapse
  <2> USE <1>6 DEF Elapse
  <2>1. pending' \in [Keys -> Entries] /\ \A k \in Keys : pending'[k].msg = pending[k].msg
    <3>1. ASSUME NEW k \in Keys, pending[k].age < Timeout
          PROVE  pending[k].age + 1 \in 0..Timeout
      BY <1>q, <3>1, ConfirmAssumption DEF Queued, Entries
    <3>2. ASSUME NEW k \in Keys
          PROVE  pending'[k] \in Entries /\ pending'[k].msg = pending[k].msg
      <4>1. pending[k] \in Entries
        BY <1>q DEF Queued
      <4>2. CASE pending[k].msg # None /\ pending[k].age < Timeout
        <5>1. pending'[k] = [pending[k] EXCEPT !.age = pending[k].age + 1]
          BY <4>2
        <5> QED BY <3>1, <4>1, <4>2, <5>1, AgedEntry
      <4>3. CASE ~(pending[k].msg # None /\ pending[k].age < Timeout)
        BY <4>1, <4>3
      <4> QED BY <4>2, <4>3
    <3> QED BY <3>2
  <2>2. Queued'
    BY <1>q, <2>1, ClockKeeps
  <2>3. ConfirmTypeOK'
    BY <2>2 DEF ConfirmTypeOK, Queued, Entries
  <2>4. Backed' /\ Known'
    BY DEF Backed, Known
  <2>5. \A m \in sent \ landed : Owed(m) => Owed(m)'
    BY <2>1, ConfirmAssumption DEF Owed, ConfirmTypeOK
  <2>6. LoneNeverDropped'
    BY <2>5, DebtsKept
  <2> QED BY <2>3, <2>4, <2>6
<1> QED BY <1>1, <1>2, <1>3, <1>4, <1>5, <1>6

\* Every step keeps the invariant.
LEMMA InvStep == ConfirmInv /\ [Next]_vars => ConfirmInv'
<1> SUFFICES ASSUME ConfirmInv, [Next]_vars PROVE ConfirmInv'
  OBVIOUS
<1>1. CASE \E m \in Msgs : ArriveDecide(m) \/ ArriveDeliver(m) \/ ArriveMiss(m) \/ ArriveBuffer(m)
  BY <1>1, DeliveriesKeep
<1>2. CASE (\E m \in Msgs : Redeliver(m) \/ HandBack(m)) \/ Sweep
  BY <1>2, SweepKeeps
<1>3. CASE DrainStart \/ DrainSend
  BY <1>3, DrainKeeps
<1>4. CASE \E e \in enqueued : Enqueue(e)
  BY <1>4, EnqueueKeeps
<1>5. CASE \/ \E k \in Keys : Synthetic(k) \/ CardOpen(k) \/ CardClose(k)
           \/ TurnEnd \/ GateExpires \/ BridgeDown \/ BridgeUp \/ Elapse
  BY <1>5, SessionKeeps
<1>6. CASE UNCHANGED vars
  BY <1>6 DEF ConfirmInv, ConfirmTypeOK, Backed, Known, LoneNeverDropped, Alone, Owed,
     ToSet, vars, gateVars, queueVars, cliVars
<1> QED BY <1>1, <1>2, <1>3, <1>4, <1>5, <1>6 DEF Next

-----------------------------------------------------------------------------
(* The theorems.                                                           *)

\* The queue, the buffers and the CLI's side keep their types, and a key tracks
\* only sent messages of its own, for any keys and messages.
THEOREM ConfirmTypeCorrect == Spec => []ConfirmTypeOK
<1>1. ConfirmInv => ConfirmTypeOK
  BY DEF ConfirmInv
<1> QED BY <1>1, InvInit, InvStep, PTL DEF Spec

\* Deliver-until-acked keeps a message that has no rival in its chat: whatever acks,
\* awaits and bridge flaps interleave, it is tracked, about to be re-delivered or
\* buffered until it lands.
THEOREM LoneMessagesKept == Spec => []LoneNeverDropped
<1>1. ConfirmInv => LoneNeverDropped
  BY DEF ConfirmInv
<1> QED BY <1>1, InvInit, InvStep, PTL DEF Spec
=============================================================================
