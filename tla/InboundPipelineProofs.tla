------------------------ MODULE InboundPipelineProofs ------------------------
(***************************************************************************)
(* Safety of the inbound pipeline, for every set of ids, cap, group rule,  *)
(* number of crashes and of failed appends.  PipeInv says where a message  *)
(* can be; RepeatInv counts the sends still owed to it against the excuses *)
(* for a repeat; SpoolBacked says that what a queue holds unsent is live   *)
(* in the spool, from which the refinement of InboundPromise follows.      *)
(***************************************************************************)
EXTENDS InboundPipeline, InboundSpoolProofs, SequenceTheorems,
        WellFoundedInduction

-----------------------------------------------------------------------------
(* Queues as sets.  Every queue holds an id at most once (Once), so a queue *)
(* is reasoned about as the set of its ids.                                 *)

Once(q) == \A i, j \in DOMAIN q : q[i] = q[j] => i = j

LEMMA EmptyQueue == <<>> \in Seq(Ids) /\ Once(<<>>) /\ ToSet(<<>>) = {}
BY DEF Once, ToSet

\* A queue's set of ids; a queue that is not empty has one.
LEMMA ToSetType ==
    ASSUME NEW q \in Seq(Ids)
    PROVE  ToSet(q) \subseteq Ids /\ (q # <<>> => ToSet(q) # {})
BY DEF ToSet

\* An id that is not yet in a queue is appended.
LEMMA AppendQueue ==
    ASSUME NEW q \in Seq(Ids), Once(q), NEW id \in Ids, id \notin ToSet(q)
    PROVE  /\ Append(q, id) \in Seq(Ids) /\ Once(Append(q, id))
           /\ Len(Append(q, id)) = Len(q) + 1
           /\ ToSet(Append(q, id)) = ToSet(q) \cup {id}
<1>1. /\ Append(q, id) \in Seq(Ids) /\ Len(Append(q, id)) = Len(q) + 1
      /\ DOMAIN Append(q, id) = 1..(Len(q) + 1) /\ DOMAIN q = 1..Len(q) /\ Len(q) \in Nat
      /\ \A i \in 1..Len(q) : Append(q, id)[i] = q[i]
      /\ Append(q, id)[Len(q) + 1] = id
  BY AppendProperties, LenProperties
<1>2. Once(Append(q, id))  BY <1>1 DEF Once, ToSet
<1>3. ToSet(Append(q, id)) = ToSet(q) \cup {id}
  <2>1. ASSUME NEW x \in ToSet(Append(q, id)) PROVE x \in ToSet(q) \cup {id}
    BY <1>1, <2>1 DEF ToSet
  <2>2. ASSUME NEW x \in ToSet(q) PROVE x \in ToSet(Append(q, id))
    <3>1. PICK i \in 1..Len(q) : x = q[i]  BY <1>1, <2>2 DEF ToSet
    <3>2. i \in DOMAIN Append(q, id) /\ Append(q, id)[i] = x  BY <1>1, <3>1
    <3> QED  BY <3>2 DEF ToSet
  <2>3. id \in ToSet(Append(q, id))  BY <1>1 DEF ToSet
  <2> QED  BY <2>1, <2>2, <2>3
<1> QED  BY <1>1, <1>2, <1>3

\* A slice of a queue, and the two halves of a queue cut after its n-th entry.
LEMMA SliceQueue ==
    ASSUME NEW q \in Seq(Ids), Once(q), NEW m \in 1..(Len(q) + 1), NEW n \in (m - 1)..Len(q)
    PROVE  /\ SubSeq(q, m, n) \in Seq(Ids) /\ Once(SubSeq(q, m, n))
           /\ Len(SubSeq(q, m, n)) = n - m + 1
           /\ ToSet(SubSeq(q, m, n)) = {q[i] : i \in m..n}
<1>1. DOMAIN q = 1..Len(q) /\ Len(q) \in Nat /\ \A i \in 1..Len(q) : q[i] \in Ids
  BY LenProperties, ElementOfSeq
<1>0. ASSUME NEW k \in 1..(n - m + 1)
      PROVE  m + k - 1 \in m..n /\ m + k - 1 \in 1..Len(q)
  <2>1. m \in Int /\ n \in Int /\ k \in Int /\ Len(q) \in Int  BY <1>1
  <2>2. 1 <= m /\ n <= Len(q) /\ 1 <= k /\ k <= n - m + 1  BY <1>1
  <2> QED  BY <2>1, <2>2
<1>2. /\ SubSeq(q, m, n) \in Seq(Ids) /\ Len(SubSeq(q, m, n)) = n - m + 1
      /\ \A i \in 1..(n - m + 1) : SubSeq(q, m, n)[i] = q[m + i - 1]
  <2>1. m \in Int /\ n \in Int /\ \A i \in m..n : q[i] \in Ids  BY <1>1
  <2> QED  BY <1>1, <2>1, SubSeqProperties
<1>3. DOMAIN SubSeq(q, m, n) = 1..(n - m + 1)  BY <1>2, LenProperties
<1>4. Once(SubSeq(q, m, n))
  <2> SUFFICES ASSUME NEW i \in 1..(n - m + 1), NEW j \in 1..(n - m + 1),
                      SubSeq(q, m, n)[i] = SubSeq(q, m, n)[j]
               PROVE  i = j
    BY <1>3 DEF Once
  <2>1. q[m + i - 1] = q[m + j - 1]  BY <1>2
  <2>2. m + i - 1 \in 1..Len(q) /\ m + j - 1 \in 1..Len(q)  BY <1>0
  <2>3. m + i - 1 = m + j - 1  BY <1>1, <2>1, <2>2 DEF Once
  <2> QED  BY <2>3
<1>5. ToSet(SubSeq(q, m, n)) = {q[i] : i \in m..n}
  <2>1. ASSUME NEW x \in ToSet(SubSeq(q, m, n)) PROVE \E i \in m..n : x = q[i]
    <3>1. PICK j \in 1..(n - m + 1) : x = SubSeq(q, m, n)[j]  BY <1>3, <2>1 DEF ToSet
    <3>2. x = q[m + j - 1] /\ m + j - 1 \in m..n  BY <1>0, <1>2, <3>1
    <3> QED  BY <3>2
  <2>2. ASSUME NEW i \in m..n PROVE q[i] \in ToSet(SubSeq(q, m, n))
    <3>1. i - m + 1 \in 1..(n - m + 1) /\ m + (i - m + 1) - 1 = i  BY <1>1
    <3>2. SubSeq(q, m, n)[i - m + 1] = q[i]  BY <1>2, <3>1
    <3> QED  BY <1>3, <3>1, <3>2 DEF ToSet
  <2> QED  BY <2>1, <2>2
<1> QED  BY <1>2, <1>4, <1>5

LEMMA CutQueue ==
    ASSUME NEW q \in Seq(Ids), Once(q), NEW n \in 0..Len(q)
    PROVE  /\ SubSeq(q, 1, n) \in Seq(Ids) /\ Once(SubSeq(q, 1, n))
           /\ SubSeq(q, n + 1, Len(q)) \in Seq(Ids) /\ Once(SubSeq(q, n + 1, Len(q)))
           /\ Len(SubSeq(q, 1, n)) = n /\ Len(SubSeq(q, n + 1, Len(q))) = Len(q) - n
           /\ ToSet(q) = ToSet(SubSeq(q, 1, n)) \cup ToSet(SubSeq(q, n + 1, Len(q)))
           /\ ToSet(SubSeq(q, 1, n)) \cap ToSet(SubSeq(q, n + 1, Len(q))) = {}
<1>1. DOMAIN q = 1..Len(q) /\ Len(q) \in Nat  BY LenProperties
<1>2. /\ SubSeq(q, 1, n) \in Seq(Ids) /\ Once(SubSeq(q, 1, n)) /\ Len(SubSeq(q, 1, n)) = n
      /\ ToSet(SubSeq(q, 1, n)) = {q[i] : i \in 1..n}
  <2>1. 1 \in 1..(Len(q) + 1) /\ n \in (1 - 1)..Len(q) /\ n - 1 + 1 = n  BY <1>1
  <2> QED  BY <2>1, SliceQueue
<1>3. /\ SubSeq(q, n + 1, Len(q)) \in Seq(Ids) /\ Once(SubSeq(q, n + 1, Len(q)))
      /\ Len(SubSeq(q, n + 1, Len(q))) = Len(q) - n
      /\ ToSet(SubSeq(q, n + 1, Len(q))) = {q[i] : i \in (n + 1)..Len(q)}
  <2>1. /\ n + 1 \in 1..(Len(q) + 1) /\ Len(q) \in ((n + 1) - 1)..Len(q)
        /\ Len(q) - (n + 1) + 1 = Len(q) - n
    BY <1>1
  <2> QED  BY <2>1, SliceQueue
<1>4. ToSet(q) = {q[i] : i \in 1..n} \cup {q[i] : i \in (n + 1)..Len(q)}
  BY <1>1 DEF ToSet
<1>5. {q[i] : i \in 1..n} \cap {q[i] : i \in (n + 1)..Len(q)} = {}
  <2> SUFFICES ASSUME NEW i \in 1..n, NEW j \in (n + 1)..Len(q), q[i] = q[j] PROVE FALSE
    OBVIOUS
  <2>1. i \in DOMAIN q /\ j \in DOMAIN q /\ i # j  BY <1>1
  <2> QED  BY <2>1 DEF Once
<1> QED  BY <1>2, <1>3, <1>4, <1>5

\* The head of a queue leaves it for good.
LEMMA TailQueue ==
    ASSUME NEW q \in Seq(Ids), Once(q), q # <<>>
    PROVE  /\ Tail(q) \in Seq(Ids) /\ Once(Tail(q)) /\ Len(Tail(q)) = Len(q) - 1
           /\ Head(q) \in Ids /\ Head(q) \in ToSet(q)
           /\ ToSet(Tail(q)) = ToSet(q) \ {Head(q)}
<1>1. Len(q) \in Nat \ {0} /\ DOMAIN q = 1..Len(q)  BY EmptySeq, LenProperties
<1>2. Tail(q) = SubSeq(q, 1 + 1, Len(q))  BY TailIsSubSeq
<1>3. Head(q) = q[1]  BY <1>1
<1>4. 1 \in 0..Len(q)  BY <1>1
<1>5. /\ Tail(q) \in Seq(Ids) /\ Once(Tail(q)) /\ Len(Tail(q)) = Len(q) - 1
      /\ ToSet(q) = ToSet(SubSeq(q, 1, 1)) \cup ToSet(Tail(q))
      /\ ToSet(SubSeq(q, 1, 1)) \cap ToSet(Tail(q)) = {}
  <2> DEFINE t == SubSeq(q, 1 + 1, Len(q))
  <2>1. /\ t \in Seq(Ids) /\ Once(t) /\ Len(t) = Len(q) - 1
        /\ ToSet(q) = ToSet(SubSeq(q, 1, 1)) \cup ToSet(t)
        /\ ToSet(SubSeq(q, 1, 1)) \cap ToSet(t) = {}
    BY <1>4, CutQueue
  <2>2. Tail(q) = t  BY <1>2
  <2> HIDE DEF t
  <2> QED  BY <2>1, <2>2
<1>6. ToSet(SubSeq(q, 1, 1)) = {q[1]}
  <2>1. 1 \in 1..(Len(q) + 1) /\ 1 \in (1 - 1)..Len(q)  BY <1>1
  <2>2. ToSet(SubSeq(q, 1, 1)) = {q[i] : i \in 1..1}  BY <2>1, SliceQueue
  <2> QED  BY <2>2
<1>7. Head(q) \in Ids  BY <1>1, <1>3, ElementOfSeq
<1> QED  BY <1>3, <1>5, <1>6, <1>7

\* push at the cap makes room first: the queue stays within the cap.
LEMMA EnqueueQueue ==
    ASSUME NEW q \in Seq(Ids), Once(q), NEW id \in Ids, id \notin ToSet(q), Len(q) <= Cap
    PROVE  /\ Enqueue(q, id) \in Seq(Ids) /\ Once(Enqueue(q, id)) /\ Len(Enqueue(q, id)) <= Cap
           /\ id \in ToSet(Enqueue(q, id)) /\ ToSet(Enqueue(q, id)) \subseteq ToSet(q) \cup {id}
<1>1. Len(q) \in Nat /\ Cap \in Nat \ {0}  BY LenProperties, PipelineAssumption
<1>2. CASE Len(q) >= Cap
  <2>1. q # <<>>  BY <1>1, <1>2
  <2>2. /\ Tail(q) \in Seq(Ids) /\ Once(Tail(q)) /\ Len(Tail(q)) = Len(q) - 1
        /\ ToSet(Tail(q)) = ToSet(q) \ {Head(q)}
    BY <2>1, TailQueue
  <2>3. Enqueue(q, id) = Append(Tail(q), id)  BY <1>2 DEF Enqueue
  <2>4. id \notin ToSet(Tail(q))  BY <2>2
  <2>5. /\ Append(Tail(q), id) \in Seq(Ids) /\ Once(Append(Tail(q), id))
        /\ Len(Append(Tail(q), id)) = Len(Tail(q)) + 1
        /\ ToSet(Append(Tail(q), id)) = ToSet(Tail(q)) \cup {id}
    BY <2>2, <2>4, AppendQueue
  <2> QED  BY <1>1, <1>2, <2>2, <2>3, <2>5
<1>3. CASE ~(Len(q) >= Cap)
  <2>1. Enqueue(q, id) = Append(q, id)  BY <1>3 DEF Enqueue
  <2> QED  BY <1>1, <1>3, <2>1, AppendQueue
<1> QED  BY <1>2, <1>3

\* A queue of distinct ids is as long as its set of ids is large.
LEMMA OnceCounts ==
    ASSUME NEW q \in Seq(Ids), Once(q)
    PROVE  Cardinality(ToSet(q)) = Len(q)
<1>1. Len(q) \in Nat /\ DOMAIN q = 1..Len(q) /\ q \in [1..Len(q) -> Ids]  BY LenProperties
<1>2. IsFiniteSet(1..Len(q)) /\ Cardinality(1..Len(q)) = Len(q)
  BY <1>1, FS_Interval
<1>3. q \in Bijection(1..Len(q), ToSet(q))
  <2>1. q \in [1..Len(q) -> ToSet(q)]  BY <1>1 DEF ToSet
  <2>2. \A i, j \in 1..Len(q) : q[i] = q[j] => i = j  BY <1>1 DEF Once
  <2>3. \A x \in ToSet(q) : \E i \in 1..Len(q) : q[i] = x  BY <1>1 DEF ToSet
  <2> QED  BY <2>1, <2>2, <2>3 DEF Bijection, Injection, Surjection, IsInjective
<1>4. ExistsBijection(1..Len(q), ToSet(q))  BY <1>3 DEF ExistsBijection
<1> QED  BY <1>2, <1>4, FS_Bijection

\* A non-empty set of positions has a last one.
LEMMA LastPosition ==
    ASSUME NEW L \in Nat, NEW P \in SUBSET (1..L), P # {}
    PROVE  \E n \in P : \A k \in P : k <= n
<1> DEFINE R == StrictSubsetOrdering(1..L)
           T == {k..L : k \in P}
<1>1. IsWellFoundedOn(R, FiniteSubsetsOf(1..L))  BY FS_StrictSubsetOrderingWellFounded
<1>2. T \subseteq FiniteSubsetsOf(1..L) /\ T # {}
  <2>1. ASSUME NEW k \in P PROVE k..L \in FiniteSubsetsOf(1..L)
    <3>1. IsFiniteSet(k..L)  BY FS_Interval
    <3> QED  BY <3>1 DEF FiniteSubsetsOf
  <2> QED  BY <2>1
<1>3. PICK x \in T : \A y \in T : ~(<<y, x>> \in R)
  <2> HIDE DEF R, T
  <2> QED  BY <1>1, <1>2, WFMin
<1>4. PICK n \in P : x = n..L  OBVIOUS
<1>5. ASSUME NEW k \in P, ~(k <= n) PROVE FALSE
  <2>1. /\ k..L \in SUBSET (1..L) /\ n..L \in SUBSET (1..L)
        /\ k..L \subseteq n..L /\ n \in n..L /\ n \notin k..L
    BY <1>5
  <2>2. <<k..L, n..L>> \in R  BY <2>1 DEF StrictSubsetOrdering
  <2>3. k..L \in T  OBVIOUS
  <2> QED  BY <1>3, <1>4, <2>2, <2>3
<1> QED  BY <1>5

\* planBufferedRedelivery's first group is a non-empty prefix that joins.
LEMMA GroupPrefix ==
    ASSUME NEW q \in Seq(Ids), q # <<>>
    PROVE  \E n \in 1..Len(q) : Joins(q, n) /\ Group(q) = SubSeq(q, 1, n)
<1> DEFINE P == {n \in 1..Len(q) : Joins(q, n)}
           Last(n) == Joins(q, n) /\ \A k \in 1..Len(q) : Joins(q, k) => k <= n
<1>1. Len(q) \in Nat \ {0}  BY EmptySeq, LenProperties
<1>2. 1 \in P  BY <1>1 DEF Joins
<1>3. PICK n \in P : \A k \in P : k <= n  BY <1>1, <1>2, LastPosition
<1>4. \E m \in 1..Len(q) : Last(m)  BY <1>3
<1>5. (CHOOSE m \in 1..Len(q) : Last(m)) \in 1..Len(q) /\ Last(CHOOSE m \in 1..Len(q) : Last(m))
  <2> HIDE DEF Last
  <2> QED  BY <1>4
<1> QED  BY <1>5 DEF Group

\* The boot replay pushes a run of distinct ids the file holds, within the cap.
LEMMA ReplayQueue ==
    ASSUME NEW s \in ReplayOrders
    PROVE  LET b == SubSeq(s, IF Len(s) > Cap THEN Len(s) - Cap + 1 ELSE 1, Len(s))
           IN  /\ b \in Seq(Ids) /\ Once(b) /\ Len(b) <= Cap
               /\ \A id \in ToSet(b) : id \in Ids /\ OnDisk(id)
<1> DEFINE n == Cardinality(Replayable)
           m == IF Len(s) > Cap THEN Len(s) - Cap + 1 ELSE 1
           b == SubSeq(s, m, Len(s))
<1>1. s \in [1..n -> Replayable] /\ ToSet(s) = Replayable  BY DEF ReplayOrders
<1>2. Replayable \subseteq Ids /\ \A id \in Replayable : OnDisk(id)  BY DEF Replayable
<1>3. IsFiniteSet(Replayable)  BY <1>2, SpoolAssumption, FS_Subset
<1>4. n \in Nat  BY <1>3, FS_CardinalityType
<1> HIDE DEF n
<1>5. s \in Seq(Ids) /\ Len(s) = n /\ DOMAIN s = 1..n  BY <1>1, <1>2, <1>4
<1>6. Once(s)
  <2>1. IsFiniteSet(1..n) /\ Cardinality(1..n) = n  BY <1>4, FS_Interval
  <2>2. Cardinality(1..n) = Cardinality(Replayable)  BY <2>1 DEF n
  <2>3. \A t \in Replayable : \E i \in 1..n : s[i] = t  BY <1>1, <1>5 DEF ToSet
  <2>4. s \in Surjection(1..n, Replayable)  BY <1>1, <2>3 DEF Surjection
  <2>5. s \in Injection(1..n, Replayable)
    BY <2>1, <2>2, <2>4, FS_SurjSameCardinalityImpliesInj
  <2> QED  BY <2>5 DEF Injection, IsInjective, Once
<1>7. m \in 1..(Len(s) + 1) /\ Len(s) \in (m - 1)..Len(s) /\ Len(s) - m + 1 <= Cap
  BY <1>4, <1>5, PipelineAssumption
<1>8. /\ b \in Seq(Ids) /\ Once(b) /\ Len(b) = Len(s) - m + 1
      /\ ToSet(b) = {s[i] : i \in m..Len(s)}
  <2> HIDE DEF m
  <2> QED  BY <1>5, <1>6, <1>7, SliceQueue
<1>9. \A id \in ToSet(b) : id \in Ids /\ OnDisk(id)
  <2> SUFFICES ASSUME NEW i \in m..Len(s) PROVE s[i] \in Ids /\ OnDisk(s[i])
    BY <1>8
  <2>1. i \in 1..n  BY <1>4, <1>5, <1>7
  <2> QED  BY <1>1, <1>2, <2>1
<1> HIDE DEF m, b
<1>10. Len(b) <= Cap  BY <1>7, <1>8
<1> QED  BY <1>8, <1>9, <1>10 DEF m, b

-----------------------------------------------------------------------------
(* The inductive invariant of the pipeline's state.                         *)

\* The queues a drain or a replay delivers from; a message in none of them and
\* not in the spool is out of the gateway's hands.
Queued    == ToSet(buffer) \cup ToSet(draining) \cup ToSet(missed)
Stored(id) == IsLive(id) \/ OnDisk(id)

\* Each queue holds an id once.
QueuesOK ==
    /\ buffer \in Seq(Ids) /\ Once(buffer) /\ Len(buffer) <= Cap
    /\ sending \in Seq(Ids) /\ Once(sending)
    /\ draining \in Seq(Ids) /\ Once(draining)
    /\ unacked \in Seq(Ids) /\ Once(unacked)
    /\ missed \in Seq(Ids) /\ Once(missed)

\* No two queues share an id.
Apart ==
    /\ ToSet(sending) \cap (Queued \cup ToSet(unacked)) = {}
    /\ ToSet(unacked) \cap Queued = {}
    /\ ToSet(buffer) \cap (ToSet(draining) \cup ToSet(missed)) = {}
    /\ ToSet(draining) \cap ToSet(missed) = {}

\* One handler at a time; what a sweep has still to drop is live.
OneThread ==
    /\ job # "drop"
    /\ missed = <<>> \/ unacked = <<>>
    /\ job = "sweep" => /\ draining = <<>> /\ unacked = <<>> /\ missed = <<>>
                        /\ \A id \in due \ cur : IsLive(id)

\* A message that has not arrived is nowhere, and one inside the pre-send await
\* has left no trace yet but its place in the order.
Untouched(id) == ~Stored(id) /\ delivered[id] = 0 /\ id \notin retracted

Fresh ==
    /\ \A id \in Ids : arrived[id] = NULL =>
          Untouched(id) /\ id \notin Queued \cup ToSet(unacked) \cup ToSet(sending)
    /\ \A id \in ToSet(sending) : Untouched(id)

Counters ==
    /\ arrived \in [Ids -> Int] /\ delivered \in [Ids -> Nat] /\ retracted \subseteq Ids
    /\ cutDrains \in Nat /\ cutDrains <= crashes

Flags == bridge \in BOOLEAN /\ inTurn \in BOOLEAN

PipeInv == QueuesOK /\ Apart /\ OneThread /\ Fresh /\ Counters

\* A put leaves every other entry of memory alone, and puts no other on disk that
\* memory did not hold.
LEMMA PutEffect ==
    ASSUME TypeOK, NEW id \in Ids, NEW out \in Outcomes, NEW cmp \in BOOLEAN,
           SpoolPut(id, out, cmp)
    PROVE  /\ IsLive(id)'
           /\ \A i \in Ids : i # id => /\ IsLive(i)' <=> IsLive(i)
                                       /\ OnDisk(i)' => Stored(i)
                                       /\ OnDisk(i)' /\ ~IsLive(i) => OnDisk(i)
<1> USE DEF Stored, IsLive, OnDisk
<1>1. CASE PutDuplicate(id)  BY <1>1 DEF PutDuplicate, memVars, fileVars
<1>2. CASE PutRecord(id, out, cmp)
  <2>1. PutEntry(id) \in Entry /\ PutEntry(id).firstAt # NULL
    BY Constants DEF PutEntry, TypeOK, Entry, NULL
  <2>2. live' = [live EXCEPT ![id] = PutEntry(id)] /\ live \in [Ids -> Entry] /\ disk \in [Ids -> Entry]
    BY <1>2 DEF PutRecord, TypeOK
  <2>3. disk' = live' \/ disk' = Recorded(id, PutEntry(id), out)
    BY <1>2 DEF PutRecord, Settle
  <2>4. \A i \in Ids : i # id => Recorded(id, PutEntry(id), out)[i] = disk[i]
    BY <2>2 DEF Recorded
  <2> QED  BY <2>1, <2>2, <2>3, <2>4
<1> QED  BY <1>1, <1>2 DEF SpoolPut

\* A tombstone removes its entry from memory and leaves every other alone.
LEMMA TombstoneEffect ==
    ASSUME TypeOK, NEW id \in Ids, NEW out \in Outcomes, NEW cmp,
           live' = [live EXCEPT ![id] = Absent],
           Settle(Recorded(id, Absent, out), escDisk, TornAfter(out), LinesAfter(out), cmp)
    PROVE  /\ ~IsLive(id)'
           /\ OnDisk(id)' => ~Landed(out)
           /\ \A i \in Ids : i # id => /\ IsLive(i)' <=> IsLive(i)
                                       /\ OnDisk(i)' => Stored(i)
                                       /\ OnDisk(i)' /\ ~IsLive(i) => OnDisk(i)
<1> USE DEF Stored, IsLive, OnDisk
<1>1. Absent.firstAt = NULL  BY DEF Absent
<1>2. live \in [Ids -> Entry] /\ disk \in [Ids -> Entry]  BY DEF TypeOK
<1>3. disk' = live' \/ disk' = Recorded(id, Absent, out)  BY DEF Settle
<1>4. \A i \in Ids : i # id => Recorded(id, Absent, out)[i] = disk[i]
  BY <1>2 DEF Recorded
<1>5. Landed(out) => Recorded(id, Absent, out)[id] = Absent  BY <1>2 DEF Recorded
<1> QED  BY <1>1, <1>2, <1>3, <1>4, <1>5

\* push: one more id in the buffer and in the spool, at most one fewer in the buffer.
LEMMA PushEffect ==
    ASSUME TypeOK, QueuesOK, NEW id \in Ids, id \notin ToSet(buffer),
           NEW out \in Outcomes, NEW cmp \in BOOLEAN, Push(id, out, cmp)
    PROVE  /\ buffer' \in Seq(Ids) /\ Once(buffer') /\ Len(buffer') <= Cap
           /\ id \in ToSet(buffer') /\ ToSet(buffer') \subseteq ToSet(buffer) \cup {id}
           /\ IsLive(id)'
           /\ \A i \in Ids : i # id => /\ IsLive(i)' <=> IsLive(i)
                                       /\ OnDisk(i)' => Stored(i)
                                       /\ OnDisk(i)' /\ ~IsLive(i) => OnDisk(i)
<1>1. buffer' = Enqueue(buffer, id) /\ SpoolPut(id, out, cmp)  BY DEF Push
<1>2. buffer \in Seq(Ids) /\ Once(buffer) /\ Len(buffer) <= Cap  BY DEF QueuesOK
<1>3. /\ buffer' \in Seq(Ids) /\ Once(buffer') /\ Len(buffer') <= Cap
      /\ id \in ToSet(buffer') /\ ToSet(buffer') \subseteq ToSet(buffer) \cup {id}
  BY <1>1, <1>2, EnqueueQueue
<1> QED  BY <1>1, <1>3, PutEffect

\* An arrival takes an id that was nowhere, and records its time.
LEMMA ArriveEffect ==
    ASSUME TypeOK, PipeInv, NEW id \in Ids, Arrive(id)
    PROVE  /\ job = "none" /\ draining = <<>> /\ unacked = <<>> /\ missed = <<>>
           /\ Untouched(id) /\ id \notin ToSet(buffer) /\ id \notin ToSet(sending)
           /\ arrived' = [arrived EXCEPT ![id] = now] /\ now \in Int
           /\ arrived' \in [Ids -> Int] /\ arrived'[id] # NULL
           /\ \A i \in Ids : arrived'[i] = NULL => arrived[i] = NULL /\ i # id
           /\ UNCHANGED <<job, due, cur, draining, unacked, missed, delivered, retracted,
                          cutDrains, crashes>>
<1>1. now \in Nat  BY DEF TypeOK
<1>2. arrived \in [Ids -> Int]  BY DEF PipeInv, Counters
<1>3. arrived[id] = NULL /\ arrived' = [arrived EXCEPT ![id] = now]  BY DEF Arrive
<1>4. Untouched(id) /\ id \notin ToSet(buffer) /\ id \notin ToSet(sending)
  BY <1>3 DEF PipeInv, Fresh, Queued
<1> QED  BY <1>1, <1>2, <1>3, <1>4 DEF Arrive, Idle, jobVars, NULL

\* A message that arrives during a turn goes to buffer and spool.
LEMMA ArriveMidTurnStep ==
    ASSUME TypeOK, PipeInv, NEW id \in Ids, NEW out \in Outcomes, NEW cmp \in BOOLEAN,
           ArriveMidTurn(id, out, cmp)
    PROVE  PipeInv'
<1>1. Arrive(id) /\ Push(id, out, cmp) /\ sending' = sending  BY DEF ArriveMidTurn
<1>2. /\ job = "none" /\ draining = <<>> /\ unacked = <<>> /\ missed = <<>>
      /\ Untouched(id) /\ id \notin ToSet(buffer) /\ id \notin ToSet(sending)
      /\ arrived' \in [Ids -> Int] /\ arrived'[id] # NULL
      /\ \A i \in Ids : arrived'[i] = NULL => arrived[i] = NULL /\ i # id
      /\ UNCHANGED <<job, due, cur, draining, unacked, missed, delivered, retracted,
                     cutDrains, crashes>>
  BY <1>1, ArriveEffect
<1>3. QueuesOK  BY DEF PipeInv
<1>4. /\ buffer' \in Seq(Ids) /\ Once(buffer') /\ Len(buffer') <= Cap
      /\ id \in ToSet(buffer') /\ ToSet(buffer') \subseteq ToSet(buffer) \cup {id}
      /\ \A i \in Ids : i # id => /\ IsLive(i)' <=> IsLive(i)
                                  /\ OnDisk(i)' => Stored(i)
  BY <1>1, <1>2, <1>3, PushEffect
<1>5. QueuesOK'  BY <1>1, <1>2, <1>4 DEF PipeInv, QueuesOK
<1>6. Apart'  BY <1>1, <1>2, <1>4 DEF PipeInv, Apart, Queued
<1>7. OneThread'  BY <1>2 DEF PipeInv, OneThread
<1>8. ToSet(sending) \subseteq Ids /\ ToSet(buffer) \subseteq Ids
  BY <1>3, ToSetType DEF QueuesOK
<1>9. \A i \in Ids : i # id /\ Untouched(i) => Untouched(i)'
  BY <1>2, <1>4 DEF Untouched, Stored
<1>10. Fresh'
  BY <1>1, <1>2, <1>4, <1>8, <1>9 DEF PipeInv, Fresh, Queued
<1>11. Counters'  BY <1>2 DEF PipeInv, Counters
<1> QED  BY <1>5, <1>6, <1>7, <1>10, <1>11 DEF PipeInv

\* A message that finds the gate open enters the pre-send await.
LEMMA ArriveFreshStep ==
    ASSUME TypeOK, PipeInv, NEW id \in Ids, ArriveFresh(id)
    PROVE  PipeInv'
<1>1. /\ Arrive(id) /\ sending' = Append(sending, id)
      /\ UNCHANGED <<live, disk, buffer>>
  BY DEF ArriveFresh, memVars, fileVars
<1>2. /\ job = "none" /\ draining = <<>> /\ unacked = <<>> /\ missed = <<>>
      /\ Untouched(id) /\ id \notin ToSet(buffer) /\ id \notin ToSet(sending)
      /\ arrived' \in [Ids -> Int] /\ arrived'[id] # NULL
      /\ \A i \in Ids : arrived'[i] = NULL => arrived[i] = NULL /\ i # id
      /\ UNCHANGED <<job, due, cur, draining, unacked, missed, delivered, retracted,
                     cutDrains, crashes>>
  BY <1>1, ArriveEffect
<1>3. QueuesOK  BY DEF PipeInv
<1>4. sending' \in Seq(Ids) /\ Once(sending') /\ ToSet(sending') = ToSet(sending) \cup {id}
  BY <1>1, <1>2, <1>3, AppendQueue DEF QueuesOK
<1>5. QueuesOK'  BY <1>1, <1>2, <1>3, <1>4 DEF QueuesOK
<1>6. ToSet(<<>>) = {}  BY EmptyQueue
<1>7. Apart'  BY <1>1, <1>2, <1>4, <1>6 DEF PipeInv, Apart, Queued
<1>8. OneThread'  BY <1>2 DEF PipeInv, OneThread
<1>9. \A i \in Ids : Untouched(i) => Untouched(i)'
  BY <1>1, <1>2 DEF Untouched, Stored, IsLive, OnDisk
<1>10. ToSet(sending) \subseteq Ids  BY <1>3, ToSetType DEF QueuesOK
<1>11. Fresh'
  BY <1>1, <1>2, <1>4, <1>9, <1>10 DEF PipeInv, Fresh, Queued
<1>12. Counters'  BY <1>2 DEF PipeInv, Counters
<1> QED  BY <1>5, <1>7, <1>8, <1>11, <1>12 DEF PipeInv

\* The await ends in a send: the message is delivered, and in no queue.
LEMMA SendFreshStep ==
    ASSUME TypeOK, PipeInv, SendFresh
    PROVE  PipeInv'
<1> DEFINE h == Head(sending)
<1>1. /\ sending # <<>> /\ sending' = Tail(sending)
      /\ delivered' = [delivered EXCEPT ![h] = @ + 1]
      /\ UNCHANGED <<live, disk, job, due, cur, crashes, buffer, draining, unacked, missed,
                     arrived, retracted, cutDrains>>
  BY DEF SendFresh, spoolVars, memVars, fileVars, jobVars, obsVars
<1>2. QueuesOK  BY DEF PipeInv
<1>3. /\ sending' \in Seq(Ids) /\ Once(sending') /\ h \in Ids /\ h \in ToSet(sending)
      /\ ToSet(sending') = ToSet(sending) \ {h}
  BY <1>1, <1>2, TailQueue DEF QueuesOK
<1> HIDE DEF h
<1>4. QueuesOK'  BY <1>1, <1>2, <1>3 DEF QueuesOK
<1>5. Apart'  BY <1>1, <1>3 DEF PipeInv, Apart, Queued
<1>6. OneThread'  BY <1>1 DEF PipeInv, OneThread, IsLive
<1>7. \A i \in Ids : i # h /\ Untouched(i) => Untouched(i)'
  BY <1>1, <1>3 DEF PipeInv, Counters, Untouched, Stored, IsLive, OnDisk
<1>8. ToSet(sending) \subseteq Ids  BY <1>2, ToSetType DEF QueuesOK
<1>9. Fresh'
  BY <1>1, <1>3, <1>7, <1>8 DEF PipeInv, Fresh, Queued
<1>10. Counters'  BY <1>1, <1>3 DEF PipeInv, Counters
<1> QED  BY <1>4, <1>5, <1>6, <1>9, <1>10 DEF PipeInv

\* The await ends without a bridge: the message is pushed.
LEMMA SendMissStep ==
    ASSUME TypeOK, PipeInv, NEW out \in Outcomes, NEW cmp \in BOOLEAN, SendMiss(out, cmp)
    PROVE  PipeInv'
<1> DEFINE h == Head(sending)
<1>1. /\ sending # <<>> /\ sending' = Tail(sending) /\ Push(h, out, cmp) /\ job = "none"
      /\ UNCHANGED <<job, due, cur, crashes, draining, unacked, missed,
                     arrived, delivered, retracted, cutDrains>>
  BY DEF SendMiss, Idle, jobVars, seenVars
<1>2. QueuesOK  BY DEF PipeInv
<1>3. /\ sending' \in Seq(Ids) /\ Once(sending') /\ h \in Ids /\ h \in ToSet(sending)
      /\ ToSet(sending') = ToSet(sending) \ {h}
  BY <1>1, <1>2, TailQueue DEF QueuesOK
<1> HIDE DEF h
<1>4. h \notin ToSet(buffer)  BY <1>3 DEF PipeInv, Apart, Queued
<1>5. /\ buffer' \in Seq(Ids) /\ Once(buffer') /\ Len(buffer') <= Cap
      /\ ToSet(buffer') \subseteq ToSet(buffer) \cup {h}
      /\ \A i \in Ids : i # h => /\ IsLive(i)' <=> IsLive(i)
                                 /\ OnDisk(i)' => Stored(i)
  BY <1>1, <1>2, <1>3, <1>4, PushEffect
<1>6. QueuesOK'  BY <1>1, <1>2, <1>3, <1>5 DEF QueuesOK
<1>7. Apart'  BY <1>1, <1>3, <1>5 DEF PipeInv, Apart, Queued
<1>8. OneThread'  BY <1>1 DEF PipeInv, OneThread
<1>9. \A i \in Ids : i # h /\ Untouched(i) => Untouched(i)'
  BY <1>1, <1>5 DEF Untouched, Stored
<1>10. ToSet(sending) \subseteq Ids  BY <1>2, ToSetType DEF QueuesOK
<1>11. Fresh'
  BY <1>1, <1>3, <1>5, <1>9, <1>10 DEF PipeInv, Fresh, Queued
<1>12. Counters'  BY <1>1 DEF PipeInv, Counters
<1> QED  BY <1>6, <1>7, <1>8, <1>11, <1>12 DEF PipeInv

\* Steps that only move ids from the buffer into a drain, or nothing at all.
LEMMA HandOverStep ==
    ASSUME TypeOK, PipeInv,
           UNCHANGED <<live, disk, job, due, cur, crashes, sending, unacked, missed,
                       arrived, delivered, retracted, cutDrains>>,
           \/ UNCHANGED <<buffer, draining>>
           \/ Idle /\ buffer' = <<>> /\ draining' = buffer
    PROVE  PipeInv'
<1>1. <<>> \in Seq(Ids) /\ Once(<<>>) /\ ToSet(<<>>) = {} /\ Len(<<>>) = 0  BY EmptyQueue
<1>2. Cap \in Nat /\ 0 <= Cap  BY PipelineAssumption
<1>3. QueuesOK'  BY <1>1, <1>2 DEF PipeInv, QueuesOK, Idle
<1>4. Apart'  BY <1>1 DEF PipeInv, Apart, Queued, Idle
<1>5. OneThread'  BY DEF PipeInv, OneThread, IsLive, Idle
<1>6. Queued' = Queued  BY <1>1 DEF Queued, Idle
<1>7. \A i \in Ids : Untouched(i) => Untouched(i)'  BY DEF Untouched, Stored, IsLive, OnDisk
<1>8. ToSet(sending) \subseteq Ids  BY ToSetType DEF PipeInv, QueuesOK
<1>9. Fresh'  BY <1>6, <1>7, <1>8 DEF PipeInv, Fresh
<1>10. Counters'  BY DEF PipeInv, Counters
<1> QED  BY <1>3, <1>4, <1>5, <1>9, <1>10 DEF PipeInv

\* The next group of a drain: a non-empty part of what it has still to send.
LEMMA GroupCut ==
    ASSUME NEW q \in Seq(Ids), Once(q), q # <<>>
    PROVE  LET g == Group(q)
               t == SubSeq(q, Len(g) + 1, Len(q))
           IN  /\ g \in Seq(Ids) /\ Once(g) /\ ToSet(g) # {}
               /\ t \in Seq(Ids) /\ Once(t)
               /\ ToSet(q) = ToSet(g) \cup ToSet(t) /\ ToSet(g) \cap ToSet(t) = {}
<1>1. PICK n \in 1..Len(q) : Group(q) = SubSeq(q, 1, n)  BY GroupPrefix
<1>2. n \in 0..Len(q) /\ Len(q) \in Nat  BY LenProperties
<1>3. /\ SubSeq(q, 1, n) \in Seq(Ids) /\ Once(SubSeq(q, 1, n))
      /\ SubSeq(q, n + 1, Len(q)) \in Seq(Ids) /\ Once(SubSeq(q, n + 1, Len(q)))
      /\ Len(SubSeq(q, 1, n)) = n
      /\ ToSet(q) = ToSet(SubSeq(q, 1, n)) \cup ToSet(SubSeq(q, n + 1, Len(q)))
      /\ ToSet(SubSeq(q, 1, n)) \cap ToSet(SubSeq(q, n + 1, Len(q))) = {}
  BY <1>2, CutQueue
<1>4. SubSeq(q, 1, n) # <<>>  BY <1>2, <1>3
<1>5. ToSet(SubSeq(q, 1, n)) # {}  BY <1>3, <1>4, ToSetType
<1> QED  BY <1>1, <1>3, <1>5

\* A drain sends its next group.
LEMMA DrainSendEffect ==
    ASSUME QueuesOK, DrainSend
    PROVE  /\ unacked' \in Seq(Ids) /\ Once(unacked') /\ ToSet(unacked') # {}
           /\ draining' \in Seq(Ids) /\ Once(draining')
           /\ ToSet(draining) = ToSet(unacked') \cup ToSet(draining')
           /\ ToSet(unacked') \cap ToSet(draining') = {}
           /\ unacked = <<>> /\ missed = <<>> /\ draining # <<>> /\ job = "none"
           /\ delivered' = [i \in Ids |-> delivered[i] + (IF i \in ToSet(unacked') THEN 1 ELSE 0)]
           /\ UNCHANGED <<live, disk, escDisk, esc, torn, faults, job, due, cur, crashes, buffer,
                          sending, missed, arrived, retracted, cutDrains>>
<1>1. /\ draining \in Seq(Ids) /\ Once(draining) /\ draining # <<>>  BY DEF QueuesOK, DrainSend
<1>2. /\ unacked' = Group(draining)
      /\ draining' = SubSeq(draining, Len(Group(draining)) + 1, Len(draining))
      /\ delivered' = [i \in Ids |-> delivered[i] + (IF i \in ToSet(unacked') THEN 1 ELSE 0)]
  BY DEF DrainSend
<1>3. /\ unacked = <<>> /\ missed = <<>> /\ draining # <<>> /\ job = "none"
      /\ UNCHANGED <<live, disk, escDisk, esc, torn, faults, job, due, cur, crashes, buffer,
                     sending, missed, arrived, retracted, cutDrains>>
  BY DEF DrainSend, spoolVars, memVars, fileVars, jobVars, obsVars
<1> QED  BY <1>1, <1>2, <1>3, GroupCut

\* A drain's next group misses the bridge.
LEMMA DrainMissEffect ==
    ASSUME QueuesOK, DrainMiss
    PROVE  /\ missed' \in Seq(Ids) /\ Once(missed')
           /\ draining' \in Seq(Ids) /\ Once(draining')
           /\ ToSet(draining) = ToSet(missed') \cup ToSet(draining')
           /\ ToSet(missed') \cap ToSet(draining') = {}
           /\ unacked = <<>> /\ missed = <<>> /\ job = "none"
           /\ UNCHANGED <<live, disk, torn, faults, job, due, cur, crashes, buffer, sending,
                          unacked, arrived, delivered, retracted, cutDrains>>
<1>1. /\ draining \in Seq(Ids) /\ Once(draining) /\ draining # <<>>  BY DEF QueuesOK, DrainMiss
<1>2. /\ missed' = Group(draining)
      /\ draining' = SubSeq(draining, Len(Group(draining)) + 1, Len(draining))
  BY DEF DrainMiss
<1>3. /\ unacked = <<>> /\ missed = <<>> /\ job = "none"
      /\ UNCHANGED <<live, disk, torn, faults, job, due, cur, crashes, buffer, sending,
                     unacked, arrived, delivered, retracted, cutDrains>>
  BY DEF DrainMiss, spoolVars, memVars, fileVars, jobVars, obsVars, seenVars
<1> QED  BY <1>1, <1>2, <1>3, GroupCut

\* A missed group waits to be pushed back.
LEMMA DrainMissStep ==
    ASSUME TypeOK, PipeInv, DrainMiss
    PROVE  PipeInv'
<1>1. QueuesOK  BY DEF PipeInv
<1>2. /\ missed' \in Seq(Ids) /\ Once(missed')
      /\ draining' \in Seq(Ids) /\ Once(draining')
      /\ ToSet(draining) = ToSet(missed') \cup ToSet(draining')
      /\ ToSet(missed') \cap ToSet(draining') = {}
      /\ unacked = <<>> /\ missed = <<>> /\ job = "none"
      /\ UNCHANGED <<live, disk, job, due, cur, crashes, buffer, sending,
                     unacked, arrived, delivered, retracted, cutDrains>>
  BY <1>1, DrainMissEffect
<1>3. QueuesOK'  BY <1>1, <1>2 DEF QueuesOK
<1>4. Queued' = Queued  BY <1>2, EmptyQueue DEF Queued
<1>5. Apart'  BY <1>2, <1>4, EmptyQueue DEF PipeInv, Apart
<1>6. OneThread'  BY <1>2 DEF PipeInv, OneThread
<1>7. \A i \in Ids : Untouched(i) => Untouched(i)'  BY <1>2 DEF Untouched, Stored, IsLive, OnDisk
<1>8. ToSet(sending) \subseteq Ids  BY <1>1, ToSetType DEF QueuesOK
<1>9. Fresh'  BY <1>2, <1>4, <1>7, <1>8 DEF PipeInv, Fresh
<1>10. Counters'  BY <1>2 DEF PipeInv, Counters
<1> QED  BY <1>3, <1>5, <1>6, <1>9, <1>10 DEF PipeInv

\* A drain sends a group and owes the acks of its originals.
LEMMA DrainSendStep ==
    ASSUME TypeOK, PipeInv, DrainSend
    PROVE  PipeInv'
<1>1. QueuesOK  BY DEF PipeInv
<1>2. /\ unacked' \in Seq(Ids) /\ Once(unacked') /\ ToSet(unacked') # {}
      /\ draining' \in Seq(Ids) /\ Once(draining')
      /\ ToSet(draining) = ToSet(unacked') \cup ToSet(draining')
      /\ ToSet(unacked') \cap ToSet(draining') = {}
      /\ unacked = <<>> /\ missed = <<>> /\ draining # <<>> /\ job = "none"
      /\ delivered' = [i \in Ids |-> delivered[i] + (IF i \in ToSet(unacked') THEN 1 ELSE 0)]
      /\ UNCHANGED <<live, disk, job, due, cur, crashes, buffer,
                     sending, missed, arrived, retracted, cutDrains>>
  BY <1>1, DrainSendEffect
<1>3. QueuesOK'  BY <1>1, <1>2 DEF QueuesOK
<1>4. Apart'
  <2>1. missed = <<>> /\ ToSet(<<>>) = {}  BY <1>2, EmptyQueue
  <2> QED  BY <1>2, <2>1 DEF PipeInv, Apart, Queued
<1>5. OneThread'  BY <1>2 DEF PipeInv, OneThread
<1>6. \A i \in Ids : i \notin ToSet(draining) /\ Untouched(i) => Untouched(i)'
  BY <1>2 DEF PipeInv, Counters, Untouched, Stored, IsLive, OnDisk
<1>7. ToSet(sending) \subseteq Ids  BY <1>1, ToSetType DEF QueuesOK
<1>8. Fresh'  BY <1>2, <1>6, <1>7 DEF PipeInv, Fresh, Apart, Queued
<1>9. Counters'
  <2>1. delivered' \in [Ids -> Nat]  BY <1>2 DEF PipeInv, Counters
  <2> QED  BY <1>2, <2>1 DEF PipeInv, Counters
<1> QED  BY <1>3, <1>4, <1>5, <1>8, <1>9 DEF PipeInv

\* An ack removes at most its own entry from memory.
LEMMA AckEffect ==
    ASSUME TypeOK, NEW id \in Ids, NEW out \in Outcomes, NEW cmp \in BOOLEAN,
           SpoolAck(id, out, cmp)
    PROVE  /\ ~IsLive(id)'
           /\ \A i \in Ids : i # id => /\ IsLive(i)' <=> IsLive(i)
                                       /\ OnDisk(i)' => Stored(i)
                                       /\ OnDisk(i)' /\ ~IsLive(i) => OnDisk(i)
<1>1. CASE AckUnknown(id)
  BY <1>1 DEF AckUnknown, memVars, fileVars, Stored, IsLive, OnDisk
<1>2. CASE AckRecord(id, out, cmp)
  BY <1>2, TombstoneEffect DEF AckRecord
<1> QED  BY <1>1, <1>2 DEF SpoolAck

\* One original of a sent group is acked.
LEMMA DrainAckStep ==
    ASSUME TypeOK, PipeInv, NEW out \in Outcomes, NEW cmp \in BOOLEAN, DrainAck(out, cmp)
    PROVE  PipeInv'
<1> DEFINE h == Head(unacked)
<1>1. /\ unacked # <<>> /\ unacked' = Tail(unacked) /\ SpoolAck(h, out, cmp)
      /\ UNCHANGED <<job, due, cur, crashes, buffer, sending, draining, missed,
                     arrived, delivered, retracted, cutDrains>>
  BY DEF DrainAck, jobVars, seenVars
<1>2. QueuesOK  BY DEF PipeInv
<1>3. /\ unacked' \in Seq(Ids) /\ Once(unacked') /\ h \in Ids /\ h \in ToSet(unacked)
      /\ ToSet(unacked') = ToSet(unacked) \ {h}
  BY <1>1, <1>2, TailQueue DEF QueuesOK
<1> HIDE DEF h
<1>4. \A i \in Ids : i # h => (IsLive(i)' <=> IsLive(i)) /\ (OnDisk(i)' => Stored(i))
  BY <1>1, <1>3, AckEffect
<1>5. QueuesOK'  BY <1>1, <1>2, <1>3 DEF QueuesOK
<1>6. Apart'  BY <1>1, <1>3 DEF PipeInv, Apart, Queued
<1>7. OneThread'  BY <1>1 DEF PipeInv, OneThread
<1>8. \A i \in Ids : i # h /\ Untouched(i) => Untouched(i)'
  BY <1>1, <1>4 DEF Untouched, Stored
<1>9. ToSet(sending) \subseteq Ids  BY <1>2, ToSetType DEF QueuesOK
<1>10. Fresh'
  BY <1>1, <1>3, <1>8, <1>9 DEF PipeInv, Fresh, Apart, Queued
<1>11. Counters'  BY <1>1 DEF PipeInv, Counters
<1> QED  BY <1>5, <1>6, <1>7, <1>10, <1>11 DEF PipeInv

\* What a drain could not send is pushed back, one by one.
LEMMA RebufferStep ==
    ASSUME TypeOK, PipeInv, NEW out \in Outcomes, NEW cmp \in BOOLEAN, Rebuffer(out, cmp)
    PROVE  PipeInv'
<1> DEFINE h == Head(missed)
<1>1. /\ missed # <<>> /\ missed' = Tail(missed) /\ Push(h, out, cmp)
      /\ UNCHANGED <<job, due, cur, crashes, sending, draining, unacked,
                     arrived, delivered, retracted, cutDrains>>
  BY DEF Rebuffer, jobVars, seenVars
<1>2. QueuesOK  BY DEF PipeInv
<1>3. /\ missed' \in Seq(Ids) /\ Once(missed') /\ h \in Ids /\ h \in ToSet(missed)
      /\ ToSet(missed') = ToSet(missed) \ {h}
  BY <1>1, <1>2, TailQueue DEF QueuesOK
<1> HIDE DEF h
<1>4. h \notin ToSet(buffer)  BY <1>3 DEF PipeInv, Apart, Queued
<1>5. /\ buffer' \in Seq(Ids) /\ Once(buffer') /\ Len(buffer') <= Cap
      /\ ToSet(buffer') \subseteq ToSet(buffer) \cup {h}
      /\ \A i \in Ids : i # h => /\ IsLive(i)' <=> IsLive(i)
                                 /\ OnDisk(i)' => Stored(i)
  BY <1>1, <1>2, <1>3, <1>4, PushEffect
<1>6. unacked = <<>> /\ ToSet(<<>>) = {} /\ job # "sweep"
  BY <1>1, EmptyQueue DEF PipeInv, OneThread
<1>7. QueuesOK'  BY <1>1, <1>2, <1>3, <1>5 DEF QueuesOK
<1>8. Apart'  BY <1>1, <1>3, <1>5, <1>6 DEF PipeInv, Apart, Queued
<1>9. OneThread'  BY <1>1, <1>6 DEF PipeInv, OneThread
<1>10. \A i \in Ids : i # h /\ Untouched(i) => Untouched(i)'
  BY <1>1, <1>5 DEF Untouched, Stored
<1>11. ToSet(sending) \subseteq Ids  BY <1>2, ToSetType DEF QueuesOK
<1>12. Fresh'
  BY <1>1, <1>3, <1>5, <1>10, <1>11 DEF PipeInv, Fresh, Apart, Queued
<1>13. Counters'  BY <1>1 DEF PipeInv, Counters
<1> QED  BY <1>7, <1>8, <1>9, <1>12, <1>13 DEF PipeInv

\* The escalation sweep takes the expired entries of memory as its job.
LEMMA SweepBeginStep ==
    ASSUME TypeOK, PipeInv, SweepBegin
    PROVE  PipeInv'
<1>1. /\ draining = <<>> /\ unacked = <<>> /\ missed = <<>>
      /\ job' = "sweep" /\ due' = Expired
      /\ UNCHANGED <<live, disk, cur, crashes, pipeVars, seenVars>>
  BY DEF SweepBegin, Idle, SweepStart, memVars, fileVars, obsVars
<1> USE DEF pipeVars, seenVars
<1>2. OneThread'  BY <1>1 DEF PipeInv, OneThread, Expired, LiveIds, IsLive
<1>3. QueuesOK' /\ Apart' /\ Counters'  BY <1>1 DEF PipeInv, QueuesOK, Apart, Queued, Counters
<1>4. ToSet(sending) \subseteq Ids  BY ToSetType DEF PipeInv, QueuesOK
<1>5. Fresh'
  BY <1>1, <1>4 DEF PipeInv, Fresh, Queued, Untouched, Stored, IsLive, OnDisk
<1> QED  BY <1>2, <1>3, <1>5 DEF PipeInv

\* The sweep tombstones one entry, which is then retracted.
LEMMA SweepDropStep ==
    ASSUME TypeOK, PipeInv, NEW id \in Ids, NEW out \in Outcomes, SweepDrop(id, out)
    PROVE  PipeInv'
<1>1. /\ job = "sweep" /\ cur = {} /\ id \in due /\ cur' = {id}
      /\ retracted' = retracted \cup {id}
      /\ UNCHANGED <<job, due, crashes, pipeVars, arrived, delivered, cutDrains>>
  BY DEF SweepDrop, SweepTombstone
<1>2. \A i \in Ids : i # id => (IsLive(i)' <=> IsLive(i)) /\ (OnDisk(i)' => Stored(i))
  BY TombstoneEffect DEF SweepDrop, SweepTombstone
<1> USE DEF pipeVars
<1>3. QueuesOK' /\ Apart'  BY <1>1 DEF PipeInv, QueuesOK, Apart, Queued
<1>4. IsLive(id) /\ due \subseteq Ids  BY <1>1 DEF PipeInv, OneThread, TypeOK
<1>5. OneThread'  BY <1>1, <1>2, <1>4 DEF PipeInv, OneThread
<1>6. \A i \in Ids : Untouched(i) => i # id /\ Untouched(i)'
  BY <1>1, <1>2, <1>4 DEF Untouched, Stored
<1>7. ToSet(sending) \subseteq Ids  BY ToSetType DEF PipeInv, QueuesOK
<1>8. Fresh'  BY <1>1, <1>6, <1>7 DEF PipeInv, Fresh, Queued
<1>9. Counters'  BY <1>1 DEF PipeInv, Counters
<1> QED  BY <1>3, <1>5, <1>8, <1>9 DEF PipeInv

\* The sweep slides a chat's notice window.
LEMMA SweepSlideStep ==
    ASSUME TypeOK, PipeInv, NEW id \in Ids, NEW out \in Outcomes, SweepSlide(id, out)
    PROVE  PipeInv'
BY HandOverStep DEF SweepSlide, SweepWindow, Settle, pipeVars, seenVars

\* The sweep tells a chat.
LEMMA SweepTellStep ==
    ASSUME TypeOK, PipeInv, NEW id \in Ids, NEW sent \in NoticeSends, NEW cmp \in BOOLEAN,
           SweepTell(id, sent, cmp)
    PROVE  PipeInv'
<1>1. /\ job = "sweep" /\ cur = {id} /\ cur' = {} /\ due' = due \ {id}
      /\ job' \in {"none", "sweep"} /\ live' = live /\ (disk' = live' \/ disk' = disk)
      /\ UNCHANGED <<crashes, pipeVars, seenVars>>
  BY DEF SweepTell, SweepNotice, JobDone, Settle, memVars
<1> USE DEF pipeVars, seenVars
<1>2. QueuesOK' /\ Apart' /\ Counters'  BY <1>1 DEF PipeInv, QueuesOK, Apart, Queued, Counters
<1>3. OneThread'  BY <1>1 DEF PipeInv, OneThread, IsLive
<1>4. \A i \in Ids : Untouched(i) => Untouched(i)'
  BY <1>1 DEF Untouched, Stored, IsLive, OnDisk
<1>5. ToSet(sending) \subseteq Ids  BY ToSetType DEF PipeInv, QueuesOK
<1>6. Fresh'  BY <1>1, <1>4, <1>5 DEF PipeInv, Fresh, Queued
<1> QED  BY <1>2, <1>3, <1>6 DEF PipeInv

\* What the next process starts from.
LEMMA CrashEffect ==
    ASSUME GatewayCrash
    PROVE  /\ buffer' \in Seq(Ids) /\ Once(buffer') /\ Len(buffer') <= Cap
           /\ \A id \in ToSet(buffer') : id \in Ids /\ OnDisk(id)
           /\ sending' = <<>> /\ draining' = <<>> /\ unacked' = <<>> /\ missed' = <<>>
           /\ live' = disk /\ disk' = disk /\ job' = "none"
           /\ crashes' = crashes + 1
           /\ cutDrains' = cutDrains + (IF unacked # <<>> THEN 1 ELSE 0)
           /\ UNCHANGED <<arrived, delivered, retracted, faults, torn>>
<1>1. PICK s \in ReplayOrders :
         buffer' = SubSeq(s, IF Len(s) > Cap THEN Len(s) - Cap + 1 ELSE 1, Len(s))
  BY DEF GatewayCrash
<1>2. /\ buffer' \in Seq(Ids) /\ Once(buffer') /\ Len(buffer') <= Cap
      /\ \A id \in ToSet(buffer') : id \in Ids /\ OnDisk(id)
  BY <1>1, ReplayQueue
<1> QED  BY <1>2 DEF GatewayCrash, SpoolCrash, fileVars

\* The next process finds its queue in the file, and nothing in flight.
LEMMA GatewayCrashStep ==
    ASSUME TypeOK, PipeInv, GatewayCrash
    PROVE  PipeInv'
<1>1. /\ buffer' \in Seq(Ids) /\ Once(buffer') /\ Len(buffer') <= Cap
      /\ \A id \in ToSet(buffer') : id \in Ids /\ OnDisk(id)
      /\ sending' = <<>> /\ draining' = <<>> /\ unacked' = <<>> /\ missed' = <<>>
      /\ live' = disk /\ disk' = disk /\ job' = "none"
      /\ crashes' = crashes + 1
      /\ cutDrains' = cutDrains + (IF unacked # <<>> THEN 1 ELSE 0)
      /\ UNCHANGED <<arrived, delivered, retracted>>
  BY CrashEffect
<1>2. <<>> \in Seq(Ids) /\ Once(<<>>) /\ ToSet(<<>>) = {}  BY EmptyQueue
<1>3. QueuesOK'  BY <1>1, <1>2 DEF QueuesOK
<1>4. Apart'  BY <1>1, <1>2 DEF Apart, Queued
<1>5. OneThread'  BY <1>1 DEF OneThread
<1>6. Fresh'
  BY <1>1, <1>2 DEF PipeInv, Fresh, Queued, Untouched, Stored, IsLive, OnDisk
<1>7. Counters'  BY <1>1 DEF PipeInv, Counters, TypeOK
<1> QED  BY <1>3, <1>4, <1>5, <1>6, <1>7 DEF PipeInv

\* Every step of the pipeline preserves the invariant.
LEMMA PipeStep == TypeOK /\ PipeInv /\ [PipelineNext]_vars => PipeInv'
<1> SUFFICES ASSUME TypeOK, PipeInv, [PipelineNext]_vars PROVE PipeInv'
  OBVIOUS
<1> USE DEF spoolVars, memVars, fileVars, jobVars, obsVars, pipeVars, seenVars
<1>1. CASE BridgeUp  BY <1>1, HandOverStep DEF BridgeUp, DrainAll
<1>2. CASE BridgeDown  BY <1>2, HandOverStep DEF BridgeDown
<1>3. CASE TurnEnd  BY <1>3, HandOverStep DEF TurnEnd, DrainAll
<1>4. CASE IdleDrainTick  BY <1>4, HandOverStep DEF IdleDrainTick, DrainAll
<1>5. CASE DrainOffline  BY <1>5, HandOverStep DEF DrainOffline, DrainAll
<1>6. CASE Clock  BY <1>6, HandOverStep DEF Clock, Tick
<1>7. CASE UNCHANGED vars  BY <1>7, HandOverStep DEF vars
<1> QED
  BY <1>1, <1>2, <1>3, <1>4, <1>5, <1>6, <1>7, ArriveMidTurnStep, ArriveFreshStep, SendFreshStep,
     SendMissStep, DrainSendStep, DrainMissStep, DrainAckStep, RebufferStep, SweepBeginStep,
     SweepDropStep, SweepSlideStep, SweepTellStep, GatewayCrashStep
     DEF PipelineNext

-----------------------------------------------------------------------------
(* The pipeline runs the spool: each of its steps is one of the spool's      *)
(* operations or leaves the spool alone.                                    *)

LEMMA SpoolStep == PipeInv /\ TypeOK /\ [PipelineNext]_vars => [Next]_spoolVars
<1> SUFFICES ASSUME PipeInv, TypeOK, [PipelineNext]_vars PROVE [Next]_spoolVars
  OBVIOUS
<1>1. ASSUME NEW id \in Ids, NEW out \in Outcomes, NEW cmp \in BOOLEAN, ArriveMidTurn(id, out, cmp)
      PROVE  Put(id, out, cmp)
  BY <1>1 DEF ArriveMidTurn, Arrive, Idle, Push, Put
<1>2. ASSUME NEW id \in Ids, ArriveFresh(id) PROVE UNCHANGED spoolVars
  BY <1>2 DEF ArriveFresh, Arrive, spoolVars, obsVars
<1>3. ASSUME NEW out \in Outcomes, NEW cmp \in BOOLEAN, SendMiss(out, cmp)
      PROVE  \E id \in Ids : Put(id, out, cmp)
  <2>1. Head(sending) \in Ids
    BY <1>3, TailQueue DEF SendMiss, PipeInv, QueuesOK
  <2>2. Put(Head(sending), out, cmp)  BY <1>3 DEF SendMiss, Idle, Push, Put
  <2> QED  BY <2>1, <2>2
<1>4. ASSUME NEW out \in Outcomes, NEW cmp \in BOOLEAN, DrainAck(out, cmp)
      PROVE  \E id \in Ids : Ack(id, out, cmp)
  <2>1. Head(unacked) \in Ids
    BY <1>4, TailQueue DEF DrainAck, PipeInv, QueuesOK
  <2>2. job = "none"  BY <1>4 DEF DrainAck, PipeInv, OneThread, TypeOK
  <2>3. Ack(Head(unacked), out, cmp)  BY <1>4, <2>2 DEF DrainAck, Ack
  <2> QED  BY <2>1, <2>3
<1>5. ASSUME NEW out \in Outcomes, NEW cmp \in BOOLEAN, Rebuffer(out, cmp)
      PROVE  \E id \in Ids : Put(id, out, cmp)
  <2>1. Head(missed) \in Ids
    BY <1>5, TailQueue DEF Rebuffer, PipeInv, QueuesOK
  <2>2. job = "none"  BY <1>5 DEF Rebuffer, PipeInv, OneThread, TypeOK
  <2>3. Put(Head(missed), out, cmp)  BY <1>5, <2>2 DEF Rebuffer, Push, Put
  <2> QED  BY <2>1, <2>3
<1>6. ASSUME NEW id \in Ids, NEW out \in Outcomes, SweepDrop(id, out) PROVE SweepTombstone(id, out)
  BY <1>6 DEF SweepDrop
<1>7. ASSUME NEW id \in Ids, NEW sent \in NoticeSends, NEW cmp \in BOOLEAN, SweepTell(id, sent, cmp)
      PROVE  SweepNotice(id, sent, cmp)
  BY <1>7 DEF SweepTell
<1>13. ASSUME NEW id \in Ids, NEW out \in Outcomes, SweepSlide(id, out) PROVE SweepWindow(id, out)
  BY <1>13 DEF SweepSlide
<1>8. SweepBegin => SweepStart  BY DEF SweepBegin
<1>9. GatewayCrash => SpoolCrash  BY DEF GatewayCrash
<1>10. Clock => Tick  BY DEF Clock
<1>11. CASE \/ SendFresh \/ BridgeUp \/ BridgeDown \/ TurnEnd \/ IdleDrainTick \/ DrainOffline
            \/ DrainSend \/ DrainMiss
  BY <1>11 DEF SendFresh, BridgeUp, BridgeDown, TurnEnd, IdleDrainTick, DrainOffline, DrainSend,
               DrainMiss
<1>12. CASE UNCHANGED vars  BY <1>12 DEF vars
<1> QED
  BY <1>1, <1>2, <1>3, <1>4, <1>5, <1>6, <1>7, <1>8, <1>9, <1>10, <1>11, <1>12, <1>13
     DEF PipelineNext, Next

LEMMA PipeInit == Init => PipeInv /\ TypeOK /\ Flags /\ SpoolInit
<1> SUFFICES ASSUME Init PROVE PipeInv /\ TypeOK /\ Flags /\ SpoolInit
  OBVIOUS
<1>1. SpoolInit  BY DEF Init
<1>2. TypeOK  BY <1>1, SpoolInitType
<1>3. Flags  BY Zenon DEF Init, Flags
<1>4. <<>> \in Seq(Ids) /\ Once(<<>>) /\ ToSet(<<>>) = {} /\ Len(<<>>) = 0  BY EmptyQueue
<1>5. QueuesOK  BY <1>4, PipelineAssumption DEF Init, QueuesOK
<1>6. Apart  BY <1>4 DEF Init, Apart, Queued
<1>7. OneThread  BY DEF Init, SpoolInit, OneThread
<1>8. Fresh
  BY <1>4 DEF Init, SpoolInit, Fresh, Queued, Untouched, Stored, IsLive, OnDisk, Absent
<1>9. Counters  BY DEF Init, SpoolInit, Counters, NULL
<1> QED  BY <1>1, <1>2, <1>3, <1>5, <1>6, <1>7, <1>8, <1>9 DEF PipeInv

LEMMA FlagsStep == Flags /\ [PipelineNext]_vars => Flags'
<1> SUFFICES ASSUME Flags, [PipelineNext]_vars PROVE Flags'
  OBVIOUS
<1> USE DEF Flags
<1>1. CASE UNCHANGED <<bridge, inTurn>>  BY <1>1
<1>2. ASSUME NEW id \in Ids, ArriveFresh(id) PROVE Flags'
  BY <1>2, Zenon DEF ArriveFresh, Arrive
<1>3. CASE BridgeUp  BY <1>3, Zenon DEF BridgeUp
<1>4. CASE BridgeDown  BY <1>4, Zenon DEF BridgeDown
<1>5. CASE TurnEnd  BY <1>5, Zenon DEF TurnEnd
<1>6. CASE GatewayCrash  BY <1>6, Zenon DEF GatewayCrash
<1>7. ASSUME NEW id \in Ids, NEW out \in Outcomes, NEW cmp \in BOOLEAN,
             ArriveMidTurn(id, out, cmp)
      PROVE  Flags'
  BY <1>1, <1>7 DEF ArriveMidTurn, Arrive
<1>11. ASSUME NEW id \in Ids, NEW out \in Outcomes, SweepDrop(id, out) \/ SweepSlide(id, out)
       PROVE  Flags'
  BY <1>1, <1>11 DEF SweepDrop, SweepSlide, pipeVars
<1>10. ASSUME NEW id \in Ids, NEW sent \in NoticeSends, NEW cmp \in BOOLEAN, SweepTell(id, sent, cmp)
       PROVE  Flags'
  BY <1>1, <1>10 DEF SweepTell, pipeVars
<1>8. ASSUME NEW out \in Outcomes, NEW cmp \in BOOLEAN,
             SendMiss(out, cmp) \/ DrainAck(out, cmp) \/ Rebuffer(out, cmp)
      PROVE  Flags'
  BY <1>1, <1>8 DEF SendMiss, DrainAck, Rebuffer
<1>9. CASE \/ SendFresh \/ IdleDrainTick \/ DrainOffline \/ DrainSend \/ DrainMiss
           \/ SweepBegin \/ Clock \/ UNCHANGED vars
  BY <1>1, <1>9 DEF SendFresh, IdleDrainTick, DrainOffline, DrainSend, DrainMiss, SweepBegin,
                    Clock, pipeVars, vars
<1> HIDE DEF Flags
<1> QED
  BY <1>1, <1>2, <1>3, <1>4, <1>5, <1>6, <1>7, <1>8, <1>9, <1>10, <1>11 DEF PipelineNext

\* What every state of the pipeline satisfies, the state of the spool included.
LEMMA PipelineInvariant == PipelineSpec => [](PipeInv /\ TypeOK /\ Flags)
<1>1. PipeInv /\ TypeOK /\ Flags /\ [PipelineNext]_vars => (PipeInv /\ TypeOK /\ Flags)'
  BY PipeStep, SpoolStep, TypeStep, FlagsStep
<1> QED  BY <1>1, PipeInit, PTL DEF PipelineSpec

\* The pipeline implements the spool's specification, so that whatever the spool
\* guarantees (CrashSafe, SyncedPutsKept, NoticesSpaced, ...) holds inside it.
THEOREM PipelineRunsSpool == PipelineSpec => Spec
<1>1. PipeInv /\ TypeOK /\ [PipelineNext]_vars => [Next]_spoolVars  BY SpoolStep
<1>2. Init => SpoolInit  BY DEF Init
<1> QED  BY <1>1, <1>2, PipelineInvariant, PTL DEF PipelineSpec, Spec

\* What the spool promises of crashes, failed appends, the escalation clock and
\* the notices holds when gateway and buffer drive it, drains and sweeps interleaved.
COROLLARY SpoolHoldsInPipeline ==
    PipelineSpec => /\ []CrashLosesNothing /\ []SyncedPutSurvives /\ []BurstAnnounced
                    /\ EscalationClockKept /\ NoticeSpacing
BY PipelineRunsSpool, CrashSafe, SyncedPutsKept, BurstsAnnounced, ClockKept, NoticesSpaced

\* Type correctness of the pipeline: the queue never exceeds the cap, no queue
\* holds a message twice, and a drain never acks and pushes back at once.
THEOREM PipelineTypeCorrect == PipelineSpec => []PipelineTypeOK
<1>1. ASSUME PipeInv, TypeOK, Flags PROVE PipelineTypeOK
  <2>1. \A q \in {buffer, sending, draining, unacked, missed} : q \in Seq(Ids) /\ Once(q)
    BY <1>1 DEF PipeInv, QueuesOK
  <2>2. \A q \in {buffer, sending, draining, unacked, missed} :
           q \in Seq(Ids) /\ Cardinality(ToSet(q)) = Len(q)
    BY <2>1, OnceCounts
  <2>3. cutDrains \in 0..MaxCrashes
    BY <1>1, Constants DEF PipeInv, Counters, TypeOK
  <2>4. bridge \in BOOLEAN /\ inTurn \in BOOLEAN  BY <1>1 DEF Flags
  <2>5. /\ Len(buffer) <= Cap
        /\ missed = <<>> \/ unacked = <<>>
        /\ arrived \in [Ids -> Int] /\ delivered \in [Ids -> Nat] /\ retracted \subseteq Ids
    BY <1>1 DEF PipeInv, QueuesOK, OneThread, Counters
  <2> QED  BY <1>1, <2>2, <2>3, <2>4, <2>5 DEF PipelineTypeOK
<1> QED  BY <1>1, PipelineInvariant, PTL

-----------------------------------------------------------------------------
(* Repeats.  Each delivery of an id beyond the first is charged to an       *)
(* excuse: a crash that cut a drain, or a tombstone that a failed append    *)
(* lost.  What makes it inductive is to count, with the deliveries made,    *)
(* those still owed: one to a copy in a queue together with the spool entry *)
(* its ack will remove, and one to an entry no queue holds; an entry that   *)
(* is on disk and no longer in memory (Ghost) owes its own.                 *)

Ghost(id) == OnDisk(id) /\ ~IsLive(id)

Owed(id) ==
    (IF id \in Queued THEN 1 ELSE 0)
    + (IF Ghost(id) \/ (IsLive(id) /\ id \notin Queued /\ id \notin ToSet(unacked)) THEN 1 ELSE 0)

\* A torn line will lose one more record.
Excuses == cutDrains + 2 * faults - (IF torn THEN 1 ELSE 0)

TornCounted == torn => faults > 0

RepeatInv ==
    /\ TornCounted
    /\ \A id \in Ids : delivered[id] + Owed(id) <= 1 + Excuses

LEMMA ExcusesType ==
    ASSUME TypeOK, Counters, TornCounted
    PROVE  Excuses \in Nat
BY Constants DEF TypeOK, Counters, TornCounted, Excuses

\* An append never uses up an excuse, and one whose record is lost adds one.
LEMMA AppendExcuse ==
    ASSUME TypeOK, Counters, TornCounted, NEW out \in Outcomes, NEW cmp, NEW D, NEW X,
           Health(out), Settle(D, X, TornAfter(out), LinesAfter(out), cmp),
           cutDrains' = cutDrains
    PROVE  /\ TornCounted'
           /\ Excuses' \in Nat /\ Excuses \in Nat /\ Excuses' >= Excuses
           /\ ~Landed(out) /\ disk' # live' => Excuses' >= Excuses + 1
<1>1. /\ faults \in Nat /\ cutDrains \in Nat /\ torn \in BOOLEAN
      /\ out \in {"ok", "unsynced", "lost", "torn"}
  BY Constants DEF TypeOK, Counters, AppendOutcome
<1>2. faults' = faults + (IF out = "ok" THEN 0 ELSE 1)  BY DEF Health
<1>3. (disk' = live' /\ torn' = FALSE) \/ torn' = TornAfter(out)  BY DEF Settle
<1>4. torn = TRUE => faults > 0  BY DEF TornCounted
<1>5. CASE torn = TRUE
  <2>1. CASE torn' = FALSE
    BY <1>1, <1>2, <1>3, <1>4, <1>5, <2>1 DEF Excuses, TornCounted
  <2>2. CASE torn' # FALSE
    <3>1. torn' = TRUE /\ out # "ok"  BY <1>1, <1>3, <1>5, <2>2 DEF TornAfter
    <3> QED  BY <1>1, <1>2, <1>4, <1>5, <3>1 DEF Excuses, TornCounted
  <2> QED  BY <2>1, <2>2
<1>6. CASE torn = FALSE
  <2>1. CASE torn' = FALSE
    BY <1>1, <1>2, <1>3, <1>6, <2>1 DEF Excuses, TornCounted, Landed
  <2>2. CASE torn' # FALSE
    <3>1. torn' = TRUE /\ out = "torn"  BY <1>1, <1>3, <1>6, <2>2 DEF TornAfter
    <3> QED  BY <1>1, <1>2, <1>6, <3>1 DEF Excuses, TornCounted
  <2> QED  BY <2>1, <2>2
<1> QED  BY <1>1, <1>5, <1>6

\* A put leaves the excuses and owes no more to any other id.
LEMMA PushRepeats ==
    ASSUME TypeOK, PipeInv, RepeatInv, NEW id \in Ids, NEW out \in Outcomes, NEW cmp \in BOOLEAN,
           id \notin ToSet(buffer), Push(id, out, cmp), cutDrains' = cutDrains,
           UNCHANGED <<draining, unacked, delivered>>,
           missed' = missed \/ ToSet(missed') = ToSet(missed) \ {id},
           Owed(id) = 0 => delivered[id] = 0
    PROVE  RepeatInv'
<1>1. QueuesOK /\ Counters /\ TornCounted  BY DEF PipeInv, RepeatInv
<1>2. /\ id \in ToSet(buffer') /\ ToSet(buffer') \subseteq ToSet(buffer) \cup {id}
      /\ IsLive(id)'
      /\ \A i \in Ids : i # id => /\ IsLive(i)' <=> IsLive(i)
                                  /\ OnDisk(i)' /\ ~IsLive(i) => OnDisk(i)
  BY <1>1, PushEffect
<1>3. TornCounted' /\ Excuses' \in Nat /\ Excuses \in Nat /\ Excuses' >= Excuses
  <2>1. CASE PutDuplicate(id)
    <3>1. torn' = torn /\ faults' = faults  BY <2>1 DEF PutDuplicate, fileVars
    <3>2. Excuses' = Excuses /\ TornCounted'  BY <1>1, <3>1 DEF Excuses, TornCounted
    <3> QED  BY <1>1, <3>2, ExcusesType
  <2>2. CASE PutRecord(id, out, cmp)
    BY <1>1, <2>2, AppendExcuse DEF PutRecord
  <2> QED  BY <2>1, <2>2 DEF Push, SpoolPut
<1>4. delivered \in [Ids -> Nat]  BY <1>1 DEF Counters
<1>5. ASSUME NEW i \in Ids, i # id PROVE Owed(i)' <= Owed(i)
  <2>1. i \in Queued' => i \in Queued  BY <1>2, <1>5 DEF Queued
  <2>2. Ghost(i)' => Ghost(i)  BY <1>2, <1>5 DEF Ghost
  <2>3. i \in ToSet(unacked)' <=> i \in ToSet(unacked)  OBVIOUS
  <2>4. IsLive(i)' <=> IsLive(i)  BY <1>2, <1>5
  <2> QED  BY <2>1, <2>2, <2>3, <2>4 DEF Owed
<1>6. Owed(id)' = 1
  <2>1. id \in Queued' /\ ~Ghost(id)'  BY <1>2 DEF Queued, Ghost
  <2> QED  BY <2>1 DEF Owed
<1>7. \A i \in Ids : Owed(i) \in Nat /\ Owed(i)' \in Nat  BY DEF Owed
<1>8. ASSUME NEW i \in Ids PROVE delivered'[i] + Owed(i)' <= 1 + Excuses'
  <2>1. delivered[i] + Owed(i) <= 1 + Excuses  BY DEF RepeatInv
  <2>2. CASE i # id  BY <1>3, <1>4, <1>5, <1>7, <2>1, <2>2
  <2>3. CASE i = id  BY <1>3, <1>4, <1>6, <1>7, <2>1, <2>3
  <2> QED  BY <2>2, <2>3
<1> QED  BY <1>3, <1>8 DEF RepeatInv

\* A tombstone trades an entry for at most an excuse.
LEMMA TombstoneRepeats ==
    ASSUME TypeOK, PipeInv, RepeatInv, NEW id \in Ids, NEW out \in Outcomes, NEW cmp,
           live' = [live EXCEPT ![id] = Absent], Health(out), IsLive(id),
           Settle(Recorded(id, Absent, out), escDisk, TornAfter(out), LinesAfter(out), cmp),
           UNCHANGED <<buffer, draining, missed, delivered, cutDrains>>,
           \/ id \notin Queued /\ ToSet(unacked') = ToSet(unacked) \ {id}
           \/ unacked' = unacked
    PROVE  RepeatInv'
<1>1. QueuesOK /\ Counters /\ TornCounted  BY DEF PipeInv, RepeatInv
<1>2. /\ ~IsLive(id)' /\ (OnDisk(id)' => ~Landed(out))
      /\ \A i \in Ids : i # id => /\ IsLive(i)' <=> IsLive(i)
                                  /\ OnDisk(i)' /\ ~IsLive(i) => OnDisk(i)
  BY TombstoneEffect
<1>3. /\ TornCounted'
      /\ Excuses' \in Nat /\ Excuses \in Nat /\ Excuses' >= Excuses
      /\ ~Landed(out) /\ disk' # live' => Excuses' >= Excuses + 1
  BY <1>1, AppendExcuse
<1>4. Ghost(id)' => Excuses' >= Excuses + 1
  <2>1. Ghost(id)' => disk' # live'  BY DEF Ghost, IsLive, OnDisk
  <2> QED  BY <1>2, <1>3, <2>1 DEF Ghost
<1>5. delivered \in [Ids -> Nat]  BY <1>1 DEF Counters
<1>6. Queued' = Queued  BY DEF Queued
<1>7. \A i \in Ids : Owed(i) \in Nat /\ Owed(i)' \in Nat  BY DEF Owed
<1>8. ASSUME NEW i \in Ids, i # id PROVE Owed(i)' <= Owed(i)
  <2>1. Ghost(i)' => Ghost(i)  BY <1>2, <1>8 DEF Ghost
  <2>2. IsLive(i)' <=> IsLive(i)  BY <1>2, <1>8
  <2>3. i \in ToSet(unacked') <=> i \in ToSet(unacked)  BY <1>8
  <2> QED  BY <1>6, <2>1, <2>2, <2>3 DEF Owed
<1>9. Owed(id)' <= Owed(id) + (IF Ghost(id)' THEN 1 ELSE 0)
  BY <1>2, <1>6 DEF Owed
<1>10. ASSUME NEW i \in Ids PROVE delivered'[i] + Owed(i)' <= 1 + Excuses'
  <2>1. delivered[i] + Owed(i) <= 1 + Excuses  BY DEF RepeatInv
  <2>2. CASE i # id  BY <1>3, <1>5, <1>7, <1>8, <2>1, <2>2
  <2>3. CASE i = id  BY <1>3, <1>4, <1>5, <1>7, <1>9, <2>1, <2>3
  <2> QED  BY <2>2, <2>3
<1> QED  BY <1>3, <1>10 DEF RepeatInv

\* Steps that neither append nor deliver, and keep what is queued.
LEMMA QuietRepeats ==
    ASSUME RepeatInv, Queued' = Queued,
           UNCHANGED <<live, disk, faults, torn, cutDrains, unacked, delivered>>
    PROVE  RepeatInv'
<1>1. Excuses' = Excuses /\ (TornCounted => TornCounted')  BY DEF Excuses, TornCounted
<1>2. \A i \in Ids : Owed(i)' = Owed(i)  BY DEF Owed, Ghost, IsLive, OnDisk
<1> QED  BY <1>1, <1>2 DEF RepeatInv

LEMMA RepeatStep == TypeOK /\ PipeInv /\ RepeatInv /\ [PipelineNext]_vars => RepeatInv'
<1> SUFFICES ASSUME TypeOK, PipeInv, RepeatInv, [PipelineNext]_vars PROVE RepeatInv'
  OBVIOUS
<1>1. /\ QueuesOK /\ Apart /\ Counters /\ TornCounted /\ Excuses \in Nat
      /\ delivered \in [Ids -> Nat]
  BY ExcusesType DEF PipeInv, RepeatInv, Counters
<1>2. \A i \in Ids : Owed(i) \in Nat /\ delivered[i] + Owed(i) <= 1 + Excuses
  BY DEF RepeatInv, Owed
<1>3. ASSUME NEW id \in Ids, NEW out \in Outcomes, NEW cmp \in BOOLEAN, ArriveMidTurn(id, out, cmp)
      PROVE  RepeatInv'
  <2>1. Arrive(id) /\ Push(id, out, cmp)  BY <1>3 DEF ArriveMidTurn
  <2>2. /\ id \notin ToSet(buffer) /\ delivered[id] = 0
        /\ UNCHANGED <<draining, unacked, missed, delivered, cutDrains>>
    BY <2>1, ArriveEffect DEF Untouched
  <2> QED  BY <2>1, <2>2, PushRepeats
<1>4. ASSUME NEW out \in Outcomes, NEW cmp \in BOOLEAN, SendMiss(out, cmp) PROVE RepeatInv'
  <2> DEFINE h == Head(sending)
  <2>1. /\ sending # <<>> /\ Push(h, out, cmp)
        /\ UNCHANGED <<draining, unacked, missed, delivered, cutDrains>>
    BY <1>4 DEF SendMiss, seenVars
  <2>2. h \in Ids /\ h \in ToSet(sending)  BY <1>1, <2>1, TailQueue DEF QueuesOK
  <2> HIDE DEF h
  <2>3. h \notin ToSet(buffer) /\ delivered[h] = 0
    BY <1>1, <2>2 DEF PipeInv, Apart, Queued, Fresh, Untouched
  <2> QED  BY <2>1, <2>2, <2>3, PushRepeats
<1>5. ASSUME NEW out \in Outcomes, NEW cmp \in BOOLEAN, Rebuffer(out, cmp) PROVE RepeatInv'
  <2> DEFINE h == Head(missed)
  <2>1. /\ missed # <<>> /\ Push(h, out, cmp) /\ missed' = Tail(missed)
        /\ UNCHANGED <<draining, unacked, delivered, cutDrains>>
    BY <1>5 DEF Rebuffer, seenVars
  <2>2. h \in Ids /\ h \in ToSet(missed) /\ ToSet(missed') = ToSet(missed) \ {h}
    BY <1>1, <2>1, TailQueue DEF QueuesOK
  <2> HIDE DEF h
  <2>3. h \notin ToSet(buffer) /\ h \in Queued  BY <1>1, <2>2 DEF Apart, Queued
  <2>4. Owed(h) # 0  BY <2>3 DEF Owed
  <2> QED  BY <2>1, <2>2, <2>3, <2>4, PushRepeats
<1>6. ASSUME SendFresh PROVE RepeatInv'
  <2> DEFINE h == Head(sending)
  <2>1. /\ sending # <<>> /\ delivered' = [delivered EXCEPT ![h] = @ + 1]
        /\ UNCHANGED <<live, disk, faults, torn, cutDrains, buffer, draining, unacked, missed>>
    BY <1>6 DEF SendFresh, spoolVars, memVars, fileVars, obsVars
  <2>2. h \in Ids /\ h \in ToSet(sending)  BY <1>1, <2>1, TailQueue DEF QueuesOK
  <2> HIDE DEF h
  <2>3. Excuses' = Excuses /\ TornCounted'  BY <1>1, <2>1 DEF Excuses, TornCounted
  <2>4. \A i \in Ids : Owed(i)' = Owed(i)
    BY <2>1 DEF Owed, Queued, Ghost, IsLive, OnDisk
  <2>5. Owed(h) = 0 /\ delivered[h] = 0
    BY <1>1, <2>2 DEF PipeInv, Fresh, Untouched, Stored, Apart, Owed, Ghost
  <2>6. ASSUME NEW i \in Ids PROVE delivered'[i] + Owed(i)' <= 1 + Excuses'
    <3>1. CASE i # h
      <4>1. delivered'[i] = delivered[i]  BY <1>1, <2>1, <2>2, <3>1
      <4> QED  BY <1>2, <2>3, <2>4, <4>1
    <3>2. CASE i = h
      <4>1. delivered'[h] = 1  BY <1>1, <2>1, <2>2, <2>5
      <4> QED  BY <1>1, <2>2, <2>3, <2>4, <2>5, <3>2, <4>1
    <3> QED  BY <3>1, <3>2
  <2> QED  BY <2>3, <2>6 DEF RepeatInv
<1>7. ASSUME DrainSend PROVE RepeatInv'
  <2>1. /\ ToSet(draining) = ToSet(unacked') \cup ToSet(draining')
        /\ ToSet(unacked') \cap ToSet(draining') = {}
        /\ unacked = <<>> /\ missed = <<>> /\ draining # <<>>
        /\ delivered' = [i \in Ids |-> delivered[i] + (IF i \in ToSet(unacked') THEN 1 ELSE 0)]
        /\ UNCHANGED <<live, disk, torn, faults, buffer, missed, cutDrains>>
    BY <1>1, <1>7, DrainSendEffect
  <2>2. Excuses' = Excuses /\ TornCounted'  BY <1>1, <2>1 DEF Excuses, TornCounted
  <2>3. missed = <<>> /\ ToSet(<<>>) = {}  BY <2>1, EmptyQueue
  <2>4. Queued' = Queued \ ToSet(unacked') /\ ToSet(unacked') \subseteq Queued
    BY <1>1, <2>1, <2>3 DEF Queued, Apart
  <2>5. ASSUME NEW i \in Ids PROVE delivered'[i] + Owed(i)' <= 1 + Excuses'
    <3>1. (IsLive(i)' <=> IsLive(i)) /\ (Ghost(i)' <=> Ghost(i))
      BY <2>1 DEF Ghost, IsLive, OnDisk
    <3>2. i \notin ToSet(unacked)  BY <2>1, <2>3
    <3>3. CASE i \in ToSet(unacked')
      <4>1. Owed(i)' = Owed(i) - 1  BY <2>4, <3>1, <3>2, <3>3 DEF Owed
      <4> QED  BY <1>1, <1>2, <2>1, <2>2, <3>3, <4>1
    <3>4. CASE i \notin ToSet(unacked')
      <4>1. Owed(i)' = Owed(i)  BY <2>4, <3>1, <3>2, <3>4 DEF Owed
      <4> QED  BY <1>1, <1>2, <2>1, <2>2, <3>4, <4>1
    <3> QED  BY <3>3, <3>4
  <2> QED  BY <2>2, <2>5 DEF RepeatInv
<1>8. ASSUME NEW out \in Outcomes, NEW cmp \in BOOLEAN, DrainAck(out, cmp) PROVE RepeatInv'
  <2> DEFINE h == Head(unacked)
  <2>1. /\ unacked # <<>> /\ unacked' = Tail(unacked) /\ SpoolAck(h, out, cmp)
        /\ UNCHANGED <<buffer, draining, missed, delivered, cutDrains>>
    BY <1>8 DEF DrainAck, seenVars
  <2>2. h \in Ids /\ h \in ToSet(unacked) /\ ToSet(unacked') = ToSet(unacked) \ {h}
    BY <1>1, <2>1, TailQueue DEF QueuesOK
  <2> HIDE DEF h
  <2>3. h \notin Queued  BY <1>1, <2>2 DEF Apart
  <2>4. CASE AckUnknown(h)
    <3>1. ~IsLive(h) /\ UNCHANGED <<live, disk, torn, faults>>
      BY <2>4 DEF AckUnknown, memVars, fileVars
    <3>2. Excuses' = Excuses /\ TornCounted'  BY <1>1, <2>1, <3>1 DEF Excuses, TornCounted
    <3>3. \A i \in Ids : Owed(i)' = Owed(i)
      BY <2>1, <2>2, <3>1 DEF Owed, Queued, Ghost, IsLive, OnDisk
    <3> QED  BY <1>2, <2>1, <3>2, <3>3 DEF RepeatInv
  <2>5. CASE AckRecord(h, out, cmp)
    BY <2>1, <2>2, <2>3, <2>5, TombstoneRepeats DEF AckRecord
  <2> QED  BY <2>1, <2>4, <2>5 DEF SpoolAck
<1>9. ASSUME NEW id \in Ids, NEW out \in Outcomes, SweepDrop(id, out) PROVE RepeatInv'
  <2>1. IsLive(id)  BY <1>9 DEF SweepDrop, SweepTombstone, PipeInv, OneThread
  <2> QED  BY <1>9, <2>1, TombstoneRepeats DEF SweepDrop, SweepTombstone, pipeVars
<1>10. ASSUME NEW id \in Ids, NEW out \in Outcomes, SweepSlide(id, out) PROVE RepeatInv'
  <2>1. /\ Health(out) /\ live' = live /\ disk' = disk
        /\ UNCHANGED <<buffer, draining, missed, unacked, delivered, cutDrains>>
    BY <1>10 DEF SweepSlide, SweepWindow, Settle, pipeVars, seenVars
  <2>2. TornCounted' /\ Excuses' \in Nat /\ Excuses' >= Excuses
    BY <1>1, <1>10, <2>1, AppendExcuse DEF SweepSlide, SweepWindow
  <2>3. \A i \in Ids : Owed(i)' = Owed(i)
    BY <2>1 DEF Owed, Queued, Ghost, IsLive, OnDisk
  <2> QED  BY <1>1, <1>2, <2>1, <2>2, <2>3 DEF RepeatInv
<1>15. ASSUME NEW id \in Ids, NEW sent \in NoticeSends, NEW cmp \in BOOLEAN, SweepTell(id, sent, cmp)
       PROVE  RepeatInv'
  <2>1. /\ faults' = faults /\ live' = live
        /\ \/ disk' = live /\ torn' = FALSE
           \/ disk' = disk /\ torn' = torn
        /\ UNCHANGED <<buffer, draining, missed, unacked, delivered, cutDrains>>
    BY <1>15 DEF SweepTell, SweepNotice, Settle, memVars, pipeVars, seenVars
  <2>2. faults \in Nat /\ cutDrains \in Nat /\ torn \in BOOLEAN
    BY <1>1, Constants DEF TypeOK, Counters
  <2>3. TornCounted' /\ Excuses' \in Nat /\ Excuses' >= Excuses
    <3>1. CASE torn' = torn
      <4>1. Excuses' = Excuses /\ TornCounted'  BY <1>1, <2>1, <3>1 DEF Excuses, TornCounted
      <4> QED  BY <1>1, <4>1
    <3>2. CASE torn' = FALSE
      <4>1. TornCounted'  BY <3>2 DEF TornCounted
      <4>2. Excuses' = cutDrains + 2 * faults  BY <2>1, <2>2, <3>2 DEF Excuses
      <4>3. cutDrains + 2 * faults >= Excuses  BY <2>2 DEF Excuses
      <4> QED  BY <2>2, <4>1, <4>2, <4>3
    <3> QED  BY <2>1, <3>1, <3>2
  <2>4. \A i \in Ids : Owed(i)' <= Owed(i) /\ Owed(i)' \in Nat
    BY <2>1 DEF Owed, Queued, Ghost, IsLive, OnDisk
  <2> QED  BY <1>1, <1>2, <2>1, <2>3, <2>4 DEF RepeatInv
<1>11. ASSUME GatewayCrash PROVE RepeatInv'
  <2>1. /\ \A id \in ToSet(buffer') : id \in Ids /\ OnDisk(id)
        /\ draining' = <<>> /\ unacked' = <<>> /\ missed' = <<>>
        /\ live' = disk /\ disk' = disk
        /\ cutDrains' = cutDrains + (IF unacked # <<>> THEN 1 ELSE 0)
        /\ UNCHANGED <<delivered, faults, torn>>
    BY <1>11, CrashEffect
  <2>2. ToSet(<<>>) = {}  BY EmptyQueue
  <2>3. Excuses' = Excuses + (IF unacked # <<>> THEN 1 ELSE 0) /\ TornCounted'
    BY <1>1, <2>1, Constants DEF Excuses, TornCounted, Counters, TypeOK
  <2>4. ASSUME NEW i \in Ids PROVE delivered'[i] + Owed(i)' <= 1 + Excuses'
    <3>1. i \in Queued' => OnDisk(i)  BY <2>1, <2>2 DEF Queued
    <3>2. Owed(i)' \in {0, 1} /\ (Owed(i)' = 1 => OnDisk(i))
      BY <2>1, <2>2, <3>1 DEF Owed, Ghost, IsLive, OnDisk
    <3>3. OnDisk(i) /\ i \notin ToSet(unacked) => Owed(i) >= 1  BY DEF Owed, Ghost
    <3>4. i \in ToSet(unacked) => unacked # <<>>  BY <2>2
    <3>5. CASE unacked = <<>>
      BY <1>1, <1>2, <2>1, <2>2, <2>3, <3>2, <3>3, <3>4, <3>5
    <3>6. CASE unacked # <<>>
      BY <1>1, <1>2, <2>1, <2>3, <3>2, <3>6
    <3> QED  BY <3>5, <3>6
  <2> QED  BY <2>3, <2>4 DEF RepeatInv
<1>12. ASSUME NEW id \in Ids, ArriveFresh(id) PROVE RepeatInv'
  BY <1>12, QuietRepeats DEF ArriveFresh, Arrive, Queued, memVars, fileVars
<1>13. CASE BridgeUp \/ TurnEnd \/ IdleDrainTick \/ DrainOffline
  <2>1. /\ \/ UNCHANGED <<buffer, draining>>
           \/ draining = <<>> /\ buffer' = <<>> /\ draining' = buffer
        /\ UNCHANGED <<missed, live, disk, faults, torn, cutDrains, unacked, delivered>>
    BY <1>13 DEF BridgeUp, TurnEnd, IdleDrainTick, DrainOffline, DrainAll, Idle, spoolVars,
                 memVars, fileVars, obsVars, seenVars
  <2>2. Queued' = Queued  BY <2>1, EmptyQueue DEF Queued
  <2> QED  BY <2>1, <2>2, QuietRepeats
<1>14. CASE BridgeDown \/ SweepBegin \/ Clock \/ UNCHANGED vars
  <2>1. UNCHANGED <<buffer, draining, missed, live, disk, faults, torn, cutDrains, unacked, delivered>>
    BY <1>14 DEF BridgeDown, SweepBegin, SweepStart, Clock, Tick, vars, spoolVars, memVars,
                 fileVars, obsVars, pipeVars, seenVars
  <2> QED  BY <2>1, QuietRepeats DEF Queued
<1>16. CASE DrainMiss
  <2>1. /\ ToSet(draining) = ToSet(missed') \cup ToSet(draining') /\ missed = <<>>
        /\ UNCHANGED <<buffer, live, disk, faults, torn, cutDrains, unacked, delivered>>
    BY <1>1, <1>16, DrainMissEffect
  <2>2. Queued' = Queued  BY <2>1, EmptyQueue DEF Queued
  <2> QED  BY <2>1, <2>2, QuietRepeats
<1> QED
  BY <1>3, <1>4, <1>5, <1>6, <1>7, <1>8, <1>9, <1>10, <1>11, <1>12, <1>13, <1>14, <1>15, <1>16
     DEF PipelineNext

\* A message is sent twice only with an excuse: for every number of messages,
\* crashes and failed appends, each repeat is a crash that cut a drain or one of
\* the two tombstones a failed append can lose.
THEOREM RepeatsHaveReasons == PipelineSpec => []RepeatsAccounted
<1>1. Init => RepeatInv
  <2> SUFFICES ASSUME Init PROVE RepeatInv  OBVIOUS
  <2>1. Excuses = 0 /\ TornCounted
    <3> DEFINE t == IF torn THEN 1 ELSE 0
    <3>1. faults = 0 /\ cutDrains = 0 /\ Excuses = cutDrains + 2 * faults - t
      BY DEF Init, SpoolInit, Excuses
    <3>2. t = 0 /\ TornCounted  BY Zenon DEF Init, SpoolInit, TornCounted
    <3> HIDE DEF t
    <3> QED  BY <3>1, <3>2
  <2>2. \A i \in Ids : Owed(i) = 0
    BY EmptyQueue DEF Init, SpoolInit, Owed, Queued, Ghost, IsLive, OnDisk, Absent
  <2> QED  BY <2>1, <2>2 DEF RepeatInv, Init
<1>2. PipeInv /\ TypeOK /\ RepeatInv => RepeatsAccounted
  <2> SUFFICES ASSUME PipeInv, TypeOK, RepeatInv, NEW i \in Ids
               PROVE  delivered[i] <= 1 + cutDrains + 2 * faults
    BY DEF RepeatsAccounted
  <2>1. Owed(i) \in Nat /\ delivered[i] \in Nat  BY DEF Owed, PipeInv, Counters
  <2>2. delivered[i] + Owed(i) <= 1 + Excuses  BY DEF RepeatInv
  <2>3. cutDrains \in Nat /\ faults \in Nat  BY Constants DEF TypeOK, PipeInv, Counters
  <2> QED  BY <2>1, <2>2, <2>3 DEF Excuses
<1> QED  BY <1>1, <1>2, PipelineInvariant, RepeatStep, PTL DEF PipelineSpec

-----------------------------------------------------------------------------
(* The promise.  What keeps a message the gateway answers for from being    *)
(* forgotten is that every undelivered, unretracted message in a queue is   *)
(* also live in the spool: an eviction at the cap or a cut drain loses only *)
(* a copy.                                                                  *)

SpoolBacked ==
    /\ \A id \in ToSet(unacked) : delivered[id] > 0
    /\ \A id \in Queued : delivered[id] > 0 \/ id \in retracted \/ IsLive(id)

LEMMA BackedStep == TypeOK /\ PipeInv /\ SpoolBacked /\ [PipelineNext]_vars => SpoolBacked'
<1> SUFFICES ASSUME TypeOK, PipeInv, SpoolBacked, [PipelineNext]_vars PROVE SpoolBacked'
  OBVIOUS
<1>1. QueuesOK /\ Apart /\ Counters /\ delivered \in [Ids -> Nat]  BY DEF PipeInv, Counters
<1>2. Queued \subseteq Ids /\ ToSet(unacked) \subseteq Ids
  BY <1>1, ToSetType DEF QueuesOK, Queued
<1>3. ASSUME NEW id \in Ids, id \notin ToSet(buffer), NEW out \in Outcomes, NEW cmp \in BOOLEAN,
             Push(id, out, cmp), UNCHANGED <<draining, unacked, delivered, retracted>>,
             missed' = missed \/ ToSet(missed') \subseteq ToSet(missed)
      PROVE  SpoolBacked'
  <2>1. /\ ToSet(buffer') \subseteq ToSet(buffer) \cup {id} /\ IsLive(id)'
        /\ \A i \in Ids : i # id => (IsLive(i)' <=> IsLive(i))
    BY <1>1, <1>3, PushEffect
  <2>2. Queued' \subseteq Queued \cup {id}  BY <1>3, <2>1 DEF Queued
  <2> QED  BY <1>2, <1>3, <2>1, <2>2 DEF SpoolBacked
<1>4. ASSUME NEW id \in Ids, NEW out \in Outcomes, NEW cmp \in BOOLEAN, ArriveMidTurn(id, out, cmp)
      PROVE  SpoolBacked'
  <2>1. Arrive(id) /\ Push(id, out, cmp)  BY <1>4 DEF ArriveMidTurn
  <2>2. id \notin ToSet(buffer) /\ UNCHANGED <<draining, unacked, missed, delivered, retracted>>
    BY <2>1, ArriveEffect
  <2> QED  BY <1>3, <2>1, <2>2
<1>5. ASSUME NEW out \in Outcomes, NEW cmp \in BOOLEAN, SendMiss(out, cmp) PROVE SpoolBacked'
  <2>1. /\ sending # <<>> /\ Push(Head(sending), out, cmp)
        /\ UNCHANGED <<draining, unacked, missed, delivered, retracted>>
    BY <1>5 DEF SendMiss, seenVars
  <2>2. Head(sending) \in Ids /\ Head(sending) \in ToSet(sending)
    BY <1>1, <2>1, TailQueue DEF QueuesOK
  <2>3. Head(sending) \notin ToSet(buffer)  BY <1>1, <2>2 DEF Apart, Queued
  <2> QED  BY <1>3, <2>1, <2>2, <2>3
<1>6. ASSUME NEW out \in Outcomes, NEW cmp \in BOOLEAN, Rebuffer(out, cmp) PROVE SpoolBacked'
  <2>1. /\ missed # <<>> /\ Push(Head(missed), out, cmp) /\ missed' = Tail(missed)
        /\ UNCHANGED <<draining, unacked, delivered, retracted>>
    BY <1>6 DEF Rebuffer, seenVars
  <2>2. /\ Head(missed) \in Ids /\ Head(missed) \in ToSet(missed)
        /\ ToSet(missed') \subseteq ToSet(missed)
    BY <1>1, <2>1, TailQueue DEF QueuesOK
  <2>3. Head(missed) \notin ToSet(buffer)  BY <1>1, <2>2 DEF Apart, Queued
  <2> QED  BY <1>3, <2>1, <2>2, <2>3
<1>7. ASSUME SendFresh PROVE SpoolBacked'
  <2>1. /\ sending # <<>> /\ delivered' = [delivered EXCEPT ![Head(sending)] = @ + 1]
        /\ UNCHANGED <<live, buffer, draining, unacked, missed, retracted>>
    BY <1>7 DEF SendFresh, spoolVars, memVars
  <2>2. Head(sending) \in Ids  BY <1>1, <2>1, TailQueue DEF QueuesOK
  <2>3. \A i \in Ids : delivered[i] > 0 => delivered'[i] > 0  BY <1>1, <2>1, <2>2
  <2>4. Queued' = Queued /\ \A i \in Ids : IsLive(i)' <=> IsLive(i)  BY <2>1 DEF Queued, IsLive
  <2> QED  BY <1>2, <2>1, <2>3, <2>4 DEF SpoolBacked
<1>8. ASSUME DrainSend PROVE SpoolBacked'
  <2>1. /\ ToSet(draining) = ToSet(unacked') \cup ToSet(draining')
        /\ delivered' = [i \in Ids |-> delivered[i] + (IF i \in ToSet(unacked') THEN 1 ELSE 0)]
        /\ UNCHANGED <<live, buffer, missed, retracted>>
    BY <1>1, <1>8, DrainSendEffect
  <2>2. Queued' \subseteq Queued /\ ToSet(unacked') \subseteq Queued  BY <2>1 DEF Queued
  <2>3. \A i \in Ids : /\ delivered[i] > 0 => delivered'[i] > 0
                       /\ i \in ToSet(unacked') => delivered'[i] > 0
    BY <1>1, <2>1
  <2>4. \A i \in Ids : IsLive(i)' <=> IsLive(i)  BY <2>1 DEF IsLive
  <2> QED  BY <1>2, <2>1, <2>2, <2>3, <2>4 DEF SpoolBacked
<1>9. ASSUME NEW out \in Outcomes, NEW cmp \in BOOLEAN, DrainAck(out, cmp) PROVE SpoolBacked'
  <2>1. /\ unacked # <<>> /\ unacked' = Tail(unacked) /\ SpoolAck(Head(unacked), out, cmp)
        /\ UNCHANGED <<buffer, draining, missed, delivered, retracted>>
    BY <1>9 DEF DrainAck, seenVars
  <2>2. /\ Head(unacked) \in Ids /\ Head(unacked) \in ToSet(unacked)
        /\ ToSet(unacked') \subseteq ToSet(unacked)
    BY <1>1, <2>1, TailQueue DEF QueuesOK
  <2>3. \A i \in Ids : i # Head(unacked) => (IsLive(i)' <=> IsLive(i))  BY <2>1, <2>2, AckEffect
  <2>4. Queued' = Queued /\ Head(unacked) \notin Queued  BY <1>1, <2>1, <2>2 DEF Queued, Apart
  <2> QED  BY <1>2, <2>1, <2>2, <2>3, <2>4 DEF SpoolBacked
<1>10. ASSUME NEW id \in Ids, NEW out \in Outcomes, SweepDrop(id, out) PROVE SpoolBacked'
  <2>1. \A i \in Ids : i # id => (IsLive(i)' <=> IsLive(i))
    BY <1>10, TombstoneEffect DEF SweepDrop, SweepTombstone
  <2>2. /\ retracted' = retracted \cup {id}
        /\ UNCHANGED <<buffer, draining, missed, unacked, delivered>>
    BY <1>10 DEF SweepDrop, pipeVars
  <2> QED  BY <1>2, <2>1, <2>2 DEF SpoolBacked, Queued
<1>11. ASSUME GatewayCrash PROVE SpoolBacked'
  <2>1. /\ \A id \in ToSet(buffer') : id \in Ids /\ OnDisk(id)
        /\ draining' = <<>> /\ unacked' = <<>> /\ missed' = <<>> /\ live' = disk
    BY <1>11, CrashEffect
  <2> QED  BY <2>1, EmptyQueue DEF SpoolBacked, Queued, IsLive, OnDisk
<1>12. ASSUME UNCHANGED <<live, unacked, delivered, retracted>>, Queued' = Queued PROVE SpoolBacked'
  BY <1>12 DEF SpoolBacked, IsLive
<1>13. ASSUME NEW id \in Ids, ArriveFresh(id) PROVE SpoolBacked'
  BY <1>12, <1>13 DEF ArriveFresh, Arrive, Queued, memVars
<1>14. CASE BridgeUp \/ TurnEnd \/ IdleDrainTick \/ DrainOffline
  <2>1. /\ \/ UNCHANGED <<buffer, draining>>
           \/ draining = <<>> /\ buffer' = <<>> /\ draining' = buffer
        /\ UNCHANGED <<missed, live, unacked, delivered, retracted>>
    BY <1>14 DEF BridgeUp, TurnEnd, IdleDrainTick, DrainOffline, DrainAll, Idle, spoolVars,
                 memVars, seenVars
  <2>2. Queued' = Queued  BY <2>1, EmptyQueue DEF Queued
  <2> QED  BY <1>12, <2>1, <2>2
<1>15. CASE BridgeDown \/ SweepBegin \/ Clock \/ UNCHANGED vars
  BY <1>12, <1>15 DEF BridgeDown, SweepBegin, SweepStart, Clock, Tick, vars, spoolVars, memVars,
                      pipeVars, seenVars, Queued
<1>16. ASSUME NEW id \in Ids, NEW sent \in NoticeSends, NEW cmp \in BOOLEAN, SweepTell(id, sent, cmp)
       PROVE  SpoolBacked'
  BY <1>12, <1>16 DEF SweepTell, SweepNotice, memVars, pipeVars, seenVars, Queued
<1>17. ASSUME NEW id \in Ids, NEW out \in Outcomes, SweepSlide(id, out) PROVE SpoolBacked'
  BY <1>12, <1>17 DEF SweepSlide, SweepWindow, pipeVars, seenVars, Queued
<1>18. CASE DrainMiss
  <2>1. /\ ToSet(draining) = ToSet(missed') \cup ToSet(draining') /\ missed = <<>>
        /\ UNCHANGED <<buffer, live, unacked, delivered, retracted>>
    BY <1>1, <1>18, DrainMissEffect
  <2>2. Queued' = Queued  BY <2>1, EmptyQueue DEF Queued
  <2> QED  BY <1>12, <2>1, <2>2
<1> QED
  BY <1>4, <1>5, <1>6, <1>7, <1>8, <1>9, <1>10, <1>11, <1>13, <1>14, <1>15, <1>16, <1>17, <1>18
     DEF PipelineNext

\* The fate of a message, before and after a step: an open promise is a live entry.
FateOf(d, r, l) == IF d > 0 THEN "kept" ELSE IF r THEN "retracted" ELSE IF l THEN "promised" ELSE "new"

LEMMA FateNow ==
    ASSUME SpoolBacked, NEW id \in Ids
    PROVE  Fate(id) = FateOf(delivered[id], id \in retracted, IsLive(id))
BY DEF Fate, FateOf, Held, SpoolBacked, Queued

LEMMA FateNext ==
    ASSUME SpoolBacked', NEW id \in Ids
    PROVE  Fate(id)' = FateOf(delivered'[id], id \in retracted', IsLive(id)')
BY DEF Fate, FateOf, Held, SpoolBacked, Queued

\* Each step of the pipeline is a step of the promise or leaves every fate alone,
\* if no process dies whose spool has failed an append.
LEMMA PromiseStep ==
    ASSUME TypeOK, PipeInv, SpoolBacked, SpoolBacked', Mirror, [PipelineNext]_vars,
           faults # 0 => crashes' = crashes
    PROVE  \/ \A i \in Ids : Fate(i)' = Fate(i)
           \/ \E id \in Ids : /\ \A i \in Ids : i # id => Fate(i)' = Fate(i)
                              /\ \/ Fate(id) = "new" /\ Fate(id)' = "promised"
                                 \/ Fate(id) = "promised" /\ Fate(id)' = "retracted"
           \/ \E S \in SUBSET Ids : /\ S # {}
                                    /\ \A i \in Ids : Fate(i)' = IF i \in S THEN "kept" ELSE Fate(i)
<1> DEFINE Same == \A i \in Ids : Fate(i)' = Fate(i)
           Moves(id, a, b) == /\ \A i \in Ids : i # id => Fate(i)' = Fate(i)
                              /\ Fate(id) = a /\ Fate(id)' = b
           Kept(S) == S # {} /\ \A i \in Ids : Fate(i)' = IF i \in S THEN "kept" ELSE Fate(i)
<1> SUFFICES \/ Same
             \/ \E id \in Ids : Moves(id, "new", "promised") \/ Moves(id, "promised", "retracted")
             \/ \E S \in SUBSET Ids : Kept(S)
  OBVIOUS
<1>1. QueuesOK /\ Apart /\ Counters /\ delivered \in [Ids -> Nat]  BY DEF PipeInv, Counters
<1>2. \A i \in Ids : /\ Fate(i) = FateOf(delivered[i], i \in retracted, IsLive(i))
                     /\ Fate(i)' = FateOf(delivered'[i], i \in retracted', IsLive(i)')
  BY FateNow, FateNext
<1>3. ASSUME NEW i \in Ids, delivered'[i] = delivered[i], i \in retracted' <=> i \in retracted,
             delivered[i] > 0 \/ i \in retracted \/ (IsLive(i)' <=> IsLive(i))
      PROVE  Fate(i)' = Fate(i)
  BY <1>2, <1>3 DEF FateOf
<1>4. ASSUME NEW id \in Ids, id \notin ToSet(buffer), NEW out \in Outcomes, NEW cmp \in BOOLEAN,
             Push(id, out, cmp), UNCHANGED <<delivered, retracted>>
      PROVE  IsLive(id)' /\ \A i \in Ids : i # id => Fate(i)' = Fate(i)
  <2>1. IsLive(id)' /\ \A i \in Ids : i # id => (IsLive(i)' <=> IsLive(i))
    BY <1>1, <1>4, PushEffect
  <2> QED  BY <1>3, <1>4, <2>1
<1>5. ASSUME NEW id \in Ids, NEW out \in Outcomes, NEW cmp \in BOOLEAN, ArriveMidTurn(id, out, cmp)
      PROVE  Moves(id, "new", "promised")
  <2>1. Arrive(id) /\ Push(id, out, cmp)  BY <1>5 DEF ArriveMidTurn
  <2>2. id \notin ToSet(buffer) /\ Untouched(id) /\ UNCHANGED <<delivered, retracted>>
    BY <2>1, ArriveEffect
  <2>3. Fate(id) = "new" /\ Fate(id)' = "promised"
    BY <1>2, <1>4, <2>1, <2>2 DEF FateOf, Untouched, Stored
  <2> QED  BY <1>4, <2>1, <2>2, <2>3
<1>6. ASSUME NEW out \in Outcomes, NEW cmp \in BOOLEAN, SendMiss(out, cmp)
      PROVE  \E id \in Ids : Moves(id, "new", "promised")
  <2>1. sending # <<>>  BY <1>6 DEF SendMiss
  <2>2. PICK h \in Ids : h = Head(sending) /\ h \in ToSet(sending)
    BY <1>1, <2>1, TailQueue DEF QueuesOK
  <2>3. Push(h, out, cmp) /\ UNCHANGED <<delivered, retracted>>
    BY <1>6, <2>2 DEF SendMiss, seenVars
  <2>4. h \notin ToSet(buffer) /\ Untouched(h)
    BY <1>1, <2>2 DEF PipeInv, Apart, Queued, Fresh
  <2>5. Fate(h) = "new" /\ Fate(h)' = "promised"
    BY <1>2, <1>4, <2>3, <2>2, <2>4 DEF FateOf, Untouched, Stored
  <2>6. Moves(h, "new", "promised")  BY <1>4, <2>3, <2>2, <2>4, <2>5
  <2> QED  BY <2>2, <2>6
<1>7. ASSUME NEW out \in Outcomes, NEW cmp \in BOOLEAN, Rebuffer(out, cmp) PROVE Same
  <2>1. missed # <<>>  BY <1>7 DEF Rebuffer
  <2>2. PICK h \in Ids : h = Head(missed) /\ h \in ToSet(missed)
    BY <1>1, <2>1, TailQueue DEF QueuesOK
  <2>3. Push(h, out, cmp) /\ UNCHANGED <<delivered, retracted>>
    BY <1>7, <2>2 DEF Rebuffer, seenVars
  <2>4. h \notin ToSet(buffer) /\ h \in Queued  BY <1>1, <2>2 DEF Apart, Queued
  <2>5. IsLive(h)' /\ \A i \in Ids : i # h => Fate(i)' = Fate(i)  BY <1>4, <2>3, <2>2, <2>4
  <2>6. Fate(h)' = Fate(h)
    BY <1>3, <2>3, <2>2, <2>4, <2>5 DEF SpoolBacked
  <2> QED  BY <2>5, <2>6
<1>8. ASSUME SendFresh PROVE \E S \in SUBSET Ids : Kept(S)
  <2>1. sending # <<>>  BY <1>8 DEF SendFresh
  <2>2. PICK h \in Ids : h = Head(sending)  BY <1>1, <2>1, TailQueue DEF QueuesOK
  <2>3. delivered' = [delivered EXCEPT ![h] = @ + 1] /\ UNCHANGED <<live, retracted>>
    BY <1>8, <2>2 DEF SendFresh, spoolVars, memVars
  <2>4. delivered'[h] > 0 /\ \A i \in Ids : i # h => delivered'[i] = delivered[i]
    BY <1>1, <2>3, <2>2
  <2>5. Fate(h)' = "kept"  BY <1>2, <2>2, <2>4 DEF FateOf
  <2>6. \A i \in Ids : i # h => Fate(i)' = Fate(i)  BY <1>3, <2>3, <2>4 DEF IsLive
  <2>7. Kept({h})  BY <2>2, <2>5, <2>6
  <2> QED  BY <2>2, <2>7
<1>9. ASSUME DrainSend PROVE \E S \in SUBSET Ids : Kept(S)
  <2> DEFINE S == ToSet(unacked')
  <2>1. /\ unacked' \in Seq(Ids) /\ S # {}
        /\ delivered' = [i \in Ids |-> delivered[i] + (IF i \in S THEN 1 ELSE 0)]
        /\ UNCHANGED <<live, retracted>>
    BY <1>1, <1>9, DrainSendEffect
  <2>2. S \subseteq Ids  BY <2>1, ToSetType
  <2> HIDE DEF S
  <2>3. ASSUME NEW i \in Ids, i \in S PROVE Fate(i)' = "kept"
    <3>1. delivered'[i] > 0  BY <1>1, <2>1, <2>3
    <3> QED  BY <1>2, <3>1 DEF FateOf
  <2>4. ASSUME NEW i \in Ids, i \notin S PROVE Fate(i)' = Fate(i)
    <3>1. delivered'[i] = delivered[i]  BY <1>1, <2>1, <2>4
    <3> QED  BY <1>3, <2>1, <3>1 DEF IsLive
  <2>5. Kept(S)  BY <2>1, <2>3, <2>4
  <2> QED  BY <2>2, <2>5
<1>10. ASSUME NEW out \in Outcomes, NEW cmp \in BOOLEAN, DrainAck(out, cmp) PROVE Same
  <2>1. /\ unacked # <<>> /\ SpoolAck(Head(unacked), out, cmp)
        /\ UNCHANGED <<delivered, retracted>>
    BY <1>10 DEF DrainAck, seenVars
  <2>2. Head(unacked) \in Ids /\ Head(unacked) \in ToSet(unacked)
    BY <1>1, <2>1, TailQueue DEF QueuesOK
  <2>3. \A i \in Ids : i # Head(unacked) => (IsLive(i)' <=> IsLive(i))  BY <2>1, <2>2, AckEffect
  <2>4. delivered[Head(unacked)] > 0  BY <2>2 DEF SpoolBacked
  <2> QED  BY <1>3, <2>1, <2>3, <2>4
<1>11. ASSUME NEW id \in Ids, NEW out \in Outcomes, SweepDrop(id, out)
       PROVE  Same \/ Moves(id, "promised", "retracted")
  <2>1. \A i \in Ids : i # id => (IsLive(i)' <=> IsLive(i))
    BY <1>11, TombstoneEffect DEF SweepDrop, SweepTombstone
  <2>2. retracted' = retracted \cup {id} /\ delivered' = delivered  BY <1>11 DEF SweepDrop
  <2>3. IsLive(id)  BY <1>11 DEF SweepDrop, SweepTombstone, PipeInv, OneThread
  <2>4. \A i \in Ids : i # id => Fate(i)' = Fate(i)  BY <1>3, <2>1, <2>2
  <2>5. CASE delivered[id] > 0 \/ id \in retracted
    <3>1. Fate(id)' = Fate(id)  BY <1>2, <2>2, <2>5 DEF FateOf
    <3> QED  BY <2>4, <3>1
  <2>6. CASE ~(delivered[id] > 0 \/ id \in retracted)
    <3>1. Fate(id) = "promised" /\ Fate(id)' = "retracted"  BY <1>2, <2>2, <2>3, <2>6 DEF FateOf
    <3> QED  BY <2>4, <3>1
  <2> QED  BY <2>5, <2>6
<1>12. ASSUME GatewayCrash PROVE Same
  <2>1. live' = disk /\ crashes' = crashes + 1 /\ UNCHANGED <<delivered, retracted>>
    BY <1>12, CrashEffect
  <2>2. faults = 0  BY <2>1 DEF TypeOK
  <2>3. live' = live  BY <2>1, <2>2 DEF Mirror
  <2> QED  BY <1>3, <2>1, <2>3 DEF IsLive
<1>13. ASSUME UNCHANGED <<live, delivered, retracted>> PROVE Same
  BY <1>3, <1>13 DEF IsLive
<1>14. ASSUME NEW id \in Ids, ArriveFresh(id) PROVE Same
  BY <1>13, <1>14 DEF ArriveFresh, Arrive, memVars
<1>15. ASSUME NEW id \in Ids, NEW sent \in NoticeSends, NEW cmp \in BOOLEAN, SweepTell(id, sent, cmp)
       PROVE  Same
  BY <1>13, <1>15 DEF SweepTell, SweepNotice, memVars, seenVars
<1>17. ASSUME NEW id \in Ids, NEW out \in Outcomes, SweepSlide(id, out) PROVE Same
  BY <1>13, <1>17 DEF SweepSlide, SweepWindow, seenVars
<1>16. CASE \/ BridgeUp \/ BridgeDown \/ TurnEnd \/ IdleDrainTick \/ DrainOffline \/ DrainMiss
            \/ SweepBegin \/ Clock \/ UNCHANGED vars
  BY <1>13, <1>16 DEF BridgeUp, BridgeDown, TurnEnd, IdleDrainTick, DrainOffline, DrainMiss,
                      SweepBegin, SweepStart, Clock, Tick, vars, spoolVars, memVars, seenVars
<1> HIDE DEF Same, Moves, Kept
<1> QED
  BY <1>5, <1>6, <1>7, <1>8, <1>9, <1>10, <1>11, <1>12, <1>14, <1>15, <1>16, <1>17
     DEF PipelineNext

\* No process dies after one of its appends has failed.
NoCrashAfterFault == [][faults # 0 => crashes' = crashes]_vars

\* The pipeline never forgets a message it has promised: evictions at the cap,
\* cut drains, crashes, replays and compactions included, every message goes from
\* new to promised, and from there to kept or retracted and nowhere else.
THEOREM PromiseNeverForgotten == PipelineSpec /\ NoCrashAfterFault => PromiseAbs!PromiseSafety
<1> DEFINE f == [id \in Ids |-> Fate(id)]
<1>1. Init => PromiseAbs!PromiseInit /\ SpoolBacked /\ Mirror
  <2> SUFFICES ASSUME Init PROVE PromiseAbs!PromiseInit /\ SpoolBacked /\ Mirror  OBVIOUS
  <2>1. SpoolBacked  BY EmptyQueue DEF Init, SpoolBacked, Queued
  <2>2. Mirror  BY DEF Init, SpoolInit, Mirror
  <2>3. \A i \in Ids : delivered[i] = 0 /\ i \notin retracted /\ ~IsLive(i)
    BY DEF Init, SpoolInit, IsLive, Absent
  <2>4. \A i \in Ids : Fate(i) = "new"  BY <2>1, <2>3, FateNow DEF FateOf
  <2> QED  BY <2>1, <2>2, <2>4 DEF PromiseAbs!PromiseInit
<1>2. PipeInv /\ TypeOK /\ Mirror /\ SpoolBacked /\ [PipelineNext]_vars => (Mirror /\ SpoolBacked)'
  BY SpoolStep, MirrorStep, BackedStep
<1>3. ASSUME PipeInv, TypeOK, Mirror, SpoolBacked, SpoolBacked', [PipelineNext]_vars,
             [faults # 0 => crashes' = crashes]_vars
      PROVE  [PromiseAbs!PromiseNext]_f
  <2>1. faults # 0 => crashes' = crashes
    BY <1>3 DEF vars, spoolVars, obsVars
  <2>2. CASE \A i \in Ids : Fate(i)' = Fate(i)
    BY <2>2
  <2>3. ASSUME NEW id \in Ids, \A i \in Ids : i # id => Fate(i)' = Fate(i),
               Fate(id) = "new" /\ Fate(id)' = "promised"
        PROVE  PromiseAbs!Promise(id)
    BY <2>3 DEF PromiseAbs!Promise
  <2>4. ASSUME NEW id \in Ids, \A i \in Ids : i # id => Fate(i)' = Fate(i),
               Fate(id) = "promised" /\ Fate(id)' = "retracted"
        PROVE  PromiseAbs!Retract(id)
    BY <2>4 DEF PromiseAbs!Retract
  <2>5. ASSUME NEW S \in SUBSET Ids, S # {},
               \A i \in Ids : Fate(i)' = IF i \in S THEN "kept" ELSE Fate(i)
        PROVE  PromiseAbs!Keep(S)
    BY <2>5 DEF PromiseAbs!Keep
  <2> QED
    BY <1>3, <2>1, <2>2, <2>3, <2>4, <2>5, PromiseStep DEF PromiseAbs!PromiseNext
<1> QED
  BY <1>1, <1>2, <1>3, PipelineInvariant, PTL
     DEF PipelineSpec, NoCrashAfterFault, PromiseAbs!PromiseSafety

\* Only the death of the process counts as a crash.
LEMMA OnlyCrashesCount ==
    ASSUME [PipelineNext]_vars, ~GatewayCrash
    PROVE  crashes' = crashes
<1> USE DEF vars, spoolVars, obsVars
<1>1. ASSUME NEW id \in Ids, ArriveFresh(id) \/ \E out \in Outcomes, cmp \in BOOLEAN : ArriveMidTurn(id, out, cmp)
      PROVE  crashes' = crashes
  BY <1>1 DEF ArriveFresh, Arrive, ArriveMidTurn
<1>2. ASSUME NEW out \in Outcomes, NEW cmp \in BOOLEAN,
             SendMiss(out, cmp) \/ DrainAck(out, cmp) \/ Rebuffer(out, cmp)
      PROVE  crashes' = crashes
  BY <1>2 DEF SendMiss, DrainAck, Rebuffer
<1>3. ASSUME NEW id \in Ids,
             \/ \E out \in Outcomes : SweepDrop(id, out) \/ SweepSlide(id, out)
             \/ \E sent \in NoticeSends, cmp \in BOOLEAN : SweepTell(id, sent, cmp)
      PROVE  crashes' = crashes
  BY <1>3 DEF SweepDrop, SweepTombstone, SweepSlide, SweepWindow, SweepTell, SweepNotice
<1>4. CASE \/ SendFresh \/ BridgeUp \/ BridgeDown \/ TurnEnd \/ IdleDrainTick \/ DrainOffline
           \/ DrainSend \/ DrainMiss \/ SweepBegin \/ Clock \/ UNCHANGED vars
  BY <1>4 DEF SendFresh, BridgeUp, BridgeDown, TurnEnd, IdleDrainTick, DrainOffline, DrainSend,
              DrainMiss, SweepBegin, SweepStart, Clock, Tick
<1> QED  BY <1>1, <1>2, <1>3, <1>4 DEF PipelineNext


\* A promise whose record reached the disk is not forgotten either when a process
\* dies after its spool has failed appends: no step, a crash included, takes a
\* durably spooled message from promised back to new.
THEOREM SyncedPromisesKept ==
    PipelineSpec =>
        [][\A id \in synced : Fate(id) = "promised" => Fate(id)' \in {"promised", "kept", "retracted"}]_vars
<1> DEFINE Kept == \A id \in synced :
                      Fate(id) = "promised" => Fate(id)' \in {"promised", "kept", "retracted"}
           Inv == PipeInv /\ TypeOK /\ Mirror /\ SpoolBacked /\ SyncedHeld
<1>1. Init => Mirror /\ SpoolBacked /\ SyncedHeld
  BY EmptyQueue DEF Init, SpoolInit, Mirror, SpoolBacked, Queued, SyncedHeld
<1>2. PipeInv /\ TypeOK /\ Mirror /\ SpoolBacked /\ SyncedHeld /\ [PipelineNext]_vars
        => (Mirror /\ SpoolBacked /\ SyncedHeld)'
  BY SpoolStep, MirrorStep, BackedStep, SyncedHeldStep
<1>3. ASSUME Inv, SpoolBacked', [PipelineNext]_vars PROVE Kept
  <2>1. CASE GatewayCrash
    <3>1. live' = disk /\ UNCHANGED <<delivered, retracted>>  BY <2>1, CrashEffect
    <3>2. ASSUME NEW id \in synced PROVE Fate(id)' = Fate(id)
      <4>1. id \in Ids /\ IsLive(id) /\ OnDisk(id)  BY <1>3, <3>2 DEF SyncedHeld
      <4>2. IsLive(id)'  BY <3>1, <4>1 DEF IsLive, OnDisk
      <4> QED  BY <1>3, <3>1, <4>1, <4>2, FateNow, FateNext
    <3> QED  BY <3>2
  <2>2. CASE ~GatewayCrash
    <3>1. crashes' = crashes  BY <1>3, <2>2, OnlyCrashesCount
    <3>2. \A id \in Ids : Fate(id) = "promised" => Fate(id)' \in {"promised", "kept", "retracted"}
      BY <1>3, <3>1, PromiseStep
    <3> QED  BY <1>3, <3>2 DEF SyncedHeld
  <2> QED  BY <2>1, <2>2
<1> QED  BY <1>1, <1>2, <1>3, PipelineInvariant, PTL DEF PipelineSpec
=============================================================================
