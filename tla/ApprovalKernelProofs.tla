------------------------- MODULE ApprovalKernelProofs -------------------------
(***************************************************************************)
(* What ApprovalKernel guarantees for every set of agents, requests,       *)
(* decisions and concurrent lookups, every time to live and every lifetime.*)
(*                                                                         *)
(* The inductive invariant adds to the properties what relates a lookup's  *)
(* stale snapshot to the row it was read from (SnapshotInv), what a used   *)
(* allow_once row looks like (OnceInv), the bound on a stored expiry       *)
(* (ExpiryInv), the life of a nonce (NonceInv, LinkInv), and that a request  *)
(* between its two statements is not in the table yet (AskInv).             *)
(***************************************************************************)
EXTENDS ApprovalKernel, TLAPS, FiniteSetTheorems

\* An unrecorded decision has no history; a granted allow_once row is revoked.
OnceInv ==
    \A d \in Decisions :
        /\ ~Recorded(d) => uses[d] = 0 /\ lastGrant[d] = NULL /\ decisions[d].ttl = NULL
        /\ decisions[d].mode = "allow_once" /\ uses[d] # 0
           => uses[d] = 1 /\ decisions[d].revoked # NULL

\* A stored expiry and every grant stay within the lifetime of the decision.
ExpiryInv ==
    \A d \in Decisions :
        /\ Recorded(d) => decisions[d].granted \in Nat
        /\ decisions[d].ttl # NULL
           => decisions[d].ttl <= decisions[d].granted + MaxLifetime
        /\ decisions[d].mode = "allow_ttl" /\ decisions[d].ttl # NULL
           => lastGrant[d] <= decisions[d].granted + MaxLifetime

\* A snapshot agrees with its row on whether there is an expiry, and is as
\* bounded as the row.
SnapshotInv ==
    \A r \in Readers : readers[r].dec # None =>
        /\ readers[r].ttl = NULL <=> Row(r).ttl = NULL
        /\ readers[r].ttl # NULL => readers[r].ttl <= Row(r).granted + MaxLifetime

\* The life of a nonce.
NonceInv ==
    \A q \in Requests :
        /\ NULL <= nonces[q].created /\ nonces[q].created <= now
        /\ nonces[q].consumed <= now
        /\ nonces[q].created = NULL => nonces[q].consumed = NULL
        /\ nonces[q].consumed # NULL
           => /\ NULL < nonces[q].created /\ nonces[q].created <= nonces[q].consumed
              /\ nonces[q].consumed <= nonces[q].expires

\* The rows of the two tables refer to each other.
LinkInv ==
    /\ \A d \in Decisions : Recorded(d) =>
         /\ decisions[d].request \in Requests
         /\ nonces[decisions[d].request].consumed # NULL
         /\ nonces[decisions[d].request].consumed <= decisions[d].granted
    /\ \A q \in Requests, d \in Decisions :
         nonces[q].decision = d => Recorded(d) /\ decisions[d].request = q
    /\ \A r \in Readers :
         readers[r].dec # None /\ readers[r].request # None
         => decisions[readers[r].dec].request = readers[r].request

\* A request that a process has let past the caps is no row yet, and no other
\* process has it.
AskInv ==
    /\ \A p \in Servers : asking[p] # None => nonces[asking[p]].created = NULL
    /\ \A p, o \in Servers : asking[p] = asking[o] /\ asking[p] # None => p = o

Inv == TypeOK /\ OnceInv /\ ExpiryInv /\ SnapshotInv /\ NonceInv /\ LinkInv /\ AskInv

-----------------------------------------------------------------------------
LEMMA InitInv == Init => Inv
<1> SUFFICES ASSUME Init PROVE Inv
    OBVIOUS
<1> USE KernelAssumption DEF Init, NULL, NoNonce, NoLookup, Recorded
<1>1. TypeOK
    BY DEF TypeOK, NonceRow, DecisionRow, Lookup, Modes
<1>2. OnceInv /\ ExpiryInv
    BY DEF OnceInv, ExpiryInv
<1>3. SnapshotInv /\ NonceInv /\ LinkInv /\ AskInv
    BY DEF SnapshotInv, NonceInv, LinkInv, AskInv
<1> QED
    BY <1>1, <1>2, <1>3 DEF Inv

\* Rows updated in two columns keep their type.
LEMMA NonceRowUpdate ==
    ASSUME NEW row \in NonceRow, NEW n \in Int, NEW d \in Decisions
    PROVE  [row EXCEPT !.consumed = n, !.decision = d] \in NonceRow
BY Zenon DEF NonceRow

LEMMA DecisionRowUpdate ==
    ASSUME NEW row \in DecisionRow, NEW m \in Int, NEW n \in Int
    PROVE  /\ [row EXCEPT !.used = m, !.revoked = n] \in DecisionRow
           /\ [row EXCEPT !.used = m, !.ttl = n] \in DecisionRow
           /\ [row EXCEPT !.used = m] \in DecisionRow
BY Zenon DEF DecisionRow

\* Types are kept, and a lookup that has selected a row runs against a recorded one.
LEMMA TypeStep == Inv /\ [Next]_vars => TypeOK'
<1> SUFFICES ASSUME Inv, [Next]_vars PROVE TypeOK'
    OBVIOUS
<1> USE KernelAssumption DEF Inv, TypeOK, Recorded, NULL, tables, seen
<1>16. ASSUME NEW p \in Servers, NEW q \in Requests, CheckCaps(p, q)
      PROVE  TypeOK'
    BY <1>16 DEF NonceRow, DecisionRow, Lookup, NoLookup, LinkInv, CheckCaps
<1>1. ASSUME NEW p \in Servers, Request(p)
      PROVE  TypeOK'
    BY <1>1 DEF NonceRow, DecisionRow, Lookup, NoLookup, LinkInv, Request
<1>2. ASSUME NEW q \in Requests, Consume(q)
      PROVE  TypeOK'
    BY <1>2 DEF NonceRow, DecisionRow, Lookup, NoLookup, LinkInv, Consume, Consumable
<1>3. ASSUME NEW q \in Requests, NEW d \in Decisions, NEW mode \in Modes, NEW ttl \in TtlChoices, Record(q, d, mode, ttl)
      PROVE  TypeOK'
  <2>a. TtlExpiry(mode, ttl) \in Int
      BY <1>3 DEF Record, DecisionFor, TtlExpiry
  <2>c. nonces[q] \in NonceRow /\ now \in Int
      OBVIOUS
  <2>b. [nonces[q] EXCEPT !.decision = d] \in NonceRow
      BY <2>c DEF NonceRow
  <2>1. (nonces \in [Requests -> NonceRow])'
      BY <1>3, <2>b DEF Record
  <2>2. (decisions \in [Decisions -> DecisionRow])'
      BY <1>3, <2>a DEF DecisionRow, Lookup, Record, DecisionFor
  <2>3. (readers \in [Readers -> Lookup])'
      BY <1>3 DEF Lookup, DecisionRow, NonceRow, LinkInv, NoLookup, Record, DecisionFor
  <2>5. \A x \in Decisions : decisions[x].granted # NULL => decisions'[x].granted # NULL
      BY <1>3, <2>a DEF DecisionRow, Record, DecisionFor
  <2>6. (\A x \in Readers : readers[x].dec # None =>
            Recorded(readers[x].dec) /\ readers[x].at \in Nat)'
      BY <1>3, <2>5 DEF Lookup, LinkInv, Record, DecisionFor
  <2>7. (/\ now \in Nat /\ allowFrom \in Canons
         /\ uses \in [Decisions -> Nat] /\ lastGrant \in [Decisions -> Int])'
      BY <1>3, <2>a DEF Lookup, Record, DecisionFor
  <2>8. (/\ asking \in [Servers -> Requests \cup {None}]
         /\ \A x \in Decisions : decisions[x].ttl # NULL => decisions[x].mode = "allow_ttl")'
    <3>1. ttl \in Int /\ (TtlExpiry(mode, ttl) # NULL => mode = "allow_ttl")
        BY DEF TtlExpiry
    <3>2. decisions'[d].ttl # NULL => decisions'[d].mode = "allow_ttl"
        BY <1>3, <3>1 DEF Record, DecisionFor
    <3>3. \A x \in Decisions : x # d => decisions'[x] = decisions[x]
        BY <1>3 DEF Record
    <3>4. asking' = asking
        BY <1>3 DEF Record
    <3> QED
        BY <3>2, <3>3, <3>4
  <2> QED
      BY <2>1, <2>2, <2>3, <2>6, <2>7, <2>8 DEF TypeOK
<1>4. ASSUME NEW q \in Requests, NEW d \in Decisions, NEW mode \in Modes, NEW ttl \in TtlChoices, ConsumeAndRecord(q, d, mode, ttl)
      PROVE  TypeOK'
  <2>a. TtlExpiry(mode, ttl) \in Int
      BY <1>4 DEF ConsumeAndRecord, Consumable, DecisionFor, TtlExpiry
  <2>c. nonces[q] \in NonceRow /\ now \in Int
      OBVIOUS
  <2>b. [nonces[q] EXCEPT !.consumed = now, !.decision = d] \in NonceRow
      BY <2>c, NonceRowUpdate, Zenon
  <2>1. (nonces \in [Requests -> NonceRow])'
      BY <1>4, <2>b DEF ConsumeAndRecord
  <2>2. (decisions \in [Decisions -> DecisionRow])'
      BY <1>4, <2>a DEF DecisionRow, Lookup, ConsumeAndRecord, Consumable, DecisionFor
  <2>3. (readers \in [Readers -> Lookup])'
      BY <1>4 DEF Lookup, DecisionRow, NonceRow, LinkInv, NoLookup, ConsumeAndRecord, Consumable, DecisionFor
  <2>5. \A x \in Decisions : decisions[x].granted # NULL => decisions'[x].granted # NULL
      BY <1>4, <2>a DEF DecisionRow, ConsumeAndRecord, Consumable, DecisionFor
  <2>6. (\A x \in Readers : readers[x].dec # None =>
            Recorded(readers[x].dec) /\ readers[x].at \in Nat)'
      BY <1>4, <2>5 DEF Lookup, LinkInv, ConsumeAndRecord, Consumable, DecisionFor
  <2>7. (/\ now \in Nat /\ allowFrom \in Canons
         /\ uses \in [Decisions -> Nat] /\ lastGrant \in [Decisions -> Int])'
      BY <1>4, <2>a DEF Lookup, ConsumeAndRecord, Consumable, DecisionFor
  <2>8. (/\ asking \in [Servers -> Requests \cup {None}]
         /\ \A x \in Decisions : decisions[x].ttl # NULL => decisions[x].mode = "allow_ttl")'
    <3>1. ttl \in Int /\ (TtlExpiry(mode, ttl) # NULL => mode = "allow_ttl")
        BY DEF TtlExpiry
    <3>2. decisions'[d].ttl # NULL => decisions'[d].mode = "allow_ttl"
        BY <1>4, <3>1 DEF ConsumeAndRecord, DecisionFor
    <3>3. \A x \in Decisions : x # d => decisions'[x] = decisions[x]
        BY <1>4 DEF ConsumeAndRecord
    <3>4. asking' = asking
        BY <1>4 DEF ConsumeAndRecord
    <3> QED
        BY <3>2, <3>3, <3>4
  <2> QED
      BY <2>1, <2>2, <2>3, <2>6, <2>7, <2>8 DEF TypeOK
<1>5. ASSUME NEW d \in Decisions, Revoke(d)
      PROVE  TypeOK'
  <2>1. (nonces \in [Requests -> NonceRow])'
      BY <1>5 DEF NonceRow, Revoke
  <2>2. (decisions \in [Decisions -> DecisionRow])'
      BY <1>5 DEF DecisionRow, Lookup, Revoke
  <2>3. (readers \in [Readers -> Lookup])'
      BY <1>5 DEF Lookup, DecisionRow, NonceRow, LinkInv, NoLookup, Revoke
  <2>5. \A x \in Decisions : decisions[x].granted # NULL => decisions'[x].granted # NULL
      BY <1>5 DEF DecisionRow, Revoke
  <2>6. (\A x \in Readers : readers[x].dec # None =>
            Recorded(readers[x].dec) /\ readers[x].at \in Nat)'
      BY <1>5, <2>5 DEF Lookup, LinkInv, Revoke
  <2>7. (/\ now \in Nat /\ allowFrom \in Canons
         /\ uses \in [Decisions -> Nat] /\ lastGrant \in [Decisions -> Int])'
      BY <1>5 DEF Lookup, Revoke
  <2>8. (/\ asking \in [Servers -> Requests \cup {None}]
         /\ \A x \in Decisions : decisions[x].ttl # NULL => decisions[x].mode = "allow_ttl")'
      BY <1>5 DEF DecisionRow, Lookup, Revoke
  <2> QED
      BY <2>1, <2>2, <2>3, <2>6, <2>7, <2>8 DEF TypeOK
<1>6. ASSUME NEW r \in Readers, NEW a \in Agents, NEW d \in Decisions, LookupByScope(r, a, d)
      PROVE  TypeOK'
  <2>1. (nonces \in [Requests -> NonceRow])'
      BY <1>6 DEF NonceRow, LookupByScope, Candidates, Select
  <2>2. (decisions \in [Decisions -> DecisionRow])'
      BY <1>6 DEF DecisionRow, Lookup, LookupByScope, Candidates, Select
  <2>3. (readers \in [Readers -> Lookup])'
      BY <1>6 DEF Lookup, DecisionRow, NonceRow, LinkInv, NoLookup, LookupByScope, Candidates, Select
  <2>5. \A x \in Decisions : decisions[x].granted # NULL => decisions'[x].granted # NULL
      BY <1>6 DEF DecisionRow, LookupByScope, Candidates, Select
  <2>6. (\A x \in Readers : readers[x].dec # None =>
            Recorded(readers[x].dec) /\ readers[x].at \in Nat)'
      BY <1>6, <2>5 DEF Lookup, LinkInv, LookupByScope, Candidates, Select
  <2>7. (/\ now \in Nat /\ allowFrom \in Canons
         /\ uses \in [Decisions -> Nat] /\ lastGrant \in [Decisions -> Int])'
      BY <1>6 DEF Lookup, LookupByScope, Candidates, Select
  <2>8. (/\ asking \in [Servers -> Requests \cup {None}]
         /\ \A x \in Decisions : decisions[x].ttl # NULL => decisions[x].mode = "allow_ttl")'
      BY <1>6 DEF DecisionRow, Lookup, LookupByScope, Candidates, Select
  <2> QED
      BY <2>1, <2>2, <2>3, <2>6, <2>7, <2>8 DEF TypeOK
<1>7. ASSUME NEW r \in Readers, NEW q \in Requests, LookupByRequest(r, q)
      PROVE  TypeOK'
  <2>0. /\ nonces[q].decision \in Decisions
        /\ decisions[nonces[q].decision].granted # NULL
      BY <1>7 DEF NonceRow, LinkInv, LookupByRequest
  <2>1. (nonces \in [Requests -> NonceRow])'
      BY <1>7 DEF NonceRow, LookupByRequest, Select
  <2>2. (decisions \in [Decisions -> DecisionRow])'
      BY <1>7 DEF DecisionRow, Lookup, LookupByRequest, Select
  <2>3. (readers \in [Readers -> Lookup])'
      BY <1>7 DEF Lookup, DecisionRow, NonceRow, LinkInv, NoLookup, LookupByRequest, Select
  <2>5. \A x \in Decisions : decisions[x].granted # NULL => decisions'[x].granted # NULL
      BY <1>7 DEF DecisionRow, LookupByRequest, Select
  <2>6. (\A x \in Readers : readers[x].dec # None =>
            Recorded(readers[x].dec) /\ readers[x].at \in Nat)'
      BY <1>7, <2>0 DEF Lookup, LookupByRequest, Select
  <2>7. (/\ now \in Nat /\ allowFrom \in Canons
         /\ uses \in [Decisions -> Nat] /\ lastGrant \in [Decisions -> Int])'
      BY <1>7 DEF Lookup, LookupByRequest, Select
  <2>8. (/\ asking \in [Servers -> Requests \cup {None}]
         /\ \A x \in Decisions : decisions[x].ttl # NULL => decisions[x].mode = "allow_ttl")'
      BY <1>7 DEF DecisionRow, Lookup, LookupByRequest, Select
  <2> QED
      BY <2>1, <2>2, <2>3, <2>6, <2>7, <2>8 DEF TypeOK
<1>8. ASSUME NEW r \in Readers, DriftRevoke(r)
      PROVE  TypeOK'
  <2>0. readers[r].dec \in Decisions /\ readers[r].at \in Nat
      BY <1>8 DEF Lookup, DriftRevoke, Drifted, InForce, Idle, NoLookup, Row
  <2>1. (nonces \in [Requests -> NonceRow])'
      BY <1>8 DEF NonceRow, DriftRevoke, Drifted, InForce, Idle, NoLookup, Row
  <2>2. (decisions \in [Decisions -> DecisionRow])'
      BY <1>8, <2>0 DEF DecisionRow, Lookup, DriftRevoke, Drifted, InForce, Idle, NoLookup, Row
  <2>3. (readers \in [Readers -> Lookup])'
      BY <1>8 DEF Lookup, DecisionRow, NonceRow, LinkInv, NoLookup, DriftRevoke, Drifted, InForce, Idle, NoLookup, Row
  <2>5. \A x \in Decisions : decisions[x].granted # NULL => decisions'[x].granted # NULL
      BY <1>8, <2>0 DEF DecisionRow, DriftRevoke, Drifted, InForce, Idle, NoLookup, Row
  <2>6. (\A x \in Readers : readers[x].dec # None =>
            Recorded(readers[x].dec) /\ readers[x].at \in Nat)'
      BY <1>8, <2>5 DEF Lookup, LinkInv, DriftRevoke, Drifted, InForce, Idle, NoLookup, Row
  <2>7. (/\ now \in Nat /\ allowFrom \in Canons
         /\ uses \in [Decisions -> Nat] /\ lastGrant \in [Decisions -> Int])'
      BY <1>8, <2>0 DEF Lookup, DriftRevoke, Drifted, InForce, Idle, NoLookup, Row
  <2>8. (/\ asking \in [Servers -> Requests \cup {None}]
         /\ \A x \in Decisions : decisions[x].ttl # NULL => decisions[x].mode = "allow_ttl")'
      BY <1>8, <2>0 DEF DecisionRow, Lookup, DriftRevoke, Drifted, InForce, Idle, NoLookup, Row
  <2> QED
      BY <2>1, <2>2, <2>3, <2>6, <2>7, <2>8 DEF TypeOK
<1>9. ASSUME NEW r \in Readers, GrantOnce(r)
      PROVE  TypeOK'
  <2>0. readers[r].dec \in Decisions /\ readers[r].at \in Nat
      BY <1>9 DEF Lookup, GrantOnce, Burned, Allows, InForce, Idle, NoLookup, Row, Granted, CountedUses
  <2>1. (nonces \in [Requests -> NonceRow])'
      BY <1>9 DEF NonceRow, GrantOnce, Burned, Allows, InForce, Idle, NoLookup, Row, Granted, CountedUses
  <2>c. decisions[readers[r].dec] \in DecisionRow /\ readers[r].at \in Int
      BY <2>0
  <2>b. [decisions[readers[r].dec] EXCEPT !.used = readers[r].at, !.revoked = readers[r].at] \in DecisionRow
      BY <2>c, DecisionRowUpdate, Zenon
  <2>2. (decisions \in [Decisions -> DecisionRow])'
      BY <1>9, <2>0, <2>b DEF GrantOnce
  <2>3. (readers \in [Readers -> Lookup])'
      BY <1>9 DEF Lookup, DecisionRow, NonceRow, LinkInv, NoLookup, GrantOnce, Burned, Allows, InForce, Idle, NoLookup, Row, Granted, CountedUses
  <2>5. \A x \in Decisions : decisions[x].granted # NULL => decisions'[x].granted # NULL
      BY <1>9, <2>0 DEF DecisionRow, GrantOnce, Burned, Allows, InForce, Idle, NoLookup, Row, Granted, CountedUses
  <2>6. (\A x \in Readers : readers[x].dec # None =>
            Recorded(readers[x].dec) /\ readers[x].at \in Nat)'
      BY <1>9, <2>5 DEF Lookup, LinkInv, GrantOnce, Burned, Allows, InForce, Idle, NoLookup, Row, Granted, CountedUses
  <2>7. (/\ now \in Nat /\ allowFrom \in Canons
         /\ uses \in [Decisions -> Nat] /\ lastGrant \in [Decisions -> Int])'
      BY <1>9, <2>0 DEF Lookup, GrantOnce, Burned, Allows, InForce, Idle, NoLookup, Row, Granted, CountedUses
  <2>8. (/\ asking \in [Servers -> Requests \cup {None}]
         /\ \A x \in Decisions : decisions[x].ttl # NULL => decisions[x].mode = "allow_ttl")'
      BY <1>9, <2>0 DEF DecisionRow, Lookup, GrantOnce, Burned, Allows, InForce, Idle, NoLookup, Row, Granted, CountedUses
  <2> QED
      BY <2>1, <2>2, <2>3, <2>6, <2>7, <2>8 DEF TypeOK
<1>10. ASSUME NEW r \in Readers, GrantTtl(r)
      PROVE  TypeOK'
  <2>0. readers[r].dec \in Decisions /\ readers[r].at \in Nat
      BY <1>10 DEF Lookup, GrantTtl, Allows, InForce, Idle, NoLookup, Row, Granted, CountedUses, Renewed, Window
  <2>a. Renewed(r) \in Int
      BY <1>10, <2>0 DEF Lookup, DecisionRow, GrantTtl, Allows, InForce, Idle, NoLookup, Row, Granted, CountedUses, Renewed, Window
  <2>1. (nonces \in [Requests -> NonceRow])'
      BY <1>10 DEF NonceRow, GrantTtl, Allows, InForce, Idle, NoLookup, Row, Granted, CountedUses
  <2>c. decisions[readers[r].dec] \in DecisionRow /\ readers[r].at \in Int
      BY <2>0
  <2>b. [decisions[readers[r].dec] EXCEPT !.used = readers[r].at, !.ttl = Renewed(r)] \in DecisionRow
      BY <2>c, <2>a, DecisionRowUpdate, Zenon
  <2>2. (decisions \in [Decisions -> DecisionRow])'
      BY <1>10, <2>0, <2>b DEF GrantTtl
  <2>3. (readers \in [Readers -> Lookup])'
      BY <1>10 DEF Lookup, DecisionRow, NonceRow, LinkInv, NoLookup, GrantTtl, Allows, InForce, Idle, NoLookup, Row, Granted, CountedUses
  <2>5. \A x \in Decisions : decisions[x].granted # NULL => decisions'[x].granted # NULL
      BY <1>10, <2>0, <2>a DEF DecisionRow, GrantTtl, Allows, InForce, Idle, NoLookup, Row, Granted, CountedUses
  <2>6. (\A x \in Readers : readers[x].dec # None =>
            Recorded(readers[x].dec) /\ readers[x].at \in Nat)'
      BY <1>10, <2>5 DEF Lookup, LinkInv, GrantTtl, Allows, InForce, Idle, NoLookup, Row, Granted, CountedUses
  <2>7. (/\ now \in Nat /\ allowFrom \in Canons
         /\ uses \in [Decisions -> Nat] /\ lastGrant \in [Decisions -> Int])'
      BY <1>10, <2>0, <2>a DEF Lookup, GrantTtl, Allows, InForce, Idle, NoLookup, Row, Granted, CountedUses
  <2>8. (/\ asking \in [Servers -> Requests \cup {None}]
         /\ \A x \in Decisions : decisions[x].ttl # NULL => decisions[x].mode = "allow_ttl")'
      BY <1>10, <2>0, <2>a DEF DecisionRow, Lookup, GrantTtl, Allows, InForce, Idle, NoLookup, Row, Granted, CountedUses
  <2> QED
      BY <2>1, <2>2, <2>3, <2>6, <2>7, <2>8 DEF TypeOK
<1>11. ASSUME NEW r \in Readers, GrantAlways(r)
      PROVE  TypeOK'
  <2>0. readers[r].dec \in Decisions /\ readers[r].at \in Nat
      BY <1>11 DEF Lookup, GrantAlways, Allows, InForce, Idle, NoLookup, Row, Granted, CountedUses
  <2>1. (nonces \in [Requests -> NonceRow])'
      BY <1>11 DEF NonceRow, GrantAlways, Allows, InForce, Idle, NoLookup, Row, Granted, CountedUses
  <2>c. decisions[readers[r].dec] \in DecisionRow /\ readers[r].at \in Int
      BY <2>0
  <2>b. [decisions[readers[r].dec] EXCEPT !.used = readers[r].at] \in DecisionRow
      BY <2>c, DecisionRowUpdate, Zenon
  <2>2. (decisions \in [Decisions -> DecisionRow])'
      BY <1>11, <2>0, <2>b DEF GrantAlways
  <2>3. (readers \in [Readers -> Lookup])'
      BY <1>11 DEF Lookup, DecisionRow, NonceRow, LinkInv, NoLookup, GrantAlways, Allows, InForce, Idle, NoLookup, Row, Granted, CountedUses
  <2>5. \A x \in Decisions : decisions[x].granted # NULL => decisions'[x].granted # NULL
      BY <1>11, <2>0 DEF DecisionRow, GrantAlways, Allows, InForce, Idle, NoLookup, Row, Granted, CountedUses
  <2>6. (\A x \in Readers : readers[x].dec # None =>
            Recorded(readers[x].dec) /\ readers[x].at \in Nat)'
      BY <1>11, <2>5 DEF Lookup, LinkInv, GrantAlways, Allows, InForce, Idle, NoLookup, Row, Granted, CountedUses
  <2>7. (/\ now \in Nat /\ allowFrom \in Canons
         /\ uses \in [Decisions -> Nat] /\ lastGrant \in [Decisions -> Int])'
      BY <1>11, <2>0 DEF Lookup, GrantAlways, Allows, InForce, Idle, NoLookup, Row, Granted, CountedUses
  <2>8. (/\ asking \in [Servers -> Requests \cup {None}]
         /\ \A x \in Decisions : decisions[x].ttl # NULL => decisions[x].mode = "allow_ttl")'
      BY <1>11, <2>0 DEF DecisionRow, Lookup, GrantAlways, Allows, InForce, Idle, NoLookup, Row, Granted, CountedUses
  <2> QED
      BY <2>1, <2>2, <2>3, <2>6, <2>7, <2>8 DEF TypeOK
<1>12. ASSUME NEW r \in Readers, Refuse(r)
      PROVE  TypeOK'
  <2>1. /\ readers' \in [Readers -> Lookup]
        /\ \A x \in Readers : readers'[x] = NoLookup \/ readers'[x] = readers[x]
      BY <1>12 DEF Refuse, Idle, NoLookup, Lookup
  <2>2. UNCHANGED <<now, allowFrom, tables, asking, seen>>
      BY <1>12 DEF Refuse
  <2> QED
      BY <2>1, <2>2 DEF NoLookup
<1>13. ASSUME NEW c \in Canons, ChangeApprovers(c)
      PROVE  TypeOK'
    BY <1>13 DEF NonceRow, DecisionRow, Lookup, NoLookup, LinkInv, ChangeApprovers
<1>14. CASE Tick
    BY <1>14 DEF NonceRow, DecisionRow, Lookup, NoLookup, LinkInv, Tick
<1>15. CASE UNCHANGED vars
    BY <1>15 DEF NonceRow, DecisionRow, Lookup, NoLookup, LinkInv, vars
<1> QED
    BY <1>1, <1>2, <1>3, <1>4, <1>5, <1>6, <1>7, <1>8, <1>9, <1>10, <1>11, <1>12, <1>13, <1>14, <1>15, <1>16 DEF Next, Answer

\* The burn of an allow_once row is a compare-and-swap on revoked_at, which no
\* operation ever clears.
LEMMA OnceStep == Inv /\ [Next]_vars => OnceInv'
<1> SUFFICES ASSUME Inv, [Next]_vars PROVE OnceInv'
    OBVIOUS
<1> USE KernelAssumption DEF Inv, TypeOK, Recorded, NULL, tables, seen
<1>16. ASSUME NEW p \in Servers, NEW q \in Requests, CheckCaps(p, q)
      PROVE  OnceInv'
    BY <1>16 DEF OnceInv, DecisionRow, Lookup, Modes, CheckCaps
<1>1. ASSUME NEW p \in Servers, Request(p)
      PROVE  OnceInv'
    BY <1>1 DEF OnceInv, DecisionRow, Lookup, Modes, Request
<1>2. ASSUME NEW q \in Requests, Consume(q)
      PROVE  OnceInv'
    BY <1>2 DEF OnceInv, DecisionRow, Lookup, Modes, Consume, Consumable
<1>3. ASSUME NEW q \in Requests, NEW d \in Decisions, NEW mode \in Modes, NEW ttl \in TtlChoices, Record(q, d, mode, ttl)
      PROVE  OnceInv'
    BY <1>3 DEF OnceInv, DecisionRow, Lookup, Modes, Record, DecisionFor, TtlExpiry
<1>4. ASSUME NEW q \in Requests, NEW d \in Decisions, NEW mode \in Modes, NEW ttl \in TtlChoices, ConsumeAndRecord(q, d, mode, ttl)
      PROVE  OnceInv'
    BY <1>4 DEF OnceInv, DecisionRow, Lookup, Modes, ConsumeAndRecord, Consumable, DecisionFor, TtlExpiry
<1>5. ASSUME NEW d \in Decisions, Revoke(d)
      PROVE  OnceInv'
    BY <1>5 DEF OnceInv, DecisionRow, Lookup, Modes, Revoke
<1>6. ASSUME NEW r \in Readers, NEW a \in Agents, NEW d \in Decisions, LookupByScope(r, a, d)
      PROVE  OnceInv'
    BY <1>6 DEF OnceInv, DecisionRow, Lookup, Modes, LookupByScope, Candidates, Select
<1>7. ASSUME NEW r \in Readers, NEW q \in Requests, LookupByRequest(r, q)
      PROVE  OnceInv'
    BY <1>7 DEF OnceInv, DecisionRow, Lookup, Modes, LookupByRequest, Select
<1>8. ASSUME NEW r \in Readers, DriftRevoke(r)
      PROVE  OnceInv'
    BY <1>8 DEF OnceInv, DecisionRow, Lookup, Modes, DriftRevoke, Drifted, InForce, Idle, NoLookup, Row
<1>9. ASSUME NEW r \in Readers, GrantOnce(r)
      PROVE  OnceInv'
    BY <1>9 DEF OnceInv, DecisionRow, Lookup, Modes, GrantOnce, Burned, Allows, InForce, Idle, NoLookup, Row, Granted, CountedUses
<1>10. ASSUME NEW r \in Readers, GrantTtl(r)
      PROVE  OnceInv'
    BY <1>10 DEF OnceInv, DecisionRow, Lookup, Modes, GrantTtl, Allows, InForce, Idle, NoLookup, Row, Granted, CountedUses, Renewed, Window
<1>11. ASSUME NEW r \in Readers, GrantAlways(r)
      PROVE  OnceInv'
    BY <1>11 DEF OnceInv, DecisionRow, Lookup, Modes, GrantAlways, Allows, InForce, Idle, NoLookup, Row, Granted, CountedUses
<1>12. ASSUME NEW r \in Readers, Refuse(r)
      PROVE  OnceInv'
    BY <1>12 DEF OnceInv, DecisionRow, Lookup, Modes, Refuse, Idle, NoLookup
<1>13. ASSUME NEW c \in Canons, ChangeApprovers(c)
      PROVE  OnceInv'
    BY <1>13 DEF OnceInv, DecisionRow, Lookup, Modes, ChangeApprovers
<1>14. CASE Tick
    BY <1>14 DEF OnceInv, DecisionRow, Lookup, Modes, Tick
<1>15. CASE UNCHANGED vars
    BY <1>15 DEF OnceInv, DecisionRow, Lookup, Modes, vars
<1> QED
    BY <1>1, <1>2, <1>3, <1>4, <1>5, <1>6, <1>7, <1>8, <1>9, <1>10, <1>11, <1>12, <1>13, <1>14, <1>15, <1>16 DEF Next, Answer

\* Recording clamps the expiry, renewing caps it, and a grant needs an unexpired
\* snapshot.
LEMMA ExpiryStep == Inv /\ [Next]_vars => ExpiryInv'
<1> SUFFICES ASSUME Inv, [Next]_vars PROVE ExpiryInv'
    OBVIOUS
<1> USE KernelAssumption DEF Inv, TypeOK, Recorded, NULL, tables, seen
<1>16. ASSUME NEW p \in Servers, NEW q \in Requests, CheckCaps(p, q)
      PROVE  ExpiryInv'
    BY <1>16 DEF ExpiryInv, OnceInv, SnapshotInv, DecisionRow, Lookup, Modes, CheckCaps
<1>1. ASSUME NEW p \in Servers, Request(p)
      PROVE  ExpiryInv'
    BY <1>1 DEF ExpiryInv, OnceInv, SnapshotInv, DecisionRow, Lookup, Modes, Request
<1>2. ASSUME NEW q \in Requests, Consume(q)
      PROVE  ExpiryInv'
    BY <1>2 DEF ExpiryInv, OnceInv, SnapshotInv, DecisionRow, Lookup, Modes, Consume, Consumable
<1>3. ASSUME NEW q \in Requests, NEW d \in Decisions, NEW mode \in Modes, NEW ttl \in TtlChoices, Record(q, d, mode, ttl)
      PROVE  ExpiryInv'
    BY <1>3 DEF ExpiryInv, OnceInv, SnapshotInv, DecisionRow, Lookup, Modes, Record, DecisionFor, TtlExpiry
<1>4. ASSUME NEW q \in Requests, NEW d \in Decisions, NEW mode \in Modes, NEW ttl \in TtlChoices, ConsumeAndRecord(q, d, mode, ttl)
      PROVE  ExpiryInv'
    BY <1>4 DEF ExpiryInv, OnceInv, SnapshotInv, DecisionRow, Lookup, Modes, ConsumeAndRecord, Consumable, DecisionFor, TtlExpiry
<1>5. ASSUME NEW d \in Decisions, Revoke(d)
      PROVE  ExpiryInv'
    BY <1>5 DEF ExpiryInv, OnceInv, SnapshotInv, DecisionRow, Lookup, Modes, Revoke
<1>6. ASSUME NEW r \in Readers, NEW a \in Agents, NEW d \in Decisions, LookupByScope(r, a, d)
      PROVE  ExpiryInv'
    BY <1>6 DEF ExpiryInv, OnceInv, SnapshotInv, DecisionRow, Lookup, Modes, LookupByScope, Candidates, Select
<1>7. ASSUME NEW r \in Readers, NEW q \in Requests, LookupByRequest(r, q)
      PROVE  ExpiryInv'
    BY <1>7 DEF ExpiryInv, OnceInv, SnapshotInv, DecisionRow, Lookup, Modes, LookupByRequest, Select
<1>8. ASSUME NEW r \in Readers, DriftRevoke(r)
      PROVE  ExpiryInv'
    BY <1>8 DEF ExpiryInv, OnceInv, SnapshotInv, DecisionRow, Lookup, Modes, DriftRevoke, Drifted, InForce, Idle, NoLookup, Row
<1>9. ASSUME NEW r \in Readers, GrantOnce(r)
      PROVE  ExpiryInv'
    BY <1>9 DEF ExpiryInv, OnceInv, SnapshotInv, DecisionRow, Lookup, Modes, GrantOnce, Burned, Allows, InForce, Idle, NoLookup, Row, Granted, CountedUses
<1>10. ASSUME NEW r \in Readers, GrantTtl(r)
      PROVE  ExpiryInv'
    BY <1>10 DEF ExpiryInv, OnceInv, SnapshotInv, DecisionRow, Lookup, Modes, GrantTtl, Allows, InForce, Idle, NoLookup, Row, Granted, CountedUses, Renewed, Window
<1>11. ASSUME NEW r \in Readers, GrantAlways(r)
      PROVE  ExpiryInv'
    BY <1>11 DEF ExpiryInv, OnceInv, SnapshotInv, DecisionRow, Lookup, Modes, GrantAlways, Allows, InForce, Idle, NoLookup, Row, Granted, CountedUses
<1>12. ASSUME NEW r \in Readers, Refuse(r)
      PROVE  ExpiryInv'
    BY <1>12 DEF ExpiryInv, OnceInv, SnapshotInv, DecisionRow, Lookup, Modes, Refuse, Idle, NoLookup
<1>13. ASSUME NEW c \in Canons, ChangeApprovers(c)
      PROVE  ExpiryInv'
    BY <1>13 DEF ExpiryInv, OnceInv, SnapshotInv, DecisionRow, Lookup, Modes, ChangeApprovers
<1>14. CASE Tick
    BY <1>14 DEF ExpiryInv, OnceInv, SnapshotInv, DecisionRow, Lookup, Modes, Tick
<1>15. CASE UNCHANGED vars
    BY <1>15 DEF ExpiryInv, OnceInv, SnapshotInv, DecisionRow, Lookup, Modes, vars
<1> QED
    BY <1>1, <1>2, <1>3, <1>4, <1>5, <1>6, <1>7, <1>8, <1>9, <1>10, <1>11, <1>12, <1>13, <1>14, <1>15, <1>16 DEF Next, Answer

\* A renewal by another lookup neither adds nor removes an expiry, so a stale
\* snapshot stays bounded.
LEMMA SnapshotStep == Inv /\ [Next]_vars => SnapshotInv'
<1> SUFFICES ASSUME Inv, [Next]_vars PROVE SnapshotInv'
    OBVIOUS
<1> USE KernelAssumption DEF Inv, TypeOK, Recorded, NULL, tables, seen
<1>16. ASSUME NEW p \in Servers, NEW q \in Requests, CheckCaps(p, q)
      PROVE  SnapshotInv'
    BY <1>16 DEF SnapshotInv, ExpiryInv, Row, DecisionRow, Lookup, Modes, CheckCaps
<1>1. ASSUME NEW p \in Servers, Request(p)
      PROVE  SnapshotInv'
    BY <1>1 DEF SnapshotInv, ExpiryInv, Row, DecisionRow, Lookup, Modes, Request
<1>2. ASSUME NEW q \in Requests, Consume(q)
      PROVE  SnapshotInv'
    BY <1>2 DEF SnapshotInv, ExpiryInv, Row, DecisionRow, Lookup, Modes, Consume, Consumable
<1>3. ASSUME NEW q \in Requests, NEW d \in Decisions, NEW mode \in Modes, NEW ttl \in TtlChoices, Record(q, d, mode, ttl)
      PROVE  SnapshotInv'
    BY <1>3 DEF SnapshotInv, ExpiryInv, Row, DecisionRow, Lookup, Modes, Record, DecisionFor, TtlExpiry
<1>4. ASSUME NEW q \in Requests, NEW d \in Decisions, NEW mode \in Modes, NEW ttl \in TtlChoices, ConsumeAndRecord(q, d, mode, ttl)
      PROVE  SnapshotInv'
    BY <1>4 DEF SnapshotInv, ExpiryInv, Row, DecisionRow, Lookup, Modes, ConsumeAndRecord, Consumable, DecisionFor, TtlExpiry
<1>5. ASSUME NEW d \in Decisions, Revoke(d)
      PROVE  SnapshotInv'
    BY <1>5 DEF SnapshotInv, ExpiryInv, Row, DecisionRow, Lookup, Modes, Revoke
<1>6. ASSUME NEW r \in Readers, NEW a \in Agents, NEW d \in Decisions, LookupByScope(r, a, d)
      PROVE  SnapshotInv'
    BY <1>6 DEF SnapshotInv, ExpiryInv, Row, DecisionRow, Lookup, Modes, LookupByScope, Candidates, Select
<1>7. ASSUME NEW r \in Readers, NEW q \in Requests, LookupByRequest(r, q)
      PROVE  SnapshotInv'
  <2>1. nonces[q].decision \in Decisions
      BY <1>7 DEF NonceRow, LookupByRequest
  <2> QED
      BY <1>7, <2>1 DEF SnapshotInv, ExpiryInv, Row, DecisionRow, Lookup, LookupByRequest, Select
<1>8. ASSUME NEW r \in Readers, DriftRevoke(r)
      PROVE  SnapshotInv'
    BY <1>8 DEF SnapshotInv, ExpiryInv, Row, DecisionRow, Lookup, Modes, DriftRevoke, Drifted, InForce, Idle, NoLookup, Row
<1>9. ASSUME NEW r \in Readers, GrantOnce(r)
      PROVE  SnapshotInv'
    BY <1>9 DEF SnapshotInv, ExpiryInv, Row, DecisionRow, Lookup, Modes, GrantOnce, Burned, Allows, InForce, Idle, NoLookup, Row, Granted, CountedUses
<1>10. ASSUME NEW r \in Readers, GrantTtl(r)
      PROVE  SnapshotInv'
    BY <1>10 DEF SnapshotInv, ExpiryInv, Row, DecisionRow, Lookup, Modes, GrantTtl, Allows, InForce, Idle, NoLookup, Row, Granted, CountedUses, Renewed, Window
<1>11. ASSUME NEW r \in Readers, GrantAlways(r)
      PROVE  SnapshotInv'
    BY <1>11 DEF SnapshotInv, ExpiryInv, Row, DecisionRow, Lookup, Modes, GrantAlways, Allows, InForce, Idle, NoLookup, Row, Granted, CountedUses
<1>12. ASSUME NEW r \in Readers, Refuse(r)
      PROVE  SnapshotInv'
    BY <1>12 DEF SnapshotInv, ExpiryInv, Row, DecisionRow, Lookup, Modes, Refuse, Idle, NoLookup
<1>13. ASSUME NEW c \in Canons, ChangeApprovers(c)
      PROVE  SnapshotInv'
    BY <1>13 DEF SnapshotInv, ExpiryInv, Row, DecisionRow, Lookup, Modes, ChangeApprovers
<1>14. CASE Tick
    BY <1>14 DEF SnapshotInv, ExpiryInv, Row, DecisionRow, Lookup, Modes, Tick
<1>15. CASE UNCHANGED vars
    BY <1>15 DEF SnapshotInv, ExpiryInv, Row, DecisionRow, Lookup, Modes, vars
<1> QED
    BY <1>1, <1>2, <1>3, <1>4, <1>5, <1>6, <1>7, <1>8, <1>9, <1>10, <1>11, <1>12, <1>13, <1>14, <1>15, <1>16 DEF Next, Answer

\* A nonce is consumed once, after it was opened and before it expires.
LEMMA NonceStep == Inv /\ [Next]_vars => NonceInv'
<1> SUFFICES ASSUME Inv, [Next]_vars PROVE NonceInv'
    OBVIOUS
<1> USE KernelAssumption DEF Inv, TypeOK, Recorded, NULL, tables, seen
<1>16. ASSUME NEW p \in Servers, NEW q \in Requests, CheckCaps(p, q)
      PROVE  NonceInv'
    BY <1>16 DEF NonceInv, NonceRow, DecisionRow, CheckCaps
<1>1. ASSUME NEW p \in Servers, Request(p)
      PROVE  NonceInv'
    BY <1>1 DEF AskInv, NonceInv, NonceRow, DecisionRow, Request
<1>2. ASSUME NEW q \in Requests, Consume(q)
      PROVE  NonceInv'
    BY <1>2 DEF NonceInv, NonceRow, DecisionRow, Consume, Consumable
<1>3. ASSUME NEW q \in Requests, NEW d \in Decisions, NEW mode \in Modes, NEW ttl \in TtlChoices, Record(q, d, mode, ttl)
      PROVE  NonceInv'
    BY <1>3 DEF NonceInv, NonceRow, DecisionRow, Record, DecisionFor, TtlExpiry
<1>4. ASSUME NEW q \in Requests, NEW d \in Decisions, NEW mode \in Modes, NEW ttl \in TtlChoices, ConsumeAndRecord(q, d, mode, ttl)
      PROVE  NonceInv'
    BY <1>4 DEF NonceInv, NonceRow, DecisionRow, ConsumeAndRecord, Consumable, DecisionFor, TtlExpiry
<1>5. ASSUME NEW d \in Decisions, Revoke(d)
      PROVE  NonceInv'
    BY <1>5 DEF NonceInv, NonceRow, DecisionRow, Revoke
<1>6. ASSUME NEW r \in Readers, NEW a \in Agents, NEW d \in Decisions, LookupByScope(r, a, d)
      PROVE  NonceInv'
    BY <1>6 DEF NonceInv, NonceRow, DecisionRow, LookupByScope, Candidates, Select
<1>7. ASSUME NEW r \in Readers, NEW q \in Requests, LookupByRequest(r, q)
      PROVE  NonceInv'
    BY <1>7 DEF NonceInv, NonceRow, DecisionRow, LookupByRequest, Select
<1>8. ASSUME NEW r \in Readers, DriftRevoke(r)
      PROVE  NonceInv'
    BY <1>8 DEF NonceInv, NonceRow, DecisionRow, DriftRevoke, Drifted, InForce, Idle, NoLookup, Row
<1>9. ASSUME NEW r \in Readers, GrantOnce(r)
      PROVE  NonceInv'
    BY <1>9 DEF NonceInv, NonceRow, DecisionRow, GrantOnce, Burned, Allows, InForce, Idle, NoLookup, Row, Granted, CountedUses
<1>10. ASSUME NEW r \in Readers, GrantTtl(r)
      PROVE  NonceInv'
    BY <1>10 DEF NonceInv, NonceRow, DecisionRow, GrantTtl, Allows, InForce, Idle, NoLookup, Row, Granted, CountedUses, Renewed, Window
<1>11. ASSUME NEW r \in Readers, GrantAlways(r)
      PROVE  NonceInv'
    BY <1>11 DEF NonceInv, NonceRow, DecisionRow, GrantAlways, Allows, InForce, Idle, NoLookup, Row, Granted, CountedUses
<1>12. ASSUME NEW r \in Readers, Refuse(r)
      PROVE  NonceInv'
    BY <1>12 DEF NonceInv, NonceRow, DecisionRow, Refuse, Idle, NoLookup
<1>13. ASSUME NEW c \in Canons, ChangeApprovers(c)
      PROVE  NonceInv'
    BY <1>13 DEF NonceInv, NonceRow, DecisionRow, ChangeApprovers
<1>14. CASE Tick
    BY <1>14 DEF NonceInv, NonceRow, DecisionRow, Tick
<1>15. CASE UNCHANGED vars
    BY <1>15 DEF NonceInv, NonceRow, DecisionRow, vars
<1> QED
    BY <1>1, <1>2, <1>3, <1>4, <1>5, <1>6, <1>7, <1>8, <1>9, <1>10, <1>11, <1>12, <1>13, <1>14, <1>15, <1>16 DEF Next, Answer

\* Rows are linked when a decision is recorded and never relinked to another
\* request.
LEMMA LinkStep == Inv /\ [Next]_vars => LinkInv'
<1> SUFFICES ASSUME Inv, [Next]_vars PROVE LinkInv'
    OBVIOUS
<1> USE KernelAssumption DEF Inv, TypeOK, Recorded, NULL, tables, seen
<1>16. ASSUME NEW p \in Servers, NEW q \in Requests, CheckCaps(p, q)
      PROVE  LinkInv'
    BY <1>16 DEF LinkInv, NonceInv, NonceRow, DecisionRow, Lookup, CheckCaps
<1>1. ASSUME NEW p \in Servers, Request(p)
      PROVE  LinkInv'
    BY <1>1 DEF AskInv, LinkInv, NonceInv, NonceRow, DecisionRow, Lookup, Request
<1>2. ASSUME NEW q \in Requests, Consume(q)
      PROVE  LinkInv'
    BY <1>2 DEF LinkInv, NonceInv, NonceRow, DecisionRow, Lookup, Consume, Consumable
<1>3. ASSUME NEW q \in Requests, NEW d \in Decisions, NEW mode \in Modes, NEW ttl \in TtlChoices, Record(q, d, mode, ttl)
      PROVE  LinkInv'
    BY <1>3 DEF LinkInv, NonceInv, NonceRow, DecisionRow, Lookup, Record, DecisionFor, TtlExpiry
<1>4. ASSUME NEW q \in Requests, NEW d \in Decisions, NEW mode \in Modes, NEW ttl \in TtlChoices, ConsumeAndRecord(q, d, mode, ttl)
      PROVE  LinkInv'
    BY <1>4 DEF LinkInv, NonceInv, NonceRow, DecisionRow, Lookup, ConsumeAndRecord, Consumable, DecisionFor, TtlExpiry
<1>5. ASSUME NEW d \in Decisions, Revoke(d)
      PROVE  LinkInv'
    BY <1>5 DEF LinkInv, NonceInv, NonceRow, DecisionRow, Lookup, Revoke
<1>6. ASSUME NEW r \in Readers, NEW a \in Agents, NEW d \in Decisions, LookupByScope(r, a, d)
      PROVE  LinkInv'
    BY <1>6 DEF LinkInv, NonceInv, NonceRow, DecisionRow, Lookup, LookupByScope, Candidates, Select
<1>7. ASSUME NEW r \in Readers, NEW q \in Requests, LookupByRequest(r, q)
      PROVE  LinkInv'
  <2>1. /\ nonces[q].decision \in Decisions
        /\ decisions[nonces[q].decision].request = q
      BY <1>7 DEF LinkInv, NonceRow, LookupByRequest
  <2>2. /\ UNCHANGED <<nonces, decisions>>
        /\ readers'[r].dec = nonces[q].decision /\ readers'[r].request = q
        /\ \A x \in Readers : x # r => readers'[x] = readers[x]
      BY <1>7 DEF LookupByRequest, Select
  <2> QED
      BY <2>1, <2>2 DEF LinkInv
<1>8. ASSUME NEW r \in Readers, DriftRevoke(r)
      PROVE  LinkInv'
    BY <1>8 DEF LinkInv, NonceInv, NonceRow, DecisionRow, Lookup, DriftRevoke, Drifted, InForce, Idle, NoLookup, Row
<1>9. ASSUME NEW r \in Readers, GrantOnce(r)
      PROVE  LinkInv'
    BY <1>9 DEF LinkInv, NonceInv, NonceRow, DecisionRow, Lookup, GrantOnce, Burned, Allows, InForce, Idle, NoLookup, Row, Granted, CountedUses
<1>10. ASSUME NEW r \in Readers, GrantTtl(r)
      PROVE  LinkInv'
    BY <1>10 DEF LinkInv, NonceInv, NonceRow, DecisionRow, Lookup, GrantTtl, Allows, InForce, Idle, NoLookup, Row, Granted, CountedUses, Renewed, Window
<1>11. ASSUME NEW r \in Readers, GrantAlways(r)
      PROVE  LinkInv'
    BY <1>11 DEF LinkInv, NonceInv, NonceRow, DecisionRow, Lookup, GrantAlways, Allows, InForce, Idle, NoLookup, Row, Granted, CountedUses
<1>12. ASSUME NEW r \in Readers, Refuse(r)
      PROVE  LinkInv'
    BY <1>12 DEF LinkInv, NonceInv, NonceRow, DecisionRow, Lookup, Refuse, Idle, NoLookup
<1>13. ASSUME NEW c \in Canons, ChangeApprovers(c)
      PROVE  LinkInv'
    BY <1>13 DEF LinkInv, NonceInv, NonceRow, DecisionRow, Lookup, ChangeApprovers
<1>14. CASE Tick
    BY <1>14 DEF LinkInv, NonceInv, NonceRow, DecisionRow, Lookup, Tick
<1>15. CASE UNCHANGED vars
    BY <1>15 DEF LinkInv, NonceInv, NonceRow, DecisionRow, Lookup, vars
<1> QED
    BY <1>1, <1>2, <1>3, <1>4, <1>5, <1>6, <1>7, <1>8, <1>9, <1>10, <1>11, <1>12, <1>13, <1>14, <1>15, <1>16 DEF Next, Answer

\* A row is inserted once: only the process that asks for a request inserts it.
LEMMA AskStep == Inv /\ [Next]_vars => AskInv'
<1> SUFFICES ASSUME Inv, [Next]_vars PROVE AskInv'
    OBVIOUS
<1> USE KernelAssumption DEF Inv, TypeOK, NULL
<1>1. ASSUME NEW p \in Servers, NEW q \in Requests, CheckCaps(p, q) PROVE AskInv'
    BY <1>1 DEF CheckCaps, AskInv, tables
<1>2. ASSUME NEW p \in Servers, Request(p) PROVE AskInv'
  <2>1. /\ asking[p] \in Requests
        /\ \A o \in Servers : asking'[o] # None => asking'[o] = asking[o] /\ o # p
        /\ \A q \in Requests : q # asking[p] => nonces'[q] = nonces[q]
    BY <1>2 DEF Request
  <2> QED
    BY <2>1 DEF AskInv
<1>3. ASSUME NEW q \in Requests, Consume(q) PROVE AskInv'
  <2>1. asking' = asking /\ \A x \in Requests : nonces'[x].created = nonces[x].created
    BY <1>3 DEF Consume, NonceRow
  <2> QED
    BY <2>1 DEF AskInv
<1>4. ASSUME NEW q \in Requests, NEW d \in Decisions, NEW mode \in Modes, NEW ttl,
             Record(q, d, mode, ttl) \/ ConsumeAndRecord(q, d, mode, ttl)
      PROVE  AskInv'
  <2>1. asking' = asking /\ \A x \in Requests : nonces'[x].created = nonces[x].created
    <3>1. \A x \in Requests : x # q => nonces'[x] = nonces[x]
      BY <1>4 DEF Record, ConsumeAndRecord
    <3>2. CASE Record(q, d, mode, ttl)
      BY <3>1, <3>2 DEF Record, NonceRow
    <3>3. CASE ConsumeAndRecord(q, d, mode, ttl)
      BY <3>1, <3>3, Zenon DEF ConsumeAndRecord, NonceRow
    <3> QED
      BY <1>4, <3>2, <3>3
  <2> QED
    BY <2>1 DEF AskInv
<1>5. CASE UNCHANGED <<asking, nonces>>
    BY <1>5 DEF AskInv
<1>6. ASSUME NEW r \in Readers, Answer(r) PROVE UNCHANGED <<asking, nonces>>
    BY <1>6 DEF Answer, DriftRevoke, GrantOnce, GrantTtl, GrantAlways, Refuse, tables
<1>7. CASE \/ \E d \in Decisions : Revoke(d)
           \/ \E r \in Readers, a \in Agents, d \in Decisions : LookupByScope(r, a, d)
           \/ \E r \in Readers, q \in Requests : LookupByRequest(r, q)
           \/ \E c \in Canons : ChangeApprovers(c)
           \/ Tick
           \/ UNCHANGED vars
    BY <1>5, <1>7 DEF Revoke, LookupByScope, LookupByRequest, Select, ChangeApprovers, Tick, tables, vars
<1> QED
    BY <1>1, <1>2, <1>3, <1>4, <1>5, <1>6, <1>7 DEF Next

LEMMA NextInv == Inv /\ [Next]_vars => Inv'
BY TypeStep, OnceStep, ExpiryStep, SnapshotStep, NonceStep, LinkStep, AskStep DEF Inv

LEMMA KernelInv == Spec => []Inv
BY InitInv, NextInv, PTL DEF Spec

\* Rows, snapshots and observations keep their types in every execution: only a timed
\* grant ever has an expiry, and a running lookup holds a recorded row.
THEOREM KernelTypeCorrect == Spec => []TypeOK
<1>1. Inv => TypeOK
    BY DEF Inv
<1> QED
    BY <1>1, KernelInv, PTL

\* An allow_once decision grants at most one lookup, however many processes look
\* it up at once (the conditional UPDATE of evaluateDecisionRow).
THEOREM OnceOnly == Spec => []AllowOnceAtMostOnce
<1>1. Inv => AllowOnceAtMostOnce
    BY DEF Inv, TypeOK, OnceInv, AllowOnceAtMostOnce
<1> QED
    BY <1>1, KernelInv, PTL

\* No lookup is granted by a timed decision later than its grant plus the maximal
\* lifetime, although renewals of concurrent lookups write from stale snapshots
\* (recordDecision's clamp and evaluateDecisionRow's hard cap).
THEOREM TimedEnds == Spec => []TimedGrantEnds
<1>1. Inv => TimedGrantEnds
    BY DEF Inv, ExpiryInv, TimedGrantEnds
<1> QED
    BY <1>1, KernelInv, PTL

\* Every decision stems from a request that was consumed in time, and a verdict
\* read by request id is that request's own (consumeNonce, recordDecision,
\* lookupDecisionByRequestId).
THEOREM Traced == Spec => []DecisionTraced
<1>1. Inv => DecisionTraced
    BY DEF Inv, NonceInv, LinkInv, DecisionTraced, NULL
<1> QED
    BY <1>1, KernelInv, PTL

-----------------------------------------------------------------------------
(* The caps on open cards.                                                  *)

\* Requests and servers are finitely many, and so are those that count.
LEMMA CapsFinite ==
    /\ IsFiniteSet(Pending) /\ IsFiniteSet(Pending')
    /\ IsFiniteSet(Admitted) /\ IsFiniteSet(Admitted')
    /\ \A a : IsFiniteSet(PendingOf(a)) /\ IsFiniteSet(PendingOf(a)')
    /\ \A a : IsFiniteSet(AdmittedOf(a)) /\ IsFiniteSet(AdmittedOf(a)')
<1>1. Pending \subseteq Requests /\ Pending' \subseteq Requests
    BY DEF Pending
<1>2. Admitted \subseteq Servers /\ Admitted' \subseteq Servers
    BY DEF Admitted
<1>3. \A a : PendingOf(a) \subseteq Requests /\ PendingOf(a)' \subseteq Requests
    BY <1>1 DEF PendingOf
<1>4. \A a : AdmittedOf(a) \subseteq Servers /\ AdmittedOf(a)' \subseteq Servers
    BY <1>2 DEF AdmittedOf
<1> QED
    BY <1>1, <1>2, <1>3, <1>4, KernelAssumption, FS_Subset

\* Two smaller sets have no more elements together.
LEMMA SumKept ==
    ASSUME NEW S, NEW T, IsFiniteSet(S), IsFiniteSet(T),
           NEW U, NEW V, U \subseteq S, V \subseteq T
    PROVE  Cardinality(U) + Cardinality(V) <= Cardinality(S) + Cardinality(T)
<1>1. Cardinality(U) <= Cardinality(S) /\ IsFiniteSet(U)
    BY FS_Subset
<1>2. Cardinality(V) <= Cardinality(T) /\ IsFiniteSet(V)
    BY FS_Subset
<1>3. /\ Cardinality(U) \in Nat /\ Cardinality(S) \in Nat
      /\ Cardinality(V) \in Nat /\ Cardinality(T) \in Nat
    BY <1>1, <1>2, FS_CardinalityType
<1> QED
    BY <1>1, <1>2, <1>3

\* What leaves one set and enters the other is counted once.
LEMMA SumMoved ==
    ASSUME NEW S, NEW T, IsFiniteSet(S), IsFiniteSet(T), NEW q, NEW p \in T,
           NEW U, NEW V, U \subseteq S \cup {q}, V \subseteq T \ {p}
    PROVE  Cardinality(U) + Cardinality(V) <= Cardinality(S) + Cardinality(T)
<1>1. IsFiniteSet(S \cup {q}) /\ Cardinality(S \cup {q}) <= Cardinality(S) + 1
  <2>1. Cardinality(S) \in Nat
    BY FS_CardinalityType
  <2>2. CASE q \in S
    <3>1. S \cup {q} = S
        BY <2>2
    <3>2. Cardinality(S) <= Cardinality(S) + 1
        BY <2>1
    <3> QED
        BY <3>1, <3>2, Zenon
  <2>3. CASE q \notin S
    <3>1. IsFiniteSet(S \cup {q}) /\ Cardinality(S \cup {q}) = Cardinality(S) + 1
        BY <2>3, FS_AddElement
    <3> QED
        BY <2>1, <3>1
  <2> QED
    BY <2>2, <2>3
<1>2. IsFiniteSet(T \ {p}) /\ Cardinality(T \ {p}) = Cardinality(T) - 1
    BY FS_RemoveElement
<1>3. Cardinality(U) + Cardinality(V) <= Cardinality(S \cup {q}) + Cardinality(T \ {p})
    BY <1>1, <1>2, SumKept
<1>4. /\ Cardinality(S) \in Nat /\ Cardinality(T) \in Nat
      /\ Cardinality(S \cup {q}) \in Nat /\ Cardinality(T \ {p}) \in Nat
      /\ Cardinality(U) \in Nat /\ Cardinality(V) \in Nat
    BY <1>1, <1>2, FS_Subset, FS_CardinalityType
<1> QED
    BY <1>1, <1>2, <1>3, <1>4

\* A check that leaves a place free and a set of servers: the places of all but one
\* server are the overlap.
LEMMA SumAdmitted ==
    ASSUME NEW S, IsFiniteSet(S), NEW V, V \subseteq Servers, NEW n \in Nat,
           Cardinality(S) < n
    PROVE  Cardinality(S) + Cardinality(V) <= n + Overlap
<1>1. Cardinality(V) <= Cardinality(Servers) /\ IsFiniteSet(V)
    BY KernelAssumption, FS_Subset
<1>2. Cardinality(S) \in Nat /\ Cardinality(V) \in Nat /\ Cardinality(Servers) \in Nat
    BY <1>1, KernelAssumption, FS_CardinalityType
<1> QED
    BY <1>1, <1>2 DEF Overlap

\* All counts are numbers.
LEMMA CapsNumbers ==
    /\ MaxGlobal + Overlap \in Int /\ MaxPerAgent + Overlap \in Int
    /\ Cardinality(Pending) + Cardinality(Admitted) \in Int
    /\ Cardinality(Pending') + Cardinality(Admitted') \in Int
    /\ \A a : /\ Cardinality(PendingOf(a)) + Cardinality(AdmittedOf(a)) \in Int
              /\ Cardinality(PendingOf(a)') + Cardinality(AdmittedOf(a)') \in Int
<1>1. Cardinality(Servers) \in Nat /\ MaxGlobal \in Nat /\ MaxPerAgent \in Nat
    BY KernelAssumption, FS_CardinalityType
<1>2. /\ Cardinality(Pending) \in Nat /\ Cardinality(Admitted) \in Nat
      /\ Cardinality(Pending') \in Nat /\ Cardinality(Admitted') \in Nat
      /\ \A a : Cardinality(PendingOf(a)) \in Nat /\ Cardinality(AdmittedOf(a)) \in Nat
      /\ \A a : Cardinality(PendingOf(a)') \in Nat /\ Cardinality(AdmittedOf(a)') \in Nat
    BY CapsFinite, FS_CardinalityType
<1> QED
    BY <1>1, <1>2 DEF Overlap

\* The counts do not grow: the caps still hold.
LEMMA CapsKept ==
    ASSUME PendingCapped, Pending' \subseteq Pending, UNCHANGED asking
    PROVE  PendingCapped'
<1>1. Admitted' = Admitted /\ \A a : AdmittedOf(a)' = AdmittedOf(a)
    BY DEF Admitted, AdmittedOf
<1>2. Cardinality(Pending') + Cardinality(Admitted')
        <= Cardinality(Pending) + Cardinality(Admitted)
    BY <1>1, CapsFinite, SumKept
<1>3. ASSUME NEW a \in Agents
      PROVE  Cardinality(PendingOf(a)') + Cardinality(AdmittedOf(a)')
               <= Cardinality(PendingOf(a)) + Cardinality(AdmittedOf(a))
    <2>1. PendingOf(a)' \subseteq PendingOf(a)
        BY DEF PendingOf
    <2> QED
        BY <1>1, <2>1, CapsFinite, SumKept
<1> QED
    BY <1>2, <1>3, CapsNumbers DEF PendingCapped, Overlap

\* A process that passes the check found a free place; the other processes hold at
\* most one request each.
LEMMA CheckStep ==
    ASSUME TypeOK, PendingCapped, NEW p \in Servers, NEW q \in Requests, CheckCaps(p, q)
    PROVE  PendingCapped'
<1>1. Pending' = Pending /\ \A a : PendingOf(a)' = PendingOf(a)
    BY DEF CheckCaps, Pending, PendingOf, tables
<1>2. Admitted' \subseteq Servers /\ \A a : AdmittedOf(a)' \subseteq Servers
    BY DEF Admitted, AdmittedOf
<1>3. /\ Cardinality(Pending) < MaxGlobal
      /\ Cardinality(PendingOf(AgentOf[q])) < MaxPerAgent
    BY DEF CheckCaps, UnderCaps
<1>4. Cardinality(Pending') + Cardinality(Admitted') <= MaxGlobal + Overlap
    BY <1>1, <1>2, <1>3, CapsFinite, SumAdmitted, KernelAssumption
<1>5. ASSUME NEW a \in Agents
      PROVE  Cardinality(PendingOf(a)') + Cardinality(AdmittedOf(a)') <= MaxPerAgent + Overlap
  <2>1. CASE a = AgentOf[q]
    BY <1>1, <1>2, <1>3, <2>1, CapsFinite, SumAdmitted, KernelAssumption
  <2>2. CASE a # AgentOf[q]
    <3>1. AdmittedOf(a)' \subseteq AdmittedOf(a)
      BY <2>2 DEF CheckCaps, AdmittedOf, Admitted, TypeOK
    <3>2. Cardinality(PendingOf(a)') + Cardinality(AdmittedOf(a)')
            <= Cardinality(PendingOf(a)) + Cardinality(AdmittedOf(a))
      BY <1>1, <3>1, CapsFinite, SumKept
    <3> QED
      BY <3>2, CapsNumbers DEF PendingCapped
  <2> QED
    BY <2>1, <2>2
<1> QED
    BY <1>4, <1>5 DEF PendingCapped, Overlap

\* The INSERT turns an admitted request into a pending one.
LEMMA InsertStep ==
    ASSUME TypeOK, PendingCapped, NEW p \in Servers, Request(p)
    PROVE  PendingCapped'
<1> DEFINE q == asking[p]
<1>1. Pending' \subseteq Pending \cup {q} /\ Admitted' \subseteq Admitted \ {p} /\ p \in Admitted
    BY DEF Request, Pending, Admitted, TypeOK
<1>2. \A o \in Servers : o # p => asking'[o] = asking[o]
    BY DEF Request, TypeOK
<1>3. Cardinality(Pending') + Cardinality(Admitted')
        <= Cardinality(Pending) + Cardinality(Admitted)
    BY <1>1, CapsFinite, SumMoved
<1>4. ASSUME NEW a \in Agents
      PROVE  Cardinality(PendingOf(a)') + Cardinality(AdmittedOf(a)')
               <= Cardinality(PendingOf(a)) + Cardinality(AdmittedOf(a))
  <2>1. CASE a = AgentOf[q]
    <3>1. PendingOf(a)' \subseteq PendingOf(a) \cup {q}
      BY <1>1 DEF PendingOf
    <3>2. AdmittedOf(a)' \subseteq AdmittedOf(a) \ {p} /\ p \in AdmittedOf(a)
      BY <1>1, <1>2, <2>1 DEF AdmittedOf, Admitted
    <3> QED
      BY <3>1, <3>2, CapsFinite, SumMoved
  <2>2. CASE a # AgentOf[q]
    <3>1. PendingOf(a)' \subseteq PendingOf(a)
      BY <1>1, <2>2 DEF PendingOf
    <3>2. AdmittedOf(a)' \subseteq AdmittedOf(a)
      BY <1>1, <1>2 DEF AdmittedOf, Admitted
    <3> QED
      BY <3>1, <3>2, CapsFinite, SumKept
  <2> QED
    BY <2>1, <2>2
<1> QED
    BY <1>3, <1>4, CapsNumbers DEF PendingCapped, Overlap

LEMMA CapsStep == TypeOK /\ PendingCapped /\ [Next]_vars => PendingCapped'
<1> SUFFICES ASSUME TypeOK, PendingCapped, [Next]_vars PROVE PendingCapped'
    OBVIOUS
<1>1. ASSUME NEW p \in Servers, NEW q \in Requests, CheckCaps(p, q) PROVE PendingCapped'
    BY <1>1, CheckStep
<1>9. ASSUME NEW p \in Servers, Request(p) PROVE PendingCapped'
    BY <1>9, InsertStep
<1>2. ASSUME NEW q \in Requests, Consume(q) PROVE Pending' \subseteq Pending /\ UNCHANGED asking
  <2>1. \A p \in Requests : p # q => nonces'[p] = nonces[p]
    BY <1>2 DEF Consume, TypeOK
  <2>2. nonces'[q].consumed # NULL /\ now' = now
    BY <1>2 DEF Consume, TypeOK, NonceRow, NULL
  <2> QED
    BY <1>2, <2>1, <2>2 DEF Pending, Consume
<1>3. ASSUME NEW q \in Requests, NEW d \in Decisions, NEW mode \in Modes, NEW ttl, Record(q, d, mode, ttl)
      PROVE  Pending' \subseteq Pending /\ UNCHANGED asking
  <2>1. \A p \in Requests : p # q => nonces'[p] = nonces[p]
    BY <1>3 DEF Record, TypeOK
  <2>2. nonces'[q].consumed # NULL /\ now' = now
    BY <1>3 DEF Record, TypeOK, NonceRow
  <2> QED
    BY <1>3, <2>1, <2>2 DEF Pending, Record
<1>4. ASSUME NEW q \in Requests, NEW d \in Decisions, NEW mode \in Modes, NEW ttl, ConsumeAndRecord(q, d, mode, ttl)
      PROVE  Pending' \subseteq Pending /\ UNCHANGED asking
  <2>1. \A p \in Requests : p # q => nonces'[p] = nonces[p]
    BY <1>4 DEF ConsumeAndRecord, TypeOK
  <2>2. nonces'[q].consumed # NULL /\ now' = now
    BY <1>4 DEF ConsumeAndRecord, TypeOK, NonceRow, NULL
  <2> QED
    BY <1>4, <2>1, <2>2 DEF Pending, ConsumeAndRecord
<1>5. CASE Tick
  <2>1. Pending' \subseteq Pending
    BY <1>5 DEF Tick, Pending, TypeOK, NonceRow, tables
  <2> QED
    BY <1>5, <2>1, CapsKept DEF Tick
<1>6. CASE UNCHANGED <<now, nonces, asking>>
  <2>1. Pending' = Pending
    BY <1>6 DEF Pending
  <2> QED
    BY <1>6, <2>1, CapsKept
<1>7. ASSUME NEW r \in Readers, Answer(r) PROVE UNCHANGED <<now, nonces, asking>>
    BY <1>7 DEF Answer, DriftRevoke, GrantOnce, GrantTtl, GrantAlways, Refuse, tables
<1>8. CASE \/ \E d \in Decisions : Revoke(d)
           \/ \E r \in Readers, a \in Agents, d \in Decisions : LookupByScope(r, a, d)
           \/ \E r \in Readers, q \in Requests : LookupByRequest(r, q)
           \/ \E c \in Canons : ChangeApprovers(c)
           \/ UNCHANGED vars
    BY <1>6, <1>8 DEF Revoke, LookupByScope, LookupByRequest, Select, ChangeApprovers, tables, vars
<1> QED
    BY <1>1, <1>2, <1>3, <1>4, <1>5, <1>6, <1>7, <1>8, <1>9, CapsKept DEF Next

\* The cards open at any time, with those a process has let past its check, exceed the
\* caps of one agent and of all agents by at most one for every process but the first,
\* for any caps and any numbers of agents, requests and processes: the SELECT and the
\* INSERT of approval_request are separate statements on a shared file.
THEOREM CapsHold == Spec => []PendingCapped
<1>1. Init => PendingCapped
  <2> SUFFICES ASSUME Init PROVE PendingCapped
    OBVIOUS
  <2>1. Pending = {} /\ Admitted = {}
    BY DEF Init, Pending, NoNonce, Admitted
  <2>2. \A a : PendingOf(a) = {} /\ AdmittedOf(a) = {}
    BY <2>1 DEF PendingOf, AdmittedOf
  <2>3. Cardinality(Servers) \in Nat /\ Cardinality(Servers) # 0
    BY KernelAssumption, FS_CardinalityType, FS_EmptySet
  <2>4. /\ Cardinality(Pending) = 0 /\ Cardinality(Admitted) = 0
        /\ \A a : Cardinality(PendingOf(a)) = 0 /\ Cardinality(AdmittedOf(a)) = 0
    BY <2>1, <2>2, FS_EmptySet
  <2>5. MaxGlobal + Overlap \in Nat /\ MaxPerAgent + Overlap \in Nat
    BY <2>3, KernelAssumption DEF Overlap
  <2> QED
    BY <2>4, <2>5 DEF PendingCapped, Overlap
<1> QED
    BY <1>1, KernelTypeCorrect, CapsStep, PTL DEF Spec
=============================================================================
