---------------------------- MODULE ApprovalKernel ----------------------------
(***************************************************************************)
(* The approval kernel (src/vault/approvals/kernel.ts) behind the request  *)
(* handler of kernel-server.ts: the nonce table, the decision table and    *)
(* the operations the sockets serve.                                       *)
(*                                                                         *)
(* A handler runs to completion in its process, but the database file is   *)
(* shared by two processes (the kernel server and the vault broker), so    *)
(* what a handler reads and what it then writes are two steps.  A request  *)
(* is the SELECT that counts the pending nonces and the INSERT; a lookup   *)
(* is the SELECT that snapshots a row, and the UPDATE and verdict computed *)
(* from that snapshot.  A lookup also keeps the clock value its call       *)
(* started with, and whether the caller's approver set then differed from  *)
(* the row's.                                                              *)
(*                                                                         *)
(* One (scope, action) per agent: two requests of one agent share a scope. *)
(* The listener ACL makes every operation one of the nonce's or decision's *)
(* own agent, so the calling agent is AgentOf the request.                 *)
(***************************************************************************)
EXTENDS Integers, FiniteSets

CONSTANTS
    Agents,
    Requests,       \* request ids
    AgentOf,        \* [Requests -> Agents]: agent_unit of the nonce
    Decisions,      \* decision ids
    Servers,        \* the processes that serve approval_request on the file
    Readers,        \* concurrent lookups, of either process
    Canons,         \* canonicalized approver sets
    NonceTtl,       \* ttl_ms of a request
    TtlChoices,     \* ttl_ms of an allow_ttl tap; NULL when it carries none
    MaxLifetime,    \* DEFAULT_MAX_TTL_LIFETIME_MS
    MaxPerAgent,    \* MAX_PENDING_PER_AGENT
    MaxGlobal,      \* MAX_PENDING_GLOBAL
    MaxTime         \* bound: the clock

\* Bound: grants of one decision are counted up to two.
CountedUses == 2

NULL == -1
None == "none"

Modes      == {"allow_once", "allow_always", "allow_ttl", "deny", "deny_perm"}

ASSUME KernelAssumption ==
    /\ IsFiniteSet(Agents) /\ IsFiniteSet(Requests)
    /\ IsFiniteSet(Servers) /\ Servers # {}
    /\ AgentOf \in [Requests -> Agents]
    /\ None \notin Decisions /\ None \notin Requests
    /\ NonceTtl \in Nat /\ TtlChoices \subseteq (Nat \ {0}) \cup {NULL}
    /\ MaxLifetime \in Nat /\ MaxPerAgent \in Nat /\ MaxGlobal \in Nat
    /\ MaxTime \in Nat

VARIABLES
    now,
    allowFrom,   \* the approver set the callers currently pass, canonicalized
    nonces,      \* approval_nonces: request -> row (created = NULL: no row)
    decisions,   \* approval_decisions: id -> row (granted = NULL: no row)
    asking,      \* server -> the request it has let past the caps, to be inserted
    readers,     \* lookups between their SELECT and their UPDATE
    \* observation only
    uses,        \* decision -> how many lookups it granted
    lastGrant    \* decision -> start of the latest lookup it granted

tables == <<nonces, decisions>>
seen   == <<uses, lastGrant>>
vars   == <<now, allowFrom, tables, asking, readers, seen>>

NonceRow == [created : Int, expires : Int, consumed : Int, decision : Decisions \cup {None}]
DecisionRow ==
    [request : Requests \cup {None}, mode : Modes, canon : Canons,
     granted : Int, ttl : Int, used : Int, revoked : Int]
Lookup ==
    [dec : Decisions \cup {None}, request : Requests \cup {None}, at : Int,
     drift : BOOLEAN, ttl : Int, used : Int]

NoNonce == [created |-> NULL, expires |-> NULL, consumed |-> NULL, decision |-> None]
NoLookup == [dec |-> None, request |-> None, at |-> NULL, drift |-> FALSE,
             ttl |-> NULL, used |-> NULL]

Init ==
    /\ now = 0
    /\ allowFrom \in Canons
    /\ nonces = [q \in Requests |-> NoNonce]
    /\ decisions = [d \in Decisions |->
         [request |-> None, mode |-> "deny", canon |-> allowFrom,
          granted |-> NULL, ttl |-> NULL, used |-> NULL, revoked |-> NULL]]
    /\ asking = [p \in Servers |-> None]
    /\ readers = [r \in Readers |-> NoLookup]
    /\ uses = [d \in Decisions |-> 0]
    /\ lastGrant = [d \in Decisions |-> NULL]

Recorded(d) == decisions[d].granted # NULL

-----------------------------------------------------------------------------
(* Requests and taps.                                                      *)

\* countPendingNonces: unconsumed and unexpired.
Pending == {q \in Requests : /\ nonces[q].created # NULL
                             /\ nonces[q].consumed = NULL
                             /\ nonces[q].expires > now}
PendingOf(a) == {q \in Pending : AgentOf[q] = a}

\* Variant: the caps read as bounds on what is pending before the new request.
UnderCapsLoose(a) ==
    /\ Cardinality(PendingOf(a)) <= MaxPerAgent
    /\ Cardinality(Pending) <= MaxGlobal

\* handleRequest rate-limits before it calls requestApproval, and so does the
\* broker's _handleApprovalOp.
UnderCaps(a) ==
    /\ Cardinality(PendingOf(a)) < MaxPerAgent
    /\ Cardinality(Pending) < MaxGlobal

CheckCaps(p, q) ==
    /\ asking[p] = None /\ nonces[q].created = NULL
    /\ \A o \in Servers : asking[o] # q
    /\ UnderCaps(AgentOf[q])
    /\ asking' = [asking EXCEPT ![p] = q]
    /\ UNCHANGED <<now, allowFrom, tables, readers, seen>>

\* requestApproval: the INSERT, whatever the other process has inserted meanwhile.
Request(p) ==
    /\ asking[p] # None
    /\ nonces' = [nonces EXCEPT ![asking[p]] =
         [created |-> now, expires |-> now + NonceTtl, consumed |-> NULL, decision |-> None]]
    /\ asking' = [asking EXCEPT ![p] = None]
    /\ UNCHANGED <<now, allowFrom, decisions, readers, seen>>

\* Variant: a consume that does not look at the expiry.
ConsumableLate(q) == nonces[q].created # NULL /\ nonces[q].consumed = NULL

\* consumeNonce succeeds: known, not past its expiry, first to set consumed_at.
Consumable(q) ==
    /\ nonces[q].created # NULL
    /\ nonces[q].expires >= now
    /\ nonces[q].consumed = NULL

\* Variant: an expiry for whatever decision carries a ttl_ms.
TtlExpiryOfAny(mode, ttl) ==
    IF ttl # NULL THEN now + (IF ttl < MaxLifetime THEN ttl ELSE MaxLifetime) ELSE NULL

\* recordDecision's ttl_expires_at, of a timed grant only, clamped at write time.
TtlExpiry(mode, ttl) ==
    IF mode = "allow_ttl" /\ ttl # NULL
    THEN now + (IF ttl < MaxLifetime THEN ttl ELSE MaxLifetime)
    ELSE NULL

\* recordDecision: the row of a decision on request q.
DecisionFor(q, mode, ttl) ==
    [request |-> q, mode |-> mode, canon |-> allowFrom, granted |-> now,
     ttl |-> TtlExpiry(mode, ttl), used |-> NULL, revoked |-> NULL]

\* approval_consume, the first half of the legacy two-call path.
Consume(q) ==
    /\ Consumable(q)
    /\ nonces' = [nonces EXCEPT ![q].consumed = now]
    /\ UNCHANGED <<now, allowFrom, decisions, asking, readers, seen>>

\* approval_record, the second half: any consumed nonce will do.
Record(q, d, mode, ttl) ==
    /\ nonces[q].consumed # NULL /\ ~Recorded(d)
    /\ decisions' = [decisions EXCEPT ![d] = DecisionFor(q, mode, ttl)]
    /\ nonces' = [nonces EXCEPT ![q].decision = d]
    /\ UNCHANGED <<now, allowFrom, asking, readers, seen>>

\* approval_consume_record: both in one transaction.
ConsumeAndRecord(q, d, mode, ttl) ==
    /\ Consumable(q) /\ ~Recorded(d)
    /\ decisions' = [decisions EXCEPT ![d] = DecisionFor(q, mode, ttl)]
    /\ nonces' = [nonces EXCEPT ![q] = [@ EXCEPT !.consumed = now, !.decision = d]]
    /\ UNCHANGED <<now, allowFrom, asking, readers, seen>>

\* revokeDecision of a row that is not revoked yet.
Revoke(d) ==
    /\ Recorded(d) /\ decisions[d].revoked = NULL
    /\ decisions' = [decisions EXCEPT ![d].revoked = now]
    /\ UNCHANGED <<now, allowFrom, nonces, asking, readers, seen>>

-----------------------------------------------------------------------------
(* Lookups.                                                                *)

Select(r, d, q) ==
    /\ readers[r].dec = None
    /\ readers' = [readers EXCEPT ![r] =
         [dec |-> d, request |-> q, at |-> now,
          drift |-> decisions[d].canon # allowFrom,
          ttl |-> decisions[d].ttl, used |-> decisions[d].used]]
    /\ UNCHANGED <<now, allowFrom, tables, asking, seen>>

\* lookupDecision: the newest unrevoked row of the agent's scope (ties are the
\* database's choice).
Candidates(a) ==
    {d \in Decisions : /\ Recorded(d) /\ decisions[d].revoked = NULL
                       /\ AgentOf[decisions[d].request] = a}

LookupByScope(r, a, d) ==
    /\ d \in Candidates(a)
    /\ \A e \in Candidates(a) : decisions[e].granted <= decisions[d].granted
    /\ Select(r, d, None)

\* lookupDecisionByRequestId of a decided request whose decision is not revoked;
\* its other answers (no_decision, pending, expired, denied) change nothing.
LookupByRequest(r, q) ==
    LET d == nonces[q].decision IN
    /\ d # None /\ decisions[d].revoked = NULL
    /\ Select(r, d, q)

\* evaluateDecisionRow, from the snapshot in readers[r] and the row's constant
\* columns.
Row(r) == decisions[readers[r].dec]

\* neither deny_perm nor past its expiry
InForce(r) ==
    /\ readers[r].dec # None
    /\ Row(r).mode # "deny_perm"
    /\ ~(readers[r].ttl # NULL /\ readers[r].ttl < readers[r].at)

Drifted(r) == InForce(r) /\ readers[r].drift
Allows(r, mode) == InForce(r) /\ ~readers[r].drift /\ Row(r).mode = mode

Idle(r) == [readers EXCEPT ![r] = NoLookup]

Granted(r) ==
    /\ uses' = [uses EXCEPT ![readers[r].dec] = IF @ < CountedUses THEN @ + 1 ELSE @]
    /\ lastGrant' = [lastGrant EXCEPT ![readers[r].dec] = readers[r].at]

\* Approver-set drift: auto-revoke, answer drift_revoked.
DriftRevoke(r) ==
    /\ Drifted(r)
    /\ decisions' = [decisions EXCEPT ![readers[r].dec].revoked = readers[r].at]
    /\ readers' = Idle(r)
    /\ UNCHANGED <<now, allowFrom, nonces, asking, seen>>

\* Variant: the burn without WHERE revoked_at IS NULL.
BurnedBlind(r) == Allows(r, "allow_once")

\* The compare-and-swap of allow_once: the row is still unrevoked at the UPDATE.
Burned(r) == Allows(r, "allow_once") /\ Row(r).revoked = NULL

GrantOnce(r) ==
    /\ Burned(r)
    /\ decisions' = [decisions EXCEPT ![readers[r].dec] =
                       [@ EXCEPT !.used = readers[r].at, !.revoked = readers[r].at]]
    /\ readers' = Idle(r)
    /\ Granted(r)
    /\ UNCHANGED <<now, allowFrom, nonces, asking>>

\* The sliding window: the span the row was last renewed with ...
Window(r) ==
    IF readers[r].ttl = NULL THEN 0
    ELSE readers[r].ttl - (IF readers[r].used # NULL THEN readers[r].used ELSE Row(r).granted)

\* Variant: renewal without the hard cap.
RenewedUncapped(r) ==
    IF Window(r) > 0 THEN readers[r].at + Window(r) ELSE readers[r].ttl

\* ... from now on, up to granted_at + the maximal lifetime.
Renewed(r) ==
    LET cap == Row(r).granted + MaxLifetime IN
    IF Window(r) > 0
    THEN IF readers[r].at + Window(r) < cap THEN readers[r].at + Window(r) ELSE cap
    ELSE readers[r].ttl

GrantTtl(r) ==
    /\ Allows(r, "allow_ttl")
    /\ decisions' = [decisions EXCEPT ![readers[r].dec] =
                       [@ EXCEPT !.used = readers[r].at, !.ttl = Renewed(r)]]
    /\ readers' = Idle(r)
    /\ Granted(r)
    /\ UNCHANGED <<now, allowFrom, nonces, asking>>

GrantAlways(r) ==
    /\ Allows(r, "allow_always")
    /\ decisions' = [decisions EXCEPT ![readers[r].dec].used = readers[r].at]
    /\ readers' = Idle(r)
    /\ Granted(r)
    /\ UNCHANGED <<now, allowFrom, nonces, asking>>

\* denied (deny, deny_perm, a lost compare-and-swap) or expired: no change.
Refuse(r) ==
    /\ readers[r].dec # None
    /\ ~Drifted(r) /\ ~Burned(r) /\ ~Allows(r, "allow_ttl") /\ ~Allows(r, "allow_always")
    /\ readers' = Idle(r)
    /\ UNCHANGED <<now, allowFrom, tables, asking, seen>>

-----------------------------------------------------------------------------
\* The operator edits the approver set.
ChangeApprovers(c) ==
    /\ c # allowFrom
    /\ allowFrom' = c
    /\ UNCHANGED <<now, tables, asking, readers, seen>>

Tick ==
    /\ now < MaxTime
    /\ now' = now + 1
    /\ UNCHANGED <<allowFrom, tables, asking, readers, seen>>

Answer(r) ==
    DriftRevoke(r) \/ GrantOnce(r) \/ GrantTtl(r) \/ GrantAlways(r) \/ Refuse(r)

Next ==
    \/ \E p \in Servers, q \in Requests : CheckCaps(p, q)
    \/ \E p \in Servers : Request(p)
    \/ \E q \in Requests : Consume(q)
    \/ \E q \in Requests, d \in Decisions, mode \in Modes, ttl \in TtlChoices :
         Record(q, d, mode, ttl) \/ ConsumeAndRecord(q, d, mode, ttl)
    \/ \E d \in Decisions : Revoke(d)
    \/ \E r \in Readers, a \in Agents, d \in Decisions : LookupByScope(r, a, d)
    \/ \E r \in Readers, q \in Requests : LookupByRequest(r, q)
    \/ \E r \in Readers : Answer(r)
    \/ \E c \in Canons : ChangeApprovers(c)
    \/ Tick

Spec == Init /\ [][Next]_vars

-----------------------------------------------------------------------------
(* Properties.                                                             *)

\* Every row, snapshot and observation keeps its type; only a timed grant has an
\* expiry (a denial or an allow_always never lapses on its own), and a running
\* lookup has a recorded row.
TypeOK ==
    /\ now \in Nat /\ allowFrom \in Canons
    /\ nonces \in [Requests -> NonceRow]
    /\ decisions \in [Decisions -> DecisionRow]
    /\ asking \in [Servers -> Requests \cup {None}]
    /\ readers \in [Readers -> Lookup]
    /\ uses \in [Decisions -> Nat] /\ lastGrant \in [Decisions -> Int]
    /\ \A d \in Decisions : decisions[d].ttl # NULL => decisions[d].mode = "allow_ttl"
    /\ \A r \in Readers : readers[r].dec # None =>
                             Recorded(readers[r].dec) /\ readers[r].at \in Nat

\* An allow_once decision authorizes one use: of all the lookups that select its
\* row, in whatever process and interleaving, at most one is granted
\* (evaluateDecisionRow's conditional burn).
AllowOnceAtMostOnce ==
    \A d \in Decisions : decisions[d].mode = "allow_once" => uses[d] <= 1

\* A timed grant ends: however often it is renewed, and although concurrent
\* renewals write from stale snapshots, no lookup is granted later than
\* granted_at + the maximal lifetime (recordDecision's clamp and the hard cap of
\* the sliding window together).
TimedGrantEnds ==
    \A d \in Decisions :
        decisions[d].mode = "allow_ttl" /\ decisions[d].ttl # NULL
        => lastGrant[d] <= decisions[d].granted + MaxLifetime

\* Every decision traces back to an in-time tap: its request was opened, consumed
\* within its lifetime and before the decision was recorded; and the request
\* that links to a decision is the one the decision was recorded for, so a
\* verdict read by request id is that request's own.
DecisionTraced ==
    /\ \A d \in Decisions : Recorded(d) =>
         LET n == nonces[decisions[d].request] IN
         /\ NULL < n.created /\ n.created <= n.consumed
         /\ n.consumed <= n.expires /\ n.consumed <= decisions[d].granted
    /\ \A q \in Requests, d \in Decisions :
         nonces[q].decision = d => Recorded(d) /\ decisions[d].request = q
    /\ \A r \in Readers :
         readers[r].dec # None /\ readers[r].request # None
         => decisions[readers[r].dec].request = readers[r].request

\* The caps on open cards, with the checks of several processes overlapping: each
\* process checks and inserts in two statements, so that all of them can pass the
\* check on the last free place.  The cards open, together with those a process has
\* already let past its check, exceed MAX_PENDING_PER_AGENT and MAX_PENDING_GLOBAL
\* by at most one for every further process, however often the race repeats; a
\* single process keeps the caps exactly.
Admitted == {p \in Servers : asking[p] # None}
AdmittedOf(a) == {p \in Admitted : AgentOf[asking[p]] = a}
Overlap == Cardinality(Servers) - 1

PendingCapped ==
    /\ \A a \in Agents :
          Cardinality(PendingOf(a)) + Cardinality(AdmittedOf(a)) <= MaxPerAgent + Overlap
    /\ Cardinality(Pending) + Cardinality(Admitted) <= MaxGlobal + Overlap
=============================================================================
