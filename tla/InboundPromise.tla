---------------------------- MODULE InboundPromise ----------------------------
(***************************************************************************)
(* What the gateway promises for an inbound message, without spool, buffer *)
(* or bridge: once it has said "queued" it delivers the message or retracts*)
(* it, and it never forgets it.  InboundPipeline is shown to implement     *)
(* this specification.                                                     *)
(*                                                                         *)
(* A retracted message may still be delivered late: the escalation sweep   *)
(* drops the spool entry and not the copy in the in-memory queue.          *)
(***************************************************************************)
CONSTANTS Ids

VARIABLES fate

Fates == {"new", "promised", "kept", "retracted"}

PromiseInit == fate = [id \in Ids |-> "new"]

Promise(id) ==
    /\ fate[id] = "new"
    /\ fate' = [fate EXCEPT ![id] = "promised"]

\* A merged run is delivered as one turn.
Keep(S) ==
    /\ S # {}
    /\ fate' = [id \in Ids |-> IF id \in S THEN "kept" ELSE fate[id]]

Retract(id) ==
    /\ fate[id] = "promised"
    /\ fate' = [fate EXCEPT ![id] = "retracted"]

PromiseNext ==
    \/ \E id \in Ids : Promise(id) \/ Retract(id)
    \/ \E S \in SUBSET Ids : Keep(S)

\* A promise does not stay open.
Resolve(id) ==
    /\ fate[id] = "promised"
    /\ Retract(id) \/ \E S \in SUBSET Ids : id \in S /\ Keep(S)

\* What may never happen: a promise forgotten, a delivery undone, a retraction
\* taken back without a delivery.
PromiseSafety == PromiseInit /\ [][PromiseNext]_fate

PromiseSpec ==
    /\ PromiseSafety
    /\ \A id \in Ids : WF_fate(Resolve(id))
=============================================================================
