-------------------------- MODULE MCObligationLedger --------------------------
(* Small instances of ObligationLedger for TLC. *)
EXTENDS ObligationLedger

OneThread == [m \in Messages |-> 1]
=============================================================================
