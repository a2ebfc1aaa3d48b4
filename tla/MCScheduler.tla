----------------------------- MODULE MCScheduler -----------------------------
(***************************************************************************)
(* A small instance of Scheduler for TLC: half-minute ticks, the audit     *)
(* tolerance of 90 seconds, and a cron that matches three minutes, two of  *)
(* them adjacent.                                                          *)
(***************************************************************************)
EXTENDS Scheduler, TLC

MCDue     == {2, 8, 10}
MCLastDue ==
    [t \in Time |->
        IF \E d \in MCDue : d <= t
        THEN CHOOSE d \in MCDue : d <= t /\ \A e \in MCDue : e <= t => e <= d
        ELSE NULL]
=============================================================================
