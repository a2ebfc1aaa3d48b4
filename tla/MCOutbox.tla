------------------------------- MODULE MCOutbox -------------------------------
(* Small instances of Outbox, and of the startup mutex it extends, for TLC. *)
EXTENDS Outbox, TLC

CONSTANTS g1, g2, t1, f1

\* The turn's answer and the queued reply have the same text.
MCTextOf == [n \in Nonces |-> "text"]
=============================================================================
