--------------------------- MODULE MCInboundSpool ---------------------------
(* Small instances of InboundSpool for TLC. *)
EXTENDS InboundSpool, TLC

CONSTANTS a, b, c1

MCIds    == {a, b}
MCChats  == {c1}
MCChatOf == [id \in {a, b} |-> c1]
=============================================================================
