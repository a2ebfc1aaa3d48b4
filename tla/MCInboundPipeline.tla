-------------------------- MODULE MCInboundPipeline --------------------------
(* Small instances of InboundPipeline for TLC. *)
EXTENDS InboundPipeline, TLC

CONSTANTS m1, m2, m3, chat1

MCIds    == {m1, m2, m3}
MCChats  == {chat1}
MCChatOf == [id \in Ids |-> chat1]
MCTTLs   == [id \in Ids |-> IF id = m2 THEN 1 ELSE 0]
=============================================================================
