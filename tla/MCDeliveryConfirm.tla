--------------------------- MODULE MCDeliveryConfirm ---------------------------
(* Two messages of one chat, or of two. *)
EXTENDS DeliveryConfirm, TLC

CONSTANTS m1, m2, k1, k2

MCMsgs   == {m1, m2}
MCKeys   == {k1, k2}
MCOneKey == [m \in MCMsgs |-> k1]
MCOwnKey == (m1 :> k1) @@ (m2 :> k2)
=============================================================================
