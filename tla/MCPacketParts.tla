--------------------------- MODULE MCPacketParts ---------------------------
(* Instances of PacketParts for TLC.                                       *)
EXTENDS PacketParts

BothWays == {"toClient", "toServer"}
ToClient == {"toClient"}

(* Two bodies, a header alone, a first body alone, a second body alone,    *)
(* and one more message than the size of the queue can count.              *)
FiveMessages == <<<<2, 1>>, <<0, 0>>, <<1, 0>>, <<0, 1>>, <<0, 0>>>>
=============================================================================
