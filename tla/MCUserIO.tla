------------------------------ MODULE MCUserIO ------------------------------
(* Instances of UserIO for TLC.                                            *)
EXTENDS UserIO, TLC

CONSTANTS t1, t2, t3

TwoThreads == {t1, t2}
ThreeThreads == {t1, t2, t3}

(* The packets the client sends, and the messages others have for it.      *)

(* Two packets, or a packet with the handler of another client at work     *)
(* beside it.                                                              *)
PacketsOrBoth == {<<2, 0>>, <<1, 1>>}

(* A packet and a message, or only messages, but enough of them for two    *)
(* sends to overlap after one that failed.                                 *)
PacketOrMessages == {<<1, 1>>, <<0, 4>>}

(* The messages whose sends may end in parts.  The first is sent by the    *)
(* handler that added it, the second may also be sent from the queue.      *)
FirstMessage == {1}
SecondMessage == {2}

(* The threads differ only in their names: used where no liveness is       *)
(* checked.                                                                *)
ThreadSymmetry == Permutations(Threads)
=============================================================================
