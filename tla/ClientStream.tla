---------------------------- MODULE ClientStream ----------------------------
(***************************************************************************)
(* What the send queue of a USER promises the client behind it: every      *)
(* message the server accepts for the client goes out whole, once, and in  *)
(* the order of acceptance, with no part of another message inside it.     *)
(*                                                                         *)
(* Messages are numbered in the order of acceptance and take MsgSize units *)
(* of the stream.  FairSpec adds that nothing accepted stays behind.       *)
(*                                                                         *)
(* The promise ends when the stream is torn: from then on it may hold, or  *)
(* leave out, anything behind what it holds already.                       *)
(***************************************************************************)
EXTENDS Naturals, Sequences

CONSTANTS
  MsgSize,     (* the units of one message                               *)
  MaxMessages  (* the most messages that are accepted                    *)

VARIABLES
  accepted,    (* the number of messages accepted                        *)
  stream,      (* the units sent: of which message each is a part        *)
  torn         (* a message was not sent whole                           *)

vars == <<accepted, stream, torn>>

Init ==
  /\ accepted = 0
  /\ stream = <<>>
  /\ torn = FALSE

Accept ==
  /\ accepted < MaxMessages
  /\ accepted' = accepted + 1
  /\ UNCHANGED <<stream, torn>>

(* The message that the k-th unit of the stream belongs to.                *)
MessageOfUnit(k) == ((k - 1) \div MsgSize) + 1

(* Some of the units that are left of the oldest unfinished message.       *)
Transmit ==
  LET sent == Len(stream)
      current == MessageOfUnit(sent + 1)
  IN  /\ ~torn
      /\ current <= accepted
      /\ \E n \in 1..MsgSize :
           /\ sent + n <= current * MsgSize
           /\ stream' = stream \o [i \in 1..n |-> current]
      /\ UNCHANGED <<accepted, torn>>

Tear ==
  /\ torn' = TRUE
  /\ UNCHANGED <<accepted, stream>>

TransmitTorn ==
  /\ torn
  /\ Len(stream) <= Len(stream')
  /\ SubSeq(stream', 1, Len(stream)) = stream
  /\ UNCHANGED <<accepted, torn>>

Next == Accept \/ Transmit \/ Tear \/ TransmitTorn

Spec == Init /\ [][Next]_vars

FairSpec == Spec /\ WF_vars(Transmit)
=============================================================================
