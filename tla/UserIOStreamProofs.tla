------------------------- MODULE UserIOStreamProofs -------------------------
(***************************************************************************)
(* UserIO for every number of threads and messages, as long as no send     *)
(* fails at once and the connection lives: the counter of the sends, its   *)
(* event and the queue agree, the completion of a send is booked on the    *)
(* message that was sent, no message is left to nobody, the user does not  *)
(* go deaf, and what leaves the server is the stream of ClientStream.  All *)
(* of it ends when a send stops inside the first body of a message, whose  *)
(* rest WorkerPartialSend computes wrongly (torn).                         *)
(*                                                                         *)
(* All of it rests on there being one send, which is in the kernel, at the *)
(* port or in one thread (SendOnce), and on what its place says of the     *)
(* oldest message: in the kernel, how much of it is left; at the port and  *)
(* before it is booked, that the stream is ahead of the books by the units *)
(* the completion reports; after it, that the message is booked whole or   *)
(* that the rest is sent first (Streamed).                                 *)
(*                                                                         *)
(* None of the invariants survives a failure: with the constants of        *)
(* UserIOFaults TLC violates OneSender, BookedMessageWasSent,              *)
(* DoneMeansNotSending, NothingStranded, NeverDeaf and TypeOK.             *)
(***************************************************************************)
EXTENDS UserIOProofs

(* No send fails at once and the connection is not lost.                   *)
Faultless == ~ConnDrops /\ MaxSyncFaults = 0

(* Nobody is destroying the user, and no completion is a failed one.       *)
Calm ==
  /\ up = TRUE /\ closed = FALSE /\ stopped = FALSE /\ destroying = FALSE
  /\ \A t \in Threads : pc[t] \notin EndLocations \cup {"s_fail"}
  /\ \A i \in 1 .. Len(completions) : completions[i].bytes > 0

(* m_plSendOccuring and m_plRecvOccuring count exactly the operations that *)
(* are in the kernel, at the port or in a thread.                          *)
SendOnce == Len(inflight) + Arrived("send") + Sending = sendOccuring
ReceiveAgain == recvs + Arrived("recv") + Receiving = recvOccuring

(* SEND_DONE_EVENT goes with the counter, but between the update of one    *)
(* and of the other.                                                       *)
SetWhenNeeded ==
  /\ sendOccuring \in {0, 1}
  /\ \A t \in Threads : pc[t] = "a_reset" => sendOccuring = 1
  /\ \A t \in Threads : pc[t] = "s_set" => sendOccuring = 0
  /\ (\A t \in Threads : pc[t] \notin {"a_reset", "s_set"}) =>
       (sendDone <=> sendOccuring = 0)

(* Messages are popped in the order of their numbers, so that the oldest   *)
(* one of the queue follows the last popped one.                           *)
Popped == pushed - Len(queue)
Oldest == Popped + 1
Left == MsgSize - moved[Oldest]
InProgress(m, n) == queue # <<>> /\ m = Oldest /\ n > 0 /\ n =< Left

(* The queue holds the messages pushed and not popped, in order, and       *)
(* nothing was booked on those behind the oldest.                          *)
Numbered ==
  Len(queue) =< pushed /\ \A i \in 1 .. Len(queue) : queue[i] = Popped + i
Untouched ==
  \A m \in Messages : m > Oldest \/ (m = Oldest /\ queue = <<>>) => moved[m] = 0

(* When nobody sends, the queue is empty, or has only the message whose    *)
(* thread is about to look whether somebody sends.                         *)
Unattended ==
  sendOccuring = 0 =>
    queue = <<>> \/ (\E t \in Threads : pc[t] = "a_compare" /\ Len(queue) = 1)

(* What the thread that sends knows of the oldest message: nothing of it   *)
(* is booked yet, some of it was sent and has to be booked, or it is       *)
(* booked whole and has to be popped.                                      *)
Claimed(t) == queue # <<>> /\ job[t].msg = Oldest /\ moved[Oldest] = 0
ThreadFits(t) ==
  /\ pc[t] = "a_compare" =>
       queue # <<>> /\ job[t].msg = pushed /\ (sendOccuring = 0 => moved[Oldest] = 0)
  /\ pc[t] \in {"a_reset", "a_send"} => Claimed(t)
  /\ pc[t] = "s_peek" => InProgress(job[t].msg, job[t].bytes)
  /\ pc[t] = "s_pop" => queue # <<>> /\ moved[Oldest] = MsgSize
  /\ pc[t] = "s_next" => queue # <<>> /\ moved[Oldest] = 0
  /\ pc[t] \in {"s_decrement", "s_set"} => queue = <<>>
ThreadsFit == \A t \in Threads : ThreadFits(t)

(* What the kernel has or reported is of the oldest message, and no more   *)
(* than is left of it.                                                     *)
KernelFits ==
  \A i \in 1 .. Len(inflight) :
    inflight[i].left = Left /\ InProgress(inflight[i].msg, inflight[i].left)
PortFits ==
  \A i \in 1 .. Len(completions) :
    completions[i].op = "send" => InProgress(completions[i].msg, completions[i].bytes)

(* The stream holds the popped messages, what is booked of the oldest one, *)
(* and n units that were sent and are not booked yet.                      *)
Out(n) ==
  Len(wire) = MsgSize * Popped + (IF queue = <<>> THEN 0 ELSE moved[Oldest]) + n

(* What is not booked yet is exactly what a completion at the port or in a *)
(* thread reports.                                                         *)
NoneArrived ==
  /\ \A i \in 1 .. Len(completions) : completions[i].op # "send"
  /\ \A t \in Threads : pc[t] # "s_peek"
Counted ==
  /\ \A i \in 1 .. Len(completions) :
       completions[i].op = "send" => Out(completions[i].bytes)
  /\ \A t \in Threads : pc[t] = "s_peek" => Out(job[t].bytes)
  /\ NoneArrived => Out(0)

(* The part of the invariant about the queue and the stream.               *)
Streamed ==
  /\ Numbered /\ Untouched /\ Unattended /\ ThreadsFit /\ KernelFits
  /\ PortFits
  /\ Counted

(* Without a receive armed, somebody is sending, or a thread is on its way *)
(* to a send or to arming a receive.                                       *)
HearingAt == {"handle", "a_lock", "a_compare", "s_set", "s_rearm"}
Hears ==
  PeerFaults \/ recvOccuring = 1 \/ sendOccuring = 1
    \/ \E t \in Threads : pc[t] \in HearingAt

(* What holds as long as nothing fails and no message is torn.             *)
Sound ==
  Calm /\ SendOnce /\ ReceiveAgain /\ SetWhenNeeded /\ Streamed /\ Hears

(* The inductive invariant.                                                *)
IInv == General /\ (Faultless /\ ~torn => Sound)

(* The actions that can happen as long as nothing fails (OnlyGood).        *)
GoodAdd(t) ==
  AddPush(t) \/ AddDefers(t) \/ AddClaims(t) \/ AddReset(t) \/ AddSends(t)
GoodSend(t) ==
  \/ SendPartial(t) \/ SendWhole(t) \/ SendPop(t) \/ SendDecrement(t) \/ SendSet(t)
  \/ SendNext(t) \/ Rearm(t) \/ RecvPosted(t)
GoodRecv(t) == RecvPartial(t) \/ RecvWhole(t) \/ Answer(t) \/ NoAnswer(t)

-----------------------------------------------------------------------------
(* Where the threads are after a step of one of them.                      *)
LEMMA GotoIs ==
  ASSUME pc \in [Threads -> Locations], NEW t \in Threads, NEW l, Goto(t, l)
  PROVE  \A u \in Threads : pc'[u] = IF u = t THEN l ELSE pc[u]
BY DEF Goto

(* The places where a send can be, as numbers.                             *)
LEMMA SendPlaces ==
  ASSUME Types, SendOnce, SetWhenNeeded
  PROVE  /\ Len(inflight) \in Nat /\ Arrived("send") \in Nat /\ Sending \in Nat
         /\ IsFiniteSet(Waiting("send")) /\ IsFiniteSet(At(SendersAt))
         /\ Len(inflight) + Arrived("send") + Sending = sendOccuring
         /\ sendOccuring = 0 \/ sendOccuring = 1
<1>1. /\ completions \in Seq(Ports)
      /\ inflight \in Seq([msg : Messages, left : Lefts])
  BY DEF Types
<1>2. IsFiniteSet(Waiting("send")) /\ Arrived("send") \in Nat
  BY <1>1, WaitingFinite
<1>3. IsFiniteSet(At(SendersAt)) /\ Sending \in Nat
  BY AtFinite DEF Sending
<1> QED BY <1>1, <1>2, <1>3 DEF SendOnce, SetWhenNeeded

(* No completion of a send is at the port when their number is zero.       *)
LEMMA NoneWaits ==
  ASSUME Types, Arrived("send") = 0
  PROVE  \A i \in 1 .. Len(completions) : completions[i].op # "send"
<1>1. completions \in Seq(Ports)
  BY DEF Types
<1>2. Waiting("send") = {}
  BY ONLY <1>1, WaitingFinite, Arrived("send") = 0, FS_EmptySet DEF Arrived
<1> QED BY <1>1, <1>2 DEF Waiting

(* No thread sends when their number is zero.                              *)
LEMMA NoneSends ==
  ASSUME Sending = 0
  PROVE  \A u \in Threads : pc[u] \notin SendersAt
<1>1. At(SendersAt) = {}
  BY AtFinite, FS_EmptySet DEF Sending
<1> QED BY <1>1 DEF At

(* While a thread sends, no send is in the kernel, at the port or in       *)
(* another thread.                                                         *)
LEMMA SenderIsAlone ==
  ASSUME Types, SendOnce, SetWhenNeeded, NEW t \in Threads, pc[t] \in SendersAt
  PROVE  /\ inflight = <<>> /\ sendOccuring = 1
         /\ \A i \in 1 .. Len(completions) : completions[i].op # "send"
         /\ \A u \in Threads : u # t => pc[u] \notin SendersAt
<1>1. t \in At(SendersAt)
  BY DEF At
<1>2. Sending # 0
  BY ONLY <1>1, AtFinite, FS_EmptySet DEF Sending
<1>3. /\ Sending = 1 /\ Len(inflight) = 0 /\ Arrived("send") = 0
      /\ sendOccuring = 1
  BY ONLY <1>2, Types, SendOnce, SetWhenNeeded, SendPlaces
<1>4. inflight = <<>>
  BY ONLY Types, <1>3 DEF Types
<1>5. \E x : At(SendersAt) = {x}
  BY ONLY <1>3, AtFinite, FS_Singleton DEF Sending
<1>6. \A u \in Threads : u # t => pc[u] \notin SendersAt
  BY <1>1, <1>5 DEF At
<1> QED BY <1>3, <1>4, <1>6, NoneWaits

(* While the kernel has a send, it is the only one, and no thread sends.   *)
LEMMA KernelIsAlone ==
  ASSUME Types, SendOnce, SetWhenNeeded, inflight # <<>>
  PROVE  /\ Len(inflight) = 1 /\ sendOccuring = 1
         /\ \A i \in 1 .. Len(completions) : completions[i].op # "send"
         /\ \A u \in Threads : pc[u] \notin SendersAt
<1>1. Len(inflight) # 0
  BY DEF Types
<1>2. /\ Sending = 0 /\ Len(inflight) = 1 /\ Arrived("send") = 0
      /\ sendOccuring = 1
  <2>1. /\ Len(inflight) \in Nat /\ Arrived("send") \in Nat /\ Sending \in Nat
        /\ Len(inflight) + Arrived("send") + Sending = sendOccuring
        /\ sendOccuring = 0 \/ sendOccuring = 1
    BY SendPlaces
  <2>2. Len(inflight) >= 1
    BY ONLY <1>1, Len(inflight) \in Nat, <2>1
  <2>3. sendOccuring = 1
    BY ONLY <2>1, <2>2
  <2>4. Len(inflight) = 1 /\ Arrived("send") + Sending = 0
    BY ONLY <2>1, <2>2, <2>3, SMTT(30)
  <2> QED BY ONLY <2>1, <2>3, <2>4
<1> QED BY <1>2, NoneWaits, NoneSends

(* The same for a completion of a send at the port.                        *)
LEMMA PortIsAlone ==
  ASSUME Types, SendOnce, SetWhenNeeded,
         NEW k \in 1 .. Len(completions), completions[k].op = "send"
  PROVE  /\ inflight = <<>> /\ sendOccuring = 1
         /\ \A i \in 1 .. Len(completions) : completions[i].op = "send" => i = k
         /\ \A u \in Threads : pc[u] \notin SendersAt
<1>1. k \in Waiting("send") /\ completions \in Seq(Ports)
  BY DEF Waiting, Types
<1>2. Arrived("send") # 0
  BY ONLY <1>1, WaitingFinite, FS_EmptySet DEF Arrived
<1>3. /\ Sending = 0 /\ Len(inflight) = 0 /\ Arrived("send") = 1
      /\ sendOccuring = 1
  BY ONLY <1>2, Types, SendOnce, SetWhenNeeded, SendPlaces
<1>4. inflight = <<>>
  BY ONLY Types, <1>3 DEF Types
<1>5. \E x : Waiting("send") = {x}
  BY ONLY <1>1, <1>3, WaitingFinite, FS_Singleton DEF Arrived
<1>6. \A i \in 1 .. Len(completions) : completions[i].op = "send" => i \in Waiting("send")
  BY <1>1 DEF Waiting
<1> QED BY ONLY <1>1, <1>3, <1>4, <1>5, <1>6, NoneSends

(* When m_plSendOccuring is zero no thread sends.                          *)
LEMMA IdleIsQuiet ==
  ASSUME Types, SendOnce, SetWhenNeeded, sendOccuring = 0
  PROVE  \A u \in Threads : pc[u] \notin SendersAt
<1>1. Sending = 0
  BY ONLY Types, SendOnce, SetWhenNeeded, sendOccuring = 0, SendPlaces
<1> QED BY <1>1, NoneSends

(* A step within the places of a send, or outside of them, keeps SendOnce. *)
LEMMA QuietSend ==
  ASSUME Types, SendOnce, NEW t \in Threads, NEW l, Goto(t, l),
         pc[t] \in SendersAt <=> l \in SendersAt,
         UNCHANGED <<inflight, completions, sendOccuring>>
  PROVE  SendOnce'
<1>1. pc \in [Threads -> Locations]
  BY DEF Types
<1>2. Sending' = Sending
  <2>1. Sending' = Sending + Bit(l \in SendersAt) - Bit(pc[t] \in SendersAt)
    BY ONLY <1>1, Goto(t, l), t \in Threads, Counts
  <2> QED BY ONLY <2>1, CountsAreNat, pc[t] \in SendersAt <=> l \in SendersAt
          DEF Bit
<1>3. Arrived("send")' = Arrived("send")
  BY ArrivedSame
<1> QED BY ONLY <1>2, <1>3, SendOnce,
                UNCHANGED <<inflight, completions, sendOccuring>>
      DEF SendOnce

(* A step away from the event keeps SetWhenNeeded.                         *)
LEMMA QuietSet ==
  ASSUME Types, SetWhenNeeded, NEW t \in Threads, NEW l, Goto(t, l),
         pc[t] \notin {"a_reset", "s_set"}, l \notin {"a_reset", "s_set"},
         UNCHANGED <<sendOccuring, sendDone>>
  PROVE  SetWhenNeeded'
<1>1. \A u \in Threads : pc'[u] = IF u = t THEN l ELSE pc[u]
  BY GotoIs DEF Types
<1>2. \A u \in Threads : pc'[u] \in {"a_reset", "s_set"} => pc'[u] = pc[u]
  BY ONLY <1>1, pc[t] \notin {"a_reset", "s_set"},
          l \notin {"a_reset", "s_set"}
<1>3. \A u \in Threads : pc[u] \in {"a_reset", "s_set"} => pc'[u] = pc[u]
  BY ONLY <1>1, pc[t] \notin {"a_reset", "s_set"},
          l \notin {"a_reset", "s_set"}
<1> QED BY ONLY <1>2, <1>3, SetWhenNeeded,
                UNCHANGED <<sendOccuring, sendDone>>
      DEF SetWhenNeeded

(* A step away from the receive buffer keeps ReceiveAgain.                 *)
LEMMA QuietAgain ==
  ASSUME Types, ReceiveAgain, NEW t \in Threads, NEW l, Goto(t, l),
         pc[t] \notin {"r_parse", "s_recv"}, l \notin {"r_parse", "s_recv"},
         UNCHANGED <<recvs, completions, recvOccuring>>
  PROVE  ReceiveAgain'
<1>1. pc \in [Threads -> Locations] /\ recvs \in Nat /\ recvOccuring \in {0, 1}
  BY DEF Types
<1>2. Receiving' = Receiving
  <2>1. Receiving' = Receiving + Bit(l \in {"r_parse", "s_recv"})
                     - Bit(pc[t] \in {"r_parse", "s_recv"})
    BY <1>1, Counts
  <2> QED BY <2>1, CountsAreNat DEF Bit
<1>3. Arrived("recv")' = Arrived("recv")
  BY ArrivedSame
<1> QED BY ONLY <1>1, <1>2, <1>3, ReceiveAgain,
                UNCHANGED <<recvs, completions, recvOccuring>>
           DEF ReceiveAgain

(* Adding a message begins no destruction, and no operation of a live      *)
(* connection fails.                                                       *)
LEMMA GoodAddCalm ==
  ASSUME NEW t \in Threads, Types, Calm, GoodAdd(t)
  PROVE  Calm'
<1> USE DEF Types, Calm, Goto, Is, EndLocations, endVars, envVars, kernelVars
<1>1. CASE AddPush(t)
  BY <1>1 DEF AddPush
<1>2. CASE AddDefers(t)
  <2>1. PICK l \in {"a_lock", "idle"} : Goto(t, l)
    BY <1>2, AddReturnsTypes DEF AddDefers
  <2> QED BY <1>2, <2>1 DEF AddDefers
<1>3. CASE AddClaims(t)
  BY <1>3 DEF AddClaims
<1>4. CASE AddReset(t)
  BY <1>4 DEF AddReset
<1>5. CASE AddSends(t)
  <2>1. PICK l \in {"a_lock", "idle"} : Goto(t, l)
    BY <1>5, AddReturnsTypes DEF AddSends
  <2> QED BY <1>5, <2>1 DEF AddSends
<1> QED
  BY <1>1, <1>2, <1>3, <1>4, <1>5
  DEF GoodAdd

(* Adding a message hands the one send on, or begins or ends it together   *)
(* with m_plSendOccuring.                                                  *)
LEMMA GoodAddSendOnce ==
  ASSUME NEW t \in Threads, Types, SendOnce, SetWhenNeeded, GoodAdd(t)
  PROVE  SendOnce'
<1>1. CASE AddPush(t)
  <2>1. pc[t] = "a_lock"
    BY <1>1 DEF AddPush, Is
  <2>2. PICK l \in {"a_compare"} : Goto(t, l)
    BY <1>1 DEF AddPush
  <2>3. UNCHANGED <<inflight, completions, sendOccuring>>
    BY <1>1 DEF AddPush, sendVars, kernelVars
  <2>4. pc[t] \in SendersAt <=> l \in SendersAt
    BY <2>1, <2>2 DEF SendersAt
  <2> QED BY <2>2, <2>3, <2>4, QuietSend
<1>2. CASE AddDefers(t)
  <2>1. pc[t] = "a_compare"
    BY <1>2 DEF AddDefers, Is
  <2>2. PICK l \in {"a_lock", "idle"} : Goto(t, l)
    BY <1>2 DEF AddDefers, AddReturns
  <2>3. UNCHANGED <<inflight, completions, sendOccuring>>
    BY <1>2 DEF AddDefers, sendVars, kernelVars
  <2>4. pc[t] \in SendersAt <=> l \in SendersAt
    BY <2>1, <2>2 DEF SendersAt
  <2> QED BY <2>2, <2>3, <2>4, QuietSend
<1>3. CASE AddClaims(t)
  <2>1. pc[t] = "a_compare"
    BY <1>3 DEF AddClaims, Is
  <2>2. PICK l \in {"a_reset"} : Goto(t, l)
    BY <1>3 DEF AddClaims
  <2>3. /\ pc \in [Threads -> Locations] /\ completions \in Seq(Ports)
        /\ inflight \in Seq([msg : Messages, left : Lefts])
        /\ sendOccuring \in Int
    BY ONLY Types DEF Types
  <2>4. /\ sendOccuring' = sendOccuring + 1 /\ UNCHANGED inflight
        /\ UNCHANGED completions
    BY <1>3 DEF AddClaims, sendVars, kernelVars
  <2>5. Sending' = Sending + 1
    <3>1. Sending' = Sending + Bit(l \in SendersAt) - Bit(pc[t] \in SendersAt)
      BY ONLY <2>2, <2>3, t \in Threads, Counts
    <3>2. Bit(l \in SendersAt) - Bit(pc[t] \in SendersAt) = 1
      BY <2>1, <2>2 DEF Bit, SendersAt
    <3>3. Bit(l \in SendersAt) \in Nat /\ Bit(pc[t] \in SendersAt) \in Nat
      BY DEF Bit
    <3> QED BY ONLY <3>1, <3>2, <3>3, CountsAreNat
  <2>6. Arrived("send")' = Arrived("send") /\ Arrived("send") \in Nat
    BY ONLY <2>3, <2>4, ArrivedSame, WaitingFinite
  <2>7. Len(inflight') = Len(inflight)  /\ Len(inflight) \in Nat
    BY ONLY <2>3, <2>4
  <2> QED BY ONLY <2>3, <2>4, <2>5, <2>6, <2>7, CountsAreNat, SendOnce
          DEF SendOnce
<1>4. CASE AddReset(t)
  <2>1. pc[t] = "a_reset"
    BY <1>4 DEF AddReset, Is
  <2>2. PICK l \in {"a_send"} : Goto(t, l)
    BY <1>4 DEF AddReset
  <2>3. UNCHANGED <<inflight, completions, sendOccuring>>
    BY <1>4 DEF AddReset, sendVars, kernelVars
  <2>4. pc[t] \in SendersAt <=> l \in SendersAt
    BY <2>1, <2>2 DEF SendersAt
  <2> QED BY <2>2, <2>3, <2>4, QuietSend
<1>5. CASE AddSends(t)
  <2>1. pc[t] = "a_send"
    BY <1>5 DEF AddSends, Is
  <2>2. PICK l \in {"a_lock", "idle"} : Goto(t, l)
    BY <1>5 DEF AddSends, AddReturns
  <2>3. /\ pc \in [Threads -> Locations] /\ completions \in Seq(Ports)
        /\ inflight \in Seq([msg : Messages, left : Lefts])
        /\ sendOccuring \in Int
    BY ONLY Types DEF Types
  <2>4. /\ UNCHANGED <<sendOccuring, completions>>
        /\ \E x : inflight' = Append(inflight, x)
    BY <1>5 DEF AddSends, SendPosted, sendVars, kernelVars
  <2>5. Sending' = Sending - 1
    <3>1. Sending' = Sending + Bit(l \in SendersAt) - Bit(pc[t] \in SendersAt)
      BY ONLY <2>2, <2>3, t \in Threads, Counts
    <3>2. Bit(l \in SendersAt) - Bit(pc[t] \in SendersAt) = -1
      BY <2>1, <2>2 DEF Bit, SendersAt
    <3>3. Bit(l \in SendersAt) \in Nat /\ Bit(pc[t] \in SendersAt) \in Nat
      BY DEF Bit
    <3> QED BY ONLY <3>1, <3>2, <3>3, CountsAreNat
  <2>6. Arrived("send")' = Arrived("send") /\ Arrived("send") \in Nat
    BY ONLY <2>3, <2>4, ArrivedSame, WaitingFinite
  <2>7. Len(inflight') = Len(inflight) + 1 /\ Len(inflight) \in Nat
    BY ONLY <2>3, <2>4
  <2> QED BY ONLY <2>3, <2>4, <2>5, <2>6, <2>7, CountsAreNat, SendOnce
          DEF SendOnce
<1> QED
  BY <1>1, <1>2, <1>3, <1>4, <1>5
  DEF GoodAdd

(* Adding a message hands the one receive on, or begins or ends it         *)
(* together with m_plRecvOccuring.                                         *)
LEMMA GoodAddAgain ==
  ASSUME NEW t \in Threads, Types, Calm, ReceiveAgain, GoodAdd(t)
  PROVE  ReceiveAgain'
<1> USE CountsAreNat DEF ReceiveAgain, Types, Is, Bit, recvVars, kernelVars
<1>1. CASE AddPush(t)
  <2>1. pc[t] = "a_lock"
    BY <1>1 DEF AddPush, Is
  <2>2. PICK l \in {"a_compare"} : Goto(t, l)
    BY <1>1 DEF AddPush
  <2>3. UNCHANGED <<recvs, completions, recvOccuring>>
    BY <1>1 DEF AddPush, recvVars, kernelVars
  <2> QED BY <2>1, <2>2, <2>3, QuietAgain
<1>2. CASE AddDefers(t)
  <2>1. pc[t] = "a_compare"
    BY <1>2 DEF AddDefers, Is
  <2>2. PICK l \in {"a_lock", "idle"} : Goto(t, l)
    BY <1>2 DEF AddDefers, AddReturns
  <2>3. UNCHANGED <<recvs, completions, recvOccuring>>
    BY <1>2 DEF AddDefers, AddReturns, recvVars, kernelVars
  <2> QED BY <2>1, <2>2, <2>3, QuietAgain
<1>3. CASE AddClaims(t)
  <2>1. pc[t] = "a_compare"
    BY <1>3 DEF AddClaims, Is
  <2>2. PICK l \in {"a_reset"} : Goto(t, l)
    BY <1>3 DEF AddClaims
  <2>3. UNCHANGED <<recvs, completions, recvOccuring>>
    BY <1>3 DEF AddClaims, recvVars, kernelVars
  <2> QED BY <2>1, <2>2, <2>3, QuietAgain
<1>4. CASE AddReset(t)
  <2>1. pc[t] = "a_reset"
    BY <1>4 DEF AddReset, Is
  <2>2. PICK l \in {"a_send"} : Goto(t, l)
    BY <1>4 DEF AddReset
  <2>3. UNCHANGED <<recvs, completions, recvOccuring>>
    BY <1>4 DEF AddReset, recvVars, kernelVars
  <2> QED BY <2>1, <2>2, <2>3, QuietAgain
<1>5. CASE AddSends(t)
  <2>1. pc[t] = "a_send"
    BY <1>5 DEF AddSends, Is
  <2>2. PICK l \in {"a_lock", "idle"} : Goto(t, l)
    BY <1>5 DEF AddSends, AddReturns
  <2>3. UNCHANGED <<recvs, completions, recvOccuring>>
    BY <1>5 DEF AddSends, AddReturns, SendPosted, recvVars, kernelVars
  <2> QED BY <2>1, <2>2, <2>3, QuietAgain
<1> QED
  BY <1>1, <1>2, <1>3, <1>4, <1>5
  DEF GoodAdd

(* Adding a message sets and resets SEND_DONE_EVENT with the counter.      *)
LEMMA GoodAddSets ==
  ASSUME NEW t \in Threads, Types, MutexHeld, SendOnce, SetWhenNeeded,
         GoodAdd(t)
  PROVE  SetWhenNeeded'
<1>1. CASE AddPush(t)
  <2>1. pc[t] = "a_lock"
    BY <1>1 DEF AddPush, Is
  <2>2. PICK l \in {"a_compare"} : Goto(t, l)
    BY <1>1 DEF AddPush
  <2>3. UNCHANGED <<sendOccuring, sendDone>>
    BY <1>1 DEF AddPush, sendVars
  <2> QED BY <2>1, <2>2, <2>3, QuietSet
<1>2. CASE AddDefers(t)
  <2>1. pc[t] = "a_compare"
    BY <1>2 DEF AddDefers, Is
  <2>2. PICK l \in {"a_lock", "idle"} : Goto(t, l)
    BY <1>2 DEF AddDefers, AddReturns
  <2>3. UNCHANGED <<sendOccuring, sendDone>>
    BY <1>2 DEF AddDefers, sendVars
  <2> QED BY <2>1, <2>2, <2>3, QuietSet
<1>3. CASE AddClaims(t)
  <2>1. pc[t] = "a_compare" /\ Goto(t, "a_reset") /\ sendOccuring' = 1
    BY <1>3 DEF AddClaims, Is
  <2>2. \A u \in Threads : u # t => pc[u] \notin MutexAt
    BY <2>1, ThreadsAssumption DEF MutexHeld, MutexAt
  <2>3. \A u \in Threads : pc'[u] = IF u = t THEN "a_reset" ELSE pc[u]
    BY <2>1, GotoIs DEF Types
  <2> QED BY ONLY <2>1, <2>2, <2>3, t \in Threads DEF SetWhenNeeded, MutexAt
<1>4. CASE AddReset(t)
  <2>1. /\ pc[t] = "a_reset" /\ Goto(t, "a_send") /\ sendDone' = FALSE
        /\ sendOccuring' = sendOccuring
    BY <1>4 DEF AddReset, Is
  <2>2. sendOccuring = 1
    BY ONLY <2>1, SetWhenNeeded, t \in Threads DEF SetWhenNeeded
  <2>3. \A u \in Threads : u # t => pc[u] \notin MutexAt
    BY <2>1, ThreadsAssumption DEF MutexHeld, MutexAt
  <2>4. \A u \in Threads : pc'[u] = IF u = t THEN "a_send" ELSE pc[u]
    BY <2>1, GotoIs DEF Types
  <2>5. \A u \in Threads : pc'[u] \notin {"a_reset", "s_set"}
    BY ONLY <2>3, <2>4 DEF MutexAt
  <2> QED BY ONLY <2>1, <2>2, <2>5 DEF SetWhenNeeded
<1>5. CASE AddSends(t)
  <2>1. pc[t] = "a_send"
    BY <1>5 DEF AddSends, Is
  <2>2. PICK l \in {"a_lock", "idle"} : Goto(t, l)
    BY <1>5 DEF AddSends, AddReturns
  <2>3. UNCHANGED <<sendOccuring, sendDone>>
    BY <1>5 DEF AddSends, sendVars
  <2> QED BY <2>1, <2>2, <2>3, QuietSet
<1> QED
  BY <1>1, <1>2, <1>3, <1>4, <1>5
  DEF GoodAdd

(* The completion of a send begins no destruction, and no operation of a   *)
(* live connection fails.                                                  *)
LEMMA GoodSendCalm ==
  ASSUME NEW t \in Threads, Types, Calm, GoodSend(t)
  PROVE  Calm'
<1> USE DEF Types, Calm, Goto, Is, EndLocations, endVars, envVars, kernelVars
<1>1. CASE SendPartial(t)
  BY <1>1 DEF SendPartial, SendPosted, SendIsPartial, SendBook
<1>2. CASE SendWhole(t)
  BY <1>2 DEF SendWhole, SendIsPartial, SendBook
<1>3. CASE SendPop(t)
  BY <1>3 DEF SendPop
<1>4. CASE SendDecrement(t)
  BY <1>4 DEF SendDecrement
<1>5. CASE SendSet(t)
  BY <1>5 DEF SendSet
<1>6. CASE SendNext(t)
  BY <1>6 DEF SendNext, SendPosted
<1>7. CASE Rearm(t)
  BY <1>7 DEF Rearm
<1>8. CASE RecvPosted(t)
  BY <1>8 DEF RecvPosted
<1> QED
  BY <1>1, <1>2, <1>3, <1>4, <1>5, <1>6, <1>7, <1>8
  DEF GoodSend

(* The completion of a send hands the one send on, or begins or ends it    *)
(* together with m_plSendOccuring.                                         *)
LEMMA GoodSendSendOnce ==
  ASSUME NEW t \in Threads, Types, SendOnce, SetWhenNeeded, GoodSend(t)
  PROVE  SendOnce'
<1>1. CASE SendPartial(t)
  <2>1. pc[t] = "s_peek"
    BY <1>1 DEF SendPartial, SendIsPartial, RecvIsPartial, Is, Is
  <2>2. PICK l \in {"idle"} : Goto(t, l)
    BY <1>1 DEF SendPartial
  <2>3. /\ pc \in [Threads -> Locations] /\ completions \in Seq(Ports)
        /\ inflight \in Seq([msg : Messages, left : Lefts])
        /\ sendOccuring \in Int
    BY ONLY Types DEF Types
  <2>4. /\ UNCHANGED <<sendOccuring, completions>>
        /\ \E x : inflight' = Append(inflight, x)
    BY <1>1 DEF SendPartial, SendPosted, sendVars, kernelVars
  <2>5. Sending' = Sending - 1
    <3>1. Sending' = Sending + Bit(l \in SendersAt) - Bit(pc[t] \in SendersAt)
      BY ONLY <2>2, <2>3, t \in Threads, Counts
    <3>2. Bit(l \in SendersAt) - Bit(pc[t] \in SendersAt) = -1
      BY <2>1, <2>2 DEF Bit, SendersAt
    <3>3. Bit(l \in SendersAt) \in Nat /\ Bit(pc[t] \in SendersAt) \in Nat
      BY DEF Bit
    <3> QED BY ONLY <3>1, <3>2, <3>3, CountsAreNat
  <2>6. Arrived("send")' = Arrived("send") /\ Arrived("send") \in Nat
    BY ONLY <2>3, <2>4, ArrivedSame, WaitingFinite
  <2>7. Len(inflight') = Len(inflight) + 1 /\ Len(inflight) \in Nat
    BY ONLY <2>3, <2>4
  <2> QED BY ONLY <2>3, <2>4, <2>5, <2>6, <2>7, CountsAreNat, SendOnce
          DEF SendOnce
<1>2. CASE SendWhole(t)
  <2>1. pc[t] = "s_peek"
    BY <1>2 DEF SendWhole, SendIsPartial, RecvIsPartial, Is, Is
  <2>2. PICK l \in {"s_pop"} : Goto(t, l)
    BY <1>2 DEF SendWhole
  <2>3. UNCHANGED <<inflight, completions, sendOccuring>>
    BY <1>2 DEF SendWhole, sendVars, kernelVars
  <2>4. pc[t] \in SendersAt <=> l \in SendersAt
    BY <2>1, <2>2 DEF SendersAt
  <2> QED BY <2>2, <2>3, <2>4, QuietSend
<1>3. CASE SendPop(t)
  <2>1. pc[t] = "s_pop"
    BY <1>3 DEF SendPop, Is
  <2>2. PICK l \in {"s_decrement", "s_next"} : Goto(t, l)
    BY <1>3 DEF SendPop
  <2>3. UNCHANGED <<inflight, completions, sendOccuring>>
    BY <1>3 DEF SendPop, sendVars, kernelVars
  <2>4. pc[t] \in SendersAt <=> l \in SendersAt
    BY <2>1, <2>2 DEF SendersAt
  <2> QED BY <2>2, <2>3, <2>4, QuietSend
<1>4. CASE SendDecrement(t)
  <2>1. pc[t] = "s_decrement"
    BY <1>4 DEF SendDecrement, Is
  <2>2. PICK l \in {"s_set"} : Goto(t, l)
    BY <1>4 DEF SendDecrement
  <2>3. /\ pc \in [Threads -> Locations] /\ completions \in Seq(Ports)
        /\ inflight \in Seq([msg : Messages, left : Lefts])
        /\ sendOccuring \in Int
    BY ONLY Types DEF Types
  <2>4. /\ sendOccuring' = sendOccuring - 1 /\ UNCHANGED inflight
        /\ UNCHANGED completions
    BY <1>4 DEF SendDecrement, sendVars, kernelVars
  <2>5. Sending' = Sending - 1
    <3>1. Sending' = Sending + Bit(l \in SendersAt) - Bit(pc[t] \in SendersAt)
      BY ONLY <2>2, <2>3, t \in Threads, Counts
    <3>2. Bit(l \in SendersAt) - Bit(pc[t] \in SendersAt) = -1
      BY <2>1, <2>2 DEF Bit, SendersAt
    <3>3. Bit(l \in SendersAt) \in Nat /\ Bit(pc[t] \in SendersAt) \in Nat
      BY DEF Bit
    <3> QED BY ONLY <3>1, <3>2, <3>3, CountsAreNat
  <2>6. Arrived("send")' = Arrived("send") /\ Arrived("send") \in Nat
    BY ONLY <2>3, <2>4, ArrivedSame, WaitingFinite
  <2>7. Len(inflight') = Len(inflight)  /\ Len(inflight) \in Nat
    BY ONLY <2>3, <2>4
  <2> QED BY ONLY <2>3, <2>4, <2>5, <2>6, <2>7, CountsAreNat, SendOnce
          DEF SendOnce
<1>5. CASE SendSet(t)
  <2>1. pc[t] = "s_set"
    BY <1>5 DEF SendSet, Is
  <2>2. PICK l \in {"s_rearm"} : Goto(t, l)
    BY <1>5 DEF SendSet
  <2>3. UNCHANGED <<inflight, completions, sendOccuring>>
    BY <1>5 DEF SendSet, sendVars, kernelVars
  <2>4. pc[t] \in SendersAt <=> l \in SendersAt
    BY <2>1, <2>2 DEF SendersAt
  <2> QED BY <2>2, <2>3, <2>4, QuietSend
<1>6. CASE SendNext(t)
  <2>1. pc[t] = "s_next"
    BY <1>6 DEF SendNext, Is
  <2>2. PICK l \in {"s_rearm"} : Goto(t, l)
    BY <1>6 DEF SendNext
  <2>3. /\ pc \in [Threads -> Locations] /\ completions \in Seq(Ports)
        /\ inflight \in Seq([msg : Messages, left : Lefts])
        /\ sendOccuring \in Int
    BY ONLY Types DEF Types
  <2>4. /\ UNCHANGED <<sendOccuring, completions>>
        /\ \E x : inflight' = Append(inflight, x)
    BY <1>6 DEF SendNext, SendPosted, sendVars, kernelVars
  <2>5. Sending' = Sending - 1
    <3>1. Sending' = Sending + Bit(l \in SendersAt) - Bit(pc[t] \in SendersAt)
      BY ONLY <2>2, <2>3, t \in Threads, Counts
    <3>2. Bit(l \in SendersAt) - Bit(pc[t] \in SendersAt) = -1
      BY <2>1, <2>2 DEF Bit, SendersAt
    <3>3. Bit(l \in SendersAt) \in Nat /\ Bit(pc[t] \in SendersAt) \in Nat
      BY DEF Bit
    <3> QED BY ONLY <3>1, <3>2, <3>3, CountsAreNat
  <2>6. Arrived("send")' = Arrived("send") /\ Arrived("send") \in Nat
    BY ONLY <2>3, <2>4, ArrivedSame, WaitingFinite
  <2>7. Len(inflight') = Len(inflight) + 1 /\ Len(inflight) \in Nat
    BY ONLY <2>3, <2>4
  <2> QED BY ONLY <2>3, <2>4, <2>5, <2>6, <2>7, CountsAreNat, SendOnce
          DEF SendOnce
<1>7. CASE Rearm(t)
  <2>1. pc[t] = "s_rearm"
    BY <1>7 DEF Rearm, Is
  <2>2. PICK l \in {"s_recv", "idle"} : Goto(t, l)
    BY <1>7 DEF Rearm
  <2>3. UNCHANGED <<inflight, completions, sendOccuring>>
    BY <1>7 DEF Rearm, sendVars, kernelVars
  <2>4. pc[t] \in SendersAt <=> l \in SendersAt
    BY <2>1, <2>2 DEF SendersAt
  <2> QED BY <2>2, <2>3, <2>4, QuietSend
<1>8. CASE RecvPosted(t)
  <2>1. pc[t] = "s_recv"
    BY <1>8 DEF RecvPosted, Is
  <2>2. PICK l \in {"idle"} : Goto(t, l)
    BY <1>8 DEF RecvPosted
  <2>3. UNCHANGED <<inflight, completions, sendOccuring>>
    BY <1>8 DEF RecvPosted, sendVars, kernelVars
  <2>4. pc[t] \in SendersAt <=> l \in SendersAt
    BY <2>1, <2>2 DEF SendersAt
  <2> QED BY <2>2, <2>3, <2>4, QuietSend
<1> QED
  BY <1>1, <1>2, <1>3, <1>4, <1>5, <1>6, <1>7, <1>8
  DEF GoodSend

(* The completion of a send hands the one receive on, or begins or ends it *)
(* together with m_plRecvOccuring.                                         *)
LEMMA GoodSendAgain ==
  ASSUME NEW t \in Threads, Types, Calm, ReceiveAgain, GoodSend(t)
  PROVE  ReceiveAgain'
<1> USE CountsAreNat DEF ReceiveAgain, Types, Is, Bit, recvVars, kernelVars
<1>1. CASE SendPartial(t)
  <2>1. pc[t] = "s_peek"
    BY <1>1 DEF SendPartial, SendIsPartial, RecvIsPartial, Is, Is
  <2>2. PICK l \in {"idle"} : Goto(t, l)
    BY <1>1 DEF SendPartial
  <2>3. UNCHANGED <<recvs, completions, recvOccuring>>
    BY <1>1
    DEF SendPartial, SendPosted, SendIsPartial, SendBook, recvVars, kernelVars
  <2> QED BY <2>1, <2>2, <2>3, QuietAgain
<1>2. CASE SendWhole(t)
  <2>1. pc[t] = "s_peek"
    BY <1>2 DEF SendWhole, SendIsPartial, RecvIsPartial, Is, Is
  <2>2. PICK l \in {"s_pop"} : Goto(t, l)
    BY <1>2 DEF SendWhole
  <2>3. UNCHANGED <<recvs, completions, recvOccuring>>
    BY <1>2 DEF SendWhole, SendIsPartial, SendBook, recvVars, kernelVars
  <2> QED BY <2>1, <2>2, <2>3, QuietAgain
<1>3. CASE SendPop(t)
  <2>1. pc[t] = "s_pop"
    BY <1>3 DEF SendPop, Is
  <2>2. PICK l \in {"s_decrement", "s_next"} : Goto(t, l)
    BY <1>3 DEF SendPop
  <2>3. UNCHANGED <<recvs, completions, recvOccuring>>
    BY <1>3 DEF SendPop, recvVars, kernelVars
  <2> QED BY <2>1, <2>2, <2>3, QuietAgain
<1>4. CASE SendDecrement(t)
  <2>1. pc[t] = "s_decrement"
    BY <1>4 DEF SendDecrement, Is
  <2>2. PICK l \in {"s_set"} : Goto(t, l)
    BY <1>4 DEF SendDecrement
  <2>3. UNCHANGED <<recvs, completions, recvOccuring>>
    BY <1>4 DEF SendDecrement, recvVars, kernelVars
  <2> QED BY <2>1, <2>2, <2>3, QuietAgain
<1>5. CASE SendSet(t)
  <2>1. pc[t] = "s_set"
    BY <1>5 DEF SendSet, Is
  <2>2. PICK l \in {"s_rearm"} : Goto(t, l)
    BY <1>5 DEF SendSet
  <2>3. UNCHANGED <<recvs, completions, recvOccuring>>
    BY <1>5 DEF SendSet, recvVars, kernelVars
  <2> QED BY <2>1, <2>2, <2>3, QuietAgain
<1>6. CASE SendNext(t)
  <2>1. pc[t] = "s_next"
    BY <1>6 DEF SendNext, Is
  <2>2. PICK l \in {"s_rearm"} : Goto(t, l)
    BY <1>6 DEF SendNext
  <2>3. UNCHANGED <<recvs, completions, recvOccuring>>
    BY <1>6 DEF SendNext, SendPosted, recvVars, kernelVars
  <2> QED BY <2>1, <2>2, <2>3, QuietAgain
<1>7. CASE Rearm(t)
  <2>1. pc[t] = "s_rearm"
    BY <1>7 DEF Rearm, Is
  <2>2. Goto(t, IF recvOccuring = 0 THEN "s_recv" ELSE "idle")
    BY <1>7 DEF Rearm
  <2>3. /\ pc \in [Threads -> Locations] /\ recvs \in Nat
        /\ recvOccuring \in {0, 1} /\ completions \in Seq(Ports)
    BY ONLY Types DEF Types
  <2>4. recvOccuring' = 1 /\ UNCHANGED <<recvs, completions>>
    BY <1>7 DEF Rearm, recvVars, kernelVars
  <2>5. CASE recvOccuring = 0
    <3>1. Goto(t, "s_recv")
      BY ONLY <2>2, <2>5
    <3>2. Receiving' = Receiving + 1
      BY ONLY <2>1, <2>3, <3>1, Counts DEF Bit
    <3>3. Arrived("recv")' = Arrived("recv")
      BY ONLY <2>3, <2>4, ArrivedSame
    <3> QED BY ONLY <2>3, <2>4, <2>5, <3>2, <3>3, ReceiveAgain,
                    CountsAreNat, WaitingFinite
            DEF ReceiveAgain
  <2>6. CASE recvOccuring # 0
    <3>1. Goto(t, "idle")
      BY ONLY <2>2, <2>6
    <3>2. Receiving' = Receiving + 0
      BY ONLY <2>1, <2>3, <3>1, Counts DEF Bit
    <3>3. Arrived("recv")' = Arrived("recv")
      BY ONLY <2>3, <2>4, ArrivedSame
    <3> QED BY ONLY <2>3, <2>4, <2>6, <3>2, <3>3, ReceiveAgain,
                    CountsAreNat, WaitingFinite
            DEF ReceiveAgain
  <2> QED BY <2>5, <2>6
<1>8. CASE RecvPosted(t)
  <2>1. pc[t] = "s_recv"
    BY <1>8 DEF RecvPosted, Is
  <2>2. PICK l \in {"idle"} : Goto(t, l)
    BY <1>8 DEF RecvPosted
  <2>3. /\ pc \in [Threads -> Locations] /\ recvs \in Nat
        /\ recvOccuring \in {0, 1} /\ completions \in Seq(Ports)
    BY ONLY Types DEF Types
  <2>4. recvs' = recvs + 1 /\ UNCHANGED <<recvOccuring, completions>>
    BY <1>8 DEF RecvPosted, recvVars, kernelVars
  <2>5. Receiving' = Receiving - 1
    BY ONLY <2>1, <2>2, <2>3, Counts, CountsAreNat DEF Bit
  <2>6. Arrived("recv")' = Arrived("recv") /\ Arrived("recv") \in Nat
    BY ONLY <2>3, <2>4, ArrivedSame, WaitingFinite
  <2> QED BY ONLY <2>3, <2>4, <2>5, <2>6, ReceiveAgain, CountsAreNat
          DEF ReceiveAgain
<1> QED
  BY <1>1, <1>2, <1>3, <1>4, <1>5, <1>6, <1>7, <1>8
  DEF GoodSend

(* The completion of a send sets and resets SEND_DONE_EVENT with the       *)
(* counter.                                                                *)
LEMMA GoodSendSets ==
  ASSUME NEW t \in Threads, Types, MutexHeld, SendOnce, SetWhenNeeded,
         GoodSend(t)
  PROVE  SetWhenNeeded'
<1>1. CASE SendPartial(t)
  <2>1. pc[t] = "s_peek"
    BY <1>1 DEF SendPartial, SendIsPartial, RecvIsPartial, Is, Is
  <2>2. PICK l \in {"idle"} : Goto(t, l)
    BY <1>1 DEF SendPartial
  <2>3. UNCHANGED <<sendOccuring, sendDone>>
    BY <1>1 DEF SendPartial, sendVars
  <2> QED BY <2>1, <2>2, <2>3, QuietSet
<1>2. CASE SendWhole(t)
  <2>1. pc[t] = "s_peek"
    BY <1>2 DEF SendWhole, SendIsPartial, RecvIsPartial, Is, Is
  <2>2. PICK l \in {"s_pop"} : Goto(t, l)
    BY <1>2 DEF SendWhole
  <2>3. UNCHANGED <<sendOccuring, sendDone>>
    BY <1>2 DEF SendWhole, sendVars
  <2> QED BY <2>1, <2>2, <2>3, QuietSet
<1>3. CASE SendPop(t)
  <2>1. pc[t] = "s_pop"
    BY <1>3 DEF SendPop, Is
  <2>2. PICK l \in {"s_decrement", "s_next"} : Goto(t, l)
    BY <1>3 DEF SendPop
  <2>3. UNCHANGED <<sendOccuring, sendDone>>
    BY <1>3 DEF SendPop, sendVars
  <2> QED BY <2>1, <2>2, <2>3, QuietSet
<1>4. CASE SendDecrement(t)
  <2>1. /\ pc[t] = "s_decrement" /\ Goto(t, "s_set")
        /\ sendOccuring' = sendOccuring - 1
    BY <1>4 DEF SendDecrement, Is
  <2>2. sendOccuring = 1
    <3>1. pc[t] \in SendersAt
      BY ONLY <2>1 DEF SendersAt
    <3> QED BY <3>1, SenderIsAlone
  <2>3. \A u \in Threads : u # t => pc[u] \notin MutexAt
    BY <2>1, ThreadsAssumption DEF MutexHeld, MutexAt
  <2>4. \A u \in Threads : pc'[u] = IF u = t THEN "s_set" ELSE pc[u]
    BY <2>1, GotoIs DEF Types
  <2>5. sendOccuring' = 0
    BY ONLY <2>1, <2>2
  <2>6. \A u \in Threads : u # t => pc'[u] \notin {"a_reset", "s_set"}
    BY ONLY <2>3, <2>4 DEF MutexAt
  <2>7. pc'[t] = "s_set"
    BY ONLY <2>4, t \in Threads
  <2> QED BY ONLY <2>5, <2>6, <2>7, t \in Threads DEF SetWhenNeeded
<1>5. CASE SendSet(t)
  <2>1. /\ pc[t] = "s_set" /\ Goto(t, "s_rearm") /\ sendDone' = TRUE
        /\ sendOccuring' = sendOccuring
    BY <1>5 DEF SendSet, Is
  <2>2. sendOccuring = 0
    BY ONLY <2>1, SetWhenNeeded, t \in Threads DEF SetWhenNeeded
  <2>3. \A u \in Threads : u # t => pc[u] \notin MutexAt
    BY <2>1, ThreadsAssumption DEF MutexHeld, MutexAt
  <2>4. \A u \in Threads : pc'[u] = IF u = t THEN "s_rearm" ELSE pc[u]
    BY <2>1, GotoIs DEF Types
  <2>5. \A u \in Threads : pc'[u] \notin {"a_reset", "s_set"}
    BY ONLY <2>3, <2>4 DEF MutexAt
  <2> QED BY ONLY <2>1, <2>2, <2>5 DEF SetWhenNeeded
<1>6. CASE SendNext(t)
  <2>1. pc[t] = "s_next"
    BY <1>6 DEF SendNext, Is
  <2>2. PICK l \in {"s_rearm"} : Goto(t, l)
    BY <1>6 DEF SendNext
  <2>3. UNCHANGED <<sendOccuring, sendDone>>
    BY <1>6 DEF SendNext, sendVars
  <2> QED BY <2>1, <2>2, <2>3, QuietSet
<1>7. CASE Rearm(t)
  <2>1. pc[t] = "s_rearm"
    BY <1>7 DEF Rearm, Is
  <2>2. PICK l \in {"s_recv", "idle"} : Goto(t, l)
    BY <1>7 DEF Rearm
  <2>3. UNCHANGED <<sendOccuring, sendDone>>
    BY <1>7 DEF Rearm, sendVars
  <2> QED BY <2>1, <2>2, <2>3, QuietSet
<1>8. CASE RecvPosted(t)
  <2>1. pc[t] = "s_recv"
    BY <1>8 DEF RecvPosted, Is
  <2>2. PICK l \in {"idle"} : Goto(t, l)
    BY <1>8 DEF RecvPosted
  <2>3. UNCHANGED <<sendOccuring, sendDone>>
    BY <1>8 DEF RecvPosted, sendVars
  <2> QED BY <2>1, <2>2, <2>3, QuietSet
<1> QED
  BY <1>1, <1>2, <1>3, <1>4, <1>5, <1>6, <1>7, <1>8
  DEF GoodSend

(* The completion of a receive begins no destruction, and no operation of  *)
(* a live connection fails.                                                *)
LEMMA GoodRecvCalm ==
  ASSUME NEW t \in Threads, Types, Calm, GoodRecv(t)
  PROVE  Calm'
<1> USE DEF Types, Calm, Goto, Is, EndLocations, endVars, envVars, kernelVars
<1>1. CASE RecvPartial(t)
  BY <1>1 DEF RecvPartial, RecvIsPartial
<1>2. CASE RecvWhole(t)
  BY <1>2 DEF RecvWhole, RecvIsPartial
<1>3. CASE Answer(t)
  BY <1>3 DEF Answer
<1>4. CASE NoAnswer(t)
  BY <1>4 DEF NoAnswer
<1> QED
  BY <1>1, <1>2, <1>3, <1>4
  DEF GoodRecv

(* The completion of a receive hands the one send on, or begins or ends it *)
(* together with m_plSendOccuring.                                         *)
LEMMA GoodRecvSendOnce ==
  ASSUME NEW t \in Threads, Types, SendOnce, SetWhenNeeded, GoodRecv(t)
  PROVE  SendOnce'
<1>1. CASE RecvPartial(t)
  <2>1. pc[t] = "r_parse"
    BY <1>1 DEF RecvPartial, SendIsPartial, RecvIsPartial, Is, Is
  <2>2. PICK l \in {"idle"} : Goto(t, l)
    BY <1>1 DEF RecvPartial
  <2>3. UNCHANGED <<inflight, completions, sendOccuring>>
    BY <1>1 DEF RecvPartial, sendVars, kernelVars
  <2>4. pc[t] \in SendersAt <=> l \in SendersAt
    BY <2>1, <2>2 DEF SendersAt
  <2> QED BY <2>2, <2>3, <2>4, QuietSend
<1>2. CASE RecvWhole(t)
  <2>1. pc[t] = "r_parse"
    BY <1>2 DEF RecvWhole, SendIsPartial, RecvIsPartial, Is, Is
  <2>2. PICK l \in {"handle"} : Goto(t, l)
    BY <1>2 DEF RecvWhole
  <2>3. UNCHANGED <<inflight, completions, sendOccuring>>
    BY <1>2 DEF RecvWhole, sendVars, kernelVars
  <2>4. pc[t] \in SendersAt <=> l \in SendersAt
    BY <2>1, <2>2 DEF SendersAt
  <2> QED BY <2>2, <2>3, <2>4, QuietSend
<1>3. CASE Answer(t)
  <2>1. pc[t] = "handle"
    BY <1>3 DEF Answer, Is
  <2>2. PICK l \in {"a_lock"} : Goto(t, l)
    BY <1>3 DEF Answer
  <2>3. UNCHANGED <<inflight, completions, sendOccuring>>
    BY <1>3 DEF Answer, sendVars, kernelVars
  <2>4. pc[t] \in SendersAt <=> l \in SendersAt
    BY <2>1, <2>2 DEF SendersAt
  <2> QED BY <2>2, <2>3, <2>4, QuietSend
<1>4. CASE NoAnswer(t)
  <2>1. pc[t] = "handle"
    BY <1>4 DEF NoAnswer, Is
  <2>2. PICK l \in {"idle"} : Goto(t, l)
    BY <1>4 DEF NoAnswer
  <2>3. UNCHANGED <<inflight, completions, sendOccuring>>
    BY <1>4 DEF NoAnswer, sendVars, kernelVars
  <2>4. pc[t] \in SendersAt <=> l \in SendersAt
    BY <2>1, <2>2 DEF SendersAt
  <2> QED BY <2>2, <2>3, <2>4, QuietSend
<1> QED
  BY <1>1, <1>2, <1>3, <1>4
  DEF GoodRecv

(* The completion of a receive hands the one receive on, or begins or ends *)
(* it together with m_plRecvOccuring.                                      *)
LEMMA GoodRecvAgain ==
  ASSUME NEW t \in Threads, Types, Calm, ReceiveAgain, GoodRecv(t)
  PROVE  ReceiveAgain'
<1> USE CountsAreNat DEF ReceiveAgain, Types, Is, Bit, recvVars, kernelVars
<1>1. CASE RecvPartial(t)
  <2>1. pc[t] = "r_parse"
    BY <1>1 DEF RecvPartial, SendIsPartial, RecvIsPartial, Is, Is
  <2>2. PICK l \in {"idle"} : Goto(t, l)
    BY <1>1 DEF RecvPartial
  <2>3. /\ pc \in [Threads -> Locations] /\ recvs \in Nat
        /\ recvOccuring \in {0, 1} /\ completions \in Seq(Ports)
    BY ONLY Types DEF Types
  <2>4. recvs' = recvs + 1 /\ UNCHANGED <<recvOccuring, completions>>
    BY <1>1 DEF RecvPartial, RecvIsPartial, recvVars, kernelVars
  <2>5. Receiving' = Receiving - 1
    BY ONLY <2>1, <2>2, <2>3, Counts, CountsAreNat DEF Bit
  <2>6. Arrived("recv")' = Arrived("recv") /\ Arrived("recv") \in Nat
    BY ONLY <2>3, <2>4, ArrivedSame, WaitingFinite
  <2> QED BY ONLY <2>3, <2>4, <2>5, <2>6, ReceiveAgain, CountsAreNat
          DEF ReceiveAgain
<1>2. CASE RecvWhole(t)
  <2>1. pc[t] = "r_parse"
    BY <1>2 DEF RecvWhole, SendIsPartial, RecvIsPartial, Is, Is
  <2>2. PICK l \in {"handle"} : Goto(t, l)
    BY <1>2 DEF RecvWhole
  <2>3. /\ pc \in [Threads -> Locations] /\ recvs \in Nat
        /\ recvOccuring \in {0, 1} /\ completions \in Seq(Ports)
    BY ONLY Types DEF Types
  <2>4. recvOccuring' = recvOccuring - 1 /\ UNCHANGED <<recvs, completions>>
    BY <1>2 DEF RecvWhole, RecvIsPartial, recvVars, kernelVars
  <2>5. Receiving' = Receiving - 1
    BY ONLY <2>1, <2>2, <2>3, Counts, CountsAreNat DEF Bit
  <2>6. Arrived("recv")' = Arrived("recv") /\ Arrived("recv") \in Nat
    BY ONLY <2>3, <2>4, ArrivedSame, WaitingFinite
  <2> QED BY ONLY <2>3, <2>4, <2>5, <2>6, ReceiveAgain, CountsAreNat
          DEF ReceiveAgain
<1>3. CASE Answer(t)
  <2>1. pc[t] = "handle"
    BY <1>3 DEF Answer, Is
  <2>2. PICK l \in {"a_lock"} : Goto(t, l)
    BY <1>3 DEF Answer
  <2>3. UNCHANGED <<recvs, completions, recvOccuring>>
    BY <1>3 DEF Answer, recvVars, kernelVars
  <2> QED BY <2>1, <2>2, <2>3, QuietAgain
<1>4. CASE NoAnswer(t)
  <2>1. pc[t] = "handle"
    BY <1>4 DEF NoAnswer, Is
  <2>2. PICK l \in {"idle"} : Goto(t, l)
    BY <1>4 DEF NoAnswer
  <2>3. UNCHANGED <<recvs, completions, recvOccuring>>
    BY <1>4 DEF NoAnswer, recvVars, kernelVars
  <2> QED BY <2>1, <2>2, <2>3, QuietAgain
<1> QED
  BY <1>1, <1>2, <1>3, <1>4
  DEF GoodRecv

(* The completion of a receive sets and resets SEND_DONE_EVENT with the    *)
(* counter.                                                                *)
LEMMA GoodRecvSets ==
  ASSUME NEW t \in Threads, Types, MutexHeld, SendOnce, SetWhenNeeded,
         GoodRecv(t)
  PROVE  SetWhenNeeded'
<1>1. CASE RecvPartial(t)
  <2>1. pc[t] = "r_parse"
    BY <1>1 DEF RecvPartial, SendIsPartial, RecvIsPartial, Is, Is
  <2>2. PICK l \in {"idle"} : Goto(t, l)
    BY <1>1 DEF RecvPartial
  <2>3. UNCHANGED <<sendOccuring, sendDone>>
    BY <1>1 DEF RecvPartial, sendVars
  <2> QED BY <2>1, <2>2, <2>3, QuietSet
<1>2. CASE RecvWhole(t)
  <2>1. pc[t] = "r_parse"
    BY <1>2 DEF RecvWhole, SendIsPartial, RecvIsPartial, Is, Is
  <2>2. PICK l \in {"handle"} : Goto(t, l)
    BY <1>2 DEF RecvWhole
  <2>3. UNCHANGED <<sendOccuring, sendDone>>
    BY <1>2 DEF RecvWhole, sendVars
  <2> QED BY <2>1, <2>2, <2>3, QuietSet
<1>3. CASE Answer(t)
  <2>1. pc[t] = "handle"
    BY <1>3 DEF Answer, Is
  <2>2. PICK l \in {"a_lock"} : Goto(t, l)
    BY <1>3 DEF Answer
  <2>3. UNCHANGED <<sendOccuring, sendDone>>
    BY <1>3 DEF Answer, sendVars
  <2> QED BY <2>1, <2>2, <2>3, QuietSet
<1>4. CASE NoAnswer(t)
  <2>1. pc[t] = "handle"
    BY <1>4 DEF NoAnswer, Is
  <2>2. PICK l \in {"idle"} : Goto(t, l)
    BY <1>4 DEF NoAnswer
  <2>3. UNCHANGED <<sendOccuring, sendDone>>
    BY <1>4 DEF NoAnswer, sendVars
  <2> QED BY <2>1, <2>2, <2>3, QuietSet
<1> QED
  BY <1>1, <1>2, <1>3, <1>4
  DEF GoodRecv

(* Taking a completion or a broadcast begins no destruction, and no        *)
(* operation of a live connection fails.                                   *)
LEMMA PortStepCalm ==
  ASSUME NEW t \in Threads, Types, Calm, PortStep(t)
  PROVE  Calm'
<1> USE DEF Types, Calm, Goto, Is, EndLocations, endVars, envVars, kernelVars
<1>1. CASE TakeCompletion(t)
  <2>1. /\ completions \in Seq(Ports) /\ completions # <<>>
        /\ completions' = Tail(completions)
        /\ UNCHANGED <<up, closed, stopped, destroying>>
    BY <1>1 DEF TakeCompletion
  <2>2. Head(completions).bytes > 0
    <3>1. Head(completions) = completions[1] /\ 1 \in 1 .. Len(completions)
      BY ONLY <2>1
    <3> QED BY <3>1
  <2>3. PICK l \in {"r_parse", "s_peek"} : Goto(t, l)
    <3>1. ~(Head(completions).bytes = 0)
      BY ONLY <2>2
    <3> QED BY ONLY <1>1, Types, <3>1, TakeGoes
  <2>4. \A i \in 1 .. Len(completions') :
          /\ completions'[i] = completions[i + 1]
          /\ i + 1 \in 1 .. Len(completions)
    BY ONLY <2>1
  <2>5. \A i \in 1 .. Len(completions') : completions'[i].bytes > 0
    BY ONLY <2>4, Calm DEF Calm
  <2>6. \A u \in Threads : pc'[u] \notin EndLocations \cup {"s_fail"}
    BY <2>3
  <2> QED BY ONLY <2>1, <2>5, <2>6, Calm DEF Calm
<1>2. CASE Broadcast(t)
  BY <1>2 DEF Broadcast
<1> QED
  BY <1>1, <1>2
  DEF PortStep

(* Taking a completion or a broadcast hands the one send on, or begins or  *)
(* ends it together with m_plSendOccuring.                                 *)
LEMMA PortStepSendOnce ==
  ASSUME NEW t \in Threads, Types, SendOnce, SetWhenNeeded, PortStep(t)
  PROVE  SendOnce'
<1>1. CASE TakeCompletion(t)
  <2>1. pc[t] = "idle" /\ pc[t] \notin SendersAt
    BY <1>1 DEF TakeCompletion, Is, SendersAt
  <2>2. PICK l \in {"r_parse", "x_recv", "s_peek", "x_send"} :
          Goto(t, l) /\ (l \in SendersAt <=> Head(completions).op = "send")
    BY <1>1, TakeGoes DEF SendersAt
  <2>3. /\ pc \in [Threads -> Locations] /\ completions \in Seq(Ports)
        /\ inflight \in Seq([msg : Messages, left : Lefts])
        /\ sendOccuring \in Int
    BY ONLY Types DEF Types
  <2>4. /\ completions # <<>> /\ completions' = Tail(completions)
        /\ UNCHANGED <<inflight, sendOccuring>>
    BY <1>1 DEF TakeCompletion, sendVars
  <2>5. Arrived("send")' = Arrived("send") - Bit(Head(completions).op = "send")
    BY ONLY <2>3, <2>4, ArrivedTake
  <2>6. Sending' = Sending + Bit(Head(completions).op = "send")
    <3>1. Sending' = Sending + Bit(l \in SendersAt) - Bit(pc[t] \in SendersAt)
      BY ONLY <2>2, <2>3, t \in Threads, Counts
    <3> QED BY ONLY <2>1, <2>2, <3>1, CountsAreNat DEF Bit
  <2>7. /\ Arrived("send") \in Nat /\ Len(inflight) \in Nat
        /\ Bit(Head(completions).op = "send") \in {0, 1}
    BY ONLY <2>3, WaitingFinite DEF Bit
  <2> QED BY ONLY <2>3, <2>4, <2>5, <2>6, <2>7, CountsAreNat, SendOnce
          DEF SendOnce
<1>2. CASE Broadcast(t)
  <2>1. pc[t] = "idle"
    BY <1>2 DEF Broadcast, Is
  <2>2. PICK l \in {"a_lock"} : Goto(t, l)
    BY <1>2 DEF Broadcast
  <2>3. UNCHANGED <<inflight, completions, sendOccuring>>
    BY <1>2 DEF Broadcast, sendVars, kernelVars
  <2>4. pc[t] \in SendersAt <=> l \in SendersAt
    BY <2>1, <2>2 DEF SendersAt
  <2> QED BY <2>2, <2>3, <2>4, QuietSend
<1> QED
  BY <1>1, <1>2
  DEF PortStep

(* Taking a completion or a broadcast hands the one receive on, or begins  *)
(* or ends it together with m_plRecvOccuring.                              *)
LEMMA PortStepAgain ==
  ASSUME NEW t \in Threads, Types, Calm, ReceiveAgain, PortStep(t)
  PROVE  ReceiveAgain'
<1> USE CountsAreNat DEF ReceiveAgain, Types, Is, Bit, recvVars, kernelVars
<1>1. CASE TakeCompletion(t)
  <2>1. pc[t] = "idle"
    BY <1>1 DEF TakeCompletion, Is
  <2>2. PICK l \in {"r_parse", "x_recv", "s_peek", "x_send"} :
          Goto(t, l) /\ (l = "r_parse" <=> Head(completions).op = "recv")
    <3>1. Head(completions) = completions[1] /\ 1 \in 1 .. Len(completions)
      BY <1>1 DEF TakeCompletion, Types
    <3>2. ~(Head(completions).bytes = 0)
      BY <3>1 DEF Calm
    <3> QED BY <1>1, <3>2, TakeGoes
  <2>3. /\ pc \in [Threads -> Locations] /\ recvs \in Nat
        /\ recvOccuring \in {0, 1} /\ completions \in Seq(Ports)
    BY ONLY Types DEF Types
  <2>4. /\ completions # <<>> /\ completions' = Tail(completions)
        /\ UNCHANGED <<recvs, recvOccuring>>
    BY <1>1 DEF TakeCompletion, recvVars, kernelVars
  <2>6. Arrived("recv")' = Arrived("recv") - Bit(Head(completions).op = "recv")
    BY ONLY <2>3, <2>4, ArrivedTake
  <2>7. Receiving' = Receiving + Bit(l = "r_parse")
    BY ONLY <2>1, <2>2, <2>3, Counts, CountsAreNat DEF Bit
  <2>8. Bit(l = "r_parse") = Bit(Head(completions).op = "recv")
    BY ONLY <2>2 DEF Bit
  <2>9. /\ Bit(l = "r_parse") \in {0, 1} /\ Arrived("recv") \in Nat
        /\ Bit(Head(completions).op = "recv") \in {0, 1}
    BY ONLY <2>3, WaitingFinite DEF Bit
  <2> QED BY ONLY <2>3, <2>4, <2>6, <2>7, <2>8, <2>9, ReceiveAgain,
                  CountsAreNat
          DEF ReceiveAgain
<1>2. CASE Broadcast(t)
  <2>1. pc[t] = "idle"
    BY <1>2 DEF Broadcast, Is
  <2>2. PICK l \in {"a_lock"} : Goto(t, l)
    BY <1>2 DEF Broadcast
  <2>3. UNCHANGED <<recvs, completions, recvOccuring>>
    BY <1>2 DEF Broadcast, recvVars, kernelVars
  <2> QED BY <2>1, <2>2, <2>3, QuietAgain
<1> QED
  BY <1>1, <1>2
  DEF PortStep

(* Taking a completion or a broadcast sets and resets SEND_DONE_EVENT with *)
(* the counter.                                                            *)
LEMMA PortStepSets ==
  ASSUME NEW t \in Threads, Types, MutexHeld, SendOnce, SetWhenNeeded,
         PortStep(t)
  PROVE  SetWhenNeeded'
<1>1. CASE TakeCompletion(t)
  <2>1. pc[t] = "idle"
    BY <1>1 DEF TakeCompletion, Is
  <2>2. PICK l \in {"r_parse", "x_recv", "s_peek", "x_send"} : Goto(t, l)
    BY <1>1, TakeGoes
  <2>3. UNCHANGED <<sendOccuring, sendDone>>
    BY <1>1 DEF TakeCompletion, sendVars
  <2> QED BY <2>1, <2>2, <2>3, QuietSet
<1>2. CASE Broadcast(t)
  <2>1. pc[t] = "idle"
    BY <1>2 DEF Broadcast, Is
  <2>2. PICK l \in {"a_lock"} : Goto(t, l)
    BY <1>2 DEF Broadcast
  <2>3. UNCHANGED <<sendOccuring, sendDone>>
    BY <1>2 DEF Broadcast, sendVars
  <2> QED BY <2>1, <2>2, <2>3, QuietSet
<1> QED
  BY <1>1, <1>2
  DEF PortStep

(* The kernel begins no destruction, and no operation of a live connection *)
(* fails.                                                                  *)
LEMMA KernelCalm ==
  ASSUME Types, Calm, KernelFits, Kernel
  PROVE  Calm'
<1> USE DEF Types, Calm, Goto, Is, EndLocations, endVars, envVars, kernelVars
<1>1. CASE SendCompletes
  <2>1. PICK n \in 0 .. Head(inflight).left :
          /\ n = 0 => ~up \/ Head(inflight).left = 0
          /\ completions' = Append(completions,
               [op |-> "send", msg |-> Head(inflight).msg, bytes |-> n])
    BY <1>1 DEF SendCompletes
  <2>2. n > 0 /\ completions \in Seq(Ports)
    <3>1. Head(inflight) = inflight[1] /\ 1 \in 1 .. Len(inflight)
      BY <1>1 DEF SendCompletes
    <3>2. Head(inflight).left > 0
      BY ONLY <3>1, KernelFits DEF KernelFits, InProgress
    <3>3. Head(inflight).left # 0
      BY ONLY <3>2
    <3>4. n # 0
      BY <2>1, <3>3
    <3> QED BY ONLY <2>1, <3>4, Types DEF Types
  <2>3. \A i \in 1 .. Len(completions') : completions'[i].bytes > 0
    <3>1. /\ Len(completions') = Len(completions) + 1
          /\ Len(completions) \in Nat
          /\ completions'[Len(completions) + 1]
               = [op |-> "send", msg |-> Head(inflight).msg, bytes |-> n]
          /\ \A i \in 1 .. Len(completions) : completions'[i] = completions[i]
      BY ONLY <2>1, <2>2
    <3> QED BY ONLY <2>2, <3>1, Calm DEF Calm
  <2>4. UNCHANGED <<pc, up, closed, stopped, destroying>>
    BY <1>1 DEF SendCompletes
  <2> QED BY ONLY <2>3, <2>4, Calm DEF Calm
<1>2. CASE RecvCompletes
  <2>1. PICK n \in 0 .. (MsgSize - recvMoved) :
          /\ IF n = 0 THEN ~up ELSE requests > 0
          /\ completions' = Append(completions,
               [op |-> "recv", msg |-> 0, bytes |-> n])
    BY <1>2 DEF RecvCompletes
  <2>2. n > 0 /\ completions \in Seq(Ports)
    BY <2>1
  <2>3. \A i \in 1 .. Len(completions') : completions'[i].bytes > 0
    <3>1. /\ Len(completions') = Len(completions) + 1
          /\ Len(completions) \in Nat
          /\ completions'[Len(completions) + 1]
               = [op |-> "recv", msg |-> 0, bytes |-> n]
          /\ \A i \in 1 .. Len(completions) : completions'[i] = completions[i]
      BY ONLY <2>1, <2>2
    <3> QED BY ONLY <2>2, <3>1, Calm DEF Calm
  <2>4. UNCHANGED <<pc, up, closed, stopped, destroying>>
    BY <1>2 DEF RecvCompletes
  <2> QED BY ONLY <2>3, <2>4, Calm DEF Calm
<1> QED
  BY <1>1, <1>2
  DEF Kernel

(* The kernel hands the one send on, or begins or ends it together with    *)
(* m_plSendOccuring.                                                       *)
LEMMA KernelSendOnce ==
  ASSUME Types, SendOnce, SetWhenNeeded, Kernel
  PROVE  SendOnce'
<1>1. CASE SendCompletes
  <2>1. /\ inflight # <<>> /\ inflight' = Tail(inflight)
        /\ UNCHANGED <<pc, sendOccuring>>
    BY <1>1 DEF SendCompletes, sendVars
  <2>2. PICK c \in Ports :
          c.op = "send" /\ completions' = Append(completions, c)
    BY ONLY <1>1, Types, SendCompletesFits
  <2>3. /\ pc \in [Threads -> Locations] /\ completions \in Seq(Ports)
        /\ inflight \in Seq([msg : Messages, left : Lefts])
        /\ sendOccuring \in Int
    BY ONLY Types DEF Types
  <2>4. Arrived("send")' = Arrived("send") + 1 /\ Arrived("send") \in Nat
    <3>1. Arrived("send")' = Arrived("send") + Bit(c.op = "send")
      BY ONLY <2>2, <2>3, ArrivedAdd
    <3>2. Arrived("send") \in Nat
      BY ONLY <2>3, WaitingFinite
    <3> QED BY ONLY <2>2, <3>1, <3>2 DEF Bit
  <2>5. Len(inflight') = Len(inflight) - 1 /\ Len(inflight) \in Nat
    BY ONLY <2>1, <2>3
  <2>6. Sending' = Sending
    BY ONLY <2>1, CountsSame
  <2> QED BY ONLY <2>1, <2>3, <2>4, <2>5, <2>6, CountsAreNat, SendOnce
          DEF SendOnce
<1>2. CASE RecvCompletes
  <2>1. UNCHANGED <<pc, sendOccuring, inflight>>
    BY <1>2 DEF RecvCompletes, sendVars
  <2>2. PICK c \in Ports :
          c.op = "recv" /\ completions' = Append(completions, c)
    BY ONLY <1>2, Types, RecvCompletesFits
  <2>3. /\ pc \in [Threads -> Locations] /\ completions \in Seq(Ports)
        /\ inflight \in Seq([msg : Messages, left : Lefts])
        /\ sendOccuring \in Int
    BY ONLY Types DEF Types
  <2>4. Arrived("send")' = Arrived("send") /\ Arrived("send") \in Nat
    <3>1. Arrived("send")' = Arrived("send") + Bit(c.op = "send")
      BY ONLY <2>2, <2>3, ArrivedAdd
    <3>2. Arrived("send") \in Nat
      BY ONLY <2>3, WaitingFinite
    <3> QED BY ONLY <2>2, <3>1, <3>2 DEF Bit
  <2>6. Sending' = Sending
    BY ONLY <2>1, CountsSame
  <2> QED BY ONLY <2>1, <2>4, <2>6, SendOnce DEF SendOnce
<1> QED
  BY <1>1, <1>2
  DEF Kernel

(* The kernel hands the one receive on, or begins or ends it together with *)
(* m_plRecvOccuring.                                                       *)
LEMMA KernelAgain ==
  ASSUME Types, Calm, ReceiveAgain, Kernel
  PROVE  ReceiveAgain'
<1> USE CountsAreNat DEF ReceiveAgain, Types, Is, Bit, recvVars, kernelVars
<1>1. CASE SendCompletes
  <2>1. UNCHANGED <<pc, recvs, recvOccuring>>
    BY <1>1 DEF SendCompletes, recvVars, kernelVars
  <2>2. PICK c \in Ports :
          c.op = "send" /\ completions' = Append(completions, c)
    BY ONLY <1>1, Types, SendCompletesFits
  <2>3. /\ pc \in [Threads -> Locations] /\ recvs \in Nat
        /\ recvOccuring \in {0, 1} /\ completions \in Seq(Ports)
    BY ONLY Types DEF Types
  <2>4. Arrived("recv")' = Arrived("recv") + Bit(c.op = "recv")
    BY ONLY <2>2, <2>3, ArrivedAdd
  <2> QED BY ONLY <2>1, <2>2, <2>3, <2>4, ReceiveAgain, CountsSame,
                  CountsAreNat, WaitingFinite
          DEF ReceiveAgain, Bit
<1>2. CASE RecvCompletes
  <2>1. recvs' = recvs - 1 /\ recvs > 0 /\ UNCHANGED <<pc, recvOccuring>>
    BY <1>2 DEF RecvCompletes, recvVars, kernelVars
  <2>2. PICK c \in Ports :
          c.op = "recv" /\ completions' = Append(completions, c)
    BY ONLY <1>2, Types, RecvCompletesFits
  <2>3. /\ pc \in [Threads -> Locations] /\ recvs \in Nat
        /\ recvOccuring \in {0, 1} /\ completions \in Seq(Ports)
    BY ONLY Types DEF Types
  <2>4. Arrived("recv")' = Arrived("recv") + Bit(c.op = "recv")
    BY ONLY <2>2, <2>3, ArrivedAdd
  <2> QED BY ONLY <2>1, <2>2, <2>3, <2>4, ReceiveAgain, CountsSame,
                  CountsAreNat, WaitingFinite
          DEF ReceiveAgain, Bit
<1> QED
  BY <1>1, <1>2
  DEF Kernel

(* The kernel sets and resets SEND_DONE_EVENT with the counter.            *)
LEMMA KernelSets ==
  ASSUME Types, MutexHeld, SendOnce, SetWhenNeeded, Kernel
  PROVE  SetWhenNeeded'
<1>1. CASE SendCompletes
  <2>1. UNCHANGED <<pc, sendOccuring, sendDone>>
    BY <1>1 DEF SendCompletes, sendVars
  <2> QED BY ONLY <2>1, SetWhenNeeded DEF SetWhenNeeded
<1>2. CASE RecvCompletes
  <2>1. UNCHANGED <<pc, sendOccuring, sendDone>>
    BY <1>2 DEF RecvCompletes, sendVars
  <2> QED BY ONLY <2>1, SetWhenNeeded DEF SetWhenNeeded
<1> QED
  BY <1>1, <1>2
  DEF Kernel

(* The head of the queue is the message after the last one popped.         *)
LEMMA HeadIsOldest ==
  ASSUME Types, Numbered, queue # <<>>
  PROVE  /\ Head(queue) = Oldest /\ Oldest \in Messages /\ Oldest =< pushed
         /\ Popped \in Nat /\ Oldest \in Nat /\ moved[Oldest] \in Nat
         /\ Len(queue) \in Nat \ {0}
<1>1. queue \in Seq(Messages) /\ pushed \in Nat /\ moved \in [Messages -> Nat]
  BY DEF Types
<1>2. /\ Len(queue) \in Nat \ {0} /\ Head(queue) = queue[1]
      /\ Head(queue) \in Messages
  BY ONLY <1>1, queue # <<>>
<1>3. Len(queue) =< pushed /\ queue[1] = Popped + 1
  BY ONLY <1>2, Numbered DEF Numbered
<1>4. Popped \in Nat /\ Popped + 1 =< pushed
  BY ONLY <1>1, <1>2, <1>3 DEF Popped
<1> QED BY ONLY <1>1, <1>2, <1>3, <1>4 DEF Oldest

(* The number of popped messages is a number.                              *)
LEMMA PoppedIsNat ==
  ASSUME Types, Numbered
  PROVE  Popped \in Nat /\ Len(queue) \in Nat
<1>1. queue \in Seq(Messages) /\ pushed \in Nat
  BY DEF Types
<1> QED BY <1>1 DEF Numbered, Popped

(* A step that only moves a thread to where it knows nothing of the queue  *)
(* keeps Streamed.                                                         *)
LEMMA QuietStreamed ==
  ASSUME Types, Streamed, NEW t \in Threads, NEW l, Goto(t, l),
         UNCHANGED <<job, queue, pushed, moved, sendOccuring, inflight,
                     completions, wire>>,
         \/ l \notin {"a_compare", "a_reset", "a_send",
                      "s_peek", "s_pop", "s_next",
                      "s_decrement", "s_set"}
         \/ pc[t] = "a_reset" /\ l = "a_send",
         pc[t] # "s_peek", pc[t] = "a_compare" => sendOccuring # 0
  PROVE  Streamed'
<1>1. \A u \in Threads : pc'[u] = IF u = t THEN l ELSE pc[u]
  BY GotoIs DEF Types
<1>2. /\ Numbered /\ Untouched /\ Unattended /\ ThreadsFit /\ KernelFits
      /\ PortFits
      /\ Counted
  BY DEF Streamed
<1>3. /\ Popped' = Popped /\ Oldest' = Oldest /\ Left' = Left
      /\ \A m, n : InProgress(m, n)' <=> InProgress(m, n)
      /\ \A n : Out(n)' <=> Out(n)
  BY DEF Popped, Oldest, Left, InProgress, Out
<1>4. Numbered' /\ Untouched'
  BY ONLY <1>2, <1>3,
          UNCHANGED <<queue, pushed, moved>>
     DEF Numbered, Untouched
<1>5. Unattended'
  <2>1. \A u \in Threads : sendOccuring = 0 /\ pc[u] = "a_compare" => pc'[u] = "a_compare"
    BY ONLY <1>1, pc[t] = "a_compare" => sendOccuring # 0
  <2> QED BY ONLY <2>1, <1>2,
                  UNCHANGED <<queue, sendOccuring>>
             DEF Unattended
<1>6. ThreadsFit'
  <2>1. ASSUME NEW u \in Threads PROVE ThreadFits(u)'
    <3>1. ThreadFits(u)
      BY ONLY <1>2, u \in Threads DEF ThreadsFit
    <3>2. CASE pc'[u] = pc[u]
      BY ONLY <3>1, <3>2, <1>3,
              UNCHANGED <<job, queue, pushed, moved, sendOccuring>>
         DEF ThreadFits, Claimed
    <3>3. CASE pc'[u] # pc[u] /\ pc[u] = "a_reset" /\ pc'[u] = "a_send"
      BY ONLY <3>1, <3>3, <1>3,
              UNCHANGED <<job, queue, pushed, moved, sendOccuring>>
         DEF ThreadFits, Claimed
    <3>4. CASE pc'[u] \notin {"a_compare", "a_reset", "a_send",
                              "s_peek", "s_pop", "s_next",
                              "s_decrement", "s_set"}
      BY ONLY <3>4 DEF ThreadFits
    <3> QED BY ONLY <3>2, <3>3, <3>4, <1>1, 
         \/ l \notin {"a_compare", "a_reset", "a_send",
                      "s_peek", "s_pop", "s_next",
                      "s_decrement", "s_set"}
         \/ pc[t] = "a_reset" /\ l = "a_send"
  <2> QED BY ONLY <2>1 DEF ThreadsFit
<1>7. KernelFits' /\ PortFits'
  BY ONLY <1>2, <1>3,
          UNCHANGED <<inflight, completions>>
     DEF KernelFits, PortFits
<1>8. Counted'
  <2>1. \A u \in Threads : pc'[u] = "s_peek" <=> pc[u] = "s_peek"
    BY ONLY <1>1, pc[t] # "s_peek",
         \/ l \notin {"a_compare", "a_reset", "a_send",
                      "s_peek", "s_pop", "s_next",
                      "s_decrement", "s_set"}
         \/ pc[t] = "a_reset" /\ l = "a_send"
  <2>2. NoneArrived' => NoneArrived
    BY ONLY <2>1, UNCHANGED completions DEF NoneArrived
  <2> QED BY ONLY <1>2, <1>3, <2>1, <2>2,
                  UNCHANGED <<job, completions>>
             DEF Counted
<1> QED BY ONLY <1>4, <1>5, <1>6, <1>7, <1>8 DEF Streamed

(* A pushed message gets the next number, goes behind the others, and      *)
(* nothing of it is booked.                                                *)
LEMMA AddPushStreamed ==
  ASSUME Types, MutexHeld, Streamed, NEW t \in Threads, AddPush(t), Fits(t)
  PROVE  Streamed'
<1>1. /\ Goto(t, "a_compare") /\ mutex = NoThread
      /\ pushed' = pushed + 1 /\ queue' = Append(queue, pushed + 1)
      /\ job' = [job EXCEPT ![t] = [op |-> "add", msg |-> pushed + 1, bytes |-> 0]]
      /\ UNCHANGED <<moved, sendOccuring, inflight, completions, wire>>
  BY DEF AddPush, sendVars, kernelVars
<1>2. /\ Numbered /\ Untouched /\ Unattended /\ ThreadsFit /\ KernelFits
      /\ PortFits
      /\ Counted
  BY DEF Streamed
<1>3. /\ queue \in Seq(Messages) /\ pushed \in Nat
      /\ moved \in [Messages -> Nat]
      /\ pc \in [Threads -> Locations] /\ job \in [Threads -> Jobs]
  BY DEF Types
<1>4. \A u \in Threads : pc'[u] = IF u = t THEN "a_compare" ELSE pc[u]
  BY <1>1, GotoIs DEF Types
<1>5. /\ job'[t].msg = pushed + 1
      /\ \A u \in Threads : u # t => job'[u] = job[u]
  BY ONLY <1>1, <1>3, t \in Threads
<1>6. \A u \in Threads : pc[u] \notin MutexAt
  BY <1>1, ThreadsAssumption DEF MutexHeld
<1>7. /\ Len(queue') = Len(queue) + 1 /\ queue' # <<>> /\ Len(queue) \in Nat
      /\ queue'[Len(queue) + 1] = pushed + 1
      /\ \A i \in 1 .. Len(queue) : queue'[i] = queue[i]
  BY ONLY <1>1, <1>3
<1>8. Popped' = Popped /\ Oldest' = Oldest /\ Left' = Left
  BY ONLY <1>1, <1>3, <1>7 DEF Popped, Oldest, Left
<1>9. Popped \in Nat /\ Popped + Len(queue) = pushed
  BY ONLY <1>2, <1>3, <1>7, Types, PoppedIsNat DEF Popped
<1>10. queue = <<>> => moved[Oldest] = 0
  <2>1. CASE queue = <<>>
    <3>1. Len(queue) = 0
      BY ONLY <2>1
    <3>2. Oldest = pushed + 1 
      BY ONLY <1>3, <3>1 DEF Oldest, Popped
    <3>3. pushed + 1 \in Messages
      BY <1>1 DEF AddPush, Is, Fits
    <3> QED BY ONLY <2>1, <3>2, <3>3, <1>2 DEF Untouched
  <2> QED BY <2>1
<1>11. sendOccuring = 0 => queue = <<>>
  BY ONLY <1>2, <1>6 DEF Unattended, MutexAt
<1>12. \A m, n : InProgress(m, n) => InProgress(m, n)'
  BY ONLY <1>7, <1>8 DEF InProgress
<1>13. Numbered'
  <2>1. Len(queue') =< pushed'
    BY ONLY <1>1, <1>3, <1>7, <1>9
  <2>2. ASSUME NEW i \in 1 .. Len(queue') PROVE queue'[i] = Popped + i
    <3>1. CASE i \in 1 .. Len(queue)
      BY ONLY <1>2, <1>7, <3>1 DEF Numbered
    <3>2. CASE i \notin 1 .. Len(queue)
      <4>1. i = Len(queue) + 1
        BY ONLY <1>7, <2>2, <3>2
      <4> QED BY ONLY <1>3, <1>7, <1>9, <4>1
    <3> QED BY ONLY <3>1, <3>2
  <2> QED BY ONLY <2>1, <2>2, <1>8 DEF Numbered
<1>14. Untouched'
  BY ONLY <1>1, <1>2, <1>7, <1>8 DEF Untouched
<1>15. Unattended'
  <2>1. sendOccuring = 0 => Len(queue') = 1
    BY ONLY <1>7, <1>11
  <2>2. pc'[t] = "a_compare"
    BY ONLY <1>4, t \in Threads
  <2> QED BY ONLY <1>1, <2>1, <2>2, t \in Threads DEF Unattended
<1>16. ThreadsFit'
  <2>1. ThreadFits(t)'
    BY ONLY <1>1, <1>4, <1>5, <1>7, <1>8, <1>10, <1>11, t \in Threads
    DEF ThreadFits
  <2>2. ASSUME NEW u \in Threads, u # t PROVE ThreadFits(u)'
    <3>1. /\ ThreadFits(u) /\ pc'[u] = pc[u] /\ job'[u] = job[u]
          /\ pc[u] \notin MutexAt
      BY ONLY <1>2, <1>4, <1>5, <1>6, <2>2 DEF ThreadsFit
    <3> QED BY ONLY <1>1, <1>7, <1>8, <1>12, <3>1
            DEF ThreadFits, MutexAt, Claimed
  <2> QED BY ONLY <2>1, <2>2 DEF ThreadsFit
<1>17. KernelFits' /\ PortFits'
  BY ONLY <1>1, <1>2, <1>8, <1>12 DEF KernelFits, PortFits
<1>18. Counted'
  <2>1. \A n : Out(n) => Out(n)'
    BY ONLY <1>1, <1>7, <1>8, <1>10 DEF Out
  <2>2. NoneArrived' => NoneArrived
    <3>1. pc[t] # "s_peek"
      BY DEF AddPush, Is
    <3> QED BY ONLY <1>1, <1>4, <3>1 DEF NoneArrived
  <2>3. \A u \in Threads : pc'[u] = "s_peek" => pc[u] = "s_peek" /\ job'[u] = job[u]
    BY ONLY <1>4, <1>5
  <2> QED BY ONLY <1>1, <1>2, <2>1, <2>2, <2>3 DEF Counted
<1> QED BY ONLY <1>13, <1>14, <1>15, <1>16, <1>17, <1>18 DEF Streamed

(* A step that changes no queue keeps what is said of the queue alone.     *)
LEMMA DataKept ==
  ASSUME Streamed, UNCHANGED <<queue, pushed, moved>>
  PROVE  /\ Popped' = Popped /\ Oldest' = Oldest /\ Left' = Left
         /\ Numbered' /\ Untouched'
         /\ \A m, n : InProgress(m, n)' <=> InProgress(m, n)
<1>1. /\ Popped' = Popped /\ Oldest' = Oldest /\ Left' = Left
      /\ \A m, n : InProgress(m, n)' <=> InProgress(m, n)
  BY DEF Popped, Oldest, Left, InProgress
<1>2. Numbered' /\ Untouched'
  BY ONLY <1>1, Streamed, UNCHANGED <<queue, pushed, moved>>
     DEF Streamed, Numbered, Untouched
<1> QED BY <1>1, <1>2

(* A step that reports and books nothing keeps Counted.                    *)
LEMMA CountedKept ==
  ASSUME Streamed, UNCHANGED <<queue, pushed, moved, completions, wire>>,
         \A u \in Threads : pc'[u] = "s_peek" <=> pc[u] = "s_peek",
         \A u \in Threads : pc[u] = "s_peek" => job'[u] = job[u]
  PROVE  Counted'
<1>1. \A n : Out(n)' <=> Out(n)
  BY ONLY UNCHANGED <<queue, pushed, moved, wire>> DEF Out, Popped, Oldest
<1>2. NoneArrived' => NoneArrived
  BY DEF NoneArrived
<1> QED BY <1>1, <1>2 DEF Counted, Streamed

(* A thread that does not move, and whose queue does not change, knows     *)
(* what it knew.                                                           *)
LEMMA OthersKept ==
  ASSUME Streamed, UNCHANGED <<queue, pushed, moved>>,
         NEW u \in Threads, pc'[u] = pc[u], job'[u] = job[u],
         pc[u] = "a_compare" => sendOccuring' = sendOccuring
  PROVE  ThreadFits(u)'
<1>1. ThreadFits(u)
  BY DEF Streamed, ThreadsFit
<1>2. /\ Oldest' = Oldest
      /\ \A m, n : InProgress(m, n)' <=> InProgress(m, n)
  BY DataKept
<1> QED BY ONLY <1>1, <1>2, UNCHANGED <<queue, pushed, moved>>, pc'[u] = pc[u],
                job'[u] = job[u],
                pc[u] = "a_compare" => sendOccuring' = sendOccuring
        DEF ThreadFits, Claimed

(* The thread that claims the send finds its own message alone in the      *)
(* queue, and nobody else at work on it.                                   *)
LEMMA AddClaimsStreamed ==
  ASSUME Types, MutexHeld, SendOnce, SetWhenNeeded, Streamed,
         NEW t \in Threads, AddClaims(t)
  PROVE  Streamed'
<1>1. /\ pc[t] = "a_compare" /\ Goto(t, "a_reset") /\ sendOccuring = 0
      /\ sendOccuring' = 1
      /\ UNCHANGED <<queue, pushed, moved, inflight, completions, wire, job>>
  BY DEF AddClaims, Is, threadVars, queueVars, kernelVars
<1>2. \A u \in Threads : pc'[u] = IF u = t THEN "a_reset" ELSE pc[u]
  BY <1>1, GotoIs DEF Types
<1>3. \A u \in Threads : u # t => pc[u] \notin MutexAt
  BY <1>1, ThreadsAssumption DEF MutexHeld, MutexAt
<1>4. /\ Popped' = Popped /\ Oldest' = Oldest /\ Left' = Left
      /\ Numbered' /\ Untouched'
      /\ \A m, n : InProgress(m, n)' <=> InProgress(m, n)
  BY <1>1, DataKept
<1>5. /\ Len(queue) = 1 /\ queue # <<>> /\ job[t].msg = pushed
      /\ moved[Oldest] = 0
  <2>1. queue # <<>> /\ job[t].msg = pushed /\ moved[Oldest] = 0
    BY ONLY <1>1, Streamed, t \in Threads DEF Streamed, ThreadsFit, ThreadFits
  <2> QED BY ONLY <1>1, <2>1, Streamed DEF Streamed, Unattended
<1>6. Oldest = pushed
  BY ONLY <1>5, Types DEF Oldest, Popped, Types
<1>7. Unattended'
  BY ONLY <1>1 DEF Unattended
<1>8. ThreadsFit'
  <2>1. ThreadFits(t)'
    <3>1. pc'[t] = "a_reset"
      BY ONLY <1>2, t \in Threads
    <3> QED BY ONLY <1>1, <1>4, <1>5, <1>6, <3>1 DEF ThreadFits, Claimed
  <2>2. ASSUME NEW u \in Threads, u # t PROVE ThreadFits(u)'
    <3>1. pc[u] # "a_compare"
      BY ONLY <1>3, <2>2 DEF MutexAt
    <3> QED BY <1>1, <1>2, <2>2, <3>1, OthersKept
  <2> QED BY ONLY <2>1, <2>2 DEF ThreadsFit
<1>9. KernelFits' /\ PortFits'
  BY ONLY <1>1, <1>4, Streamed DEF Streamed, KernelFits, PortFits
<1>10. Counted'
  <2>1. \A u \in Threads : pc'[u] = "s_peek" <=> pc[u] = "s_peek"
    BY ONLY <1>1, <1>2
  <2> QED BY <1>1, <2>1, CountedKept
<1> QED BY ONLY <1>4, <1>7, <1>8, <1>9, <1>10 DEF Streamed

(* A send of the whole oldest message, given to the kernel.                *)
LEMMA PostedFits ==
  ASSUME Types, SendOnce, SetWhenNeeded, Streamed,
         NEW t \in Threads, pc[t] \in SendersAt, pc[t] # "s_peek",
         NEW l \in {"a_lock", "idle", "s_rearm"}, Goto(t, l),
         queue # <<>>, moved[Oldest] = 0,
         inflight' = Append(inflight, [msg |-> Oldest, left |-> MsgSize]),
         UNCHANGED <<queue, pushed, moved, sendOccuring, completions, wire,
                     job>>
  PROVE  Streamed'
<1>1. /\ inflight = <<>> /\ sendOccuring = 1
      /\ \A u \in Threads : u # t => pc[u] \notin SendersAt
  BY SenderIsAlone
<1>2. \A u \in Threads : pc'[u] = IF u = t THEN l ELSE pc[u]
  BY GotoIs DEF Types
<1>3. /\ Popped' = Popped /\ Oldest' = Oldest /\ Left' = Left
      /\ Numbered' /\ Untouched'
      /\ \A m, n : InProgress(m, n)' <=> InProgress(m, n)
  BY DataKept
<1>4. Unattended'
  BY ONLY <1>1, sendOccuring' = sendOccuring DEF Unattended
<1>5. ThreadsFit'
  <2>1. ThreadFits(t)'
    <3>1. pc'[t] = l
      BY ONLY <1>2, t \in Threads
    <3> QED BY ONLY <3>1, l \in {"a_lock", "idle", "s_rearm"} DEF ThreadFits
  <2>2. ASSUME NEW u \in Threads, u # t PROVE ThreadFits(u)'
    BY <1>2, <2>2, OthersKept
  <2> QED BY ONLY <2>1, <2>2 DEF ThreadsFit
<1>6. KernelFits'
  <2>1. Left = MsgSize /\ InProgress(Oldest, MsgSize)
    BY BoundsAssumption DEF Left, InProgress
  <2>2. \A i \in 1 .. Len(inflight') :
          inflight'[i].msg = Oldest /\ inflight'[i].left = MsgSize
    BY ONLY <1>1,
            inflight' = Append(inflight, [msg |-> Oldest, left |-> MsgSize])
  <2> QED BY ONLY <1>3, <2>1, <2>2 DEF KernelFits
<1>7. PortFits'
  BY ONLY <1>3, Streamed, completions' = completions DEF Streamed, PortFits
<1>8. Counted'
  <2>1. \A u \in Threads : pc'[u] = "s_peek" <=> pc[u] = "s_peek"
    BY ONLY <1>2, pc[t] # "s_peek", l \in {"a_lock", "idle", "s_rearm"}
  <2> QED BY <2>1, CountedKept
<1> QED BY ONLY <1>3, <1>4, <1>5, <1>6, <1>7, <1>8 DEF Streamed

(* The first message of a queue is sent by the thread that added it.       *)
LEMMA AddSendsStreamed ==
  ASSUME Types, SendOnce, SetWhenNeeded, Streamed, NEW t \in Threads,
         AddSends(t)
  PROVE  Streamed'
<1>1. /\ pc[t] = "a_send" /\ AddReturns(t)
      /\ inflight' = Append(inflight, [msg |-> job[t].msg, left |-> Rest(0)])
      /\ UNCHANGED <<queue, pushed, moved, sendOccuring, completions, wire,
                     job>>
  BY DEF AddSends, Is, SendPosted, queueVars, sendVars
<1>2. PICK l \in {"a_lock", "idle"} : Goto(t, l)
  BY <1>1, AddReturnsTypes
<1>3. queue # <<>> /\ job[t].msg = Oldest /\ moved[Oldest] = 0
  BY ONLY <1>1, Streamed, t \in Threads
     DEF Streamed, ThreadsFit, ThreadFits, Claimed
<1>4. inflight' = Append(inflight, [msg |-> Oldest, left |-> MsgSize])
  BY ONLY <1>1, <1>3, RestTypes
<1>5. pc[t] \in SendersAt /\ pc[t] # "s_peek"
  BY <1>1 DEF SendersAt
<1> QED BY <1>1, <1>2, <1>3, <1>4, <1>5, PostedFits

(* The next message of the queue is sent by the thread that popped the one *)
(* before.                                                                 *)
LEMMA SendNextStreamed ==
  ASSUME Types, SendOnce, SetWhenNeeded, Streamed, NEW t \in Threads,
         SendNext(t)
  PROVE  Streamed'
<1>1. /\ pc[t] = "s_next" /\ Goto(t, "s_rearm")
      /\ inflight' = Append(inflight,
           [msg |-> Head(queue), left |-> Rest(moved[Head(queue)])])
      /\ UNCHANGED <<queue, pushed, moved, sendOccuring, completions, wire,
                     job>>
  BY DEF SendNext, Is, SendPosted, threadVars, sendVars
<1>2. queue # <<>> /\ moved[Oldest] = 0
  BY ONLY <1>1, Streamed, t \in Threads DEF Streamed, ThreadsFit, ThreadFits
<1>3. Head(queue) = Oldest
  BY <1>2, HeadIsOldest DEF Streamed
<1>4. inflight' = Append(inflight, [msg |-> Oldest, left |-> MsgSize])
  BY ONLY <1>1, <1>2, <1>3, RestTypes
<1>5. pc[t] \in SendersAt /\ pc[t] # "s_peek"
  BY <1>1 DEF SendersAt
<1> QED BY <1>1, <1>2, <1>4, <1>5, PostedFits

(* The claim is given up with the mutex held and the queue empty.          *)
LEMMA SendDecrementStreamed ==
  ASSUME Types, MutexHeld, SendOnce, SetWhenNeeded, Streamed,
         NEW t \in Threads, SendDecrement(t)
  PROVE  Streamed'
<1>1. /\ pc[t] = "s_decrement" /\ Goto(t, "s_set")
      /\ UNCHANGED <<queue, pushed, moved, inflight, completions, wire, job>>
  BY DEF SendDecrement, Is, threadVars, queueVars, kernelVars
<1>2. \A u \in Threads : pc'[u] = IF u = t THEN "s_set" ELSE pc[u]
  BY <1>1, GotoIs DEF Types
<1>3. \A u \in Threads : u # t => pc[u] \notin MutexAt
  BY <1>1, ThreadsAssumption DEF MutexHeld, MutexAt
<1>4. /\ Popped' = Popped /\ Oldest' = Oldest /\ Left' = Left
      /\ Numbered' /\ Untouched'
      /\ \A m, n : InProgress(m, n)' <=> InProgress(m, n)
  BY <1>1, DataKept
<1>5. queue = <<>>
  BY ONLY <1>1, Streamed, t \in Threads DEF Streamed, ThreadsFit, ThreadFits
<1>6. Unattended'
  BY ONLY <1>1, <1>5 DEF Unattended
<1>7. ThreadsFit'
  <2>1. ThreadFits(t)'
    <3>1. pc'[t] = "s_set"
      BY ONLY <1>2, t \in Threads
    <3> QED BY ONLY <1>1, <1>5, <3>1 DEF ThreadFits
  <2>2. ASSUME NEW u \in Threads, u # t PROVE ThreadFits(u)'
    <3>1. pc[u] # "a_compare"
      BY ONLY <1>3, <2>2 DEF MutexAt
    <3> QED BY <1>1, <1>2, <2>2, <3>1, OthersKept
  <2> QED BY ONLY <2>1, <2>2 DEF ThreadsFit
<1>8. KernelFits' /\ PortFits'
  BY ONLY <1>1, <1>4, Streamed DEF Streamed, KernelFits, PortFits
<1>9. Counted'
  <2>1. \A u \in Threads : pc'[u] = "s_peek" <=> pc[u] = "s_peek"
    BY ONLY <1>1, <1>2
  <2> QED BY <1>1, <2>1, CountedKept
<1> QED BY ONLY <1>4, <1>6, <1>7, <1>8, <1>9 DEF Streamed

(* The units of a completion, booked on the head of the queue, were units  *)
(* of that message.                                                        *)
LEMMA Booked ==
  ASSUME Types, SendOnce, SetWhenNeeded, Streamed,
         NEW t \in Threads, pc[t] = "s_peek", SendBook(t), queue # <<>>,
         NEW l \in {"idle", "s_pop"}, Goto(t, l),
         UNCHANGED <<queue, pushed, sendOccuring, completions, wire, job>>
  PROVE  /\ inflight = <<>> /\ Oldest' = Oldest /\ Head(queue) = Oldest
         /\ moved'[Oldest] = moved[Oldest] + job[t].bytes
         /\ moved'[Oldest] \in Nat
         /\ moved'[Oldest] =< MsgSize
         /\ Numbered' /\ Untouched' /\ Unattended' /\ PortFits' /\ Counted'
         /\ pc'[t] = l
         /\ \A u \in Threads : u # t => ThreadFits(u)'
<1>1. /\ inflight = <<>> /\ sendOccuring = 1
      /\ \A i \in 1 .. Len(completions) : completions[i].op # "send"
      /\ \A u \in Threads : u # t => pc[u] \notin SendersAt
  BY SenderIsAlone DEF SendersAt
<1>2. \A u \in Threads : pc'[u] = IF u = t THEN l ELSE pc[u]
  BY GotoIs DEF Types
<1>3. /\ Popped' = Popped /\ Oldest' = Oldest
  BY DEF Popped, Oldest
<1>4. /\ Head(queue) = Oldest /\ Oldest \in Messages /\ Popped \in Nat
      /\ Oldest \in Nat
      /\ moved[Oldest] \in Nat
  BY HeadIsOldest DEF Streamed
<1>5. moved' = [moved EXCEPT ![Oldest] = moved[Oldest] + job[t].bytes]
  BY ONLY <1>4, SendBook(t) DEF SendBook
<1>6. moved \in [Messages -> Nat] /\ job[t].bytes \in 0 .. MsgSize
  BY DEF Types, Jobs
<1>7. /\ moved'[Oldest] = moved[Oldest] + job[t].bytes
      /\ \A m \in Messages : m # Oldest => moved'[m] = moved[m]
  BY ONLY <1>4, <1>5, <1>6
<1>8. InProgress(job[t].msg, job[t].bytes) /\ Out(job[t].bytes)
  BY ONLY Streamed, pc[t] = "s_peek", t \in Threads
     DEF Streamed, ThreadsFit, ThreadFits, Counted
<1>9. moved'[Oldest] \in Nat /\ moved'[Oldest] =< MsgSize
  <2>1. job[t].bytes =< MsgSize - moved[Oldest]
    BY ONLY <1>8 DEF InProgress, Left
  <2> QED BY ONLY <2>1, <1>4, <1>6, <1>7, BoundsAssumption
<1>10. Numbered'
  BY ONLY <1>3, Streamed,
          UNCHANGED <<queue, pushed>>
     DEF Streamed, Numbered
<1>11. Untouched'
  <2>1. \A m \in Messages : m > Oldest => m # Oldest
    BY ONLY <1>4
  <2> QED BY ONLY <1>3, <1>7, <2>1, Streamed, queue # <<>>, queue' = queue
          DEF Streamed, Untouched
<1>12. Unattended'
  BY ONLY <1>1, sendOccuring' = sendOccuring DEF Unattended
<1>13. PortFits'
  BY ONLY <1>1, completions' = completions DEF PortFits
<1>14. ASSUME NEW u \in Threads, u # t PROVE ThreadFits(u)'
  <2>1. ThreadFits(u) /\ pc'[u] = pc[u] /\ pc'[u] \notin SendersAt
    BY ONLY <1>1, <1>2, <1>14, Streamed DEF Streamed, ThreadsFit
  <2> QED BY ONLY <1>1, <2>1,
                  UNCHANGED <<queue, pushed, sendOccuring, job>>
          DEF ThreadFits, SendersAt
<1>15. Counted'
  <2>1. \A u \in Threads : pc'[u] # "s_peek"
    <3>1. \A u \in Threads : u # t => pc[u] # "s_peek"
      BY ONLY <1>1 DEF SendersAt
    <3> QED BY ONLY <1>2, <3>1, l \in {"idle", "s_pop"}
  <2>2. Out(0)'
    <3>1. Len(wire) = MsgSize * Popped + moved[Oldest] + job[t].bytes
      BY ONLY <1>8, queue # <<>> DEF Out
    <3>2. Len(wire) = MsgSize * Popped + moved'[Oldest] + 0
      <4>1. MsgSize * Popped \in Nat
        BY <1>4, BoundsAssumption
      <4> HIDE DEF Popped
      <4> QED BY ONLY <1>4, <1>6, <1>7, <3>1, <4>1
    <3> QED BY ONLY <1>3, <3>2, queue # <<>>,
                    UNCHANGED <<queue, wire>>
               DEF Out
  <2> QED BY ONLY <1>1, <2>1, <2>2, completions' = completions DEF Counted
<1>16. pc'[t] = l
  BY ONLY <1>2, t \in Threads
<1> QED BY ONLY <1>1, <1>3, <1>4, <1>7, <1>9, <1>10, <1>11, <1>12, <1>13,
                <1>14, <1>15, <1>16

(* What is left of a message is sent again, before anything else, and all  *)
(* of it unless the message is torn.                                       *)
LEMMA SendPartialStreamed ==
  ASSUME Types, SendOnce, SetWhenNeeded, Streamed, NEW t \in Threads,
         SendPartial(t), ~torn'
  PROVE  Streamed'
<1>1. /\ pc[t] = "s_peek" /\ Goto(t, "idle") /\ queue # <<>> /\ SendBook(t)
      /\ moved[Head(queue)] + job[t].bytes < MsgSize
      /\ inflight' = Append(inflight,
           [msg |-> Head(queue), left |-> MsgSize - moved'[Head(queue)]])
      /\ UNCHANGED <<queue, pushed, sendOccuring, completions, wire, job>>
  BY
  DEF SendPartial, SendTears, Rest, SendIsPartial, Is, SendPosted, threadVars, queueVars,
      sendVars
<1>2. /\ inflight = <<>> /\ Oldest' = Oldest /\ Head(queue) = Oldest
      /\ moved'[Oldest] = moved[Oldest] + job[t].bytes
      /\ moved'[Oldest] \in Nat
      /\ Numbered' /\ Untouched' /\ Unattended' /\ PortFits' /\ Counted'
      /\ pc'[t] = "idle"
      /\ \A u \in Threads : u # t => ThreadFits(u)'
  BY <1>1, Booked
<1>3. ThreadsFit'
  <2>1. ThreadFits(t)'
    BY ONLY <1>2 DEF ThreadFits
  <2> QED BY ONLY <1>2, <2>1 DEF ThreadsFit
<1>4. KernelFits'
  <2>1. Left' = MsgSize - moved'[Oldest] /\ MsgSize - moved'[Oldest] > 0
    <3>1. Left' = MsgSize - moved'[Oldest]
      BY ONLY <1>2 DEF Left
    <3>2. moved'[Oldest] < MsgSize
      BY ONLY <1>1, <1>2
    <3>3. MsgSize - moved'[Oldest] > 0
      BY ONLY <1>2, <3>2, BoundsAssumption
    <3> QED BY ONLY <3>1, <3>3
  <2>2. MsgSize - moved'[Oldest] =< Left'
    BY ONLY <1>2, <2>1, BoundsAssumption
  <2>3. \A i \in 1 .. Len(inflight') :
          /\ inflight'[i].msg = Oldest
          /\ inflight'[i].left = MsgSize - moved'[Oldest]
    BY ONLY <1>1, <1>2
  <2> QED BY ONLY <1>1, <1>2, <2>1, <2>2, <2>3 DEF KernelFits, InProgress
<1> QED BY ONLY <1>2, <1>3, <1>4 DEF Streamed

(* A message that is booked whole waits to be popped.                      *)
LEMMA SendWholeStreamed ==
  ASSUME Types, SendOnce, SetWhenNeeded, Streamed, NEW t \in Threads,
         SendWhole(t)
  PROVE  Streamed'
<1>1. /\ pc[t] = "s_peek" /\ Goto(t, "s_pop") /\ queue # <<>> /\ SendBook(t)
      /\ ~(moved[Head(queue)] + job[t].bytes < MsgSize)
      /\ UNCHANGED <<queue, pushed, sendOccuring, completions, wire, job,
                     inflight>>
  BY
  DEF SendWhole, SendIsPartial, Is, threadVars, queueVars, sendVars, kernelVars
<1>2. /\ inflight = <<>> /\ Oldest' = Oldest /\ Head(queue) = Oldest
      /\ moved'[Oldest] = moved[Oldest] + job[t].bytes
      /\ moved'[Oldest] \in Nat
      /\ moved'[Oldest] =< MsgSize
      /\ Numbered' /\ Untouched' /\ Unattended' /\ PortFits' /\ Counted'
      /\ pc'[t] = "s_pop"
      /\ \A u \in Threads : u # t => ThreadFits(u)'
  BY <1>1, Booked
<1>3. ThreadsFit'
  <2>1. moved'[Oldest] = MsgSize
    <3>1. ~(moved'[Oldest] < MsgSize)
      BY ONLY <1>1, <1>2
    <3> QED BY ONLY <1>2, <3>1, BoundsAssumption
  <2>2. ThreadFits(t)'
    BY ONLY <1>1, <1>2, <2>1 DEF ThreadFits
  <2> QED BY ONLY <1>2, <2>2 DEF ThreadsFit
<1>4. KernelFits'
  BY ONLY <1>1, <1>2 DEF KernelFits
<1> QED BY ONLY <1>2, <1>3, <1>4 DEF Streamed

(* The popped message is the oldest one, and the one behind it is          *)
(* untouched.                                                              *)
LEMMA SendPopStreamed ==
  ASSUME Types, MutexHeld, SendOnce, SetWhenNeeded, Streamed,
         NEW t \in Threads, SendPop(t)
  PROVE  Streamed'
<1>1. /\ pc[t] = "s_pop" /\ mutex = NoThread /\ queue # <<>>
      /\ queue' = Tail(queue)
      /\ Goto(t, IF Tail(queue) = <<>> THEN "s_decrement" ELSE "s_next")
      /\ UNCHANGED <<pushed, moved, sendOccuring, inflight, completions, wire,
                     job>>
  BY DEF SendPop, Is, threadVars, sendVars, kernelVars
<1>2. /\ inflight = <<>> /\ sendOccuring = 1
      /\ \A i \in 1 .. Len(completions) : completions[i].op # "send"
      /\ \A u \in Threads : u # t => pc[u] \notin SendersAt
  BY <1>1, SenderIsAlone DEF SendersAt
<1>3. \A u \in Threads :
        pc'[u] = IF u = t THEN (IF Tail(queue) = <<>> THEN "s_decrement" ELSE "s_next")
                 ELSE pc[u]
  BY <1>1, GotoIs DEF Types
<1>4. \A u \in Threads : pc[u] \notin MutexAt
  BY <1>1, ThreadsAssumption DEF MutexHeld
<1>5. /\ queue \in Seq(Messages) /\ pushed \in Nat
      /\ moved \in [Messages -> Nat]
  BY DEF Types
<1>6. /\ Oldest \in Messages /\ Popped \in Nat /\ Oldest \in Nat
      /\ moved[Oldest] \in Nat
      /\ Len(queue) \in Nat \ {0}
  BY <1>1, HeadIsOldest DEF Streamed
<1>7. /\ Len(queue') = Len(queue) - 1
      /\ \A i \in 1 .. Len(queue') :
           queue'[i] = queue[i + 1] /\ i + 1 \in 1 .. Len(queue)
  BY ONLY <1>1, <1>5
<1>8. Popped' = Popped + 1 /\ Oldest' = Oldest + 1
  BY ONLY <1>1, <1>5, <1>6, <1>7 DEF Popped, Oldest
<1>9. moved[Oldest] = MsgSize
  BY ONLY <1>1, Streamed, t \in Threads DEF Streamed, ThreadsFit, ThreadFits
<1>10. Numbered'
  <2>1. Len(queue') =< pushed
    BY ONLY <1>5, <1>6, <1>7, Streamed DEF Streamed, Numbered
  <2>2. ASSUME NEW i \in 1 .. Len(queue') PROVE queue'[i] = Popped + 1 + i
    <3>1. queue'[i] = queue[i + 1] /\ queue[i + 1] = Popped + (i + 1)
      BY ONLY <1>7, <2>2, Streamed DEF Streamed, Numbered
    <3> QED BY ONLY <1>6, <3>1
  <2> QED BY ONLY <1>1, <1>8, <2>1, <2>2 DEF Numbered
<1>11. \A m \in Messages : m >= Oldest + 1 => moved[m] = 0
  <2>1. \A m \in Messages : m >= Oldest + 1 => m > Oldest
    BY ONLY <1>6 DEF Messages
  <2> QED BY ONLY <2>1, Streamed DEF Streamed, Untouched
<1>12. Untouched'
  <2>1. \A m \in Messages : m > Oldest + 1 \/ m = Oldest + 1 => m >= Oldest + 1
    BY ONLY <1>6 DEF Messages
  <2> QED BY ONLY <1>1, <1>8, <1>11, <2>1 DEF Untouched
<1>13. queue' # <<>> => moved[Oldest + 1] = 0
  <2>1. CASE queue' # <<>>
    <3>1. 1 \in 1 .. Len(queue') /\ queue' \in Seq(Messages)
      BY ONLY <1>1, <1>5, <2>1
    <3>2. queue'[1] = Oldest' /\ queue'[1] \in Messages
      BY ONLY <1>10, <3>1 DEF Numbered, Oldest
    <3> QED BY ONLY <1>6, <1>8, <1>11, <3>2
  <2> QED BY <2>1
<1>14. Unattended'
  BY ONLY <1>1, <1>2 DEF Unattended
<1>15. ThreadsFit'
  <2>1. ThreadFits(t)'
    <3>1. pc'[t] = IF queue' = <<>> THEN "s_decrement" ELSE "s_next"
      BY ONLY <1>1, <1>3, t \in Threads
    <3> QED BY ONLY <1>1, <1>8, <1>13, <3>1 DEF ThreadFits
  <2>2. ASSUME NEW u \in Threads, u # t PROVE ThreadFits(u)'
    <3>1. pc'[u] \notin SendersAt /\ pc'[u] \notin MutexAt
      BY ONLY <1>2, <1>3, <1>4, <2>2
    <3> QED BY ONLY <3>1 DEF ThreadFits, SendersAt, MutexAt
  <2> QED BY ONLY <2>1, <2>2 DEF ThreadsFit
<1>16. KernelFits' /\ PortFits'
  BY ONLY <1>1, <1>2 DEF KernelFits, PortFits
<1>17. Counted'
  <2>1. \A u \in Threads : pc'[u] # "s_peek"
    <3>1. \A u \in Threads : u # t => pc[u] # "s_peek"
      BY ONLY <1>2 DEF SendersAt
    <3> QED BY ONLY <1>3, <3>1
  <2>2. Out(0)
    <3>1. NoneArrived
      <4>1. \A u \in Threads : pc[u] # "s_peek"
        BY ONLY <1>1, <1>2 DEF SendersAt
      <4> QED BY ONLY <1>2, <4>1 DEF NoneArrived
    <3> QED BY ONLY <3>1, Streamed DEF Streamed, Counted
  <2>3. Out(0)'
    <3>1. Len(wire) = MsgSize * Popped + MsgSize + 0
      BY ONLY <1>1, <1>9, <2>2 DEF Out
    <3>2. MsgSize * (Popped + 1) = MsgSize * Popped + MsgSize
      BY ONLY <1>6, BoundsAssumption
    <3>3. MsgSize * Popped \in Int
      BY ONLY <1>6, BoundsAssumption
    <3>4. Len(wire) = MsgSize * (Popped + 1) + 0 + 0
      BY ONLY <3>1, <3>2, <3>3, BoundsAssumption
    <3>5. (IF queue' = <<>> THEN 0 ELSE moved'[Oldest']) = 0
      BY ONLY <1>1, <1>8, <1>13
    <3> QED BY ONLY <1>1, <1>8, <3>4, <3>5 DEF Out
  <2> QED BY ONLY <1>1, <1>2, <2>1, <2>3 DEF Counted
<1> QED BY ONLY <1>10, <1>12, <1>14, <1>15, <1>16, <1>17 DEF Streamed

(* A completion moves from the port to a thread.                           *)
LEMMA TakeCompletionStreamed ==
  ASSUME Types, Calm, SendOnce, SetWhenNeeded, Streamed, NEW t \in Threads,
         TakeCompletion(t)
  PROVE  Streamed'
<1>1. /\ pc[t] = "idle" /\ completions # <<>>
      /\ completions' = Tail(completions)
      /\ job' = [job EXCEPT ![t] = Head(completions)]
      /\ UNCHANGED <<queue, pushed, moved, sendOccuring, inflight, wire>>
  BY DEF TakeCompletion, Is, queueVars, sendVars
<1>2. completions \in Seq(Ports) /\ job \in [Threads -> Jobs]
  BY DEF Types
<1>3. /\ Head(completions) = completions[1] /\ 1 \in 1 .. Len(completions)
      /\ \A i \in 1 .. Len(completions') :
           /\ completions'[i] = completions[i + 1]
           /\ i + 1 \in 1 .. Len(completions)
      /\ \A i \in 1 .. Len(completions) :
           i # 1 => completions[i] = completions'[i - 1] /\ i - 1 \in 1 .. Len(completions')
  BY ONLY <1>1, <1>2
<1>4. PICK l \in {"r_parse", "s_peek"} :
        Goto(t, l) /\ (l = "s_peek" <=> Head(completions).op = "send")
  <2>1. ~(Head(completions).bytes = 0)
    BY <1>3 DEF Calm
  <2> QED BY <2>1, TakeGoes
<1>5. \A u \in Threads : pc'[u] = IF u = t THEN l ELSE pc[u]
  BY <1>4, GotoIs DEF Types
<1>6. \A u \in Threads : job'[u] = IF u = t THEN completions[1] ELSE job[u]
  BY ONLY <1>1, <1>2, <1>3
<1>7. /\ Popped' = Popped /\ Oldest' = Oldest /\ Left' = Left
      /\ Numbered' /\ Untouched'
      /\ \A m, n : InProgress(m, n)' <=> InProgress(m, n)
  BY <1>1, DataKept
<1>8. \A n : Out(n)' <=> Out(n)
  BY ONLY <1>1, <1>7 DEF Out
<1>9. Unattended'
  <2>1. \A u \in Threads : pc[u] = "a_compare" => pc'[u] = "a_compare"
    BY ONLY <1>1, <1>5
  <2> QED BY ONLY <1>1, <2>1, Streamed DEF Streamed, Unattended
<1>10. ThreadsFit'
  <2>1. ThreadFits(t)'
    <3>1. CASE l = "s_peek"
      <4>1. InProgress(completions[1].msg, completions[1].bytes)
        BY ONLY <1>3, <1>4, <3>1, Streamed DEF Streamed, PortFits
      <4>2. pc'[t] = "s_peek" /\ job'[t] = completions[1]
        BY ONLY <1>5, <1>6, <3>1, t \in Threads
      <4> QED BY ONLY <1>7, <4>1, <4>2 DEF ThreadFits
    <3>2. CASE l = "r_parse"
      <4>1. pc'[t] = "r_parse"
        BY ONLY <1>5, <3>2, t \in Threads
      <4> QED BY ONLY <4>1 DEF ThreadFits
    <3> QED BY <3>1, <3>2
  <2>2. ASSUME NEW u \in Threads, u # t PROVE ThreadFits(u)'
    BY <1>1, <1>5, <1>6, <2>2, OthersKept
  <2> QED BY ONLY <2>1, <2>2 DEF ThreadsFit
<1>11. KernelFits'
  BY ONLY <1>1, <1>7, Streamed DEF Streamed, KernelFits
<1>12. PortFits'
  BY ONLY <1>3, <1>7, Streamed DEF Streamed, PortFits
<1>13. Counted'
  <2>1. \A i \in 1 .. Len(completions') :
          completions'[i].op = "send" => Out(completions'[i].bytes)
    BY ONLY <1>3, Streamed DEF Streamed, Counted
  <2>2. ASSUME NEW u \in Threads, pc'[u] = "s_peek" PROVE Out(job'[u].bytes)
    <3>1. CASE u = t
      <4>1. completions[1].op = "send" /\ job'[u] = completions[1]
        BY ONLY <1>3, <1>4, <1>5, <1>6, <2>2, <3>1
      <4> QED BY ONLY <1>3, <4>1, Streamed DEF Streamed, Counted
    <3>2. CASE u # t
      BY ONLY <1>5, <1>6, <2>2, <3>2, Streamed DEF Streamed, Counted
    <3> QED BY <3>1, <3>2
  <2>3. NoneArrived' => Out(0)
    <3>1. SUFFICES ASSUME NoneArrived' PROVE NoneArrived
      BY ONLY Streamed, <3>1 DEF Streamed, Counted
    <3>2. \A u \in Threads : pc'[u] # "s_peek"
      BY ONLY <3>1 DEF NoneArrived
    <3>3. l # "s_peek" /\ \A u \in Threads : pc[u] # "s_peek"
      BY ONLY <1>1, <1>5, <3>2, t \in Threads
    <3>4. \A i \in 1 .. Len(completions') : completions'[i].op # "send"
      BY ONLY <3>1 DEF NoneArrived
    <3>5. \A i \in 1 .. Len(completions) : completions[i].op # "send"
      BY ONLY <1>3, <1>4, <3>3, <3>4
    <3> QED BY ONLY <3>3, <3>5 DEF NoneArrived
  <2> QED BY ONLY <1>8, <2>1, <2>2, <2>3 DEF Counted
<1> QED BY ONLY <1>7, <1>9, <1>10, <1>11, <1>12, <1>13 DEF Streamed

(* The kernel completes a part of the oldest message, and nothing else is  *)
(* unbooked.                                                               *)
LEMMA SendCompletesIs ==
  ASSUME Types, Calm, SendOnce, SetWhenNeeded, Streamed, SendCompletes
  PROVE  /\ queue # <<>> /\ inflight' = <<>> /\ Out(0)
         /\ \A i \in 1 .. Len(completions) : completions[i].op # "send"
         /\ \A u \in Threads : pc[u] \notin SendersAt
         /\ \E n \in 1 .. Left :
              /\ wire' = wire \o [i \in 1 .. n |-> Oldest]
              /\ completions' = Append(completions,
                   [op |-> "send", msg |-> Oldest, bytes |-> n])
<1>1. inflight # <<>> /\ inflight' = Tail(inflight)
  BY DEF SendCompletes
<1>2. /\ Len(inflight) = 1
      /\ \A i \in 1 .. Len(completions) : completions[i].op # "send"
      /\ \A u \in Threads : pc[u] \notin SendersAt
  BY <1>1, KernelIsAlone
<1>3. inflight \in Seq([msg : Messages, left : Lefts])
  BY DEF Types
<1>4. /\ inflight' = <<>> /\ Head(inflight) = inflight[1]
      /\ 1 \in 1 .. Len(inflight)
  BY ONLY <1>1, <1>2, <1>3
<1>5. /\ Head(inflight).left = Left
      /\ InProgress(Head(inflight).msg, Head(inflight).left)
  BY ONLY <1>4, Streamed DEF Streamed, KernelFits
<1>6. Head(inflight).msg = Oldest /\ queue # <<>>
  BY ONLY <1>5 DEF InProgress
<1>7. PICK n \in 0 .. Head(inflight).left :
        /\ n = 0 => ~up \/ Head(inflight).left = 0
        /\ wire' = wire \o [i \in 1 .. n |-> Head(inflight).msg]
        /\ completions' = Append(completions,
             [op |-> "send", msg |-> Head(inflight).msg, bytes |-> n])
  BY DEF SendCompletes
<1>8. n \in 1 .. Left
  <2>1. n # 0
    <3>1. Head(inflight).left # 0
      <4>1. Head(inflight).left > 0
        BY ONLY <1>5 DEF InProgress
      <4> QED BY ONLY <4>1
    <3> QED BY ONLY <1>7, <3>1, Calm DEF Calm
  <2>2. n \in 0 .. Left
    BY ONLY <1>5, <1>7
  <2> QED BY ONLY <2>1, <2>2
<1>9. Out(0)
  <2>1. NoneArrived
    BY ONLY <1>2 DEF NoneArrived, SendersAt
  <2> QED BY ONLY <2>1, Streamed DEF Streamed, Counted
<1> QED BY ONLY <1>2, <1>4, <1>6, <1>7, <1>8, <1>9

(* Its units are at the end of the stream, and at the port.                *)
LEMMA SendCompletesStreamed ==
  ASSUME Types, Calm, SendOnce, SetWhenNeeded, Streamed, SendCompletes
  PROVE  Streamed'
<1>1. /\ queue # <<>> /\ inflight' = <<>> /\ Out(0)
      /\ \A i \in 1 .. Len(completions) : completions[i].op # "send"
      /\ \A u \in Threads : pc[u] \notin SendersAt
  BY SendCompletesIs
<1>2. PICK n \in 1 .. Left :
        /\ wire' = wire \o [i \in 1 .. n |-> Oldest]
        /\ completions' = Append(completions,
             [op |-> "send", msg |-> Oldest, bytes |-> n])
  BY SendCompletesIs
<1>3. UNCHANGED <<pc, job, queue, pushed, moved, sendOccuring>>
  BY DEF SendCompletes, threadVars, queueVars, sendVars
<1>4. /\ Popped' = Popped /\ Oldest' = Oldest /\ Left' = Left
      /\ Numbered' /\ Untouched'
      /\ \A m, k : InProgress(m, k)' <=> InProgress(m, k)
  BY <1>3, DataKept
<1>5. completions \in Seq(Ports) /\ wire \in Seq(Messages)
  BY DEF Types
<1>6. /\ Oldest \in Messages /\ Popped \in Nat /\ Oldest \in Nat
      /\ moved[Oldest] \in Nat
  BY <1>1, HeadIsOldest DEF Streamed
<1>7. n \in Nat /\ n > 0 /\ n =< Left /\ Left \in Int
  BY ONLY <1>2, <1>6, BoundsAssumption DEF Left
<1>8. /\ Len(completions') = Len(completions) + 1 /\ Len(completions) \in Nat
      /\ completions'[Len(completions) + 1] = [op |-> "send", msg |-> Oldest, bytes |-> n]
      /\ \A i \in 1 .. Len(completions) : completions'[i] = completions[i]
  BY ONLY <1>2, <1>5
<1>9. \A i \in 1 .. Len(completions') : completions'[i].op = "send" =>
        completions'[i].msg = Oldest /\ completions'[i].bytes = n
  BY ONLY <1>1, <1>8
<1>10. Unattended' /\ ThreadsFit'
  <2>1. Unattended'
    BY ONLY <1>3, Streamed DEF Streamed, Unattended
  <2>2. ASSUME NEW u \in Threads PROVE ThreadFits(u)'
    BY <1>3, OthersKept
  <2> QED BY ONLY <2>1, <2>2 DEF ThreadsFit
<1>11. KernelFits'
  BY ONLY <1>1 DEF KernelFits
<1>12. PortFits'
  <2>1. InProgress(Oldest, n)
    BY ONLY <1>1, <1>7 DEF InProgress
  <2> QED BY ONLY <1>4, <1>9, <2>1 DEF PortFits
<1>13. Len(wire') = Len(wire) + n
  <2>1. /\ [i \in 1 .. n |-> Oldest] \in Seq(Messages)
        /\ Len([i \in 1 .. n |-> Oldest]) = n
    BY ONLY <1>6, <1>7
  <2> QED BY ONLY <1>2, <1>5, <2>1
<1>14. Out(n)'
  <2>1. Len(wire) = MsgSize * Popped + moved[Oldest] + 0
    BY ONLY <1>1 DEF Out
  <2>2. MsgSize * Popped \in Nat
    BY ONLY <1>6, BoundsAssumption
  <2>3. Len(wire') = MsgSize * Popped + moved[Oldest] + n
    BY ONLY <1>6, <1>7, <1>13, <2>1, <2>2
  <2> QED BY ONLY <1>1, <1>3, <1>4, <2>3 DEF Out
<1>15. Counted'
  <2>1. \A u \in Threads : pc'[u] # "s_peek"
    BY ONLY <1>1, <1>3 DEF SendersAt
  <2>2. ~NoneArrived'
    <3>1. Len(completions) + 1 \in 1 .. Len(completions')
      BY ONLY <1>8
    <3> QED BY ONLY <1>8, <3>1 DEF NoneArrived
  <2> QED BY ONLY <1>9, <1>14, <2>1, <2>2 DEF Counted, Out
<1> QED BY ONLY <1>4, <1>10, <1>11, <1>12, <1>15 DEF Streamed

(* A receive that completes is no matter of the queue.                     *)
LEMMA RecvCompletesStreamed ==
  ASSUME Types, Streamed, RecvCompletes
  PROVE  Streamed'
<1>1. PICK c \in Ports :
        c.op = "recv" /\ completions' = Append(completions, c)
  BY RecvCompletesFits
<1>2. UNCHANGED <<pc, job, queue, pushed, moved, sendOccuring, inflight, wire>>
  BY DEF RecvCompletes, threadVars, queueVars, sendVars
<1>3. completions \in Seq(Ports)
  BY DEF Types
<1>4. /\ Popped' = Popped /\ Oldest' = Oldest /\ Left' = Left
      /\ Numbered' /\ Untouched'
      /\ \A m, n : InProgress(m, n)' <=> InProgress(m, n)
  BY <1>2, DataKept
<1>5. \A n : Out(n)' <=> Out(n)
  BY ONLY <1>2, <1>4 DEF Out
<1>6. /\ Len(completions') = Len(completions) + 1 /\ Len(completions) \in Nat
      /\ completions'[Len(completions) + 1] = c
      /\ \A i \in 1 .. Len(completions) : completions'[i] = completions[i]
  BY ONLY <1>1, <1>3
<1>7. /\ \A i \in 1 .. Len(completions') : completions'[i].op = "send" =>
           i \in 1 .. Len(completions) /\ completions'[i] = completions[i]
      /\ \A i \in 1 .. Len(completions) :
           i \in 1 .. Len(completions') /\ completions'[i] = completions[i]
  BY ONLY <1>1, <1>6
<1>8. Unattended' /\ ThreadsFit'
  <2>1. Unattended'
    BY ONLY <1>2, Streamed DEF Streamed, Unattended
  <2>2. ASSUME NEW u \in Threads PROVE ThreadFits(u)'
    BY <1>2, OthersKept
  <2> QED BY ONLY <2>1, <2>2 DEF ThreadsFit
<1>9. KernelFits' /\ PortFits'
  <2>1. KernelFits'
    BY ONLY <1>2, <1>4, Streamed DEF Streamed, KernelFits
  <2>2. PortFits'
    BY ONLY <1>4, <1>7, Streamed DEF Streamed, PortFits
  <2> QED BY <2>1, <2>2
<1>10. Counted'
  <2>1. NoneArrived' => NoneArrived
    BY ONLY <1>2, <1>7 DEF NoneArrived
  <2> QED BY ONLY <1>2, <1>5, <1>7, <2>1, Streamed DEF Streamed, Counted
<1> QED BY ONLY <1>4, <1>8, <1>9, <1>10 DEF Streamed

(* A thread that gets to one of HearingAt keeps the user heard.            *)
LEMMA HearsBy ==
  ASSUME Types, NEW t \in Threads, NEW l \in HearingAt, Goto(t, l)
  PROVE  Hears'
<1>1. pc'[t] \in HearingAt
  BY GotoIs DEF Types
<1> QED BY ONLY <1>1, t \in Threads DEF Hears, HearingAt

(* So does one that leaves none of them, when the counters stay.           *)
LEMMA HearsOn ==
  ASSUME Types, Hears, NEW t \in Threads, NEW l, Goto(t, l),
         pc[t] \notin HearingAt,
         UNCHANGED <<recvOccuring, sendOccuring>>
  PROVE  Hears'
<1>1. \A u \in Threads : pc'[u] = IF u = t THEN l ELSE pc[u]
  BY GotoIs DEF Types
<1>2. \A u \in Threads : pc[u] \in HearingAt => pc'[u] \in HearingAt
  BY ONLY <1>1, pc[t] \notin HearingAt
<1> QED BY ONLY <1>2, Hears,
                UNCHANGED <<recvOccuring, sendOccuring>>
           DEF Hears, HearingAt

(* Adding a message keeps the queue, the stream and what is booked in      *)
(* step.                                                                   *)
LEMMA GoodAddStreamed ==
  ASSUME NEW t \in Threads, Types, MutexHeld, Calm, SendOnce, SetWhenNeeded,
         Streamed, Fits(t), GoodAdd(t)
  PROVE  Streamed'
<1>1. CASE AddPush(t)
  BY <1>1, AddPushStreamed
<1>2. CASE AddDefers(t)
  <2>1. pc[t] = "a_compare"
    BY <1>2 DEF AddDefers, Is
  <2>2. PICK l \in {"a_lock", "idle"} : Goto(t, l)
    BY <1>2, AddReturnsTypes DEF AddDefers
  <2>3. UNCHANGED <<job, queue, pushed, moved, sendOccuring, inflight,
                    completions, wire>>
    BY <1>2
    DEF AddDefers, AddReturns, threadVars, queueVars, sendVars, recvVars,
        endVars, kernelVars, envVars
  <2>4. sendOccuring # 0
    BY <1>2 DEF AddDefers
  <2> QED BY <2>1, <2>2, <2>3, <2>4, QuietStreamed
<1>3. CASE AddClaims(t)
  BY <1>3, AddClaimsStreamed
<1>4. CASE AddReset(t)
  <2>1. pc[t] = "a_reset"
    BY <1>4 DEF AddReset, Is
  <2>2. PICK l \in {"a_send"} : Goto(t, l)
    BY <1>4 DEF AddReset
  <2>3. UNCHANGED <<job, queue, pushed, moved, sendOccuring, inflight,
                    completions, wire>>
    BY <1>4
    DEF AddReset, threadVars, queueVars, sendVars, recvVars, endVars,
        kernelVars, envVars
  <2> QED BY <2>1, <2>2, <2>3, QuietStreamed
<1>5. CASE AddSends(t)
  BY <1>5, AddSendsStreamed
<1> QED
  BY <1>1, <1>2, <1>3, <1>4, <1>5
  DEF GoodAdd

(* Adding a message leaves somebody on the way to the next receive.        *)
LEMMA GoodAddHears ==
  ASSUME NEW t \in Threads, Types, SendOnce, SetWhenNeeded, Hears, GoodAdd(t)
  PROVE  Hears'
<1>1. CASE AddPush(t)
  <2>1. pc[t] = "a_lock"
    BY <1>1 DEF AddPush, Is
  <2>2. PICK l \in {"a_compare"} : Goto(t, l)
    BY <1>1 DEF AddPush
  <2> QED BY <2>2, HearsBy DEF HearingAt
<1>2. CASE AddDefers(t)
  <2>1. sendOccuring' = 1
    <3>1. sendOccuring \in {0, 1}
      BY ONLY SetWhenNeeded DEF SetWhenNeeded
    <3> QED BY <1>2, <3>1 DEF AddDefers, sendVars
  <2> QED BY <2>1 DEF Hears
<1>3. CASE AddClaims(t)
  <2>1. sendOccuring' = 1
    BY <1>3 DEF AddClaims
  <2> QED BY <2>1 DEF Hears
<1>4. CASE AddReset(t)
  <2>1. pc[t] = "a_reset"
    BY <1>4 DEF AddReset, Is
  <2>2. PICK l \in {"a_send"} : Goto(t, l)
    BY <1>4 DEF AddReset
  <2>3. UNCHANGED <<recvOccuring, sendOccuring>>
    BY <1>4 DEF AddReset, sendVars, recvVars
  <2>4. pc[t] \notin HearingAt
    BY <2>1 DEF HearingAt
  <2> QED BY <2>2, <2>3, <2>4, HearsOn
<1>5. CASE AddSends(t)
  <2>1. pc[t] = "a_send"
    BY <1>5 DEF AddSends, Is
  <2>2. PICK l \in {"a_lock", "idle"} : Goto(t, l)
    BY <1>5, AddReturnsTypes DEF AddSends
  <2>3. UNCHANGED <<recvOccuring, sendOccuring>>
    BY <1>5 DEF AddSends, sendVars, recvVars
  <2>4. pc[t] \notin HearingAt
    BY <2>1 DEF HearingAt
  <2> QED BY <2>2, <2>3, <2>4, HearsOn
<1> QED
  BY <1>1, <1>2, <1>3, <1>4, <1>5
  DEF GoodAdd

(* The completion of a send keeps the queue, the stream and what is booked *)
(* in step.                                                                *)
LEMMA GoodSendStreamed ==
  ASSUME NEW t \in Threads, Types, MutexHeld, Calm, SendOnce, SetWhenNeeded,
         Streamed, GoodSend(t), ~torn'
  PROVE  Streamed'
<1>1. CASE SendPartial(t)
  BY <1>1, SendPartialStreamed
<1>2. CASE SendWhole(t)
  BY <1>2, SendWholeStreamed
<1>3. CASE SendPop(t)
  BY <1>3, SendPopStreamed
<1>4. CASE SendDecrement(t)
  BY <1>4, SendDecrementStreamed
<1>5. CASE SendSet(t)
  <2>1. pc[t] = "s_set"
    BY <1>5 DEF SendSet, Is
  <2>2. PICK l \in {"s_rearm"} : Goto(t, l)
    BY <1>5 DEF SendSet
  <2>3. UNCHANGED <<job, queue, pushed, moved, sendOccuring, inflight,
                    completions, wire>>
    BY <1>5
    DEF SendSet, threadVars, queueVars, sendVars, recvVars, endVars,
        kernelVars, envVars
  <2> QED BY <2>1, <2>2, <2>3, QuietStreamed
<1>6. CASE SendNext(t)
  BY <1>6, SendNextStreamed
<1>7. CASE Rearm(t)
  <2>1. pc[t] = "s_rearm"
    BY <1>7 DEF Rearm, Is
  <2>2. PICK l \in {"s_recv", "idle"} : Goto(t, l)
    BY <1>7 DEF Rearm
  <2>3. UNCHANGED <<job, queue, pushed, moved, sendOccuring, inflight,
                    completions, wire>>
    BY <1>7
    DEF Rearm, threadVars, queueVars, sendVars, recvVars, endVars, kernelVars,
        envVars
  <2> QED BY <2>1, <2>2, <2>3, QuietStreamed
<1>8. CASE RecvPosted(t)
  <2>1. pc[t] = "s_recv"
    BY <1>8 DEF RecvPosted, Is
  <2>2. PICK l \in {"idle"} : Goto(t, l)
    BY <1>8 DEF RecvPosted
  <2>3. UNCHANGED <<job, queue, pushed, moved, sendOccuring, inflight,
                    completions, wire>>
    BY <1>8
    DEF RecvPosted, threadVars, queueVars, sendVars, recvVars, endVars,
        kernelVars, envVars
  <2> QED BY <2>1, <2>2, <2>3, QuietStreamed
<1> QED
  BY <1>1, <1>2, <1>3, <1>4, <1>5, <1>6, <1>7, <1>8
  DEF GoodSend

(* The completion of a send leaves somebody on the way to the next         *)
(* receive.                                                                *)
LEMMA GoodSendHears ==
  ASSUME NEW t \in Threads, Types, SendOnce, SetWhenNeeded, Hears, GoodSend(t)
  PROVE  Hears'
<1>1. CASE SendPartial(t)
  <2>1. pc[t] = "s_peek"
    BY <1>1 DEF SendPartial, SendIsPartial, RecvIsPartial, Is, Is
  <2>2. PICK l \in {"idle"} : Goto(t, l)
    BY <1>1 DEF SendPartial
  <2>3. UNCHANGED <<recvOccuring, sendOccuring>>
    BY <1>1 DEF SendPartial, sendVars, recvVars
  <2>4. pc[t] \notin HearingAt
    BY <2>1 DEF HearingAt
  <2> QED BY <2>2, <2>3, <2>4, HearsOn
<1>2. CASE SendWhole(t)
  <2>1. pc[t] = "s_peek"
    BY <1>2 DEF SendWhole, SendIsPartial, RecvIsPartial, Is, Is
  <2>2. PICK l \in {"s_pop"} : Goto(t, l)
    BY <1>2 DEF SendWhole
  <2>3. UNCHANGED <<recvOccuring, sendOccuring>>
    BY <1>2 DEF SendWhole, sendVars, recvVars
  <2>4. pc[t] \notin HearingAt
    BY <2>1 DEF HearingAt
  <2> QED BY <2>2, <2>3, <2>4, HearsOn
<1>3. CASE SendPop(t)
  <2>1. pc[t] = "s_pop"
    BY <1>3 DEF SendPop, Is
  <2>2. PICK l \in {"s_decrement", "s_next"} : Goto(t, l)
    BY <1>3 DEF SendPop
  <2>3. UNCHANGED <<recvOccuring, sendOccuring>>
    BY <1>3 DEF SendPop, sendVars, recvVars
  <2>4. pc[t] \notin HearingAt
    BY <2>1 DEF HearingAt
  <2> QED BY <2>2, <2>3, <2>4, HearsOn
<1>4. CASE SendDecrement(t)
  <2>1. pc[t] = "s_decrement"
    BY <1>4 DEF SendDecrement, Is
  <2>2. PICK l \in {"s_set"} : Goto(t, l)
    BY <1>4 DEF SendDecrement
  <2> QED BY <2>2, HearsBy DEF HearingAt
<1>5. CASE SendSet(t)
  <2>1. pc[t] = "s_set"
    BY <1>5 DEF SendSet, Is
  <2>2. PICK l \in {"s_rearm"} : Goto(t, l)
    BY <1>5 DEF SendSet
  <2> QED BY <2>2, HearsBy DEF HearingAt
<1>6. CASE SendNext(t)
  <2>1. pc[t] = "s_next"
    BY <1>6 DEF SendNext, Is
  <2>2. PICK l \in {"s_rearm"} : Goto(t, l)
    BY <1>6 DEF SendNext
  <2> QED BY <2>2, HearsBy DEF HearingAt
<1>7. CASE Rearm(t)
  <2>1. recvOccuring' = 1
    BY <1>7 DEF Rearm
  <2> QED BY <2>1 DEF Hears
<1>8. CASE RecvPosted(t)
  <2>1. pc[t] = "s_recv"
    BY <1>8 DEF RecvPosted, Is
  <2>2. PICK l \in {"idle"} : Goto(t, l)
    BY <1>8 DEF RecvPosted
  <2>3. UNCHANGED <<recvOccuring, sendOccuring>>
    BY <1>8 DEF RecvPosted, sendVars, recvVars
  <2>4. pc[t] \notin HearingAt
    BY <2>1 DEF HearingAt
  <2> QED BY <2>2, <2>3, <2>4, HearsOn
<1> QED
  BY <1>1, <1>2, <1>3, <1>4, <1>5, <1>6, <1>7, <1>8
  DEF GoodSend

(* The completion of a receive keeps the queue, the stream and what is     *)
(* booked in step.                                                         *)
LEMMA GoodRecvStreamed ==
  ASSUME NEW t \in Threads, Types, MutexHeld, Calm, SendOnce, SetWhenNeeded,
         Streamed, GoodRecv(t)
  PROVE  Streamed'
<1>1. CASE RecvPartial(t)
  <2>1. pc[t] = "r_parse"
    BY <1>1 DEF RecvPartial, SendIsPartial, RecvIsPartial, Is, Is
  <2>2. PICK l \in {"idle"} : Goto(t, l)
    BY <1>1 DEF RecvPartial
  <2>3. UNCHANGED <<job, queue, pushed, moved, sendOccuring, inflight,
                    completions, wire>>
    BY <1>1
    DEF RecvPartial, RecvIsPartial, threadVars, queueVars, sendVars, recvVars,
        endVars, kernelVars, envVars
  <2> QED BY <2>1, <2>2, <2>3, QuietStreamed
<1>2. CASE RecvWhole(t)
  <2>1. pc[t] = "r_parse"
    BY <1>2 DEF RecvWhole, SendIsPartial, RecvIsPartial, Is, Is
  <2>2. PICK l \in {"handle"} : Goto(t, l)
    BY <1>2 DEF RecvWhole
  <2>3. UNCHANGED <<job, queue, pushed, moved, sendOccuring, inflight,
                    completions, wire>>
    BY <1>2
    DEF RecvWhole, RecvIsPartial, threadVars, queueVars, sendVars, recvVars,
        endVars, kernelVars, envVars
  <2> QED BY <2>1, <2>2, <2>3, QuietStreamed
<1>3. CASE Answer(t)
  <2>1. pc[t] = "handle"
    BY <1>3 DEF Answer, Is
  <2>2. PICK l \in {"a_lock"} : Goto(t, l)
    BY <1>3 DEF Answer
  <2>3. UNCHANGED <<job, queue, pushed, moved, sendOccuring, inflight,
                    completions, wire>>
    BY <1>3
    DEF Answer, threadVars, queueVars, sendVars, recvVars, endVars, kernelVars,
        envVars
  <2> QED BY <2>1, <2>2, <2>3, QuietStreamed
<1>4. CASE NoAnswer(t)
  <2>1. pc[t] = "handle"
    BY <1>4 DEF NoAnswer, Is
  <2>2. PICK l \in {"idle"} : Goto(t, l)
    BY <1>4 DEF NoAnswer
  <2>3. UNCHANGED <<job, queue, pushed, moved, sendOccuring, inflight,
                    completions, wire>>
    BY <1>4
    DEF NoAnswer, threadVars, queueVars, sendVars, recvVars, endVars,
        kernelVars, envVars
  <2> QED BY <2>1, <2>2, <2>3, QuietStreamed
<1> QED
  BY <1>1, <1>2, <1>3, <1>4
  DEF GoodRecv

(* The completion of a receive leaves somebody on the way to the next      *)
(* receive.                                                                *)
LEMMA GoodRecvHears ==
  ASSUME NEW t \in Threads, Types, SendOnce, SetWhenNeeded, Hears, GoodRecv(t)
  PROVE  Hears'
<1>1. CASE RecvPartial(t)
  <2>1. pc[t] = "r_parse"
    BY <1>1 DEF RecvPartial, SendIsPartial, RecvIsPartial, Is, Is
  <2>2. PICK l \in {"idle"} : Goto(t, l)
    BY <1>1 DEF RecvPartial
  <2>3. UNCHANGED <<recvOccuring, sendOccuring>>
    BY <1>1 DEF RecvPartial, sendVars, recvVars
  <2>4. pc[t] \notin HearingAt
    BY <2>1 DEF HearingAt
  <2> QED BY <2>2, <2>3, <2>4, HearsOn
<1>2. CASE RecvWhole(t)
  <2>1. pc[t] = "r_parse"
    BY <1>2 DEF RecvWhole, SendIsPartial, RecvIsPartial, Is, Is
  <2>2. PICK l \in {"handle"} : Goto(t, l)
    BY <1>2 DEF RecvWhole
  <2> QED BY <2>2, HearsBy DEF HearingAt
<1>3. CASE Answer(t)
  <2>1. pc[t] = "handle"
    BY <1>3 DEF Answer, Is
  <2>2. PICK l \in {"a_lock"} : Goto(t, l)
    BY <1>3 DEF Answer
  <2> QED BY <2>2, HearsBy DEF HearingAt
<1>4. CASE NoAnswer(t)
  BY <1>4 DEF NoAnswer, Hears
<1> QED
  BY <1>1, <1>2, <1>3, <1>4
  DEF GoodRecv

(* Taking a completion or a broadcast keeps the queue, the stream and what *)
(* is booked in step.                                                      *)
LEMMA PortStepStreamed ==
  ASSUME NEW t \in Threads, Types, MutexHeld, Calm, SendOnce, SetWhenNeeded,
         Streamed, PortStep(t)
  PROVE  Streamed'
<1>1. CASE TakeCompletion(t)
  BY <1>1, TakeCompletionStreamed
<1>2. CASE Broadcast(t)
  <2>1. pc[t] = "idle"
    BY <1>2 DEF Broadcast, Is
  <2>2. PICK l \in {"a_lock"} : Goto(t, l)
    BY <1>2 DEF Broadcast
  <2>3. UNCHANGED <<job, queue, pushed, moved, sendOccuring, inflight,
                    completions, wire>>
    BY <1>2
    DEF Broadcast, threadVars, queueVars, sendVars, recvVars, endVars,
        kernelVars, envVars
  <2> QED BY <2>1, <2>2, <2>3, QuietStreamed
<1> QED
  BY <1>1, <1>2
  DEF PortStep

(* Taking a completion or a broadcast leaves somebody on the way to the    *)
(* next receive.                                                           *)
LEMMA PortStepHears ==
  ASSUME NEW t \in Threads, Types, SendOnce, SetWhenNeeded, Hears, PortStep(t)
  PROVE  Hears'
<1>1. CASE TakeCompletion(t)
  <2>1. pc[t] = "idle"
    BY <1>1 DEF TakeCompletion, Is
  <2>2. PICK l \in {"r_parse", "x_recv", "s_peek", "x_send"} : Goto(t, l)
    BY <1>1, TakeGoes
  <2>3. UNCHANGED <<recvOccuring, sendOccuring>>
    BY <1>1 DEF TakeCompletion, sendVars, recvVars
  <2>4. pc[t] \notin HearingAt
    BY <2>1 DEF HearingAt
  <2> QED BY <2>2, <2>3, <2>4, HearsOn
<1>2. CASE Broadcast(t)
  <2>1. pc[t] = "idle"
    BY <1>2 DEF Broadcast, Is
  <2>2. PICK l \in {"a_lock"} : Goto(t, l)
    BY <1>2 DEF Broadcast
  <2> QED BY <2>2, HearsBy DEF HearingAt
<1> QED
  BY <1>1, <1>2
  DEF PortStep

(* The kernel keeps the queue, the stream and what is booked in step.      *)
LEMMA KernelStreamed ==
  ASSUME Types, MutexHeld, Calm, SendOnce, SetWhenNeeded, Streamed, Kernel
  PROVE  Streamed'
<1>1. CASE SendCompletes
  BY <1>1, SendCompletesStreamed
<1>2. CASE RecvCompletes
  BY <1>2, RecvCompletesStreamed
<1> QED
  BY <1>1, <1>2
  DEF Kernel

(* The kernel leaves somebody on the way to the next receive.              *)
LEMMA KernelHears ==
  ASSUME Types, SendOnce, SetWhenNeeded, Hears, Kernel
  PROVE  Hears'
<1>1. CASE SendCompletes
  <2>1. UNCHANGED <<pc, recvOccuring, sendOccuring>>
    BY <1>1 DEF SendCompletes, sendVars, recvVars
  <2> QED BY ONLY <2>1, Hears DEF Hears
<1>2. CASE RecvCompletes
  <2>1. UNCHANGED <<pc, recvOccuring, sendOccuring>>
    BY <1>2 DEF RecvCompletes, sendVars, recvVars
  <2> QED BY ONLY <2>1, Hears DEF Hears
<1> QED
  BY <1>1, <1>2
  DEF Kernel

(* As long as nothing fails and no message is torn, no step is a failing   *)
(* one or one of the destruction.                                          *)
LEMMA OnlyGood ==
  ASSUME Faultless, Types, Calm, ThreadsFit, Next, ~torn'
  PROVE  \/ \E t \in Threads :
              GoodAdd(t) \/ GoodSend(t) \/ GoodRecv(t) \/ PortStep(t)
         \/ Kernel
<1>1. ~SendCanFail
  <2>1. faults \in 0 .. MaxSyncFaults /\ MaxSyncFaults = 0 /\ up
    BY DEF Faultless, Types, Calm
  <2>2. ~(faults < MaxSyncFaults)
    BY ONLY <2>1
  <2> QED BY ONLY <2>1, <2>2 DEF SendCanFail
<1>2. ~ConnectionLost
  BY DEF Faultless, ConnectionLost
<1>3. ASSUME NEW t \in Threads, AddStep(t) PROVE GoodAdd(t)
  BY ONLY <1>1, <1>3 DEF AddStep, GoodAdd, AddSendFails
<1>4. ASSUME NEW t \in Threads, SendStep(t) PROVE GoodSend(t)
  <2>1. pc[t] # "s_fail" /\ up
    BY DEF Calm
  <2>2. pc[t] = "s_peek" \/ pc[t] = "s_pop" => queue # <<>>
    BY DEF ThreadsFit, ThreadFits, InProgress
  <2>3. ~SendPartialFails(t)
    BY ONLY <1>1, ~torn' DEF SendPartialFails, SendTears, Wraps
  <2> QED BY ONLY <1>1, <1>4, <2>1, <2>2, <2>3
          DEF SendStep, GoodSend, QueueIsEmpty,
              SendNextFails, SendGivesUp, RecvPostFails, Is
<1>5. ASSUME NEW t \in Threads, RecvStep(t) PROVE GoodRecv(t)
  <2>1. up
    BY DEF Calm
  <2> QED BY ONLY <1>5, <2>1 DEF RecvStep, GoodRecv, RecvPartialFails
<1>6. ASSUME NEW t \in Threads, EndStep(t) PROVE FALSE
  <2>1. pc[t] \notin EndLocations
    BY DEF Calm
  <2> QED BY ONLY <1>6, <2>1
          DEF EndStep, EndSend, EndSendSet, EndRecv, CloseCheck, CloseWait,
              CloseFree, EndLocations, Is
<1> QED BY ONLY <1>2, <1>3, <1>4, <1>5, <1>6, Next
        DEF Next, Work, Kernel, PortStep

(* The initial states satisfy the fault-free part.                         *)
LEMMA InitSound ==
  ASSUME Init
  PROVE  Sound
<1> USE DEF Init
<1>1. Calm
  BY DEF Calm, EndLocations
<1>2. \A S : "idle" \notin S => At(S) = {}
  BY DEF At
<1>3. /\ Arrived("send") = 0 /\ Arrived("recv") = 0 /\ Sending = 0
      /\ Receiving = 0
  <2>1. Cardinality({}) = 0
    BY FS_EmptySet
  <2>2. Arrived("send") = 0 /\ Arrived("recv") = 0
    <3>1. Waiting("send") = {} /\ Waiting("recv") = {}
      BY DEF Waiting
    <3> QED BY ONLY <2>1, <3>1 DEF Arrived
  <2>3. Sending = 0
    <3>1. At(SendersAt) = {}
      BY <1>2 DEF SendersAt
    <3> QED BY ONLY <2>1, <3>1 DEF Sending
  <2>4. Receiving = 0
    <3>1. At({"r_parse", "s_recv"}) = {}
      BY <1>2
    <3> QED BY ONLY <2>1, <3>1 DEF Receiving
  <2> QED BY <2>2, <2>3, <2>4
<1>4. SendOnce
  <2>1. Len(inflight) = 0 /\ sendOccuring = 0
    OBVIOUS
  <2> QED BY ONLY <1>3, <2>1 DEF SendOnce
<1>5. ReceiveAgain
  BY <1>3 DEF ReceiveAgain
<1>6. SetWhenNeeded
  BY DEF SetWhenNeeded
<1>7. Streamed
  <2>1. Len(queue) = 0 /\ Popped = 0 /\ Len(wire) = 0
    <3>1. Len(queue) = 0 /\ pushed = 0 /\ Len(wire) = 0
      OBVIOUS
    <3> QED BY ONLY <3>1 DEF Popped
  <2>2. Numbered
    BY <2>1 DEF Numbered
  <2>3. Untouched /\ Unattended /\ ThreadsFit /\ KernelFits /\ PortFits
    BY DEF Untouched, Unattended, ThreadsFit, ThreadFits, KernelFits, PortFits
  <2>4. Counted
    <3>1. Out(0)
      <4>1. MsgSize * 0 = 0
        BY BoundsAssumption
      <4> QED BY <2>1, <4>1 DEF Out
    <3> QED BY <3>1 DEF Counted
  <2> QED BY <2>2, <2>3, <2>4 DEF Streamed
<1>8. Hears
  BY DEF Hears
<1> QED BY <1>1, <1>4, <1>5, <1>6, <1>7, <1>8 DEF Sound

(* A torn stream stays torn.                                               *)
LEMMA TornStays ==
  ASSUME [Next]_vars, torn
  PROVE  torn'
<1>1. CASE UNCHANGED vars
  BY <1>1 DEF vars
<1>2. CASE Kernel \/ ConnectionLost
  BY <1>2 DEF Kernel, SendCompletes, RecvCompletes, ConnectionLost
<1>3. ASSUME NEW t \in Threads, TakeCompletion(t) \/ Broadcast(t) PROVE torn'
  BY <1>3 DEF TakeCompletion, Broadcast
<1>4. ASSUME NEW t \in Threads, AddStep(t) PROVE torn'
  BY <1>4
  DEF AddStep, AddPush, AddDefers, AddClaims, AddReset, AddSends, AddSendFails
<1>5. ASSUME NEW t \in Threads, SendStep(t) PROVE torn'
  BY <1>5
  DEF SendStep, SendPartial, SendPartialFails, SendTears, SendWhole,
      QueueIsEmpty, SendPop, SendDecrement, SendSet, SendNext, SendNextFails,
      SendGivesUp, Rearm, RecvPosted, RecvPostFails
<1>6. ASSUME NEW t \in Threads, RecvStep(t) PROVE torn'
  BY <1>6
  DEF RecvStep, RecvPartial, RecvPartialFails, RecvWhole, Answer, NoAnswer
<1>7. ASSUME NEW t \in Threads, EndStep(t) PROVE torn'
  BY <1>7
  DEF EndStep, EndSend, EndSendSet, EndRecv, CloseCheck, CloseWait, CloseFree
<1> QED BY <1>1, <1>2, <1>3, <1>4, <1>5, <1>6, <1>7 DEF Next, Work

(* Every step keeps the fault-free part, but one that tears a message.     *)
LEMMA StepSound ==
  ASSUME Faultless, General, Sound, [Next]_vars, ~torn'
  PROVE  Sound'
<1>1. /\ Types /\ MutexHeld /\ Calm /\ SendOnce /\ ReceiveAgain
      /\ SetWhenNeeded
      /\ Streamed /\ Hears /\ ThreadsFit /\ KernelFits
  BY DEF General, Sound, Streamed
<1>2. \A t \in Threads : Fits(t)
  BY EveryMessageFits DEF General
<1>3. ASSUME NEW t \in Threads, GoodAdd(t)
      PROVE  Sound'
  BY ONLY <1>1, <1>2, <1>3, GoodAddCalm, GoodAddSendOnce, GoodAddAgain,
          GoodAddSets, GoodAddStreamed, GoodAddHears
  DEF Sound
<1>4. ASSUME NEW t \in Threads, GoodSend(t)
      PROVE  Sound'
  BY ONLY <1>1, <1>4, ~torn', GoodSendCalm, GoodSendSendOnce, GoodSendAgain,
          GoodSendSets, GoodSendStreamed, GoodSendHears
  DEF Sound
<1>5. ASSUME NEW t \in Threads, GoodRecv(t)
      PROVE  Sound'
  BY ONLY <1>1, <1>5, GoodRecvCalm, GoodRecvSendOnce, GoodRecvAgain,
          GoodRecvSets, GoodRecvStreamed, GoodRecvHears
  DEF Sound
<1>6. ASSUME NEW t \in Threads, PortStep(t)
      PROVE  Sound'
  BY ONLY <1>1, <1>6, PortStepCalm, PortStepSendOnce, PortStepAgain,
          PortStepSets, PortStepStreamed, PortStepHears
  DEF Sound
<1>7. ASSUME Kernel
      PROVE  Sound'
  BY ONLY <1>1, <1>7, KernelCalm, KernelSendOnce, KernelAgain, KernelSets,
     KernelStreamed, KernelHears DEF Sound
<1>8. CASE UNCHANGED vars
  <2> USE DEF vars, threadVars, queueVars, sendVars, recvVars, endVars,
              kernelVars, envVars
  <2>1. Calm'
    BY ONLY <1>1, <1>8 DEF Calm, vars, endVars, kernelVars, envVars
  <2>2. SendOnce' /\ ReceiveAgain'
    BY <1>1, <1>8, CountsSame, ArrivedSame DEF SendOnce, ReceiveAgain
  <2>3. SetWhenNeeded'
    BY ONLY <1>1, <1>8 DEF SetWhenNeeded, vars, sendVars
  <2>4. Streamed'
    <3>1. UNCHANGED <<pc, job, queue, pushed, moved, sendOccuring, inflight,
                      completions, wire>>
      BY <1>8
    <3>2. Numbered' /\ Untouched'
      BY <1>1, <3>1, DataKept
    <3>3. Unattended' /\ KernelFits' /\ PortFits'
      BY ONLY <1>1, <3>1
      DEF Streamed, Unattended, KernelFits, PortFits, InProgress, Left, Oldest,
          Popped
    <3>4. ThreadsFit'
      <4>1. ASSUME NEW u \in Threads PROVE ThreadFits(u)'
        BY <1>1, <3>1, OthersKept
      <4> QED BY <4>1 DEF ThreadsFit
    <3>5. Counted'
      BY <1>1, <3>1, CountedKept
    <3> QED BY ONLY <3>2, <3>3, <3>4, <3>5 DEF Streamed
  <2>5. Hears'
    BY ONLY <1>1, <1>8 DEF Hears, vars, recvVars, sendVars
  <2> QED BY ONLY <2>1, <2>2, <2>3, <2>4, <2>5 DEF Sound
<1>9. CASE Next
  <2>1. \/ \E t \in Threads :
             GoodAdd(t) \/ GoodSend(t) \/ GoodRecv(t) \/ PortStep(t)
        \/ Kernel
    BY <1>1, <1>9, OnlyGood
  <2> QED BY ONLY <2>1, <1>3, <1>4, <1>5, <1>6, <1>7
<1> QED BY <1>8, <1>9

(* IInv is an invariant.                                                   *)
THEOREM StreamInvariant == Spec => []IInv
<1>1. Init => IInv
  BY InitGeneral, InitSound DEF IInv
<1>2. IInv /\ [Next]_vars => IInv'
  BY StepGeneral, StepSound, TornStays DEF IInv, Faultless
<1> QED BY <1>1, <1>2, PTL DEF Spec

(* An element of a sequence over S.                                        *)
LEMMA ElementOf ==
  ASSUME NEW S, NEW s \in Seq(S), NEW i \in 1 .. Len(s)
  PROVE  s[i] \in S
OBVIOUS

(* A sequence whose elements are in T.                                     *)
LEMMA SequenceOf ==
  ASSUME NEW S, NEW T, NEW s \in Seq(S), \A i \in 1 .. Len(s) : s[i] \in T
  PROVE  s \in Seq(T)
OBVIOUS

(* As long as nothing fails, and until a message is torn, every variable   *)
(* stays in its range: m_plSendOccuring in 0 and 1, and never more of a    *)
(* message in the kernel than the message has.                             *)
THEOREM TypeCorrect == ASSUME Faultless PROVE Spec => [](torn \/ TypeOK)
<1>1. IInv => torn \/ TypeOK
  <2>1. SUFFICES ASSUME IInv, ~torn PROVE TypeOK
    OBVIOUS
  <2>2. /\ Types /\ Flags /\ Budget /\ ReceiveOnce /\ Calm /\ SetWhenNeeded
        /\ KernelFits
        /\ Streamed
    BY <2>1 DEF IInv, General, Sound, Streamed
  <2>3. pushed \in 0 .. MaxMessages
    <3>1. /\ pushed \in Nat /\ broadcasts \in Nat /\ requests \in Nat
          /\ MaxMessages \in Nat
          /\ Owed \in Nat /\ Due \in Nat /\ Handling \in Nat /\ Locking \in Nat
      BY <2>2, LedgerIsNat
    <3> QED BY ONLY <2>2, <3>1 DEF Budget, Ledger
  <2>4. inflight \in Seq([msg : Messages, left : 0 .. MsgSize])
    <3>1. inflight \in Seq([msg : Messages, left : Lefts])
      BY <2>2 DEF Types
    <3>2. ASSUME NEW i \in 1 .. Len(inflight)
          PROVE  inflight[i] \in [msg : Messages, left : 0 .. MsgSize]
      <4>1. inflight[i] \in [msg : Messages, left : Lefts]
        BY ONLY <3>1, <3>2, ElementOf
      <4>2. inflight[i].left > 0
        BY ONLY <2>2, <3>2 DEF KernelFits, InProgress
      <4>3. inflight[i].left \in 0 .. MsgSize
        BY ONLY <4>1, <4>2, BoundsAssumption DEF Lefts
      <4> QED BY ONLY <4>1, <4>3
    <3> QED BY ONLY <3>1, <3>2, SequenceOf
  <2>5. recvs \in 0 .. 1
    <3>1. /\ recvs \in Nat /\ recvOccuring \in {0, 1}
          /\ completions \in Seq(Ports)
          /\ recvs + Arrived("recv") + Receiving =< recvOccuring
      BY ONLY <2>2 DEF Types, ReceiveOnce
    <3>2. Arrived("recv") \in Nat /\ Receiving \in Nat
      BY <3>1, WaitingFinite, CountsAreNat
    <3> QED BY ONLY <3>1, <3>2
  <2>6. completions \in Seq(Jobs)
    <3>1. completions \in Seq(Ports) /\ Ports \subseteq Jobs
      BY ONLY <2>2 DEF Types, Ports, Jobs
    <3> HIDE DEF Ports, Jobs
    <3> QED BY ONLY <3>1
  <2>7. answers \in [Threads -> 0 .. (MaxAnswers - 1)]
    BY ONLY <2>2 DEF Types, MaxAnswers
  <2>8. sendOccuring \in {0, 1}
    BY ONLY <2>2 DEF SetWhenNeeded
  <2> QED BY ONLY <2>2, <2>3, <2>4, <2>5, <2>6, <2>7, <2>8
          DEF TypeOK, Types, Flags
<1> QED BY <1>1, StreamInvariant, PTL

(* As long as nothing fails, and until a message is torn, there is one     *)
(* sender exactly when m_plSendOccuring says so, and WorkerSendOP, which   *)
(* looks at the head of the queue without the mutex, finds the message     *)
(* that was sent.                                                          *)
THEOREM RightMessageIsBooked ==
  ASSUME Faultless
  PROVE  Spec => [](torn \/ (OneSender /\ BookedMessageWasSent))
<1>1. IInv => torn \/ OneSender
  BY DEF IInv, Sound, SendOnce, OneSender, Senders, Arrived, Sending
<1>2. IInv => torn \/ BookedMessageWasSent
  <2>1. SUFFICES ASSUME IInv, ~torn, NEW t \in Threads, pc[t] = "s_peek"
                 PROVE  queue # <<>> /\ Head(queue) = job[t].msg
    BY DEF BookedMessageWasSent
  <2>2. Types /\ Numbered /\ queue # <<>> /\ job[t].msg = Oldest
    BY <2>1
    DEF IInv, General, Sound, Streamed, ThreadsFit, ThreadFits, InProgress
  <2> QED BY <2>2, HeadIsOldest
<1> QED BY <1>1, <1>2, StreamInvariant, PTL

(* As long as nothing fails, and until a message is torn, SEND_DONE_EVENT  *)
(* is signalled exactly when nothing is being sent, but while a thread is  *)
(* between the two updates.                                                *)
THEOREM EventTellsSending == ASSUME Faultless
                             PROVE Spec => []DoneMeansNotSending
<1>1. IInv => DoneMeansNotSending
  <2>1. SUFFICES ASSUME SetWhenNeeded PROVE DoneMeansNotSending
    BY DEF IInv, Sound, DoneMeansNotSending
  <2>2. At({"a_reset", "s_set", "x_set"}) = {} =>
          \A t \in Threads : pc[t] \notin {"a_reset", "s_set"}
    BY DEF At
  <2> QED BY ONLY <2>1, <2>2 DEF SetWhenNeeded, DoneMeansNotSending
<1> QED BY <1>1, StreamInvariant, PTL

(* As long as nothing fails, and until a message is torn, a queue that is  *)
(* not empty, and that no thread is at work on, has a sender (the claim in *)
(* ManageMsgQueueAdd against the release in ManageSendQueue).              *)
THEOREM QueueIsAttended == ASSUME Faultless PROVE Spec => []NothingStranded
<1>1. IInv => NothingStranded
  <2>1. SUFFICES ASSUME MutexHeld, SetWhenNeeded, Unattended,
                        mutex = NoThread, queue # <<>>
                 PROVE  sendOccuring = 1
    BY DEF IInv, General, Sound, Streamed, NothingStranded
  <2>2. \A t \in Threads : pc[t] # "a_compare"
    BY <2>1, ThreadsAssumption DEF MutexHeld, MutexAt
  <2> QED BY ONLY <2>1, <2>2 DEF Unattended, SetWhenNeeded
<1> QED BY <1>1, StreamInvariant, PTL

(* As long as nothing fails, for this user or another one, and until a     *)
(* message is torn, the user never goes deaf: when no receive is armed a   *)
(* send is on its way whose completion will arm one.                       *)
THEOREM UserIsHeard == ASSUME Faultless, ~PeerFaults PROVE Spec => []NeverDeaf
<1>1. IInv => NeverDeaf
  <2>1. SUFFICES ASSUME IInv, ~torn, Receivers = 0
                 PROVE  \/ Senders > 0
                        \/ At({"handle", "a_lock", "a_compare", "s_set", "s_rearm"}) # {}
    BY DEF NeverDeaf
  <2>2. SendOnce /\ ReceiveAgain /\ Hears
    BY <2>1 DEF IInv, Sound
  <2>3. recvOccuring = 0 /\ Senders = sendOccuring
    BY ONLY <2>1, <2>2
    DEF ReceiveAgain, Receivers, Arrived, Receiving, SendOnce, Senders, Sending
  <2>4. sendOccuring = 1 \/ \E t \in Threads : pc[t] \in HearingAt
    BY ONLY <2>2, <2>3, ~PeerFaults DEF Hears
  <2>5. CASE sendOccuring = 1
    BY ONLY <2>3, <2>5
  <2>6. CASE \E t \in Threads : pc[t] \in HearingAt
    BY ONLY <2>6 DEF At, HearingAt
  <2> QED BY <2>4, <2>5, <2>6
<1> QED BY <1>1, StreamInvariant, PTL

(* The unit behind p whole messages and r units is of message p + 1.       *)
LEMMA UnitOfMessage ==
  ASSUME NEW p \in Nat, NEW r \in 0 .. (MsgSize - 1)
  PROVE  /\ (MsgSize * p + r) \div MsgSize = p
         /\ (p + 1) * MsgSize = MsgSize * p + MsgSize
<1>1. MsgSize \in Nat /\ MsgSize > 0
  BY BoundsAssumption
<1> DEFINE x == MsgSize * p
<1>2. x \in Nat /\ (p + 1) * MsgSize = x + MsgSize /\ p * MsgSize = x
  BY ONLY <1>1
<1> DEFINE a == x + r
           d == a \div MsgSize
           m == a % MsgSize
<1>3. a \in Nat
  BY ONLY <1>2
<1>4. d \in Int /\ m \in 0 .. (MsgSize - 1) /\ a = MsgSize * d + m
  BY ONLY <1>1, <1>3
<1>5. d = p
  <2>1. CASE d >= p + 1
    <3>1. MsgSize * d >= MsgSize * (p + 1)
      BY ONLY <1>1, <1>4, <2>1
    <3>2. MsgSize * (p + 1) = x + MsgSize /\ MsgSize * d \in Int
      BY ONLY <1>1, <1>4
    <3> HIDE DEF x
    <3> QED BY ONLY <1>1, <1>2, <1>4, <3>1, <3>2
  <2>2. CASE d + 1 =< p
    <3>1. MsgSize * (d + 1) =< MsgSize * p
      BY ONLY <1>1, <1>4, <2>2
    <3>2. MsgSize * (d + 1) = MsgSize * d + MsgSize /\ MsgSize * d \in Int
      BY ONLY <1>1, <1>4
    <3> HIDE DEF x
    <3> QED BY ONLY <1>1, <1>2, <1>4, <3>1, <3>2 DEF x
  <2> QED BY ONLY <1>4, <2>1, <2>2
<1> QED BY ONLY <1>2, <1>5

(* Pushing a message is accepting it.                                      *)
LEMMA AcceptIsRefined ==
  ASSUME General, NEW t \in Threads, AddPush(t)
  PROVE  Stream!Accept
<1>1. pushed' = pushed + 1 /\ UNCHANGED <<wire, torn>>
  BY DEF AddPush, kernelVars
<1>2. pushed + 1 \in Messages
  BY EveryMessageFits DEF General, AddPush, Fits, Is
<1>3. pushed \in Nat /\ MaxMessages \in Nat
  BY BoundsAssumption DEF General, Types
<1> QED BY ONLY <1>1, <1>2, <1>3 DEF Messages, Stream!Accept

(* A send that completes transmits units of the oldest unfinished message. *)
LEMMA TransmitIsRefined ==
  ASSUME Types, Calm, SendOnce, SetWhenNeeded, Streamed, SendCompletes,
         torn = FALSE
  PROVE  Stream!Transmit
<1>1. queue # <<>> /\ Out(0)
  BY SendCompletesIs
<1>2. PICK n \in 1 .. Left : wire' = wire \o [i \in 1 .. n |-> Oldest]
  BY SendCompletesIs
<1>3. UNCHANGED <<pushed, torn>>
  BY DEF SendCompletes, queueVars
<1>4. /\ Oldest \in Nat /\ Oldest =< pushed /\ pushed \in Nat
      /\ Popped \in Nat /\ moved[Oldest] \in Nat
  BY <1>1, HeadIsOldest DEF Streamed, Types
<1>5. MsgSize \in Nat /\ MsgSize > 0
  BY BoundsAssumption
<1>6. /\ n \in 1 .. MsgSize /\ n =< MsgSize - moved[Oldest]
      /\ moved[Oldest] \in 0 .. (MsgSize - 1)
  BY ONLY <1>2, <1>4, <1>5 DEF Left
<1>7. Oldest = Popped + 1
  BY DEF Oldest
<1>8. /\ (MsgSize * Popped + moved[Oldest]) \div MsgSize = Popped
      /\ Oldest * MsgSize = MsgSize * Popped + MsgSize
  BY ONLY <1>4, <1>6, <1>7, UnitOfMessage
<1>9. Len(wire) = MsgSize * Popped + moved[Oldest]
  <2>1. MsgSize * Popped + moved[Oldest] + 0 = MsgSize * Popped + moved[Oldest]
    BY ONLY <1>4, <1>5
  <2> QED BY ONLY <1>1, <2>1 DEF Out
<1>10. MsgSize * Popped \in Nat
  BY ONLY <1>4, <1>5
<1>11. Stream!MessageOfUnit(Len(wire) + 1) = Oldest
  <2>1. (Len(wire) + 1) - 1 = Len(wire)
    BY ONLY <1>4, <1>6, <1>9, <1>10
  <2> QED BY ONLY <1>7, <1>8, <1>9, <2>1 DEF Stream!MessageOfUnit
<1>12. Len(wire) + n =< Oldest * MsgSize
  <2> DEFINE start == MsgSize * Popped
             end == Oldest * MsgSize
             part == moved[Oldest]
  <2>1. /\ Len(wire) = start + part /\ end = start + MsgSize /\ start \in Nat
        /\ n =< MsgSize - part /\ part \in Nat
    BY ONLY <1>4, <1>6, <1>8, <1>9, <1>10
  <2> HIDE DEF start, end, part
  <2>2. Len(wire) + n =< end
    BY ONLY <1>5, <1>6, <2>1
  <2> QED BY ONLY <2>2 DEF end
<1> QED BY ONLY <1>2, <1>3, <1>4, <1>6, <1>11, <1>12, torn = FALSE
        DEF Stream!Transmit

(* In a torn stream it transmits whatever the kernel sent.                 *)
LEMMA TornIsRefined ==
  ASSUME Types, torn, SendCompletes
  PROVE  Stream!TransmitTorn
<1>1. UNCHANGED <<pushed, torn>>
  BY DEF SendCompletes, queueVars
<1>2. inflight # <<>> /\ inflight \in Seq([msg : Messages, left : Lefts])
  BY DEF SendCompletes, Types
<1>3. Head(inflight).msg \in Messages
  <2>1. Head(inflight) \in [msg : Messages, left : Lefts]
    BY ONLY <1>2, FirstAndRest
  <2> QED BY ONLY <2>1
<1>4. PICK n \in 0 .. Head(inflight).left :
        wire' = wire \o [i \in 1 .. n |-> Head(inflight).msg]
  BY DEF SendCompletes
<1> DEFINE more == [i \in 1 .. n |-> Head(inflight).msg]
<1>5. n \in Nat /\ more \in Seq(Messages)
  BY ONLY <1>3, <1>4
<1>6. wire \in Seq(Messages) /\ wire' = wire \o more
  BY <1>4 DEF Types
<1> HIDE DEF more
<1>7. /\ Len(wire) \in Nat /\ Len(wire') = Len(wire) + Len(more)
      /\ Len(more) \in Nat
  BY ONLY <1>5, <1>6
<1>8. SubSeq(wire', 1, Len(wire)) = wire
  BY ONLY <1>5, <1>6
<1>9. Len(wire) =< Len(wire')
  BY ONLY <1>7
<1> QED BY ONLY <1>1, <1>8, <1>9, torn DEF Stream!TransmitTorn

(* Every step that changes the stream completes a send, and every one that *)
(* accepts a message pushes it.                                            *)
LEMMA StreamKept ==
  ASSUME Next, ~SendCompletes, \A t \in Threads : ~AddPush(t)
  PROVE  UNCHANGED <<pushed, wire>>
<1> USE DEF queueVars, kernelVars
<1>1. CASE Kernel \/ ConnectionLost
  BY <1>1 DEF Kernel, RecvCompletes, ConnectionLost
<1>2. ASSUME NEW t \in Threads, TakeCompletion(t) \/ Broadcast(t)
      PROVE  UNCHANGED <<pushed, wire>>
  BY <1>2 DEF TakeCompletion, Broadcast
<1>3. ASSUME NEW t \in Threads, AddStep(t) PROVE UNCHANGED <<pushed, wire>>
  BY <1>3
  DEF AddStep, AddDefers, AddClaims, AddReset, AddSends, AddSendFails
<1>4. ASSUME NEW t \in Threads, SendStep(t) PROVE UNCHANGED <<pushed, wire>>
  BY <1>4
  DEF SendStep, SendPartial, SendPartialFails, SendWhole,
      QueueIsEmpty, SendPop, SendDecrement, SendSet, SendNext, SendNextFails,
      SendGivesUp, Rearm, RecvPosted, RecvPostFails
<1>5. ASSUME NEW t \in Threads, RecvStep(t) PROVE UNCHANGED <<pushed, wire>>
  BY <1>5
  DEF RecvStep, RecvPartial, RecvPartialFails, RecvWhole, Answer, NoAnswer
<1>6. ASSUME NEW t \in Threads, EndStep(t) PROVE UNCHANGED <<pushed, wire>>
  BY <1>6
  DEF EndStep, EndSend, EndSendSet, EndRecv, CloseCheck, CloseWait, CloseFree
<1> QED BY <1>1, <1>2, <1>3, <1>4, <1>5, <1>6 DEF Next, Work

(* As long as nothing fails, what leaves the server is the stream          *)
(* ClientStream promises: whole messages, each once, in the order of       *)
(* acceptance, until a send stops inside the first body of a message       *)
(* (s_worker.c:205). (That all of them leave is liveness.)                 *)
THEOREM ImplementsStream == ASSUME Faultless PROVE Spec => Stream!Spec
<1>1. Init => Stream!Init
  BY DEF Init, Stream!Init
<1>2. IInv /\ [Next]_vars => [Stream!Next]_Stream!vars
  <2>1. SUFFICES ASSUME IInv, [Next]_vars
                 PROVE  [Stream!Next]_Stream!vars
    OBVIOUS
  <2>2. General /\ Types /\ Flags
    BY <2>1 DEF IInv, General
  <2>3. CASE UNCHANGED vars
    BY <2>3 DEF vars, queueVars, kernelVars, Stream!vars
  <2>4. CASE Next
    <3>1. ASSUME NEW t \in Threads, AddPush(t) PROVE Stream!Accept
      BY ONLY <2>2, <3>1, AcceptIsRefined
    <3>2. CASE SendCompletes /\ torn
      BY <2>2, <3>2, TornIsRefined DEF Stream!Next
    <3>3. CASE SendCompletes /\ ~torn
      <4>1. Calm /\ SendOnce /\ SetWhenNeeded /\ Streamed /\ torn = FALSE
        BY <2>1, <2>2, <3>3 DEF IInv, Sound, Flags
      <4> QED BY <2>2, <3>3, <4>1, TransmitIsRefined DEF Stream!Next
    <3>4. CASE ~SendCompletes /\ \A t \in Threads : ~AddPush(t)
      <4>1. UNCHANGED <<pushed, wire>>
        BY <2>4, <3>4, StreamKept
      <4>2. torn' = torn \/ torn' = TRUE
        <5>1. torn \in BOOLEAN /\ torn' \in BOOLEAN
          BY <2>1, <2>2, StepGeneral DEF General, Flags
        <5> QED BY <2>1, <5>1, TornStays
      <4> QED BY <4>1, <4>2 DEF Stream!Next, Stream!Tear, Stream!vars
    <3> QED BY <3>1, <3>2, <3>3, <3>4 DEF Stream!Next
  <2> QED BY <2>1, <2>3, <2>4
<1> QED BY <1>1, <1>2, StreamInvariant, PTL DEF Spec, Stream!Spec
=============================================================================
