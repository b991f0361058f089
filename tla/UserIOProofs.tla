---------------------------- MODULE UserIOProofs ----------------------------
(***************************************************************************)
(* UserIO for every number of threads and messages, and whatever fails:    *)
(* there is never a second receive into the receive buffer of the user,    *)
(* and one thread at most destroys the user.                               *)
(*                                                                         *)
(* Both follow from counting: the receives in the kernel, at the port and  *)
(* in the threads are at most m_plRecvOccuring, and the threads that       *)
(* destroy the user are at most DESTROYING. The threads at a place are a   *)
(* set whose cardinality a step changes by one (AtMoves), and so are the   *)
(* completions of a kind at the port (ArrivedAdd, ArrivedTake).            *)
(*                                                                         *)
(* The sends need a live connection: UserIOStreamProofs has them.          *)
(***************************************************************************)
EXTENDS UserIO, SequenceTheorems, FiniteSetTheorems, TLAPS

(* How a condition counts in a sum.                                        *)
Bit(b) == IF b THEN 1 ELSE 0

(* How many threads there are at the places that matter, and how many      *)
(* completions of a kind wait at the port.                                 *)
Sending == Cardinality(At(SendersAt))
Receiving == Cardinality(At({"r_parse", "s_recv"}))
Closing == Cardinality(At({"x_check", "x_wait", "x_free"}))
Handling == Cardinality(At({"handle"}))
Locking == Cardinality(At({"a_lock"}))
Arrived(op) == Cardinality(Waiting(op))

(* What may be left of a send: fewer units than none when the completion   *)
(* of one message is booked on another, after a failed or a torn send. And *)
(* what waits at the port.                                                 *)
Lefts == {n \in Int : n =< MsgSize}
Ports == [op : {"send", "recv"}, msg : Messages \cup {0}, bytes : 0 .. MsgSize]

(* TypeOK, split in two and wider where only a live connection keeps the   *)
(* range.                                                                  *)
Flags ==
  /\ sendDone \in BOOLEAN /\ destroying \in BOOLEAN /\ closed \in BOOLEAN
  /\ stopped \in BOOLEAN /\ up \in BOOLEAN /\ torn \in BOOLEAN
Types ==
  /\ pc \in [Threads -> Locations]
  /\ job \in [Threads -> Jobs]
  /\ answers \in [Threads -> 0 .. 1]
  /\ mutex \in Threads \cup {NoThread}
  /\ queue \in Seq(Messages)
  /\ pushed \in Nat
  /\ moved \in [Messages -> Nat]
  /\ sendOccuring \in Int
  /\ recvOccuring \in {0, 1}
  /\ recvMoved \in 0 .. (MsgSize - 1)
  /\ inflight \in Seq([msg : Messages, left : Lefts])
  /\ recvs \in Nat
  /\ completions \in Seq(Ports)
  /\ wire \in Seq(Messages)
  /\ requests \in Nat /\ broadcasts \in Nat
  /\ faults \in 0 .. MaxSyncFaults

(* Where a thread owns SEND_MUTEX; it goes on to the next message only if  *)
(* there is one.                                                           *)
MutexAt == {"a_compare", "a_reset", "s_decrement", "s_set", "s_next"}
MutexHeld ==
  \A t \in Threads :
    /\ pc[t] \in MutexAt => mutex = t
    /\ pc[t] = "s_next" => queue # <<>>

(* A thread owes messages only while it adds one, and adds one that it     *)
(* pushed.                                                                 *)
Placed ==
  \A t \in Threads :
    /\ answers[t] # 0 => pc[t] \in AddLocations
    /\ pc[t] \in {"a_compare", "a_reset", "a_send"} => job[t].msg \in Messages

(* The threads that have another message to add, and whether a whole       *)
(* packet has arrived that no thread has taken out of the buffer yet.      *)
Owing == {t \in Threads : answers[t] = 1}
WholeArrived ==
  \/ \E i \in 1 .. Len(completions) :
       /\ completions[i].op = "recv"
       /\ recvMoved + completions[i].bytes >= MsgSize
  \/ \E t \in Threads : pc[t] = "r_parse" /\ recvMoved + job[t].bytes >= MsgSize
Due == Bit(WholeArrived)
Owed == Cardinality(Owing)

(* The messages pushed and all that may still come: a broadcast is one     *)
(* message, and a packet that has still to arrive, has arrived or is       *)
(* handled may become two. With Budget the number of a pushed message is   *)
(* one of Messages, which TypeOK and every message's m_dwBytesMovedTotal   *)
(* need.                                                                   *)
Ledger ==
  pushed + broadcasts + 2 * requests + 2 * Due + 2 * Handling + Locking + Owed
Budget == Ledger =< MaxMessages

(* The receives in the kernel, at the port and in the threads are at most  *)
(* m_plRecvOccuring, and the threads that destroy the user are at most its *)
(* DESTROYING flag.                                                        *)
ReceiveOnce == recvs + Arrived("recv") + Receiving =< recvOccuring
CloseOnce == Closing =< Bit(destroying)

(* What holds whatever fails.                                              *)
General ==
  Types /\ Flags /\ MutexHeld /\ Placed /\ Budget /\ ReceiveOnce /\ CloseOnce

(* The steps of a worker at the port, and those of no thread.              *)
PortStep(t) == TakeCompletion(t) \/ Broadcast(t)
OutStep == SendCompletes \/ RecvCompletes \/ ConnectionLost

(* The threads at a place can be counted.                                  *)
LEMMA AtFinite ==
  ASSUME NEW S
  PROVE  IsFiniteSet(At(S)) /\ Cardinality(At(S)) \in Nat
<1>1. At(S) \in SUBSET Threads
  BY DEF At
<1>2. IsFiniteSet(At(S))
  BY <1>1, ThreadsAssumption, FS_Subset
<1> QED BY <1>2, FS_CardinalityType

(* A step of one thread changes the number of threads at a set of places   *)
(* by the thread's leaving and entering.                                   *)
LEMMA AtMoves ==
  ASSUME pc \in [Threads -> Locations], NEW t \in Threads, NEW l, Goto(t, l),
         NEW S
  PROVE  Cardinality(At(S))' = Cardinality(At(S)) + Bit(l \in S) - Bit(pc[t] \in S)
<1>1. pc' = [pc EXCEPT ![t] = l]
  BY DEF Goto
<1>2. IsFiniteSet(At(S)) /\ Cardinality(At(S)) \in Nat
  BY AtFinite
<1>3. \A u \in Threads : pc'[u] = IF u = t THEN l ELSE pc[u]
  BY <1>1
<1>4. /\ At(S)' = {u \in Threads : pc'[u] \in S}
      /\ At(S) = {u \in Threads : pc[u] \in S}
  BY DEF At
<1>5. CASE l \in S
  <2>1. At(S)' = At(S) \cup {t}
    BY <1>3, <1>4, <1>5
  <2>2. t \in At(S) <=> pc[t] \in S
    BY <1>4
  <2>3. Cardinality(At(S) \cup {t})
          = IF t \in At(S) THEN Cardinality(At(S)) ELSE Cardinality(At(S)) + 1
    BY ONLY <1>2, FS_AddElement
  <2>4. Cardinality(At(S))' = Cardinality(At(S) \cup {t})
    BY ONLY <2>1
  <2> QED BY ONLY <1>2, <1>5, <2>2, <2>3, <2>4 DEF Bit
<1>6. CASE l \notin S
  <2>1. At(S)' = At(S) \ {t}
    BY <1>3, <1>4, <1>6
  <2>2. t \in At(S) <=> pc[t] \in S
    BY <1>4
  <2>3. Cardinality(At(S) \ {t})
          = IF t \in At(S) THEN Cardinality(At(S)) - 1 ELSE Cardinality(At(S))
    BY ONLY <1>2, FS_RemoveElement
  <2>4. Cardinality(At(S))' = Cardinality(At(S) \ {t})
    BY ONLY <2>1
  <2> QED BY ONLY <1>2, <1>6, <2>2, <2>3, <2>4 DEF Bit
<1> QED BY <1>5, <1>6

(* The same for the places that matter.                                    *)
LEMMA Counts ==
  ASSUME pc \in [Threads -> Locations], NEW t \in Threads, NEW l, Goto(t, l)
  PROVE  /\ Sending' = Sending + Bit(l \in SendersAt) - Bit(pc[t] \in SendersAt)
         /\ Receiving' = Receiving + Bit(l \in {"r_parse", "s_recv"})
                           - Bit(pc[t] \in {"r_parse", "s_recv"})
         /\ Closing' = Closing + Bit(l \in {"x_check", "x_wait", "x_free"})
                         - Bit(pc[t] \in {"x_check", "x_wait", "x_free"})
         /\ Handling' = Handling + Bit(l = "handle") - Bit(pc[t] = "handle")
         /\ Locking' = Locking + Bit(l = "a_lock") - Bit(pc[t] = "a_lock")
<1>1. Sending' = Sending + Bit(l \in SendersAt) - Bit(pc[t] \in SendersAt)
  BY AtMoves DEF Sending
<1>2. Receiving' = Receiving + Bit(l \in {"r_parse", "s_recv"})
                     - Bit(pc[t] \in {"r_parse", "s_recv"})
  BY AtMoves DEF Receiving
<1>3. Closing' = Closing + Bit(l \in {"x_check", "x_wait", "x_free"})
                   - Bit(pc[t] \in {"x_check", "x_wait", "x_free"})
  BY AtMoves DEF Closing
<1>4. Handling' = Handling + Bit(l = "handle") - Bit(pc[t] = "handle")
  <2>1. Handling' = Handling + Bit(l \in {"handle"}) - Bit(pc[t] \in {"handle"})
    BY AtMoves DEF Handling
  <2> QED BY <2>1 DEF Bit
<1>5. Locking' = Locking + Bit(l = "a_lock") - Bit(pc[t] = "a_lock")
  <2>1. Locking' = Locking + Bit(l \in {"a_lock"}) - Bit(pc[t] \in {"a_lock"})
    BY AtMoves DEF Locking
  <2> QED BY <2>1 DEF Bit
<1> QED BY <1>1, <1>2, <1>3, <1>4, <1>5

(* A step that moves no thread changes none of the counts.                 *)
LEMMA CountsSame ==
  ASSUME pc' = pc
  PROVE  /\ Sending' = Sending /\ Receiving' = Receiving /\ Closing' = Closing
         /\ Handling' = Handling /\ Locking' = Locking
<1>1. \A S : At(S)' = At(S)
  BY DEF At
<1> QED BY <1>1 DEF Sending, Receiving, Closing, Handling, Locking

(* The counts are numbers.                                                 *)
LEMMA CountsAreNat ==
  /\ Sending \in Nat /\ Receiving \in Nat /\ Closing \in Nat
  /\ Handling \in Nat /\ Locking \in Nat
BY AtFinite DEF Sending, Receiving, Closing, Handling, Locking

(* So are the completions of a kind.                                       *)
LEMMA WaitingFinite ==
  ASSUME completions \in Seq(Ports), NEW op
  PROVE  IsFiniteSet(Waiting(op)) /\ Arrived(op) \in Nat
<1>1. /\ Waiting(op) \in SUBSET (1 .. Len(completions))
      /\ Len(completions) \in Int
  BY DEF Waiting
<1>2. IsFiniteSet(Waiting(op))
  BY <1>1, FS_Interval, FS_Subset
<1> QED BY <1>2, FS_CardinalityType DEF Arrived

(* A completion that arrives is one more of its kind.                      *)
LEMMA ArrivedAdd ==
  ASSUME completions \in Seq(Ports), NEW c \in Ports,
         completions' = Append(completions, c), NEW op
  PROVE  Arrived(op)' = Arrived(op) + Bit(c.op = op)
<1> DEFINE n == Len(completions)
<1>1. /\ n \in Nat /\ DOMAIN completions = 1 .. n
      /\ DOMAIN completions' = 1 .. n + 1
      /\ completions'[n + 1] = c /\ \A i \in 1 .. n : completions'[i] = completions[i]
  OBVIOUS
<1>2. /\ Waiting(op) = {i \in 1 .. n : completions[i].op = op}
      /\ Waiting(op)' = {i \in 1 .. n + 1 : completions'[i].op = op}
  BY <1>1 DEF Waiting
<1>3. IsFiniteSet(Waiting(op)) /\ Arrived(op) \in Nat
  BY WaitingFinite
<1>4. n + 1 \notin Waiting(op)
  BY <1>1, <1>2
<1>5. \A i : i \in 1 .. n + 1 <=> i \in 1 .. n \/ i = n + 1
  BY <1>1
<1> HIDE DEF n
<1>6. CASE c.op = op
  <2>1. Waiting(op)' = Waiting(op) \cup {n + 1}
    BY ONLY <1>1, <1>2, <1>5, <1>6
  <2>2. Cardinality(Waiting(op) \cup {n + 1}) = Cardinality(Waiting(op)) + 1
    BY ONLY <1>3, <1>4, FS_AddElement
  <2> QED BY ONLY <1>6, <2>1, <2>2 DEF Arrived, Bit
<1>7. CASE c.op # op
  <2>1. Waiting(op)' = Waiting(op)
    BY ONLY <1>1, <1>2, <1>5, <1>7
  <2> QED BY ONLY <1>3, <1>7, <2>1 DEF Arrived, Bit
<1> QED BY <1>6, <1>7

(* A completion that is taken is one less of its kind: those behind it     *)
(* move up by one.                                                         *)
LEMMA ArrivedTake ==
  ASSUME completions \in Seq(Ports), completions # <<>>,
         completions' = Tail(completions), NEW op
  PROVE  Arrived(op)' = Arrived(op) - Bit(Head(completions).op = op)
<1> DEFINE n == Len(completions)
           A == Waiting(op) \ {1}
           B == Waiting(op)'
           f == [i \in A |-> i - 1]
<1>1. /\ n \in Nat \ {0} /\ DOMAIN completions = 1 .. n
      /\ DOMAIN completions' = 1 .. n - 1 /\ Head(completions) = completions[1]
      /\ \A i \in 1 .. n - 1 : completions'[i] = completions[i + 1]
  OBVIOUS
<1>2. /\ Waiting(op) = {i \in 1 .. n : completions[i].op = op}
      /\ B = {i \in 1 .. n - 1 : completions'[i].op = op}
  BY <1>1 DEF Waiting
<1>3. IsFiniteSet(Waiting(op)) /\ Arrived(op) \in Nat
  BY WaitingFinite
<1>4. /\ IsFiniteSet(A)
      /\ Cardinality(A) = IF 1 \in Waiting(op) THEN Cardinality(Waiting(op)) - 1
                          ELSE Cardinality(Waiting(op))
  BY ONLY <1>3, FS_RemoveElement
<1>5. 1 \in Waiting(op) <=> Head(completions).op = op
  BY <1>1, <1>2
<1>6. \A i : i \in A <=> i \in 2 .. n /\ completions[i].op = op
  BY <1>1, <1>2
<1> HIDE DEF n, A, B
<1>7. f \in Bijection(A, B)
  <2>1. ASSUME NEW i \in A PROVE i - 1 \in B
    <3>1. i - 1 \in 1 .. n - 1 /\ (i - 1) + 1 = i
      BY <1>1, <1>6
    <3> QED BY <1>1, <1>2, <1>6, <3>1
  <2>2. ASSUME NEW i \in A, NEW j \in A, i - 1 = j - 1 PROVE i = j
    BY <1>6, <2>2
  <2>3. ASSUME NEW j \in B PROVE \E i \in A : i - 1 = j
    <3>1. j + 1 \in 2 .. n /\ (j + 1) - 1 = j /\ completions[j + 1].op = op
      BY <1>1, <1>2
    <3> QED BY <1>6, <3>1
  <2>4. f \in [A -> B] /\ \A i \in A : f[i] = i - 1
    BY <2>1
  <2> HIDE DEF f
  <2>5. f \in Injection(A, B)
    BY <2>2, <2>4 DEF Injection, IsInjective
  <2>6. f \in Surjection(A, B)
    BY <2>3, <2>4 DEF Surjection
  <2> QED BY <2>5, <2>6 DEF Bijection
<1>8. Cardinality(B) = Cardinality(A)
  <2>1. ExistsBijection(A, B)
    BY <1>7 DEF ExistsBijection
  <2> QED BY ONLY <1>4, <2>1, FS_Bijection
<1>9. Arrived(op)' = Cardinality(B)
  BY DEF Arrived, B
<1> QED BY ONLY <1>3, <1>4, <1>5, <1>8, <1>9 DEF Bit, Arrived

(* The others change no number.                                            *)
LEMMA ArrivedSame ==
  ASSUME completions' = completions, NEW op
  PROVE  Arrived(op)' = Arrived(op)
BY DEF Arrived, Waiting

(* There is a number for the message of a thread that is about to push     *)
(* one.                                                                    *)
Fits(t) == pc[t] = "a_lock" => pushed + 1 \in Messages

(* What is asked for of a message: all of it at first, then some units or, *)
(* where another message was booked on it, less than none.                 *)
LEMMA RestTypes ==
  /\ Rest(0) = MsgSize
  /\ \A units \in Nat : Rest(units) \in Lefts
BY BoundsAssumption DEF Rest, InFirstBody, Lefts

(* Head and Tail of a sequence over S.                                     *)
LEMMA FirstAndRest ==
  ASSUME NEW S, NEW s \in Seq(S), s # <<>>
  PROVE  Head(s) \in S /\ Tail(s) \in Seq(S)
OBVIOUS

(* ManageMsgQueueAdd returns to a handler that adds its next message or    *)
(* has no more.                                                            *)
LEMMA AddReturnsTypes ==
  ASSUME Types, NEW t \in Threads, AddReturns(t)
  PROVE  /\ pc' \in [Threads -> Locations] /\ answers' \in [Threads -> 0 .. 1]
         /\ \E l \in {"a_lock", "idle"} : Goto(t, l)
         /\ pc'[t] = "idle" => answers'[t] = 0
         /\ \A u \in Threads : u # t => answers'[u] = answers[u]
<1>1. pc \in [Threads -> Locations] /\ answers \in [Threads -> 0 .. 1]
  BY DEF Types
<1>2. "a_lock" \in Locations /\ "idle" \in Locations
  BY DEF Locations, AddLocations
<1>3. CASE /\ answers[t] > 0 /\ Goto(t, "a_lock")
           /\ answers' = [answers EXCEPT ![t] = @ - 1]
  <2>1. answers[t] \in 0 .. 1
    BY ONLY <1>1
  <2>2. answers[t] - 1 \in 0 .. 1
    BY ONLY <1>3, <2>1
  <2>3. answers' = [answers EXCEPT ![t] = answers[t] - 1]
    BY ONLY <1>3
  <2> QED BY ONLY <1>1, <1>2, <1>3, <2>2, <2>3 DEF Goto
<1>4. CASE ~(answers[t] > 0) /\ Goto(t, "idle") /\ answers' = answers
  <2>1. answers[t] \in 0 .. 1
    BY ONLY <1>1
  <2>2. answers[t] = 0
    BY ONLY <1>4, <2>1
  <2> QED BY ONLY <1>1, <1>2, <1>4, <2>2 DEF Goto
<1> QED BY ONLY AddReturns(t), <1>3, <1>4 DEF AddReturns

(* A message that is added is a job.                                       *)
LEMMA AJob ==
  ASSUME NEW m \in Messages
  PROVE  [op |-> "add", msg |-> m, bytes |-> 0] \in Jobs
<1>1. 0 \in 0 .. MsgSize
  BY BoundsAssumption
<1> QED BY <1>1 DEF Jobs

(* A step away from the receive buffer keeps ReceiveOnce.                  *)
LEMMA QuietReceive ==
  ASSUME Types, ReceiveOnce, NEW t \in Threads, NEW l, Goto(t, l),
         pc[t] \notin {"r_parse", "s_recv"}, l \notin {"r_parse", "s_recv"},
         UNCHANGED <<recvs, completions, recvOccuring>>
  PROVE  ReceiveOnce'
<1>1. pc \in [Threads -> Locations] /\ recvs \in Nat /\ recvOccuring \in {0, 1}
  BY DEF Types
<1>2. Receiving' = Receiving
  <2>1. Receiving' = Receiving + Bit(l \in {"r_parse", "s_recv"})
                     - Bit(pc[t] \in {"r_parse", "s_recv"})
    BY <1>1, Counts
  <2> QED BY <2>1, CountsAreNat DEF Bit
<1>3. Arrived("recv")' = Arrived("recv")
  BY ArrivedSame
<1> QED BY ONLY <1>1, <1>2, <1>3, ReceiveOnce,
                UNCHANGED <<recvs, completions, recvOccuring>>
           DEF ReceiveOnce

(* A step away from the destruction keeps CloseOnce.                       *)
LEMMA QuietClose ==
  ASSUME Types, CloseOnce, NEW t \in Threads, NEW l, Goto(t, l),
         pc[t] \notin {"x_check", "x_wait", "x_free"},
         l \notin {"x_check", "x_wait", "x_free"},
         destroying' = destroying
  PROVE  CloseOnce'
<1>1. pc \in [Threads -> Locations]
  BY DEF Types
<1>2. Closing' = Closing
  <2>1. Closing' = Closing + Bit(l \in {"x_check", "x_wait", "x_free"})
                   - Bit(pc[t] \in {"x_check", "x_wait", "x_free"})
    BY <1>1, Counts
  <2> QED BY <2>1, CountsAreNat DEF Bit
<1>3. Bit(destroying)' = Bit(destroying)
  BY DEF Bit
<1> QED BY ONLY <1>2, <1>3, CloseOnce DEF CloseOnce

(* A send that completes reports units of its message.                     *)
LEMMA SendCompletesFits ==
  ASSUME Types, SendCompletes
  PROVE  /\ \E c \in Ports : c.op = "send" /\ completions' = Append(completions, c)
         /\ inflight' \in Seq([msg : Messages, left : Lefts])
         /\ wire' \in Seq(Messages)
<1>1. /\ inflight \in Seq([msg : Messages, left : Lefts]) /\ inflight # <<>>
      /\ wire \in Seq(Messages)
      /\ inflight' = Tail(inflight)
  BY DEF Types, SendCompletes
<1>2. Head(inflight).msg \in Messages /\ Head(inflight).left \in Lefts
  <2>1. Head(inflight) \in [msg : Messages, left : Lefts]
    BY ONLY <1>1, FirstAndRest
  <2> QED BY ONLY <2>1
<1>3. PICK n \in 0 .. Head(inflight).left :
        /\ wire' = wire \o [i \in 1 .. n |-> Head(inflight).msg]
        /\ completions' = Append(completions,
             [op |-> "send", msg |-> Head(inflight).msg, bytes |-> n])
  BY DEF SendCompletes
<1>4. n \in 0 .. MsgSize
  BY ONLY <1>2, <1>3, BoundsAssumption DEF Lefts
<1>5. [op |-> "send", msg |-> Head(inflight).msg, bytes |-> n] \in Ports
  BY ONLY <1>2, <1>4 DEF Ports
<1>6. [i \in 1 .. n |-> Head(inflight).msg] \in Seq(Messages)
  BY ONLY <1>2, <1>4
<1> QED BY ONLY <1>1, <1>3, <1>5, <1>6

(* A receive that completes reports units that fit the buffer.             *)
LEMMA RecvCompletesFits ==
  ASSUME Types, RecvCompletes
  PROVE  /\ \E c \in Ports : c.op = "recv" /\ completions' = Append(completions, c)
         /\ requests' \in Nat /\ recvs' \in Nat
<1>1. /\ recvMoved \in 0 .. (MsgSize - 1) /\ requests \in Nat /\ recvs \in Nat
      /\ recvs > 0 /\ recvs' = recvs - 1
  BY DEF Types, RecvCompletes
<1>2. PICK n \in 0 .. (MsgSize - recvMoved) :
        /\ IF n = 0 THEN ~up ELSE requests > 0
        /\ completions' = Append(completions, [op |-> "recv", msg |-> 0, bytes |-> n])
        /\ requests' = IF n = MsgSize - recvMoved THEN requests - 1 ELSE requests
  BY DEF RecvCompletes
<1>3. n \in 0 .. MsgSize /\ (n = MsgSize - recvMoved => n # 0)
  BY ONLY <1>1, <1>2, BoundsAssumption
<1>4. [op |-> "recv", msg |-> 0, bytes |-> n] \in Ports
  BY ONLY <1>3 DEF Ports
<1>5. requests' \in Nat
  BY ONLY <1>1, <1>2, <1>3
<1> QED BY ONLY <1>1, <1>2, <1>4, <1>5

(* A failed send is counted up to the bound.                               *)
LEMMA CountsFaults ==
  ASSUME Types, SendCanFail, CountFault
  PROVE  faults' \in 0 .. MaxSyncFaults
<1>1. faults \in 0 .. MaxSyncFaults /\ MaxSyncFaults \in Nat
  BY BoundsAssumption DEF Types
<1>2. CASE up
  <2>1. faults < MaxSyncFaults /\ faults' = faults + 1
    BY <1>2 DEF SendCanFail, CountFault
  <2> QED BY ONLY <1>1, <2>1
<1>3. CASE ~up
  <2>1. faults' = faults
    BY <1>3 DEF CountFault
  <2> QED BY ONLY <1>1, <2>1
<1> QED BY <1>2, <1>3

(* Where the worker goes with a completion (WorkerThread).                 *)
LEMMA TakeGoes ==
  ASSUME Types, NEW t \in Threads, TakeCompletion(t)
  PROVE  LET c == Head(completions)
         IN  /\ \/ c.op = "recv" /\ c.bytes > 0 /\ Goto(t, "r_parse")
                \/ c.op = "recv" /\ c.bytes = 0 /\ Goto(t, "x_recv")
                \/ c.op = "send" /\ c.bytes > 0 /\ Goto(t, "s_peek")
                \/ c.op = "send" /\ c.bytes = 0 /\ Goto(t, "x_send")
             /\ \E l \in {"r_parse", "x_recv", "s_peek", "x_send"} : Goto(t, l)
<1>1. completions # <<>> /\ completions \in Seq(Ports)
  BY DEF TakeCompletion, Types
<1>2. Head(completions) \in Ports
  BY ONLY <1>1
<1>3. /\ Head(completions).op \in {"send", "recv"}
      /\ Head(completions).bytes = 0 \/ Head(completions).bytes > 0
  BY ONLY <1>2, BoundsAssumption DEF Ports
<1> QED BY <1>3 DEF TakeCompletion

(* The threads that owe a message can be counted.                          *)
LEMMA OwedIsNat ==
  IsFiniteSet(Owing) /\ Owed \in Nat
<1>1. Owing \in SUBSET Threads
  BY DEF Owing
<1> QED BY <1>1, ThreadsAssumption, FS_Subset, FS_CardinalityType DEF Owed

(* Nobody's debt changes when answers stays.                               *)
LEMMA OwedSame ==
  ASSUME answers' = answers
  PROVE  Owed' = Owed
BY DEF Owed, Owing

(* How the number of debtors changes with one thread's debt.               *)
LEMMA OwedCounts ==
  ASSUME answers \in [Threads -> 0 .. 1], NEW t \in Threads, NEW v \in 0 .. 1,
         answers' = [answers EXCEPT ![t] = v]
  PROVE  Owed' = Owed + Bit(v = 1) - Bit(answers[t] = 1)
<1>1. IsFiniteSet(Owing) /\ Owed \in Nat
  BY OwedIsNat
<1>2. \A u \in Threads : answers'[u] = IF u = t THEN v ELSE answers[u]
  OBVIOUS
<1>3. /\ Owing' = {u \in Threads : answers'[u] = 1}
      /\ Owing = {u \in Threads : answers[u] = 1}
  BY DEF Owing
<1>4. t \in Owing <=> answers[t] = 1
  BY <1>3
<1>5. CASE v = 1
  <2>1. Owing' = Owing \cup {t}
    BY ONLY <1>2, <1>3, <1>5, t \in Threads
  <2>2. Cardinality(Owing \cup {t})
          = IF t \in Owing THEN Cardinality(Owing) ELSE Cardinality(Owing) + 1
    BY ONLY <1>1, FS_AddElement
  <2>3. Owed' = Cardinality(Owing \cup {t})
    BY ONLY <2>1 DEF Owed
  <2> QED BY ONLY <1>1, <1>4, <1>5, <2>2, <2>3 DEF Bit, Owed
<1>6. CASE v # 1
  <2>1. Owing' = Owing \ {t}
    BY ONLY <1>2, <1>3, <1>6, t \in Threads
  <2>2. Cardinality(Owing \ {t})
          = IF t \in Owing THEN Cardinality(Owing) - 1 ELSE Cardinality(Owing)
    BY ONLY <1>1, FS_RemoveElement
  <2>3. Owed' = Cardinality(Owing \ {t})
    BY ONLY <2>1 DEF Owed
  <2> QED BY ONLY <1>1, <1>4, <1>6, <2>2, <2>3 DEF Bit, Owed
<1> QED BY <1>5, <1>6

(* A packet that has arrived is one or none.                               *)
LEMMA DueFalls ==
  /\ Due \in Nat /\ Due =< 1 /\ Due' \in Nat /\ Due' =< 1
  /\ (WholeArrived' => WholeArrived) => Due' =< Due
  /\ ~WholeArrived' => Due' = 0
  /\ WholeArrived => Due = 1
BY DEF Due, Bit

(* A step that brings no thread a packet completes none.                   *)
LEMMA QuietWhole ==
  ASSUME Types, NEW t \in Threads, NEW l, Goto(t, l), l # "r_parse",
         UNCHANGED <<completions, recvMoved>>,
         \A u \in Threads : u # t => job'[u] = job[u]
  PROVE  WholeArrived' => WholeArrived
<1>1. pc' = [pc EXCEPT ![t] = l] /\ pc \in [Threads -> Locations]
  BY DEF Goto, Types
<1>2. \A u \in Threads : pc'[u] = "r_parse" => pc[u] = "r_parse" /\ job'[u] = job[u]
  BY ONLY <1>1, l # "r_parse", \A u \in Threads : u # t => job'[u] = job[u]
<1> QED BY ONLY <1>2,
                UNCHANGED <<completions, recvMoved>>
           DEF WholeArrived

(* The entries of the ledger are numbers, before and after a step.         *)
LEMMA LedgerIsNat ==
  ASSUME Types
  PROVE  /\ pushed \in Nat /\ broadcasts \in Nat /\ requests \in Nat
         /\ Owed \in Nat /\ Due \in Nat /\ Due =< 1 /\ Due' \in Nat
         /\ Due' =< 1
         /\ Handling \in Nat /\ Locking \in Nat /\ MaxMessages \in Nat
         /\ Owed' \in Nat /\ Handling' \in Nat /\ Locking' \in Nat
<1>1. \A S : S \in SUBSET Threads => Cardinality(S) \in Nat
  BY ThreadsAssumption, FS_Subset, FS_CardinalityType
<1>2. Owing' \in SUBSET Threads /\ \A S : At(S)' \in SUBSET Threads
  BY DEF Owing, At
<1>3. Owed' \in Nat /\ Handling' \in Nat /\ Locking' \in Nat
  BY <1>1, <1>2 DEF Owed, Handling, Locking
<1>4. /\ pushed \in Nat /\ broadcasts \in Nat /\ requests \in Nat
      /\ MaxMessages \in Nat
  BY BoundsAssumption DEF Types
<1>5. Due \in Nat /\ Due =< 1 /\ Due' \in Nat /\ Due' =< 1
  BY DueFalls
<1> QED BY <1>3, <1>4, <1>5, OwedIsNat, CountsAreNat

(* A step that does not raise the ledger keeps it within the budget.       *)
LEMMA LedgerKept ==
  ASSUME Types, Budget,
         pushed' \in Nat, broadcasts' \in Nat, requests' \in Nat,
         Ledger' =< Ledger
  PROVE  Budget'
BY LedgerIsNat DEF Budget, Ledger

(* A step of a thread that neither handles a packet nor adds a message     *)
(* keeps the budget.                                                       *)
LEMMA QuietBudget ==
  ASSUME Types, Budget, NEW t \in Threads, NEW l, Goto(t, l),
         pc[t] \notin {"handle", "a_lock"}, l \notin {"handle", "a_lock"},
         WholeArrived' => WholeArrived,
         UNCHANGED <<pushed, broadcasts, requests, answers>>
  PROVE  Budget'
<1>1. pc \in [Threads -> Locations]
  BY DEF Types
<1>2. Handling' = Handling + 0 - 0 /\ Locking' = Locking + 0 - 0
  BY ONLY <1>1, Counts, Goto(t, l), t \in Threads,
          pc[t] \notin {"handle", "a_lock"}, l \notin {"handle", "a_lock"}
  DEF Bit
<1>3. Owed' = Owed /\ Due' =< Due
  BY OwedSame, DueFalls
<1>4. pushed' \in Nat /\ broadcasts' \in Nat /\ requests' \in Nat
  BY LedgerIsNat
<1>5. Ledger' =< Ledger
  BY ONLY <1>2, <1>3, Types, LedgerIsNat,
          UNCHANGED <<pushed, broadcasts, requests, answers>>
     DEF Ledger
<1> QED BY ONLY Types, Budget, <1>4, <1>5, LedgerKept

(* So does a step that moves no thread.                                    *)
LEMMA StillBudget ==
  ASSUME Types, Budget, pc' = pc, WholeArrived' => WholeArrived,
         UNCHANGED <<pushed, broadcasts, requests, answers>>
  PROVE  Budget'
<1>1. Handling' = Handling /\ Locking' = Locking
  BY CountsSame
<1>2. Owed' = Owed /\ Due' =< Due
  BY OwedSame, DueFalls
<1>3. pushed' \in Nat /\ broadcasts' \in Nat /\ requests' \in Nat
  BY LedgerIsNat
<1>4. Ledger' =< Ledger
  BY ONLY <1>1, <1>2, Types, LedgerIsNat,
          UNCHANGED <<pushed, broadcasts, requests, answers>>
     DEF Ledger
<1> QED BY ONLY Types, Budget, <1>3, <1>4, LedgerKept

(* While a thread parses what was received there is no other receive:      *)
(* neither at the port nor in another thread.                              *)
LEMMA ReaderIsAlone ==
  ASSUME Types, ReceiveOnce, NEW t \in Threads, pc[t] = "r_parse"
  PROVE  /\ \A i \in 1 .. Len(completions) : completions[i].op # "recv"
         /\ \A u \in Threads : u # t => pc[u] # "r_parse"
<1>1. completions \in Seq(Ports) /\ recvs \in Nat /\ recvOccuring \in {0, 1}
  BY DEF Types
<1>2. t \in At({"r_parse", "s_recv"})
  BY DEF At
<1>3. IsFiniteSet(At({"r_parse", "s_recv"})) /\ Receiving \in Nat
  BY AtFinite DEF Receiving
<1>4. IsFiniteSet(Waiting("recv")) /\ Arrived("recv") \in Nat
  BY <1>1, WaitingFinite
<1>5. Receiving # 0
  BY ONLY <1>2, <1>3, FS_EmptySet DEF Receiving
<1>6. Receiving = 1 /\ Arrived("recv") = 0
  BY ONLY <1>1, <1>3, <1>4, <1>5, ReceiveOnce DEF ReceiveOnce
<1>7. Waiting("recv") = {}
  BY ONLY <1>4, <1>6, FS_EmptySet DEF Arrived
<1>8. \E x : At({"r_parse", "s_recv"}) = {x}
  BY ONLY <1>3, <1>6, FS_Singleton DEF Receiving
<1>9. \A u \in Threads : u # t => pc[u] # "r_parse"
  BY <1>2, <1>8 DEF At
<1>10. \A i \in 1 .. Len(completions) : completions[i].op # "recv"
  BY <1>1, <1>7 DEF Waiting
<1> QED BY <1>9, <1>10

(* When it leaves the buffer, no packet is waiting in it.                  *)
LEMMA ReaderLeaves ==
  ASSUME Types, ReceiveOnce, NEW t \in Threads, pc[t] = "r_parse",
         NEW l, Goto(t, l), l # "r_parse", completions' = completions
  PROVE  ~WholeArrived'
<1>1. /\ \A i \in 1 .. Len(completions) : completions[i].op # "recv"
      /\ \A u \in Threads : u # t => pc[u] # "r_parse"
  BY ReaderIsAlone
<1>2. pc' = [pc EXCEPT ![t] = l] /\ pc \in [Threads -> Locations]
  BY DEF Goto, Types
<1>3. \A u \in Threads : pc'[u] # "r_parse"
  BY ONLY <1>1, <1>2, l # "r_parse"
<1> QED BY ONLY <1>1, <1>3, completions' = completions DEF WholeArrived

(* A message that a handler still owed becomes the one it adds next.       *)
LEMMA AddReturnsLedger ==
  ASSUME Types, NEW t \in Threads, AddReturns(t), pc[t] \notin {"a_lock",
         "handle"}
  PROVE  /\ Locking' + Owed' =< Locking + Owed
         /\ Handling' = Handling /\ Locking' \in Nat /\ Owed' \in Nat
<1>1. pc \in [Threads -> Locations] /\ answers \in [Threads -> 0 .. 1]
  BY DEF Types
<1>2. Owed \in Nat /\ Locking \in Nat /\ Handling \in Nat
  BY OwedIsNat, CountsAreNat
<1>3. CASE /\ answers[t] > 0 /\ Goto(t, "a_lock")
           /\ answers' = [answers EXCEPT ![t] = @ - 1]
  <2>1. answers[t] = 1
    BY ONLY <1>1, <1>3
  <2>2. answers' = [answers EXCEPT ![t] = 0]
    BY ONLY <1>3, <2>1
  <2>3. Owed' = Owed + 0 - 1
    <3>1. 0 \in 0 .. 1
      OBVIOUS
    <3>2. Owed' = Owed + Bit(0 = 1) - Bit(answers[t] = 1)
      BY ONLY <1>1, <2>2, <3>1, OwedCounts, t \in Threads
    <3> QED BY <2>1, <3>2 DEF Bit
  <2>4. Locking' = Locking + 1 - 0 /\ Handling' = Handling + 0 - 0
    BY ONLY <1>1, <1>3, Counts, t \in Threads,
            pc[t] \notin {"a_lock", "handle"}
    DEF Bit
  <2>5. Owing # {}
    BY <2>1 DEF Owing
  <2>6. Owed # 0
    BY ONLY <2>5, OwedIsNat, FS_EmptySet DEF Owed
  <2> QED BY ONLY <1>2, <2>3, <2>4, <2>6
<1>4. CASE ~(answers[t] > 0) /\ Goto(t, "idle") /\ answers' = answers
  <2>1. Owed' = Owed
    BY <1>4, OwedSame
  <2>2. Locking' = Locking + 0 - 0 /\ Handling' = Handling + 0 - 0
    BY ONLY <1>1, <1>4, Counts, t \in Threads,
            pc[t] \notin {"a_lock", "handle"}
    DEF Bit
  <2> QED BY ONLY <1>2, <2>1, <2>2
<1> QED BY ONLY AddReturns(t), <1>3, <1>4 DEF AddReturns

(* Adding a message (ManageMsgQueueAdd) keeps the types of what it         *)
(* changes.                                                                *)
LEMMA AddStepTypes ==
  ASSUME NEW t \in Threads, Types, MutexHeld, Placed, Fits(t), AddStep(t)
  PROVE  Types'
<1> USE BoundsAssumption DEF Types, Is, Goto, Locations, AddLocations,
      SendLocations, RecvLocations, EndLocations, Jobs, Ports, Lefts,
      MaxAnswers, threadVars, queueVars, sendVars, recvVars, endVars,
      kernelVars,
      envVars
<1>1. CASE AddPush(t)
  <2>1. [op |-> "add", msg |-> pushed + 1, bytes |-> 0] \in Jobs
        /\ pushed + 1 \in Messages
    BY <1>1, AJob DEF AddPush, Fits
  <2>2. /\ queue' \in Seq(Messages) /\ job' \in [Threads -> Jobs]
        /\ pushed' \in Nat
    <3>1. /\ queue \in Seq(Messages) /\ job \in [Threads -> Jobs]
          /\ pushed \in Nat
      BY ONLY Types DEF Types
    <3>2. /\ queue' = Append(queue, pushed + 1) /\ pushed' = pushed + 1
          /\ job' = [job EXCEPT ![t] = [op |-> "add", msg |-> pushed + 1, bytes |-> 0]]
      BY <1>1 DEF AddPush
    <3> QED BY ONLY <2>1, <3>1, <3>2
  <2>3. pc' \in [Threads -> Locations] /\ mutex' \in Threads \cup {NoThread}
    BY <1>1 DEF AddPush
  <2>4. UNCHANGED <<answers, moved, sendOccuring, recvOccuring, recvMoved,
                    inflight,
                    recvs, completions, wire, requests, broadcasts, faults>>
    BY <1>1 DEF AddPush
  <2> QED BY ONLY Types, <2>1, <2>2, <2>3, <2>4 DEF Types
<1>2. CASE AddDefers(t)
  <2>1. pc' \in [Threads -> Locations] /\ answers' \in [Threads -> 0 .. 1]
    BY <1>2, AddReturnsTypes DEF AddDefers
  <2>2. /\ mutex' \in Threads \cup {NoThread}
        /\ UNCHANGED <<job, queue, pushed, moved, sendOccuring, recvOccuring,
                       recvMoved,
                       inflight, recvs, completions, wire, requests,
                       broadcasts, faults>>
    BY <1>2 DEF AddDefers
  <2> QED BY ONLY Types, <2>1, <2>2 DEF Types
<1>3. CASE AddClaims(t)
  BY <1>3 DEF AddClaims
<1>4. CASE AddReset(t)
  BY <1>4 DEF AddReset
<1>5. CASE AddSends(t)
  <2>1. pc' \in [Threads -> Locations] /\ answers' \in [Threads -> 0 .. 1]
    BY <1>5, AddReturnsTypes DEF AddSends
  <2>2. inflight' \in Seq([msg : Messages, left : Lefts])
    <3>1. job[t].msg \in Messages
      BY <1>5 DEF AddSends, Placed
    <3>2. [msg |-> job[t].msg, left |-> Rest(0)] \in [msg : Messages, left : Lefts]
      BY <3>1, RestTypes
    <3>3. inflight' = Append(inflight, [msg |-> job[t].msg, left |-> Rest(0)])
      BY <1>5 DEF AddSends, SendPosted
    <3> QED BY <3>2, <3>3
  <2>3. UNCHANGED <<job, mutex, queue, pushed, moved, sendOccuring,
                    recvOccuring,
                    recvMoved, recvs, completions, wire, requests, broadcasts,
                    faults>>
    BY <1>5 DEF AddSends
  <2> QED BY ONLY Types, <2>1, <2>2, <2>3 DEF Types
<1>6. CASE AddSendFails(t)
  <2>1. pc' \in [Threads -> Locations] /\ answers' \in [Threads -> 0 .. 1]
    <3>1. CASE AddReturns(t)
      BY ONLY Types, <3>1, AddReturnsTypes
    <3>2. CASE Goto(t, "idle") /\ answers' = [answers EXCEPT ![t] = 0]
      BY <3>2
    <3> QED BY <1>6, <3>1, <3>2 DEF AddSendFails
  <2>2. faults' \in 0 .. MaxSyncFaults
    BY <1>6, CountsFaults DEF AddSendFails
  <2>3. UNCHANGED <<job, mutex, queue, pushed, moved, sendOccuring,
                    recvOccuring,
                    recvMoved, inflight, recvs, completions, wire, requests,
                    broadcasts>>
    BY <1>6 DEF AddSendFails
  <2> QED BY ONLY Types, <2>1, <2>2, <2>3 DEF Types
<1> QED
  BY <1>1, <1>2, <1>3, <1>4, <1>5, <1>6
  DEF AddStep

(* Adding a message (ManageMsgQueueAdd) keeps the flags Boolean.           *)
LEMMA AddStepFlags ==
  ASSUME NEW t \in Threads, Flags, AddStep(t)
  PROVE  Flags'
<1> USE DEF Flags, endVars, sendVars, envVars
<1>1. CASE AddPush(t)
  BY <1>1 DEF AddPush
<1>2. CASE AddDefers(t)
  BY <1>2 DEF AddDefers, AddReturns
<1>3. CASE AddClaims(t)
  BY <1>3 DEF AddClaims
<1>4. CASE AddReset(t)
  BY <1>4 DEF AddReset
<1>5. CASE AddSends(t)
  BY <1>5 DEF AddSends, AddReturns, SendPosted
<1>6. CASE AddSendFails(t)
  BY <1>6 DEF AddSendFails, AddReturns, SendCanFail, CountFault
<1> QED
  BY <1>1, <1>2, <1>3, <1>4, <1>5, <1>6
  DEF AddStep

(* Adding a message (ManageMsgQueueAdd) keeps SEND_MUTEX with the thread   *)
(* that is inside it.                                                      *)
LEMMA AddStepMutex ==
  ASSUME NEW t \in Threads, Types, MutexHeld, AddStep(t)
  PROVE  MutexHeld'
<1> USE ThreadsAssumption DEF Types, MutexHeld, MutexAt, Is, Goto, queueVars
<1>1. CASE AddPush(t)
  BY <1>1 DEF AddPush
<1>2. CASE AddDefers(t)
  BY <1>2 DEF AddDefers, AddReturns
<1>3. CASE AddClaims(t)
  BY <1>3 DEF AddClaims
<1>4. CASE AddReset(t)
  BY <1>4 DEF AddReset
<1>5. CASE AddSends(t)
  BY <1>5 DEF AddSends, AddReturns, SendPosted
<1>6. CASE AddSendFails(t)
  BY <1>6 DEF AddSendFails, AddReturns, SendCanFail, CountFault
<1> QED
  BY <1>1, <1>2, <1>3, <1>4, <1>5, <1>6
  DEF AddStep

(* Adding a message (ManageMsgQueueAdd) leaves no thread that owes         *)
(* messages but is not adding any.                                         *)
LEMMA AddStepPlaced ==
  ASSUME NEW t \in Threads, Types, Placed, Fits(t), AddStep(t)
  PROVE  Placed'
<1> USE DEF Types, Placed, AddLocations, Is, Goto, threadVars
<1>1. CASE AddPush(t)
  <2>1. pushed + 1 \in Messages
    BY <1>1 DEF AddPush, Fits
  <2> QED BY <1>1, <2>1 DEF AddPush
<1>2. CASE AddDefers(t)
  <2>1. UNCHANGED job /\ AddReturns(t)
    BY <1>2 DEF AddDefers
  <2> QED BY <2>1, AddReturnsTypes
<1>3. CASE AddClaims(t)
  BY <1>3 DEF AddClaims
<1>4. CASE AddReset(t)
  BY <1>4 DEF AddReset
<1>5. CASE AddSends(t)
  <2>1. UNCHANGED job /\ AddReturns(t)
    BY <1>5 DEF AddSends
  <2> QED BY <2>1, AddReturnsTypes
<1>6. CASE AddSendFails(t)
  <2>1. UNCHANGED job
    BY <1>6 DEF AddSendFails
  <2>2. CASE AddReturns(t)
    BY <2>1, <2>2, AddReturnsTypes
  <2>3. CASE Goto(t, "idle") /\ answers' = [answers EXCEPT ![t] = 0]
    BY <2>1, <2>3
  <2> QED BY <1>6, <2>2, <2>3 DEF AddSendFails
<1> QED
  BY <1>1, <1>2, <1>3, <1>4, <1>5, <1>6
  DEF AddStep

(* Adding a message (ManageMsgQueueAdd) arms a receive only after winning  *)
(* m_plRecvOccuring, and gives it back only after the receive was used.    *)
LEMMA AddStepReceives ==
  ASSUME NEW t \in Threads, Types, ReceiveOnce, AddStep(t)
  PROVE  ReceiveOnce'
<1> USE CountsAreNat DEF ReceiveOnce, Types, Is, Bit, recvVars, kernelVars
<1>1. CASE AddPush(t)
  <2>1. pc[t] = "a_lock"
    BY <1>1 DEF AddPush, Is
  <2>2. PICK l \in {"a_compare"} : Goto(t, l)
    BY <1>1 DEF AddPush
  <2>3. UNCHANGED <<recvs, completions, recvOccuring>>
    BY <1>1 DEF AddPush, recvVars, kernelVars
  <2> QED BY <2>1, <2>2, <2>3, QuietReceive
<1>2. CASE AddDefers(t)
  <2>1. pc[t] = "a_compare"
    BY <1>2 DEF AddDefers, Is
  <2>2. PICK l \in {"a_lock", "idle"} : Goto(t, l)
    BY <1>2 DEF AddDefers, AddReturns
  <2>3. UNCHANGED <<recvs, completions, recvOccuring>>
    BY <1>2 DEF AddDefers, AddReturns, recvVars, kernelVars
  <2> QED BY <2>1, <2>2, <2>3, QuietReceive
<1>3. CASE AddClaims(t)
  <2>1. pc[t] = "a_compare"
    BY <1>3 DEF AddClaims, Is
  <2>2. PICK l \in {"a_reset"} : Goto(t, l)
    BY <1>3 DEF AddClaims
  <2>3. UNCHANGED <<recvs, completions, recvOccuring>>
    BY <1>3 DEF AddClaims, recvVars, kernelVars
  <2> QED BY <2>1, <2>2, <2>3, QuietReceive
<1>4. CASE AddReset(t)
  <2>1. pc[t] = "a_reset"
    BY <1>4 DEF AddReset, Is
  <2>2. PICK l \in {"a_send"} : Goto(t, l)
    BY <1>4 DEF AddReset
  <2>3. UNCHANGED <<recvs, completions, recvOccuring>>
    BY <1>4 DEF AddReset, recvVars, kernelVars
  <2> QED BY <2>1, <2>2, <2>3, QuietReceive
<1>5. CASE AddSends(t)
  <2>1. pc[t] = "a_send"
    BY <1>5 DEF AddSends, Is
  <2>2. PICK l \in {"a_lock", "idle"} : Goto(t, l)
    BY <1>5 DEF AddSends, AddReturns
  <2>3. UNCHANGED <<recvs, completions, recvOccuring>>
    BY <1>5 DEF AddSends, AddReturns, SendPosted, recvVars, kernelVars
  <2> QED BY <2>1, <2>2, <2>3, QuietReceive
<1>6. CASE AddSendFails(t)
  <2>1. pc[t] = "a_send"
    BY <1>6 DEF AddSendFails, Is
  <2>2. PICK l \in {"a_lock", "idle"} : Goto(t, l)
    BY <1>6 DEF AddSendFails, AddReturns
  <2>3. UNCHANGED <<recvs, completions, recvOccuring>>
    BY <1>6
    DEF AddSendFails, AddReturns, SendCanFail, CountFault, recvVars, kernelVars
  <2> QED BY <2>1, <2>2, <2>3, QuietReceive
<1> QED
  BY <1>1, <1>2, <1>3, <1>4, <1>5, <1>6
  DEF AddStep

(* Adding a message (ManageMsgQueueAdd) lets nobody begin to destroy the   *)
(* user who did not set DESTROYING.                                        *)
LEMMA AddStepCloses ==
  ASSUME NEW t \in Threads, Types, Flags, CloseOnce, AddStep(t)
  PROVE  CloseOnce'
<1> USE CountsAreNat DEF CloseOnce, Flags, Is, Bit, endVars
<1>1. CASE AddPush(t)
  <2>1. pc[t] = "a_lock"
    BY <1>1 DEF AddPush, Is
  <2>2. PICK l \in {"a_compare"} : Goto(t, l)
    BY <1>1 DEF AddPush
  <2>3. destroying' = destroying
    BY <1>1 DEF AddPush, endVars
  <2> QED BY <2>1, <2>2, <2>3, QuietClose
<1>2. CASE AddDefers(t)
  <2>1. pc[t] = "a_compare"
    BY <1>2 DEF AddDefers, Is
  <2>2. PICK l \in {"a_lock", "idle"} : Goto(t, l)
    BY <1>2 DEF AddDefers, AddReturns
  <2>3. destroying' = destroying
    BY <1>2 DEF AddDefers, endVars
  <2> QED BY <2>1, <2>2, <2>3, QuietClose
<1>3. CASE AddClaims(t)
  <2>1. pc[t] = "a_compare"
    BY <1>3 DEF AddClaims, Is
  <2>2. PICK l \in {"a_reset"} : Goto(t, l)
    BY <1>3 DEF AddClaims
  <2>3. destroying' = destroying
    BY <1>3 DEF AddClaims, endVars
  <2> QED BY <2>1, <2>2, <2>3, QuietClose
<1>4. CASE AddReset(t)
  <2>1. pc[t] = "a_reset"
    BY <1>4 DEF AddReset, Is
  <2>2. PICK l \in {"a_send"} : Goto(t, l)
    BY <1>4 DEF AddReset
  <2>3. destroying' = destroying
    BY <1>4 DEF AddReset, endVars
  <2> QED BY <2>1, <2>2, <2>3, QuietClose
<1>5. CASE AddSends(t)
  <2>1. pc[t] = "a_send"
    BY <1>5 DEF AddSends, Is
  <2>2. PICK l \in {"a_lock", "idle"} : Goto(t, l)
    BY <1>5 DEF AddSends, AddReturns
  <2>3. destroying' = destroying
    BY <1>5 DEF AddSends, endVars
  <2> QED BY <2>1, <2>2, <2>3, QuietClose
<1>6. CASE AddSendFails(t)
  <2>1. pc[t] = "a_send"
    BY <1>6 DEF AddSendFails, Is
  <2>2. PICK l \in {"a_lock", "idle"} : Goto(t, l)
    BY <1>6 DEF AddSendFails, AddReturns
  <2>3. destroying' = destroying
    BY <1>6 DEF AddSendFails, endVars
  <2> QED BY <2>1, <2>2, <2>3, QuietClose
<1> QED
  BY <1>1, <1>2, <1>3, <1>4, <1>5, <1>6
  DEF AddStep

(* The completion of a send (WorkerSendOP, ManageSendQueue) keeps the      *)
(* types of what it changes.                                               *)
LEMMA SendStepTypes ==
  ASSUME NEW t \in Threads, Types, MutexHeld, Placed, Fits(t), SendStep(t)
  PROVE  Types'
<1> USE BoundsAssumption DEF Types, Is, Goto, Locations, AddLocations,
      SendLocations, RecvLocations, EndLocations, Jobs, Ports, Lefts,
      MaxAnswers, threadVars, queueVars, sendVars, recvVars, endVars,
      kernelVars,
      envVars
<1>1. CASE SendPartial(t)
  <2>1. /\ queue # <<>> /\ queue \in Seq(Messages)
        /\ moved \in [Messages -> Nat]
        /\ job[t].bytes \in 0 .. MsgSize
    BY <1>1 DEF SendPartial, SendIsPartial
  <2>2. Head(queue) \in Messages
    BY ONLY <2>1, FirstAndRest
  <2>3. /\ moved' = [moved EXCEPT ![Head(queue)] = moved[Head(queue)] + job[t].bytes]
        /\ inflight' = Append(inflight,
             [msg |-> Head(queue), left |-> Rest(moved'[Head(queue)])])
    BY <1>1 DEF SendPartial, SendBook, SendPosted
  <2>4. moved[Head(queue)] + job[t].bytes \in Nat
    BY ONLY <2>1, <2>2, BoundsAssumption
  <2>5. moved' \in [Messages -> Nat] /\ moved'[Head(queue)] \in Nat
    BY ONLY <2>1, <2>2, <2>3, <2>4
  <2>6. [msg |-> Head(queue), left |-> Rest(moved'[Head(queue)])]
          \in [msg : Messages, left : Lefts]
    BY ONLY <2>2, <2>5, RestTypes
  <2>7. inflight' \in Seq([msg : Messages, left : Lefts])
    <3>1. inflight \in Seq([msg : Messages, left : Lefts])
      BY ONLY Types DEF Types
    <3> QED BY ONLY <2>3, <2>6, <3>1
  <2>8. pc' \in [Threads -> Locations]
    BY <1>1 DEF SendPartial
  <2>9. UNCHANGED <<answers, job, mutex, queue, pushed, sendOccuring,
                    recvOccuring,
                    recvMoved, recvs, completions, wire, requests, broadcasts,
                    faults>>
    BY <1>1 DEF SendPartial
  <2> QED BY ONLY Types, <2>5, <2>7, <2>8, <2>9 DEF Types
<1>2. CASE SendPartialFails(t)
  <2>1. /\ queue # <<>> /\ queue \in Seq(Messages)
        /\ moved \in [Messages -> Nat]
        /\ job[t].bytes \in 0 .. MsgSize
    BY <1>2 DEF SendPartialFails, SendIsPartial
  <2>2. Head(queue) \in Messages
    BY ONLY <2>1, FirstAndRest
  <2>3. moved' = [moved EXCEPT ![Head(queue)] = moved[Head(queue)] + job[t].bytes]
    BY <1>2 DEF SendPartialFails, SendBook
  <2>4. moved' \in [Messages -> Nat]
    BY ONLY <2>1, <2>2, <2>3, BoundsAssumption
  <2>5. faults' \in 0 .. MaxSyncFaults
    BY <1>2 DEF SendPartialFails, SendCanFail, CountFault
  <2>6. UNCHANGED <<pc, answers, job, mutex, queue, pushed, sendOccuring,
                    recvOccuring, recvMoved, inflight, recvs, completions,
                    wire, requests, broadcasts>>
    BY <1>2 DEF SendPartialFails
  <2> QED BY ONLY Types, <2>4, <2>5, <2>6 DEF Types
<1>3. CASE SendWhole(t)
  <2>1. /\ queue # <<>> /\ queue \in Seq(Messages)
        /\ moved \in [Messages -> Nat]
        /\ job[t].bytes \in 0 .. MsgSize
    BY <1>3 DEF SendWhole
  <2>2. Head(queue) \in Messages
    BY ONLY <2>1, FirstAndRest
  <2>3. moved' = [moved EXCEPT ![Head(queue)] = moved[Head(queue)] + job[t].bytes]
    BY <1>3 DEF SendWhole, SendBook
  <2>4. moved' \in [Messages -> Nat]
    BY ONLY <2>1, <2>2, <2>3, BoundsAssumption
  <2>5. /\ pc' \in [Threads -> Locations] /\ mutex' \in Threads \cup {NoThread}
        /\ job' \in [Threads -> Jobs] /\ answers' \in [Threads -> 0 .. 1]
    BY <1>3 DEF SendWhole
  <2>6. UNCHANGED <<queue, pushed, sendOccuring, recvOccuring, recvMoved,
                    inflight, recvs, completions, wire, requests, broadcasts,
                    faults>>
    BY <1>3 DEF SendWhole
  <2> QED BY ONLY Types, <2>4, <2>5, <2>6 DEF Types
<1>4. CASE QueueIsEmpty(t)
  BY <1>4 DEF QueueIsEmpty
<1>5. CASE SendPop(t)
  <2>1. queue # <<>> /\ queue \in Seq(Messages) /\ queue' = Tail(queue)
    BY <1>5 DEF SendPop
  <2>2. queue' \in Seq(Messages)
    BY ONLY <2>1, FirstAndRest
  <2>3. /\ pc' \in [Threads -> Locations] /\ mutex' \in Threads \cup {NoThread}
        /\ job' \in [Threads -> Jobs] /\ answers' \in [Threads -> 0 .. 1]
    BY <1>5 DEF SendPop
  <2>4. UNCHANGED <<moved, pushed, sendOccuring, recvOccuring, recvMoved,
                    inflight, recvs, completions, wire, requests, broadcasts,
                    faults>>
    BY <1>5 DEF SendPop
  <2> QED BY ONLY Types, <2>2, <2>3, <2>4 DEF Types
<1>6. CASE SendDecrement(t)
  BY <1>6 DEF SendDecrement
<1>7. CASE SendSet(t)
  BY <1>7 DEF SendSet
<1>8. CASE SendNext(t)
  <2>1. queue # <<>> /\ queue \in Seq(Messages) /\ moved \in [Messages -> Nat]
    BY <1>8 DEF SendNext, MutexHeld
  <2>2. Head(queue) \in Messages /\ moved[Head(queue)] \in Nat
    BY ONLY <2>1
  <2>3. [msg |-> Head(queue), left |-> Rest(moved[Head(queue)])]
          \in [msg : Messages, left : Lefts]
    BY ONLY <2>2, RestTypes
  <2>4. inflight' \in Seq([msg : Messages, left : Lefts])
    BY <1>8, <2>3 DEF SendNext, SendPosted
  <2>5. pc' \in [Threads -> Locations] /\ mutex' \in Threads \cup {NoThread}
    BY <1>8 DEF SendNext
  <2>6. UNCHANGED <<answers, job, queue, pushed, moved, sendOccuring,
                    recvOccuring,
                    recvMoved, recvs, completions, wire, requests, broadcasts,
                    faults>>
    BY <1>8 DEF SendNext
  <2> QED BY ONLY Types, <2>4, <2>5, <2>6 DEF Types
<1>9. CASE SendNextFails(t)
  BY <1>9 DEF SendNextFails, SendCanFail, CountFault
<1>10. CASE SendGivesUp(t)
  BY <1>10 DEF SendGivesUp
<1>11. CASE Rearm(t)
  BY <1>11 DEF Rearm
<1>12. CASE RecvPosted(t)
  BY <1>12 DEF RecvPosted
<1>13. CASE RecvPostFails(t)
  BY <1>13 DEF RecvPostFails
<1> QED
  BY <1>1, <1>2, <1>3, <1>4, <1>5, <1>6, <1>7, <1>8, <1>9, <1>10,
     <1>11, <1>12, <1>13
  DEF SendStep

(* The completion of a send (WorkerSendOP, ManageSendQueue) keeps the      *)
(* flags Boolean.                                                          *)
LEMMA SendStepFlags ==
  ASSUME NEW t \in Threads, Flags, SendStep(t)
  PROVE  Flags'
<1> USE DEF Flags, endVars, sendVars, envVars
<1>0. SendTears => torn' \in BOOLEAN
  <2> DEFINE inside == InFirstBody(moved'[Head(queue)])
  <2>1. inside \in BOOLEAN
    BY DEF InFirstBody
  <2>2. SendTears => torn' = (torn \/ inside)
    BY DEF SendTears
  <2> HIDE DEF inside
  <2> QED BY <2>1, <2>2
<1>1. CASE SendPartial(t)
  BY <1>0, <1>1 DEF SendPartial
<1>2. CASE SendPartialFails(t)
  BY <1>0, <1>2 DEF SendPartialFails
<1>3. CASE SendWhole(t)
  BY <1>3 DEF SendWhole, SendIsPartial, SendBook
<1>4. CASE QueueIsEmpty(t)
  BY <1>4 DEF QueueIsEmpty
<1>5. CASE SendPop(t)
  BY <1>5 DEF SendPop
<1>6. CASE SendDecrement(t)
  BY <1>6 DEF SendDecrement
<1>7. CASE SendSet(t)
  BY <1>7 DEF SendSet
<1>8. CASE SendNext(t)
  BY <1>8 DEF SendNext, SendPosted
<1>9. CASE SendNextFails(t)
  BY <1>9 DEF SendNextFails, SendCanFail, CountFault
<1>10. CASE SendGivesUp(t)
  BY <1>10 DEF SendGivesUp
<1>11. CASE Rearm(t)
  BY <1>11 DEF Rearm
<1>12. CASE RecvPosted(t)
  BY <1>12 DEF RecvPosted
<1>13. CASE RecvPostFails(t)
  BY <1>13 DEF RecvPostFails
<1> QED
  BY <1>1, <1>2, <1>3, <1>4, <1>5, <1>6, <1>7, <1>8, <1>9, <1>10,
     <1>11, <1>12, <1>13
  DEF SendStep

(* The completion of a send (WorkerSendOP, ManageSendQueue) keeps          *)
(* SEND_MUTEX with the thread that is inside it.                           *)
LEMMA SendStepMutex ==
  ASSUME NEW t \in Threads, Types, MutexHeld, SendStep(t)
  PROVE  MutexHeld'
<1> USE ThreadsAssumption DEF Types, MutexHeld, MutexAt, Is, Goto, queueVars
<1>1. CASE SendPartial(t)
  BY <1>1 DEF SendPartial, SendPosted, SendIsPartial, SendBook
<1>2. CASE SendPartialFails(t)
  BY <1>2
  DEF SendPartialFails, SendIsPartial, SendBook, SendCanFail, CountFault
<1>3. CASE SendWhole(t)
  BY <1>3 DEF SendWhole, SendIsPartial, SendBook
<1>4. CASE QueueIsEmpty(t)
  BY <1>4 DEF QueueIsEmpty
<1>5. CASE SendPop(t)
  BY <1>5 DEF SendPop
<1>6. CASE SendDecrement(t)
  BY <1>6 DEF SendDecrement
<1>7. CASE SendSet(t)
  BY <1>7 DEF SendSet
<1>8. CASE SendNext(t)
  BY <1>8 DEF SendNext, SendPosted
<1>9. CASE SendNextFails(t)
  BY <1>9 DEF SendNextFails, SendCanFail, CountFault
<1>10. CASE SendGivesUp(t)
  BY <1>10 DEF SendGivesUp
<1>11. CASE Rearm(t)
  BY <1>11 DEF Rearm
<1>12. CASE RecvPosted(t)
  BY <1>12 DEF RecvPosted
<1>13. CASE RecvPostFails(t)
  BY <1>13 DEF RecvPostFails
<1> QED
  BY <1>1, <1>2, <1>3, <1>4, <1>5, <1>6, <1>7, <1>8, <1>9, <1>10,
     <1>11, <1>12, <1>13
  DEF SendStep

(* The completion of a send (WorkerSendOP, ManageSendQueue) leaves no      *)
(* thread that owes messages but is not adding any.                        *)
LEMMA SendStepPlaced ==
  ASSUME NEW t \in Threads, Types, Placed, Fits(t), SendStep(t)
  PROVE  Placed'
<1> USE DEF Types, Placed, AddLocations, Is, Goto, threadVars
<1>1. CASE SendPartial(t)
  BY <1>1 DEF SendPartial, SendPosted, SendIsPartial, SendBook
<1>2. CASE SendPartialFails(t)
  BY <1>2
  DEF SendPartialFails, SendIsPartial, SendBook, SendCanFail, CountFault
<1>3. CASE SendWhole(t)
  BY <1>3 DEF SendWhole, SendIsPartial, SendBook
<1>4. CASE QueueIsEmpty(t)
  BY <1>4 DEF QueueIsEmpty
<1>5. CASE SendPop(t)
  BY <1>5 DEF SendPop
<1>6. CASE SendDecrement(t)
  BY <1>6 DEF SendDecrement
<1>7. CASE SendSet(t)
  BY <1>7 DEF SendSet
<1>8. CASE SendNext(t)
  BY <1>8 DEF SendNext, SendPosted
<1>9. CASE SendNextFails(t)
  BY <1>9 DEF SendNextFails, SendCanFail, CountFault
<1>10. CASE SendGivesUp(t)
  BY <1>10 DEF SendGivesUp
<1>11. CASE Rearm(t)
  BY <1>11 DEF Rearm
<1>12. CASE RecvPosted(t)
  BY <1>12 DEF RecvPosted
<1>13. CASE RecvPostFails(t)
  BY <1>13 DEF RecvPostFails
<1> QED
  BY <1>1, <1>2, <1>3, <1>4, <1>5, <1>6, <1>7, <1>8, <1>9, <1>10,
     <1>11, <1>12, <1>13
  DEF SendStep

(* The completion of a send (WorkerSendOP, ManageSendQueue) arms a receive *)
(* only after winning m_plRecvOccuring, and gives it back only after the   *)
(* receive was used.                                                       *)
LEMMA SendStepReceives ==
  ASSUME NEW t \in Threads, Types, ReceiveOnce, SendStep(t)
  PROVE  ReceiveOnce'
<1> USE CountsAreNat DEF ReceiveOnce, Types, Is, Bit, recvVars, kernelVars
<1>1. CASE SendPartial(t)
  <2>1. pc[t] = "s_peek"
    BY <1>1 DEF SendPartial, SendIsPartial, RecvIsPartial, Is, Is
  <2>2. PICK l \in {"idle"} : Goto(t, l)
    BY <1>1 DEF SendPartial
  <2>3. UNCHANGED <<recvs, completions, recvOccuring>>
    BY <1>1
    DEF SendPartial, SendPosted, SendIsPartial, SendBook, recvVars, kernelVars
  <2> QED BY <2>1, <2>2, <2>3, QuietReceive
<1>2. CASE SendPartialFails(t)
  BY <1>2, Counts, CountsSame, ArrivedSame, WaitingFinite
  DEF SendPartialFails, SendIsPartial, SendBook, SendCanFail, CountFault
<1>3. CASE SendWhole(t)
  <2>1. pc[t] = "s_peek"
    BY <1>3 DEF SendWhole, SendIsPartial, RecvIsPartial, Is, Is
  <2>2. PICK l \in {"s_pop"} : Goto(t, l)
    BY <1>3 DEF SendWhole
  <2>3. UNCHANGED <<recvs, completions, recvOccuring>>
    BY <1>3 DEF SendWhole, SendIsPartial, SendBook, recvVars, kernelVars
  <2> QED BY <2>1, <2>2, <2>3, QuietReceive
<1>4. CASE QueueIsEmpty(t)
  BY <1>4, Counts, CountsSame, ArrivedSame, WaitingFinite DEF QueueIsEmpty
<1>5. CASE SendPop(t)
  <2>1. pc[t] = "s_pop"
    BY <1>5 DEF SendPop, Is
  <2>2. PICK l \in {"s_decrement", "s_next"} : Goto(t, l)
    BY <1>5 DEF SendPop
  <2>3. UNCHANGED <<recvs, completions, recvOccuring>>
    BY <1>5 DEF SendPop, recvVars, kernelVars
  <2> QED BY <2>1, <2>2, <2>3, QuietReceive
<1>6. CASE SendDecrement(t)
  <2>1. pc[t] = "s_decrement"
    BY <1>6 DEF SendDecrement, Is
  <2>2. PICK l \in {"s_set"} : Goto(t, l)
    BY <1>6 DEF SendDecrement
  <2>3. UNCHANGED <<recvs, completions, recvOccuring>>
    BY <1>6 DEF SendDecrement, recvVars, kernelVars
  <2> QED BY <2>1, <2>2, <2>3, QuietReceive
<1>7. CASE SendSet(t)
  <2>1. pc[t] = "s_set"
    BY <1>7 DEF SendSet, Is
  <2>2. PICK l \in {"s_rearm"} : Goto(t, l)
    BY <1>7 DEF SendSet
  <2>3. UNCHANGED <<recvs, completions, recvOccuring>>
    BY <1>7 DEF SendSet, recvVars, kernelVars
  <2> QED BY <2>1, <2>2, <2>3, QuietReceive
<1>8. CASE SendNext(t)
  <2>1. pc[t] = "s_next"
    BY <1>8 DEF SendNext, Is
  <2>2. PICK l \in {"s_rearm"} : Goto(t, l)
    BY <1>8 DEF SendNext
  <2>3. UNCHANGED <<recvs, completions, recvOccuring>>
    BY <1>8 DEF SendNext, SendPosted, recvVars, kernelVars
  <2> QED BY <2>1, <2>2, <2>3, QuietReceive
<1>9. CASE SendNextFails(t)
  <2>1. pc[t] = "s_next"
    BY <1>9 DEF SendNextFails, Is
  <2>2. PICK l \in {"s_fail"} : Goto(t, l)
    BY <1>9 DEF SendNextFails
  <2>3. UNCHANGED <<recvs, completions, recvOccuring>>
    BY <1>9 DEF SendNextFails, SendCanFail, CountFault, recvVars, kernelVars
  <2> QED BY <2>1, <2>2, <2>3, QuietReceive
<1>10. CASE SendGivesUp(t)
  <2>1. pc[t] = "s_fail"
    BY <1>10 DEF SendGivesUp, Is
  <2>2. PICK l \in {"x_send", "x_recv"} : Goto(t, l)
    BY <1>10 DEF SendGivesUp
  <2>3. UNCHANGED <<recvs, completions, recvOccuring>>
    BY <1>10 DEF SendGivesUp, recvVars, kernelVars
  <2> QED BY <2>1, <2>2, <2>3, QuietReceive
<1>11. CASE Rearm(t)
  <2>1. pc[t] = "s_rearm"
    BY <1>11 DEF Rearm, Is
  <2>2. Goto(t, IF recvOccuring = 0 THEN "s_recv" ELSE "idle")
    BY <1>11 DEF Rearm
  <2>3. /\ pc \in [Threads -> Locations] /\ recvs \in Nat
        /\ recvOccuring \in {0, 1} /\ completions \in Seq(Ports)
    BY ONLY Types DEF Types
  <2>4. recvOccuring' = 1 /\ UNCHANGED <<recvs, completions>>
    BY <1>11 DEF Rearm, recvVars, kernelVars
  <2>5. CASE recvOccuring = 0
    <3>1. Goto(t, "s_recv")
      BY ONLY <2>2, <2>5
    <3> QED BY ONLY <2>1, <2>3, <2>4, <2>5, <3>1, ReceiveOnce, Counts,
                    CountsAreNat, ArrivedSame, WaitingFinite
            DEF ReceiveOnce, Bit
  <2>6. CASE recvOccuring # 0
    <3>1. Goto(t, "idle")
      BY ONLY <2>2, <2>6
    <3> QED BY ONLY <2>1, <2>3, <2>4, <2>6, <3>1, ReceiveOnce, Counts,
                    CountsAreNat, ArrivedSame, WaitingFinite
            DEF ReceiveOnce, Bit
  <2> QED BY <2>5, <2>6
<1>12. CASE RecvPosted(t)
  <2>1. pc[t] = "s_recv"
    BY <1>12 DEF RecvPosted, Is
  <2>2. PICK l \in {"idle"} : Goto(t, l)
    BY <1>12 DEF RecvPosted
  <2>3. /\ pc \in [Threads -> Locations] /\ recvs \in Nat
        /\ recvOccuring \in {0, 1} /\ completions \in Seq(Ports)
    BY ONLY Types DEF Types
  <2>4. recvs' = recvs + 1 /\ UNCHANGED <<recvOccuring, completions>>
    BY <1>12 DEF RecvPosted, recvVars, kernelVars
  <2>5. Receiving' = Receiving - 1
    BY ONLY <2>1, <2>2, <2>3, Counts, CountsAreNat DEF Bit
  <2>6. Arrived("recv")' = Arrived("recv") /\ Arrived("recv") \in Nat
    BY ONLY <2>3, <2>4, ArrivedSame, WaitingFinite
  <2> QED BY ONLY <2>3, <2>4, <2>5, <2>6, ReceiveOnce, CountsAreNat
          DEF ReceiveOnce
<1>13. CASE RecvPostFails(t)
  BY <1>13, Counts, CountsSame, ArrivedSame, WaitingFinite DEF RecvPostFails
<1> QED
  BY <1>1, <1>2, <1>3, <1>4, <1>5, <1>6, <1>7, <1>8, <1>9, <1>10,
     <1>11, <1>12, <1>13
  DEF SendStep

(* The completion of a send (WorkerSendOP, ManageSendQueue) lets nobody    *)
(* begin to destroy the user who did not set DESTROYING.                   *)
LEMMA SendStepCloses ==
  ASSUME NEW t \in Threads, Types, Flags, CloseOnce, SendStep(t)
  PROVE  CloseOnce'
<1> USE CountsAreNat DEF CloseOnce, Flags, Is, Bit, endVars
<1>1. CASE SendPartial(t)
  <2>1. pc[t] = "s_peek"
    BY <1>1 DEF SendPartial, SendIsPartial, RecvIsPartial, Is, Is
  <2>2. PICK l \in {"idle"} : Goto(t, l)
    BY <1>1 DEF SendPartial
  <2>3. destroying' = destroying
    BY <1>1 DEF SendPartial, endVars
  <2> QED BY <2>1, <2>2, <2>3, QuietClose
<1>2. CASE SendPartialFails(t)
  <2>1. UNCHANGED <<pc, destroying>>
    BY <1>2 DEF SendPartialFails, endVars
  <2>2. Bit(destroying)' = Bit(destroying)
    BY <2>1 DEF Bit
  <2> QED BY ONLY <2>1, <2>2, CloseOnce, CountsSame DEF CloseOnce
<1>3. CASE SendWhole(t)
  <2>1. pc[t] = "s_peek"
    BY <1>3 DEF SendWhole, SendIsPartial, RecvIsPartial, Is, Is
  <2>2. PICK l \in {"s_pop"} : Goto(t, l)
    BY <1>3 DEF SendWhole
  <2>3. destroying' = destroying
    BY <1>3 DEF SendWhole, endVars
  <2> QED BY <2>1, <2>2, <2>3, QuietClose
<1>4. CASE QueueIsEmpty(t)
  <2>1. UNCHANGED <<pc, destroying>>
    BY <1>4 DEF QueueIsEmpty, endVars
  <2>2. Bit(destroying)' = Bit(destroying)
    BY <2>1 DEF Bit
  <2> QED BY ONLY <2>1, <2>2, CloseOnce, CountsSame DEF CloseOnce
<1>5. CASE SendPop(t)
  <2>1. pc[t] = "s_pop"
    BY <1>5 DEF SendPop, Is
  <2>2. PICK l \in {"s_decrement", "s_next"} : Goto(t, l)
    BY <1>5 DEF SendPop
  <2>3. destroying' = destroying
    BY <1>5 DEF SendPop, endVars
  <2> QED BY <2>1, <2>2, <2>3, QuietClose
<1>6. CASE SendDecrement(t)
  <2>1. pc[t] = "s_decrement"
    BY <1>6 DEF SendDecrement, Is
  <2>2. PICK l \in {"s_set"} : Goto(t, l)
    BY <1>6 DEF SendDecrement
  <2>3. destroying' = destroying
    BY <1>6 DEF SendDecrement, endVars
  <2> QED BY <2>1, <2>2, <2>3, QuietClose
<1>7. CASE SendSet(t)
  <2>1. pc[t] = "s_set"
    BY <1>7 DEF SendSet, Is
  <2>2. PICK l \in {"s_rearm"} : Goto(t, l)
    BY <1>7 DEF SendSet
  <2>3. destroying' = destroying
    BY <1>7 DEF SendSet, endVars
  <2> QED BY <2>1, <2>2, <2>3, QuietClose
<1>8. CASE SendNext(t)
  <2>1. pc[t] = "s_next"
    BY <1>8 DEF SendNext, Is
  <2>2. PICK l \in {"s_rearm"} : Goto(t, l)
    BY <1>8 DEF SendNext
  <2>3. destroying' = destroying
    BY <1>8 DEF SendNext, endVars
  <2> QED BY <2>1, <2>2, <2>3, QuietClose
<1>9. CASE SendNextFails(t)
  <2>1. pc[t] = "s_next"
    BY <1>9 DEF SendNextFails, Is
  <2>2. PICK l \in {"s_fail"} : Goto(t, l)
    BY <1>9 DEF SendNextFails
  <2>3. destroying' = destroying
    BY <1>9 DEF SendNextFails, endVars
  <2> QED BY <2>1, <2>2, <2>3, QuietClose
<1>10. CASE SendGivesUp(t)
  <2>1. pc[t] = "s_fail"
    BY <1>10 DEF SendGivesUp, Is
  <2>2. PICK l \in {"x_send", "x_recv"} : Goto(t, l)
    BY <1>10 DEF SendGivesUp
  <2>3. destroying' = destroying
    BY <1>10 DEF SendGivesUp, endVars
  <2> QED BY <2>1, <2>2, <2>3, QuietClose
<1>11. CASE Rearm(t)
  <2>1. pc[t] = "s_rearm"
    BY <1>11 DEF Rearm, Is
  <2>2. PICK l \in {"s_recv", "idle"} : Goto(t, l)
    BY <1>11 DEF Rearm
  <2>3. destroying' = destroying
    BY <1>11 DEF Rearm, endVars
  <2> QED BY <2>1, <2>2, <2>3, QuietClose
<1>12. CASE RecvPosted(t)
  <2>1. pc[t] = "s_recv"
    BY <1>12 DEF RecvPosted, Is
  <2>2. PICK l \in {"idle"} : Goto(t, l)
    BY <1>12 DEF RecvPosted
  <2>3. destroying' = destroying
    BY <1>12 DEF RecvPosted, endVars
  <2> QED BY <2>1, <2>2, <2>3, QuietClose
<1>13. CASE RecvPostFails(t)
  <2>1. UNCHANGED <<pc, destroying>>
    BY <1>13 DEF RecvPostFails, endVars
  <2>2. Bit(destroying)' = Bit(destroying)
    BY <2>1 DEF Bit
  <2> QED BY ONLY <2>1, <2>2, CloseOnce, CountsSame DEF CloseOnce
<1> QED
  BY <1>1, <1>2, <1>3, <1>4, <1>5, <1>6, <1>7, <1>8, <1>9, <1>10,
     <1>11, <1>12, <1>13
  DEF SendStep

(* The completion of a receive (WorkerRecvOP and the handlers) keeps the   *)
(* types of what it changes.                                               *)
LEMMA RecvStepTypes ==
  ASSUME NEW t \in Threads, Types, ReceiveOnce, RecvStep(t)
  PROVE  Types'
<1> USE BoundsAssumption DEF Types, Is, Goto, Locations, AddLocations,
      SendLocations, RecvLocations, EndLocations, Jobs, Ports, Lefts,
      MaxAnswers, threadVars, queueVars, sendVars, recvVars, endVars,
      kernelVars,
      envVars
<1>1. CASE RecvPartial(t)
  BY <1>1 DEF RecvPartial, RecvIsPartial
<1>2. CASE RecvPartialFails(t)
  BY <1>2 DEF RecvPartialFails, RecvIsPartial
<1>3. CASE RecvWhole(t)
  <2>1. recvOccuring' \in {0, 1}
    <3>1. /\ recvs \in Nat /\ recvOccuring \in {0, 1}
          /\ completions \in Seq(Ports)
      BY ONLY Types DEF Types
    <3>2. recvOccuring = 1
      <4>1. t \in At({"r_parse", "s_recv"})
        BY <1>3 DEF RecvWhole, At
      <4>2. Receiving # 0
        BY ONLY <4>1, AtFinite, FS_EmptySet DEF Receiving
      <4>3. Arrived("recv") \in Nat
        BY ONLY <3>1, WaitingFinite
      <4> QED BY ONLY <3>1, <4>2, <4>3, CountsAreNat, ReceiveOnce
              DEF ReceiveOnce
    <3>3. recvOccuring' = recvOccuring - 1
      BY <1>3 DEF RecvWhole
    <3> QED BY ONLY <3>2, <3>3
  <2>2. recvMoved' \in 0 .. (MsgSize - 1) /\ pc' \in [Threads -> Locations]
    BY <1>3 DEF RecvWhole
  <2>3. UNCHANGED <<answers, job, mutex, queue, pushed, moved, sendOccuring,
                    inflight,
                    recvs, completions, wire, requests, broadcasts, faults>>
    BY <1>3 DEF RecvWhole
  <2> QED BY ONLY Types, <2>1, <2>2, <2>3 DEF Types
<1>4. CASE Answer(t)
  BY <1>4 DEF Answer
<1>5. CASE NoAnswer(t)
  BY <1>5 DEF NoAnswer
<1> QED
  BY <1>1, <1>2, <1>3, <1>4, <1>5
  DEF RecvStep

(* The completion of a receive (WorkerRecvOP and the handlers) keeps the   *)
(* flags Boolean.                                                          *)
LEMMA RecvStepFlags ==
  ASSUME NEW t \in Threads, Flags, RecvStep(t)
  PROVE  Flags'
<1> USE DEF Flags, endVars, sendVars, envVars
<1>1. CASE RecvPartial(t)
  BY <1>1 DEF RecvPartial, RecvIsPartial
<1>2. CASE RecvPartialFails(t)
  BY <1>2 DEF RecvPartialFails, RecvIsPartial
<1>3. CASE RecvWhole(t)
  BY <1>3 DEF RecvWhole, RecvIsPartial
<1>4. CASE Answer(t)
  BY <1>4 DEF Answer
<1>5. CASE NoAnswer(t)
  BY <1>5 DEF NoAnswer
<1> QED
  BY <1>1, <1>2, <1>3, <1>4, <1>5
  DEF RecvStep

(* The completion of a receive (WorkerRecvOP and the handlers) keeps       *)
(* SEND_MUTEX with the thread that is inside it.                           *)
LEMMA RecvStepMutex ==
  ASSUME NEW t \in Threads, Types, MutexHeld, RecvStep(t)
  PROVE  MutexHeld'
<1> USE ThreadsAssumption DEF Types, MutexHeld, MutexAt, Is, Goto, queueVars
<1>1. CASE RecvPartial(t)
  BY <1>1 DEF RecvPartial, RecvIsPartial
<1>2. CASE RecvPartialFails(t)
  BY <1>2 DEF RecvPartialFails, RecvIsPartial
<1>3. CASE RecvWhole(t)
  BY <1>3 DEF RecvWhole, RecvIsPartial
<1>4. CASE Answer(t)
  BY <1>4 DEF Answer
<1>5. CASE NoAnswer(t)
  BY <1>5 DEF NoAnswer
<1> QED
  BY <1>1, <1>2, <1>3, <1>4, <1>5
  DEF RecvStep

(* The completion of a receive (WorkerRecvOP and the handlers) leaves no   *)
(* thread that owes messages but is not adding any.                        *)
LEMMA RecvStepPlaced ==
  ASSUME NEW t \in Threads, Types, Placed, Fits(t), RecvStep(t)
  PROVE  Placed'
<1> USE DEF Types, Placed, AddLocations, Is, Goto, threadVars
<1>1. CASE RecvPartial(t)
  BY <1>1 DEF RecvPartial, RecvIsPartial
<1>2. CASE RecvPartialFails(t)
  BY <1>2 DEF RecvPartialFails, RecvIsPartial
<1>3. CASE RecvWhole(t)
  BY <1>3 DEF RecvWhole, RecvIsPartial
<1>4. CASE Answer(t)
  BY <1>4 DEF Answer
<1>5. CASE NoAnswer(t)
  BY <1>5 DEF NoAnswer
<1> QED
  BY <1>1, <1>2, <1>3, <1>4, <1>5
  DEF RecvStep

(* The completion of a receive (WorkerRecvOP and the handlers) arms a      *)
(* receive only after winning m_plRecvOccuring, and gives it back only     *)
(* after the receive was used.                                             *)
LEMMA RecvStepReceives ==
  ASSUME NEW t \in Threads, Types, ReceiveOnce, RecvStep(t)
  PROVE  ReceiveOnce'
<1> USE CountsAreNat DEF ReceiveOnce, Types, Is, Bit, recvVars, kernelVars
<1>1. CASE RecvPartial(t)
  <2>1. pc[t] = "r_parse"
    BY <1>1 DEF RecvPartial, SendIsPartial, RecvIsPartial, Is, Is
  <2>2. PICK l \in {"idle"} : Goto(t, l)
    BY <1>1 DEF RecvPartial
  <2>3. /\ pc \in [Threads -> Locations] /\ recvs \in Nat
        /\ recvOccuring \in {0, 1} /\ completions \in Seq(Ports)
    BY ONLY Types DEF Types
  <2>4. recvs' = recvs + 1 /\ UNCHANGED <<recvOccuring, completions>>
    BY <1>1 DEF RecvPartial, RecvIsPartial, recvVars, kernelVars
  <2>5. Receiving' = Receiving - 1
    BY ONLY <2>1, <2>2, <2>3, Counts, CountsAreNat DEF Bit
  <2>6. Arrived("recv")' = Arrived("recv") /\ Arrived("recv") \in Nat
    BY ONLY <2>3, <2>4, ArrivedSame, WaitingFinite
  <2> QED BY ONLY <2>3, <2>4, <2>5, <2>6, ReceiveOnce, CountsAreNat
          DEF ReceiveOnce
<1>2. CASE RecvPartialFails(t)
  BY <1>2, Counts, CountsSame, ArrivedSame, WaitingFinite
  DEF RecvPartialFails, RecvIsPartial
<1>3. CASE RecvWhole(t)
  <2>1. pc[t] = "r_parse"
    BY <1>3 DEF RecvWhole, SendIsPartial, RecvIsPartial, Is, Is
  <2>2. PICK l \in {"handle"} : Goto(t, l)
    BY <1>3 DEF RecvWhole
  <2>3. /\ pc \in [Threads -> Locations] /\ recvs \in Nat
        /\ recvOccuring \in {0, 1} /\ completions \in Seq(Ports)
    BY ONLY Types DEF Types
  <2>4. recvOccuring' = recvOccuring - 1 /\ UNCHANGED <<recvs, completions>>
    BY <1>3 DEF RecvWhole, RecvIsPartial, recvVars, kernelVars
  <2>5. Receiving' = Receiving - 1
    BY ONLY <2>1, <2>2, <2>3, Counts, CountsAreNat DEF Bit
  <2>6. Arrived("recv")' = Arrived("recv") /\ Arrived("recv") \in Nat
    BY ONLY <2>3, <2>4, ArrivedSame, WaitingFinite
  <2> QED BY ONLY <2>3, <2>4, <2>5, <2>6, ReceiveOnce, CountsAreNat
          DEF ReceiveOnce
<1>4. CASE Answer(t)
  <2>1. pc[t] = "handle"
    BY <1>4 DEF Answer, Is
  <2>2. PICK l \in {"a_lock"} : Goto(t, l)
    BY <1>4 DEF Answer
  <2>3. UNCHANGED <<recvs, completions, recvOccuring>>
    BY <1>4 DEF Answer, recvVars, kernelVars
  <2> QED BY <2>1, <2>2, <2>3, QuietReceive
<1>5. CASE NoAnswer(t)
  <2>1. pc[t] = "handle"
    BY <1>5 DEF NoAnswer, Is
  <2>2. PICK l \in {"idle"} : Goto(t, l)
    BY <1>5 DEF NoAnswer
  <2>3. UNCHANGED <<recvs, completions, recvOccuring>>
    BY <1>5 DEF NoAnswer, recvVars, kernelVars
  <2> QED BY <2>1, <2>2, <2>3, QuietReceive
<1> QED
  BY <1>1, <1>2, <1>3, <1>4, <1>5
  DEF RecvStep

(* The completion of a receive (WorkerRecvOP and the handlers) lets nobody *)
(* begin to destroy the user who did not set DESTROYING.                   *)
LEMMA RecvStepCloses ==
  ASSUME NEW t \in Threads, Types, Flags, CloseOnce, RecvStep(t)
  PROVE  CloseOnce'
<1> USE CountsAreNat DEF CloseOnce, Flags, Is, Bit, endVars
<1>1. CASE RecvPartial(t)
  <2>1. pc[t] = "r_parse"
    BY <1>1 DEF RecvPartial, SendIsPartial, RecvIsPartial, Is, Is
  <2>2. PICK l \in {"idle"} : Goto(t, l)
    BY <1>1 DEF RecvPartial
  <2>3. destroying' = destroying
    BY <1>1 DEF RecvPartial, endVars
  <2> QED BY <2>1, <2>2, <2>3, QuietClose
<1>2. CASE RecvPartialFails(t)
  <2>1. UNCHANGED <<pc, destroying>>
    BY <1>2 DEF RecvPartialFails, endVars
  <2>2. Bit(destroying)' = Bit(destroying)
    BY <2>1 DEF Bit
  <2> QED BY ONLY <2>1, <2>2, CloseOnce, CountsSame DEF CloseOnce
<1>3. CASE RecvWhole(t)
  <2>1. pc[t] = "r_parse"
    BY <1>3 DEF RecvWhole, SendIsPartial, RecvIsPartial, Is, Is
  <2>2. PICK l \in {"handle"} : Goto(t, l)
    BY <1>3 DEF RecvWhole
  <2>3. destroying' = destroying
    BY <1>3 DEF RecvWhole, endVars
  <2> QED BY <2>1, <2>2, <2>3, QuietClose
<1>4. CASE Answer(t)
  <2>1. pc[t] = "handle"
    BY <1>4 DEF Answer, Is
  <2>2. PICK l \in {"a_lock"} : Goto(t, l)
    BY <1>4 DEF Answer
  <2>3. destroying' = destroying
    BY <1>4 DEF Answer, endVars
  <2> QED BY <2>1, <2>2, <2>3, QuietClose
<1>5. CASE NoAnswer(t)
  <2>1. pc[t] = "handle"
    BY <1>5 DEF NoAnswer, Is
  <2>2. PICK l \in {"idle"} : Goto(t, l)
    BY <1>5 DEF NoAnswer
  <2>3. destroying' = destroying
    BY <1>5 DEF NoAnswer, endVars
  <2> QED BY <2>1, <2>2, <2>3, QuietClose
<1> QED
  BY <1>1, <1>2, <1>3, <1>4, <1>5
  DEF RecvStep

(* The end of the user (HandleClientShutdown, ClientShutdown) keeps the    *)
(* types of what it changes.                                               *)
LEMMA EndStepTypes ==
  ASSUME NEW t \in Threads, Types, MutexHeld, Placed, Fits(t), EndStep(t)
  PROVE  Types'
<1> USE BoundsAssumption DEF Types, Is, Goto, Locations, AddLocations,
      SendLocations, RecvLocations, EndLocations, Jobs, Ports, Lefts,
      MaxAnswers, threadVars, queueVars, sendVars, recvVars, endVars,
      kernelVars,
      envVars
<1>1. CASE EndSend(t)
  BY <1>1 DEF EndSend
<1>2. CASE EndSendSet(t)
  BY <1>2 DEF EndSendSet
<1>3. CASE EndRecv(t)
  BY <1>3 DEF EndRecv
<1>4. CASE CloseCheck(t)
  BY <1>4 DEF CloseCheck
<1>5. CASE CloseWait(t)
  BY <1>5 DEF CloseWait
<1>6. CASE CloseFree(t)
  BY <1>6 DEF CloseFree
<1> QED
  BY <1>1, <1>2, <1>3, <1>4, <1>5, <1>6
  DEF EndStep

(* The end of the user (HandleClientShutdown, ClientShutdown) keeps the    *)
(* flags Boolean.                                                          *)
LEMMA EndStepFlags ==
  ASSUME NEW t \in Threads, Flags, EndStep(t)
  PROVE  Flags'
<1> USE DEF Flags, endVars, sendVars, envVars
<1>1. CASE EndSend(t)
  BY <1>1 DEF EndSend
<1>2. CASE EndSendSet(t)
  BY <1>2 DEF EndSendSet
<1>3. CASE EndRecv(t)
  BY <1>3 DEF EndRecv
<1>4. CASE CloseCheck(t)
  BY <1>4 DEF CloseCheck
<1>5. CASE CloseWait(t)
  BY <1>5 DEF CloseWait
<1>6. CASE CloseFree(t)
  BY <1>6 DEF CloseFree
<1> QED
  BY <1>1, <1>2, <1>3, <1>4, <1>5, <1>6
  DEF EndStep

(* The end of the user (HandleClientShutdown, ClientShutdown) keeps        *)
(* SEND_MUTEX with the thread that is inside it.                           *)
LEMMA EndStepMutex ==
  ASSUME NEW t \in Threads, Types, MutexHeld, EndStep(t)
  PROVE  MutexHeld'
<1> USE ThreadsAssumption DEF Types, MutexHeld, MutexAt, Is, Goto, queueVars
<1>1. CASE EndSend(t)
  BY <1>1 DEF EndSend
<1>2. CASE EndSendSet(t)
  BY <1>2 DEF EndSendSet
<1>3. CASE EndRecv(t)
  BY <1>3 DEF EndRecv
<1>4. CASE CloseCheck(t)
  BY <1>4 DEF CloseCheck
<1>5. CASE CloseWait(t)
  BY <1>5 DEF CloseWait
<1>6. CASE CloseFree(t)
  BY <1>6 DEF CloseFree
<1> QED
  BY <1>1, <1>2, <1>3, <1>4, <1>5, <1>6
  DEF EndStep

(* The end of the user (HandleClientShutdown, ClientShutdown) leaves no    *)
(* thread that owes messages but is not adding any.                        *)
LEMMA EndStepPlaced ==
  ASSUME NEW t \in Threads, Types, Placed, Fits(t), EndStep(t)
  PROVE  Placed'
<1> USE DEF Types, Placed, AddLocations, Is, Goto, threadVars
<1>1. CASE EndSend(t)
  BY <1>1 DEF EndSend
<1>2. CASE EndSendSet(t)
  BY <1>2 DEF EndSendSet
<1>3. CASE EndRecv(t)
  BY <1>3 DEF EndRecv
<1>4. CASE CloseCheck(t)
  BY <1>4 DEF CloseCheck
<1>5. CASE CloseWait(t)
  BY <1>5 DEF CloseWait
<1>6. CASE CloseFree(t)
  BY <1>6 DEF CloseFree
<1> QED
  BY <1>1, <1>2, <1>3, <1>4, <1>5, <1>6
  DEF EndStep

(* The end of the user (HandleClientShutdown, ClientShutdown) arms a       *)
(* receive only after winning m_plRecvOccuring, and gives it back only     *)
(* after the receive was used.                                             *)
LEMMA EndStepReceives ==
  ASSUME NEW t \in Threads, Types, ReceiveOnce, EndStep(t)
  PROVE  ReceiveOnce'
<1> USE CountsAreNat DEF ReceiveOnce, Types, Is, Bit, recvVars, kernelVars
<1>1. CASE EndSend(t)
  <2>1. pc[t] = "x_send"
    BY <1>1 DEF EndSend, Is
  <2>2. PICK l \in {"x_set", "idle"} : Goto(t, l)
    BY <1>1 DEF EndSend
  <2>3. UNCHANGED <<recvs, completions, recvOccuring>>
    BY <1>1 DEF EndSend, recvVars, kernelVars
  <2> QED BY <2>1, <2>2, <2>3, QuietReceive
<1>2. CASE EndSendSet(t)
  <2>1. pc[t] = "x_set"
    BY <1>2 DEF EndSendSet, Is
  <2>2. PICK l \in {"idle"} : Goto(t, l)
    BY <1>2 DEF EndSendSet
  <2>3. UNCHANGED <<recvs, completions, recvOccuring>>
    BY <1>2 DEF EndSendSet, recvVars, kernelVars
  <2> QED BY <2>1, <2>2, <2>3, QuietReceive
<1>3. CASE EndRecv(t)
  <2>1. pc[t] = "x_recv"
    BY <1>3 DEF EndRecv, Is
  <2>2. PICK l \in {"x_check", "idle"} : Goto(t, l)
    BY <1>3 DEF EndRecv
  <2>3. UNCHANGED <<recvs, completions, recvOccuring>>
    BY <1>3 DEF EndRecv, recvVars, kernelVars
  <2> QED BY <2>1, <2>2, <2>3, QuietReceive
<1>4. CASE CloseCheck(t)
  <2>1. pc[t] = "x_check"
    BY <1>4 DEF CloseCheck, Is
  <2>2. PICK l \in {"x_wait", "x_free"} : Goto(t, l)
    BY <1>4 DEF CloseCheck
  <2>3. UNCHANGED <<recvs, completions, recvOccuring>>
    BY <1>4 DEF CloseCheck, recvVars, kernelVars
  <2> QED BY <2>1, <2>2, <2>3, QuietReceive
<1>5. CASE CloseWait(t)
  <2>1. pc[t] = "x_wait"
    BY <1>5 DEF CloseWait, Is
  <2>2. PICK l \in {"x_free"} : Goto(t, l)
    BY <1>5 DEF CloseWait
  <2>3. UNCHANGED <<recvs, completions, recvOccuring>>
    BY <1>5 DEF CloseWait, recvVars, kernelVars
  <2> QED BY <2>1, <2>2, <2>3, QuietReceive
<1>6. CASE CloseFree(t)
  <2>1. pc[t] = "x_free"
    BY <1>6 DEF CloseFree, Is
  <2>2. PICK l \in {"idle"} : Goto(t, l)
    BY <1>6 DEF CloseFree
  <2>3. UNCHANGED <<recvs, completions, recvOccuring>>
    BY <1>6 DEF CloseFree, recvVars, kernelVars
  <2> QED BY <2>1, <2>2, <2>3, QuietReceive
<1> QED
  BY <1>1, <1>2, <1>3, <1>4, <1>5, <1>6
  DEF EndStep

(* The end of the user (HandleClientShutdown, ClientShutdown) lets nobody  *)
(* begin to destroy the user who did not set DESTROYING.                   *)
LEMMA EndStepCloses ==
  ASSUME NEW t \in Threads, Types, Flags, CloseOnce, EndStep(t)
  PROVE  CloseOnce'
<1> USE CountsAreNat DEF CloseOnce, Flags, Is, Bit, endVars
<1>1. CASE EndSend(t)
  <2>1. pc[t] = "x_send"
    BY <1>1 DEF EndSend, Is
  <2>2. PICK l \in {"x_set", "idle"} : Goto(t, l)
    BY <1>1 DEF EndSend
  <2>3. destroying' = destroying
    BY <1>1 DEF EndSend, endVars
  <2> QED BY <2>1, <2>2, <2>3, QuietClose
<1>2. CASE EndSendSet(t)
  <2>1. pc[t] = "x_set"
    BY <1>2 DEF EndSendSet, Is
  <2>2. PICK l \in {"idle"} : Goto(t, l)
    BY <1>2 DEF EndSendSet
  <2>3. destroying' = destroying
    BY <1>2 DEF EndSendSet, endVars
  <2> QED BY <2>1, <2>2, <2>3, QuietClose
<1>3. CASE EndRecv(t)
  <2>1. pc[t] = "x_recv"
    BY <1>3 DEF EndRecv, Is
  <2>2. pc \in [Threads -> Locations]
    BY DEF Types
  <2>3. Bit(destroying)' = 1
    BY <1>3 DEF EndRecv, Bit
  <2>4. CASE destroying
    <3>1. Goto(t, "idle")
      BY <1>3, <2>4 DEF EndRecv
    <3>2. Bit(destroying) = 1
      BY <2>4 DEF Bit
    <3>3. Closing' = Closing
      BY ONLY <2>1, <2>2, <3>1, Counts, CountsAreNat DEF Bit
    <3> QED BY ONLY <2>3, <3>2, <3>3, CloseOnce DEF CloseOnce
  <2>5. CASE ~destroying
    <3>1. Goto(t, "x_check")
      BY <1>3, <2>5 DEF EndRecv
    <3>2. Bit(destroying) = 0
      BY <2>5 DEF Bit
    <3>3. Closing' = Closing + 1
      BY ONLY <2>1, <2>2, <3>1, Counts, CountsAreNat DEF Bit
    <3> QED BY ONLY <2>3, <3>2, <3>3, CloseOnce, CountsAreNat DEF CloseOnce
  <2> QED BY <2>4, <2>5
<1>4. CASE CloseCheck(t)
  <2>1. pc[t] = "x_check"
    BY <1>4 DEF CloseCheck, Is
  <2>2. PICK l \in {"x_wait", "x_free"} : Goto(t, l)
    BY <1>4 DEF CloseCheck
  <2>3. destroying' = destroying
    BY <1>4 DEF CloseCheck, endVars
  <2>4. pc \in [Threads -> Locations]
    BY DEF Types
  <2>5. Bit(destroying)' = Bit(destroying) /\ Bit(destroying) \in {0, 1}
    BY <2>3 DEF Bit
  <2>6. Closing' \in Int /\ Closing' =< Closing
    BY ONLY <2>1, <2>2, <2>4, Counts, CountsAreNat DEF Bit
  <2> QED BY ONLY <2>5, <2>6, CloseOnce, CountsAreNat DEF CloseOnce
<1>5. CASE CloseWait(t)
  <2>1. pc[t] = "x_wait"
    BY <1>5 DEF CloseWait, Is
  <2>2. PICK l \in {"x_free"} : Goto(t, l)
    BY <1>5 DEF CloseWait
  <2>3. destroying' = destroying
    BY <1>5 DEF CloseWait, endVars
  <2>4. pc \in [Threads -> Locations]
    BY DEF Types
  <2>5. Bit(destroying)' = Bit(destroying) /\ Bit(destroying) \in {0, 1}
    BY <2>3 DEF Bit
  <2>6. Closing' \in Int /\ Closing' =< Closing
    BY ONLY <2>1, <2>2, <2>4, Counts, CountsAreNat DEF Bit
  <2> QED BY ONLY <2>5, <2>6, CloseOnce, CountsAreNat DEF CloseOnce
<1>6. CASE CloseFree(t)
  <2>1. pc[t] = "x_free"
    BY <1>6 DEF CloseFree, Is
  <2>2. PICK l \in {"idle"} : Goto(t, l)
    BY <1>6 DEF CloseFree
  <2>3. destroying' = destroying
    BY <1>6 DEF CloseFree, endVars
  <2>4. pc \in [Threads -> Locations]
    BY DEF Types
  <2>5. Bit(destroying)' = Bit(destroying) /\ Bit(destroying) \in {0, 1}
    BY <2>3 DEF Bit
  <2>6. Closing' \in Int /\ Closing' =< Closing
    BY ONLY <2>1, <2>2, <2>4, Counts, CountsAreNat DEF Bit
  <2> QED BY ONLY <2>5, <2>6, CloseOnce, CountsAreNat DEF CloseOnce
<1> QED
  BY <1>1, <1>2, <1>3, <1>4, <1>5, <1>6
  DEF EndStep

(* Taking a completion or a broadcast keeps the types of what it changes.  *)
LEMMA PortStepTypes ==
  ASSUME NEW t \in Threads, Types, MutexHeld, Placed, Fits(t), PortStep(t)
  PROVE  Types'
<1> USE BoundsAssumption DEF Types, Is, Goto, Locations, AddLocations,
      SendLocations, RecvLocations, EndLocations, Jobs, Ports, Lefts,
      MaxAnswers, threadVars, queueVars, sendVars, recvVars, endVars,
      kernelVars,
      envVars
<1>1. CASE TakeCompletion(t)
  <2>1. /\ completions # <<>> /\ completions \in Seq(Ports)
        /\ completions' = Tail(completions)
        /\ job' = [job EXCEPT ![t] = Head(completions)]
    BY <1>1 DEF TakeCompletion
  <2>2. completions' \in Seq(Ports) /\ Head(completions) \in Ports
    BY ONLY <2>1, FirstAndRest
  <2>3. Head(completions) \in Jobs
    BY ONLY <2>2 DEF Ports, Jobs
  <2>4. PICK l \in {"r_parse", "x_recv", "s_peek", "x_send"} : Goto(t, l)
    BY <1>1, TakeGoes
  <2>5. job' \in [Threads -> Jobs] /\ pc' \in [Threads -> Locations]
    BY <2>1, <2>3, <2>4
  <2>6. UNCHANGED <<answers, mutex, queue, pushed, moved, sendOccuring,
                    recvOccuring,
                    recvMoved, inflight, recvs, wire, requests, broadcasts,
                    faults>>
    BY <1>1 DEF TakeCompletion
  <2> QED BY ONLY Types, <2>2, <2>5, <2>6 DEF Types
<1>2. CASE Broadcast(t)
  BY <1>2 DEF Broadcast
<1> QED
  BY <1>1, <1>2
  DEF PortStep

(* Taking a completion or a broadcast keeps the flags Boolean.             *)
LEMMA PortStepFlags ==
  ASSUME NEW t \in Threads, Flags, PortStep(t)
  PROVE  Flags'
<1> USE DEF Flags, endVars, sendVars, envVars
<1>1. CASE TakeCompletion(t)
  BY <1>1 DEF TakeCompletion
<1>2. CASE Broadcast(t)
  BY <1>2 DEF Broadcast
<1> QED
  BY <1>1, <1>2
  DEF PortStep

(* Taking a completion or a broadcast keeps SEND_MUTEX with the thread     *)
(* that is inside it.                                                      *)
LEMMA PortStepMutex ==
  ASSUME NEW t \in Threads, Types, MutexHeld, PortStep(t)
  PROVE  MutexHeld'
<1> USE ThreadsAssumption DEF Types, MutexHeld, MutexAt, Is, Goto, queueVars
<1>1. CASE TakeCompletion(t)
  <2>1. \E l \in {"r_parse", "x_recv", "s_peek", "x_send"} : Goto(t, l)
    BY <1>1, TakeGoes
  <2>2. UNCHANGED <<mutex, queue>>
    BY <1>1 DEF TakeCompletion
  <2> QED BY <2>1, <2>2
<1>2. CASE Broadcast(t)
  BY <1>2 DEF Broadcast
<1> QED
  BY <1>1, <1>2
  DEF PortStep

(* Taking a completion or a broadcast leaves no thread that owes messages  *)
(* but is not adding any.                                                  *)
LEMMA PortStepPlaced ==
  ASSUME NEW t \in Threads, Types, Placed, Fits(t), PortStep(t)
  PROVE  Placed'
<1> USE DEF Types, Placed, AddLocations, Is, Goto, threadVars
<1>1. CASE TakeCompletion(t)
  <2>1. /\ \E l \in {"r_parse", "x_recv", "s_peek", "x_send"} : Goto(t, l)
        /\ answers' = answers /\ pc[t] = "idle"
        /\ \A u \in Threads : u # t => job'[u] = job[u]
    BY <1>1, TakeGoes DEF TakeCompletion
  <2> QED BY <2>1
<1>2. CASE Broadcast(t)
  BY <1>2 DEF Broadcast
<1> QED
  BY <1>1, <1>2
  DEF PortStep

(* Taking a completion or a broadcast arms a receive only after winning    *)
(* m_plRecvOccuring, and gives it back only after the receive was used.    *)
LEMMA PortStepReceives ==
  ASSUME NEW t \in Threads, Types, ReceiveOnce, PortStep(t)
  PROVE  ReceiveOnce'
<1> USE CountsAreNat DEF ReceiveOnce, Types, Is, Bit, recvVars, kernelVars
<1>1. CASE TakeCompletion(t)
  <2>1. pc[t] = "idle"
    BY <1>1 DEF TakeCompletion, Is
  <2>2. PICK l \in {"r_parse", "x_recv", "s_peek", "x_send"} :
          Goto(t, l) /\ (l = "r_parse" => Head(completions).op = "recv")
    BY <1>1, TakeGoes
  <2>3. /\ pc \in [Threads -> Locations] /\ recvs \in Nat
        /\ recvOccuring \in {0, 1} /\ completions \in Seq(Ports)
    BY ONLY Types DEF Types
  <2>4. /\ completions # <<>> /\ completions' = Tail(completions)
        /\ UNCHANGED <<recvs, recvOccuring>>
    BY <1>1 DEF TakeCompletion, recvVars, kernelVars
  <2>6. Arrived("recv")' = Arrived("recv") - Bit(Head(completions).op = "recv")
    BY ONLY <2>3, <2>4, ArrivedTake
  <2>7. Receiving' = Receiving + Bit(l = "r_parse")
    BY ONLY <2>1, <2>2, <2>3, Counts, CountsAreNat DEF Bit
  <2>8. Bit(l = "r_parse") =< Bit(Head(completions).op = "recv")
    BY ONLY <2>2 DEF Bit
  <2>9. /\ Bit(l = "r_parse") \in {0, 1} /\ Arrived("recv") \in Nat
        /\ Bit(Head(completions).op = "recv") \in {0, 1}
    BY ONLY <2>3, WaitingFinite DEF Bit
  <2> QED BY ONLY <2>3, <2>4, <2>6, <2>7, <2>8, <2>9, ReceiveOnce, CountsAreNat
          DEF ReceiveOnce
<1>2. CASE Broadcast(t)
  <2>1. pc[t] = "idle"
    BY <1>2 DEF Broadcast, Is
  <2>2. PICK l \in {"a_lock"} : Goto(t, l)
    BY <1>2 DEF Broadcast
  <2>3. UNCHANGED <<recvs, completions, recvOccuring>>
    BY <1>2 DEF Broadcast, recvVars, kernelVars
  <2> QED BY <2>1, <2>2, <2>3, QuietReceive
<1> QED
  BY <1>1, <1>2
  DEF PortStep

(* Taking a completion or a broadcast lets nobody begin to destroy the     *)
(* user who did not set DESTROYING.                                        *)
LEMMA PortStepCloses ==
  ASSUME NEW t \in Threads, Types, Flags, CloseOnce, PortStep(t)
  PROVE  CloseOnce'
<1> USE CountsAreNat DEF CloseOnce, Flags, Is, Bit, endVars
<1>1. CASE TakeCompletion(t)
  <2>1. pc[t] = "idle"
    BY <1>1 DEF TakeCompletion, Is
  <2>2. PICK l \in {"r_parse", "x_recv", "s_peek", "x_send"} : Goto(t, l)
    BY <1>1, TakeGoes
  <2>3. destroying' = destroying
    BY <1>1 DEF TakeCompletion, endVars
  <2> QED BY <2>1, <2>2, <2>3, QuietClose
<1>2. CASE Broadcast(t)
  <2>1. pc[t] = "idle"
    BY <1>2 DEF Broadcast, Is
  <2>2. PICK l \in {"a_lock"} : Goto(t, l)
    BY <1>2 DEF Broadcast
  <2>3. destroying' = destroying
    BY <1>2 DEF Broadcast, endVars
  <2> QED BY <2>1, <2>2, <2>3, QuietClose
<1> QED
  BY <1>1, <1>2
  DEF PortStep

(* The kernel and the connection keeps the types of what it changes.       *)
LEMMA OutStepTypes ==
  ASSUME Types, OutStep
  PROVE  Types'
<1> USE DEF threadVars, queueVars, sendVars, recvVars, endVars, kernelVars,
            envVars
<1>1. CASE SendCompletes
  <2>1. PICK c \in Ports :
          c.op = "send" /\ completions' = Append(completions, c)
    BY ONLY <1>1, Types, SendCompletesFits
  <2>2. /\ wire' \in Seq(Messages)
        /\ inflight' \in Seq([msg : Messages, left : Lefts])
    BY ONLY <1>1, Types, SendCompletesFits
  <2>3. completions' \in Seq(Ports)
    <3>1. completions \in Seq(Ports)
      BY ONLY Types DEF Types
    <3> QED BY ONLY <2>1, <3>1
  <2>4. UNCHANGED <<pc, job, answers, mutex, queue, pushed, moved,
                    sendOccuring,
                    recvOccuring, recvMoved, recvs, requests, broadcasts,
                    faults>>
    BY <1>1 DEF SendCompletes
  <2> QED BY ONLY Types, <2>2, <2>3, <2>4 DEF Types
<1>2. CASE RecvCompletes
  <2>1. PICK c \in Ports :
          c.op = "recv" /\ completions' = Append(completions, c)
    BY ONLY <1>2, Types, RecvCompletesFits
  <2>2. requests' \in Nat /\ recvs' \in Nat
    BY ONLY <1>2, Types, RecvCompletesFits
  <2>3. completions' \in Seq(Ports)
    <3>1. completions \in Seq(Ports)
      BY ONLY Types DEF Types
    <3> QED BY ONLY <2>1, <3>1
  <2>4. UNCHANGED <<pc, job, answers, mutex, queue, pushed, moved,
                    sendOccuring,
                    recvOccuring, recvMoved, inflight, wire, broadcasts,
                    faults>>
    BY <1>2 DEF RecvCompletes
  <2> QED BY ONLY Types, <2>2, <2>3, <2>4 DEF Types
<1>3. CASE ConnectionLost
  BY <1>3 DEF ConnectionLost, Types
<1> QED
  BY <1>1, <1>2, <1>3
  DEF OutStep

(* The kernel and the connection keeps the flags Boolean.                  *)
LEMMA OutStepFlags ==
  ASSUME Flags, OutStep
  PROVE  Flags'
<1> USE DEF Flags, endVars, sendVars, envVars
<1>1. CASE SendCompletes
  BY <1>1 DEF SendCompletes
<1>2. CASE RecvCompletes
  BY <1>2 DEF RecvCompletes
<1>3. CASE ConnectionLost
  BY <1>3 DEF ConnectionLost
<1> QED
  BY <1>1, <1>2, <1>3
  DEF OutStep

(* The kernel and the connection keeps SEND_MUTEX with the thread that is  *)
(* inside it.                                                              *)
LEMMA OutStepMutex ==
  ASSUME Types, MutexHeld, OutStep
  PROVE  MutexHeld'
<1> USE ThreadsAssumption DEF Types, MutexHeld, MutexAt, Is, Goto, queueVars
<1>1. CASE SendCompletes
  BY <1>1 DEF SendCompletes
<1>2. CASE RecvCompletes
  BY <1>2 DEF RecvCompletes
<1>3. CASE ConnectionLost
  BY <1>3 DEF ConnectionLost
<1> QED
  BY <1>1, <1>2, <1>3
  DEF OutStep

(* The kernel and the connection leaves no thread that owes messages but   *)
(* is not adding any.                                                      *)
LEMMA OutStepPlaced ==
  ASSUME Types, Placed, OutStep
  PROVE  Placed'
<1> USE DEF Types, Placed, AddLocations, Is, Goto, threadVars
<1>1. CASE SendCompletes
  BY <1>1 DEF SendCompletes
<1>2. CASE RecvCompletes
  BY <1>2 DEF RecvCompletes
<1>3. CASE ConnectionLost
  BY <1>3 DEF ConnectionLost
<1> QED
  BY <1>1, <1>2, <1>3
  DEF OutStep

(* The kernel and the connection arms a receive only after winning         *)
(* m_plRecvOccuring, and gives it back only after the receive was used.    *)
LEMMA OutStepReceives ==
  ASSUME Types, ReceiveOnce, OutStep
  PROVE  ReceiveOnce'
<1> USE CountsAreNat DEF ReceiveOnce, Types, Is, Bit, recvVars, kernelVars
<1>1. CASE SendCompletes
  <2>1. UNCHANGED <<pc, recvs, recvOccuring>>
    BY <1>1 DEF SendCompletes, recvVars, kernelVars
  <2>2. PICK c \in Ports :
          c.op = "send" /\ completions' = Append(completions, c)
    BY ONLY <1>1, Types, SendCompletesFits
  <2>3. /\ pc \in [Threads -> Locations] /\ recvs \in Nat
        /\ recvOccuring \in {0, 1} /\ completions \in Seq(Ports)
    BY ONLY Types DEF Types
  <2>4. Arrived("recv")' = Arrived("recv") + Bit(c.op = "recv")
    BY ONLY <2>2, <2>3, ArrivedAdd
  <2> QED BY ONLY <2>1, <2>2, <2>3, <2>4, ReceiveOnce, CountsSame,
                  CountsAreNat, WaitingFinite
          DEF ReceiveOnce, Bit
<1>2. CASE RecvCompletes
  <2>1. recvs' = recvs - 1 /\ recvs > 0 /\ UNCHANGED <<pc, recvOccuring>>
    BY <1>2 DEF RecvCompletes, recvVars, kernelVars
  <2>2. PICK c \in Ports :
          c.op = "recv" /\ completions' = Append(completions, c)
    BY ONLY <1>2, Types, RecvCompletesFits
  <2>3. /\ pc \in [Threads -> Locations] /\ recvs \in Nat
        /\ recvOccuring \in {0, 1} /\ completions \in Seq(Ports)
    BY ONLY Types DEF Types
  <2>4. Arrived("recv")' = Arrived("recv") + Bit(c.op = "recv")
    BY ONLY <2>2, <2>3, ArrivedAdd
  <2> QED BY ONLY <2>1, <2>2, <2>3, <2>4, ReceiveOnce, CountsSame,
                  CountsAreNat, WaitingFinite
          DEF ReceiveOnce, Bit
<1>3. CASE ConnectionLost
  BY <1>3, Counts, CountsSame, ArrivedSame, WaitingFinite DEF ConnectionLost
<1> QED
  BY <1>1, <1>2, <1>3
  DEF OutStep

(* The kernel and the connection lets nobody begin to destroy the user who *)
(* did not set DESTROYING.                                                 *)
LEMMA OutStepCloses ==
  ASSUME Types, Flags, CloseOnce, OutStep
  PROVE  CloseOnce'
<1> USE CountsAreNat DEF CloseOnce, Flags, Is, Bit, endVars
<1>1. CASE SendCompletes
  <2>1. UNCHANGED <<pc, destroying>>
    BY <1>1 DEF SendCompletes, endVars
  <2>2. Bit(destroying)' = Bit(destroying)
    BY <2>1 DEF Bit
  <2> QED BY ONLY <2>1, <2>2, CloseOnce, CountsSame DEF CloseOnce
<1>2. CASE RecvCompletes
  <2>1. UNCHANGED <<pc, destroying>>
    BY <1>2 DEF RecvCompletes, endVars
  <2>2. Bit(destroying)' = Bit(destroying)
    BY <2>1 DEF Bit
  <2> QED BY ONLY <2>1, <2>2, CloseOnce, CountsSame DEF CloseOnce
<1>3. CASE ConnectionLost
  <2>1. UNCHANGED <<pc, destroying>>
    BY <1>3 DEF ConnectionLost, endVars
  <2>2. Bit(destroying)' = Bit(destroying)
    BY <2>1 DEF Bit
  <2> QED BY ONLY <2>1, <2>2, CloseOnce, CountsSame DEF CloseOnce
<1> QED
  BY <1>1, <1>2, <1>3
  DEF OutStep

(* Adding a message (ManageMsgQueueAdd) adds no message that was not in    *)
(* the ledger.                                                             *)
LEMMA AddStepBudget ==
  ASSUME NEW t \in Threads, Types, Placed, ReceiveOnce, Budget, AddStep(t)
  PROVE  Budget'
<1>1. CASE AddPush(t)
  <2>1. pc[t] = "a_lock" /\ Goto(t, "a_compare")
    BY <1>1 DEF AddPush, Is
  <2>2. pushed' = pushed + 1 /\ UNCHANGED <<broadcasts, requests, answers>>
    BY <1>1
    DEF AddPush, threadVars, queueVars, sendVars, recvVars, endVars,
        kernelVars, envVars
  <2>3. pc \in [Threads -> Locations] /\ answers \in [Threads -> 0 .. 1]
    BY ONLY Types DEF Types
  <2>4. Due' =< Due
    <3>1. /\ UNCHANGED <<completions, recvMoved>>
          /\ \A u \in Threads : u # t => job'[u] = job[u]
      BY <1>1 DEF AddPush, Types, kernelVars, recvVars
    <3>2. WholeArrived' => WholeArrived
      BY <2>1, <3>1, QuietWhole
    <3> QED BY <3>2, DueFalls
  <2>5. Handling' = Handling + 0 - 0 /\ Locking' = Locking + 0 - 1
    BY ONLY <2>1, <2>3, t \in Threads, Counts DEF Bit
  <2>6. Owed' = Owed
    BY <2>2, OwedSame
  <2>7. pushed' \in Nat /\ broadcasts' \in Nat /\ requests' \in Nat
    BY ONLY Types, LedgerIsNat, <2>2, <2>4, <2>5, <2>6
  <2>8. Ledger' =< Ledger
    BY ONLY Types, LedgerIsNat, <2>2, <2>4, <2>5, <2>6 DEF Ledger
  <2> QED BY ONLY Types, Budget, <2>7, <2>8, LedgerKept
<1>2. CASE AddDefers(t)
  <2>1. pc[t] \notin {"a_lock", "handle"} /\ AddReturns(t)
    BY <1>2 DEF AddDefers, Is
  <2>2. UNCHANGED <<pushed, broadcasts, requests, completions, recvMoved, job>>
    BY <1>2
    DEF AddDefers, threadVars, queueVars, sendVars, recvVars, endVars,
        kernelVars, envVars
  <2>3. Due' =< Due
    <3>1. PICK l \in {"a_lock", "idle"} : Goto(t, l)
      BY <2>1, AddReturnsTypes
    <3>2. WholeArrived' => WholeArrived
      BY <2>2, <3>1, QuietWhole
    <3> QED BY <3>2, DueFalls
  <2>4. /\ Locking' + Owed' =< Locking + Owed
        /\ Handling' = Handling /\ Locking' \in Nat /\ Owed' \in Nat
    BY <2>1, AddReturnsLedger
  <2>5. pushed' \in Nat /\ broadcasts' \in Nat /\ requests' \in Nat
    BY ONLY Types, LedgerIsNat, <2>2, <2>3, <2>4
  <2>6. Ledger' =< Ledger
    BY ONLY Types, LedgerIsNat, <2>2, <2>3, <2>4 DEF Ledger
  <2> QED BY ONLY Types, Budget, <2>5, <2>6, LedgerKept
<1>3. CASE AddClaims(t)
  <2>1. pc[t] = "a_compare"
    BY <1>3 DEF AddClaims, Is
  <2>2. PICK l \in {"a_reset"} : Goto(t, l)
    BY <1>3 DEF AddClaims
  <2>3. UNCHANGED <<pushed, broadcasts, requests, answers, completions,
                    recvMoved, job>>
    BY <1>3
    DEF AddClaims, threadVars, queueVars, sendVars, recvVars, endVars,
        kernelVars, envVars
  <2>4. WholeArrived' => WholeArrived
    BY <2>2, <2>3, QuietWhole
  <2> QED BY <2>1, <2>2, <2>3, <2>4, QuietBudget
<1>4. CASE AddReset(t)
  <2>1. pc[t] = "a_reset"
    BY <1>4 DEF AddReset, Is
  <2>2. PICK l \in {"a_send"} : Goto(t, l)
    BY <1>4 DEF AddReset
  <2>3. UNCHANGED <<pushed, broadcasts, requests, answers, completions,
                    recvMoved, job>>
    BY <1>4
    DEF AddReset, threadVars, queueVars, sendVars, recvVars, endVars,
        kernelVars, envVars
  <2>4. WholeArrived' => WholeArrived
    BY <2>2, <2>3, QuietWhole
  <2> QED BY <2>1, <2>2, <2>3, <2>4, QuietBudget
<1>5. CASE AddSends(t)
  <2>1. pc[t] \notin {"a_lock", "handle"} /\ AddReturns(t)
    BY <1>5 DEF AddSends, Is
  <2>2. UNCHANGED <<pushed, broadcasts, requests, completions, recvMoved, job>>
    BY <1>5
    DEF AddSends, threadVars, queueVars, sendVars, recvVars, endVars,
        kernelVars, envVars
  <2>3. Due' =< Due
    <3>1. PICK l \in {"a_lock", "idle"} : Goto(t, l)
      BY <2>1, AddReturnsTypes
    <3>2. WholeArrived' => WholeArrived
      BY <2>2, <3>1, QuietWhole
    <3> QED BY <3>2, DueFalls
  <2>4. /\ Locking' + Owed' =< Locking + Owed
        /\ Handling' = Handling /\ Locking' \in Nat /\ Owed' \in Nat
    BY <2>1, AddReturnsLedger
  <2>5. pushed' \in Nat /\ broadcasts' \in Nat /\ requests' \in Nat
    BY ONLY Types, LedgerIsNat, <2>2, <2>3, <2>4
  <2>6. Ledger' =< Ledger
    BY ONLY Types, LedgerIsNat, <2>2, <2>3, <2>4 DEF Ledger
  <2> QED BY ONLY Types, Budget, <2>5, <2>6, LedgerKept
<1>6. CASE AddSendFails(t)
  <2>1. pc[t] = "a_send"
    BY <1>6 DEF AddSendFails, Is
  <2>2. UNCHANGED <<pushed, broadcasts, requests, completions, recvMoved, job>>
    BY <1>6
    DEF AddSendFails, CountFault, threadVars, queueVars, sendVars, recvVars,
        endVars, kernelVars, envVars
  <2>3. CASE AddReturns(t)
    <3>1. PICK l \in {"a_lock", "idle"} : Goto(t, l)
      BY <2>3, AddReturnsTypes
    <3>2. Due' =< Due
      <4>1. WholeArrived' => WholeArrived
        BY <2>2, <3>1, QuietWhole
      <4> QED BY <4>1, DueFalls
    <3>3. /\ Locking' + Owed' =< Locking + Owed
          /\ Handling' = Handling /\ Locking' \in Nat /\ Owed' \in Nat
      BY <2>1, <2>3, AddReturnsLedger
    <3>4. pushed' \in Nat /\ broadcasts' \in Nat /\ requests' \in Nat
      BY ONLY Types, LedgerIsNat, <2>2, <3>2, <3>3
    <3>5. Ledger' =< Ledger
      BY ONLY Types, LedgerIsNat, <2>2, <3>2, <3>3 DEF Ledger
    <3> QED BY ONLY Types, Budget, <3>4, <3>5, LedgerKept
  <2>4. CASE Goto(t, "idle") /\ answers' = [answers EXCEPT ![t] = 0]
    <3>1. pc \in [Threads -> Locations] /\ answers \in [Threads -> 0 .. 1]
      BY ONLY Types DEF Types
    <3>2. Due' =< Due
      <4>1. WholeArrived' => WholeArrived
        BY <2>2, <2>4, QuietWhole
      <4> QED BY <4>1, DueFalls
    <3>3. Handling' = Handling + 0 - 0 /\ Locking' = Locking + 0 - 0
      BY ONLY <2>1, <2>4, <3>1, t \in Threads, Counts DEF Bit
    <3>4. Owed' \in Nat /\ Owed' =< Owed
      <4>1. Owed' = Owed + Bit(0 = 1) - Bit(answers[t] = 1)
        <5>1. 0 \in 0 .. 1
          OBVIOUS
        <5> QED BY ONLY <2>4, <3>1, <5>1, OwedCounts, t \in Threads
      <4>2. Bit(answers[t] = 1) = 0 \/ (Bit(answers[t] = 1) = 1 /\ Owed # 0)
        <5>1. answers[t] = 1 => Owing # {}
          BY DEF Owing
        <5>2. answers[t] = 1 => Owed # 0
          BY ONLY <5>1, OwedIsNat, FS_EmptySet DEF Owed
        <5>3. answers[t] = 1 => Bit(answers[t] = 1) = 1
          BY DEF Bit
        <5>4. answers[t] # 1 => Bit(answers[t] = 1) = 0
          BY DEF Bit
        <5> QED BY ONLY <5>2, <5>3, <5>4
      <4>3. Bit(0 = 1) = 0
        BY DEF Bit
      <4> QED BY ONLY <4>1, <4>2, <4>3, OwedIsNat
    <3>5. pushed' \in Nat /\ broadcasts' \in Nat /\ requests' \in Nat
      BY ONLY Types, LedgerIsNat, <2>2, <3>2, <3>3, <3>4
    <3>6. Ledger' =< Ledger
      BY ONLY Types, LedgerIsNat, <2>2, <3>2, <3>3, <3>4 DEF Ledger
    <3> QED BY ONLY Types, Budget, <3>5, <3>6, LedgerKept
  <2> QED BY <1>6, <2>3, <2>4 DEF AddSendFails
<1> QED
  BY <1>1, <1>2, <1>3, <1>4, <1>5, <1>6
  DEF AddStep

(* The completion of a send (WorkerSendOP, ManageSendQueue) adds no        *)
(* message that was not in the ledger.                                     *)
LEMMA SendStepBudget ==
  ASSUME NEW t \in Threads, Types, Placed, ReceiveOnce, Budget, SendStep(t)
  PROVE  Budget'
<1>1. CASE SendPartial(t)
  <2>1. pc[t] = "s_peek"
    BY <1>1 DEF SendPartial, SendIsPartial, RecvIsPartial, Is, Is
  <2>2. PICK l \in {"idle"} : Goto(t, l)
    BY <1>1 DEF SendPartial
  <2>3. UNCHANGED <<pushed, broadcasts, requests, answers, completions,
                    recvMoved, job>>
    BY <1>1
    DEF SendPartial, SendPosted, SendIsPartial, SendBook, threadVars,
        queueVars, sendVars, recvVars, endVars, kernelVars, envVars
  <2>4. WholeArrived' => WholeArrived
    BY <2>2, <2>3, QuietWhole
  <2> QED BY <2>1, <2>2, <2>3, <2>4, QuietBudget
<1>2. CASE SendPartialFails(t)
  <2>1. UNCHANGED <<pc, pushed, broadcasts, requests, answers, completions,
                    recvMoved, job>>
    BY <1>2
    DEF SendPartialFails, SendIsPartial, SendBook, SendCanFail, CountFault,
        threadVars, queueVars, sendVars, recvVars, endVars, kernelVars, envVars
  <2>2. WholeArrived' => WholeArrived
    BY <2>1 DEF WholeArrived
  <2> QED BY <2>1, <2>2, StillBudget
<1>3. CASE SendWhole(t)
  <2>1. pc[t] = "s_peek"
    BY <1>3 DEF SendWhole, SendIsPartial, RecvIsPartial, Is, Is
  <2>2. PICK l \in {"s_pop"} : Goto(t, l)
    BY <1>3 DEF SendWhole
  <2>3. UNCHANGED <<pushed, broadcasts, requests, answers, completions,
                    recvMoved, job>>
    BY <1>3
    DEF SendWhole, SendIsPartial, SendBook, threadVars, queueVars, sendVars,
        recvVars, endVars, kernelVars, envVars
  <2>4. WholeArrived' => WholeArrived
    BY <2>2, <2>3, QuietWhole
  <2> QED BY <2>1, <2>2, <2>3, <2>4, QuietBudget
<1>4. CASE QueueIsEmpty(t)
  <2>1. UNCHANGED <<pc, pushed, broadcasts, requests, answers, completions,
                    recvMoved, job>>
    BY <1>4
    DEF QueueIsEmpty, threadVars, queueVars, sendVars, recvVars, endVars,
        kernelVars, envVars
  <2>2. WholeArrived' => WholeArrived
    BY <2>1 DEF WholeArrived
  <2> QED BY <2>1, <2>2, StillBudget
<1>5. CASE SendPop(t)
  <2>1. pc[t] = "s_pop"
    BY <1>5 DEF SendPop, Is
  <2>2. PICK l \in {"s_decrement", "s_next"} : Goto(t, l)
    BY <1>5 DEF SendPop
  <2>3. UNCHANGED <<pushed, broadcasts, requests, answers, completions,
                    recvMoved, job>>
    BY <1>5
    DEF SendPop, threadVars, queueVars, sendVars, recvVars, endVars,
        kernelVars, envVars
  <2>4. WholeArrived' => WholeArrived
    BY <2>2, <2>3, QuietWhole
  <2> QED BY <2>1, <2>2, <2>3, <2>4, QuietBudget
<1>6. CASE SendDecrement(t)
  <2>1. pc[t] = "s_decrement"
    BY <1>6 DEF SendDecrement, Is
  <2>2. PICK l \in {"s_set"} : Goto(t, l)
    BY <1>6 DEF SendDecrement
  <2>3. UNCHANGED <<pushed, broadcasts, requests, answers, completions,
                    recvMoved, job>>
    BY <1>6
    DEF SendDecrement, threadVars, queueVars, sendVars, recvVars, endVars,
        kernelVars, envVars
  <2>4. WholeArrived' => WholeArrived
    BY <2>2, <2>3, QuietWhole
  <2> QED BY <2>1, <2>2, <2>3, <2>4, QuietBudget
<1>7. CASE SendSet(t)
  <2>1. pc[t] = "s_set"
    BY <1>7 DEF SendSet, Is
  <2>2. PICK l \in {"s_rearm"} : Goto(t, l)
    BY <1>7 DEF SendSet
  <2>3. UNCHANGED <<pushed, broadcasts, requests, answers, completions,
                    recvMoved, job>>
    BY <1>7
    DEF SendSet, threadVars, queueVars, sendVars, recvVars, endVars,
        kernelVars, envVars
  <2>4. WholeArrived' => WholeArrived
    BY <2>2, <2>3, QuietWhole
  <2> QED BY <2>1, <2>2, <2>3, <2>4, QuietBudget
<1>8. CASE SendNext(t)
  <2>1. pc[t] = "s_next"
    BY <1>8 DEF SendNext, Is
  <2>2. PICK l \in {"s_rearm"} : Goto(t, l)
    BY <1>8 DEF SendNext
  <2>3. UNCHANGED <<pushed, broadcasts, requests, answers, completions,
                    recvMoved, job>>
    BY <1>8
    DEF SendNext, SendPosted, threadVars, queueVars, sendVars, recvVars,
        endVars, kernelVars, envVars
  <2>4. WholeArrived' => WholeArrived
    BY <2>2, <2>3, QuietWhole
  <2> QED BY <2>1, <2>2, <2>3, <2>4, QuietBudget
<1>9. CASE SendNextFails(t)
  <2>1. pc[t] = "s_next"
    BY <1>9 DEF SendNextFails, Is
  <2>2. PICK l \in {"s_fail"} : Goto(t, l)
    BY <1>9 DEF SendNextFails
  <2>3. UNCHANGED <<pushed, broadcasts, requests, answers, completions,
                    recvMoved, job>>
    BY <1>9
    DEF SendNextFails, SendCanFail, CountFault, threadVars, queueVars,
        sendVars, recvVars, endVars, kernelVars, envVars
  <2>4. WholeArrived' => WholeArrived
    BY <2>2, <2>3, QuietWhole
  <2> QED BY <2>1, <2>2, <2>3, <2>4, QuietBudget
<1>10. CASE SendGivesUp(t)
  <2>1. pc[t] = "s_fail"
    BY <1>10 DEF SendGivesUp, Is
  <2>2. PICK l \in {"x_send", "x_recv"} : Goto(t, l)
    BY <1>10 DEF SendGivesUp
  <2>3. UNCHANGED <<pushed, broadcasts, requests, answers, completions,
                    recvMoved, job>>
    BY <1>10
    DEF SendGivesUp, threadVars, queueVars, sendVars, recvVars, endVars,
        kernelVars, envVars
  <2>4. WholeArrived' => WholeArrived
    BY <2>2, <2>3, QuietWhole
  <2> QED BY <2>1, <2>2, <2>3, <2>4, QuietBudget
<1>11. CASE Rearm(t)
  <2>1. pc[t] = "s_rearm"
    BY <1>11 DEF Rearm, Is
  <2>2. PICK l \in {"s_recv", "idle"} : Goto(t, l)
    BY <1>11 DEF Rearm
  <2>3. UNCHANGED <<pushed, broadcasts, requests, answers, completions,
                    recvMoved, job>>
    BY <1>11
    DEF Rearm, threadVars, queueVars, sendVars, recvVars, endVars, kernelVars,
        envVars
  <2>4. WholeArrived' => WholeArrived
    BY <2>2, <2>3, QuietWhole
  <2> QED BY <2>1, <2>2, <2>3, <2>4, QuietBudget
<1>12. CASE RecvPosted(t)
  <2>1. pc[t] = "s_recv"
    BY <1>12 DEF RecvPosted, Is
  <2>2. PICK l \in {"idle"} : Goto(t, l)
    BY <1>12 DEF RecvPosted
  <2>3. UNCHANGED <<pushed, broadcasts, requests, answers, completions,
                    recvMoved, job>>
    BY <1>12
    DEF RecvPosted, threadVars, queueVars, sendVars, recvVars, endVars,
        kernelVars, envVars
  <2>4. WholeArrived' => WholeArrived
    BY <2>2, <2>3, QuietWhole
  <2> QED BY <2>1, <2>2, <2>3, <2>4, QuietBudget
<1>13. CASE RecvPostFails(t)
  <2>1. UNCHANGED <<pc, pushed, broadcasts, requests, answers, completions,
                    recvMoved, job>>
    BY <1>13
    DEF RecvPostFails, threadVars, queueVars, sendVars, recvVars, endVars,
        kernelVars, envVars
  <2>2. WholeArrived' => WholeArrived
    BY <2>1 DEF WholeArrived
  <2> QED BY <2>1, <2>2, StillBudget
<1> QED
  BY <1>1, <1>2, <1>3, <1>4, <1>5, <1>6, <1>7, <1>8, <1>9, <1>10,
     <1>11, <1>12, <1>13
  DEF SendStep

(* The completion of a receive (WorkerRecvOP and the handlers) adds no     *)
(* message that was not in the ledger.                                     *)
LEMMA RecvStepBudget ==
  ASSUME NEW t \in Threads, Types, Placed, ReceiveOnce, Budget, RecvStep(t)
  PROVE  Budget'
<1>1. CASE RecvPartial(t)
  <2>1. pc[t] = "r_parse"
    BY <1>1 DEF RecvPartial, SendIsPartial, RecvIsPartial, Is, Is
  <2>2. PICK l \in {"idle"} : Goto(t, l)
    BY <1>1 DEF RecvPartial
  <2>3. UNCHANGED <<pushed, broadcasts, requests, answers, completions>>
    BY <1>1
    DEF RecvPartial, threadVars, queueVars, sendVars, recvVars, endVars,
        kernelVars, envVars
  <2>4. ~WholeArrived'
    BY <2>1, <2>2, <2>3, ReaderLeaves
  <2> QED BY <2>1, <2>2, <2>3, <2>4, QuietBudget
<1>2. CASE RecvPartialFails(t)
  <2>1. UNCHANGED <<pc, pushed, broadcasts, requests, answers, completions,
                    recvMoved, job>>
    BY <1>2
    DEF RecvPartialFails, RecvIsPartial, threadVars, queueVars, sendVars,
        recvVars, endVars, kernelVars, envVars
  <2>2. WholeArrived' => WholeArrived
    BY <2>1 DEF WholeArrived
  <2> QED BY <2>1, <2>2, StillBudget
<1>3. CASE RecvWhole(t)
  <2>1. pc[t] = "r_parse"
    BY <1>3 DEF RecvWhole, SendIsPartial, RecvIsPartial, Is, Is
  <2>2. Goto(t, "handle")
    BY <1>3 DEF RecvWhole
  <2>3. pc \in [Threads -> Locations] /\ answers \in [Threads -> 0 .. 1]
    BY ONLY Types DEF Types
  <2>4. UNCHANGED <<pushed, broadcasts, requests, answers, completions>>
    BY <1>3
    DEF RecvWhole, threadVars, queueVars, sendVars, recvVars, endVars,
        kernelVars, envVars
  <2>5. Due' = 0
    <3>1. ~WholeArrived'
      BY <2>1, <2>2, <2>4, ReaderLeaves
    <3> QED BY <3>1, DueFalls
  <2>6. Due = 1
    <3>1. job[t].bytes \in 0 .. MsgSize /\ recvMoved \in 0 .. (MsgSize - 1)
      BY ONLY Types, t \in Threads DEF Types, Jobs
    <3>2. ~(recvMoved + job[t].bytes < MsgSize)
      BY <1>3 DEF RecvWhole, RecvIsPartial
    <3>3. recvMoved + job[t].bytes >= MsgSize
      BY ONLY <3>1, <3>2, BoundsAssumption
    <3>4. WholeArrived
      BY ONLY <2>1, <3>3, t \in Threads DEF WholeArrived
    <3> QED BY <3>4, DueFalls
  <2>7. Handling' = Handling + 1 - 0 /\ Locking' = Locking + 0 - 0
    BY ONLY <2>1, <2>2, <2>3, t \in Threads, Counts DEF Bit
  <2>8. Owed' = Owed
    BY <2>4, OwedSame
  <2>9. pushed' \in Nat /\ broadcasts' \in Nat /\ requests' \in Nat
    BY ONLY Types, LedgerIsNat, <2>4, <2>5, <2>6, <2>7, <2>8
  <2>10. Ledger' =< Ledger
    BY ONLY Types, LedgerIsNat, <2>4, <2>5, <2>6, <2>7, <2>8 DEF Ledger
  <2> QED BY ONLY Types, Budget, <2>9, <2>10, LedgerKept
<1>4. CASE Answer(t)
  <2>1. pc[t] = "handle"
    BY <1>4 DEF Answer, Is
  <2>2. Goto(t, "a_lock")
    BY <1>4 DEF Answer
  <2>3. pc \in [Threads -> Locations] /\ answers \in [Threads -> 0 .. 1]
    BY ONLY Types DEF Types
  <2>4. UNCHANGED <<pushed, broadcasts, requests, completions, recvMoved, job>>
    BY <1>4
    DEF Answer, threadVars, queueVars, sendVars, recvVars, endVars, kernelVars,
        envVars
  <2>5. PICK n \in 1 .. MaxAnswers : answers' = [answers EXCEPT ![t] = n - 1]
    BY <1>4 DEF Answer
  <2>6. Due' =< Due
    <3>1. WholeArrived' => WholeArrived
      BY <2>2, <2>4, QuietWhole
    <3> QED BY <3>1, DueFalls
  <2>7. Handling' = Handling + 0 - 1 /\ Locking' = Locking + 1 - 0
    BY ONLY <2>1, <2>2, <2>3, t \in Threads, Counts DEF Bit
  <2>8. Owed' =< Owed + 1 /\ Owed' \in Int
    <3>1. n - 1 \in 0 .. 1
      BY ONLY <2>5 DEF MaxAnswers
    <3>2. Owed' = Owed + Bit(n - 1 = 1) - Bit(answers[t] = 1)
      BY ONLY <2>3, <2>5, <3>1, OwedCounts, t \in Threads
    <3>3. Bit(n - 1 = 1) \in {0, 1} /\ Bit(answers[t] = 1) \in {0, 1}
      BY DEF Bit
    <3> QED BY ONLY <3>2, <3>3, OwedIsNat
  <2>9. pushed' \in Nat /\ broadcasts' \in Nat /\ requests' \in Nat
    BY ONLY Types, LedgerIsNat, <2>4, <2>6, <2>7, <2>8
  <2>10. Ledger' =< Ledger
    BY ONLY Types, LedgerIsNat, <2>4, <2>6, <2>7, <2>8 DEF Ledger
  <2> QED BY ONLY Types, Budget, <2>9, <2>10, LedgerKept
<1>5. CASE NoAnswer(t)
  <2>1. pc[t] = "handle"
    BY <1>5 DEF NoAnswer, Is
  <2>2. Goto(t, "idle")
    BY <1>5 DEF NoAnswer
  <2>3. pc \in [Threads -> Locations] /\ answers \in [Threads -> 0 .. 1]
    BY ONLY Types DEF Types
  <2>4. UNCHANGED <<pushed, broadcasts, requests, answers, completions,
                    recvMoved, job>>
    BY <1>5
    DEF NoAnswer, threadVars, queueVars, sendVars, recvVars, endVars,
        kernelVars, envVars
  <2>5. Due' =< Due
    <3>1. WholeArrived' => WholeArrived
      BY <2>2, <2>4, QuietWhole
    <3> QED BY <3>1, DueFalls
  <2>6. Handling' = Handling + 0 - 1 /\ Locking' = Locking + 0 - 0
    BY ONLY <2>1, <2>2, <2>3, t \in Threads, Counts DEF Bit
  <2>7. Owed' = Owed
    BY <2>4, OwedSame
  <2>8. pushed' \in Nat /\ broadcasts' \in Nat /\ requests' \in Nat
    BY ONLY Types, LedgerIsNat, <2>4, <2>5, <2>6, <2>7
  <2>9. Ledger' =< Ledger
    BY ONLY Types, LedgerIsNat, <2>4, <2>5, <2>6, <2>7 DEF Ledger
  <2> QED BY ONLY Types, Budget, <2>8, <2>9, LedgerKept
<1> QED
  BY <1>1, <1>2, <1>3, <1>4, <1>5
  DEF RecvStep

(* The end of the user (HandleClientShutdown, ClientShutdown) adds no      *)
(* message that was not in the ledger.                                     *)
LEMMA EndStepBudget ==
  ASSUME NEW t \in Threads, Types, Placed, ReceiveOnce, Budget, EndStep(t)
  PROVE  Budget'
<1>1. CASE EndSend(t)
  <2>1. pc[t] = "x_send"
    BY <1>1 DEF EndSend, Is
  <2>2. PICK l \in {"x_set", "idle"} : Goto(t, l)
    BY <1>1 DEF EndSend
  <2>3. UNCHANGED <<pushed, broadcasts, requests, answers, completions,
                    recvMoved, job>>
    BY <1>1
    DEF EndSend, threadVars, queueVars, sendVars, recvVars, endVars,
        kernelVars, envVars
  <2>4. WholeArrived' => WholeArrived
    BY <2>2, <2>3, QuietWhole
  <2> QED BY <2>1, <2>2, <2>3, <2>4, QuietBudget
<1>2. CASE EndSendSet(t)
  <2>1. pc[t] = "x_set"
    BY <1>2 DEF EndSendSet, Is
  <2>2. PICK l \in {"idle"} : Goto(t, l)
    BY <1>2 DEF EndSendSet
  <2>3. UNCHANGED <<pushed, broadcasts, requests, answers, completions,
                    recvMoved, job>>
    BY <1>2
    DEF EndSendSet, threadVars, queueVars, sendVars, recvVars, endVars,
        kernelVars, envVars
  <2>4. WholeArrived' => WholeArrived
    BY <2>2, <2>3, QuietWhole
  <2> QED BY <2>1, <2>2, <2>3, <2>4, QuietBudget
<1>3. CASE EndRecv(t)
  <2>1. pc[t] = "x_recv"
    BY <1>3 DEF EndRecv, Is
  <2>2. PICK l \in {"x_check", "idle"} : Goto(t, l)
    BY <1>3 DEF EndRecv
  <2>3. UNCHANGED <<pushed, broadcasts, requests, answers, completions,
                    recvMoved, job>>
    BY <1>3
    DEF EndRecv, threadVars, queueVars, sendVars, recvVars, endVars,
        kernelVars, envVars
  <2>4. WholeArrived' => WholeArrived
    BY <2>2, <2>3, QuietWhole
  <2> QED BY <2>1, <2>2, <2>3, <2>4, QuietBudget
<1>4. CASE CloseCheck(t)
  <2>1. pc[t] = "x_check"
    BY <1>4 DEF CloseCheck, Is
  <2>2. PICK l \in {"x_wait", "x_free"} : Goto(t, l)
    BY <1>4 DEF CloseCheck
  <2>3. UNCHANGED <<pushed, broadcasts, requests, answers, completions,
                    recvMoved, job>>
    BY <1>4
    DEF CloseCheck, threadVars, queueVars, sendVars, recvVars, endVars,
        kernelVars, envVars
  <2>4. WholeArrived' => WholeArrived
    BY <2>2, <2>3, QuietWhole
  <2> QED BY <2>1, <2>2, <2>3, <2>4, QuietBudget
<1>5. CASE CloseWait(t)
  <2>1. pc[t] = "x_wait"
    BY <1>5 DEF CloseWait, Is
  <2>2. PICK l \in {"x_free"} : Goto(t, l)
    BY <1>5 DEF CloseWait
  <2>3. UNCHANGED <<pushed, broadcasts, requests, answers, completions,
                    recvMoved, job>>
    BY <1>5
    DEF CloseWait, threadVars, queueVars, sendVars, recvVars, endVars,
        kernelVars, envVars
  <2>4. WholeArrived' => WholeArrived
    BY <2>2, <2>3, QuietWhole
  <2> QED BY <2>1, <2>2, <2>3, <2>4, QuietBudget
<1>6. CASE CloseFree(t)
  <2>1. pc[t] = "x_free"
    BY <1>6 DEF CloseFree, Is
  <2>2. PICK l \in {"idle"} : Goto(t, l)
    BY <1>6 DEF CloseFree
  <2>3. UNCHANGED <<pushed, broadcasts, requests, answers, completions,
                    recvMoved, job>>
    BY <1>6
    DEF CloseFree, threadVars, queueVars, sendVars, recvVars, endVars,
        kernelVars, envVars
  <2>4. WholeArrived' => WholeArrived
    BY <2>2, <2>3, QuietWhole
  <2> QED BY <2>1, <2>2, <2>3, <2>4, QuietBudget
<1> QED
  BY <1>1, <1>2, <1>3, <1>4, <1>5, <1>6
  DEF EndStep

(* Taking a completion or a broadcast adds no message that was not in the  *)
(* ledger.                                                                 *)
LEMMA PortStepBudget ==
  ASSUME NEW t \in Threads, Types, Placed, ReceiveOnce, Budget, PortStep(t)
  PROVE  Budget'
<1>1. CASE TakeCompletion(t)
  <2>1. pc[t] = "idle" /\ completions # <<>> /\ completions \in Seq(Ports)
    BY <1>1 DEF TakeCompletion, Is, Types
  <2>2. PICK l \in {"r_parse", "x_recv", "s_peek", "x_send"} :
          Goto(t, l) /\ (l = "r_parse" => Head(completions).op = "recv")
    BY <1>1, TakeGoes
  <2>3. /\ UNCHANGED <<pushed, broadcasts, requests, answers, recvMoved>>
        /\ completions' = Tail(completions)
        /\ job' = [job EXCEPT ![t] = Head(completions)]
    BY <1>1
    DEF TakeCompletion, threadVars, queueVars, sendVars, recvVars, endVars,
        kernelVars, envVars
  <2>4. WholeArrived' => WholeArrived
    <3>1. /\ completions[1] = Head(completions) /\ 1 \in 1 .. Len(completions)
          /\ \A i \in 1 .. Len(completions') :
               /\ completions'[i] = completions[i + 1]
               /\ i + 1 \in 1 .. Len(completions)
      BY ONLY <2>1, <2>3
    <3>2. /\ \A u \in Threads : pc'[u] = IF u = t THEN l ELSE pc[u]
          /\ \A u \in Threads : job'[u] = IF u = t THEN Head(completions) ELSE job[u]
      BY ONLY Types, <2>2, <2>3 DEF Goto, Types
    <3>3. CASE \E i \in 1 .. Len(completions') :
                /\ completions'[i].op = "recv"
                /\ recvMoved' + completions'[i].bytes >= MsgSize
      <4>1. PICK i \in 1 .. Len(completions') :
              /\ completions'[i].op = "recv"
              /\ recvMoved' + completions'[i].bytes >= MsgSize
        BY ONLY <3>3
      <4> QED BY ONLY <2>3, <3>1, <4>1 DEF WholeArrived
    <3>4. CASE \E u \in Threads : pc'[u] = "r_parse" /\ recvMoved' + job'[u].bytes >= MsgSize
      <4>1. PICK u \in Threads : pc'[u] = "r_parse" /\ recvMoved' + job'[u].bytes >= MsgSize
        BY ONLY <3>4
      <4>2. CASE u = t
        BY ONLY <2>2, <2>3, <3>1, <3>2, <4>1, <4>2 DEF WholeArrived
      <4>3. CASE u # t
        BY ONLY <2>3, <3>2, <4>1, <4>3 DEF WholeArrived
      <4> QED BY ONLY <4>2, <4>3
    <3> QED BY ONLY <3>3, <3>4 DEF WholeArrived
  <2> QED BY <2>1, <2>2, <2>3, <2>4, QuietBudget
<1>2. CASE Broadcast(t)
  <2>1. pc[t] = "idle"
    BY <1>2 DEF Broadcast, Is
  <2>2. Goto(t, "a_lock")
    BY <1>2 DEF Broadcast
  <2>3. pc \in [Threads -> Locations] /\ answers \in [Threads -> 0 .. 1]
    BY ONLY Types DEF Types
  <2>4. /\ broadcasts > 0 /\ broadcasts' = broadcasts - 1
        /\ UNCHANGED <<pushed, requests, answers, completions, recvMoved, job>>
    BY <1>2
    DEF Broadcast, threadVars, queueVars, sendVars, recvVars, endVars,
        kernelVars, envVars
  <2>5. Due' =< Due
    <3>1. WholeArrived' => WholeArrived
      BY <2>2, <2>4, QuietWhole
    <3> QED BY <3>1, DueFalls
  <2>6. Handling' = Handling + 0 - 0 /\ Locking' = Locking + 1 - 0
    BY ONLY <2>1, <2>2, <2>3, t \in Threads, Counts DEF Bit
  <2>7. Owed' = Owed
    BY <2>4, OwedSame
  <2>8. pushed' \in Nat /\ broadcasts' \in Nat /\ requests' \in Nat
    BY ONLY Types, LedgerIsNat, <2>4, <2>5, <2>6, <2>7
  <2>9. Ledger' =< Ledger
    BY ONLY Types, LedgerIsNat, <2>4, <2>5, <2>6, <2>7 DEF Ledger
  <2> QED BY ONLY Types, Budget, <2>8, <2>9, LedgerKept
<1> QED
  BY <1>1, <1>2
  DEF PortStep

(* The kernel and the connection adds no message that was not in the       *)
(* ledger.                                                                 *)
LEMMA OutStepBudget ==
  ASSUME Types, Placed, ReceiveOnce, Budget, OutStep
  PROVE  Budget'
<1>1. CASE SendCompletes
  <2>1. completions \in Seq(Ports)
    BY ONLY Types DEF Types
  <2>2. PICK c \in Ports :
          c.op = "send" /\ completions' = Append(completions, c)
    BY ONLY <1>1, Types, SendCompletesFits
  <2>3. UNCHANGED <<pc, pushed, broadcasts, requests, answers, recvMoved, job>>
    BY <1>1
    DEF SendCompletes, threadVars, queueVars, sendVars, recvVars, endVars,
        kernelVars, envVars
  <2>4. WholeArrived' => WholeArrived
    <3>1. /\ Len(completions') = Len(completions) + 1
          /\ Len(completions) \in Nat
          /\ completions'[Len(completions) + 1] = c
          /\ \A i \in 1 .. Len(completions) : completions'[i] = completions[i]
      BY ONLY <2>1, <2>2
    <3>2. \A i \in 1 .. Len(completions') : completions'[i].op = "recv" =>
            i \in 1 .. Len(completions) /\ completions'[i] = completions[i]
      BY ONLY <2>2, <3>1
    <3> QED BY ONLY <2>3, <3>2 DEF WholeArrived
  <2> QED BY <2>3, <2>4, StillBudget
<1>2. CASE RecvCompletes
  <2>1. /\ completions \in Seq(Ports) /\ recvMoved \in 0 .. (MsgSize - 1)
        /\ requests \in Nat
    BY ONLY Types DEF Types
  <2>2. PICK n \in 0 .. (MsgSize - recvMoved) :
          /\ IF n = 0 THEN ~up ELSE requests > 0
          /\ completions' = Append(completions, [op |-> "recv", msg |-> 0, bytes |-> n])
          /\ requests' = IF n = MsgSize - recvMoved THEN requests - 1 ELSE requests
    BY <1>2 DEF RecvCompletes
  <2>3. UNCHANGED <<pc, pushed, broadcasts, answers, recvMoved, job>>
    BY <1>2
    DEF RecvCompletes, threadVars, queueVars, sendVars, recvVars, endVars,
        kernelVars, envVars
  <2>4. /\ Handling' = Handling /\ Locking' = Locking /\ Owed' = Owed
    BY <2>3, CountsSame, OwedSame
  <2>5. requests' \in Nat /\ requests' + Due' =< requests + Due
    <3>1. CASE n = MsgSize - recvMoved
      <4>1. n # 0 /\ requests > 0 /\ requests' = requests - 1
        BY ONLY <2>1, <2>2, <3>1, BoundsAssumption
      <4>2. Due \in Nat /\ Due' \in Nat /\ Due' =< 1 /\ requests \in Nat
        BY ONLY Types, LedgerIsNat
      <4>3. \A r, d, e \in Nat :
              r > 0 /\ e =< 1 => r - 1 \in Nat /\ r - 1 + e =< r + d
        BY ONLY TRUE
      <4>4. /\ requests - 1 \in Nat
            /\ requests - 1 + Due' =< requests + Due
        BY ONLY <4>1, <4>2, <4>3, Zenon
      <4> QED BY ONLY <4>1, <4>4, Zenon
    <3>2. CASE n # MsgSize - recvMoved
      <4>1. /\ Len(completions') = Len(completions) + 1
            /\ Len(completions) \in Nat
            /\ completions'[Len(completions) + 1] = [op |-> "recv", msg |-> 0, bytes |-> n]
            /\ \A i \in 1 .. Len(completions) : completions'[i] = completions[i]
        BY ONLY <2>1, <2>2
      <4>2. ~(recvMoved + n >= MsgSize)
        BY ONLY <2>1, <2>2, <3>2, BoundsAssumption
      <4>3. \A i \in 1 .. Len(completions') : recvMoved + completions'[i].bytes >= MsgSize =>
              i \in 1 .. Len(completions) /\ completions'[i] = completions[i]
        BY ONLY <4>1, <4>2
      <4>4. WholeArrived' => WholeArrived
        BY ONLY <2>3, <4>3 DEF WholeArrived
      <4>5. requests' = requests
        BY ONLY <2>2, <3>2
      <4>6. Due' =< Due
        BY <4>4, DueFalls
      <4> QED BY ONLY <2>1, <4>5, <4>6, Types, LedgerIsNat
    <3> QED BY <3>1, <3>2
  <2>6. pushed' \in Nat /\ broadcasts' \in Nat /\ requests' \in Nat
    BY ONLY Types, LedgerIsNat, <2>3, <2>4, <2>5
  <2>7. Ledger' =< Ledger
    BY ONLY Types, LedgerIsNat, <2>3, <2>4, <2>5 DEF Ledger
  <2> QED BY ONLY Types, Budget, <2>6, <2>7, LedgerKept
<1>3. CASE ConnectionLost
  <2>1. UNCHANGED <<pc, pushed, broadcasts, requests, answers, completions,
                    recvMoved, job>>
    BY <1>3
    DEF ConnectionLost, threadVars, queueVars, sendVars, recvVars, endVars,
        kernelVars, envVars
  <2>2. WholeArrived' => WholeArrived
    BY <2>1 DEF WholeArrived
  <2> QED BY <2>1, <2>2, StillBudget
<1> QED
  BY <1>1, <1>2, <1>3
  DEF OutStep

(* Within the budget a message that is about to be pushed has a number.    *)
LEMMA EveryMessageFits ==
  ASSUME Types, Budget, NEW t \in Threads
  PROVE  Fits(t)
<1>1. CASE pc[t] = "a_lock"
  <2>1. t \in At({"a_lock"})
    BY <1>1 DEF At
  <2>2. Locking # 0
    BY ONLY <2>1, AtFinite, FS_EmptySet DEF Locking
  <2>3. pushed + 1 =< MaxMessages
    <3>1. /\ pushed \in Nat /\ broadcasts \in Nat /\ requests \in Nat
          /\ MaxMessages \in Nat
          /\ Owed \in Nat /\ Due \in Nat /\ Handling \in Nat /\ Locking \in Nat
      BY LedgerIsNat
    <3>2. Locking >= 1
      BY ONLY <2>2, <3>1
    <3> QED BY ONLY <3>1, <3>2, Budget DEF Budget, Ledger
  <2> QED BY ONLY <2>3, Types, LedgerIsNat DEF Fits, Messages
<1>2. CASE pc[t] # "a_lock"
  BY <1>2 DEF Fits
<1> QED BY <1>1, <1>2

(* The initial states satisfy the general part.                            *)
LEMMA InitGeneral ==
  ASSUME Init
  PROVE  General
<1> USE DEF Init
<1>1. Types
  <2>1. requests \in Nat /\ broadcasts \in Nat
    BY BoundsAssumption
  <2>2. /\ pc \in [Threads -> Locations] /\ job \in [Threads -> Jobs]
        /\ answers \in [Threads -> 0 .. 1]
    BY BoundsAssumption DEF Locations, Jobs, NoJob
  <2> QED BY <2>1, <2>2, BoundsAssumption DEF Types
<1>2. Flags
  BY DEF Flags
<1>3. MutexHeld /\ Placed
  BY DEF MutexHeld, MutexAt, Placed
<1>4. \A S : "idle" \notin S => At(S) = {}
  BY DEF At
<1>5. Arrived("recv") = 0
  BY FS_EmptySet DEF Arrived, Waiting
<1>6. Receiving = 0 /\ Closing = 0 /\ Handling = 0 /\ Locking = 0
  BY <1>4, FS_EmptySet DEF Receiving, Closing, Handling, Locking
<1>7. ReceiveOnce
  BY <1>5, <1>6 DEF ReceiveOnce
<1>8. CloseOnce
  BY <1>6 DEF CloseOnce, Bit
<1>9. Budget
  <2>1. PICK p \in Traffic : requests = p[1] /\ broadcasts = p[2]
    OBVIOUS
  <2>2. p \in Nat \X Nat /\ p[1] * 2 + p[2] =< MaxMessages
    BY BoundsAssumption DEF MaxAnswers
  <2>3. Due = 0
    BY DEF Due, Bit, WholeArrived
  <2>4. Owed = 0
    <3>1. Owing = {}
      BY DEF Owing
    <3> QED BY <3>1, FS_EmptySet DEF Owed
  <2>5. pushed = 0
    OBVIOUS
  <2> QED BY ONLY <1>6, <2>1, <2>2, <2>3, <2>4, <2>5, BoundsAssumption
          DEF Budget, Ledger
<1> QED BY <1>1, <1>2, <1>3, <1>7, <1>8, <1>9 DEF General

(* Every step keeps the general part.                                      *)
LEMMA StepGeneral ==
  ASSUME General, [Next]_vars
  PROVE  General'
<1>1. /\ Types /\ Flags /\ MutexHeld /\ Placed /\ Budget /\ ReceiveOnce
      /\ CloseOnce
  BY DEF General
<1>2. \A t \in Threads : Fits(t)
  BY <1>1, EveryMessageFits
<1>3. ASSUME NEW t \in Threads, AddStep(t)
      PROVE  General'
  BY ONLY <1>1, <1>2, <1>3, AddStepTypes, AddStepFlags, AddStepMutex,
          AddStepPlaced, AddStepReceives, AddStepCloses, AddStepBudget
  DEF General
<1>4. ASSUME NEW t \in Threads, SendStep(t)
      PROVE  General'
  BY ONLY <1>1, <1>2, <1>4, SendStepTypes, SendStepFlags, SendStepMutex,
          SendStepPlaced, SendStepReceives, SendStepCloses, SendStepBudget
  DEF General
<1>5. ASSUME NEW t \in Threads, RecvStep(t)
      PROVE  General'
  BY ONLY <1>1, <1>2, <1>5, RecvStepTypes, RecvStepFlags, RecvStepMutex,
          RecvStepPlaced, RecvStepReceives, RecvStepCloses, RecvStepBudget
  DEF General
<1>6. ASSUME NEW t \in Threads, EndStep(t)
      PROVE  General'
  BY ONLY <1>1, <1>2, <1>6, EndStepTypes, EndStepFlags, EndStepMutex,
          EndStepPlaced, EndStepReceives, EndStepCloses, EndStepBudget
  DEF General
<1>7. ASSUME NEW t \in Threads, PortStep(t)
      PROVE  General'
  BY ONLY <1>1, <1>2, <1>7, PortStepTypes, PortStepFlags, PortStepMutex,
          PortStepPlaced, PortStepReceives, PortStepCloses, PortStepBudget
  DEF General
<1>8. ASSUME OutStep
      PROVE  General'
  BY ONLY <1>1, <1>8, OutStepTypes, OutStepFlags, OutStepMutex, OutStepPlaced,
     OutStepReceives, OutStepCloses, OutStepBudget DEF General
<1>9. CASE UNCHANGED vars
  <2> USE <1>9 DEF vars, threadVars, queueVars, sendVars, recvVars, endVars,
                   kernelVars, envVars
  <2>1. Types'
    BY ONLY <1>1, <1>9
    DEF Types, vars, threadVars, queueVars, sendVars, recvVars, endVars,
        kernelVars, envVars
  <2>2. Flags' /\ MutexHeld' /\ Placed'
    BY ONLY <1>1, <1>9
    DEF Flags, MutexHeld, MutexAt, Placed, vars, threadVars, queueVars,
        sendVars, recvVars, endVars, kernelVars, envVars
  <2>3. ReceiveOnce'
    BY <1>1, CountsSame, ArrivedSame DEF ReceiveOnce
  <2>4. CloseOnce'
    BY <1>1, CountsSame DEF CloseOnce, Bit
  <2>5. Budget'
    BY <1>1, StillBudget DEF WholeArrived
  <2> QED BY ONLY <2>1, <2>2, <2>3, <2>4, <2>5 DEF General
<1>10. \/ OutStep \/ UNCHANGED vars
       \/ \E t \in Threads : \/ AddStep(t) \/ SendStep(t) \/ RecvStep(t)
                            \/ EndStep(t) \/ PortStep(t)
  BY DEF Next, Work, Kernel, PortStep, OutStep
<1> QED BY ONLY <1>3, <1>4, <1>5, <1>6, <1>7, <1>8, <1>9, <1>10

(* The general part is an invariant, whatever fails (all of s_worker.c and *)
(* s_message.c that UserIO models).                                        *)
THEOREM GeneralInvariant == Spec => []General
<1>1. Init => General
  BY InitGeneral
<1>2. General /\ [Next]_vars => General'
  BY StepGeneral
<1> QED BY <1>1, <1>2, PTL DEF Spec

(* What the general part says of receives and of the destruction.          *)
LEMMA GeneralImplies ==
  ASSUME General
  PROVE  OneReceiver /\ OneCloser
<1>1. recvs + Arrived("recv") + Receiving =< recvOccuring
  BY DEF General, ReceiveOnce
<1>2. Closing =< Bit(destroying) /\ Bit(destroying) =< 1
  BY DEF General, CloseOnce, Bit
<1>3. Closing =< 1
  BY <1>2, CountsAreNat DEF Bit
<1> QED BY <1>1, <1>3
        DEF OneReceiver, Receivers, Arrived, Receiving, OneCloser, Closing

(* Whatever fails, there is never a second receive into m_RecvMsg, nor one *)
(* beside a thread that reads a packet in it (WorkerSendOP, WorkerRecvOP). *)
THEOREM ReceiveBufferIsNotShared == Spec => []OneReceiver
BY GeneralInvariant, GeneralImplies, PTL

(* Whatever fails, one thread at most destroys the user                    *)
(* (HandleClientShutdown, ClientShutdown).                                 *)
THEOREM UserIsDestroyedOnce == Spec => []OneCloser
BY GeneralInvariant, GeneralImplies, PTL
=============================================================================
