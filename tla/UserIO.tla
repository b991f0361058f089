------------------------------- MODULE UserIO -------------------------------
(***************************************************************************)
(* The overlapped sends and receives of one registered USER: its send      *)
(* queue and the completions that drain it (ManageMsgQueueAdd,             *)
(* WorkerSendOP, ManageSendQueue, CheckSendQueue), the receive that a send *)
(* completion arms again (WorkerRecvOP, WorkerSendOP), and the way a lost  *)
(* connection ends (HandleClientShutdown, ClientShutdown).                 *)
(*                                                                         *)
(* Several worker threads serve the user at once.  A step is one           *)
(* interlocked instruction, one kernel call, or a piece of code that only  *)
(* the owner of SEND_MUTEX or of the receive buffer touches, joined with   *)
(* the lock before it or the unlock after it.                              *)
(*                                                                         *)
(* A behaviour ends when the user is freed or the server stops: what the   *)
(* threads that still hold the pointer do then is not of this module.      *)
(***************************************************************************)
EXTENDS Integers, Sequences, FiniteSets

CONSTANTS
  Threads,        (* the worker threads                                    *)
  NoThread,       (* the owner of a free mutex                             *)
  MsgSize,        (* units of a message                                    *)
  HeaderSize,     (* units of its header                                   *)
  LenOne,         (* characters of its first body, of two units each       *)
  Traffic,        (* bound: the pairs of a number of packets the client    *)
                  (* sends and a number of messages others have for it     *)
  MaxMessages,    (* bound: messages for the client in any of these        *)
  Split,          (* bound: the messages whose sends may end in parts      *)
  ConnDrops,      (* the connection may be lost                            *)
  MaxSyncFaults,  (* bound: WSASend calls that fail at once on a live      *)
                  (* connection (WSAENOBUFS)                               *)
  PeerFaults      (* a send to another client may fail at once, which the  *)
                  (* handler returns instead of answering                  *)

ASSUME ThreadsAssumption == IsFiniteSet(Threads) /\ NoThread \notin Threads

(* A handler has at most two messages for the client it answers: its copy  *)
(* of its own broadcast or message, and the answer.                        *)
MaxAnswers == 2

ASSUME BoundsAssumption ==
  /\ MsgSize \in Nat \ {0}
  /\ HeaderSize \in Nat \ {0} /\ LenOne \in Nat
  /\ HeaderSize + 2 * LenOne <= MsgSize
  /\ Traffic \subseteq Nat \X Nat
  /\ MaxMessages \in Nat
  /\ \A p \in Traffic : p[1] * MaxAnswers + p[2] <= MaxMessages
  /\ Split \subseteq 1..MaxMessages
  /\ MaxSyncFaults \in Nat
  /\ ConnDrops \in BOOLEAN /\ PeerFaults \in BOOLEAN

Messages == 1..MaxMessages

VARIABLES
  pc,            (* where each thread is                                   *)
  job,           (* the completion or the message a thread works on        *)
  answers,       (* the messages a thread has still to add for this user   *)
  mutex,         (* the owner of SEND_MUTEX, or NoThread                   *)
  queue,         (* m_SendMsgQueue, the oldest message first               *)
  pushed,        (* messages pushed so far; a message is its number        *)
  moved,         (* m_dwBytesMovedTotal of each message                    *)
  torn,          (* the rest of a message was computed inside a first body *)
  sendOccuring,  (* m_plSendOccuring                                       *)
  sendDone,      (* SEND_DONE_EVENT is signalled                           *)
  recvOccuring,  (* m_plRecvOccuring                                       *)
  recvMoved,     (* m_RecvMsg.m_dwBytesMovedTotal                          *)
  destroying,    (* m_plBeingDestroyed = DESTROYING                        *)
  closed,        (* the user is freed                                      *)
  stopped,       (* g_bServerState = STOP                                  *)
  inflight,      (* sends the kernel has, in the order of the calls        *)
  recvs,         (* receives the kernel has                                *)
  completions,   (* the completion port, this user's entries               *)
  wire,          (* the units sent, each named by its message              *)
  requests,      (* packets that have still to arrive                      *)
  broadcasts,    (* messages other handlers have still to add              *)
  faults,        (* failed sends so far                                    *)
  up             (* the connection is alive                                *)

threadVars == <<job, answers>>
queueVars == <<mutex, queue, pushed>>
sendVars == <<sendOccuring, sendDone>>
recvVars == <<recvOccuring, recvMoved>>
endVars == <<destroying, closed, stopped>>
kernelVars == <<inflight, recvs, completions, wire>>
envVars == <<requests, broadcasts, faults, up>>
vars == <<pc, threadVars, queueVars, moved, torn, sendVars, recvVars, endVars,
          kernelVars, envVars>>

-----------------------------------------------------------------------------
(* Where a thread can be.                                                  *)

AddLocations == {"a_lock", "a_compare", "a_reset", "a_send"}
SendLocations == {"s_peek", "s_pop", "s_decrement", "s_set", "s_next",
                  "s_fail", "s_rearm", "s_recv"}
RecvLocations == {"r_parse", "handle"}
EndLocations == {"x_send", "x_set", "x_recv", "x_check", "x_wait", "x_free"}
Locations == {"idle"} \cup AddLocations \cup SendLocations
               \cup RecvLocations \cup EndLocations

At(S) == {t \in Threads : pc[t] \in S}

(* Nothing is done for a user that is freed, or by a server that stopped.  *)
Running == ~closed /\ ~stopped

Is(t, l) == Running /\ pc[t] = l

Goto(t, l) == pc' = [pc EXCEPT ![t] = l]

NoJob == [op |-> "none", msg |-> 0, bytes |-> 0]
Jobs == [op : {"send", "recv", "add", "none"}, msg : Messages \cup {0},
         bytes : 0..MsgSize]

(* What WorkerPartialSend asks for when some units of a message have gone: *)
(* in the first body it takes the bytes that went from the number of       *)
(* characters, so the rest is short of as many units as there are          *)
(* characters, or below zero, which is a length no buffer has.             *)
InFirstBody(units) == units >= HeaderSize /\ units < HeaderSize + 2 * LenOne

Rest(units) ==
  IF InFirstBody(units) THEN MsgSize - units - LenOne ELSE MsgSize - units

Wraps(units) == InFirstBody(units) /\ units - HeaderSize > LenOne

(* WSASend of the rest of message m after its first units, accepted by the *)
(* kernel.                                                                 *)
SendPosted(m, units) ==
  inflight' = Append(inflight, [msg |-> m, left |-> Rest(units)])

(* A send can fail at once on a lost connection, or for want of buffers.   *)
SendCanFail == ~up \/ faults < MaxSyncFaults
CountFault == faults' = IF up THEN faults + 1 ELSE faults

(* ManageMsgQueueAdd returns to the handler, which may have more to add.   *)
AddReturns(t) ==
  IF answers[t] > 0
  THEN Goto(t, "a_lock") /\ answers' = [answers EXCEPT ![t] = @ - 1]
  ELSE Goto(t, "idle") /\ UNCHANGED answers

-----------------------------------------------------------------------------
(* ServerListen has armed the first receive.                               *)
Init ==
  /\ pc = [t \in Threads |-> "idle"]
  /\ job = [t \in Threads |-> NoJob]
  /\ answers = [t \in Threads |-> 0]
  /\ mutex = NoThread
  /\ queue = <<>>
  /\ pushed = 0
  /\ moved = [m \in Messages |-> 0]
  /\ torn = FALSE
  /\ sendOccuring = 0
  /\ sendDone = TRUE
  /\ recvOccuring = 1
  /\ recvMoved = 0
  /\ destroying = FALSE
  /\ closed = FALSE
  /\ stopped = FALSE
  /\ inflight = <<>>
  /\ recvs = 1
  /\ completions = <<>>
  /\ wire = <<>>
  /\ \E p \in Traffic : requests = p[1] /\ broadcasts = p[2]
  /\ faults = 0
  /\ up = TRUE

-----------------------------------------------------------------------------
(* The kernel and the client                                               *)

(* A send completes with some or all of its units, or without any when the *)
(* connection is lost or it had none.                                      *)
SendCompletes ==
  /\ Running
  /\ inflight # <<>>
  /\ LET s == Head(inflight)
     IN  \E n \in 0..s.left :
           /\ n = 0 => ~up \/ s.left = 0
           /\ n = s.left \/ n = 0 \/ s.msg \in Split
           /\ wire' = wire \o [i \in 1..n |-> s.msg]
           /\ completions' = Append(completions,
                [op |-> "send", msg |-> s.msg, bytes |-> n])
  /\ inflight' = Tail(inflight)
  /\ UNCHANGED <<pc, threadVars, queueVars, moved, torn, sendVars, recvVars,
                 endVars, recvs, envVars>>

(* A receive completes with a part of a packet, or the rest of it, or with *)
(* nothing when the connection is lost.                                    *)
RecvCompletes ==
  /\ Running
  /\ recvs > 0
  /\ \E n \in 0..(MsgSize - recvMoved) :
       /\ IF n = 0 THEN ~up ELSE requests > 0
       /\ completions' = Append(completions,
            [op |-> "recv", msg |-> 0, bytes |-> n])
       /\ requests' = IF n = MsgSize - recvMoved THEN requests - 1
                      ELSE requests
  /\ recvs' = recvs - 1
  /\ UNCHANGED <<pc, threadVars, queueVars, moved, torn, sendVars, recvVars,
                 endVars, inflight, wire, broadcasts, faults, up>>

ConnectionLost ==
  /\ Running /\ ConnDrops /\ up
  /\ up' = FALSE
  /\ UNCHANGED <<pc, threadVars, queueVars, moved, torn, sendVars, recvVars,
                 endVars, kernelVars, requests, broadcasts, faults>>

-----------------------------------------------------------------------------
(* WorkerThread                                                            *)

(* GetQueuedCompletionStatus: no bytes means the operation failed.         *)
TakeCompletion(t) ==
  /\ Is(t, "idle")
  /\ completions # <<>>
  /\ LET c == Head(completions)
     IN  /\ job' = [job EXCEPT ![t] = c]
         /\ Goto(t, CASE c.op = "recv" /\ c.bytes > 0 -> "r_parse"
                      [] c.op = "recv" /\ c.bytes = 0 -> "x_recv"
                      [] c.op = "send" /\ c.bytes > 0 -> "s_peek"
                      [] c.op = "send" /\ c.bytes = 0 -> "x_send")
  /\ completions' = Tail(completions)
  /\ UNCHANGED <<answers, queueVars, moved, torn, sendVars, recvVars,
                 endVars, inflight, recvs, wire, envVars>>

(* A completion of another client makes a handler add a message for this   *)
(* one: a chat message, a broadcast, or the news of a login or a logout.   *)
(* LoginBroadcast does so without any lock on the users table.             *)
Broadcast(t) ==
  /\ Is(t, "idle")
  /\ broadcasts > 0
  /\ broadcasts' = broadcasts - 1
  /\ Goto(t, "a_lock")
  /\ UNCHANGED <<threadVars, queueVars, moved, torn, sendVars, recvVars,
                 endVars, kernelVars, requests, faults, up>>

-----------------------------------------------------------------------------
(* ManageMsgQueueAdd                                                       *)

AddPush(t) ==
  /\ Is(t, "a_lock")
  /\ mutex = NoThread
  /\ mutex' = t
  /\ pushed' = pushed + 1
  /\ queue' = Append(queue, pushed + 1)
  /\ job' = [job EXCEPT ![t] =
               [op |-> "add", msg |-> pushed + 1, bytes |-> 0]]
  /\ Goto(t, "a_compare")
  /\ UNCHANGED <<answers, moved, torn, sendVars, recvVars, endVars,
                 kernelVars, envVars>>

(* Somebody else is sending and will come to this message: unlock, return. *)
AddDefers(t) ==
  /\ Is(t, "a_compare")
  /\ sendOccuring # 0
  /\ mutex' = NoThread
  /\ AddReturns(t)
  /\ UNCHANGED <<job, queue, pushed, moved, torn, sendVars, recvVars,
                 endVars, kernelVars, envVars>>

AddClaimsTwice(t) ==   \* seeded fault: an increment for the compare-exchange
  /\ Is(t, "a_compare")
  /\ sendOccuring' = sendOccuring + 1
  /\ Goto(t, "a_reset")
  /\ UNCHANGED <<threadVars, queueVars, moved, torn, sendDone, recvVars,
                 endVars, kernelVars, envVars>>

AddClaimsAlways(t) ==   \* seeded fault: the value that was there is not tested
  /\ Is(t, "a_compare")
  /\ sendOccuring' = 1
  /\ Goto(t, "a_reset")
  /\ UNCHANGED <<threadVars, queueVars, moved, torn, sendDone, recvVars,
                 endVars, kernelVars, envVars>>

AddClaims(t) ==
  /\ Is(t, "a_compare")
  /\ sendOccuring = 0
  /\ sendOccuring' = 1
  /\ Goto(t, "a_reset")
  /\ UNCHANGED <<threadVars, queueVars, moved, torn, sendDone, recvVars,
                 endVars, kernelVars, envVars>>

AddWithoutReset(t) ==   \* seeded fault: the event stays signalled
  /\ Is(t, "a_reset")
  /\ mutex' = NoThread
  /\ Goto(t, "a_send")
  /\ UNCHANGED <<threadVars, queue, pushed, moved, torn, sendVars, recvVars,
                 endVars, kernelVars, envVars>>

AddReset(t) ==
  /\ Is(t, "a_reset")
  /\ sendDone' = FALSE
  /\ mutex' = NoThread
  /\ Goto(t, "a_send")
  /\ UNCHANGED <<threadVars, queue, pushed, moved, torn, sendOccuring,
                 recvVars, endVars, kernelVars, envVars>>

AddSends(t) ==
  /\ Is(t, "a_send")
  /\ SendPosted(job[t].msg, 0)
  /\ AddReturns(t)
  /\ UNCHANGED <<job, queueVars, moved, torn, sendVars, recvVars, endVars,
                 recvs, completions, wire, envVars>>

(* NON_FATAL_ERR.  CreateBroadcast goes on to the next client all the      *)
(* same, the other handlers return.                                        *)
AddSendFails(t) ==
  /\ Is(t, "a_send")
  /\ SendCanFail
  /\ CountFault
  /\ \/ AddReturns(t)
     \/ Goto(t, "idle") /\ answers' = [answers EXCEPT ![t] = 0]
  /\ UNCHANGED <<job, queueVars, moved, torn, sendVars, recvVars, endVars,
                 kernelVars, requests, broadcasts, up>>

-----------------------------------------------------------------------------
(* WorkerSendOP, with WorkerPartialSend, ManageSendQueue, CheckSendQueue   *)

(* The bytes are booked on the message at the head of the queue, which is  *)
(* taken to be the one whose send completed.                               *)
SendIsPartial(t) ==
  /\ Is(t, "s_peek") /\ queue # <<>>
  /\ moved[Head(queue)] + job[t].bytes < MsgSize

SendBook(t) ==
  moved' = [moved EXCEPT ![Head(queue)] = @ + job[t].bytes]

SendTears == torn' = (torn \/ InFirstBody(moved'[Head(queue)]))

SendPartialFromStart(t) ==   \* seeded fault: the buffers are not advanced
  /\ SendIsPartial(t)
  /\ SendBook(t)
  /\ SendTears
  /\ SendPosted(Head(queue), 0)
  /\ Goto(t, "idle")
  /\ UNCHANGED <<threadVars, queueVars, sendVars, recvVars, endVars, recvs,
                 completions, wire, envVars>>

SendPartial(t) ==
  /\ SendIsPartial(t)
  /\ SendBook(t)
  /\ SendTears
  /\ ~Wraps(moved'[Head(queue)])
  /\ SendPosted(Head(queue), moved'[Head(queue)])
  /\ Goto(t, "idle")
  /\ UNCHANGED <<threadVars, queueVars, sendVars, recvVars, endVars, recvs,
                 completions, wire, envVars>>

(* CLIENT_REMOVE_ERR, with the shutdown event set.  A length below zero is *)
(* taken for one of four thousand million, which is not sent.              *)
SendPartialFails(t) ==
  /\ SendIsPartial(t)
  /\ SendBook(t)
  /\ SendTears
  /\ \/ SendCanFail /\ CountFault
     \/ Wraps(moved'[Head(queue)]) /\ UNCHANGED faults
  /\ stopped' = TRUE
  /\ UNCHANGED <<pc, threadVars, queueVars, sendVars, recvVars, destroying,
                 closed, kernelVars, requests, broadcasts, up>>

SendWhole(t) ==
  /\ Is(t, "s_peek") /\ queue # <<>> /\ ~SendIsPartial(t)
  /\ SendBook(t)
  /\ Goto(t, "s_pop")
  /\ UNCHANGED <<threadVars, torn, queueVars, sendVars, recvVars, endVars,
                 kernelVars, envVars>>

(* QueuePeek or QueuePopRemove finds the queue empty: SRV_SHUTDOWN_ERR.    *)
QueueIsEmpty(t) ==
  /\ queue = <<>>
  /\ Is(t, "s_peek") \/ (Is(t, "s_pop") /\ mutex = NoThread)
  /\ stopped' = TRUE
  /\ UNCHANGED <<pc, threadVars, queueVars, moved, torn, sendVars, recvVars,
                 destroying, closed, kernelVars, envVars>>

SendPopLeavesOne(t) ==   \* seeded fault: a queue of one taken for empty
  /\ Is(t, "s_pop") /\ mutex = NoThread /\ queue # <<>>
  /\ mutex' = t
  /\ queue' = Tail(queue)
  /\ Goto(t, IF Len(queue') <= 1 THEN "s_decrement" ELSE "s_next")
  /\ UNCHANGED <<threadVars, pushed, moved, torn, sendVars, recvVars,
                 endVars, kernelVars, envVars>>

SendPop(t) ==
  /\ Is(t, "s_pop") /\ mutex = NoThread /\ queue # <<>>
  /\ mutex' = t
  /\ queue' = Tail(queue)
  /\ Goto(t, IF Tail(queue) = <<>> THEN "s_decrement" ELSE "s_next")
  /\ UNCHANGED <<threadVars, pushed, moved, torn, sendVars, recvVars,
                 endVars, kernelVars, envVars>>

SendDecrement(t) ==
  /\ Is(t, "s_decrement")
  /\ sendOccuring' = sendOccuring - 1
  /\ Goto(t, "s_set")
  /\ UNCHANGED <<threadVars, queueVars, moved, torn, sendDone, recvVars,
                 endVars, kernelVars, envVars>>

SendSetReturns(t) ==   \* seeded fault: an empty queue arms no receive
  /\ Is(t, "s_set")
  /\ sendDone' = TRUE
  /\ mutex' = NoThread
  /\ Goto(t, "idle")
  /\ UNCHANGED <<threadVars, queue, pushed, moved, torn, sendOccuring,
                 recvVars, endVars, kernelVars, envVars>>

SendSet(t) ==
  /\ Is(t, "s_set")
  /\ sendDone' = TRUE
  /\ mutex' = NoThread
  /\ Goto(t, "s_rearm")
  /\ UNCHANGED <<threadVars, queue, pushed, moved, torn, sendOccuring,
                 recvVars, endVars, kernelVars, envVars>>

SendNextNewest(t) ==   \* seeded fault: the queue is used as a stack
  /\ Is(t, "s_next")
  /\ SendPosted(queue[Len(queue)], moved[Head(queue)])
  /\ mutex' = NoThread
  /\ Goto(t, "s_rearm")
  /\ UNCHANGED <<threadVars, queue, pushed, moved, torn, sendVars, recvVars,
                 endVars, recvs, completions, wire, envVars>>

SendNext(t) ==
  /\ Is(t, "s_next")
  /\ SendPosted(Head(queue), moved[Head(queue)])
  /\ mutex' = NoThread
  /\ Goto(t, "s_rearm")
  /\ UNCHANGED <<threadVars, queue, pushed, moved, torn, sendVars, recvVars,
                 endVars, recvs, completions, wire, envVars>>

SendNextFails(t) ==
  /\ Is(t, "s_next")
  /\ SendCanFail
  /\ CountFault
  /\ mutex' = NoThread
  /\ Goto(t, "s_fail")
  /\ UNCHANGED <<threadVars, queue, pushed, moved, torn, sendVars, recvVars,
                 endVars, kernelVars, requests, broadcasts, up>>

(* WorkerSendOP stores 0 and returns CLIENT_REMOVE_ERR.  WorkerThread then *)
(* reads the kind of operation from the message that ManageSendQueue has   *)
(* freed: it can find either.                                              *)
SendGivesUp(t) ==
  /\ Is(t, "s_fail")
  /\ sendOccuring' = 0
  /\ \E l \in {"x_send", "x_recv"} : Goto(t, l)
  /\ UNCHANGED <<threadVars, queueVars, moved, torn, sendDone, recvVars,
                 endVars, kernelVars, envVars>>

RearmAlways(t) ==   \* seeded fault: a receive for every send that completes
  /\ Is(t, "s_rearm")
  /\ recvOccuring' = 1
  /\ Goto(t, "s_recv")
  /\ UNCHANGED <<threadVars, queueVars, moved, torn, sendVars, recvMoved,
                 endVars, kernelVars, envVars>>

Rearm(t) ==
  /\ Is(t, "s_rearm")
  /\ recvOccuring' = 1
  /\ Goto(t, IF recvOccuring = 0 THEN "s_recv" ELSE "idle")
  /\ UNCHANGED <<threadVars, queueVars, moved, torn, sendVars, recvMoved,
                 endVars, kernelVars, envVars>>

RecvPosted(t) ==
  /\ Is(t, "s_recv")
  /\ recvs' = recvs + 1
  /\ Goto(t, "idle")
  /\ UNCHANGED <<threadVars, queueVars, moved, torn, sendVars, recvVars,
                 endVars, inflight, completions, wire, envVars>>

(* CLIENT_REMOVE_ERR, with the server's state set to STOP.                 *)
RecvPostFails(t) ==
  /\ Is(t, "s_recv")
  /\ ~up
  /\ stopped' = TRUE
  /\ UNCHANGED <<pc, threadVars, queueVars, moved, torn, sendVars, recvVars,
                 destroying, closed, kernelVars, envVars>>

-----------------------------------------------------------------------------
(* WorkerRecvOP, with WorkerPartialRecv and WorkerWSARecv                  *)

RecvIsPartial(t) ==
  Is(t, "r_parse") /\ recvMoved + job[t].bytes < MsgSize

(* The rest of the packet is asked for; m_plRecvOccuring stays.            *)
RecvPartial(t) ==
  /\ RecvIsPartial(t)
  /\ recvMoved' = recvMoved + job[t].bytes
  /\ recvs' = recvs + 1
  /\ Goto(t, "idle")
  /\ UNCHANGED <<threadVars, queueVars, moved, torn, sendVars, recvOccuring,
                 endVars, inflight, completions, wire, envVars>>

RecvPartialFails(t) ==
  /\ RecvIsPartial(t)
  /\ ~up
  /\ stopped' = TRUE
  /\ UNCHANGED <<pc, threadVars, queueVars, moved, torn, sendVars, recvVars,
                 destroying, closed, kernelVars, envVars>>

RecvWholeKeepsFlag(t) ==   \* seeded fault: the decrement is forgotten
  /\ Is(t, "r_parse") /\ ~RecvIsPartial(t)
  /\ recvMoved' = 0
  /\ Goto(t, "handle")
  /\ UNCHANGED <<threadVars, queueVars, moved, torn, sendVars, recvOccuring,
                 endVars, kernelVars, envVars>>

(* The packet is copied to the stack, the receive buffer reset and only    *)
(* then given up for another receive.                                      *)
RecvWhole(t) ==
  /\ Is(t, "r_parse") /\ ~RecvIsPartial(t)
  /\ recvMoved' = 0
  /\ recvOccuring' = recvOccuring - 1
  /\ Goto(t, "handle")
  /\ UNCHANGED <<threadVars, queueVars, moved, torn, sendVars, endVars,
                 kernelVars, envVars>>

(* HandleClientPacket: an answer, or the sender's own copy and an answer.  *)
Answer(t) ==
  /\ Is(t, "handle")
  /\ \E n \in 1..MaxAnswers : answers' = [answers EXCEPT ![t] = n - 1]
  /\ Goto(t, "a_lock")
  /\ UNCHANGED <<job, queueVars, moved, torn, sendVars, recvVars, endVars,
                 kernelVars, envVars>>

(* SendOtherClientMessage: the send to the other client failed at once.    *)
NoAnswer(t) ==
  /\ Is(t, "handle")
  /\ PeerFaults
  /\ Goto(t, "idle")
  /\ UNCHANGED <<threadVars, queueVars, moved, torn, sendVars, recvVars,
                 endVars, kernelVars, envVars>>

-----------------------------------------------------------------------------
(* HandleClientShutdown for a registered user, and ClientShutdown          *)

(* A send that failed: if a send was going on, it is over.                 *)
EndSend(t) ==
  /\ Is(t, "x_send")
  /\ sendOccuring' = 0
  /\ Goto(t, IF sendOccuring = 1 THEN "x_set" ELSE "idle")
  /\ UNCHANGED <<threadVars, queueVars, moved, torn, sendDone, recvVars,
                 endVars, kernelVars, envVars>>

EndSendSet(t) ==
  /\ Is(t, "x_set")
  /\ sendDone' = TRUE
  /\ Goto(t, "idle")
  /\ UNCHANGED <<threadVars, queueVars, moved, torn, sendOccuring, recvVars,
                 endVars, kernelVars, envVars>>

EndRecvUnclaimed(t) ==   \* seeded fault: m_plBeingDestroyed is not tested
  /\ Is(t, "x_recv")
  /\ destroying' = TRUE
  /\ Goto(t, "x_check")
  /\ UNCHANGED <<threadVars, queueVars, moved, torn, sendVars, recvVars,
                 closed, stopped, kernelVars, envVars>>

(* A receive that failed: the first thread to claim the user destroys it.  *)
EndRecv(t) ==
  /\ Is(t, "x_recv")
  /\ destroying' = TRUE
  /\ Goto(t, IF destroying THEN "idle" ELSE "x_check")
  /\ UNCHANGED <<threadVars, queueVars, moved, torn, sendVars, recvVars,
                 closed, stopped, kernelVars, envVars>>

CloseCheck(t) ==
  /\ Is(t, "x_check")
  /\ Goto(t, IF sendOccuring # 0 THEN "x_wait" ELSE "x_free")
  /\ UNCHANGED <<threadVars, queueVars, moved, torn, sendVars, recvVars,
                 endVars, kernelVars, envVars>>

CloseWait(t) ==
  /\ Is(t, "x_wait")
  /\ sendDone
  /\ Goto(t, "x_free")
  /\ UNCHANGED <<threadVars, queueVars, moved, torn, sendVars, recvVars,
                 endVars, kernelVars, envVars>>

(* HashTableDestroyEntry and UserFreeFunction.                             *)
CloseFree(t) ==
  /\ Is(t, "x_free")
  /\ closed' = TRUE
  /\ Goto(t, "idle")
  /\ UNCHANGED <<threadVars, queueVars, moved, torn, sendVars, recvVars,
                 destroying, stopped, kernelVars, envVars>>

-----------------------------------------------------------------------------
AddStep(t) ==
  \/ AddPush(t) \/ AddDefers(t) \/ AddClaims(t) \/ AddReset(t)
  \/ AddSends(t) \/ AddSendFails(t)

SendStep(t) ==
  \/ SendPartial(t) \/ SendPartialFails(t) \/ SendWhole(t)
  \/ QueueIsEmpty(t) \/ SendPop(t) \/ SendDecrement(t) \/ SendSet(t)
  \/ SendNext(t) \/ SendNextFails(t) \/ SendGivesUp(t)
  \/ Rearm(t) \/ RecvPosted(t) \/ RecvPostFails(t)

RecvStep(t) ==
  \/ RecvPartial(t) \/ RecvPartialFails(t) \/ RecvWhole(t)
  \/ Answer(t) \/ NoAnswer(t)

EndStep(t) ==
  \/ EndSend(t) \/ EndSendSet(t) \/ EndRecv(t)
  \/ CloseCheck(t) \/ CloseWait(t) \/ CloseFree(t)

Work(t) == AddStep(t) \/ SendStep(t) \/ RecvStep(t) \/ EndStep(t)

Kernel == SendCompletes \/ RecvCompletes

Next ==
  \/ \E t \in Threads : TakeCompletion(t) \/ Broadcast(t) \/ Work(t)
  \/ Kernel
  \/ ConnectionLost

Spec == Init /\ [][Next]_vars

(* The operating system runs every thread that can run and completes every *)
(* operation it has; whoever waits on the port takes what arrives.  Other  *)
(* clients need not send anything.                                         *)
Fairness ==
  /\ \A t \in Threads : WF_vars(Work(t))
  /\ WF_vars(\E t \in Threads : TakeCompletion(t))
  /\ WF_vars(SendCompletes)
  /\ WF_vars(RecvCompletes)

FairSpec == Spec /\ Fairness

-----------------------------------------------------------------------------
(* Properties                                                              *)

(* Every variable stays in its range.                                      *)
TypeOK ==
  /\ pc \in [Threads -> Locations]
  /\ job \in [Threads -> Jobs]
  /\ answers \in [Threads -> 0..(MaxAnswers - 1)]
  /\ mutex \in Threads \cup {NoThread}
  /\ queue \in Seq(Messages)
  /\ pushed \in 0..MaxMessages
  /\ moved \in [Messages -> Nat] /\ torn \in BOOLEAN
  /\ sendOccuring \in {0, 1}
  /\ sendDone \in BOOLEAN
  /\ recvOccuring \in {0, 1}
  /\ recvMoved \in 0..(MsgSize - 1)
  /\ destroying \in BOOLEAN /\ closed \in BOOLEAN /\ stopped \in BOOLEAN
  /\ inflight \in Seq([msg : Messages, left : 0..MsgSize])
  /\ recvs \in 0..1
  /\ completions \in Seq(Jobs)
  /\ wire \in Seq(Messages)
  /\ requests \in Nat /\ broadcasts \in Nat
  /\ faults \in 0..MaxSyncFaults
  /\ up \in BOOLEAN

(* Completions of one kind that wait at the port.                          *)
Waiting(op) == {i \in DOMAIN completions : completions[i].op = op}

(* Where the send of a message is between the thread that claimed it and   *)
(* the thread that ends it: in the kernel, at the port, or in a thread.    *)
SendersAt == {"a_reset", "a_send", "s_peek", "s_pop", "s_decrement", "s_next",
              "x_send"}
Senders == Len(inflight) + Cardinality(Waiting("send"))
             + Cardinality(At(SendersAt))

(* m_plSendOccuring says exactly whether somebody is sending, and never    *)
(* more than one is: a message is neither sent beside another one nor left *)
(* to nobody.                                                              *)
OneSender == Senders = sendOccuring

(* The message WorkerSendOP books a completion on, which it finds by       *)
(* looking at the queue without the mutex, is the one that was sent.       *)
BookedMessageWasSent ==
  \A t \in Threads :
    pc[t] = "s_peek" => queue # <<>> /\ Head(queue) = job[t].msg

(* When no thread is between an update of m_plSendOccuring and the update  *)
(* of SEND_DONE_EVENT that goes with it, the event is signalled exactly    *)
(* when nothing is being sent.  A send of no length ends in another way    *)
(* (EndSend), which takes no mutex, and its late SetEvent may meet the     *)
(* next send.                                                              *)
DoneMeansNotSending ==
  \/ torn
  \/ At({"a_reset", "s_set", "x_set"}) = {} => (sendDone <=> sendOccuring = 0)

(* A queue with something in it and no thread at work on it has a sender,  *)
(* unless a message was torn: a rest of no length completes with no bytes, *)
(* which is taken for a failed send, and the message stays in the queue.   *)
NothingStranded ==
  torn \/ (mutex = NoThread /\ queue # <<>> => sendOccuring = 1)

(* Where the receive buffer is in use: by the kernel, by a completion at   *)
(* the port, or by a thread that reads it or is about to post a receive.   *)
Receivers == recvs + Cardinality(Waiting("recv"))
               + Cardinality(At({"r_parse", "s_recv"}))

(* There is never a second receive into the one receive buffer of a user,  *)
(* nor one beside a thread that still reads a packet in it, although every *)
(* send completion, on any thread, may arm one.                            *)
OneReceiver == Receivers <= recvOccuring

(* The user never goes deaf: when no receive is armed, an answer is on its *)
(* way whose completion will arm one, unless a message was torn, whose     *)
(* last completion may have no bytes and arm none.                         *)
NeverDeaf ==
  Receivers = 0 =>
    \/ torn
    \/ Senders > 0
    \/ At({"handle", "a_lock", "a_compare", "s_set", "s_rearm"}) # {}

(* A user is claimed for destruction by one thread only.                   *)
OneCloser == Cardinality(At({"x_check", "x_wait", "x_free"})) <= 1

(* What leaves the server is the stream ClientStream promises: whole       *)
(* messages in the order of acceptance, all of them in the end, until a    *)
(* send stops inside the first body of a message (s_worker.c:205).         *)
Stream == INSTANCE ClientStream WITH accepted <- pushed, stream <- wire
SendsWholeStream == Stream!FairSpec

(* Every packet the client sends is received in the end, or a message to   *)
(* it was torn.                                                            *)
EveryRequestArrives == <>(requests = 0 \/ torn)

-----------------------------------------------------------------------------
(* What comments of the repository say and the code does not do            *)

(* "Waiting for m_plSendOccuring to go to zero." (s_worker.c:1132): when   *)
(* the wait of ClientShutdown ends, no send of the user is going on.       *)
WaitEndsWithSends ==
  [][\A t \in Threads :
       pc[t] = "x_wait" /\ pc'[t] = "x_free" => sendOccuring = 0]_vars

(* "There will always be at least one receive that will come through.      *)
(* Function waits for this IOCP return to conduct shutdown."               *)
(* (s_worker.c:1173): after the connection is lost, a failed receive makes *)
(* some thread destroy the user.                                           *)
LostClientIsDestroyed == ~up ~> (destroying \/ stopped)
=============================================================================
