---------------------------- MODULE ClientSession ----------------------------
(***************************************************************************)
(* The two threads of the command line client (client_cli) after a         *)
(* successful registration: the main thread in UserListen, which sends a   *)
(* request and reads its answer, and ListenForChats, which reads the chats *)
(* that arrive meanwhile. They share one non-blocking socket, its mutex and *)
(* four manual-reset events. The server and the network are external: the  *)
(* server answers every request once and sends chats whenever it likes.    *)
(*                                                                         *)
(* A packet is one unit of header and, for a chat or a list, BodyUnits of  *)
(* body; units arrive one at a time.                                       *)
(***************************************************************************)
EXTENDS Naturals, Sequences, FiniteSetsExt

CONSTANTS MaxChats,     \* chats the server sends, a bound of the model
          MaxRequests,  \* requests the user makes, a bound of the model
          BodyUnits     \* segments the body of a packet may arrive in

ASSUME SessionAssumption == /\ MaxChats \in Nat
                            /\ MaxRequests \in Nat
                            /\ BodyUnits \in Nat \ {0}

VARIABLES pc,         \* where each thread is
          state,      \* g_bClientState
          signalled,  \* the manual-reset events
          mutex,      \* who owns SOCKET_MUTEX
          ready,      \* dwReadReady of the listener
          cmd,        \* the command of the request in progress
          res,        \* hResult of each thread's receive
          hand,       \* the packet a thread is reading or holds
          left,       \* units of its body not read yet
          printed,    \* the chats written to the console
          ctrl,       \* the console control handler
          fdArmed,    \* whether new data raises FD_READ
          sock,       \* units in the socket's receive buffer
          net,        \* units on their way
          request,    \* the request the server has to answer
          asked, sent,\* requests made and chats sent, to bound them
          torn        \* history: a packet was given up in its middle

local == <<ready, cmd, res, hand, left, printed, torn>>
network == <<net, request, sent>>
vars == <<pc, state, signalled, mutex, local, ctrl, fdArmed, sock, network, asked>>

Threads == {"listener", "user"}
Events == {"READ", "FINISHED", "WAITING", "SHUTDOWN"}
\* A broadcast takes the same steps as a message.
Commands == {"msg", "list", "quit"}

\* The contents of a packet: chat i, the answer to a request, or what a
\* header is taken for when it is read out of the middle of a body.
Answer == 0
Chats == 1 .. MaxChats
Garbage == MaxChats + 1
NoPacket == MaxChats + 2

Header(k, n) == [part |-> "header", kind |-> k, len |-> n]
Body(k) == [part |-> "body", kind |-> k, len |-> 0]
Packet(k, n) == <<Header(k, n)>> \o [i \in 1 .. n |-> Body(k)]
Units == [part : {"header", "body"}, kind : Chats \cup {Answer}, len : 0 .. BodyUnits]

-----------------------------------------------------------------------------
\* Where a thread is the owner of the socket, and where the user's thread is
\* unless a shutdown ended its wait.
ListenerHolds == {"recv", "peek", "release"}
UserHolds == {"send", "answer", "waitRecv", "resetRecv", "resetTimeout", "recv",
              "peek", "received"}
UserMayHold == {"resetWaiting", "setFinished", "release"}

ListenerPlaces == {"top", "waitIdle", "waitRead", "resetRead", "waitSocket",
                   "recv", "peek", "release", "resetAgain", "print",
                   "fail", "failSignal", "exited"}
UserPlaces == UserHolds \cup UserMayHold \cup
             {"top", "setWaiting", "prompt", "waitMutex", "leave",
              "leaveSignal", "signalRead", "join", "gone"}

Init ==
  /\ pc = [t \in Threads |-> "top"]
  /\ state = "CONTINUE"
  /\ signalled = [e \in Events |-> e = "FINISHED"]
  /\ mutex = "none"
  /\ ready = "none"
  /\ cmd = "none"
  /\ res = [t \in Threads |-> "S_OK"]
  /\ hand = [t \in Threads |-> NoPacket]
  /\ left = [t \in Threads |-> 0]
  /\ printed = {}
  /\ torn = FALSE
  /\ ctrl = "idle"
  /\ fdArmed = TRUE
  /\ sock = <<>> /\ net = <<>>
  /\ request = "none"
  /\ asked = 0 /\ sent = 0

\* A returned main thread ends the process, and the listener with it.
At(t, place) == pc[t] = place /\ pc["user"] # "gone"
Goto(t, place) == pc' = [pc EXCEPT ![t] = place]
Set(e) == signalled' = [signalled EXCEPT ![e] = TRUE]
Reset(e) == signalled' = [signalled EXCEPT ![e] = FALSE]

-----------------------------------------------------------------------------
(* WSARecv on the socket. FD_READ is raised once and then not before the    *)
(* next receive, which raises it at once if it leaves data behind.          *)
Reenable(rest) ==
  /\ fdArmed' = (rest = <<>>)
  /\ signalled' = [signalled EXCEPT !["READ"] = @ \/ rest # <<>>]

\* Nothing is there: WSAEWOULDBLOCK, which the callers turn into E_FAIL.
RecvNothing(t) ==
  /\ At(t, "recv")
  /\ sock = <<>>
  /\ res' = [res EXCEPT ![t] = "E_FAIL"]
  /\ hand' = [hand EXCEPT ![t] = NoPacket]
  /\ Reenable(sock)
  /\ Goto(t, "release")
  /\ UNCHANGED <<state, mutex, ready, cmd, left, printed, torn, ctrl, sock, network, asked>>

\* Where a thread goes with a whole packet, and to receive more of it.
Received(t) == IF t = "listener" THEN "release" ELSE "received"
RecvMore(t) == IF t = "listener" THEN "recv" ELSE "waitRecv"

\* What lies at the front is taken for a header, whatever it is.
RecvHeader(t) ==
  /\ At(t, "recv")
  /\ hand[t] = NoPacket
  /\ sock # <<>>
  /\ \E k \in IF Head(sock).part = "header" THEN {Head(sock).kind} ELSE {Garbage},
        n \in IF Head(sock).part = "header" THEN {Head(sock).len} ELSE 0 .. BodyUnits :
       /\ hand' = [hand EXCEPT ![t] = k]
       /\ left' = [left EXCEPT ![t] = n]
       /\ Goto(t, IF n = 0 THEN Received(t) ELSE RecvMore(t))
  /\ sock' = Tail(sock)
  /\ Reenable(sock')
  /\ UNCHANGED <<state, mutex, ready, cmd, res, printed, torn, ctrl, network, asked>>

\* Seeded fault: the length of the buffer is not what is left of the packet.
RecvBodyAndMore(t) ==
  LET n == Len(sock) IN
  /\ At(t, "recv")
  /\ hand[t] # NoPacket
  /\ sock # <<>>
  /\ left' = [left EXCEPT ![t] = @ - n]
  /\ sock' = <<>>
  /\ Reenable(sock')
  /\ Goto(t, IF n = left[t] THEN Received(t) ELSE "peek")
  /\ UNCHANGED <<state, mutex, ready, cmd, res, hand, printed, torn, ctrl, network, asked>>

RecvBody(t) ==
  LET n == Min({left[t], Len(sock)}) IN
  /\ At(t, "recv")
  /\ hand[t] # NoPacket
  /\ sock # <<>>
  /\ left' = [left EXCEPT ![t] = @ - n]
  /\ sock' = SubSeq(sock, n + 1, Len(sock))
  /\ Reenable(sock')
  /\ Goto(t, IF n = left[t] THEN Received(t) ELSE "peek")
  /\ UNCHANGED <<state, mutex, ready, cmd, res, hand, printed, torn, ctrl, network, asked>>

\* After a part of a body SocketPeek must find more of it, or the packet is
\* given up with E_UNEXPECTED and freed.
SocketPeek(t) ==
  /\ At(t, "peek")
  /\ Reenable(sock)
  /\ IF sock # <<>>
     THEN Goto(t, RecvMore(t)) /\ UNCHANGED <<res, hand, torn>>
     ELSE /\ res' = [res EXCEPT ![t] = "E_UNEXPECTED"]
          /\ hand' = [hand EXCEPT ![t] = NoPacket]
          /\ torn' = TRUE
          /\ Goto(t, "release")
  /\ UNCHANGED <<state, mutex, ready, cmd, left, printed, ctrl, sock, network, asked>>

Recv(t) == RecvNothing(t) \/ RecvHeader(t) \/ RecvBody(t) \/ SocketPeek(t)

-----------------------------------------------------------------------------
(* ListenForChats.                                                          *)
ListenerLoop ==
  /\ At("listener", "top")
  /\ ready' = "none"
  /\ Goto("listener", IF state = "CONTINUE" THEN "waitIdle" ELSE "exited")
  /\ UNCHANGED <<state, signalled, mutex, cmd, res, hand, left, printed, torn, ctrl,
                 fdArmed, sock, network, asked>>

\* Wait until the user's thread is at its prompt.
ListenerWaitIdle ==
  /\ At("listener", "waitIdle")
  /\ signalled["WAITING"] \/ signalled["SHUTDOWN"]
  /\ Goto("listener", IF signalled["WAITING"] THEN "waitRead" ELSE "fail")
  /\ UNCHANGED <<state, signalled, mutex, local, ctrl, fdArmed, sock, network, asked>>

\* Seeded fault: the wait for data does not watch the shutdown event.
ListenerWaitReadOnly ==
  /\ At("listener", "waitRead")
  /\ signalled["READ"] \/ signalled["FINISHED"]
  /\ ready' = IF signalled["READ"] THEN "read" ELSE "sync"
  /\ Goto("listener", "resetRead")
  /\ UNCHANGED <<state, signalled, mutex, cmd, res, hand, left, printed, torn, ctrl,
                 fdArmed, sock, network, asked>>

\* Of several signalled events the first one counts.
ListenerWaitRead ==
  /\ At("listener", "waitRead")
  /\ signalled["READ"] \/ signalled["FINISHED"] \/ signalled["SHUTDOWN"]
  /\ ready' = IF signalled["READ"] THEN "read"
              ELSE IF signalled["FINISHED"] THEN "sync" ELSE "shutdown"
  /\ Goto("listener", "resetRead")
  /\ UNCHANGED <<state, signalled, mutex, cmd, res, hand, left, printed, torn, ctrl,
                 fdArmed, sock, network, asked>>

\* The event is reset whatever ended the wait.
ListenerResetRead ==
  /\ At("listener", "resetRead")
  /\ Reset("READ")
  /\ Goto("listener", CASE ready = "read" -> "waitSocket"
                        [] ready = "sync" -> "top"
                        [] ready = "shutdown" -> "fail")
  /\ UNCHANGED <<state, mutex, local, ctrl, fdArmed, sock, network, asked>>

\* The result of the second wait is dwSocketWait, but the branch for the
\* user's input looks at the first wait's.
ListenerWaitSocket ==
  /\ At("listener", "waitSocket")
  /\ mutex = "none" \/ signalled["FINISHED"] \/ signalled["SHUTDOWN"]
  /\ IF mutex = "none"
     THEN mutex' = "listener" /\ Goto("listener", "recv")
     ELSE /\ Goto("listener", IF ready = "sync" THEN "top" ELSE "fail")
          /\ UNCHANGED mutex
  /\ UNCHANGED <<state, signalled, local, ctrl, fdArmed, sock, network, asked>>

ListenerRelease ==
  /\ At("listener", "release")
  /\ mutex' = "none"
  /\ Goto("listener", "resetAgain")
  /\ UNCHANGED <<state, signalled, local, ctrl, fdArmed, sock, network, asked>>

ListenerResetAgain ==
  /\ At("listener", "resetAgain")
  /\ Reset("READ")
  /\ Goto("listener", IF res["listener"] = "S_OK" THEN "print" ELSE "fail")
  /\ UNCHANGED <<state, mutex, local, ctrl, fdArmed, sock, network, asked>>

\* A packet that is no chat is reported as invalid.
ListenerPrint ==
  /\ At("listener", "print")
  /\ printed' = printed \cup ({hand["listener"]} \cap Chats)
  /\ hand' = [hand EXCEPT !["listener"] = NoPacket]
  /\ Goto("listener", "top")
  /\ UNCHANGED <<state, signalled, mutex, ready, cmd, res, left, torn, ctrl, fdArmed,
                 sock, network, asked>>

ListenerFail ==
  /\ At("listener", "fail")
  /\ state' = "STOP"
  /\ Goto("listener", "failSignal")
  /\ UNCHANGED <<signalled, mutex, local, ctrl, fdArmed, sock, network, asked>>

ListenerFailSignal ==
  /\ At("listener", "failSignal")
  /\ Set("SHUTDOWN")
  /\ Goto("listener", "exited")
  /\ UNCHANGED <<state, mutex, local, ctrl, fdArmed, sock, network, asked>>

Listener ==
  \/ ListenerLoop \/ ListenerWaitIdle \/ ListenerWaitRead \/ ListenerResetRead
  \/ ListenerWaitSocket \/ Recv("listener") \/ ListenerRelease
  \/ ListenerResetAgain \/ ListenerPrint \/ ListenerFail \/ ListenerFailSignal

-----------------------------------------------------------------------------
(* UserListen.                                                              *)
UserLoop ==
  /\ At("user", "top")
  /\ IF state = "CONTINUE"
     THEN Reset("FINISHED") /\ Goto("user", "setWaiting")
     ELSE Goto("user", "leave") /\ UNCHANGED signalled
  /\ UNCHANGED <<state, mutex, local, ctrl, fdArmed, sock, network, asked>>

UserSetWaiting ==
  /\ At("user", "setWaiting")
  /\ Set("WAITING")
  /\ Goto("user", "prompt")
  /\ UNCHANGED <<state, mutex, local, ctrl, fdArmed, sock, network, asked>>

\* A line was typed, and the state looked at once more.
UserCommand ==
  /\ At("user", "prompt")
  /\ IF state = "STOP"
     THEN Goto("user", "leave") /\ UNCHANGED <<cmd, asked>>
     ELSE /\ asked < MaxRequests
          /\ asked' = asked + 1
          /\ cmd' \in Commands
          /\ Goto("user", "waitMutex")
  /\ UNCHANGED <<state, signalled, mutex, ready, res, hand, left, printed, torn, ctrl,
                 fdArmed, sock, network>>

\* No command, or a /msg that is not one: the usage is printed.
UserHelp ==
  /\ At("user", "prompt")
  /\ state = "CONTINUE"
  /\ Goto("user", "top")
  /\ UNCHANGED <<state, signalled, mutex, local, ctrl, fdArmed, sock, network, asked>>

\* The console is gone or gives nothing.
UserConsoleEnds ==
  /\ At("user", "prompt")
  /\ Goto("user", "leave")
  /\ UNCHANGED <<state, signalled, mutex, local, ctrl, fdArmed, sock, network, asked>>

\* HandleMsg, HandleBroadcast, HandleList, HandleQuit. When the wait is ended
\* by the shutdown the same steps follow, without the mutex.
UserWaitMutex ==
  /\ At("user", "waitMutex")
  /\ mutex = "none" \/ signalled["SHUTDOWN"]
  /\ IF mutex = "none"
     THEN mutex' = "user" /\ UNCHANGED res
     ELSE res' = [res EXCEPT !["user"] = "E_FAIL"] /\ UNCHANGED mutex
  /\ Goto("user", "resetWaiting")
  /\ UNCHANGED <<state, signalled, ready, cmd, hand, left, printed, torn, ctrl, fdArmed,
                 sock, network, asked>>

UserResetWaiting ==
  /\ At("user", "resetWaiting")
  /\ Reset("WAITING")
  /\ Goto("user", "setFinished")
  /\ UNCHANGED <<state, mutex, local, ctrl, fdArmed, sock, network, asked>>

UserSetFinished ==
  /\ At("user", "setFinished")
  /\ Set("FINISHED")
  /\ Goto("user", IF res["user"] = "S_OK" THEN "send" ELSE "release")
  /\ UNCHANGED <<state, mutex, local, ctrl, fdArmed, sock, network, asked>>

UserSend ==
  /\ At("user", "send")
  /\ request' = cmd
  /\ Goto("user", "answer")
  /\ UNCHANGED <<state, signalled, mutex, local, ctrl, fdArmed, sock, net, sent, asked>>

\* Seeded fault: the failed send returns without ReleaseMutex.
UserSendFailsKeepsMutex ==
  /\ At("user", "send")
  /\ res' = [res EXCEPT !["user"] = "E_FAIL"]
  /\ Goto("user", "leave")
  /\ UNCHANGED <<state, signalled, mutex, ready, cmd, hand, left, printed, torn, ctrl,
                 fdArmed, sock, network, asked>>

\* WSASend fails.
UserSendFails ==
  /\ At("user", "send")
  /\ res' = [res EXCEPT !["user"] = "E_FAIL"]
  /\ Goto("user", "release")
  /\ UNCHANGED <<state, signalled, mutex, ready, cmd, hand, left, printed, torn, ctrl,
                 fdArmed, sock, network, asked>>

\* HandleSrvReturn: read packets until the answer is there; S_OK on a stop.
UserAnswerLoop ==
  /\ At("user", "answer")
  /\ Goto("user", IF state = "CONTINUE" THEN "waitRecv" ELSE "release")
  /\ UNCHANGED <<state, signalled, mutex, local, ctrl, fdArmed, sock, network, asked>>

\* BlockingRecv, before each receive. A shutdown is none of its cases: the
\* receive is tried.
UserWaitRecv ==
  /\ At("user", "waitRecv")
  /\ signalled["READ"] \/ signalled["SHUTDOWN"]
  /\ Goto("user", "resetRecv")
  /\ UNCHANGED <<state, signalled, mutex, local, ctrl, fdArmed, sock, network, asked>>

\* Seeded fault: the wait is INFINITE.
UserNeverTimesOut ==
  /\ FALSE
  /\ UNCHANGED vars

\* LISTEN_TIMEOUT has passed.
UserTimeout ==
  /\ At("user", "waitRecv")
  /\ ~signalled["READ"] /\ ~signalled["SHUTDOWN"]
  /\ Goto("user", "resetTimeout")
  /\ UNCHANGED <<state, signalled, mutex, local, ctrl, fdArmed, sock, network, asked>>

UserResetRecv ==
  /\ At("user", "resetRecv")
  /\ Reset("READ")
  /\ Goto("user", "recv")
  /\ UNCHANGED <<state, mutex, local, ctrl, fdArmed, sock, network, asked>>

UserResetTimeout ==
  /\ At("user", "resetTimeout")
  /\ Reset("READ")
  /\ res' = [res EXCEPT !["user"] = "E_FAIL"]
  /\ hand' = [hand EXCEPT !["user"] = NoPacket]
  /\ Goto("user", "release")
  /\ UNCHANGED <<state, mutex, ready, cmd, left, printed, torn, ctrl, fdArmed, sock,
                 network, asked>>

\* Seeded fault: the first packet ends the request, also when it is a chat.
UserReceivedEndsRequest ==
  /\ At("user", "received")
  /\ printed' = printed \cup ({hand["user"]} \cap Chats)
  /\ hand' = [hand EXCEPT !["user"] = NoPacket]
  /\ Goto("user", "release")
  /\ UNCHANGED <<state, signalled, mutex, ready, cmd, res, left, torn, ctrl, fdArmed,
                 sock, network, asked>>

\* Seeded fault: chats that come before the answer are passed over.
UserReceivedSkipsChat ==
  /\ At("user", "received")
  /\ hand' = [hand EXCEPT !["user"] = NoPacket]
  /\ Goto("user", IF hand["user"] \in Chats THEN "answer" ELSE "release")
  /\ UNCHANGED <<state, signalled, mutex, ready, cmd, res, left, printed, torn, ctrl,
                 fdArmed, sock, network, asked>>

\* A chat is printed and the next packet is the answer's; any other packet,
\* the answer, a failure or an unknown one, ends the request.
UserReceived ==
  /\ At("user", "received")
  /\ printed' = printed \cup ({hand["user"]} \cap Chats)
  /\ hand' = [hand EXCEPT !["user"] = NoPacket]
  /\ Goto("user", IF hand["user"] \in Chats THEN "answer" ELSE "release")
  /\ UNCHANGED <<state, signalled, mutex, ready, cmd, res, left, torn, ctrl, fdArmed,
                 sock, network, asked>>

\* HandleList gives up on any error, the others on E_FAIL only; after a
\* logout the client leaves in any case.
UserRelease ==
  LET leaves == \/ res["user"] = "E_FAIL"
                \/ res["user"] # "S_OK" /\ cmd = "list"
                \/ cmd = "quit"
  IN
  /\ At("user", "release")
  /\ mutex' = IF mutex = "user" THEN "none" ELSE mutex
  /\ res' = IF leaves THEN res ELSE [res EXCEPT !["user"] = "S_OK"]
  /\ cmd' = "none"
  /\ Goto("user", IF leaves THEN "leave" ELSE "top")
  /\ UNCHANGED <<state, signalled, ready, hand, left, printed, torn, ctrl, fdArmed,
                 sock, network, asked>>

UserLeave ==
  /\ At("user", "leave")
  /\ state' = "STOP"
  /\ Goto("user", "leaveSignal")
  /\ UNCHANGED <<signalled, mutex, local, ctrl, fdArmed, sock, network, asked>>

UserLeaveSignal ==
  /\ At("user", "leaveSignal")
  /\ Set("SHUTDOWN")
  /\ Goto("user", "signalRead")
  /\ UNCHANGED <<state, mutex, local, ctrl, fdArmed, sock, network, asked>>

\* Back in wmain.
MainSignalsRead ==
  /\ At("user", "signalRead")
  /\ Set("READ")
  /\ Goto("user", "join")
  /\ UNCHANGED <<state, mutex, local, ctrl, fdArmed, sock, network, asked>>

\* The wait for the listener's thread, which the shutdown ends too; then the
\* process frees what it has and ends.
MainJoins ==
  /\ At("user", "join")
  /\ pc["listener"] = "exited" \/ signalled["SHUTDOWN"]
  /\ Goto("user", "gone")
  /\ UNCHANGED <<state, signalled, mutex, local, ctrl, fdArmed, sock, network, asked>>

User ==
  \/ UserLoop \/ UserSetWaiting \/ UserWaitMutex \/ UserResetWaiting
  \/ UserSetFinished \/ UserSend \/ UserSendFails \/ UserAnswerLoop
  \/ UserWaitRecv \/ UserTimeout \/ UserResetRecv \/ UserResetTimeout
  \/ Recv("user") \/ UserReceived \/ UserRelease \/ UserLeave
  \/ UserLeaveSignal \/ MainSignalsRead \/ MainJoins

Console == UserCommand \/ UserHelp \/ UserConsoleEnds

-----------------------------------------------------------------------------
(* GracefulShutdown, on a thread of its own.                                *)
CtrlStop ==
  /\ ctrl = "idle" /\ pc["user"] # "gone"
  /\ state' = "STOP"
  /\ ctrl' = "stopping"
  /\ UNCHANGED <<pc, signalled, mutex, local, fdArmed, sock, network, asked>>

CtrlSignal ==
  /\ ctrl = "stopping" /\ pc["user"] # "gone"
  /\ Set("SHUTDOWN")
  /\ ctrl' = "done"
  /\ UNCHANGED <<pc, state, mutex, local, fdArmed, sock, network, asked>>

-----------------------------------------------------------------------------
(* The server and the network, while there is a client.                     *)
ServerChat ==
  /\ pc["user"] # "gone"
  /\ sent < MaxChats
  /\ sent' = sent + 1
  /\ net' = net \o Packet(sent', BodyUnits)
  /\ UNCHANGED <<pc, state, signalled, mutex, local, ctrl, fdArmed, sock, request, asked>>

ServerAnswer ==
  /\ pc["user"] # "gone"
  /\ request # "none"
  /\ net' = net \o Packet(Answer, IF request = "list" THEN BodyUnits ELSE 0)
  /\ request' = "none"
  /\ UNCHANGED <<pc, state, signalled, mutex, local, ctrl, fdArmed, sock, sent, asked>>

Arrive ==
  /\ pc["user"] # "gone"
  /\ net # <<>>
  /\ sock' = Append(sock, Head(net))
  /\ net' = Tail(net)
  /\ signalled' = [signalled EXCEPT !["READ"] = @ \/ fdArmed]
  /\ fdArmed' = FALSE
  /\ UNCHANGED <<pc, state, mutex, local, ctrl, request, sent, asked>>

Next ==
  \/ Listener \/ User \/ Console \/ CtrlStop \/ CtrlSignal
  \/ ServerChat \/ ServerAnswer \/ Arrive

Spec == Init /\ [][Next]_vars

\* Both threads and the control handler run when they can, and what was sent
\* arrives. Nothing is assumed of the user and of the server.
FairSpec ==
  /\ Spec
  /\ WF_vars(Listener) /\ WF_vars(User) /\ WF_vars(CtrlSignal) /\ WF_vars(Arrive)

-----------------------------------------------------------------------------
(* Every variable has its type.                                             *)
TypeOK ==
  /\ pc["listener"] \in ListenerPlaces /\ pc["user"] \in UserPlaces
  /\ DOMAIN pc = Threads
  /\ state \in {"CONTINUE", "STOP"}
  /\ signalled \in [Events -> BOOLEAN]
  /\ mutex \in Threads \cup {"none"}
  /\ ready \in {"none", "read", "sync", "shutdown"}
  /\ cmd \in Commands \cup {"none"}
  /\ res \in [Threads -> {"S_OK", "E_FAIL", "E_UNEXPECTED"}]
  /\ hand \in [Threads -> 0 .. NoPacket]
  /\ left \in [Threads -> 0 .. BodyUnits]
  /\ printed \subseteq Chats
  /\ torn \in BOOLEAN
  /\ ctrl \in {"idle", "stopping", "done"}
  /\ fdArmed \in BOOLEAN
  /\ sock \in Seq(Units) /\ net \in Seq(Units)
  /\ request \in Commands \cup {"none"}
  /\ asked \in 0 .. MaxRequests /\ sent \in 0 .. MaxChats

(* SOCKET_MUTEX is with the thread that is at work on the socket and with   *)
(* nobody else: on each of their returns, also on those after a failed      *)
(* receive or a wait that the shutdown ended, the threads give back what    *)
(* they hold and only that.                                                 *)
SocketOwner ==
  /\ mutex = "listener" <=> pc["listener"] \in ListenerHolds
  /\ pc["user"] \in UserHolds => mutex = "user"
  /\ mutex = "user" => pc["user"] \in UserHolds \cup UserMayHold

Traffic == net \o sock
InTransit(k) == \E i \in 1 .. Len(Traffic) : Traffic[i] = Header(k, Traffic[i].len)
Working == state = "CONTINUE" /\ \A t \in Threads : res[t] = "S_OK"

Answered ==
  /\ hand["listener"] # Answer
  /\ pc["user"] \in {"top", "setWaiting", "prompt", "waitMutex", "resetWaiting",
                     "setFinished", "send"}
       => request = "none" /\ ~InTransit(Answer)

(* HandleSrvReturn holds the mutex to "receive the message the corresponds  *)
(* to the one that we just sent": while the client works its listener never *)
(* takes an answer for a chat, and no request is left unanswered when the   *)
(* user's thread is at its prompt or about to send.  Only a packet given up *)
(* in its middle makes the threads lose track of their answers.             *)
AskerGetsAnswerUnlessTorn == Working /\ ~torn => Answered

(* No chat is lost between the two readers: in a working client that gave   *)
(* no packet up, a chat that was sent is on its way, in the hands of a      *)
(* thread, or printed.                                                      *)
NoChatIsLost ==
  Working /\ ~torn =>
    \A i \in 1 .. sent : InTransit(i) \/ i \in printed \/ \E t \in Threads : hand[t] = i

(* A stopped client's listener ends, wherever it was waiting.               *)
ListenerEnds == state = "STOP" ~> (pc["listener"] = "exited" \/ pc["user"] = "gone")

(* Whatever the server does, a command comes to an end: the user is back at *)
(* the prompt or the program ends.                                          *)
CommandEnds == pc["user"] = "waitMutex" ~> pc["user"] \in {"prompt", "gone"}

(* "While the client is running, we'll continue to listen for data from the *)
(* server to print to the console": a chat that arrived is printed unless   *)
(* the client stops.                                                        *)
ArrivedIsPrinted ==
  \A i \in Chats : (\E n \in 1 .. Len(sock) : sock[n] = Header(i, BodyUnits))
                     ~> (i \in printed \/ state = "STOP")
=============================================================================
