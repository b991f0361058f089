------------------------------ MODULE GuiClient ------------------------------
(***************************************************************************)
(* The client with a window (client_gui): the thread of the window         *)
(* (wWinMain, WndProc, InputBoxSubclassProc), the thread that talks to the *)
(* server (InitializeClient, HandleRegistration, UserListen and the        *)
(* handlers of its commands), and the one that shows chats (ListenForChats).*)
(* The window's thread hands over what is typed through the input box and  *)
(* g_hInputReadyEvent; the others end by g_bClientState and                *)
(* g_hShutdownEvent, which the window polls at each message.               *)
(*                                                                         *)
(* A packet is one unit here: ClientSession has the same listener and the  *)
(* parts of packets.  The server and the user are external.  A local       *)
(* variable that nobody reads any more goes back to its first value.       *)
(***************************************************************************)
EXTENDS Integers, Sequences, SequencesExt

CONSTANTS
  MaxTyped,    \* pieces of text the user types, a bound of the model
  MaxChats,    \* chats the server sends, a bound of the model
  Mishaps,     \* of a request that is rejected and a packet whose rest is
               \* late, one may happen, once, a bound of the model
  NameLength,  \* characters of the name given in the connection dialog
  Console      \* a debug build has a console, whose Ctrl+C stops the client

ASSUME GuiAssumption ==
  /\ {MaxTyped, MaxChats} \subseteq Nat
  /\ Mishaps \subseteq {"reject", "torn"}
  /\ NameLength \in 1 .. 10
  /\ Console \in BOOLEAN

VARIABLES
  process,   \* running, or over
  window,    \* the main window and its controls
  wpc,       \* where the window's thread is
  cpc,       \* where the client thread is
  lpc,       \* where the listener is
  state,     \* g_bClientState
  ev,        \* the manual-reset events that are signalled
  armed,     \* new data signals READ
  mutex,     \* who owns SOCKET_MUTEX
  inbox,     \* packets in the socket
  request,   \* the server has a request to answer
  socket,    \* the socket is open
  args,      \* pListenerArgs: none, there, or freed
  box,       \* the pieces of text in the input box
  line,      \* the client thread's buffer
  nameLen,   \* dwNumberofCharsRead of HandleRegistration
  cmd,       \* the command in progress, login before the first
  got,       \* what each thread's last wait for READ returned
  res,       \* hResult of each thread's receive
  packet,    \* the packet the client thread received
  typed, chats,  \* how often, to bound them
  mishap,    \* what went wrong, or none
  taken,     \* history: the pieces that were read from the box
  racing,    \* history: the pieces typed between the read and the clearing
  acked      \* history: the request in progress was acknowledged

windowVars == <<window, wpc>>
inputVars == <<box, line, taken, racing, typed>>
netVars == <<armed, inbox, request, chats, mishap>>
clientVars == <<nameLen, cmd, packet, acked>>
ends == <<socket, args>>
vars == <<process, windowVars, cpc, lpc, state, ev, mutex, netVars, ends,
          inputVars, clientVars, got, res>>

Commands == {"msg", "broadcast", "list", "quit"}
Events == {"INPUT", "SHUTDOWN", "READ", "FINISHED", "WAITING"}
Packets == {"chat", "ack", "reject", "garbage"}
Results == {"S_OK", "E_FAIL", "E_UNEXPECTED"}

Alive == process = "running"

(* A SendMessage from another thread returns when the window's thread gets *)
(* messages, or at once if there is no such window.                        *)
SendMessageReturns == window = "open" => wpc = "loop"

ShutdownSeen == "SHUTDOWN" \in ev

-----------------------------------------------------------------------------
(* The thread of the window.                                               *)

WindowStep == Alive /\ UNCHANGED <<cpc, lpc, state, mutex, netVars, ends,
                                   clientVars, got, res>>

(* wWinMain has started the client thread and now makes the windows.       *)
(* WndProc refuses the creation when the event is signalled already, and   *)
(* then the program ends.                                                  *)
InitInstance ==
  /\ WindowStep /\ wpc = "start"
  /\ IF ShutdownSeen
     THEN process' = "over" /\ UNCHANGED windowVars
     ELSE window' = "open" /\ wpc' = "loop" /\ UNCHANGED process
  /\ UNCHANGED <<ev, inputVars>>

(* WndProc destroys the window at any message when the event is signalled. *)
(* The messages of the destruction are met the same way.                   *)
PollsShutdown ==
  /\ WindowStep /\ wpc = "loop" /\ window = "open"
  /\ ShutdownSeen
  /\ window' = "destroyed"
  /\ UNCHANGED <<process, wpc, ev, inputVars>>

(* The user types a piece of text; the edit control tells its parent.      *)
Type ==
  /\ WindowStep /\ wpc = "loop" /\ window = "open" /\ ~ShutdownSeen
  /\ typed < MaxTyped
  /\ typed' = typed + 1
  /\ box' = Append(box, typed')
  /\ racing' = IF cpc = "clearBox" THEN racing \cup {typed'} ELSE racing
  /\ UNCHANGED <<process, windowVars, ev, line, taken>>

(* Enter, met by InputBoxSubclassProc, or the Send button.  The user sends *)
(* no empty line.                                                          *)
Enter ==
  /\ WindowStep /\ wpc = "loop" /\ window = "open"
  /\ box # <<>>
  /\ ev' = ev \cup {"INPUT"}
  /\ UNCHANGED <<process, windowVars, inputVars>>

(* WM_CLOSE or IDM_EXIT: DestroyWindow, which sends WM_DESTROY.            *)
CloseWindow ==
  /\ WindowStep /\ wpc = "loop" /\ window = "open" /\ ~ShutdownSeen
  /\ wpc' = "destroying"
  /\ UNCHANGED <<process, window, ev, inputVars>>

(* WM_DESTROY posts the quit message, unless the event is signalled by     *)
(* now; the message loop ends and wWinMain returns, which ends every       *)
(* thread.                                                                 *)
HandleDestroy ==
  /\ WindowStep /\ wpc = "destroying"
  /\ window' = "destroyed" /\ wpc' = "loop"
  /\ process' = IF ShutdownSeen THEN process ELSE "over"
  /\ UNCHANGED <<ev, inputVars>>

-----------------------------------------------------------------------------
(* The socket.                                                             *)

Mishap(m) == m \in Mishaps /\ mishap = "none" /\ mishap' = m

(* A receive, or a peek, lets new data signal READ, and data that is still *)
(* there does so at once.                                                  *)
Reenable(rest) ==
  /\ inbox' = rest
  /\ armed' = (rest = <<>>)
  /\ ev' = IF rest = <<>> THEN ev ELSE ev \cup {"READ"}

(* ClientRecvPacket and ListenThreadRecvPacket from WSARecv on: nothing    *)
(* there is an error; a packet whose rest is late is given up, and the     *)
(* rest is later taken for a packet of no known kind.                      *)
RecvPacket(t) ==
  LET Got(r, p) == /\ res' = [res EXCEPT ![t] = r]
                   /\ packet' = IF t = "client" THEN p ELSE packet
  IN  \/ /\ inbox = <<>> \/ ~socket
         /\ Reenable(inbox) /\ Got("E_FAIL", "garbage")
         /\ UNCHANGED mishap
      \/ /\ inbox # <<>> /\ socket
         /\ Reenable(Tail(inbox)) /\ Got("S_OK", Head(inbox))
         /\ UNCHANGED mishap
      \/ /\ inbox # <<>> /\ socket /\ Mishap("torn")
         /\ Reenable(<<"garbage">> \o Tail(inbox)) /\ Got("E_UNEXPECTED", "garbage")

Arrives(p) ==
  /\ inbox' = Append(inbox, p)
  /\ ev' = IF armed THEN ev \cup {"READ"} ELSE ev
  /\ armed' = FALSE

NetStep == Alive /\ socket /\ UNCHANGED <<process, windowVars, cpc, lpc, state,
             mutex, ends, inputVars, clientVars, got, res>>

(* The server sends chats to a registered client.                          *)
ServerChat ==
  /\ NetStep /\ cmd # "login" /\ chats < MaxChats
  /\ Arrives("chat")
  /\ chats' = chats + 1
  /\ UNCHANGED <<request, mishap>>

(* It acknowledges a request or rejects it.                                *)
ServerAnswer ==
  /\ NetStep /\ request
  /\ request' = FALSE
  /\ \/ Arrives("ack") /\ UNCHANGED mishap
     \/ Arrives("reject") /\ Mishap("reject")
  /\ UNCHANGED chats

-----------------------------------------------------------------------------
(* The client thread.                                                      *)

ClientStep(from) == /\ Alive /\ cpc = from
                    /\ UNCHANGED <<process, windowVars, lpc>>

Goto(l) == cpc' = l
Quiet == UNCHANGED <<state, ev, mutex, netVars, ends, inputVars, clientVars, got, res>>

(* InitializeClient: ChatConnect, which takes as long as it takes, and     *)
(* ChatCreate.                                                             *)
Connect ==
  /\ ClientStep("connect")
  /\ Goto("register") /\ socket' = TRUE /\ args' = "there"
  /\ ev' = ev \cup {"FINISHED"}
  /\ UNCHANGED <<state, mutex, netVars, inputVars, clientVars, got, res>>

ConnectFails == ClientStep("connect") /\ Goto("boxConnect") /\ Quiet

(* HandleRegistration: one request for the name, with the length at hand.  *)
Register ==
  /\ ClientStep("register")
  /\ \/ /\ state = "CONTINUE"
        /\ request' = TRUE /\ acked' = FALSE
        /\ Goto("recvWait")
     \/ /\ Goto("cleanup")       \* SendPacket fails, or the client stops
        /\ UNCHANGED <<request, acked>>
  /\ line' = <<>>
  /\ UNCHANGED <<state, ev, mutex, armed, inbox, chats, mishap, ends,
                 box, taken, racing, typed, nameLen, cmd, packet, got, res>>

(* The listener is started once the name is accepted.                      *)
RegisterAccepted ==
  /\ ClientStep("registerAnswer") /\ res.client = "S_OK" /\ packet = "ack"
  /\ SendMessageReturns
  /\ cmd' = "none" /\ packet' = "garbage" /\ nameLen' = NameLength
  /\ Goto("startListener")
  /\ UNCHANGED <<state, ev, mutex, netVars, ends, inputVars, acked, got, res>>

StartListener ==
  /\ Alive /\ cpc = "startListener" /\ lpc = "none"
  /\ lpc' = "loop" /\ Goto("loop")
  /\ UNCHANGED <<process, windowVars>> /\ Quiet

(* Any other answer: the user may type another name.                       *)
RegisterRejected ==
  /\ ClientStep("registerAnswer") /\ res.client = "S_OK" /\ packet # "ack"
  /\ SendMessageReturns
  /\ Goto("waitInput")
  /\ packet' = "garbage"
  /\ UNCHANGED <<state, ev, mutex, netVars, ends, inputVars, nameLen, cmd, acked, got, res>>

RegisterFails ==
  /\ ClientStep("registerAnswer") /\ res.client # "S_OK"
  /\ Goto("cleanup")
  /\ res' = [res EXCEPT !.client = "S_OK"]
  /\ UNCHANGED <<state, ev, mutex, netVars, ends, inputVars, clientVars, got>>

(* GetAndAssign waits for a line; the shutdown event makes it fail.        *)
WaitInput ==
  /\ ClientStep("waitInput")
  /\ \/ "INPUT" \in ev /\ Goto("readBox")
     \/ "INPUT" \notin ev /\ ShutdownSeen /\ Goto("inputFails")
  /\ line' = <<>>
  /\ UNCHANGED <<state, ev, mutex, netVars, ends, box, taken, racing, typed,
                 clientVars, got, res>>

ReadBox ==
  /\ ClientStep("readBox") /\ SendMessageReturns
  /\ line' = IF window = "open" THEN box ELSE <<>>
  /\ taken' = taken \o line'
  /\ Goto("clearBox")
  /\ UNCHANGED <<state, ev, mutex, netVars, ends, box, racing, typed,
                 clientVars, got, res>>

(* Seeded fault: the text stays in the box.                                *)
ClearBoxNever ==
  /\ ClientStep("clearBox") /\ SendMessageReturns
  /\ Goto("resetInput")
  /\ Quiet

(* What was typed since the box was read goes, too.                        *)
ClearBox ==
  /\ ClientStep("clearBox") /\ SendMessageReturns
  /\ IF window = "open"
     THEN box' = <<>> ELSE UNCHANGED box
  /\ Goto("resetInput")
  /\ UNCHANGED <<state, ev, mutex, netVars, ends, line, taken, racing, typed,
                 clientVars, got, res>>

(* STOP and the event, which the client thread always sets together.       *)
Stop(l) ==
  /\ state' = "STOP" /\ ev' = ev \cup {"SHUTDOWN"}
  /\ Goto(l)
  /\ UNCHANGED <<mutex, netVars, ends, inputVars, clientVars, got, res>>

InputFails == ClientStep("inputFails") /\ Stop("resetInput")

(* The retry of a name is as long as the rejected one less the line end a  *)
(* console would have read.                                                *)
ResetInput ==
  /\ ClientStep("resetInput")
  /\ ev' = ev \ {"INPUT"}
  /\ IF cmd = "login"
     THEN Goto("register") /\ nameLen' = (nameLen - 2) % 65536
     ELSE Goto("dispatch") /\ UNCHANGED nameLen
  /\ UNCHANGED <<state, mutex, netVars, ends, inputVars, cmd, packet, acked, got, res>>

(* UserListen while the client runs: the listener may wait for chats.      *)
UserListen ==
  /\ ClientStep("loop")
  /\ IF state = "CONTINUE" THEN Goto("setWaiting") /\ ev' = ev \ {"FINISHED"}
                           ELSE Goto("leave") /\ UNCHANGED ev
  /\ UNCHANGED <<state, mutex, netVars, ends, inputVars, clientVars, got, res>>

SetWaiting ==
  /\ ClientStep("setWaiting")
  /\ ev' = ev \cup {"WAITING"} /\ Goto("waitInput")
  /\ UNCHANGED <<state, mutex, netVars, ends, inputVars, clientVars, got, res>>

(* The command of the line; PrintHelp for an empty one and for any other.  *)
Dispatch ==
  /\ ClientStep("dispatch")
  /\ \/ \E c \in Commands : line # <<>> /\ cmd' = c /\ Goto("waitMutex")
     \/ SendMessageReturns /\ Goto("loop") /\ UNCHANGED cmd
  /\ line' = <<>>
  /\ UNCHANGED <<state, ev, mutex, netVars, ends, box, taken, racing, typed, nameLen, packet, acked, got, res>>

(* HandleMsg, HandleBroadcast, HandleList, HandleQuit: the socket's mutex, *)
(* or the end of the client.                                               *)
WaitMutex ==
  /\ ClientStep("waitMutex")
  /\ \/ mutex = "none" /\ mutex' = "client"
     \/ mutex # "none" /\ ShutdownSeen /\ UNCHANGED mutex
  /\ Goto("resetWaiting")
  /\ UNCHANGED <<state, ev, netVars, ends, inputVars, clientVars, got, res>>

ResetWaiting ==
  /\ ClientStep("resetWaiting")
  /\ ev' = ev \ {"WAITING"} /\ Goto("setFinished")
  /\ UNCHANGED <<state, mutex, netVars, ends, inputVars, clientVars, got, res>>

(* Seeded fault: an interrupted wait goes on to the send.                  *)
SetFinishedSends ==
  /\ ClientStep("setFinished")
  /\ ev' = ev \cup {"FINISHED"} /\ Goto("send")
  /\ UNCHANGED <<state, mutex, netVars, ends, inputVars, clientVars, got, res>>

SetFinished ==
  /\ ClientStep("setFinished")
  /\ ev' = ev \cup {"FINISHED"}
  /\ Goto(IF mutex = "client" THEN "send" ELSE "leave")
  /\ UNCHANGED <<state, mutex, netVars, ends, inputVars, clientVars, got, res>>

Send ==
  /\ ClientStep("send")
  /\ \/ /\ request' = TRUE /\ Goto("answerLoop")
        /\ UNCHANGED res
     \/ /\ res' = [res EXCEPT !.client = "E_FAIL"] /\ Goto("release")
        /\ UNCHANGED request
  /\ acked' = FALSE
  /\ UNCHANGED <<state, ev, mutex, armed, inbox, chats, mishap, ends, inputVars,
                 nameLen, cmd, packet, got>>

(* HandleSrvReturn until the answer is there; S_OK if the client stops.    *)
AnswerLoop ==
  /\ ClientStep("answerLoop")
  /\ IF state = "CONTINUE" THEN Goto("recvWait") /\ UNCHANGED res
                           ELSE Goto("release") /\ res' = [res EXCEPT !.client = "S_OK"]
  /\ UNCHANGED <<state, ev, mutex, netVars, ends, inputVars, clientVars, got>>

(* BlockingRecv: the wait takes the first that is signalled, and ends by a *)
(* timeout otherwise.                                                      *)
RecvWait ==
  /\ ClientStep("recvWait")
  /\ got' = [got EXCEPT !.client = CASE "READ" \in ev -> "READ"
                                     [] "READ" \notin ev /\ ShutdownSeen -> "SHUTDOWN"
                                     [] OTHER -> "TIMEOUT"]
  /\ Goto("recvReset")
  /\ UNCHANGED <<state, ev, mutex, netVars, ends, inputVars, clientVars, res>>

RecvReset ==
  /\ ClientStep("recvReset")
  /\ ev' = ev \ {"READ"}
  /\ got' = [got EXCEPT !.client = "TIMEOUT"]
  /\ Goto(IF got.client = "TIMEOUT" THEN "boxTimeout" ELSE "recv")
  /\ UNCHANGED <<state, mutex, netVars, ends, inputVars, clientVars, res>>

Recv ==
  /\ ClientStep("recv")
  /\ RecvPacket("client")
  /\ Goto(IF cmd = "login" THEN "registerAnswer" ELSE "answer")
  /\ UNCHANGED <<state, mutex, request, chats, ends, inputVars, nameLen, cmd,
                 acked, got>>

(* Seeded fault: a request that was rejected counts as done.               *)
HandleSrvReturnForgiving ==
  /\ ClientStep("answer")
  /\ \/ /\ res.client = "S_OK" /\ packet = "chat"
        /\ SendMessageReturns
        /\ Goto("answerLoop") /\ UNCHANGED acked
     \/ /\ res.client = "S_OK" /\ packet # "chat"
        /\ acked' = (packet = "ack")
        /\ Goto("release")
     \/ res.client # "S_OK" /\ Goto("release") /\ UNCHANGED acked
  /\ packet' = "garbage"
  /\ UNCHANGED <<state, ev, mutex, netVars, ends, inputVars, nameLen, cmd, got, res>>

(* A chat is shown and the loop goes on; what is expected, or not known,   *)
(* ends it; a rejection is told in a message box.                          *)
HandleSrvReturn ==
  /\ ClientStep("answer")
  /\ \/ /\ res.client = "S_OK" /\ packet = "chat"
        /\ SendMessageReturns
        /\ Goto("answerLoop") /\ UNCHANGED acked
     \/ /\ res.client = "S_OK" /\ packet \in {"ack", "garbage"}
        /\ acked' = (packet = "ack")
        /\ Goto("release")
     \/ res.client = "S_OK" /\ packet = "reject" /\ Goto("boxReject") /\ UNCHANGED acked
     \/ res.client # "S_OK" /\ Goto("release") /\ UNCHANGED acked
  /\ packet' = "garbage"
  /\ UNCHANGED <<state, ev, mutex, netVars, ends, inputVars, nameLen, cmd, got, res>>

(* A message box of the client thread waits for the user.                  *)
Dismiss ==
  /\ ClientStep(cpc) /\ cpc \in {"boxConnect", "boxTimeout", "boxReject"}
  /\ CASE cpc = "boxConnect" -> Goto("cleanup") /\ UNCHANGED res
       [] cpc = "boxTimeout" ->
            /\ Goto(IF cmd = "login" THEN "registerAnswer" ELSE "release")
            /\ res' = [res EXCEPT !.client = "E_FAIL"]
       [] cpc = "boxReject" ->
            /\ Goto("release")
            /\ res' = [res EXCEPT !.client = "E_UNEXPECTED"]
  /\ UNCHANGED <<state, ev, mutex, netVars, ends, inputVars, clientVars, got>>

(* The handlers differ in what they make of the result.                    *)
Release ==
  /\ ClientStep("release")
  /\ mutex' = "none" /\ cmd' = "none"
  /\ res' = [res EXCEPT !.client = "S_OK"]
  /\ Goto(CASE cmd = "quit" \/ res.client = "E_FAIL" -> "leave"
            [] cmd = "list" /\ res.client = "E_UNEXPECTED" -> "leave"
            [] cmd = "msg" /\ res.client = "S_OK" -> "echo"
            [] OTHER -> "loop")
  /\ acked' = (acked /\ cpc' = "echo")
  /\ UNCHANGED <<state, ev, netVars, ends, inputVars, nameLen, packet, got>>

Echo ==
  /\ ClientStep("echo")
  /\ SendMessageReturns /\ Goto("loop")
  /\ acked' = FALSE
  /\ UNCHANGED <<state, ev, mutex, netVars, ends, inputVars, nameLen, cmd, packet, got, res>>

(* UserListen ends, for whatever reason.                                   *)
Leave == ClientStep("leave") /\ Stop("wakeListener")

WakeListener ==
  /\ ClientStep("wakeListener")
  /\ ev' = ev \cup {"READ"} /\ Goto("join")
  /\ UNCHANGED <<state, mutex, netVars, ends, inputVars, clientVars, got, res>>

(* The wait for the listener's thread also ends by the shutdown event.     *)
Join ==
  /\ ClientStep("join")
  /\ lpc = "done" \/ ShutdownSeen
  /\ Goto("cleanup") /\ Quiet

(* NetCleanup, then ClientShutdown, then the event.                        *)
NetCleanup ==
  /\ ClientStep("cleanup")
  /\ socket' = FALSE /\ Goto("free")
  /\ UNCHANGED <<state, ev, mutex, netVars, args, inputVars, clientVars, got, res>>

ClientShutdown ==
  /\ ClientStep("free")
  /\ args' = IF args = "there" THEN "freed" ELSE args
  /\ Goto("exit")
  /\ UNCHANGED <<state, ev, mutex, netVars, socket, inputVars, clientVars, got, res>>

Exit == ClientStep("exit") /\ Stop("done")

-----------------------------------------------------------------------------
(* The listener.  Once its arguments are freed, what it does with them is  *)
(* undefined: it fails, or the program crashes.                            *)

ListenerStep(from) == /\ Alive /\ lpc = from
                      /\ UNCHANGED <<windowVars, cpc, inputVars, clientVars>>

LGoto(l) == lpc' = l
LQuiet == UNCHANGED <<process, state, ev, mutex, netVars, ends, got, res>>

ListenForChats ==
  /\ ListenerStep("loop")
  /\ LGoto(IF state = "CONTINUE" THEN "idle" ELSE "done") /\ LQuiet

(* It waits while the client thread has a command in progress.             *)
ListenerIdle ==
  /\ ListenerStep("idle")
  /\ \/ "WAITING" \in ev /\ LGoto("waitRead")
     \/ "WAITING" \notin ev /\ ShutdownSeen /\ LGoto("fail")
  /\ LQuiet

ListenerWaitRead ==
  /\ ListenerStep("waitRead")
  /\ {"READ", "FINISHED", "SHUTDOWN"} \cap ev # {}
  /\ got' = [got EXCEPT !.listener = CASE "READ" \in ev -> "READ"
                                       [] "READ" \notin ev /\ "FINISHED" \in ev -> "FINISHED"
                                       [] OTHER -> "SHUTDOWN"]
  /\ LGoto("resetRead")
  /\ UNCHANGED <<process, state, ev, mutex, netVars, ends, res>>

ListenerResetRead ==
  /\ ListenerStep("resetRead") /\ args = "there"
  /\ got' = [got EXCEPT !.listener = "READ"]
  /\ ev' = ev \ {"READ"}
  /\ LGoto(CASE got.listener = "READ" -> "waitMutex"
             [] got.listener = "FINISHED" -> "loop"
             [] got.listener = "SHUTDOWN" -> "fail")
  /\ UNCHANGED <<process, state, mutex, netVars, ends, res>>

(* A command that begins meanwhile is an error here: the branch that would *)
(* go on looks at the result of the wait before.                           *)
ListenerWaitMutex ==
  /\ ListenerStep("waitMutex")
  /\ \/ mutex = "none" /\ mutex' = "listener" /\ LGoto("recv")
     \/ /\ mutex # "none" /\ {"FINISHED", "SHUTDOWN"} \cap ev # {}
        /\ LGoto("fail") /\ UNCHANGED mutex
  /\ UNCHANGED <<process, state, ev, netVars, ends, got, res>>

ListenerRecv ==
  /\ Alive /\ lpc = "recv" /\ args = "there"
  /\ RecvPacket("listener")
  /\ LGoto("release")
  /\ UNCHANGED <<process, windowVars, cpc, state, mutex, request, chats,
                 ends, inputVars, nameLen, cmd, acked, got>>

ListenerRelease ==
  /\ ListenerStep("release") /\ args = "there"
  /\ mutex' = "none" /\ LGoto("resetAgain")
  /\ UNCHANGED <<process, state, ev, netVars, ends, got, res>>

ListenerResetAgain ==
  /\ ListenerStep("resetAgain") /\ args = "there"
  /\ res' = [res EXCEPT !.listener = "S_OK"]
  /\ ev' = ev \ {"READ"}
  /\ LGoto(IF res.listener = "S_OK" THEN "print" ELSE "fail")
  /\ UNCHANGED <<process, state, mutex, netVars, ends, got>>

ListenerPrint ==
  ListenerStep("print") /\ SendMessageReturns /\ LGoto("loop") /\ LQuiet

ListenerUsesFreed ==
  /\ ListenerStep(lpc) /\ lpc \in {"resetRead", "recv", "release", "resetAgain"}
  /\ args = "freed"
  /\ \/ LGoto("fail") /\ UNCHANGED process
     \/ process' = "over" /\ UNCHANGED lpc
  /\ UNCHANGED <<state, ev, mutex, netVars, ends, got, res>>

ListenerFail ==
  /\ ListenerStep("fail")
  /\ state' = "STOP" /\ LGoto("signal")
  /\ UNCHANGED <<process, ev, mutex, netVars, ends, got, res>>

(* Seeded fault: the others are not told.                                  *)
ListenerSignalNone ==
  /\ ListenerStep("signal")
  /\ LGoto("done") /\ LQuiet

ListenerSignal ==
  /\ ListenerStep("signal")
  /\ ev' = ev \cup {"SHUTDOWN"} /\ LGoto("done")
  /\ UNCHANGED <<process, state, mutex, netVars, ends, got, res>>

-----------------------------------------------------------------------------
(* Ctrl+C in the console of a debug build, met in a thread of the system.  *)
GracefulShutdown ==
  /\ Alive /\ Console /\ state = "CONTINUE"
  /\ state' = "STOP" /\ ev' = ev \cup {"SHUTDOWN"}
  /\ UNCHANGED <<process, windowVars, cpc, lpc, mutex, netVars, ends, inputVars,
                 clientVars, got, res>>

-----------------------------------------------------------------------------
Init ==
  /\ process = "running" /\ window = "none"
  /\ wpc = "start" /\ cpc = "connect" /\ lpc = "none"
  /\ state = "CONTINUE"
  /\ ev = {} /\ armed = TRUE
  /\ mutex = "none"
  /\ inbox = <<>> /\ request = FALSE
  /\ socket = FALSE /\ args = "none"
  /\ box = <<>> /\ line = <<>>
  /\ nameLen = NameLength
  /\ cmd = "login"
  /\ got = [client |-> "TIMEOUT", listener |-> "READ"]
  /\ res = [client |-> "S_OK", listener |-> "S_OK"]
  /\ packet = "garbage"
  /\ typed = 0 /\ chats = 0 /\ mishap = "none"
  /\ taken = <<>> /\ racing = {}
  /\ acked = FALSE

WindowThread == InitInstance \/ PollsShutdown \/ HandleDestroy

User == Type \/ Enter \/ CloseWindow

Server == ServerChat \/ ServerAnswer

ClientThread ==
  \/ Connect \/ ConnectFails \/ Register \/ RegisterAccepted \/ StartListener
  \/ RegisterRejected \/ RegisterFails \/ WaitInput \/ ReadBox \/ ClearBox
  \/ InputFails \/ ResetInput \/ UserListen \/ SetWaiting \/ Dispatch
  \/ WaitMutex \/ ResetWaiting \/ SetFinished \/ Send \/ AnswerLoop \/ RecvWait
  \/ RecvReset \/ Recv \/ HandleSrvReturn \/ Dismiss \/ Release \/ Echo \/ Leave
  \/ WakeListener \/ Join \/ NetCleanup \/ ClientShutdown \/ Exit

Listener ==
  \/ ListenForChats \/ ListenerIdle \/ ListenerWaitRead \/ ListenerResetRead
  \/ ListenerWaitMutex \/ ListenerRecv \/ ListenerRelease \/ ListenerResetAgain
  \/ ListenerPrint \/ ListenerUsesFreed \/ ListenerFail \/ ListenerSignal

Next == \/ WindowThread \/ User \/ Server \/ ClientThread \/ Listener
        \/ GracefulShutdown

Spec == Init /\ [][Next]_vars

(* The threads run, and the user closes a message box that is before him;  *)
(* nobody has to type, and the server owes no answer.  A window whose      *)
(* creation or destruction began is made or destroyed, but no message has  *)
(* to come to it.                                                          *)
FairSpec ==
  /\ Spec
  /\ WF_vars(InitInstance \/ HandleDestroy)
  /\ WF_vars(ClientThread)
  /\ WF_vars(Listener)

-----------------------------------------------------------------------------
ClientLocations ==
  {"connect", "boxConnect", "register", "recvWait", "recvReset", "recv", "boxTimeout",
   "registerAnswer", "startListener", "waitInput", "readBox", "clearBox", "inputFails", "resetInput", "loop", "setWaiting", "dispatch", "waitMutex",
   "resetWaiting", "setFinished", "send", "answerLoop", "answer", "boxReject", "release",
   "echo", "leave", "wakeListener", "join", "cleanup", "free", "exit", "done"}
ListenerLocations ==
  {"none", "loop", "idle", "waitRead", "resetRead", "waitMutex", "recv", "release",
   "resetAgain", "print", "fail", "signal", "done"}

(* A handler of a command has SOCKET_MUTEX from its send to its release,   *)
(* and before that if its wait for it was not interrupted.                 *)
ClientHolds ==
  \/ cpc \in {"send", "answerLoop", "answer", "boxReject", "release"}
  \/ cpc \in {"recvWait", "recvReset", "recv", "boxTimeout"} /\ cmd # "login"

ClientMayHold == ClientHolds \/ cpc \in {"resetWaiting", "setFinished"}

ListenerHolds == lpc \in {"recv", "release"}

(* Its release fails, and it leaves with the mutex, when the handle it     *)
(* would release was in the arguments that are freed by then.              *)
ListenerKeeps == args = "freed" /\ lpc \in {"fail", "signal", "done"}

(* Types.  On every path of HandleMsg and ListenForChats a thread has the  *)
(* mutex where it uses the socket, and has it nowhere past its release,    *)
(* but for a listener whose arguments were freed.                          *)
TypeOK ==
  /\ process \in {"running", "over"}
  /\ window \in {"none", "open", "destroyed"}
  /\ wpc \in {"start", "loop", "destroying"}
  /\ cpc \in ClientLocations /\ lpc \in ListenerLocations
  /\ state \in {"CONTINUE", "STOP"} /\ ev \subseteq Events
  /\ mutex \in {"none", "client", "listener"}
  /\ ClientHolds => mutex = "client"
  /\ mutex = "client" => ClientMayHold
  /\ ListenerHolds => mutex = "listener"
  /\ mutex = "listener" => ListenerHolds \/ ListenerKeeps
  /\ inbox \in Seq(Packets) /\ packet \in Packets
  /\ {armed, request, socket, acked} \subseteq BOOLEAN
  /\ args \in {"none", "there", "freed"}
  /\ nameLen \in Nat /\ nameLen < 65536 /\ mishap \in Mishaps \cup {"none"}
  /\ cmd \in Commands \cup {"login", "none"}
  /\ got.client \in {"READ", "SHUTDOWN", "TIMEOUT"}
  /\ got.listener \in {"READ", "SHUTDOWN", "FINISHED"}
  /\ {res.client, res.listener} \subseteq Results
  /\ ToSet(taken) \cup ToSet(line) \cup ToSet(box) \cup racing \subseteq 1 .. typed

(* What is typed is read once and in its order, and only what is typed     *)
(* between the read of the box and its clearing is lost (GetAndAssign):    *)
(* no Enter, however early, late or repeated, takes a text twice or drops  *)
(* one, and none is lost by an Enter that the client thread overlooks.     *)
(* Texts are short here: one of more characters than the buffer has is     *)
(* cut by the read, and the rest is cleared with the box.                  *)
InBox ==
  IF cpc = "clearBox" THEN SubSeq(box, Len(line) + 1, Len(box)) ELSE box

TypedIsTakenOnce ==
  LET text == taken \o InBox
  IN  window = "open" =>
      /\ \A i, j \in DOMAIN text : i < j => text[i] < text[j]
      /\ 1 .. typed \subseteq ToSet(text) \cup racing

(* A message is shown as sent only if the server acknowledged it, as the   *)
(* comment before it says (c_user_input.c, 286), but for two cases in      *)
(* which HandleSrvReturn has no answer and returns S_OK: the client stops, *)
(* or a packet was given up and its rest is read as an unknown one.        *)
EchoMeansAcked ==
  cpc = "echo" => acked \/ state = "STOP" \/ mishap = "torn"

(* A client that stops ends its threads: whoever sets g_bClientState, each *)
(* wait of the others ends, those for the user's line and for the server   *)
(* too (CustomWaitForSingleObject), unless the program is over before.     *)
ThreadsEnd ==
  state = "STOP" ~> (process = "over" \/ (cpc = "done" /\ lpc \in {"none", "done"}))

-----------------------------------------------------------------------------
(* What comments say and the code does not do.                             *)

(* The client thread waits for the listener to finish before it frees what *)
(* they share (c_main.c, 316).                                             *)
WaitsForListener == (Alive /\ args = "freed") => lpc \in {"none", "done"}

(* WM_DESTROY posts the quit message (client_gui.c, 287): a program whose  *)
(* window is gone leaves its message loop.                                 *)
DestroyedWindowQuits == window = "destroyed" => process = "over"

(* The name that is sent is as long as the name the user gave.             *)
NameIsWhole == (cpc = "register" /\ taken # <<>>) => nameLen = Len(line)
=============================================================================
