--------------------------- MODULE GuiClientProofs ---------------------------
(***************************************************************************)
(* GuiClient for every number of pieces of text and of chats, every name   *)
(* and with or without the mishaps and the console: its type invariant,    *)
(* that a message is shown as sent only if it was acknowledged, and that   *)
(* what is typed is read once and in its order.                            *)
(*                                                                         *)
(* The invariant has six parts.  Types and Flags are the types, with who   *)
(* has SOCKET_MUTEX where it is needed, and Owners says who may have it;   *)
(* EchoInv follows the answer from the socket to    *)
(* the line that echoes the message; Texts and TextKept follow a piece of  *)
(* text from the input box to the line that is taken.                      *)
(***************************************************************************)
EXTENDS GuiClient, SequenceTheorems, TLAPS

(* TypeOK, but for the flags and the texts; the name is registered before  *)
(* there is a command, and the window's thread begins without a window.    *)
Types ==
  /\ process \in {"running", "over"}
  /\ window \in {"none", "open", "destroyed"}
  /\ wpc \in {"start", "loop", "destroying"}
  /\ cpc \in ClientLocations /\ lpc \in ListenerLocations
  /\ state \in {"CONTINUE", "STOP"} /\ ev \subseteq Events
  /\ mutex \in {"none", "client", "listener"}
  /\ ClientHolds => mutex = "client"
  /\ lpc \in {"recv", "release"} => mutex = "listener"
  /\ inbox \in Seq(Packets) /\ packet \in Packets
  /\ args \in {"none", "there", "freed"}
  /\ nameLen \in Nat /\ nameLen < 65536 /\ mishap \in Mishaps \cup {"none"}
  /\ cmd \in Commands \cup {"login", "none"}
  /\ cpc \in {"connect", "register"} => cmd = "login"
  /\ wpc = "start" => window = "none"
  /\ got \in [client : {"READ", "SHUTDOWN", "TIMEOUT"},
              listener : {"READ", "SHUTDOWN", "FINISHED"}]
  /\ res \in [client : Results, listener : Results]

Flags ==
  /\ armed \in BOOLEAN /\ request \in BOOLEAN /\ socket \in BOOLEAN
  /\ acked \in BOOLEAN

(* What is left of a packet that was given up lies in the socket.          *)
GarbageIn(s) == \E i \in 1 .. Len(s) : s[i] = "garbage"

(* A message is echoed when the receive of its answer succeeded and the    *)
(* answer was an acknowledgement. A receive that succeeds without one had  *)
(* a packet of no known kind, which only a torn packet leaves behind, or   *)
(* found that the client stops.                                            *)
EchoInv ==
  /\ cpc = "echo" => acked \/ state = "STOP" \/ mishap = "torn"
  /\ cpc = "release" /\ res.client = "S_OK" => 
       acked \/ state = "STOP" \/ mishap = "torn"
  /\ cpc = "answer" /\ res.client = "S_OK" /\ packet = "garbage" =>
       mishap = "torn"
  /\ GarbageIn(inbox) => mishap = "torn"

(* The pieces of text are numbered in the order they were typed.           *)
Texts ==
  /\ typed \in Nat /\ racing \subseteq 1 .. typed
  /\ taken \in Seq(1 .. typed) /\ line \in Seq(1 .. typed)
  /\ box \in Seq(1 .. typed)

(* Each piece comes after the one before.                                  *)
Ordered(s) == \A i, j \in 1 .. Len(s) : i < j => s[i] < s[j]

(* What was taken, and then what is in the box and was not read, is in     *)
(* order, and nothing is missing but what was typed between the read and   *)
(* the clearing. While the box is to be cleared it begins with the line    *)
(* that was read. There is no text before there is a window.               *)
TextKept ==
  window # "destroyed" =>
    /\ Ordered(taken \o InBox)
    /\ 1 .. typed \subseteq ToSet(taken) \cup ToSet(InBox) \cup racing
    /\ cpc = "clearBox" => Len(line) =< Len(box) /\ ToSet(InBox) \subseteq racing
    /\ window = "none" => box = <<>>

(* Whoever has SOCKET_MUTEX is on the way to its release, or is a listener *)
(* whose arguments were freed. The arguments are made once, and no command *)
(* is the login.                                                           *)
Owners ==
  /\ mutex = "client" => ClientMayHold
  /\ mutex = "listener" => ListenerHolds \/ ListenerKeeps
  /\ cpc = "connect" => args = "none"
  /\ cpc \in {"waitMutex", "resetWaiting", "setFinished", "send",
              "answerLoop", "answer", "boxReject", "release"} =>
       cmd # "login"

(* The inductive invariant.                                                *)
IInv == Types /\ Owners /\ Flags /\ EchoInv /\ Texts /\ TextKept

(* A step that leaves the texts alone, or forgets the line. It does not    *)
(* cross the clearing of the box, and the window is made at most once.     *)
TextSame ==
  /\ UNCHANGED <<box, taken, typed, racing>>
  /\ line' = line \/ line' = <<>>
  /\ \/ window' \in {window, "destroyed"}
     \/ window = "none" /\ window' = "open"
  /\ \/ UNCHANGED <<cpc, line>>
     \/ cpc # "clearBox" /\ cpc' # "clearBox"

(* What is left of the socket after its first packet was taken, or torn.   *)
LEMMA TailGarbage ==
  ASSUME NEW s \in Seq(Packets), s # <<>>
  PROVE  /\ Tail(s) \in Seq(Packets) /\ Head(s) \in Packets
         /\ <<"garbage">> \o Tail(s) \in Seq(Packets)
         /\ GarbageIn(Tail(s)) =>
              GarbageIn(s)
         /\ Head(s) = "garbage" => GarbageIn(s)
<1>1. /\ Len(s) \in Nat \ {0} /\ Tail(s) \in Seq(Packets)
      /\ Len(Tail(s)) = Len(s) - 1 /\ Head(s) = s[1] /\ Head(s) \in Packets
      /\ \A i \in 1 .. Len(s) - 1 : Tail(s)[i] = s[i + 1]
      /\ \A i \in 1 .. Len(s) - 1 : i + 1 \in 1 .. Len(s)
  OBVIOUS
<1>2. "garbage" \in Packets
  BY DEF Packets
<1>3. <<"garbage">> \o Tail(s) \in Seq(Packets)
  BY <1>1, <1>2
<1>4. 1 \in 1 .. Len(s)
  BY <1>1
<1> QED BY <1>1, <1>3, <1>4 DEF GarbageIn

(* A receive keeps the types of what it changes, and a torn packet is      *)
(* never forgotten (ClientRecvPacket, ListenThreadRecvPacket).             *)
LEMMA RecvPacketTypes ==
  ASSUME Types, NEW t \in {"client", "listener"}, RecvPacket(t)
  PROVE  /\ inbox' \in Seq(Packets) /\ packet' \in Packets
         /\ ev' \subseteq Events
         /\ mishap' \in Mishaps \cup {"none"}
         /\ mishap = "torn" => mishap' = "torn"
         /\ \E r \in Results : res' = [res EXCEPT ![t] = r]
         /\ t = "listener" => packet' = packet
<1>1. /\ inbox \in Seq(Packets) /\ packet \in Packets /\ ev \subseteq Events
      /\ mishap \in Mishaps \cup {"none"} /\ "READ" \in Events
      /\ "garbage" \in Packets
      /\ {"S_OK", "E_FAIL", "E_UNEXPECTED"} = Results
  BY DEF Types, Events, Packets, Results
<1>2. CASE /\ Reenable(inbox) /\ UNCHANGED mishap
           /\ res' = [res EXCEPT ![t] = "E_FAIL"]
           /\ packet' = IF t = "client" THEN "garbage" ELSE packet
  BY ONLY <1>1, <1>2 DEF Reenable
<1>3. CASE /\ inbox # <<>>
           /\ Reenable(Tail(inbox)) /\ UNCHANGED mishap
           /\ res' = [res EXCEPT ![t] = "S_OK"]
           /\ packet' = IF t = "client" THEN Head(inbox) ELSE packet
  BY ONLY <1>1, <1>3, TailGarbage DEF Reenable
<1>4. CASE /\ inbox # <<>> /\ Mishap("torn")
           /\ Reenable(<<"garbage">> \o Tail(inbox))
           /\ res' = [res EXCEPT ![t] = "E_UNEXPECTED"]
           /\ packet' = IF t = "client" THEN "garbage" ELSE packet
  <2>1. mishap' = "torn" /\ mishap' \in Mishaps
    BY ONLY <1>4 DEF Mishap
  <2>2. inbox' \in Seq(Packets) /\ ev' \subseteq Events
    BY ONLY <1>1, <1>4, TailGarbage DEF Reenable
  <2> QED BY ONLY <1>1, <1>4, <2>1, <2>2
<1> QED BY ONLY RecvPacket(t), <1>2, <1>3, <1>4 DEF RecvPacket

(* A receive finds or leaves garbage only after a torn packet.             *)
LEMMA RecvPacketGarbage ==
  ASSUME Types, NEW t \in {"client", "listener"}, RecvPacket(t),
         GarbageIn(inbox) => mishap = "torn"
  PROVE  /\ GarbageIn(inbox') => mishap' = "torn"
         /\ /\ t = "client" /\ res'.client = "S_OK" /\ packet' = "garbage"
            => mishap' = "torn"
<1>1. inbox \in Seq(Packets) /\ res \in [client : Results, listener : Results]
  BY DEF Types
<1>2. CASE /\ Reenable(inbox) /\ UNCHANGED mishap
           /\ res' = [res EXCEPT ![t] = "E_FAIL"]
  BY ONLY <1>1, <1>2, GarbageIn(inbox) => mishap = "torn" DEF Reenable
<1>3. CASE /\ inbox # <<>>
           /\ Reenable(Tail(inbox)) /\ UNCHANGED mishap
           /\ packet' = IF t = "client" THEN Head(inbox) ELSE packet
  <2>1. /\ GarbageIn(Tail(inbox)) => GarbageIn(inbox)
        /\ Head(inbox) = "garbage" => GarbageIn(inbox)
    BY ONLY <1>1, <1>3, TailGarbage
  <2> QED BY ONLY <1>3, <2>1, GarbageIn(inbox) => mishap = "torn"
    DEF Reenable
<1>4. CASE Mishap("torn")
  BY ONLY <1>4 DEF Mishap
<1> QED BY ONLY RecvPacket(t), <1>2, <1>3, <1>4 DEF RecvPacket

(* The two steps that receive, each of one thread, keep Types and EchoInv. *)
LEMMA RecvStep ==
  ASSUME Types, Recv \/ ListenerRecv
  PROVE  Types' /\ (EchoInv => EchoInv')
<1>1. CASE Recv
  <2>1. RecvPacket("client") /\ cpc = "recv"
    BY <1>1 DEF Recv, ClientStep
  <2>2. PICK r \in Results : res' = [res EXCEPT !["client"] = r]
    BY ONLY Types, <2>1, RecvPacketTypes
  <2>3. /\ inbox' \in Seq(Packets) /\ packet' \in Packets
        /\ ev' \subseteq Events
        /\ mishap' \in Mishaps \cup {"none"}
        /\ mishap = "torn" => mishap' = "torn"
    BY ONLY Types, <2>1, RecvPacketTypes
  <2>4. ASSUME EchoInv
        PROVE  /\ GarbageIn(inbox') => mishap' = "torn"
               /\ res'.client = "S_OK" /\ packet' = "garbage" => mishap' = "torn"
    <3>1. GarbageIn(inbox) => mishap = "torn"
      BY ONLY <2>4 DEF EchoInv
    <3> QED BY ONLY Types, <2>1, <3>1, RecvPacketGarbage
  <2>5. /\ cpc' = IF cmd = "login" THEN "registerAnswer" ELSE "answer"
        /\ UNCHANGED <<process, window, wpc, lpc, state, mutex, args,
                       nameLen, cmd,
                       got>>
    BY <1>1 DEF Recv, ClientStep, Goto, windowVars, ends
  <2>6. EchoInv => EchoInv'
    BY ONLY <2>4, <2>5 DEF EchoInv
  <2>7. Types'
    <3>1. res' \in [client : Results, listener : Results]
      BY ONLY Types, <2>2 DEF Types
    <3>2. cpc' \in ClientLocations /\ lpc' \in ListenerLocations
      BY ONLY Types, <2>5 DEF Types, ClientLocations, ListenerLocations
    <3>3. /\ ClientHolds' => mutex' = "client"
          /\ lpc' \in {"recv", "release"} => mutex' = "listener"
          /\ cpc' \in {"connect", "register"} => cmd' = "login"
      BY ONLY Types, <2>1, <2>5 DEF Types, ClientHolds
    <3>4. /\ process' \in {"running", "over"}
          /\ window' \in {"none", "open", "destroyed"}
          /\ wpc' \in {"start", "loop", "destroying"}
          /\ (wpc' = "start" => window' = "none")
          /\ state' \in {"CONTINUE", "STOP"}
          /\ mutex' \in {"none", "client", "listener"}
          /\ args' \in {"none", "there", "freed"}
      BY ONLY Types, <2>5 DEF Types
    <3>5. /\ nameLen' \in Nat /\ nameLen' < 65536
          /\ cmd' \in Commands \cup {"login", "none"}
          /\ got' \in [client : {"READ", "SHUTDOWN", "TIMEOUT"},
                       listener : {"READ", "SHUTDOWN", "FINISHED"}]
      BY ONLY Types, <2>5 DEF Types
    <3>6. packet' \in Packets
      BY ONLY Types, <2>3 DEF Types
    <3> QED BY ONLY <2>3, <3>1, <3>2, <3>3, <3>4, <3>5, <3>6 DEF Types
  <2> QED BY <2>6, <2>7
<1>2. CASE ListenerRecv
  <2>1. RecvPacket("listener") /\ lpc = "recv"
    BY <1>2 DEF ListenerRecv
  <2>2. PICK r \in Results : res' = [res EXCEPT !["listener"] = r]
    BY ONLY Types, <2>1, RecvPacketTypes
  <2>3. /\ inbox' \in Seq(Packets) /\ packet' = packet
        /\ ev' \subseteq Events
        /\ mishap' \in Mishaps \cup {"none"}
        /\ mishap = "torn" => mishap' = "torn"
    BY ONLY Types, <2>1, RecvPacketTypes
  <2>4. ASSUME EchoInv
        PROVE  GarbageIn(inbox') => mishap' = "torn"
    <3>1. GarbageIn(inbox) => mishap = "torn"
      BY ONLY <2>4 DEF EchoInv
    <3> QED BY ONLY Types, <2>1, <3>1, RecvPacketGarbage
  <2>5. /\ lpc' = "release"
        /\ UNCHANGED <<process, window, wpc, cpc, state, mutex, args,
                       nameLen, cmd,
                       got, acked>>
    BY <1>2 DEF ListenerRecv, LGoto, windowVars, ends
  <2>6. res'.client = res.client
    BY <2>2 DEF Types
  <2>7. ASSUME EchoInv PROVE EchoInv'
    <3>1. GarbageIn(inbox') => mishap' = "torn"
      BY ONLY <2>4, <2>7
    <3>2. UNCHANGED <<cpc, acked, state, packet>> /\ res'.client = res.client
      BY ONLY <2>3, <2>5, <2>6
    <3> QED BY ONLY <2>3, <2>7, <3>1, <3>2 DEF EchoInv
  <2>8. Types'
    <3>1. res' \in [client : Results, listener : Results]
      BY ONLY Types, <2>2 DEF Types
    <3>2. cpc' \in ClientLocations /\ lpc' \in ListenerLocations
      BY ONLY Types, <2>5 DEF Types, ClientLocations, ListenerLocations
    <3>3. /\ ClientHolds' => mutex' = "client"
          /\ lpc' \in {"recv", "release"} => mutex' = "listener"
          /\ cpc' \in {"connect", "register"} => cmd' = "login"
      BY ONLY Types, <2>1, <2>5 DEF Types, ClientHolds
    <3>4. /\ process' \in {"running", "over"}
          /\ window' \in {"none", "open", "destroyed"}
          /\ wpc' \in {"start", "loop", "destroying"}
          /\ (wpc' = "start" => window' = "none")
          /\ state' \in {"CONTINUE", "STOP"}
          /\ mutex' \in {"none", "client", "listener"}
          /\ args' \in {"none", "there", "freed"}
      BY ONLY Types, <2>5 DEF Types
    <3>5. /\ nameLen' \in Nat /\ nameLen' < 65536
          /\ cmd' \in Commands \cup {"login", "none"}
          /\ got' \in [client : {"READ", "SHUTDOWN", "TIMEOUT"},
                       listener : {"READ", "SHUTDOWN", "FINISHED"}]
      BY ONLY Types, <2>5 DEF Types
    <3>6. packet' \in Packets
      BY ONLY Types, <2>3 DEF Types
    <3> QED BY ONLY <2>3, <3>1, <3>2, <3>3, <3>4, <3>5, <3>6 DEF Types
  <2> QED BY <2>7, <2>8
<1> QED BY <1>1, <1>2

(* The steps of the window's thread keep the types and the owner of the    *)
(* mutex.                                                                  *)
LEMMA WindowThreadTypes ==
  ASSUME Types, Flags, WindowThread
  PROVE  Types'
<1> USE GuiAssumption
    DEF Types, ClientHolds, ClientLocations, ListenerLocations, Commands,
        Events, Packets, Results, Alive, ShutdownSeen, WindowStep, NetStep,
        ClientStep, ListenerStep, Goto, LGoto, Quiet, LQuiet, Stop,
        windowVars, inputVars, netVars, clientVars, ends, vars
<1>1. CASE InitInstance
  BY <1>1 DEF InitInstance
<1>2. CASE PollsShutdown
  BY <1>2 DEF PollsShutdown
<1>3. CASE HandleDestroy
  BY <1>3 DEF HandleDestroy
<1> QED
  BY <1>1, <1>2, <1>3
  DEF WindowThread

(* The flags stay flags when the window's thread makes a step.             *)
LEMMA WindowThreadFlags ==
  ASSUME Flags, WindowThread
  PROVE  Flags'
<1> USE DEF Flags, WindowStep, NetStep, ClientStep, ListenerStep, Goto,
  LGoto, Quiet, LQuiet, Stop,
        windowVars, inputVars, netVars, clientVars, ends, vars
<1>1. CASE InitInstance
  BY <1>1 DEF InitInstance
<1>2. CASE PollsShutdown
  BY <1>2 DEF PollsShutdown
<1>3. CASE HandleDestroy
  BY <1>3 DEF HandleDestroy
<1> QED
  BY <1>1, <1>2, <1>3
  DEF WindowThread

(* The steps of the window's thread keep what is known of the answer.      *)
LEMMA WindowThreadEcho ==
  ASSUME Types, Flags, EchoInv, WindowThread
  PROVE  EchoInv'
<1> USE DEF EchoInv, Types, Packets, Results, WindowStep, NetStep,
  ClientStep, ListenerStep, Goto, LGoto, Quiet, LQuiet, Stop,
        windowVars, inputVars, netVars, clientVars, ends, vars
<1>1. CASE InitInstance
  BY <1>1 DEF InitInstance
<1>2. CASE PollsShutdown
  BY <1>2 DEF PollsShutdown
<1>3. CASE HandleDestroy
  BY <1>3 DEF HandleDestroy
<1> QED
  BY <1>1, <1>2, <1>3
  DEF WindowThread

(* The steps of the user keep the types and the owner of the mutex.        *)
LEMMA UserTypes ==
  ASSUME Types, Flags, User
  PROVE  Types'
<1> USE GuiAssumption
    DEF Types, ClientHolds, ClientLocations, ListenerLocations, Commands,
        Events, Packets, Results, Alive, ShutdownSeen, WindowStep, NetStep,
        ClientStep, ListenerStep, Goto, LGoto, Quiet, LQuiet, Stop,
        windowVars, inputVars, netVars, clientVars, ends, vars
<1>1. CASE Type
  BY <1>1 DEF Type
<1>2. CASE Enter
  BY <1>2 DEF Enter
<1>3. CASE CloseWindow
  BY <1>3 DEF CloseWindow
<1> QED
  BY <1>1, <1>2, <1>3
  DEF User

(* The flags stay flags when the user makes a step.                        *)
LEMMA UserFlags ==
  ASSUME Flags, User
  PROVE  Flags'
<1> USE DEF Flags, WindowStep, NetStep, ClientStep, ListenerStep, Goto,
  LGoto, Quiet, LQuiet, Stop,
        windowVars, inputVars, netVars, clientVars, ends, vars
<1>1. CASE Type
  BY <1>1 DEF Type
<1>2. CASE Enter
  BY <1>2 DEF Enter
<1>3. CASE CloseWindow
  BY <1>3 DEF CloseWindow
<1> QED
  BY <1>1, <1>2, <1>3
  DEF User

(* The steps of the user keep what is known of the answer.                 *)
LEMMA UserEcho ==
  ASSUME Types, Flags, EchoInv, User
  PROVE  EchoInv'
<1> USE DEF EchoInv, Types, Packets, Results, WindowStep, NetStep,
  ClientStep, ListenerStep, Goto, LGoto, Quiet, LQuiet, Stop,
        windowVars, inputVars, netVars, clientVars, ends, vars
<1>1. CASE Type
  BY <1>1 DEF Type
<1>2. CASE Enter
  BY <1>2 DEF Enter
<1>3. CASE CloseWindow
  BY <1>3 DEF CloseWindow
<1> QED
  BY <1>1, <1>2, <1>3
  DEF User

(* The steps of the server keep the types and the owner of the mutex.      *)
LEMMA ServerTypes ==
  ASSUME Types, Flags, Server
  PROVE  Types'
<1> USE GuiAssumption
    DEF Types, ClientHolds, ClientLocations, ListenerLocations, Commands,
        Events, Packets, Results, Alive, ShutdownSeen, WindowStep, NetStep,
        ClientStep, ListenerStep, Goto, LGoto, Quiet, LQuiet, Stop,
        windowVars, inputVars, netVars, clientVars, ends, vars
<1>1. CASE ServerChat
  BY <1>1 DEF ServerChat, Arrives, Mishap
<1>2. CASE ServerAnswer
  <2>1. CASE Arrives("ack") /\ UNCHANGED mishap
    BY <2>1, <1>2 DEF ServerAnswer, Arrives
  <2>2. CASE Arrives("reject") /\ Mishap("reject")
    BY <2>2, <1>2 DEF ServerAnswer, Arrives, Mishap
  <2> QED BY <2>1, <2>2, <1>2 DEF ServerAnswer
<1> QED
  BY <1>1, <1>2
  DEF Server

(* The flags stay flags when the server makes a step.                      *)
LEMMA ServerFlags ==
  ASSUME Flags, Server
  PROVE  Flags'
<1> USE DEF Flags, WindowStep, NetStep, ClientStep, ListenerStep, Goto,
  LGoto, Quiet, LQuiet, Stop,
        windowVars, inputVars, netVars, clientVars, ends, vars
<1>1. CASE ServerChat
  BY <1>1 DEF ServerChat, Arrives, Mishap
<1>2. CASE ServerAnswer
  BY <1>2 DEF ServerAnswer, Arrives, Mishap
<1> QED
  BY <1>1, <1>2
  DEF Server

(* The steps of the server keep what is known of the answer.               *)
LEMMA ServerEcho ==
  ASSUME Types, Flags, EchoInv, Server
  PROVE  EchoInv'
<1> USE DEF EchoInv, Types, Packets, Results, WindowStep, NetStep,
  ClientStep, ListenerStep, Goto, LGoto, Quiet, LQuiet, Stop,
        windowVars, inputVars, netVars, clientVars, ends, vars
<1>1. CASE ServerChat
  <2>1. UNCHANGED <<cpc, state, res, packet, acked, mishap>>
    BY <1>1 DEF ServerChat
  <2>3. inbox' = Append(inbox, "chat") /\ inbox \in Seq(Packets)
    BY <1>1 DEF ServerChat, Arrives
  <2>4. GarbageIn(inbox') => mishap' = "torn"
    <3>1. SUFFICES ASSUME NEW i \in 1 .. Len(inbox'), inbox'[i] = "garbage"
                   PROVE  mishap' = "torn"
      BY DEF GarbageIn
    <3>2. i \in 1 .. Len(inbox) /\ inbox[i] = "garbage"
      BY ONLY <2>3, <3>1
    <3> QED BY <2>1, <3>2 DEF GarbageIn
  <2> QED BY ONLY EchoInv, <2>1, <2>4 DEF EchoInv
<1>2. CASE ServerAnswer
  <2>1. UNCHANGED <<cpc, state, res, packet, acked>>
    BY <1>2 DEF ServerAnswer
  <2>2. PICK p \in {"ack", "reject"} : Arrives(p) /\ (mishap = "torn" => mishap' = "torn")
    BY <1>2 DEF ServerAnswer, Mishap
  <2>3. inbox' = Append(inbox, p) /\ p # "garbage" /\ inbox \in Seq(Packets)
    BY <2>2 DEF Arrives
  <2>4. GarbageIn(inbox') => mishap' = "torn"
    <3>1. SUFFICES ASSUME NEW i \in 1 .. Len(inbox'), inbox'[i] = "garbage"
                   PROVE  mishap' = "torn"
      BY DEF GarbageIn
    <3>2. i \in 1 .. Len(inbox) /\ inbox[i] = "garbage"
      BY ONLY <2>3, <3>1
    <3> QED BY <2>2, <3>2 DEF GarbageIn
  <2> QED BY ONLY EchoInv, <2>1, <2>2, <2>4 DEF EchoInv
<1> QED
  BY <1>1, <1>2
  DEF Server

(* The steps of the client thread keep the types and the owner of the      *)
(* mutex.                                                                  *)
LEMMA ClientThreadTypes ==
  ASSUME Types, Flags, ClientThread
  PROVE  Types'
<1> USE GuiAssumption
    DEF Types, ClientHolds, ClientLocations, ListenerLocations, Commands,
        Events, Packets, Results, Alive, ShutdownSeen, WindowStep, NetStep,
        ClientStep, ListenerStep, Goto, LGoto, Quiet, LQuiet, Stop,
        windowVars, inputVars, netVars, clientVars, ends, vars
<1>1. CASE Connect
  BY <1>1 DEF Connect
<1>2. CASE ConnectFails
  BY <1>2 DEF ConnectFails
<1>3. CASE Register
  <2>1. cpc' \in {"recvWait", "cleanup"}
    BY <1>3 DEF Register
  <2>2. UNCHANGED <<state, ev, mutex, inbox, mishap, nameLen, cmd, packet,
                    got,
                    res, process, window, wpc, lpc, args>> /\ cpc = "register"
    BY <1>3 DEF Register
  <2> QED BY <2>1, <2>2
<1>4. CASE RegisterAccepted
  BY <1>4 DEF RegisterAccepted
<1>5. CASE StartListener
  BY <1>5 DEF StartListener
<1>6. CASE RegisterRejected
  BY <1>6 DEF RegisterRejected
<1>7. CASE RegisterFails
  BY <1>7 DEF RegisterFails
<1>8. CASE WaitInput
  BY <1>8 DEF WaitInput
<1>9. CASE ReadBox
  BY <1>9 DEF ReadBox
<1>10. CASE ClearBox
  BY <1>10 DEF ClearBox
<1>11. CASE InputFails
  BY <1>11 DEF InputFails
<1>12. CASE ResetInput
  BY <1>12 DEF ResetInput
<1>13. CASE UserListen
  <2>1. cpc' \in {"setWaiting", "leave"} /\ ev' \in {ev, ev \ {"FINISHED"}}
    <3>1. CASE state = "CONTINUE"
      BY <3>1, <1>13 DEF UserListen
    <3>2. CASE state # "CONTINUE"
      BY <3>2, <1>13 DEF UserListen
    <3> QED BY <3>1, <3>2
  <2> QED BY <2>1, <1>13 DEF UserListen
<1>14. CASE SetWaiting
  BY <1>14 DEF SetWaiting
<1>15. CASE Dispatch
  BY <1>15 DEF Dispatch
<1>16. CASE WaitMutex
  BY <1>16 DEF WaitMutex
<1>17. CASE ResetWaiting
  BY <1>17 DEF ResetWaiting
<1>18. CASE SetFinished
  BY <1>18 DEF SetFinished
<1>19. CASE Send
  BY <1>19 DEF Send
<1>20. CASE AnswerLoop
  BY <1>20 DEF AnswerLoop
<1>21. CASE RecvWait
  BY <1>21 DEF RecvWait
<1>22. CASE RecvReset
  BY <1>22 DEF RecvReset
<1>23. CASE Recv
  BY <1>23, RecvStep
<1>24. CASE HandleSrvReturn
  BY <1>24 DEF HandleSrvReturn
<1>25. CASE Dismiss
  <2>1. \/ cpc = "boxConnect" /\ cpc' = "cleanup" /\ res' = res
        \/ /\ cpc = "boxTimeout" /\ res' = [res EXCEPT !.client = "E_FAIL"]
           /\ cpc' = IF cmd = "login" THEN "registerAnswer" ELSE "release"
        \/ /\ cpc = "boxReject"
           /\ res' = [res EXCEPT !.client = "E_UNEXPECTED"]
           /\ cpc' = "release"
    <3>1. CASE cpc = "boxConnect"
      BY <3>1, <1>25 DEF Dismiss
    <3>2. CASE cpc = "boxTimeout"
      BY <3>2, <1>25 DEF Dismiss
    <3>3. CASE cpc = "boxReject"
      BY <3>3, <1>25 DEF Dismiss
    <3> QED BY <3>1, <3>2, <3>3, <1>25 DEF Dismiss
  <2>2. UNCHANGED <<process, windowVars, lpc, state, ev, mutex, netVars,
                    ends,
                    inputVars, clientVars, got>>
    BY <1>25 DEF Dismiss
  <2> QED BY <2>1, <2>2
<1>26. CASE Release
  BY <1>26 DEF Release
<1>27. CASE Echo
  BY <1>27 DEF Echo
<1>28. CASE Leave
  BY <1>28 DEF Leave
<1>29. CASE WakeListener
  BY <1>29 DEF WakeListener
<1>30. CASE Join
  BY <1>30 DEF Join
<1>31. CASE NetCleanup
  BY <1>31 DEF NetCleanup
<1>32. CASE ClientShutdown
  BY <1>32 DEF ClientShutdown
<1>33. CASE Exit
  BY <1>33 DEF Exit
<1> QED
  BY <1>1, <1>2, <1>3, <1>4, <1>5, <1>6, <1>7, <1>8, <1>9, <1>10, <1>11,
     <1>12, <1>13, <1>14, <1>15, <1>16, <1>17, <1>18, <1>19, <1>20, <1>21,
     <1>22, <1>23, <1>24, <1>25, <1>26, <1>27, <1>28, <1>29, <1>30, <1>31,
     <1>32, <1>33
  DEF ClientThread

(* The flags stay flags when the client thread makes a step.               *)
LEMMA ClientThreadFlags ==
  ASSUME Flags, ClientThread
  PROVE  Flags'
<1> USE DEF Flags, WindowStep, NetStep, ClientStep, ListenerStep, Goto,
  LGoto, Quiet, LQuiet, Stop,
        windowVars, inputVars, netVars, clientVars, ends, vars
<1>1. CASE Connect
  BY <1>1 DEF Connect
<1>2. CASE ConnectFails
  BY <1>2 DEF ConnectFails
<1>3. CASE Register
  <2>1. CASE request' = TRUE /\ acked' = FALSE
    <3>1. request' \in BOOLEAN
      BY <2>1
    <3>2. acked' \in BOOLEAN
      BY <2>1
    <3> QED BY <3>1, <3>2, <1>3 DEF Register
  <2>2. CASE UNCHANGED <<request, acked>>
    BY <2>2, <1>3 DEF Register
  <2> QED BY <2>1, <2>2, <1>3 DEF Register
<1>4. CASE RegisterAccepted
  BY <1>4 DEF RegisterAccepted
<1>5. CASE StartListener
  BY <1>5 DEF StartListener
<1>6. CASE RegisterRejected
  BY <1>6 DEF RegisterRejected
<1>7. CASE RegisterFails
  BY <1>7 DEF RegisterFails
<1>8. CASE WaitInput
  BY <1>8 DEF WaitInput
<1>9. CASE ReadBox
  BY <1>9 DEF ReadBox
<1>10. CASE ClearBox
  BY <1>10 DEF ClearBox
<1>11. CASE InputFails
  BY <1>11 DEF InputFails
<1>12. CASE ResetInput
  BY <1>12 DEF ResetInput
<1>13. CASE UserListen
  BY <1>13 DEF UserListen
<1>14. CASE SetWaiting
  BY <1>14 DEF SetWaiting
<1>15. CASE Dispatch
  BY <1>15 DEF Dispatch
<1>16. CASE WaitMutex
  BY <1>16 DEF WaitMutex
<1>17. CASE ResetWaiting
  BY <1>17 DEF ResetWaiting
<1>18. CASE SetFinished
  BY <1>18 DEF SetFinished
<1>19. CASE Send
  BY <1>19 DEF Send
<1>20. CASE AnswerLoop
  BY <1>20 DEF AnswerLoop
<1>21. CASE RecvWait
  BY <1>21 DEF RecvWait
<1>22. CASE RecvReset
  BY <1>22 DEF RecvReset
<1>23. CASE Recv
  BY <1>23 DEF Recv, RecvPacket, Reenable, Mishap
<1>24. CASE HandleSrvReturn
  BY <1>24 DEF HandleSrvReturn
<1>25. CASE Dismiss
  BY <1>25 DEF Dismiss
<1>26. CASE Release
  BY <1>26 DEF Release
<1>27. CASE Echo
  BY <1>27 DEF Echo
<1>28. CASE Leave
  BY <1>28 DEF Leave
<1>29. CASE WakeListener
  BY <1>29 DEF WakeListener
<1>30. CASE Join
  BY <1>30 DEF Join
<1>31. CASE NetCleanup
  BY <1>31 DEF NetCleanup
<1>32. CASE ClientShutdown
  BY <1>32 DEF ClientShutdown
<1>33. CASE Exit
  BY <1>33 DEF Exit
<1> QED
  BY <1>1, <1>2, <1>3, <1>4, <1>5, <1>6, <1>7, <1>8, <1>9, <1>10, <1>11,
     <1>12, <1>13, <1>14, <1>15, <1>16, <1>17, <1>18, <1>19, <1>20, <1>21,
     <1>22, <1>23, <1>24, <1>25, <1>26, <1>27, <1>28, <1>29, <1>30, <1>31,
     <1>32, <1>33
  DEF ClientThread

(* The steps of the client thread keep what is known of the answer.        *)
LEMMA ClientThreadEcho ==
  ASSUME Types, Flags, EchoInv, ClientThread
  PROVE  EchoInv'
<1> USE DEF EchoInv, Types, Packets, Results, WindowStep, NetStep,
  ClientStep, ListenerStep, Goto, LGoto, Quiet, LQuiet, Stop,
        windowVars, inputVars, netVars, clientVars, ends, vars
<1>1. CASE Connect
  BY <1>1 DEF Connect
<1>2. CASE ConnectFails
  BY <1>2 DEF ConnectFails
<1>3. CASE Register
  BY <1>3 DEF Register
<1>4. CASE RegisterAccepted
  BY <1>4 DEF RegisterAccepted
<1>5. CASE StartListener
  BY <1>5 DEF StartListener
<1>6. CASE RegisterRejected
  BY <1>6 DEF RegisterRejected
<1>7. CASE RegisterFails
  BY <1>7 DEF RegisterFails
<1>8. CASE WaitInput
  BY <1>8 DEF WaitInput
<1>9. CASE ReadBox
  BY <1>9 DEF ReadBox
<1>10. CASE ClearBox
  BY <1>10 DEF ClearBox
<1>11. CASE InputFails
  BY <1>11 DEF InputFails
<1>12. CASE ResetInput
  BY <1>12 DEF ResetInput
<1>13. CASE UserListen
  BY <1>13 DEF UserListen
<1>14. CASE SetWaiting
  BY <1>14 DEF SetWaiting
<1>15. CASE Dispatch
  BY <1>15 DEF Dispatch
<1>16. CASE WaitMutex
  BY <1>16 DEF WaitMutex
<1>17. CASE ResetWaiting
  BY <1>17 DEF ResetWaiting
<1>18. CASE SetFinished
  BY <1>18 DEF SetFinished
<1>19. CASE Send
  BY <1>19 DEF Send
<1>20. CASE AnswerLoop
  BY <1>20 DEF AnswerLoop
<1>21. CASE RecvWait
  BY <1>21 DEF RecvWait
<1>22. CASE RecvReset
  BY <1>22 DEF RecvReset
<1>23. CASE Recv
  BY <1>23, RecvStep
<1>24. CASE HandleSrvReturn
  <2>1. /\ cpc = "answer" /\ UNCHANGED <<state, mishap, inbox, res>>
    BY <1>24 DEF HandleSrvReturn
  <2>2. CASE cpc' \in {"answerLoop", "boxReject"}
    BY ONLY EchoInv, <2>1, <2>2 DEF EchoInv
  <2>3. CASE cpc' = "release" /\ res.client # "S_OK"
    BY ONLY EchoInv, <2>1, <2>3 DEF EchoInv
  <2>4. CASE /\ cpc' = "release" /\ res.client = "S_OK"
             /\ packet \in {"ack", "garbage"}
             /\ acked' = (packet = "ack")
    BY ONLY EchoInv, <2>1, <2>4 DEF EchoInv
  <2> QED BY <2>2, <2>3, <2>4, <1>24 DEF HandleSrvReturn
<1>25. CASE Dismiss
  <2>1. \/ cpc = "boxConnect" /\ cpc' = "cleanup" /\ res' = res
        \/ /\ cpc = "boxTimeout" /\ res' = [res EXCEPT !.client = "E_FAIL"]
           /\ cpc' = IF cmd = "login" THEN "registerAnswer" ELSE "release"
        \/ /\ cpc = "boxReject"
           /\ res' = [res EXCEPT !.client = "E_UNEXPECTED"]
           /\ cpc' = "release"
    <3>1. CASE cpc = "boxConnect"
      BY <3>1, <1>25 DEF Dismiss
    <3>2. CASE cpc = "boxTimeout"
      BY <3>2, <1>25 DEF Dismiss
    <3>3. CASE cpc = "boxReject"
      BY <3>3, <1>25 DEF Dismiss
    <3> QED BY <3>1, <3>2, <3>3, <1>25 DEF Dismiss
  <2>2. UNCHANGED <<process, windowVars, lpc, state, ev, mutex, netVars,
                    ends,
                    inputVars, clientVars, got>>
    BY <1>25 DEF Dismiss
  <2> QED BY <2>1, <2>2
<1>26. CASE Release
  <2>1. /\ cpc = "release" /\ UNCHANGED <<state, mishap, inbox, packet>>
        /\ cpc' # "release" /\ cpc' # "answer"
    BY <1>26 DEF Release
  <2>2. cpc' = "echo" => res.client = "S_OK" /\ acked' = acked
    <3>1. SUFFICES ASSUME cpc' = "echo"
                   PROVE  res.client = "S_OK" /\ acked' = acked
      OBVIOUS
    <3>2. cmd = "msg" /\ res.client = "S_OK"
      BY <3>1, <1>26 DEF Release
    <3>3. acked' = (acked /\ cpc' = "echo") /\ acked \in BOOLEAN
      BY <1>26 DEF Release, Flags
    <3> QED BY <3>1, <3>2, <3>3
  <2> QED BY ONLY EchoInv, <2>1, <2>2 DEF EchoInv
<1>27. CASE Echo
  BY <1>27 DEF Echo
<1>28. CASE Leave
  BY <1>28 DEF Leave
<1>29. CASE WakeListener
  BY <1>29 DEF WakeListener
<1>30. CASE Join
  BY <1>30 DEF Join
<1>31. CASE NetCleanup
  BY <1>31 DEF NetCleanup
<1>32. CASE ClientShutdown
  BY <1>32 DEF ClientShutdown
<1>33. CASE Exit
  BY <1>33 DEF Exit
<1> QED
  BY <1>1, <1>2, <1>3, <1>4, <1>5, <1>6, <1>7, <1>8, <1>9, <1>10, <1>11,
     <1>12, <1>13, <1>14, <1>15, <1>16, <1>17, <1>18, <1>19, <1>20, <1>21,
     <1>22, <1>23, <1>24, <1>25, <1>26, <1>27, <1>28, <1>29, <1>30, <1>31,
     <1>32, <1>33
  DEF ClientThread

(* The steps of the listener keep the types and the owner of the mutex.    *)
LEMMA ListenerTypes ==
  ASSUME Types, Flags, Listener
  PROVE  Types'
<1> USE GuiAssumption
    DEF Types, ClientHolds, ClientLocations, ListenerLocations, Commands,
        Events, Packets, Results, Alive, ShutdownSeen, WindowStep, NetStep,
        ClientStep, ListenerStep, Goto, LGoto, Quiet, LQuiet, Stop,
        windowVars, inputVars, netVars, clientVars, ends, vars
<1>1. CASE ListenForChats
  BY <1>1 DEF ListenForChats
<1>2. CASE ListenerIdle
  BY <1>2 DEF ListenerIdle
<1>3. CASE ListenerWaitRead
  BY <1>3 DEF ListenerWaitRead
<1>4. CASE ListenerResetRead
  BY <1>4 DEF ListenerResetRead
<1>5. CASE ListenerWaitMutex
  BY <1>5 DEF ListenerWaitMutex
<1>6. CASE ListenerRecv
  BY <1>6, RecvStep
<1>7. CASE ListenerRelease
  BY <1>7 DEF ListenerRelease
<1>8. CASE ListenerResetAgain
  BY <1>8 DEF ListenerResetAgain
<1>9. CASE ListenerPrint
  BY <1>9 DEF ListenerPrint
<1>10. CASE ListenerUsesFreed
  BY <1>10 DEF ListenerUsesFreed
<1>11. CASE ListenerFail
  BY <1>11 DEF ListenerFail
<1>12. CASE ListenerSignal
  BY <1>12 DEF ListenerSignal
<1> QED
  BY <1>1, <1>2, <1>3, <1>4, <1>5, <1>6, <1>7, <1>8, <1>9, <1>10, <1>11,
     <1>12
  DEF Listener

(* The flags stay flags when the listener makes a step.                    *)
LEMMA ListenerFlags ==
  ASSUME Flags, Listener
  PROVE  Flags'
<1> USE DEF Flags, WindowStep, NetStep, ClientStep, ListenerStep, Goto,
  LGoto, Quiet, LQuiet, Stop,
        windowVars, inputVars, netVars, clientVars, ends, vars
<1>1. CASE ListenForChats
  BY <1>1 DEF ListenForChats
<1>2. CASE ListenerIdle
  BY <1>2 DEF ListenerIdle
<1>3. CASE ListenerWaitRead
  BY <1>3 DEF ListenerWaitRead
<1>4. CASE ListenerResetRead
  BY <1>4 DEF ListenerResetRead
<1>5. CASE ListenerWaitMutex
  BY <1>5 DEF ListenerWaitMutex
<1>6. CASE ListenerRecv
  BY <1>6 DEF ListenerRecv, RecvPacket, Reenable, Mishap
<1>7. CASE ListenerRelease
  BY <1>7 DEF ListenerRelease
<1>8. CASE ListenerResetAgain
  BY <1>8 DEF ListenerResetAgain
<1>9. CASE ListenerPrint
  BY <1>9 DEF ListenerPrint
<1>10. CASE ListenerUsesFreed
  BY <1>10 DEF ListenerUsesFreed
<1>11. CASE ListenerFail
  BY <1>11 DEF ListenerFail
<1>12. CASE ListenerSignal
  BY <1>12 DEF ListenerSignal
<1> QED
  BY <1>1, <1>2, <1>3, <1>4, <1>5, <1>6, <1>7, <1>8, <1>9, <1>10, <1>11,
     <1>12
  DEF Listener

(* The steps of the listener keep what is known of the answer.             *)
LEMMA ListenerEcho ==
  ASSUME Types, Flags, EchoInv, Listener
  PROVE  EchoInv'
<1> USE DEF EchoInv, Types, Packets, Results, WindowStep, NetStep,
  ClientStep, ListenerStep, Goto, LGoto, Quiet, LQuiet, Stop,
        windowVars, inputVars, netVars, clientVars, ends, vars
<1>1. CASE ListenForChats
  BY <1>1 DEF ListenForChats
<1>2. CASE ListenerIdle
  BY <1>2 DEF ListenerIdle
<1>3. CASE ListenerWaitRead
  BY <1>3 DEF ListenerWaitRead
<1>4. CASE ListenerResetRead
  BY <1>4 DEF ListenerResetRead
<1>5. CASE ListenerWaitMutex
  BY <1>5 DEF ListenerWaitMutex
<1>6. CASE ListenerRecv
  BY <1>6, RecvStep
<1>7. CASE ListenerRelease
  BY <1>7 DEF ListenerRelease
<1>8. CASE ListenerResetAgain
  BY <1>8 DEF ListenerResetAgain
<1>9. CASE ListenerPrint
  BY <1>9 DEF ListenerPrint
<1>10. CASE ListenerUsesFreed
  BY <1>10 DEF ListenerUsesFreed
<1>11. CASE ListenerFail
  BY <1>11 DEF ListenerFail
<1>12. CASE ListenerSignal
  BY <1>12 DEF ListenerSignal
<1> QED
  BY <1>1, <1>2, <1>3, <1>4, <1>5, <1>6, <1>7, <1>8, <1>9, <1>10, <1>11,
     <1>12
  DEF Listener

(* The steps of the window's thread leave the texts alone.                 *)
LEMMA WindowThreadTexts ==
  ASSUME Types, WindowThread
  PROVE  TextSame
<1> USE DEF TextSame, Types, ClientLocations, ListenerLocations, WindowStep,
  NetStep, ClientStep, ListenerStep, Goto, LGoto, Quiet, LQuiet, Stop,
        windowVars, inputVars, netVars, clientVars, ends, vars
<1>1. CASE InitInstance
  BY <1>1 DEF InitInstance
<1>2. CASE PollsShutdown
  BY <1>2 DEF PollsShutdown
<1>3. CASE HandleDestroy
  BY <1>3 DEF HandleDestroy
<1> QED
  BY <1>1, <1>2, <1>3
  DEF WindowThread

(* The steps of the user leave the texts alone, unless he types.           *)
LEMMA UserTexts ==
  ASSUME Types, User
  PROVE  TextSame \/ Type
<1> USE DEF TextSame, Types, ClientLocations, ListenerLocations, WindowStep,
  NetStep, ClientStep, ListenerStep, Goto, LGoto, Quiet, LQuiet, Stop,
        windowVars, inputVars, netVars, clientVars, ends, vars
<1>1. CASE Type
  BY <1>1
<1>2. CASE Enter
  BY <1>2 DEF Enter
<1>3. CASE CloseWindow
  BY <1>3 DEF CloseWindow
<1> QED
  BY <1>1, <1>2, <1>3
  DEF User

(* The steps of the server leave the texts alone.                          *)
LEMMA ServerTexts ==
  ASSUME Types, Server
  PROVE  TextSame
<1> USE DEF TextSame, Types, ClientLocations, ListenerLocations, WindowStep,
  NetStep, ClientStep, ListenerStep, Goto, LGoto, Quiet, LQuiet, Stop,
        windowVars, inputVars, netVars, clientVars, ends, vars
<1>1. CASE ServerChat
  BY <1>1 DEF ServerChat, Arrives, Mishap
<1>2. CASE ServerAnswer
  BY <1>2 DEF ServerAnswer, Arrives, Mishap
<1> QED
  BY <1>1, <1>2
  DEF Server

(* The steps of the client thread leave the texts alone, unless they read  *)
(* or clear the box.                                                       *)
LEMMA ClientThreadTexts ==
  ASSUME Types, ClientThread
  PROVE  TextSame \/ ReadBox \/ ClearBox
<1> USE DEF TextSame, Types, ClientLocations, ListenerLocations, WindowStep,
  NetStep, ClientStep, ListenerStep, Goto, LGoto, Quiet, LQuiet, Stop,
        windowVars, inputVars, netVars, clientVars, ends, vars
<1>1. CASE Connect
  BY <1>1 DEF Connect
<1>2. CASE ConnectFails
  BY <1>2 DEF ConnectFails
<1>3. CASE Register
  BY <1>3 DEF Register
<1>4. CASE RegisterAccepted
  BY <1>4 DEF RegisterAccepted
<1>5. CASE StartListener
  BY <1>5 DEF StartListener
<1>6. CASE RegisterRejected
  BY <1>6 DEF RegisterRejected
<1>7. CASE RegisterFails
  BY <1>7 DEF RegisterFails
<1>8. CASE WaitInput
  BY <1>8 DEF WaitInput
<1>9. CASE ReadBox
  BY <1>9
<1>10. CASE ClearBox
  BY <1>10
<1>11. CASE InputFails
  BY <1>11 DEF InputFails
<1>12. CASE ResetInput
  BY <1>12 DEF ResetInput
<1>13. CASE UserListen
  BY <1>13 DEF UserListen
<1>14. CASE SetWaiting
  BY <1>14 DEF SetWaiting
<1>15. CASE Dispatch
  BY <1>15 DEF Dispatch
<1>16. CASE WaitMutex
  BY <1>16 DEF WaitMutex
<1>17. CASE ResetWaiting
  BY <1>17 DEF ResetWaiting
<1>18. CASE SetFinished
  BY <1>18 DEF SetFinished
<1>19. CASE Send
  BY <1>19 DEF Send
<1>20. CASE AnswerLoop
  BY <1>20 DEF AnswerLoop
<1>21. CASE RecvWait
  BY <1>21 DEF RecvWait
<1>22. CASE RecvReset
  BY <1>22 DEF RecvReset
<1>23. CASE Recv
  BY <1>23 DEF Recv, RecvPacket, Reenable, Mishap
<1>24. CASE HandleSrvReturn
  BY <1>24 DEF HandleSrvReturn
<1>25. CASE Dismiss
  <2>1. cpc \in {"boxConnect", "boxTimeout", "boxReject"}
    BY <1>25 DEF Dismiss
  <2>2. cpc' \in {"cleanup", "registerAnswer", "release"}
    <3>1. CASE cpc = "boxConnect"
      BY <3>1, <1>25 DEF Dismiss
    <3>2. CASE cpc = "boxTimeout"
      BY <3>2, <1>25 DEF Dismiss
    <3>3. CASE cpc = "boxReject"
      BY <3>3, <1>25 DEF Dismiss
    <3> QED BY <2>1, <3>1, <3>2, <3>3
  <2>3. UNCHANGED <<window, inputVars>>
    BY <1>25 DEF Dismiss
  <2> QED BY ONLY <2>1, <2>2, <2>3 DEF TextSame, inputVars
<1>26. CASE Release
  BY <1>26 DEF Release
<1>27. CASE Echo
  BY <1>27 DEF Echo
<1>28. CASE Leave
  BY <1>28 DEF Leave
<1>29. CASE WakeListener
  BY <1>29 DEF WakeListener
<1>30. CASE Join
  BY <1>30 DEF Join
<1>31. CASE NetCleanup
  BY <1>31 DEF NetCleanup
<1>32. CASE ClientShutdown
  BY <1>32 DEF ClientShutdown
<1>33. CASE Exit
  BY <1>33 DEF Exit
<1> QED
  BY <1>1, <1>2, <1>3, <1>4, <1>5, <1>6, <1>7, <1>8, <1>9, <1>10, <1>11,
     <1>12, <1>13, <1>14, <1>15, <1>16, <1>17, <1>18, <1>19, <1>20, <1>21,
     <1>22, <1>23, <1>24, <1>25, <1>26, <1>27, <1>28, <1>29, <1>30, <1>31,
     <1>32, <1>33
  DEF ClientThread

(* The steps of the listener leave the texts alone.                        *)
LEMMA ListenerTexts ==
  ASSUME Types, Listener
  PROVE  TextSame
<1> USE DEF TextSame, Types, ClientLocations, ListenerLocations, WindowStep,
  NetStep, ClientStep, ListenerStep, Goto, LGoto, Quiet, LQuiet, Stop,
        windowVars, inputVars, netVars, clientVars, ends, vars
<1>1. CASE ListenForChats
  BY <1>1 DEF ListenForChats
<1>2. CASE ListenerIdle
  BY <1>2 DEF ListenerIdle
<1>3. CASE ListenerWaitRead
  BY <1>3 DEF ListenerWaitRead
<1>4. CASE ListenerResetRead
  BY <1>4 DEF ListenerResetRead
<1>5. CASE ListenerWaitMutex
  BY <1>5 DEF ListenerWaitMutex
<1>6. CASE ListenerRecv
  BY <1>6 DEF ListenerRecv, RecvPacket, Reenable, Mishap
<1>7. CASE ListenerRelease
  BY <1>7 DEF ListenerRelease
<1>8. CASE ListenerResetAgain
  BY <1>8 DEF ListenerResetAgain
<1>9. CASE ListenerPrint
  BY <1>9 DEF ListenerPrint
<1>10. CASE ListenerUsesFreed
  BY <1>10 DEF ListenerUsesFreed
<1>11. CASE ListenerFail
  BY <1>11 DEF ListenerFail
<1>12. CASE ListenerSignal
  BY <1>12 DEF ListenerSignal
<1> QED
  BY <1>1, <1>2, <1>3, <1>4, <1>5, <1>6, <1>7, <1>8, <1>9, <1>10, <1>11,
     <1>12
  DEF Listener

(* Whoever leaves the texts alone keeps what is said of them.              *)
LEMMA TextSameKeeps ==
  ASSUME Texts, TextKept, TextSame
  PROVE  Texts' /\ TextKept'
<1>1. Texts'
  <2>1. /\ taken' = taken /\ box' = box /\ typed' = typed /\ racing' = racing
        /\ line' = line \/ line' = <<>>
    BY DEF TextSame
  <2>2. line' \in Seq(1 .. typed)
    <3>1. line \in Seq(1 .. typed) /\ <<>> \in Seq(1 .. typed)
      BY DEF Texts
    <3> QED BY ONLY <2>1, <3>1
  <2> QED BY ONLY Texts, <2>1, <2>2 DEF Texts
<1>2. ASSUME window' # "destroyed" PROVE TextKept'
  <2>1. /\ window # "destroyed" /\ (window' = "none" => window = "none")
        /\ UNCHANGED <<box, taken, typed, racing>>
    BY <1>2 DEF TextSame
  <2>2. \/ UNCHANGED <<cpc, line>>
        \/ cpc # "clearBox" /\ cpc' # "clearBox"
    BY DEF TextSame
  <2>3. InBox' = InBox
    BY <2>1, <2>2 DEF InBox
  <2> QED BY ONLY TextKept, <2>1, <2>2, <2>3 DEF TextKept
<1> QED BY <1>1, <1>2 DEF TextKept

(* The beginning of an ordered sequence is ordered.                        *)
LEMMA OrderedPrefix ==
  ASSUME NEW s \in Seq(Nat), NEW t \in Seq(Nat), Ordered(s \o t)
  PROVE  Ordered(s)
<1>1. /\ Len(s \o t) = Len(s) + Len(t)
      /\ \A i \in 1 .. Len(s) : (s \o t)[i] = s[i] /\ i \in 1 .. Len(s \o t)
  OBVIOUS
<1> QED BY <1>1 DEF Ordered

(* So is a sequence of the first n pieces followed by the next one.        *)
LEMMA OrderedAppend ==
  ASSUME NEW n \in Nat, NEW s \in Seq(1 .. n), Ordered(s)
  PROVE  Ordered(Append(s, n + 1))
<1> DEFINE t == Append(s, n + 1)
<1>1. /\ Len(t) = Len(s) + 1 /\ t[Len(s) + 1] = n + 1 /\ Len(s) \in Nat
      /\ \A i \in 1 .. Len(s) : t[i] = s[i] /\ s[i] \in 1 .. n
  OBVIOUS
<1> HIDE DEF t
<1>2. SUFFICES ASSUME NEW i \in 1 .. Len(t), NEW j \in 1 .. Len(t), i < j
               PROVE  t[i] < t[j]
  BY DEF Ordered, t
<1>3. i \in 1 .. Len(s)
  BY <1>1, <1>2
<1>4. CASE j = Len(s) + 1
  BY <1>1, <1>3, <1>4
<1>5. CASE j \in 1 .. Len(s)
  BY <1>1, <1>2, <1>3, <1>5 DEF Ordered
<1> QED BY <1>1, <1>4, <1>5

(* The elements of a sequence over S are in S.                             *)
LEMMA ToSetTypes ==
  ASSUME NEW S, NEW s \in Seq(S)
  PROVE  ToSet(s) \subseteq S
BY DEF ToSet

(* A concatenation has the elements of its parts.                          *)
LEMMA ToSetConcat ==
  ASSUME NEW S, NEW s \in Seq(S), NEW t \in Seq(S)
  PROVE  ToSet(s \o t) = ToSet(s) \cup ToSet(t)
<1>1. /\ s \o t \in Seq(S) /\ Len(s \o t) = Len(s) + Len(t)
      /\ Len(s) \in Nat /\ Len(t) \in Nat
      /\ \A i \in 1 .. Len(s) : (s \o t)[i] = s[i]
      /\ \A i \in 1 .. Len(t) : (s \o t)[Len(s) + i] = t[i]
      /\ DOMAIN (s \o t) = 1 .. Len(s) + Len(t)
      /\ DOMAIN s = 1 .. Len(s) /\ DOMAIN t = 1 .. Len(t)
  OBVIOUS
<1>2. ToSet(s \o t) \subseteq ToSet(s) \cup ToSet(t)
  <2>1. SUFFICES ASSUME NEW i \in 1 .. Len(s) + Len(t)
                 PROVE  (s \o t)[i] \in ToSet(s) \cup ToSet(t)
    BY <1>1 DEF ToSet
  <2>2. CASE i \in 1 .. Len(s)
    BY <1>1, <2>2 DEF ToSet
  <2>3. CASE i \notin 1 .. Len(s)
    <3>1. PICK j \in 1 .. Len(t) : i = Len(s) + j
      <4>1. i - Len(s) \in 1 .. Len(t) /\ i = Len(s) + (i - Len(s))
        BY <1>1, <2>3
      <4> QED BY <4>1
    <3> QED BY <1>1, <3>1 DEF ToSet
  <2> QED BY <2>2, <2>3
<1>3. ASSUME NEW i \in 1 .. Len(s) PROVE s[i] \in ToSet(s \o t)
  <2>1. i \in 1 .. Len(s) + Len(t) /\ s[i] = (s \o t)[i]
    BY <1>1
  <2> QED BY <1>1, <2>1 DEF ToSet
<1>4. ASSUME NEW i \in 1 .. Len(t) PROVE t[i] \in ToSet(s \o t)
  <2>1. Len(s) + i \in 1 .. Len(s) + Len(t) /\ t[i] = (s \o t)[Len(s) + i]
    BY <1>1
  <2> QED BY <1>1, <2>1 DEF ToSet
<1> QED BY <1>1, <1>2, <1>3, <1>4 DEF ToSet

(* An appended element is one of the sequence's.                           *)
LEMMA ToSetAppend ==
  ASSUME NEW S, NEW s \in Seq(S), NEW x \in S
  PROVE  ToSet(Append(s, x)) = ToSet(s) \cup {x}
<1>1. ToSet(Append(s, x)) = ToSet(s) \cup {x}
  <2>1. /\ Append(s, x) \in Seq(S) /\ Len(Append(s, x)) = Len(s) + 1
        /\ Len(s) \in Nat
        /\ Append(s, x)[Len(s) + 1] = x
        /\ \A i \in 1 .. Len(s) : Append(s, x)[i] = s[i]
        /\ DOMAIN Append(s, x) = 1 .. Len(s) + 1 /\ DOMAIN s = 1 .. Len(s)
    OBVIOUS
  <2>2. ToSet(Append(s, x)) \subseteq ToSet(s) \cup {x}
    <3>1. SUFFICES ASSUME NEW i \in 1 .. Len(s) + 1
                   PROVE  Append(s, x)[i] \in ToSet(s) \cup {x}
      BY <2>1 DEF ToSet
    <3> QED BY <2>1 DEF ToSet
  <2>3. ToSet(s) \cup {x} \subseteq ToSet(Append(s, x))
    <3>1. x \in ToSet(Append(s, x))
      BY <2>1 DEF ToSet
    <3>2. ASSUME NEW i \in 1 .. Len(s) PROVE s[i] \in ToSet(Append(s, x))
      <4>1. i \in 1 .. Len(s) + 1 /\ s[i] = Append(s, x)[i]
        BY <2>1
      <4> QED BY <2>1, <4>1 DEF ToSet
    <3> QED BY <2>1, <3>1, <3>2 DEF ToSet
  <2> QED BY <2>2, <2>3
<1> QED BY <1>1

(* The rest of a sequence to which an element was appended is the rest of  *)
(* the sequence with the element appended.                                 *)
LEMMA SubSeqOfAppend ==
  ASSUME NEW S, NEW s \in Seq(S), NEW x, NEW a \in 1 .. Len(s) + 1
  PROVE  SubSeq(Append(s, x), a, Len(s) + 1) = Append(SubSeq(s, a, Len(s)), x)
<1> DEFINE n == Len(s)
           l == SubSeq(Append(s, x), a, n + 1)
           r == Append(SubSeq(s, a, n), x)
           m == n + 1 - a
<1>1. n \in Nat /\ a \in Nat /\ a >= 1 /\ a =< n + 1 /\ m \in Nat
  OBVIOUS
<1>2. /\ Len(SubSeq(s, a, n)) = m
      /\ \A i \in 1 .. m : SubSeq(s, a, n)[i] = s[a + i - 1]
      /\ SubSeq(s, a, n) \in Seq(S)
  BY <1>1
<1>3. /\ DOMAIN r = 1 .. m + 1 /\ r[m + 1] = x
      /\ \A i \in 1 .. m : r[i] = s[a + i - 1]
      /\ r = [i \in 1 .. m + 1 |-> r[i]]
  BY <1>1, <1>2
<1>4. /\ Append(s, x)[n + 1] = x /\ Len(Append(s, x)) = n + 1
      /\ \A i \in 1 .. n : Append(s, x)[i] = s[i]
  OBVIOUS
<1>5. /\ l = [i \in 1 .. m + 1 |-> l[i]]
      /\ \A i \in 1 .. m + 1 : l[i] = Append(s, x)[a + i - 1]
  <2>1. Append(s, x) \in Seq(S \cup {x})
    <3>1. s \in Seq(S \cup {x})
      BY SeqMonotonic
    <3> QED BY <3>1
  <2>2. /\ l \in Seq(S \cup {x}) /\ Len(l) = m + 1
        /\ \A i \in 1 .. m + 1 : l[i] = Append(s, x)[a + i - 1]
    BY <1>1, <1>4, <2>1
  <2> HIDE DEF l
  <2> QED BY <2>2
<1> HIDE DEF l, r
<1>6. ASSUME NEW i \in 1 .. m + 1 PROVE l[i] = r[i]
  <2>1. CASE i = m + 1
    <3>1. a + i - 1 = n + 1
      BY <1>1, <2>1
    <3> QED BY <1>3, <1>4, <1>5, <2>1, <3>1
  <2>2. CASE i \in 1 .. m
    <3>1. a + i - 1 \in 1 .. n
      BY <1>1, <2>2
    <3> QED BY <1>3, <1>4, <1>5, <2>2, <3>1
  <2> QED BY <1>1, <2>1, <2>2
<1> HIDE DEF m
<1>7. l = r
  BY <1>3, <1>5, <1>6
<1> QED BY <1>7 DEF l, r

(* The rest of a sequence is one.                                          *)
LEMMA SuffixTypes ==
  ASSUME NEW S, NEW s \in Seq(S), NEW m \in Nat \ {0}
  PROVE  SubSeq(s, m, Len(s)) \in Seq(S)
OBVIOUS

(* What is appended to the second of two sequences is appended to both.    *)
LEMMA AppendToRest ==
  ASSUME NEW S, NEW s \in Seq(S), NEW r \in Seq(S), NEW x
  PROVE  s \o r \in Seq(S) /\ s \o Append(r, x) = Append(s \o r, x)
OBVIOUS

(* Typing adds the next number to the end of the box, also while the box   *)
(* is to be cleared, when the piece joins those that may be lost.          *)
LEMMA TypeTexts ==
  ASSUME Texts, TextKept, Type
  PROVE  Texts' /\ TextKept'
<1>1. /\ window = "open" /\ window' = "open"
      /\ UNCHANGED <<cpc, line, taken>>
      /\ typed' = typed + 1 /\ box' = Append(box, typed + 1)
      /\ racing' = IF cpc = "clearBox" THEN racing \cup {typed + 1} ELSE racing
  BY DEF Type, WindowStep, windowVars
<1>2. /\ typed \in Nat /\ racing \subseteq 1 .. typed
      /\ taken \in Seq(1 .. typed) /\ line \in Seq(1 .. typed)
      /\ box \in Seq(1 .. typed)
  BY DEF Texts
<1>3. /\ Ordered(taken \o InBox)
      /\ 1 .. typed \subseteq ToSet(taken) \cup ToSet(InBox) \cup racing
      /\ cpc = "clearBox" => Len(line) =< Len(box) /\ ToSet(InBox) \subseteq racing
  BY <1>1 DEF TextKept
<1>4. 1 .. typed \subseteq 1 .. typed + 1 /\ typed + 1 \in 1 .. typed + 1
      /\ 1 .. typed + 1 = 1 .. typed \cup {typed + 1}
  BY ONLY <1>2
<1>5. /\ taken \in Seq(1 .. typed + 1) /\ line \in Seq(1 .. typed + 1)
      /\ box \in Seq(1 .. typed + 1)
  BY ONLY <1>2, <1>4, SeqMonotonic
<1>6. Texts'
  BY ONLY <1>1, <1>2, <1>4, <1>5 DEF Texts
<1>7. InBox \in Seq(1 .. typed) /\ InBox' = Append(InBox, typed + 1)
  <2>1. CASE cpc # "clearBox"
    BY ONLY <1>1, <1>2, <2>1 DEF InBox
  <2>2. CASE cpc = "clearBox"
    <3> DEFINE a == Len(line) + 1
               n == Len(box)
               x == typed + 1
    <3>1. /\ a \in 1 .. n + 1 /\ n \in Nat /\ Len(Append(box, x)) = n + 1
          /\ InBox = SubSeq(box, a, n)
          /\ InBox' = SubSeq(Append(box, x), a, n + 1)
      <4>1. Len(line) \in Nat /\ n \in Nat /\ Len(line) =< n
        BY ONLY <1>2, <1>3, <2>2
      <4>2. box' = Append(box, x) /\ line' = line /\ cpc' = "clearBox"
        BY ONLY <1>1, <2>2
      <4>3. Len(Append(box, x)) = n + 1
        BY ONLY <1>5
      <4>4. InBox = SubSeq(box, Len(line) + 1, n)
        BY ONLY <2>2 DEF InBox
      <4>5. InBox' = SubSeq(Append(box, x), Len(line) + 1, Len(Append(box, x)))
        BY ONLY <4>2 DEF InBox
      <4>6. InBox' = SubSeq(Append(box, x), a, n + 1)
        BY ONLY <4>3, <4>5
      <4>7. a \in 1 .. n + 1
        BY ONLY <4>1
      <4> QED BY ONLY <4>1, <4>3, <4>4, <4>6, <4>7
    <3>2. InBox \in Seq(1 .. typed)
      <4> DEFINE S == 1 .. typed
      <4>1. a \in Nat \ {0}
        BY ONLY <3>1
      <4>2. box \in Seq(S) /\ InBox = SubSeq(box, a, Len(box))
        BY ONLY <1>2, <3>1
      <4> HIDE DEF a, S
      <4>3. InBox \in Seq(S)
        BY ONLY <4>1, <4>2, SuffixTypes
      <4> QED BY <4>3 DEF S
    <3>3. SubSeq(Append(box, x), a, n + 1) = Append(SubSeq(box, a, n), x)
      BY ONLY <1>2, <3>1, SubSeqOfAppend
    <3> QED BY ONLY <3>1, <3>2, <3>3
  <2> QED BY <2>1, <2>2
<1>8. /\ Ordered(taken' \o InBox')
      /\ 1 .. typed' \subseteq ToSet(taken') \cup ToSet(InBox') \cup racing'
  <2>1. taken \o InBox \in Seq(1 .. typed) /\ taken \o Append(InBox, typed + 1)
          = Append(taken \o InBox, typed + 1)
    <3> DEFINE S == 1 .. typed
    <3>1. taken \in Seq(S) /\ InBox \in Seq(S)
      BY ONLY <1>2, <1>7
    <3> HIDE DEF S
    <3>2. taken \o InBox \in Seq(S) /\ taken \o Append(InBox, typed + 1)
            = Append(taken \o InBox, typed + 1)
      BY ONLY <3>1, AppendToRest
    <3> QED BY <3>2 DEF S
  <2>2. Ordered(Append(taken \o InBox, typed + 1))
    BY ONLY <1>2, <1>3, <2>1, OrderedAppend
  <2>3. InBox \in Seq(1 .. typed + 1)
    BY ONLY <1>4, <1>7, SeqMonotonic
  <2>4. ToSet(InBox') = ToSet(InBox) \cup {typed + 1}
    BY ONLY <1>4, <1>7, <2>3, ToSetAppend
  <2> QED BY ONLY <1>1, <1>3, <1>4, <1>7, <2>1, <2>2, <2>4
<1>9. cpc' = "clearBox" => Len(line') =< Len(box') /\ ToSet(InBox') \subseteq racing'
  <2>1. SUFFICES ASSUME cpc = "clearBox"
                 PROVE  Len(line) =< Len(box') /\ ToSet(InBox') \subseteq racing'
    BY <1>1
  <2>2. Len(box') = Len(box) + 1 /\ Len(line) \in Nat /\ Len(box) \in Nat
    BY ONLY <1>1, <1>2, <1>5
  <2>3. InBox \in Seq(1 .. typed + 1)
    BY ONLY <1>4, <1>7, SeqMonotonic
  <2>4. ToSet(InBox') = ToSet(InBox) \cup {typed + 1}
    BY ONLY <1>4, <1>7, <2>3, ToSetAppend
  <2> QED BY ONLY <1>1, <1>3, <2>1, <2>2, <2>4
<1>10. TextKept'
  BY ONLY <1>1, <1>8, <1>9 DEF TextKept
<1> QED BY <1>6, <1>10

(* The read takes the whole box, and leaves nothing in it that was not     *)
(* read.                                                                   *)
LEMMA ReadBoxTexts ==
  ASSUME Types, Texts, TextKept, ReadBox
  PROVE  Texts' /\ TextKept'
<1>1. /\ cpc = "readBox" /\ cpc' = "clearBox"
      /\ UNCHANGED <<window, box, typed, racing>>
      /\ line' = IF window = "open" THEN box ELSE <<>>
      /\ taken' = taken \o line'
  BY DEF ReadBox, ClientStep, Goto, windowVars
<1>2. /\ typed \in Nat /\ racing \subseteq 1 .. typed
      /\ taken \in Seq(1 .. typed) /\ box \in Seq(1 .. typed)
  BY DEF Texts
<1>3. line' \in Seq(1 .. typed) /\ taken' \in Seq(1 .. typed)
  <2>1. <<>> \in Seq(1 .. typed)
    OBVIOUS
  <2>2. line' \in Seq(1 .. typed)
    BY ONLY <1>1, <1>2, <2>1
  <2> QED BY ONLY <1>1, <1>2, <2>2
<1>4. Texts'
  BY ONLY <1>1, <1>2, <1>3 DEF Texts
<1>5. ASSUME window' # "destroyed" PROVE TextKept'
  <2>1. window \in {"none", "open"}
    BY <1>1, <1>5 DEF Types
  <2>2. /\ Ordered(taken \o InBox)
        /\ 1 .. typed \subseteq ToSet(taken) \cup ToSet(InBox) \cup racing
        /\ window = "none" => box = <<>>
    BY <2>1 DEF TextKept
  <2>3. line' = box /\ InBox = box /\ taken' = taken \o box
    BY ONLY <1>1, <2>1, <2>2 DEF InBox
  <2>4. InBox' = <<>>
    <3>1. InBox' = SubSeq(box, Len(box) + 1, Len(box))
      BY ONLY <1>1, <2>3 DEF InBox
    <3> QED BY ONLY <1>2, <3>1
  <2>5. taken' \o InBox' = taken' /\ ToSet(InBox') = {}
    BY ONLY <1>3, <2>4 DEF ToSet
  <2>6. ToSet(taken') = ToSet(taken) \cup ToSet(box)
    <3>1. ToSet(taken \o box) = ToSet(taken) \cup ToSet(box)
      BY ONLY <1>2, ToSetConcat
    <3> QED BY ONLY <2>3, <3>1
  <2>7. Len(line') =< Len(box')
    BY ONLY <1>1, <1>2, <2>3
  <2> QED BY ONLY <1>1, <2>2, <2>3, <2>5, <2>6, <2>7 DEF TextKept
<1> QED BY <1>4, <1>5 DEF TextKept

(* The clearing drops what was read and what was typed since.              *)
LEMMA ClearBoxTexts ==
  ASSUME Types, Texts, TextKept, ClearBox
  PROVE  Texts' /\ TextKept'
<1>1. /\ cpc = "clearBox" /\ cpc' = "resetInput"
      /\ UNCHANGED <<window, line, taken, typed, racing>>
      /\ box' = IF window = "open" THEN <<>> ELSE box
  BY DEF ClearBox, ClientStep, Goto, windowVars
<1>2. /\ typed \in Nat /\ racing \subseteq 1 .. typed
      /\ taken \in Seq(1 .. typed) /\ line \in Seq(1 .. typed)
      /\ box \in Seq(1 .. typed)
  BY DEF Texts
<1>3. box' \in Seq(1 .. typed)
  <2>1. <<>> \in Seq(1 .. typed)
    OBVIOUS
  <2> QED BY ONLY <1>1, <1>2, <2>1
<1>4. Texts'
  BY ONLY <1>1, <1>2, <1>3 DEF Texts
<1>5. ASSUME window' # "destroyed" PROVE TextKept'
  <2>1. window \in {"none", "open"}
    BY <1>1, <1>5 DEF Types
  <2>2. /\ Ordered(taken \o InBox)
        /\ 1 .. typed \subseteq ToSet(taken) \cup ToSet(InBox) \cup racing
        /\ ToSet(InBox) \subseteq racing
        /\ window = "none" => box = <<>>
    BY <1>1, <2>1 DEF TextKept
  <2>3. box' = <<>> /\ InBox' = <<>>
    BY ONLY <1>1, <2>1, <2>2 DEF InBox
  <2>4. taken' \o InBox' = taken
    BY ONLY <1>1, <1>2, <2>3
  <2>5. Ordered(taken)
    <3>1. 1 .. typed \subseteq Nat
      BY ONLY <1>2
    <3>2. InBox \in Seq(1 .. typed)
      BY ONLY <1>1, <1>2 DEF InBox
    <3>3. taken \in Seq(Nat) /\ InBox \in Seq(Nat)
      BY ONLY <1>2, <3>1, <3>2, SeqMonotonic
    <3> QED BY ONLY <2>2, <3>3, OrderedPrefix
  <2> QED BY ONLY <1>1, <2>2, <2>3, <2>4, <2>5 DEF TextKept
<1> QED BY <1>4, <1>5 DEF TextKept

(* The steps that neither take nor release the mutex, nor move a thread    *)
(* that could.                                                             *)
LEMMA OtherOwners ==
  ASSUME Owners, UNCHANGED <<cpc, lpc, mutex, cmd, args>>
  PROVE  Owners'
BY DEF Owners, ClientMayHold, ClientHolds, ListenerHolds, ListenerKeeps

(* The window, the user, the server and the console take no such step.     *)
LEMMA StillOwners ==
  ASSUME WindowThread \/ User \/ Server \/ GracefulShutdown
  PROVE  UNCHANGED <<cpc, lpc, mutex, cmd, args>>
BY DEF WindowThread, InitInstance, PollsShutdown, HandleDestroy, User, Type,
   Enter, CloseWindow, Server, ServerChat, ServerAnswer, GracefulShutdown,
   WindowStep, NetStep, ends, clientVars

(* The client thread releases what it took.                                *)
LEMMA ClientThreadOwners ==
  ASSUME Types, Owners, ClientThread
  PROVE  Owners'
<1> USE DEF Owners, ClientMayHold, ClientHolds, ListenerHolds, ListenerKeeps,
        ClientStep, ListenerStep, Goto, LGoto, Quiet, LQuiet, Stop,
        windowVars, inputVars, netVars, clientVars, ends
<1>1. CASE Connect
  BY <1>1 DEF Connect
<1>2. CASE ConnectFails
  BY <1>2 DEF ConnectFails
<1>3. CASE Register
  BY <1>3 DEF Register
<1>4. CASE RegisterAccepted
  BY <1>4 DEF RegisterAccepted
<1>5. CASE StartListener
  BY <1>5 DEF StartListener
<1>6. CASE RegisterRejected
  BY <1>6 DEF RegisterRejected
<1>7. CASE RegisterFails
  BY <1>7 DEF RegisterFails
<1>8. CASE WaitInput
  BY <1>8 DEF WaitInput
<1>9. CASE ReadBox
  BY <1>9 DEF ReadBox
<1>10. CASE ClearBox
  BY <1>10 DEF ClearBox
<1>11. CASE InputFails
  BY <1>11 DEF InputFails
<1>12. CASE ResetInput
  BY <1>12 DEF ResetInput
<1>13. CASE UserListen
  BY <1>13 DEF UserListen
<1>14. CASE SetWaiting
  BY <1>14 DEF SetWaiting
<1>15. CASE Dispatch
  BY <1>15 DEF Dispatch, Commands
<1>16. CASE WaitMutex
  BY <1>16 DEF WaitMutex, Types
<1>17. CASE ResetWaiting
  BY <1>17 DEF ResetWaiting
<1>18. CASE SetFinished
  BY <1>18 DEF SetFinished, Types
<1>19. CASE Send
  BY <1>19 DEF Send
<1>20. CASE AnswerLoop
  BY <1>20 DEF AnswerLoop
<1>21. CASE RecvWait
  BY <1>21 DEF RecvWait
<1>22. CASE RecvReset
  BY <1>22 DEF RecvReset
<1>23. CASE Recv
  BY <1>23 DEF Recv
<1>24. CASE HandleSrvReturn
  <2>1. cpc = "answer" /\ cpc' \in {"answerLoop", "release", "boxReject"}
    BY <1>24 DEF HandleSrvReturn
  <2>2. UNCHANGED <<lpc, mutex, cmd, args>>
    BY <1>24 DEF HandleSrvReturn
  <2> QED BY <2>1, <2>2
<1>25. CASE Dismiss
  <2>1. UNCHANGED <<lpc, mutex, cmd, args>>
    BY <1>25 DEF Dismiss
  <2>2. \/ cpc = "boxConnect" /\ cpc' = "cleanup"
        \/ cpc = "boxReject" /\ cpc' = "release"
        \/ /\ cpc = "boxTimeout"
           /\ cpc' = IF cmd = "login" THEN "registerAnswer" ELSE "release"
    BY <1>25 DEF Dismiss
  <2> QED BY <2>1, <2>2
<1>26. CASE Release
  BY <1>26 DEF Release, Types
<1>27. CASE Echo
  BY <1>27 DEF Echo
<1>28. CASE Leave
  BY <1>28 DEF Leave
<1>29. CASE WakeListener
  BY <1>29 DEF WakeListener
<1>30. CASE Join
  BY <1>30 DEF Join
<1>31. CASE NetCleanup
  BY <1>31 DEF NetCleanup
<1>32. CASE ClientShutdown
  BY <1>32 DEF ClientShutdown
<1>33. CASE Exit
  BY <1>33 DEF Exit
<1> QED
  BY <1>1, <1>2, <1>3, <1>4, <1>5, <1>6, <1>7, <1>8, <1>9, <1>10, <1>11,
     <1>12, <1>13, <1>14, <1>15, <1>16, <1>17, <1>18, <1>19, <1>20, <1>21,
     <1>22, <1>23, <1>24, <1>25, <1>26, <1>27, <1>28, <1>29, <1>30, <1>31,
     <1>32, <1>33
  DEF ClientThread

(* And so does the listener, unless its arguments were freed.              *)
LEMMA ListenerOwners ==
  ASSUME Types, Owners, Listener
  PROVE  Owners'
<1> USE DEF Owners, ClientMayHold, ClientHolds, ListenerHolds, ListenerKeeps,
        ClientStep, ListenerStep, Goto, LGoto, Quiet, LQuiet, Stop,
        windowVars, inputVars, netVars, clientVars, ends
<1>1. CASE ListenForChats
  BY <1>1 DEF ListenForChats
<1>2. CASE ListenerIdle
  BY <1>2 DEF ListenerIdle
<1>3. CASE ListenerWaitRead
  BY <1>3 DEF ListenerWaitRead
<1>4. CASE ListenerResetRead
  BY <1>4 DEF ListenerResetRead
<1>5. CASE ListenerWaitMutex
  BY <1>5 DEF ListenerWaitMutex
<1>6. CASE ListenerRecv
  BY <1>6 DEF ListenerRecv
<1>7. CASE ListenerRelease
  BY <1>7 DEF ListenerRelease
<1>8. CASE ListenerResetAgain
  BY <1>8 DEF ListenerResetAgain
<1>9. CASE ListenerPrint
  BY <1>9 DEF ListenerPrint
<1>10. CASE ListenerUsesFreed
  BY <1>10 DEF ListenerUsesFreed
<1>11. CASE ListenerFail
  BY <1>11 DEF ListenerFail
<1>12. CASE ListenerSignal
  BY <1>12 DEF ListenerSignal
<1> QED
  BY <1>1, <1>2, <1>3, <1>4, <1>5, <1>6, <1>7, <1>8, <1>9, <1>10, <1>11,
     <1>12
  DEF Listener

(* The invariant holds at the start.                                       *)
LEMMA InitIInv ==
  ASSUME Init
  PROVE  IInv
<1>1. Types
  BY GuiAssumption DEF Init, Types, ClientHolds, ClientLocations,
    ListenerLocations,
     Commands, Events, Packets, Results
<1>2. Flags
  BY DEF Init, Flags
<1>3. EchoInv
  BY DEF Init, EchoInv, GarbageIn
<1>4. Texts
  BY DEF Init, Texts
<1>5. TextKept
  <2>1. taken = <<>> /\ InBox = <<>> /\ typed = 0 /\ box = <<>>
                     /\ cpc = "connect"
    BY DEF Init, InBox
  <2>2. Ordered(taken \o InBox)
    BY <2>1 DEF Ordered
  <2> QED BY <2>1, <2>2 DEF TextKept
<1>6. Owners
  BY DEF Init, Owners
<1> QED BY <1>1, <1>2, <1>3, <1>4, <1>5, <1>6 DEF IInv

(* Ctrl+C in the console keeps it.                                         *)
LEMMA ConsoleStep ==
  ASSUME IInv, GracefulShutdown
  PROVE  IInv'
<1>1. /\ UNCHANGED <<process, windowVars, cpc, lpc, mutex, netVars, ends, inputVars,
                     clientVars, got, res>>
      /\ state' = "STOP" /\ ev' = ev \cup {"SHUTDOWN"}
  BY DEF GracefulShutdown
<1>2. Types'
  BY <1>1 DEF IInv, Types, Events, ClientHolds, windowVars, netVars, ends,
    clientVars
<1>3. Flags'
  <2>1. UNCHANGED <<armed, request, socket, acked>>
    BY <1>1 DEF netVars, ends, clientVars
  <2> QED BY <2>1 DEF IInv, Flags
<1>4. EchoInv'
  <2>1. UNCHANGED <<cpc, acked, mishap, inbox, packet, res>> /\ state' = "STOP"
    BY <1>1 DEF netVars, clientVars
  <2> QED BY ONLY IInv, <2>1 DEF IInv, EchoInv
<1>5. TextSame
  BY <1>1 DEF TextSame, inputVars, windowVars
<1>6. Owners'
  BY StillOwners, OtherOwners DEF IInv
<1> QED BY <1>2, <1>3, <1>4, <1>5, <1>6, TextSameKeeps DEF IInv

(* Every step keeps it.                                                    *)
LEMMA NextIInv ==
  ASSUME IInv, [Next]_vars
  PROVE  IInv'
<1>0. Types /\ Owners /\ Flags /\ EchoInv /\ Texts /\ TextKept
  BY DEF IInv
<1>1. CASE WindowThread
  BY ONLY <1>0, <1>1, StillOwners, OtherOwners, WindowThreadTypes,
     WindowThreadFlags, WindowThreadEcho, WindowThreadTexts, TextSameKeeps DEF IInv
<1>2. CASE User
  BY ONLY <1>0, <1>2, StillOwners, OtherOwners, UserTypes, UserFlags,
     UserEcho, UserTexts, TextSameKeeps, TypeTexts DEF IInv
<1>3. CASE Server
  BY ONLY <1>0, <1>3, StillOwners, OtherOwners, ServerTypes, ServerFlags,
     ServerEcho, ServerTexts, TextSameKeeps DEF IInv
<1>4. CASE ClientThread
  BY ONLY <1>0, <1>4, ClientThreadOwners, ClientThreadTypes,
     ClientThreadFlags, ClientThreadEcho, ClientThreadTexts, TextSameKeeps, ReadBoxTexts, ClearBoxTexts DEF IInv
<1>5. CASE Listener
  BY ONLY <1>0, <1>5, ListenerOwners, ListenerTypes, ListenerFlags,
     ListenerEcho, ListenerTexts, TextSameKeeps DEF IInv
<1>6. CASE GracefulShutdown
  BY <1>6, ConsoleStep
<1>7. CASE UNCHANGED vars
  <2>1. UNCHANGED <<process, windowVars, cpc, lpc, state, ev, mutex,
                    netVars, ends,
                    inputVars, clientVars, got, res>>
    BY <1>7 DEF vars
  <2>2. Types'
    BY <1>0, <2>1 DEF Types, ClientHolds, windowVars, netVars, ends,
      clientVars
  <2>3. Flags'
    <3>1. UNCHANGED <<armed, request, socket, acked>>
      BY <2>1 DEF netVars, ends, clientVars
    <3> QED BY <1>0, <3>1 DEF Flags
  <2>4. EchoInv'
    <3>1. UNCHANGED <<cpc, acked, mishap, inbox, packet, res, state>>
      BY <2>1 DEF netVars, clientVars
    <3> QED BY ONLY <1>0, <3>1 DEF EchoInv
  <2>5. TextSame
    BY <2>1 DEF TextSame, inputVars, windowVars
  <2>6. Owners'
    <3>1. UNCHANGED <<cpc, lpc, mutex, cmd, args>>
      BY <2>1 DEF ends, clientVars
    <3> QED BY <1>0, <3>1, OtherOwners
  <2> QED BY <1>0, <2>2, <2>3, <2>4, <2>5, <2>6, TextSameKeeps DEF IInv
<1> QED BY <1>1, <1>2, <1>3, <1>4, <1>5, <1>6, <1>7 DEF Next

(* The invariant of GuiClient, in every state the client with a window can *)
(* reach.                                                                  *)
THEOREM Invariant == Spec => []IInv
<1>1. Init => IInv
  BY InitIInv
<1>2. IInv /\ [Next]_vars => IInv'
  BY NextIInv
<1> QED BY <1>1, <1>2, PTL DEF Spec

(* Every variable has its type; a thread has SOCKET_MUTEX where it uses    *)
(* the socket, and nowhere past its release, but for a listener whose      *)
(* arguments were freed (HandleMsg, HandleList, ListenForChats).           *)
THEOREM TypeCorrect == Spec => []TypeOK
<1>1. IInv => TypeOK
  <2>1. SUFFICES ASSUME IInv PROVE TypeOK
    OBVIOUS
  <2>2. Types /\ Owners /\ Flags /\ Texts
    BY <2>1 DEF IInv
  <2>3. {armed, request, socket, acked} \subseteq BOOLEAN
    BY ONLY <2>2 DEF Flags
  <2>4. /\ got.client \in {"READ", "SHUTDOWN", "TIMEOUT"}
        /\ got.listener \in {"READ", "SHUTDOWN", "FINISHED"}
        /\ {res.client, res.listener} \subseteq Results
    BY ONLY <2>2 DEF Types
  <2>5. ToSet(taken) \cup ToSet(line) \cup ToSet(box) \cup racing \subseteq 1 .. typed
    <3>1. /\ taken \in Seq(1 .. typed) /\ line \in Seq(1 .. typed)
          /\ box \in Seq(1 .. typed) /\ racing \subseteq 1 .. typed
      BY ONLY <2>2 DEF Texts
    <3> QED BY ONLY <3>1, ToSetTypes
  <2>6. /\ mutex = "client" => ClientMayHold
        /\ ListenerHolds => mutex = "listener"
        /\ mutex = "listener" => ListenerHolds \/ ListenerKeeps
    BY ONLY <2>2 DEF Types, Owners, ListenerHolds
  <2> QED BY ONLY <2>2, <2>3, <2>4, <2>5, <2>6 DEF Types, TypeOK
<1> QED BY <1>1, Invariant, PTL

(* HandleMsg shows a message as sent only if the server acknowledged it,   *)
(* but for a client that stops and a packet that was given up              *)
(* (c_user_input.c).                                                       *)
THEOREM EchoIsAcknowledged == Spec => []EchoMeansAcked
<1>1. IInv => EchoMeansAcked
  BY DEF IInv, EchoInv, EchoMeansAcked
<1> QED BY <1>1, Invariant, PTL

(* GetAndAssign takes what the user types once and in its order, and loses *)
(* only what is typed between the read of the box and its clearing.        *)
THEOREM TypedOnce == Spec => []TypedIsTakenOnce
<1>1. IInv => TypedIsTakenOnce
  <2>1. SUFFICES ASSUME IInv, window = "open"
                 PROVE  /\ \A i, j \in DOMAIN (taken \o InBox) :
                              i < j => (taken \o InBox)[i] < (taken \o InBox)[j]
                        /\ 1 .. typed \subseteq ToSet(taken \o InBox) \cup racing
    BY DEF TypedIsTakenOnce
  <2>2. /\ Ordered(taken \o InBox)
        /\ 1 .. typed \subseteq ToSet(taken) \cup ToSet(InBox) \cup racing
    BY <2>1 DEF IInv, TextKept
  <2>3. typed \in Nat /\ taken \in Seq(1 .. typed)
                      /\ InBox \in Seq(1 .. typed)
    <3>1. typed \in Nat /\ taken \in Seq(1 .. typed)
                        /\ box \in Seq(1 .. typed)
          /\ line \in Seq(1 .. typed)
      BY <2>1 DEF IInv, Texts
    <3>2. Len(line) \in Nat /\ Len(box) \in Nat
      BY ONLY <3>1
    <3>3. SubSeq(box, Len(line) + 1, Len(box)) \in Seq(1 .. typed)
      BY ONLY <3>1, <3>2
    <3> QED BY <3>1, <3>3 DEF InBox
  <2>4. taken \o InBox \in Seq(1 .. typed)
    BY ONLY <2>3
  <2>5. DOMAIN (taken \o InBox) = 1 .. Len(taken \o InBox)
    BY ONLY <2>4
  <2>6. ToSet(taken \o InBox) = ToSet(taken) \cup ToSet(InBox)
    BY ONLY <2>3, ToSetConcat
  <2> QED BY ONLY <2>2, <2>5, <2>6 DEF Ordered
<1> QED BY <1>1, Invariant, PTL

=============================================================================
