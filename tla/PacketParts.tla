----------------------------- MODULE PacketParts -----------------------------
(***************************************************************************)
(* What becomes of packets that move in parts.  One connection, one way:   *)
(*                                                                         *)
(*   toClient  the server queues messages for a user (AddMsgToQueue),      *)
(*             sends the oldest with overlapped sends that may end early   *)
(*             (WorkerPartialSend), and a client reads the packets         *)
(*             (ClientRecvPacket, ListenThreadRecvPacket);                 *)
(*   toServer  a client sends packets (SendPacket) and the server reads    *)
(*             them with overlapped receives that may end early            *)
(*             (WorkerRecvOP, WorkerPartialRecv).                          *)
(*                                                                         *)
(* The data is bytes, for it is the offsets into the three buffers of a    *)
(* packet that go wrong.  UserIO has the threads that share the queue, and *)
(* ClientSession those of the client; here each end takes whole turns.     *)
(*                                                                         *)
(* A behaviour ends when the user is freed, and at the first byte that is  *)
(* sent out of place or the first packet that is read wrong: a connection  *)
(* that lost its frame is of no use to anyone.                             *)
(***************************************************************************)
EXTENDS Integers, MsgQueue

CONSTANTS
  Ways,      \* the ways the connection may be used in
  Lengths    \* wLenOne and wLenTwo of each message, a bound of the model

ASSUME PacketPartsAssumption ==
  /\ Ways \subseteq {"toClient", "toServer"}
  /\ Lengths \in Seq((0 .. 3) \X (0 .. 3)) /\ Len(Lengths) < 8

VARIABLES
  way,       \* which end sends
  accepted,  \* messages the sender was given so far
  queue,     \* m_SendMsgQueue; its data are numbers of messages
  holder,    \* the MSGHOLDER of each message
  sending,   \* the message the kernel is sending, or NULL
  freed,     \* the user is freed
  wire,      \* every byte sent so far
  read,      \* how many of them were received
  rcv,       \* the packet being received
  handled,   \* history: the packets that were read
  excuses    \* history: what happened that the code does not survive

vars == <<way, accepted, queue, holder, sending, freed, wire, read, rcv,
          handled, excuses>>

Messages == 1 .. Len(Lengths)
Excuses == {"bodyOneCut", "headerSplit", "lateSplit", "shortSend", "wrapped", "torn"}

HEADER_LEN == 7
MAX_MSG_LEN_CHAT == 1006

-----------------------------------------------------------------------------
(* Numbers and memory.                                                     *)

(* What a difference below zero is in a DWORD, 2^32 less a little in the   *)
(* code: more than any buffer holds.                                       *)
HUGE == 2147483647
DwordMinus(a, b) == IF a >= b THEN a - b ELSE HUGE

(* Memory is a function from the offsets that were written to bytes; the   *)
(* rest of a buffer is zero, as HEAP_ZERO_MEMORY leaves it.                *)
At(mem, i) == IF i \in DOMAIN mem THEN mem[i] ELSE 0
Memory(bytes) == [i \in 0 .. Len(bytes) - 1 |-> bytes[i + 1]]
ntohs(mem, i) == 256 * At(mem, i) + At(mem, i + 1)
Size(chars) == (2 * chars) % 65536

(* A character is its two bytes, the low one first on the host.            *)
WstrHostToNet(chars) == [k \in DOMAIN chars |-> <<chars[k][2], chars[k][1]>>]
WstrNetToHost(mem, n) == [k \in 1 .. n |-> <<At(mem, 2 * k - 1), At(mem, 2 * k - 2)>>]

(* A packet lies in three memories, described by three WSABUFs; a transfer *)
(* goes through the bytes they name in order.  No transfer is longer than  *)
(* REACH bytes, a bound of the model.                                      *)
REACH == 32
Buf(at, len) == [at |-> at, len |-> len]
Places(bufs) ==
  FlattenSeq([i \in 1 .. 3 |->
    [k \in 1 .. (IF bufs[i].len < REACH THEN bufs[i].len ELSE REACH) |->
       <<i, bufs[i].at + k - 1>>]])
Gather(mems, bufs) ==
  LET place == Places(bufs)
  IN  [k \in DOMAIN place |-> At(mems[place[k][1]], place[k][2])]
Scatter(mems, bufs, bytes) ==
  LET place == SubSeq(Places(bufs), 1, Len(bytes))
      Touched(i) == {place[k][2] : k \in {j \in DOMAIN place : place[j][1] = i}}
  IN  [i \in 1 .. 3 |->
        [o \in DOMAIN mems[i] \cup Touched(i) |->
           IF o \in Touched(i)
           THEN bytes[CHOOSE k \in DOMAIN place : place[k] = <<i, o>>]
           ELSE mems[i][o]]]

(* The characters of a message; no two have a byte in common.              *)
CharsOf(m) ==
  LET Chars(first, n) ==
        [k \in 1 .. n |-> <<16 * m + first + k, 128 + 16 * m + first + k>>]
  IN  [one |-> Chars(0, Lengths[m][1]),
       two |-> Chars(Lengths[m][1], Lengths[m][2])]

(* The header and the two bodies of a message in the order of the network. *)
MemoriesOf(m) ==
  <<Memory(<<1, 1, 1, 0, Lengths[m][1], 0, Lengths[m][2]>>),
    Memory(FlattenSeq(WstrHostToNet(CharsOf(m).one))),
    Memory(FlattenSeq(WstrHostToNet(CharsOf(m).two)))>>

WholeBufs(m) == <<Buf(0, HEADER_LEN), Buf(0, Size(Lengths[m][1])),
                  Buf(0, Size(Lengths[m][2]))>>

PacketOf(m) == Gather(MemoriesOf(m), WholeBufs(m))

Excuse(e) == excuses' = excuses \cup e

(* Every packet so far was read as it was given.                           *)
ReadRight == IsPrefix(handled, [m \in 1 .. accepted |-> CharsOf(m)])

(* What was sent is the packets that were given, as far as it goes.        *)
SentRight == IsPrefix(wire, FlattenSeq([m \in 1 .. accepted |-> PacketOf(m)]))

Running == ~freed /\ ReadRight /\ SentRight

-----------------------------------------------------------------------------
(* The server sends.                                                       *)

(* AddMsgToQueue, with CreateMsg: the buffers of the new message.          *)
NewHolder(m) ==
  [bufs |-> WholeBufs(m), total |-> 0,
   toMove |-> HEADER_LEN + 2 * (Lengths[m][1] + Lengths[m][2])]

(* What is kept of a message that was freed (FreeMsg): that it was sent.   *)
FreedHolder(m) == [NewHolder(m) EXCEPT !.total = @ + NewHolder(m).toMove]

(* The message is pushed; when nothing is being sent it is sent at once.   *)
ManageMsgQueueAdd ==
  /\ way = "toClient" /\ Running /\ accepted < Len(Lengths)
  /\ accepted' = accepted + 1
  /\ queue' = QueuePush(queue, accepted')
  /\ holder' = Append(holder, NewHolder(accepted'))
  /\ sending' = IF sending = NULL THEN accepted' ELSE sending
  /\ Excuse(IF queue.size = WORD_RANGE - 1 THEN {"wrapped"} ELSE {})
  /\ UNCHANGED <<way, freed, wire, read, rcv, handled>>

(* Seeded fault: the header is sent again with the rest of a body.         *)
WorkerPartialSendHeaderAgain(h, one, two) ==
  LET total == h.total
  IN  IF total < HEADER_LEN
      THEN [h EXCEPT !.bufs[1] = Buf(total, HEADER_LEN - total)]
      ELSE IF total < HEADER_LEN + Size(one)
      THEN [h EXCEPT !.bufs[1].len = 0,
                     !.bufs[2] = Buf(total - HEADER_LEN,
                                     DwordMinus(one, total - HEADER_LEN))]
      ELSE LET sent == total - (HEADER_LEN + Size(one))
           IN  [h EXCEPT !.bufs[2].len = 0,
                         !.bufs[3] = Buf(sent, Size(two) - sent)]

(* The buffers of the rest of a message.  What is left of the first body   *)
(* is computed from its length in characters.                              *)
WorkerPartialSend(h, one, two) ==
  LET total == h.total
  IN  IF total < HEADER_LEN
      THEN [h EXCEPT !.bufs[1] = Buf(total, HEADER_LEN - total)]
      ELSE IF total < HEADER_LEN + Size(one)
      THEN [h EXCEPT !.bufs[1].len = 0,
                     !.bufs[2] = Buf(total - HEADER_LEN,
                                     DwordMinus(one, total - HEADER_LEN))]
      ELSE LET sent == total - (HEADER_LEN + Size(one))
           IN  [h EXCEPT !.bufs[1].len = 0, !.bufs[2].len = 0,
                         !.bufs[3] = Buf(sent, Size(two) - sent)]

(* ManageSendQueue and CheckSendQueue: the oldest message is freed and the *)
(* next one is sent.  q is the queue after the pop.                        *)
ManageSendQueue(q) ==
  /\ queue' = q
  /\ sending' = IF q.size = 0 THEN NULL ELSE QueuePeek(q)

(* A send of n bytes completes.  It is booked on the oldest message.       *)
WorkerSendOP(n) ==
  LET m == QueuePeek(queue)
      h == [holder[m] EXCEPT !.total = @ + n]
      bodyStart == HEADER_LEN
      bodyOneEnd == HEADER_LEN + Size(Lengths[m][1])
  IN  /\ wire' = wire \o SubSeq(Gather(MemoriesOf(sending), holder[sending].bufs), 1, n)
      /\ IF h.total < h.toMove
         THEN /\ holder' = [holder EXCEPT ![m] = WorkerPartialSend(h, Lengths[m][1], Lengths[m][2])]
              /\ sending' = m
              /\ Excuse(IF h.total \in bodyStart .. bodyOneEnd - 1 THEN {"bodyOneCut"} ELSE {})
              /\ UNCHANGED queue
         ELSE /\ holder' = [holder EXCEPT ![m] = FreedHolder(m)]
              /\ ManageSendQueue(QueuePopRemove(queue))
              /\ UNCHANGED excuses
      /\ UNCHANGED <<way, accepted, freed, read, rcv, handled>>

SendCompletes ==
  /\ way = "toClient" /\ Running /\ sending # NULL
  /\ \E n \in 1 .. Len(Gather(MemoriesOf(sending), holder[sending].bufs)) : WorkerSendOP(n)

(* UserFreeFunction closes the socket and frees the queue.                 *)
UserFree ==
  /\ way = "toClient" /\ Running
  /\ freed' = TRUE
  /\ queue' = QueueDestroy(queue)
  /\ sending' = NULL
  /\ UNCHANGED <<way, accepted, holder, wire, read, rcv, handled, excuses>>

-----------------------------------------------------------------------------
(* The client reads.                                                       *)

NewMemories == <<<<>>, <<>>, <<>>>>
HeaderBufs == <<Buf(0, HEADER_LEN), Buf(0, 0), Buf(0, 0)>>

(* Seeded fault: the buffers keep the lengths of the last packet's bodies. *)
ResetChatRecvKeepsLengths(bufs) ==
  [phase |-> "header", bufs |-> [bufs EXCEPT ![1] = Buf(0, HEADER_LEN)],
   mems |-> NewMemories, total |-> 0, toMove |-> HEADER_LEN]

(* A packet of which nothing was read, whatever the buffers were before.   *)
(* The server counts the bytes of the whole packet; the client counts      *)
(* those of the header, and then from zero those of the bodies.            *)
ResetChatRecv(bufs) ==
  [phase |-> "header", bufs |-> HeaderBufs, mems |-> NewMemories,
   total |-> 0, toMove |-> HEADER_LEN]

LenOne(mems) == ntohs(mems[1], 3)
LenTwo(mems) == ntohs(mems[1], 5)

(* Bytes the kernel can put into the buffers of r.                         *)
Arriving(r) ==
  LET room == Len(Places(r.bufs))
      there == Len(wire) - read
  IN  1 .. (IF there < room THEN there ELSE room)

(* The receive of n bytes into the buffers of r.                           *)
Moved(r, n) ==
  [r EXCEPT !.mems = Scatter(r.mems, r.bufs, SubSeq(wire, read + 1, read + n)),
            !.total = @ + n]

(* A packet whose lengths are beyond what the server copies is handled     *)
(* with empty strings.                                                     *)
Handle(r) ==
  LET Chars(mem, n) == WstrNetToHost(mem, IF n < MAX_MSG_LEN_CHAT THEN n ELSE 0)
  IN  /\ handled' = Append(handled, [one |-> Chars(r.mems[2], LenOne(r.mems)),
                                     two |-> Chars(r.mems[3], LenTwo(r.mems))])
      /\ rcv' = ResetChatRecv(r.bufs)

(* RecvHeader: when the header is whole the bodies are received, if there  *)
(* are any; the rest of a header must be there already.                    *)
RecvHeader(r) ==
  LET one == 2 * LenOne(r.mems)
      two == 2 * LenTwo(r.mems)
  IN  CASE r.total < HEADER_LEN ->
             /\ rcv' = [r EXCEPT !.phase = "headerPeek",
                                 !.bufs[1] = Buf(r.total, HEADER_LEN - r.total)]
             /\ UNCHANGED handled
        [] r.total = HEADER_LEN /\ one + two = 0 -> Handle(r)
        [] OTHER ->
             /\ rcv' = [r EXCEPT !.phase = "body", !.total = 0, !.toMove = one + two,
                                 !.bufs = <<Buf(0, 0), Buf(0, one), Buf(0, two)>>]
             /\ UNCHANGED handled

(* RecvBody: the place for the rest of the second body is computed from    *)
(* the length of the first in characters.                                  *)
RecvBodyRest(r) ==
  LET one == 2 * LenOne(r.mems)
      two == 2 * LenTwo(r.mems)
  IN  IF r.total < one
      THEN [r EXCEPT !.bufs[2] = Buf(r.total, one - r.total)]
      ELSE [r EXCEPT !.bufs[2] = Buf(LenOne(r.mems), 0),
                     !.bufs[3] = Buf(r.total - LenOne(r.mems), two - (r.total - one))]

RecvBody(r) ==
  IF r.total < r.toMove
  THEN /\ rcv' = [RecvBodyRest(r) EXCEPT !.phase = "bodyPeek"]
       /\ UNCHANGED handled
  ELSE Handle(r)

SplitLate(r) == r.phase = "body" /\ LenOne(r.mems) > 0
                  /\ r.total \in (2 * LenOne(r.mems)) .. (r.toMove - 1)

ClientRecvPacket ==
  /\ way = "toClient" /\ Running
  /\ rcv.phase \in {"header", "body"}
  /\ \E n \in Arriving(rcv) :
       LET r == Moved(rcv, n)
       IN  /\ IF rcv.phase = "header" THEN RecvHeader(r) ELSE RecvBody(r)
           /\ Excuse(IF SplitLate(r) THEN {"lateSplit"} ELSE {})
           /\ read' = read + n
  /\ UNCHANGED <<way, accepted, queue, holder, sending, freed, wire>>

(* SocketPeek: a packet whose next bytes have not come yet is given up.    *)
SocketPeek ==
  /\ Running /\ rcv.phase \in {"headerPeek", "bodyPeek"}
  /\ IF read < Len(wire)
     THEN /\ rcv' = [rcv EXCEPT !.phase = IF @ = "headerPeek" THEN "header" ELSE "body"]
          /\ UNCHANGED excuses
     ELSE /\ rcv' = [rcv EXCEPT !.phase = "torn"]
          /\ Excuse({"torn"})
  /\ UNCHANGED <<way, accepted, queue, holder, sending, freed, wire, read, handled>>

-----------------------------------------------------------------------------
(* The client sends and the server reads.                                  *)

(* The client sends a request when the one before was answered.  What a    *)
(* short send leaves is never sent.                                        *)
SendPacket ==
  /\ way = "toServer" /\ Running
  /\ accepted < Len(Lengths) /\ Len(handled) = accepted
  /\ accepted' = accepted + 1
  /\ holder' = Append(holder, NewHolder(accepted'))
  /\ LET packet == PacketOf(accepted')
     IN  \E n \in DOMAIN packet :
           /\ wire' = wire \o SubSeq(packet, 1, n)
           /\ Excuse(IF n < Len(packet) THEN {"shortSend"} ELSE {})
  /\ UNCHANGED <<way, queue, sending, freed, read, rcv, handled>>

(* Seeded fault: the difference is taken the wrong way round.              *)
RestOfHeaderNegative(r) == [r EXCEPT !.bufs[1] = Buf(r.total, r.total - HEADER_LEN)]

RestOfHeader(r) == [r EXCEPT !.bufs[1] = Buf(r.total, HEADER_LEN - r.total)]

(* The header is looked up through the pointer of its buffer, which a      *)
(* receive in parts has moved: the lengths are those that start as far     *)
(* from the end of what came before.                                       *)
PeekedLens(r) ==
  LET p == r.bufs[1].at
  IN  <<Size(ntohs(r.mems[1], p + 3)), Size(ntohs(r.mems[1], p + 5))>>

(* The buffers for the bodies, or for what is left of them.                *)
WorkerPartialRecvBody(r, one, two) ==
  CASE r.toMove = HEADER_LEN ->
         [r EXCEPT !.toMove = HEADER_LEN + one + two,
                   !.bufs[1].len = 0, !.bufs[2].len = one, !.bufs[3].len = two]
    [] r.toMove # HEADER_LEN /\ r.total < HEADER_LEN + one ->
         [r EXCEPT !.bufs[1].len = 0,
                   !.bufs[2] = Buf(r.total - HEADER_LEN, one - (r.total - HEADER_LEN))]
    [] OTHER ->
         LET got == r.total - (one + HEADER_LEN)
         IN  [r EXCEPT !.bufs[1].len = 0, !.bufs[2].len = 0,
                       !.bufs[3] = Buf(got, DwordMinus(two, got))]

(* The next receive, or the packet is handled when nothing is missing.     *)
WorkerPartialRecv(r) ==
  LET lens == PeekedLens(r)
  IN  CASE r.total < HEADER_LEN -> rcv' = RestOfHeader(r) /\ UNCHANGED handled
        [] r.total >= HEADER_LEN /\ lens = <<0, 0>> -> Handle(r)
        [] OTHER -> /\ rcv' = WorkerPartialRecvBody(r, lens[1], lens[2])
                    /\ UNCHANGED handled

SplitHeader(r) == /\ r.total = HEADER_LEN /\ r.bufs[1].at > 0
                  /\ LenOne(r.mems) + LenTwo(r.mems) > 0

WorkerRecvOP ==
  /\ way = "toServer" /\ Running
  /\ \E n \in Arriving(rcv) :
       LET r == Moved(rcv, n)
       IN  /\ IF r.total = HEADER_LEN \/ r.total < r.toMove
              THEN WorkerPartialRecv(r)
              ELSE Handle(r)
           /\ Excuse(IF SplitHeader(r) THEN {"headerSplit"} ELSE {})
           /\ read' = read + n
  /\ UNCHANGED <<way, accepted, queue, holder, sending, freed, wire>>

-----------------------------------------------------------------------------
Init ==
  /\ way \in Ways
  /\ accepted = 0
  /\ queue = QueueInit
  /\ holder = <<>>
  /\ sending = NULL
  /\ freed = FALSE
  /\ wire = <<>>
  /\ read = 0
  /\ rcv = ResetChatRecv(HeaderBufs)
  /\ handled = <<>>
  /\ excuses = {}

Next ==
  \/ ManageMsgQueueAdd
  \/ SendCompletes
  \/ UserFree
  \/ ClientRecvPacket
  \/ SocketPeek
  \/ SendPacket
  \/ WorkerRecvOP

Spec == Init /\ [][Next]_vars

-----------------------------------------------------------------------------
Bufs == [at : Nat, len : Nat]

(* Types.  No offset and no length of a buffer is negative (WSABUF).       *)
TypeOK ==
  /\ way \in Ways
  /\ accepted \in 0 .. Len(Lengths)
  /\ queue.size \in 0 .. WORD_RANGE - 1
  /\ DOMAIN holder = 1 .. accepted
  /\ \A m \in DOMAIN holder : \A i \in 1 .. 3 : holder[m].bufs[i] \in Bufs
  /\ sending \in Messages \cup {NULL}
  /\ freed \in BOOLEAN
  /\ \A k \in DOMAIN wire : wire[k] \in 0 .. 255
  /\ read \in 0 .. Len(wire)
  /\ rcv.phase \in {"header", "headerPeek", "body", "bodyPeek", "torn"}
  /\ \A i \in 1 .. 3 : rcv.bufs[i] \in Bufs
  /\ excuses \subseteq Excuses

(* What the connection has carried is the packets in the order they were   *)
(* given, each once and whole or on its way (AddMsgToQueue, QueuePush,     *)
(* WorkerPartialSend, ManageSendQueue): wherever a send was cut, its rest  *)
(* follows from the next byte.  Not so once a send was cut before the end  *)
(* of the first body (see PartialSendIsWhole), or the size of the queue    *)
(* came to zero again with messages in it.                                 *)
StreamIsPackets ==
  excuses \cap {"bodyOneCut", "wrapped"} = {} => SentRight

(* A packet is read as it was given, with its characters in the order of   *)
(* the host, however it is split (ClientRecvPacket, WorkerRecvOP): nothing *)
(* of one packet is taken for the next, and when nothing is on its way     *)
(* every packet was read.  Not so when the server gets a header in parts,  *)
(* or the client the second body after a break behind the first, or a      *)
(* packet is given up because its rest is late.                            *)
AllArrived == /\ sending = NULL /\ ~freed
              /\ read = Len(wire)

PacketsAreRead ==
  excuses = {} =>
    /\ ReadRight
    /\ AllArrived => Len(handled) = accepted

(* The send queue is a list (Queue.c): its links agree in both directions, *)
(* its size counts it, it holds the messages not yet sent in their order,  *)
(* and a destroyed queue leaves no node behind.  Not so after its size     *)
(* came to zero again, at 65536 messages.                                  *)
SentWhole == {m \in DOMAIN holder : holder[m].total >= holder[m].toMove}

QueueIsList ==
  (way = "toClient" /\ "wrapped" \notin excuses) =>
    /\ WellLinked(queue)
    /\ freed => DOMAIN queue.node = {}
    /\ ~freed => QueueData(queue) =
                   [k \in 1 .. accepted - Cardinality(SentWhole) |->
                      Cardinality(SentWhole) + k]

(* What the comment on MSGHOLDER says: the server handles partial sends    *)
(* (s_shared.h, 240-242).  Whatever part of a message a send has moved,    *)
(* what follows on the connection is the rest of it.                       *)
PartialSendIsWhole ==
  (way = "toClient" /\ "wrapped" \notin excuses) => SentRight

(* The same of partial receives: a packet of which the server gets the     *)
(* header in parts is read as it was sent.                                 *)
PartialReceiveIsWhole ==
  (way = "toServer" /\ "shortSend" \notin excuses) => ReadRight
=============================================================================
