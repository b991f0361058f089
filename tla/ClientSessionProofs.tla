------------------------- MODULE ClientSessionProofs -------------------------
(***************************************************************************)
(* ClientSession for every number of chats and requests and every length   *)
(* of a body: its type invariant, who owns SOCKET_MUTEX, that an answer is *)
(* read by the thread that asked, and that no chat is lost.                *)
(*                                                                         *)
(* The last two rest on what lies in the socket and in the network, read   *)
(* as one stream: what is left of the packet a thread is in the middle of, *)
(* then whole packets (Aligned), among them at most one answer, and none   *)
(* unless the user's thread is waiting for it with the mutex (OneAnswer).  *)
(* That holds as long as the client works and gave up no packet; a failed  *)
(* receive ends the client, but an E_UNEXPECTED one is forgotten by the    *)
(* next command, so that it has to be remembered in torn.                  *)
(***************************************************************************)
EXTENDS ClientSession, SequenceTheorems, TLAPS

(* Where a thread may be in the middle of a packet, where it may hold one, *)
(* and where the user's thread waits for an answer.                        *)
Mid(t) == IF t = "listener" THEN {"recv", "peek"}
          ELSE {"waitRecv", "resetRecv", "resetTimeout", "recv", "peek"}
Holding(t) ==
  Mid(t) \cup IF t = "listener" THEN {"release", "resetAgain", "print"}
             ELSE {"received"}
Asking == Mid("user") \cup {"answer", "received"}

(* The user's thread has the mutex when its wait did not fail, and the     *)
(* listener knows what ended its wait.                                     *)
OwnerIsKnown ==
  /\ pc["user"] \in {"resetWaiting", "setFinished"} /\ res["user"] = "S_OK"
       => mutex = "user"
  /\ pc["listener"] = "resetRead" => ready # "none"

(* A listener whose receive failed has no packet and is on its way out.    *)
ListenerFailed ==
  res["listener"] # "S_OK" =>
    /\ hand["listener"] = NoPacket
    /\ pc["listener"] \in {"release", "resetAgain", "fail", "failSignal",
                           "exited"}

UnexpectedIsTorn == \A t \in Threads : res[t] = "E_UNEXPECTED" => torn

(* A thread holds a packet only while it reads or handles it.              *)
HandIsPlaced ==
  \A t \in Threads : /\ hand[t] # NoPacket => pc[t] \in Holding(t)
                     /\ pc[t] \in {"peek", "received"} => hand[t] # NoPacket

(* What holds whatever happened.                                           *)
Basic ==
  /\ TypeOK /\ SocketOwner /\ OwnerIsKnown /\ ListenerFailed
  /\ UnexpectedIsTorn /\ HandIsPlaced

(* The units not read yet, and how many of them belong to a packet that a  *)
(* thread has begun.                                                       *)
Stream == sock \o net
Rest == left["listener"] + left["user"]
Sane == Working /\ ~torn

LeftIsMid ==
  \A t \in Threads :
    /\ left[t] # 0 <=> pc[t] \in Mid(t) /\ hand[t] # NoPacket
    /\ hand[t] # Garbage

IsHeader(u, k) == u.part = "header" /\ u.kind = k
Has(s, k) == \E i \in 1 .. Len(s) : IsHeader(s[i], k)
Single(s) ==
  \A i, j \in 1 .. Len(s) :
    IsHeader(s[i], Answer) /\ IsHeader(s[j], Answer) => i = j

(* A header, or the end, comes after l units of body, and after the body   *)
(* that a header announces.                                                *)
Aligned(s, l) ==
  /\ l =< Len(s)
  /\ \A i \in 1 .. l : s[i].part = "body"
  /\ l < Len(s) => s[l + 1].part = "header"
  /\ \A i \in 1 .. Len(s) : s[i].part = "header" =>
       /\ i + s[i].len =< Len(s)
       /\ \A j \in i + 1 .. i + s[i].len : s[j].part = "body"
       /\ i + s[i].len < Len(s) => s[i + s[i].len + 1].part = "header"

(* A request is at the server, its answer on its way or in the hand of the *)
(* user's thread, and only while that waits for it.                        *)
OneAnswer ==
  /\ Single(Stream)
  /\ Has(Stream, Answer) => request = "none"
  /\ hand["user"] = Answer => request = "none" /\ ~Has(Stream, Answer)
  /\ pc["user"] \notin Asking => request = "none" /\ ~Has(Stream, Answer)
  /\ hand["listener"] # Answer

ChatsAreKept ==
  \A i \in 1 .. sent :
    Has(Stream, i) \/ i \in printed \/ \E t \in Threads : hand[t] = i

Whole == LeftIsMid /\ Aligned(Stream, Rest) /\ OneAnswer /\ ChatsAreKept
SaneInv == Sane => Whole

(* The inductive invariant.                                                *)
IInv == Basic /\ SaneInv

-----------------------------------------------------------------------------
(* The rest of a sequence is one.                                          *)
LEMMA SuffixTypes ==
  ASSUME NEW S, NEW s \in Seq(S), NEW m \in Nat \ {0}
  PROVE  SubSeq(s, m, Len(s)) \in Seq(S)
  OBVIOUS

(* The smaller of two numbers.                                             *)
LEMMA MinOfTwo ==
  ASSUME NEW a \in Nat, NEW b \in Nat
  PROVE  /\ Min({a, b}) \in 0 .. a /\ Min({a, b}) =< b
         /\ Min({a, b}) = a \/ Min({a, b}) = b
<1>1. \E x \in {a, b} : \A y \in {a, b} : x =< y
  OBVIOUS
<1>2. Min({a, b}) \in {a, b} /\ \A y \in {a, b} : Min({a, b}) =< y
  BY <1>1 DEF Min
<1> QED BY <1>2

(* What a receive does to the event FD_READ raises.                        *)
LEMMA ReenableTypes ==
  ASSUME signalled \in [Events -> BOOLEAN], NEW rest, Reenable(rest)
  PROVE  signalled' \in [Events -> BOOLEAN] /\ fdArmed' \in BOOLEAN
<1>1. fdArmed' \in BOOLEAN
  BY DEF Reenable
<1>2. signalled' \in [Events -> BOOLEAN]
  BY DEF Reenable, Events
<1> QED BY <1>1, <1>2

(* A packet is its header and then its body.                               *)
LEMMA PacketTypes ==
  ASSUME NEW k \in Chats \cup {Answer}, NEW n \in 0 .. BodyUnits
  PROVE  /\ Packet(k, n) \in Seq(Units)
         /\ Len(Packet(k, n)) = n + 1
         /\ Packet(k, n)[1] = Header(k, n)
         /\ \A i \in 2 .. n + 1 : Packet(k, n)[i] = Body(k)
<1> USE SessionAssumption
<1> DEFINE b == [i \in 1 .. n |-> Body(k)]
<1>1. Body(k) \in Units /\ Header(k, n) \in Units
  BY DEF Body, Header, Units
<1>2. b \in Seq(Units) /\ Len(b) = n /\ \A i \in 1 .. n : b[i] = Body(k)
  BY <1>1
<1>3. <<Header(k, n)>> \in Seq(Units)
  BY <1>1
<1> HIDE DEF b
<1>4. Packet(k, n) = <<Header(k, n)>> \o b
  BY DEF Packet, b
<1> QED BY <1>2, <1>3, <1>4

(* The fields of a unit.                                                   *)
LEMMA UnitTypes ==
  ASSUME NEW s \in Seq(Units), NEW i \in 1 .. Len(s)
  PROVE  /\ s[i] \in Units /\ s[i].len \in Nat /\ s[i].len \in 0 .. BodyUnits
         /\ s[i].part \in {"header", "body"}
         /\ s[i].kind \in Chats \cup {Answer}
<1>1. s[i] \in Units
  OBVIOUS
<1> QED BY <1>1, SessionAssumption DEF Units

(* Reading units of the body in progress leaves the headers where they     *)
(* are: RecvBody.                                                          *)
LEMMA AlignedSkip ==
  ASSUME NEW s \in Seq(Units), NEW l \in Nat, NEW m \in 0 .. l, Aligned(s, l)
  PROVE  /\ Aligned(SubSeq(s, m + 1, Len(s)), l - m)
         /\ \A k : Has(SubSeq(s, m + 1, Len(s)), k) <=> Has(s, k)
         /\ Single(s) => Single(SubSeq(s, m + 1, Len(s)))
<1> DEFINE r == SubSeq(s, m + 1, Len(s))
<1> USE SessionAssumption
<1>1. m =< Len(s) /\ Len(s) \in Nat
  BY DEF Aligned
<1>2. Len(r) = Len(s) - m /\ \A i \in 1 .. Len(s) - m : r[i] = s[i + m]
  BY <1>1
<1> HIDE DEF r
<1>3. Aligned(r, l - m)
  <2>1. /\ l - m =< Len(r)
        /\ \A i \in 1 .. l - m : r[i].part = "body"
        /\ l - m < Len(r) => r[l - m + 1].part = "header"
    <3>1. /\ l =< Len(s) /\ \A i \in 1 .. l : s[i].part = "body"
          /\ l < Len(s) => s[l + 1].part = "header"
      BY DEF Aligned
    <3>2. ASSUME NEW i \in 1 .. l - m PROVE r[i].part = "body"
      <4>1. i + m \in 1 .. l /\ i \in 1 .. Len(s) - m
        BY <1>1, <3>1
      <4> QED BY <1>2, <3>1, <4>1
    <3>3. ASSUME l - m < Len(r) PROVE r[l - m + 1].part = "header"
      <4>1. l - m + 1 \in 1 .. Len(s) - m /\ (l - m + 1) + m = l + 1 /\ l < Len(s)
        BY <1>1, <1>2, <3>3
      <4> QED BY <1>2, <3>1, <4>1
    <3> QED BY <1>1, <1>2, <3>1, <3>2, <3>3
  <2>2. ASSUME NEW i \in 1 .. Len(r), r[i].part = "header"
        PROVE  /\ i + r[i].len =< Len(r)
               /\ \A j \in i + 1 .. i + r[i].len : r[j].part = "body"
               /\ i + r[i].len < Len(r) => r[i + r[i].len + 1].part = "header"
    <3>1. i + m \in 1 .. Len(s) /\ r[i] = s[i + m]
      BY <1>1, <1>2
    <3>2. s[i + m].len \in Nat
      BY <3>1, UnitTypes
    <3>3. /\ i + m + r[i].len =< Len(s)
          /\ \A j \in i + m + 1 .. i + m + r[i].len : s[j].part = "body"
          /\ i + m + r[i].len < Len(s) =>
               s[i + m + r[i].len + 1].part = "header"
      BY <2>2, <3>1 DEF Aligned
    <3>4. i + r[i].len =< Len(r)
      BY <1>1, <1>2, <3>1, <3>2, <3>3
    <3>5. ASSUME NEW j \in i + 1 .. i + r[i].len PROVE r[j].part = "body"
      <4>1. r[i].len \in Nat /\ i \in Nat \ {0}
            /\ Len(r) \in Nat /\ m \in Nat
        BY <1>1, <1>2, <3>1, <3>2
      <4>2. j \in 1 .. Len(r) /\ j + m \in i + m + 1 .. i + m + r[i].len
        BY <3>4, <4>1
      <4>3. r[j] = s[j + m]
        BY <1>1, <1>2, <4>2
      <4> QED BY <3>3, <4>2, <4>3
    <3>6. ASSUME i + r[i].len < Len(r)
          PROVE  r[i + r[i].len + 1].part = "header"
      <4>1. /\ r[i].len \in Nat /\ i \in Nat \ {0}
            /\ Len(r) \in Nat /\ m \in Nat
            /\ Len(s) = Len(r) + m
        BY <1>1, <1>2, <3>1, <3>2
      <4>2. /\ i + r[i].len + 1 \in 1 .. Len(r)
            /\ (i + r[i].len + 1) + m = i + m + r[i].len + 1
            /\ i + m + r[i].len < Len(s)
        <5> DEFINE k == r[i].len  n == Len(r)
        <5>1. /\ i + k < n /\ k \in Nat /\ i \in Nat \ {0}
              /\ n \in Nat /\ m \in Nat /\ Len(s) = n + m
          BY ONLY <3>6, <4>1
        <5> HIDE DEF k, n
        <5>2. /\ i + k + 1 \in 1 .. n /\ (i + k + 1) + m = i + m + k + 1
              /\ i + m + k < Len(s)
          BY ONLY <5>1
        <5> QED BY <5>2 DEF k, n
      <4>3. r[i + r[i].len + 1] = s[(i + r[i].len + 1) + m]
        BY <1>1, <1>2, <4>2
      <4> QED BY <3>3, <4>2, <4>3
    <3> QED BY <3>4, <3>5, <3>6
  <2> QED BY <2>1, <2>2 DEF Aligned
<1>4. \A k : Has(r, k) <=> Has(s, k)
  <2>1. ASSUME NEW k, Has(r, k) PROVE Has(s, k)
    <3>1. PICK i \in 1 .. Len(r) : IsHeader(r[i], k)
      BY <2>1 DEF Has
    <3>2. i + m \in 1 .. Len(s) /\ r[i] = s[i + m]
      BY <1>1, <1>2
    <3> QED BY <3>1, <3>2 DEF Has
  <2>2. ASSUME NEW k, Has(s, k) PROVE Has(r, k)
    <3>1. PICK i \in 1 .. Len(s) : IsHeader(s[i], k)
      BY <2>2 DEF Has
    <3>2. i > m
      BY <3>1 DEF Aligned, IsHeader
    <3>3. i - m \in 1 .. Len(r) /\ r[i - m] = s[i]
      BY <1>1, <1>2, <3>2
    <3> QED BY <3>1, <3>3 DEF Has
  <2> QED BY <2>1, <2>2
<1>5. ASSUME Single(s) PROVE Single(r)
  <2>1. SUFFICES ASSUME NEW i \in 1 .. Len(r), NEW j \in 1 .. Len(r),
                        IsHeader(r[i], Answer), IsHeader(r[j], Answer)
                 PROVE  i = j
    BY DEF Single
  <2>2. i + m \in 1 .. Len(s) /\ j + m \in 1 .. Len(s)
    BY <1>1, <1>2
  <2>3. i + m = j + m
    BY <1>2, <1>5, <2>1, <2>2 DEF Single
  <2> QED BY <2>3
<1> QED BY <1>3, <1>4, <1>5 DEF r

(* Reading the header of the next packet: RecvHeader.                      *)
LEMMA AlignedHeader ==
  ASSUME NEW s \in Seq(Units), s # <<>>, Aligned(s, 0)
  PROVE  /\ s[1].part = "header" /\ s[1].kind \in Chats \cup {Answer}
         /\ Aligned(Tail(s), s[1].len)
         /\ \A k : Has(s, k) <=> s[1].kind = k \/ Has(Tail(s), k)
         /\ Single(s) => Single(Tail(s))
         /\ Single(s) /\ s[1].kind = Answer => ~Has(Tail(s), Answer)
<1> DEFINE r == Tail(s)
<1> USE SessionAssumption
<1>1. /\ Len(s) \in Nat \ {0} /\ Len(r) = Len(s) - 1
      /\ \A i \in 1 .. Len(s) - 1 : r[i] = s[i + 1]
  OBVIOUS
<1> HIDE DEF r
<1>2. s[1] \in Units /\ s[1].part = "header"
  BY <1>1 DEF Aligned
<1>3. s[1].kind \in Chats \cup {Answer} /\ s[1].len \in Nat
  BY <1>2 DEF Units
<1>4. Aligned(r, s[1].len)
  <2>1. /\ 1 + s[1].len =< Len(s)
        /\ \A j \in 1 + 1 .. 1 + s[1].len : s[j].part = "body"
        /\ 1 + s[1].len < Len(s) => s[1 + s[1].len + 1].part = "header"
    BY <1>1, <1>2 DEF Aligned
  <2>2. /\ s[1].len =< Len(r)
        /\ \A i \in 1 .. s[1].len : r[i].part = "body"
        /\ s[1].len < Len(r) => r[s[1].len + 1].part = "header"
    <3>1. s[1].len =< Len(r)
      BY <1>1, <1>3, <2>1
    <3>2. ASSUME NEW i \in 1 .. s[1].len PROVE r[i].part = "body"
      <4>1. i \in 1 .. Len(s) - 1 /\ i + 1 \in 1 + 1 .. 1 + s[1].len
        BY <1>1, <1>3, <3>1
      <4> QED BY <1>1, <2>1, <4>1
    <3>3. ASSUME s[1].len < Len(r) PROVE r[s[1].len + 1].part = "header"
      <4>1. s[1].len + 1 \in 1 .. Len(s) - 1 /\ 1 + s[1].len < Len(s)
        BY <1>1, <1>3, <3>3
      <4>2. r[s[1].len + 1] = s[1 + s[1].len + 1]
        BY <1>1, <1>3, <4>1
      <4> QED BY <2>1, <4>1, <4>2
    <3> QED BY <3>1, <3>2, <3>3
  <2>3. ASSUME NEW i \in 1 .. Len(r), r[i].part = "header"
        PROVE  /\ i + r[i].len =< Len(r)
               /\ \A j \in i + 1 .. i + r[i].len : r[j].part = "body"
               /\ i + r[i].len < Len(r) => r[i + r[i].len + 1].part = "header"
    <3>1. i + 1 \in 1 .. Len(s) /\ r[i] = s[i + 1]
      BY <1>1
    <3>2. s[i + 1].len \in Nat
      BY <3>1, UnitTypes
    <3>3. /\ i + 1 + r[i].len =< Len(s)
          /\ \A j \in i + 1 + 1 .. i + 1 + r[i].len : s[j].part = "body"
          /\ i + 1 + r[i].len < Len(s) =>
               s[i + 1 + r[i].len + 1].part = "header"
      BY <2>3, <3>1 DEF Aligned
    <3>4. i + r[i].len =< Len(r)
      BY <1>1, <3>1, <3>2, <3>3
    <3>5. ASSUME NEW j \in i + 1 .. i + r[i].len PROVE r[j].part = "body"
      <4>1. r[i].len \in Nat /\ i \in Nat \ {0}
            /\ Len(r) \in Nat /\ 1 \in Nat
        BY <1>1, <3>1, <3>2
      <4>2. j \in 1 .. Len(r) /\ j + 1 \in i + 1 + 1 .. i + 1 + r[i].len
        BY <3>4, <4>1
      <4>3. r[j] = s[j + 1]
        BY <1>1, <4>2
      <4> QED BY <3>3, <4>2, <4>3
    <3>6. ASSUME i + r[i].len < Len(r)
          PROVE  r[i + r[i].len + 1].part = "header"
      <4>1. /\ r[i].len \in Nat /\ i \in Nat \ {0}
            /\ Len(r) \in Nat /\ 1 \in Nat
            /\ Len(s) = Len(r) + 1
        BY <1>1, <3>1, <3>2
      <4>2. /\ i + r[i].len + 1 \in 1 .. Len(r)
            /\ (i + r[i].len + 1) + 1 = i + 1 + r[i].len + 1
            /\ i + 1 + r[i].len < Len(s)
        <5>1. \A n, a \in Nat : i + n < a =>
                /\ i + n + 1 \in 1 .. a /\ (i + n + 1) + 1 = i + 1 + n + 1
                /\ i + 1 + n < a + 1
          BY <4>1
        <5> QED BY <3>6, <4>1, <5>1
      <4>3. r[i + r[i].len + 1] = s[(i + r[i].len + 1) + 1]
        BY <1>1, <4>2
      <4> QED BY <3>3, <4>2, <4>3
    <3> QED BY <3>4, <3>5, <3>6
  <2> QED BY <2>2, <2>3 DEF Aligned
<1>5. ASSUME NEW k PROVE Has(s, k) <=> s[1].kind = k \/ Has(r, k)
  <2>1. ASSUME Has(r, k) PROVE Has(s, k)
    <3>1. PICK i \in 1 .. Len(r) : IsHeader(r[i], k)
      BY <2>1 DEF Has
    <3>2. i + 1 \in 1 .. Len(s) /\ r[i] = s[i + 1]
      BY <1>1
    <3> QED BY <3>1, <3>2 DEF Has
  <2>2. ASSUME s[1].kind = k PROVE Has(s, k)
    BY <1>1, <1>2, <2>2 DEF Has, IsHeader
  <2>3. ASSUME Has(s, k), s[1].kind # k PROVE Has(r, k)
    <3>1. PICK i \in 1 .. Len(s) : IsHeader(s[i], k)
      BY <2>3 DEF Has
    <3>2. i # 1
      BY <2>3, <3>1 DEF IsHeader
    <3>3. i - 1 \in 1 .. Len(r) /\ r[i - 1] = s[i]
      BY <1>1, <3>2
    <3> QED BY <3>1, <3>3 DEF Has
  <2> QED BY <2>1, <2>2, <2>3
<1>6. ASSUME Single(s) PROVE Single(r)
  <2>1. SUFFICES ASSUME NEW i \in 1 .. Len(r), NEW j \in 1 .. Len(r),
                        IsHeader(r[i], Answer), IsHeader(r[j], Answer)
                 PROVE  i = j
    BY DEF Single
  <2>2. i + 1 \in 1 .. Len(s) /\ j + 1 \in 1 .. Len(s)
    BY <1>1
  <2>3. i + 1 = j + 1
    BY <1>1, <1>6, <2>1, <2>2 DEF Single
  <2> QED BY <2>3
<1>7. ASSUME Single(s), s[1].kind = Answer PROVE ~Has(r, Answer)
  <2>1. SUFFICES ASSUME Has(r, Answer) PROVE FALSE
    OBVIOUS
  <2>2. PICK i \in 1 .. Len(r) : IsHeader(r[i], Answer)
    BY <2>1 DEF Has
  <2>3. i + 1 \in 1 .. Len(s) /\ IsHeader(s[i + 1], Answer)
    BY <1>1, <2>2
  <2>4. IsHeader(s[1], Answer) /\ 1 \in 1 .. Len(s)
    BY <1>1, <1>2, <1>7 DEF IsHeader
  <2> QED BY <1>7, <2>3, <2>4 DEF Single
<1> QED BY <1>2, <1>3, <1>4, <1>5, <1>6, <1>7 DEF r

(* A whole packet more at the end: ServerChat and ServerAnswer.            *)
LEMMA AlignedPacket ==
  ASSUME NEW s \in Seq(Units), NEW l \in Nat, Aligned(s, l),
         NEW k \in Chats \cup {Answer}, NEW n \in 0 .. BodyUnits
  PROVE  /\ Aligned(s \o Packet(k, n), l)
         /\ \A j : Has(s \o Packet(k, n), j) <=> Has(s, j) \/ j = k
         /\ Single(s) /\ (k # Answer \/ ~Has(s, Answer))
              => Single(s \o Packet(k, n))
<1> DEFINE p == Packet(k, n)  r == s \o p
<1> USE SessionAssumption
<1>1. /\ p \in Seq(Units) /\ Len(p) = n + 1 /\ p[1] = Header(k, n)
      /\ \A i \in 2 .. n + 1 : p[i] = Body(k)
  BY PacketTypes
<1> HIDE DEF p
<1>2. /\ Len(s) \in Nat /\ Len(r) = Len(s) + n + 1
      /\ \A i \in 1 .. Len(s) : r[i] = s[i]
      /\ \A i \in 1 .. n + 1 : r[Len(s) + i] = p[i]
  BY <1>1
<1> HIDE DEF r
<1>3. /\ r[Len(s) + 1] = Header(k, n)
      /\ \A i \in Len(s) + 2 .. Len(s) + n + 1 : r[i] = Body(k)
  <2>1. ASSUME NEW i \in Len(s) + 2 .. Len(s) + n + 1 PROVE r[i] = Body(k)
    <3>1. i - Len(s) \in 2 .. n + 1 /\ i = Len(s) + (i - Len(s))
      BY <1>2
    <3>2. r[i] = p[i - Len(s)]
      BY <1>2, <3>1
    <3> QED BY <1>1, <3>1, <3>2
  <2> QED BY <1>1, <1>2, <2>1
<1>4. /\ r[Len(s) + 1].part = "header" /\ r[Len(s) + 1].kind = k
      /\ r[Len(s) + 1].len = n
      /\ \A i \in Len(s) + 2 .. Len(s) + n + 1 : r[i].part = "body"
  BY <1>3 DEF Header, Body
<1> HIDE <1>3
<1>5. Aligned(r, l)
  <2>1. /\ l =< Len(s) /\ \A i \in 1 .. l : s[i].part = "body"
        /\ l < Len(s) => s[l + 1].part = "header"
    BY DEF Aligned
  <2>2. /\ l =< Len(r) /\ \A i \in 1 .. l : r[i].part = "body"
        /\ l < Len(r) => r[l + 1].part = "header"
    <3>1. CASE l < Len(s)
      BY <1>2, <2>1, <3>1
    <3>2. CASE l = Len(s)
      BY <1>2, <1>4, <2>1, <3>2
    <3> QED BY <1>2, <2>1, <3>1, <3>2
  <2>3. ASSUME NEW i \in 1 .. Len(r), r[i].part = "header"
        PROVE  /\ i + r[i].len =< Len(r)
               /\ \A j \in i + 1 .. i + r[i].len : r[j].part = "body"
               /\ i + r[i].len < Len(r) => r[i + r[i].len + 1].part = "header"
    <3>1. CASE i \in 1 .. Len(s)
      <4>1. r[i] = s[i] /\ s[i].len \in Nat
        BY <1>2, <3>1, UnitTypes
      <4>2. /\ i + s[i].len =< Len(s)
            /\ \A j \in i + 1 .. i + s[i].len : s[j].part = "body"
            /\ i + s[i].len < Len(s) => s[i + s[i].len + 1].part = "header"
        BY <2>3, <3>1, <4>1 DEF Aligned
      <4>3. ASSUME NEW j \in i + 1 .. i + s[i].len PROVE r[j].part = "body"
        <5>1. j \in 1 .. Len(s)
          BY <1>2, <3>1, <4>1, <4>2
        <5> QED BY <1>2, <4>2, <5>1
      <4>4. r[i + s[i].len + 1].part = "header"
        <5>1. CASE i + s[i].len < Len(s)
          <6>1. i + s[i].len + 1 \in 1 .. Len(s)
            BY <1>2, <3>1, <4>1, <5>1
          <6> QED BY <1>2, <4>2, <5>1, <6>1
        <5>2. CASE i + s[i].len = Len(s)
          BY <1>4, <5>2
        <5> QED BY <1>2, <3>1, <4>1, <4>2, <5>1, <5>2
      <4>5. i + s[i].len =< Len(r)
        BY <1>2, <3>1, <4>1, <4>2
      <4> QED BY <4>1, <4>3, <4>4, <4>5
    <3>2. CASE i = Len(s) + 1
      BY <1>2, <1>4, <3>2
    <3>3. CASE i \in Len(s) + 2 .. Len(s) + n + 1
      BY <1>4, <2>3, <3>3
    <3> QED BY <1>2, <3>1, <3>2, <3>3
  <2> QED BY <2>2, <2>3 DEF Aligned
<1>6. ASSUME NEW j PROVE Has(r, j) <=> Has(s, j) \/ j = k
  <2>1. ASSUME Has(s, j) PROVE Has(r, j)
    BY <1>2, <2>1 DEF Has
  <2>2. ASSUME j = k PROVE Has(r, j)
    BY <1>2, <1>4, <2>2 DEF Has, IsHeader
  <2>3. ASSUME Has(r, j), j # k PROVE Has(s, j)
    <3>1. PICK i \in 1 .. Len(r) : IsHeader(r[i], j)
      BY <2>3 DEF Has
    <3>2. i \in 1 .. Len(s)
      BY <1>2, <1>4, <2>3, <3>1 DEF IsHeader
    <3> QED BY <1>2, <3>1, <3>2 DEF Has
  <2> QED BY <2>1, <2>2, <2>3
<1>7. ASSUME Single(s), k # Answer \/ ~Has(s, Answer) PROVE Single(r)
  <2>1. SUFFICES ASSUME NEW i \in 1 .. Len(r), NEW j \in 1 .. Len(r),
                        IsHeader(r[i], Answer), IsHeader(r[j], Answer)
                 PROVE  i = j
    BY DEF Single
  <2>2. i \in 1 .. Len(s) + 1 /\ j \in 1 .. Len(s) + 1
    BY <1>2, <1>4, <2>1 DEF IsHeader
  <2>3. CASE k # Answer
    <3>1. i \in 1 .. Len(s) /\ j \in 1 .. Len(s)
      <4>1. i # Len(s) + 1 /\ j # Len(s) + 1
        BY <1>4, <2>1, <2>3 DEF IsHeader
      <4> QED BY <1>2, <2>2, <4>1
    <3> QED BY <1>2, <1>7, <2>1, <3>1 DEF Single
  <2>4. CASE ~Has(s, Answer)
    <3>1. i = Len(s) + 1 /\ j = Len(s) + 1
      BY <1>2, <2>1, <2>2, <2>4 DEF Has
    <3> QED BY <3>1
  <2> QED BY <1>7, <2>3, <2>4
<1> QED BY <1>5, <1>6, <1>7 DEF r, p

-----------------------------------------------------------------------------
(* The first part of the invariant, at the start and in every step: of a   *)
(* receive by either thread, of the listener, of the user's thread, and of *)
(* the console, the control handler, the server and the network.           *)
LEMMA InitBasic == Init => Basic
<1> USE SessionAssumption
    DEF Basic, TypeOK, SocketOwner, OwnerIsKnown, ListenerFailed,
        UnexpectedIsTorn, HandIsPlaced, Mid, Holding, Threads, Events,
        Commands, Answer, Chats, Garbage, NoPacket, ListenerHolds, UserHolds,
        UserMayHold, ListenerPlaces, UserPlaces, local, network, At, Goto,
        Set, Reset
<1> SUFFICES ASSUME Init PROVE Basic
  OBVIOUS
<1>1. signalled \in [Events -> BOOLEAN] /\ torn \in BOOLEAN
  BY DEF Init
<1>2. fdArmed \in BOOLEAN
  BY DEF Init
<1>3. sock \in Seq(Units) /\ net \in Seq(Units)
  BY DEF Init
<1>4. pc["listener"] \in ListenerPlaces /\ pc["user"] \in UserPlaces
  BY DEF Init
<1>5. hand \in [Threads -> 0 .. NoPacket]
      /\ left \in [Threads -> 0 .. BodyUnits]
  BY DEF Init
<1>6. TypeOK
  BY <1>1, <1>2, <1>3, <1>4, <1>5 DEF Init
<1> QED BY <1>6 DEF Init

(* A receive.                                                              *)
LEMMA RecvBasic ==
  ASSUME Basic, NEW t \in Threads, Recv(t)
  PROVE  Basic'
<1> USE SessionAssumption
    DEF Basic, TypeOK, SocketOwner, OwnerIsKnown, ListenerFailed,
        UnexpectedIsTorn, HandIsPlaced, Mid, Holding, Threads, Events,
        Commands, Answer, Chats, Garbage, NoPacket, ListenerHolds, UserHolds,
        UserMayHold, ListenerPlaces, UserPlaces, local, network, At, Goto,
        Set, Reset
<1>1. CASE RecvNothing(t)
  BY <1>1 DEF RecvNothing, Reenable, Received, RecvMore
<1>2. CASE RecvHeader(t)
  <2>1. PICK k \in 0 .. Garbage, n \in 0 .. BodyUnits :
          /\ hand' = [hand EXCEPT ![t] = k]
          /\ left' = [left EXCEPT ![t] = n]
          /\ Goto(t, IF n = 0 THEN Received(t) ELSE RecvMore(t))
    <3>1. Head(sock) \in Units
      BY <1>2 DEF RecvHeader
    <3>2. /\ Head(sock).part = "header" => Head(sock).kind \in 0 .. Garbage
          /\ Head(sock).len \in 0 .. BodyUnits /\ Garbage \in 0 .. Garbage
      BY <3>1 DEF Units
    <3>3. PICK k \in IF Head(sock).part = "header"
                    THEN {Head(sock).kind} ELSE {Garbage},
               n \in IF Head(sock).part = "header"
                    THEN {Head(sock).len} ELSE 0 .. BodyUnits :
            /\ hand' = [hand EXCEPT ![t] = k]
            /\ left' = [left EXCEPT ![t] = n]
            /\ Goto(t, IF n = 0 THEN Received(t) ELSE RecvMore(t))
      BY <1>2 DEF RecvHeader
    <3>4. k \in 0 .. Garbage /\ n \in 0 .. BodyUnits
      BY <3>2
    <3> QED BY <3>3, <3>4
  <2>2. signalled' \in [Events -> BOOLEAN] /\ fdArmed' \in BOOLEAN
    BY <1>2, ReenableTypes DEF RecvHeader
  <2>3. sock' \in Seq(Units)
    BY <1>2 DEF RecvHeader
  <2>4. TypeOK'
    BY <2>1, <2>2, <2>3, <1>2 DEF RecvHeader, Received, RecvMore
  <2> QED BY <2>1, <2>4, <1>2 DEF RecvHeader, Received, RecvMore
<1>3. CASE RecvBody(t)
  <2> DEFINE n == Min({left[t], Len(sock)})
  <2>1. n \in 0 .. left[t] /\ n =< Len(sock)
    <3>1. left[t] \in Nat /\ Len(sock) \in Nat
      OBVIOUS
    <3> QED BY <3>1, MinOfTwo
  <2> HIDE DEF n
  <2>2. signalled' \in [Events -> BOOLEAN] /\ fdArmed' \in BOOLEAN
    BY <1>3, ReenableTypes DEF RecvBody
  <2>3. sock' \in Seq(Units)
    <3>1. n + 1 \in Nat \ {0}
      BY <2>1
    <3> QED BY <3>1, <1>3, SuffixTypes DEF RecvBody, n
  <2>4. left' = [left EXCEPT ![t] = @ - n]
    BY <1>3 DEF RecvBody, n
  <2>5. left' \in [Threads -> 0 .. BodyUnits]
    BY <2>1, <2>4
  <2>6. /\ pc' \in {[pc EXCEPT ![t] = p] : p \in {Received(t), "peek"}}
        /\ pc[t] = "recv" /\ hand[t] # NoPacket
        /\ UNCHANGED <<state, mutex, ready, cmd, res, hand, printed, torn, ctrl,
                       network, asked>>
    BY <1>3 DEF RecvBody
  <2>7. TypeOK'
    BY <2>2, <2>3, <2>5, <2>6 DEF Received
  <2> QED BY <2>6, <2>7 DEF Received
<1>4. CASE SocketPeek(t)
  <2>1. signalled' \in [Events -> BOOLEAN] /\ fdArmed' \in BOOLEAN
    BY <1>4, ReenableTypes DEF SocketPeek
  <2>2. CASE sock # <<>>
    BY <2>1, <2>2, <1>4 DEF SocketPeek, RecvMore
  <2>3. CASE sock = <<>>
    <3>1. torn' \in BOOLEAN
      BY <2>3, <1>4 DEF SocketPeek
    <3>2. TypeOK'
      BY <3>1, <2>1, <2>3, <1>4 DEF SocketPeek
    <3> QED BY <3>2, <2>3, <1>4 DEF SocketPeek
  <2> QED BY <2>2, <2>3
<1> QED BY <1>1, <1>2, <1>3, <1>4 DEF Recv

(* ListenForChats.                                                         *)
LEMMA ListenerBasic ==
  ASSUME Basic, Listener
  PROVE  Basic'
<1> USE SessionAssumption
    DEF Basic, TypeOK, SocketOwner, OwnerIsKnown, ListenerFailed,
        UnexpectedIsTorn, HandIsPlaced, Mid, Holding, Threads, Events,
        Commands, Answer, Chats, Garbage, NoPacket, ListenerHolds, UserHolds,
        UserMayHold, ListenerPlaces, UserPlaces, local, network, At, Goto,
        Set, Reset
<1>1. CASE ListenerLoop
  BY <1>1 DEF ListenerLoop
<1>2. CASE ListenerWaitIdle
  BY <1>2 DEF ListenerWaitIdle
<1>3. CASE ListenerWaitRead
  BY <1>3 DEF ListenerWaitRead
<1>4. CASE ListenerResetRead
  BY <1>4 DEF ListenerResetRead
<1>5. CASE ListenerWaitSocket
  BY <1>5 DEF ListenerWaitSocket
<1>6. CASE ListenerRelease
  BY <1>6 DEF ListenerRelease
<1>7. CASE ListenerResetAgain
  <2>1. signalled' \in [Events -> BOOLEAN]
    BY <1>7 DEF ListenerResetAgain
  <2>2. TypeOK'
    BY <2>1, <1>7 DEF ListenerResetAgain
  <2> QED BY <2>2, <1>7 DEF ListenerResetAgain
<1>8. CASE ListenerPrint
  <2>1. printed' \subseteq Chats
    BY <1>8 DEF ListenerPrint
  <2>2. hand' \in [Threads -> 0 .. NoPacket]
    BY <1>8 DEF ListenerPrint
  <2>3. TypeOK'
    BY <2>1, <2>2, <1>8 DEF ListenerPrint
  <2> QED BY <2>3, <1>8 DEF ListenerPrint
<1>9. CASE ListenerFail
  BY <1>9 DEF ListenerFail
<1>10. CASE ListenerFailSignal
  BY <1>10 DEF ListenerFailSignal
<1>11. CASE Recv("listener")
  BY <1>11, RecvBasic
<1> QED BY <1>1, <1>2, <1>3, <1>4, <1>5, <1>6, <1>7, <1>8, <1>9, <1>10, <1>11
    DEF Listener

(* UserListen and wmain.                                                   *)
LEMMA UserBasic ==
  ASSUME Basic, User
  PROVE  Basic'
<1> USE SessionAssumption
    DEF Basic, TypeOK, SocketOwner, OwnerIsKnown, ListenerFailed,
        UnexpectedIsTorn, HandIsPlaced, Mid, Holding, Threads, Events,
        Commands, Answer, Chats, Garbage, NoPacket, ListenerHolds, UserHolds,
        UserMayHold, ListenerPlaces, UserPlaces, local, network, At, Goto,
        Set, Reset
<1>1. CASE UserLoop
  <2>1. signalled' \in [Events -> BOOLEAN]
    <3>1. CASE state = "CONTINUE"
      <4>1. signalled' = [signalled EXCEPT !["FINISHED"] = FALSE]
        BY <3>1, <1>1 DEF UserLoop
      <4> QED BY <4>1
    <3>2. CASE state = "STOP"
      BY <3>2, <1>1 DEF UserLoop
    <3> QED BY <3>1, <3>2
  <2>2. pc' \in {[pc EXCEPT !["user"] = p] : p \in {"setWaiting", "leave"}}
    BY <1>1 DEF UserLoop
  <2>3. TypeOK'
    BY <2>1, <2>2, <1>1 DEF UserLoop
  <2> QED BY <2>2, <2>3, <1>1 DEF UserLoop
<1>2. CASE UserSetWaiting
  BY <1>2 DEF UserSetWaiting
<1>3. CASE UserWaitMutex
  BY <1>3 DEF UserWaitMutex
<1>4. CASE UserResetWaiting
  BY <1>4 DEF UserResetWaiting
<1>5. CASE UserSetFinished
  BY <1>5 DEF UserSetFinished
<1>6. CASE UserSend
  BY <1>6 DEF UserSend
<1>7. CASE UserSendFails
  BY <1>7 DEF UserSendFails
<1>8. CASE UserAnswerLoop
  BY <1>8 DEF UserAnswerLoop
<1>9. CASE UserWaitRecv
  BY <1>9 DEF UserWaitRecv
<1>10. CASE UserTimeout
  BY <1>10 DEF UserTimeout
<1>11. CASE UserResetRecv
  BY <1>11 DEF UserResetRecv
<1>12. CASE UserResetTimeout
  BY <1>12 DEF UserResetTimeout
<1>13. CASE UserReceived
  <2>1. printed' \subseteq Chats
    BY <1>13 DEF UserReceived
  <2>2. hand' \in [Threads -> 0 .. NoPacket]
    BY <1>13 DEF UserReceived
  <2>3. TypeOK'
    BY <2>1, <2>2, <1>13 DEF UserReceived
  <2> QED BY <2>3, <1>13 DEF UserReceived
<1>14. CASE UserRelease
  BY <1>14 DEF UserRelease
<1>15. CASE UserLeave
  BY <1>15 DEF UserLeave
<1>16. CASE UserLeaveSignal
  BY <1>16 DEF UserLeaveSignal
<1>17. CASE MainSignalsRead
  BY <1>17 DEF MainSignalsRead
<1>18. CASE MainJoins
  BY <1>18 DEF MainJoins
<1>19. CASE Recv("user")
  BY <1>19, RecvBasic
<1> QED BY ONLY User, <1>1, <1>2, <1>3, <1>4, <1>5, <1>6, <1>7, <1>8, <1>9, <1>10, <1>11,
          <1>12, <1>13, <1>14, <1>15, <1>16, <1>17, <1>18, <1>19 DEF User

(* Everybody else.                                                         *)
LEMMA OtherBasic ==
  ASSUME Basic, \/ Console \/ CtrlStop \/ CtrlSignal
                \/ ServerChat \/ ServerAnswer \/ Arrive
  PROVE  Basic'
<1> USE SessionAssumption
    DEF Basic, TypeOK, SocketOwner, OwnerIsKnown, ListenerFailed,
        UnexpectedIsTorn, HandIsPlaced, Mid, Holding, Threads, Events,
        Commands, Answer, Chats, Garbage, NoPacket, ListenerHolds, UserHolds,
        UserMayHold, ListenerPlaces, UserPlaces, local, network, At, Goto,
        Set, Reset
<1>1. CASE UserCommand
  BY <1>1, SMTT(20) DEF UserCommand
<1>2. CASE UserHelp
  BY <1>2 DEF UserHelp
<1>3. CASE UserConsoleEnds
  BY <1>3 DEF UserConsoleEnds
<1>4. CASE CtrlStop
  BY <1>4 DEF CtrlStop
<1>5. CASE CtrlSignal
  BY <1>5 DEF CtrlSignal
<1>6. CASE ServerChat
  <2>1. sent' \in Chats /\ sent' \in 0 .. MaxChats
    BY <1>6 DEF ServerChat
  <2>2. net' \in Seq(Units)
    BY <2>1, <1>6, PacketTypes DEF ServerChat
  <2> QED BY <2>1, <2>2, <1>6 DEF ServerChat
<1>7. CASE ServerAnswer
  <2>1. net' \in Seq(Units)
    <3>1. Packet(Answer, IF request = "list" THEN BodyUnits ELSE 0) \in Seq(Units)
      BY PacketTypes
    <3> QED BY <3>1, <1>7 DEF ServerAnswer
  <2> QED BY <2>1, <1>7 DEF ServerAnswer
<1>8. CASE Arrive
  <2>1. sock' \in Seq(Units) /\ net' \in Seq(Units)
    BY <1>8 DEF Arrive
  <2>2. signalled' \in [Events -> BOOLEAN]
    BY <1>8 DEF Arrive
  <2>3. fdArmed' \in BOOLEAN
    BY <1>8 DEF Arrive
  <2>4. TypeOK'
    BY <2>1, <2>2, <2>3, <1>8 DEF Arrive
  <2> QED BY <2>4, <1>8 DEF Arrive
<1> QED BY <1>1, <1>2, <1>3, <1>4, <1>5, <1>6, <1>7, <1>8 DEF Console

-----------------------------------------------------------------------------
(* What reading the socket, an arrival and a packet from the server do to  *)
(* the stream.                                                             *)
LEMMA StreamFacts ==
  ASSUME sock \in Seq(Units), net \in Seq(Units)
  PROVE  /\ Stream \in Seq(Units)
         /\ sock # <<>> => /\ Stream # <<>> /\ Stream[1] = Head(sock)
                           /\ Tail(sock) \o net = Tail(Stream)
         /\ \A n \in 0 .. Len(sock) :
              SubSeq(sock, n + 1, Len(sock)) \o net =
                SubSeq(Stream, n + 1, Len(Stream))
         /\ net # <<>> => Append(sock, Head(net)) \o Tail(net) = Stream
         /\ \A p \in Seq(Units) : sock \o (net \o p) = Stream \o p
<1> USE DEF Stream
<1>1. Stream \in Seq(Units)
  OBVIOUS
<1>2. ASSUME sock # <<>>
      PROVE  /\ Stream # <<>> /\ Stream[1] = Head(sock)
             /\ Tail(sock) \o net = Tail(Stream)
  BY <1>2
<1>3. ASSUME NEW n \in 0 .. Len(sock)
      PROVE  SubSeq(sock, n + 1, Len(sock)) \o net =
                SubSeq(Stream, n + 1, Len(Stream))
  <2> DEFINE q == SubSeq(sock, n + 1, Len(sock))
             l == q \o net
             r == SubSeq(Stream, n + 1, Len(Stream))
  <2>1. /\ Len(sock) \in Nat /\ Len(net) \in Nat /\ n \in Nat /\ n =< Len(sock)
        /\ Len(Stream) = Len(sock) + Len(net)
    OBVIOUS
  <2>2. /\ q \in Seq(Units) /\ Len(q) = Len(sock) - n
        /\ \A i \in 1 .. Len(sock) - n : q[i] = sock[i + n]
    BY <2>1
  <2>3. /\ r \in Seq(Units) /\ Len(r) = Len(sock) + Len(net) - n
        /\ \A i \in 1 .. Len(sock) + Len(net) - n : r[i] = Stream[i + n]
    BY <1>1, <2>1
  <2> HIDE DEF q
  <2>4. l \in Seq(Units) /\ Len(l) = Len(sock) + Len(net) - n
    <3>1. l \in Seq(Units) /\ Len(l) = Len(q) + Len(net)
      BY ONLY <2>2, net \in Seq(Units), ConcatProperties
    <3> QED BY ONLY <2>1, <2>2, <3>1
  <2>5. ASSUME NEW i \in 1 .. Len(l) PROVE l[i] = r[i]
    <3>1. CASE i =< Len(sock) - n
      <4>1. i \in 1 .. Len(sock) - n /\ i + n \in 1 .. Len(sock)
        BY <2>1, <2>4, <3>1
      <4>2. l[i] = q[i] /\ Stream[i + n] = sock[i + n]
        BY <2>1, <2>2, <4>1
      <4> QED BY <2>1, <2>2, <2>3, <2>4, <4>1, <4>2
    <3>2. CASE i > Len(sock) - n
      <4>1. i - (Len(sock) - n) \in 1 .. Len(net)
        BY <2>1, <2>4, <3>2
      <4>2. l[i] = net[i - (Len(sock) - n)]
        BY <2>1, <2>2, <2>4, <3>2, <4>1
      <4>3. Stream[i + n] = net[i + n - Len(sock)]
        BY <2>1, <2>4, <3>2
      <4>4. i + n - Len(sock) = i - (Len(sock) - n)
        BY <2>1, <2>4
      <4>5. i \in 1 .. Len(sock) + Len(net) - n
        BY <2>4
      <4> QED BY ONLY <2>3, <4>2, <4>3, <4>4, <4>5
    <3> QED BY <2>1, <2>4, <3>1, <3>2
  <2> HIDE DEF l, r
  <2>6. l = r
    BY <2>3, <2>4, <2>5, SeqEqual
  <2> QED BY <2>6 DEF l, q, r
<1>4. ASSUME net # <<>> PROVE Append(sock, Head(net)) \o Tail(net) = Stream
  BY <1>4
<1>5. ASSUME NEW p \in Seq(Units) PROVE sock \o (net \o p) = Stream \o p
  OBVIOUS
<1> QED BY <1>1, <1>2, <1>3, <1>4, <1>5

(* The headers in transit are those of the stream.                         *)
LEMMA TransitIsStream ==
  ASSUME sock \in Seq(Units), net \in Seq(Units), NEW k \in 0 .. MaxChats
  PROVE  InTransit(k) <=> Has(Stream, k)
<1> USE SessionAssumption
<1> DEFINE t == Traffic
<1>1. /\ Len(sock) \in Nat /\ Len(net) \in Nat
      /\ Stream \in Seq(Units) /\ Len(Stream) = Len(sock) + Len(net)
      /\ Len(Traffic) = Len(sock) + Len(net) /\ Traffic \in Seq(Units)
  BY DEF Stream, Traffic
<1>2. /\ \A i \in 1 .. Len(net) :
           /\ Traffic[i] = net[i]
           /\ Stream[i + Len(sock)] = net[i]
      /\ \A i \in 1 .. Len(sock) :
           /\ Traffic[i + Len(net)] = sock[i]
           /\ Stream[i] = sock[i]
  BY DEF Stream, Traffic
<1>3. \A u \in Units : u = Header(k, u.len) <=> IsHeader(u, k)
  BY DEF Units, Header, IsHeader
<1>4. ASSUME InTransit(k) PROVE Has(Stream, k)
  <2>1. PICK i \in 1 .. Len(Traffic) : IsHeader(Traffic[i], k)
    BY <1>1, <1>3, <1>4 DEF InTransit
  <2>2. CASE i =< Len(net)
    <3>1. i \in 1 .. Len(net) /\ i + Len(sock) \in 1 .. Len(Stream)
      BY <1>1, <2>2
    <3>2. Traffic[i] = Stream[i + Len(sock)]
      BY <1>2, <3>1
    <3> QED BY <2>1, <3>1, <3>2 DEF Has
  <2>3. CASE i > Len(net)
    <3>1. i - Len(net) \in 1 .. Len(sock) /\ i = (i - Len(net)) + Len(net)
      BY <1>1, <2>3
    <3>2. Traffic[i] = Stream[i - Len(net)]
      BY <1>2, <3>1
    <3> QED BY <1>1, <2>1, <3>1, <3>2 DEF Has
  <2> QED BY <1>1, <2>2, <2>3
<1>5. ASSUME Has(Stream, k) PROVE InTransit(k)
  <2>1. PICK i \in 1 .. Len(Stream) : IsHeader(Stream[i], k)
    BY <1>5 DEF Has
  <2>2. \E j \in 1 .. Len(Traffic) : Traffic[j] = Stream[i]
    <3>1. CASE i =< Len(sock)
      BY <1>1, <1>2, <3>1
    <3>2. CASE i > Len(sock)
      <4>1. i - Len(sock) \in 1 .. Len(net) /\ i = (i - Len(sock)) + Len(sock)
        BY <1>1, <3>2
      <4>2. Stream[i] = Traffic[i - Len(sock)]
        BY <1>2, <4>1
      <4>3. i - Len(sock) \in 1 .. Len(Traffic)
        BY <1>1, <4>1
      <4> QED BY <4>2, <4>3
    <3> QED BY <1>1, <3>1, <3>2
  <2>3. PICK j \in 1 .. Len(Traffic) : IsHeader(Traffic[j], k)
    BY <2>1, <2>2
  <2>4. Traffic[j] \in Units
    BY <1>1
  <2> QED BY <1>3, <2>3, <2>4 DEF InTransit
<1> QED BY <1>4, <1>5

(* The second part of the invariant in the same steps: a receive.          *)
LEMMA RecvSane ==
  ASSUME Basic, Basic', SaneInv, NEW t \in Threads, Recv(t)
  PROVE  SaneInv'
<1> USE SessionAssumption
    DEF SaneInv, Whole, Sane, Working, Rest, LeftIsMid, OneAnswer,
        ChatsAreKept, Garbage, UnexpectedIsTorn, Basic, TypeOK, SocketOwner,
        HandIsPlaced, Asking, Mid, Holding, Threads, Answer, NoPacket,
        ListenerHolds, UserHolds, UserMayHold, local, network, At, Goto, Set,
        Reset
<1>1. CASE RecvNothing(t)
  BY <1>1 DEF RecvNothing
<1>2. CASE RecvHeader(t)
  <2>0. SUFFICES ASSUME Sane' PROVE Whole'
    OBVIOUS
  <2>1. /\ Sane /\ pc[t] = "recv" /\ hand[t] = NoPacket /\ sock # <<>>
        /\ left["listener"] = 0 /\ left["user"] = 0 /\ Rest = 0
        /\ UNCHANGED <<state, mutex, res, printed, torn, net, request,
                       sent>>
    BY <2>0, <1>2 DEF RecvHeader
  <2> DEFINE u == Stream[1]
  <2>2. /\ Stream \in Seq(Units) /\ Stream # <<>> /\ u = Head(sock)
        /\ Stream' = Tail(Stream) /\ Aligned(Stream, 0)
    BY <1>2, <2>1, StreamFacts DEF RecvHeader, Stream
  <2>3. u.part = "header" /\ u.kind \in Chats \cup {Answer}
        /\ u.len \in 0 .. BodyUnits
    <3>1. 1 \in 1 .. Len(Stream)
      BY ONLY <2>2
    <3>2. u.part = "header" /\ u.kind \in Chats \cup {Answer}
      BY ONLY <2>2, AlignedHeader
    <3>3. u.len \in 0 .. BodyUnits
      BY ONLY <2>2, <3>1, UnitTypes
    <3> QED BY <3>2, <3>3
  <2>4. /\ hand' = [hand EXCEPT ![t] = u.kind]
        /\ left' = [left EXCEPT ![t] = u.len]
        /\ pc' =
             [pc EXCEPT ![t] = IF u.len = 0 THEN Received(t) ELSE RecvMore(t)]
    <3>1. Head(sock).part = "header"
      BY ONLY <2>2, <2>3
    <3>2. \E k \in {Head(sock).kind}, n \in {Head(sock).len} :
            /\ hand' = [hand EXCEPT ![t] = k]
            /\ left' = [left EXCEPT ![t] = n]
            /\ Goto(t, IF n = 0 THEN Received(t) ELSE RecvMore(t))
      BY ONLY <1>2, <3>1 DEF RecvHeader
    <3> QED BY ONLY <2>2, <3>2 DEF Goto
  <2>5. u.kind \in Nat /\ u.kind # NoPacket /\ u.kind # Garbage
    BY ONLY <2>3, SessionAssumption DEF Chats, Answer, NoPacket, Garbage
  <2>6. Rest' = u.len
    BY <2>1, <2>3, <2>4
  <2>7. Aligned(Stream', Rest')
    BY ONLY <2>2, <2>6, AlignedHeader
  <2>8. LeftIsMid'
    BY <2>1, <2>3, <2>4, <2>5 DEF Received, RecvMore
  <2>9. /\ \A k : Has(Stream, k) <=> u.kind = k \/ Has(Stream', k)
        /\ Single(Stream')
        /\ u.kind = Answer => ~Has(Stream', Answer)
    BY <2>1, <2>2, AlignedHeader
  <2> HIDE DEF u
  <2>10. OneAnswer'
    BY <2>1, <2>4, <2>9 DEF Received, RecvMore
  <2>11. ChatsAreKept'
    BY <2>1, <2>4, <2>9
  <2> QED BY <2>7, <2>8, <2>10, <2>11
<1>3. CASE RecvBody(t)
  <2>0. SUFFICES ASSUME Sane' PROVE Whole'
    OBVIOUS
  <2> DEFINE n == Min({left[t], Len(sock)})
  <2>1. left[t] \in Nat /\ Len(sock) \in Nat
        /\ n \in 0 .. left[t] /\ n =< Len(sock)
    <3>1. left[t] \in Nat /\ Len(sock) \in Nat
      OBVIOUS
    <3> QED BY ONLY <3>1, MinOfTwo
  <2>2. /\ Sane /\ pc[t] = "recv" /\ hand[t] # NoPacket
        /\ left' = [left EXCEPT ![t] = @ - n]
        /\ sock' = SubSeq(sock, n + 1, Len(sock))
        /\ pc' = [pc EXCEPT ![t] = IF n = left[t] THEN Received(t) ELSE "peek"]
        /\ UNCHANGED <<state, mutex, res, hand, printed, torn, net, request,
                       sent>>
    BY <2>0, <1>3 DEF RecvBody
  <2> HIDE DEF n
  <2>3. \A o \in Threads \ {t} : left[o] = 0
    BY <2>2
  <2>4. left'[t] = left[t] - n /\ \A o \in Threads \ {t} : left'[o] = 0
    BY <2>2, <2>3
  <2>5. Rest = left[t] /\ Rest' = left[t] - n
    BY ONLY <2>1, <2>3, <2>4, t \in Threads DEF Rest, Threads
  <2>6. Stream \in Seq(Units) /\ Aligned(Stream, left[t])
    <3>1. Aligned(Stream, Rest) /\ sock \in Seq(Units) /\ net \in Seq(Units)
      BY <2>2
    <3> QED BY ONLY <2>5, <3>1, StreamFacts
  <2>7. Stream' = SubSeq(Stream, n + 1, Len(Stream))
    <3>1. sock \in Seq(Units) /\ net \in Seq(Units) /\ n \in 0 .. Len(sock)
      BY <2>1
    <3>2. Stream' = SubSeq(sock, n + 1, Len(sock)) \o net
      BY <2>2 DEF Stream
    <3> QED BY ONLY <3>1, <3>2, StreamFacts
  <2>8. /\ Aligned(Stream', Rest') /\ \A k : Has(Stream', k) <=> Has(Stream, k)
        /\ Single(Stream) => Single(Stream')
    BY ONLY <2>1, <2>5, <2>6, <2>7, AlignedSkip
  <2>9. LeftIsMid'
    <3>1. left'[t] # 0 <=> n # left[t]
      BY ONLY <2>1, <2>4
    <3>2. pc'[t] \in Mid(t) <=> n # left[t]
      BY <2>2 DEF Received
    <3>3. \A o \in Threads \ {t} : pc'[o] = pc[o] /\ hand'[o] = hand[o]
      BY <2>2
    <3>4. hand'[t] # NoPacket
      BY <2>2
    <3>5. \A o \in Threads \ {t} : ~(pc[o] \in Mid(o) /\ hand[o] # NoPacket)
      BY <2>2, <2>3
    <3>6. \A o \in Threads : hand'[o] # Garbage
      BY <2>2
    <3> QED BY ONLY <2>4, <3>1, <3>2, <3>3, <3>4, <3>5, <3>6
        DEF LeftIsMid, NoPacket, Garbage
  <2>10. OneAnswer'
    BY <2>2, <2>8 DEF Received
  <2>11. ChatsAreKept'
    BY <2>2, <2>8
  <2> QED BY <2>8, <2>9, <2>10, <2>11
<1>4. CASE SocketPeek(t)
  BY <1>4 DEF SocketPeek, RecvMore, Stream
<1> QED BY <1>1, <1>2, <1>3, <1>4 DEF Recv

(* ListenForChats.                                                         *)
LEMMA ListenerSane ==
  ASSUME Basic, Basic', SaneInv, Listener
  PROVE  SaneInv'
<1> USE SessionAssumption
    DEF SaneInv, Whole, Sane, Working, Rest, LeftIsMid, OneAnswer,
        ChatsAreKept, Garbage, UnexpectedIsTorn, Basic, TypeOK, SocketOwner,
        HandIsPlaced, Asking, Mid, Holding, Threads, Answer, NoPacket,
        ListenerHolds, UserHolds, UserMayHold, local, network, At, Goto, Set,
        Reset
<1>1. CASE ListenerLoop
  BY <1>1 DEF ListenerLoop, Stream
<1>2. CASE ListenerWaitIdle
  BY <1>2 DEF ListenerWaitIdle, Stream
<1>3. CASE ListenerWaitRead
  BY <1>3 DEF ListenerWaitRead, Stream
<1>4. CASE ListenerResetRead
  BY <1>4 DEF ListenerResetRead, Stream
<1>5. CASE ListenerWaitSocket
  <2>1. UNCHANGED <<local, network, sock, state>> /\ pc["listener"] = "waitSocket"
    BY <1>5 DEF ListenerWaitSocket
  <2>2. Stream' = Stream /\ Rest' = Rest /\ (Sane' <=> Sane)
    BY <2>1 DEF Stream
  <2>3. pc' \in {[pc EXCEPT !["listener"] = p] : p \in {"recv", "top", "fail"}}
    BY <1>5 DEF ListenerWaitSocket
  <2>4. LeftIsMid => LeftIsMid'
    BY <2>1, <2>3
  <2>5. OneAnswer => OneAnswer'
    BY <2>1, <2>2, <2>3
  <2>6. ChatsAreKept => ChatsAreKept'
    BY <2>1, <2>2
  <2> QED BY ONLY SaneInv, <2>2, <2>4, <2>5, <2>6 DEF SaneInv
<1>6. CASE ListenerRelease
  BY <1>6 DEF ListenerRelease, Stream
<1>7. CASE ListenerResetAgain
  BY <1>7 DEF ListenerResetAgain, Stream
<1>8. CASE ListenerPrint
  <2>0. SUFFICES ASSUME Sane' PROVE Whole'
    OBVIOUS
  <2>1. /\ Sane /\ pc["listener"] = "print"
        /\ hand' = [hand EXCEPT !["listener"] = NoPacket]
        /\ printed' = printed \cup ({hand["listener"]} \cap Chats)
        /\ UNCHANGED <<state, mutex, res, left, torn, sock, net, request,
                       sent>>
    BY <2>0, <1>8 DEF ListenerPrint
  <2>2. Stream' = Stream /\ Rest' = Rest
    BY <2>1 DEF Stream
  <2>3. ChatsAreKept'
    <3>1. SUFFICES ASSUME NEW i \in 1 .. sent
                   PROVE  \/ Has(Stream', i) \/ i \in printed'
                          \/ \E t \in Threads : hand'[t] = i
      BY <2>1
    <3>2. Has(Stream, i) \/ i \in printed \/ \E t \in Threads : hand[t] = i
      BY <2>1
    <3>3. i \in Chats
      BY DEF Chats
    <3> QED BY <2>1, <2>2, <3>2, <3>3
  <2>4. LeftIsMid'
    BY <2>1, <1>8 DEF ListenerPrint
  <2>5. OneAnswer'
    BY <2>1, <2>2, <1>8 DEF ListenerPrint
  <2> QED BY <2>1, <2>2, <2>3, <2>4, <2>5
<1>9. CASE ListenerFail
  BY <1>9 DEF ListenerFail, Stream
<1>10. CASE ListenerFailSignal
  BY <1>10 DEF ListenerFailSignal, Stream
<1>11. CASE Recv("listener")
  BY <1>11, RecvSane
<1> QED BY <1>1, <1>2, <1>3, <1>4, <1>5, <1>6, <1>7, <1>8, <1>9, <1>10, <1>11
    DEF Listener

(* UserListen and wmain.                                                   *)
LEMMA UserSane ==
  ASSUME Basic, Basic', SaneInv, User
  PROVE  SaneInv'
<1> USE SessionAssumption
    DEF SaneInv, Whole, Sane, Working, Rest, LeftIsMid, OneAnswer,
        ChatsAreKept, Garbage, UnexpectedIsTorn, Basic, TypeOK, SocketOwner,
        HandIsPlaced, Asking, Mid, Holding, Threads, Answer, NoPacket,
        ListenerHolds, UserHolds, UserMayHold, local, network, At, Goto, Set,
        Reset
<1>1. CASE UserLoop
  BY <1>1 DEF UserLoop, Stream
<1>2. CASE UserSetWaiting
  BY <1>2 DEF UserSetWaiting, Stream
<1>3. CASE UserWaitMutex
  BY <1>3 DEF UserWaitMutex, Stream
<1>4. CASE UserResetWaiting
  BY <1>4 DEF UserResetWaiting, Stream
<1>5. CASE UserSetFinished
  BY <1>5 DEF UserSetFinished, Stream
<1>6. CASE UserSend
  BY <1>6 DEF UserSend, Stream
<1>7. CASE UserSendFails
  BY <1>7 DEF UserSendFails, Stream
<1>8. CASE UserAnswerLoop
  BY <1>8 DEF UserAnswerLoop, Stream
<1>9. CASE UserWaitRecv
  BY <1>9 DEF UserWaitRecv, Stream
<1>10. CASE UserTimeout
  BY <1>10 DEF UserTimeout, Stream
<1>11. CASE UserResetRecv
  BY <1>11 DEF UserResetRecv, Stream
<1>12. CASE UserResetTimeout
  BY <1>12 DEF UserResetTimeout, Stream
<1>13. CASE UserReceived
  <2>0. SUFFICES ASSUME Sane' PROVE Whole'
    OBVIOUS
  <2>1. /\ Sane /\ pc["user"] = "received"
        /\ hand' = [hand EXCEPT !["user"] = NoPacket]
        /\ printed' = printed \cup ({hand["user"]} \cap Chats)
        /\ UNCHANGED <<state, mutex, res, left, torn, sock, net, request,
                       sent>>
    BY <2>0, <1>13 DEF UserReceived
  <2>2. Stream' = Stream /\ Rest' = Rest
    BY <2>1 DEF Stream
  <2>3. ChatsAreKept'
    <3>1. SUFFICES ASSUME NEW i \in 1 .. sent
                   PROVE  \/ Has(Stream', i) \/ i \in printed'
                          \/ \E t \in Threads : hand'[t] = i
      BY <2>1
    <3>2. Has(Stream, i) \/ i \in printed \/ \E t \in Threads : hand[t] = i
      BY <2>1
    <3>3. i \in Chats
      BY DEF Chats
    <3> QED BY <2>1, <2>2, <3>2, <3>3
  <2>4. LeftIsMid'
    BY <2>1, <1>13 DEF UserReceived
  <2>5. OneAnswer'
    <3>1. hand["user"] # NoPacket /\ hand["user"] # Garbage
      BY <2>1
    <3>2. hand["user"] \in Chats \/ hand["user"] = Answer
      <4>1. hand["user"] \in 0 .. NoPacket
        OBVIOUS
      <4> QED BY ONLY <3>1, <4>1, SessionAssumption
          DEF Chats, Answer, Garbage, NoPacket
    <3>3. /\ hand["user"] \in Chats => pc' = [pc EXCEPT !["user"] = "answer"]
          /\ hand["user"] \notin Chats =>
               pc' = [pc EXCEPT !["user"] = "release"]
      BY <1>13 DEF UserReceived
    <3>4. CASE hand["user"] = Answer
      BY <2>1, <2>2, <3>3, <3>4
    <3>5. CASE hand["user"] \in Chats
      BY <2>1, <2>2, <3>3, <3>5
    <3> QED BY <3>2, <3>4, <3>5
  <2> QED BY <2>1, <2>2, <2>3, <2>4, <2>5
<1>14. CASE UserRelease
  BY <1>14 DEF UserRelease, Stream
<1>15. CASE UserLeave
  BY <1>15 DEF UserLeave, Stream
<1>16. CASE UserLeaveSignal
  BY <1>16 DEF UserLeaveSignal, Stream
<1>17. CASE MainSignalsRead
  BY <1>17 DEF MainSignalsRead, Stream
<1>18. CASE MainJoins
  BY <1>18 DEF MainJoins, Stream
<1>19. CASE Recv("user")
  BY <1>19, RecvSane
<1> QED BY <1>1, <1>2, <1>3, <1>4, <1>5, <1>6, <1>7, <1>8, <1>9, <1>10, <1>11,
          <1>12, <1>13, <1>14, <1>15, <1>16, <1>17, <1>18, <1>19 DEF User

(* Everybody else.                                                         *)
LEMMA OtherSane ==
  ASSUME Basic, Basic', SaneInv,
         \/ Console \/ CtrlStop \/ CtrlSignal
         \/ ServerChat \/ ServerAnswer \/ Arrive
  PROVE  SaneInv'
<1> USE SessionAssumption
    DEF SaneInv, Whole, Sane, Working, Rest, LeftIsMid, OneAnswer,
        ChatsAreKept, Garbage, UnexpectedIsTorn, Basic, TypeOK, SocketOwner,
        HandIsPlaced, Asking, Mid, Holding, Threads, Answer, NoPacket,
        ListenerHolds, UserHolds, UserMayHold, local, network, At, Goto, Set,
        Reset
<1>0. sock \in Seq(Units) /\ net \in Seq(Units) /\ Rest \in Nat
  <2>1. TypeOK
    OBVIOUS
  <2> QED BY ONLY <2>1, SessionAssumption DEF TypeOK, Rest, Threads
<1>1. CASE UserCommand
  BY <1>1 DEF UserCommand, Stream
<1>2. CASE UserHelp
  BY <1>2 DEF UserHelp, Stream
<1>3. CASE UserConsoleEnds
  BY <1>3 DEF UserConsoleEnds, Stream
<1>4. CASE CtrlStop
  BY <1>4 DEF CtrlStop, Stream
<1>5. CASE CtrlSignal
  BY <1>5 DEF CtrlSignal, Stream
<1>6. CASE ServerChat
  <2>0. SUFFICES ASSUME Sane' PROVE Whole'
    OBVIOUS
  <2> DEFINE k == sent + 1  n == BodyUnits
  <2>1. /\ Sane /\ net' = net \o Packet(k, n)
        /\ k \in Chats \cup {Answer} /\ n \in 0 .. BodyUnits
        /\ UNCHANGED <<pc, state, mutex, res, hand, left, printed, torn, sock>>
    BY <2>0, <1>6 DEF ServerChat, Chats
  <2>2. k \in Chats /\ k # Answer /\ k = sent + 1
        /\ sent' = sent + 1 /\ UNCHANGED request
    BY <1>6 DEF ServerChat, Chats
  <2> HIDE DEF k, n
  <2>3. Stream \in Seq(Units) /\ Rest \in Nat /\ Aligned(Stream, Rest)
    <3>1. Aligned(Stream, Rest)
      BY <2>1
    <3> QED BY ONLY <1>0, <3>1, StreamFacts
  <2>4. Stream' = Stream \o Packet(k, n)
    <3>1. Stream' = sock \o (net \o Packet(k, n))
      BY <2>1 DEF Stream
    <3>2. Packet(k, n) \in Seq(Units)
      BY ONLY <2>1, PacketTypes
    <3> QED BY ONLY <1>0, <3>1, <3>2, StreamFacts
  <2>5. /\ Aligned(Stream', Rest)
        /\ \A j : Has(Stream', j) <=> Has(Stream, j) \/ j = k
        /\ Single(Stream) /\ (k # Answer \/ ~Has(Stream, Answer))
             => Single(Stream')
    BY ONLY <2>1, <2>3, <2>4, AlignedPacket
  <2>6. Rest' = Rest /\ LeftIsMid'
    BY <2>1
  <2>7. OneAnswer'
    <3>1. OneAnswer
      BY <2>1
    <3> QED BY ONLY <2>1, <2>2, <2>5, <3>1 DEF OneAnswer, Asking, Mid
  <2>8. ChatsAreKept'
    <3>1. ChatsAreKept
      BY <2>1
    <3>2. sent \in Nat /\ k = sent + 1
      BY <2>2
    <3>3. ASSUME NEW i \in 1 .. sent'
          PROVE  Has(Stream', i) \/ i \in printed' \/ \E t \in Threads : hand'[t] = i
      <4>1. i = k \/ i \in 1 .. sent
        BY ONLY <2>2, <3>2, <3>3
      <4> QED BY ONLY <2>1, <2>5, <3>1, <4>1 DEF ChatsAreKept
    <3> QED BY ONLY <3>3 DEF ChatsAreKept
  <2> QED BY <2>5, <2>6, <2>7, <2>8
<1>7. CASE ServerAnswer
  <2>0. SUFFICES ASSUME Sane' PROVE Whole'
    OBVIOUS
  <2> DEFINE k == Answer  n == IF request = "list" THEN BodyUnits ELSE 0
  <2>1. /\ Sane /\ net' = net \o Packet(k, n)
        /\ k \in Chats \cup {Answer} /\ n \in 0 .. BodyUnits
        /\ UNCHANGED <<pc, state, mutex, res, hand, left, printed, torn, sock>>
    BY <2>0, <1>7 DEF ServerAnswer, Chats
  <2>2. k = Answer /\ request # "none" /\ request' = "none" /\ UNCHANGED sent
    BY <1>7 DEF ServerAnswer, Chats
  <2> HIDE DEF k, n
  <2>3. Stream \in Seq(Units) /\ Rest \in Nat /\ Aligned(Stream, Rest)
    <3>1. Aligned(Stream, Rest)
      BY <2>1
    <3> QED BY ONLY <1>0, <3>1, StreamFacts
  <2>4. Stream' = Stream \o Packet(k, n)
    <3>1. Stream' = sock \o (net \o Packet(k, n))
      BY <2>1 DEF Stream
    <3>2. Packet(k, n) \in Seq(Units)
      BY ONLY <2>1, PacketTypes
    <3> QED BY ONLY <1>0, <3>1, <3>2, StreamFacts
  <2>5. /\ Aligned(Stream', Rest)
        /\ \A j : Has(Stream', j) <=> Has(Stream, j) \/ j = k
        /\ Single(Stream) /\ (k # Answer \/ ~Has(Stream, Answer))
             => Single(Stream')
    BY ONLY <2>1, <2>3, <2>4, AlignedPacket
  <2>6. Rest' = Rest /\ LeftIsMid'
    BY <2>1
  <2>7. OneAnswer'
    <3>1. OneAnswer
      BY <2>1
    <3> QED BY ONLY <2>1, <2>2, <2>5, <3>1 DEF OneAnswer, Asking, Mid
  <2>8. ChatsAreKept'
    BY <2>1, <2>2, <2>5
  <2> QED BY <2>5, <2>6, <2>7, <2>8
<1>8. CASE Arrive
  <2>1. Stream' = Stream
    <3>1. /\ sock \in Seq(Units) /\ net \in Seq(Units) /\ net # <<>>
          /\ sock' = Append(sock, Head(net)) /\ net' = Tail(net)
      BY <1>8 DEF Arrive
    <3> QED BY ONLY <3>1, StreamFacts DEF Stream
  <2> QED BY <2>1, <1>8 DEF Arrive
<1> QED BY <1>1, <1>2, <1>3, <1>4, <1>5, <1>6, <1>7, <1>8 DEF Console

-----------------------------------------------------------------------------
(* Together: an inductive invariant, which the initial state satisfies.    *)
LEMMA NextIInv == IInv /\ [Next]_vars => IInv'
<1> SUFFICES ASSUME IInv, [Next]_vars PROVE IInv'
  OBVIOUS
<1>1. CASE Listener
  BY <1>1, ListenerBasic, ListenerSane DEF IInv
<1>2. CASE User
  BY <1>2, UserBasic, UserSane DEF IInv
<1>3. CASE \/ Console \/ CtrlStop \/ CtrlSignal
           \/ ServerChat \/ ServerAnswer \/ Arrive
  BY <1>3, OtherBasic, OtherSane DEF IInv
<1>4. CASE UNCHANGED vars
  <2> USE <1>4 DEF IInv, vars, local, network
  <2>1. Basic'
    BY DEF Basic, TypeOK, SocketOwner, OwnerIsKnown, ListenerFailed,
           UnexpectedIsTorn, HandIsPlaced
  <2>2. SaneInv'
    BY DEF SaneInv, Whole, Sane, Working, LeftIsMid, Rest, Stream, OneAnswer,
           ChatsAreKept
  <2> QED BY <2>1, <2>2
<1> QED BY <1>1, <1>2, <1>3, <1>4 DEF Next

(* At the start nothing is under way.                                      *)
LEMMA InitIInv == Init => IInv
<1> SUFFICES ASSUME Init PROVE IInv
  OBVIOUS
<1>1. Basic
  BY InitBasic
<1>2. Stream = <<>> /\ Len(Stream) = 0 /\ Rest = 0
  BY DEF Init, Stream, Rest, Threads
<1>3. Aligned(Stream, Rest) /\ Single(Stream) /\ ~Has(Stream, Answer)
  BY <1>2 DEF Aligned, Single, Has
<1>4. LeftIsMid
  BY SessionAssumption DEF Init, LeftIsMid, Threads, NoPacket, Garbage
<1>5. OneAnswer
  BY <1>3, SessionAssumption
  DEF Init, OneAnswer, Asking, Mid, Threads, Answer, NoPacket
<1>6. ChatsAreKept
  BY DEF Init, ChatsAreKept
<1> QED BY <1>1, <1>3, <1>4, <1>5, <1>6 DEF IInv, SaneInv, Whole

(* Every reachable state satisfies the invariant.                          *)
THEOREM Invariant == Spec => []IInv
<1> QED BY InitIInv, NextIInv, PTL DEF Spec

-----------------------------------------------------------------------------
(* Every variable of the client keeps its type.                            *)
THEOREM TypeCorrect == Spec => []TypeOK
<1>1. IInv => TypeOK
  BY DEF IInv, Basic
<1> QED BY Invariant, <1>1, PTL

(* SOCKET_MUTEX is with the thread that is at work on the socket, and      *)
(* every return of BlockingRecv, HandleSrvReturn and the commands gives    *)
(* back what its thread holds and no more.                                 *)
THEOREM MutexIsGivenBack == Spec => []SocketOwner
<1>1. IInv => SocketOwner
  BY DEF IInv, Basic
<1> QED BY Invariant, <1>1, PTL

(* In a working client that gave no packet up the listener takes no answer *)
(* for a chat, and HandleSrvReturn leaves no answer behind for the next    *)
(* command.                                                                *)
THEOREM AnswersAreTheAskers == Spec => []AskerGetsAnswerUnlessTorn
<1>1. IInv => AskerGetsAnswerUnlessTorn
  <2> SUFFICES ASSUME IInv, Sane PROVE Answered
    BY DEF AskerGetsAnswerUnlessTorn, Sane
  <2>1. OneAnswer
    BY DEF IInv, SaneInv, Whole
  <2>2. InTransit(Answer) <=> Has(Stream, Answer)
    BY TransitIsStream, SessionAssumption DEF IInv, Basic, TypeOK, Answer
  <2> QED BY <2>1, <2>2 DEF OneAnswer, Answered, Asking, Mid
<1> QED BY Invariant, <1>1, PTL

(* In such a client every chat the server sent is in transit, in the hands *)
(* of one of the two threads, or on the console.                           *)
THEOREM ChatsAreNotLost == Spec => []NoChatIsLost
<1>1. IInv => NoChatIsLost
  <2> SUFFICES ASSUME IInv, Sane, NEW i \in 1 .. sent
               PROVE  \/ InTransit(i) \/ i \in printed
                      \/ \E t \in Threads : hand[t] = i
    BY DEF NoChatIsLost, Sane
  <2>1. Has(Stream, i) \/ i \in printed \/ \E t \in Threads : hand[t] = i
    BY DEF IInv, SaneInv, Whole, ChatsAreKept
  <2>2. InTransit(i) <=> Has(Stream, i)
    BY TransitIsStream, SessionAssumption DEF IInv, Basic, TypeOK
  <2> QED BY <2>1, <2>2
<1> QED BY Invariant, <1>1, PTL

=============================================================================
