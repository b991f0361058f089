-------------------------- MODULE PacketPartsProofs --------------------------
(* Proofs about PacketParts, and about the send queue of MsgQueue: every   *)
(* offset and length is of its type, the nodes of the queue are a list     *)
(* linked both ways, whose data are the messages that were not sent, what  *)
(* is on the wire is the packets in order, and what is read of it is what  *)
(* was given.                                                              *)
EXTENDS PacketParts, SequenceTheorems, FiniteSetTheorems, TLAPS

----------------------------------------------------------------------------
(* Induction, for the lists that are followed or joined.                   *)

(* A set of naturals that is not empty has a least element.                *)
LEMMA LeastElement ==
  ASSUME NEW S \in SUBSET Nat, S # {}
  PROVE  \E m \in S : \A n \in S : m =< n
<1> DEFINE R == {ss \in Nat \X Nat : ss[1] < ss[2]}
<1>1. R = OpToRel(<, Nat)
  BY DEF OpToRel
<1>2. IsWellFoundedOn(R, Nat)
  BY <1>1, NatLessThanWellFounded
<1>3. \E m \in S : \A n \in S : ~(<<n, m>> \in R)
  <2> HIDE DEF R
  <2> QED BY <1>2, WFMin
<1>4. PICK m \in S : \A n \in S : ~(<<n, m>> \in R)
  BY <1>3
<1>5. ASSUME NEW n \in S PROVE m =< n
  <2>1. m \in Nat /\ n \in Nat
    OBVIOUS
  <2>2. n < m => <<n, m>> \in R
    BY <2>1
  <2> QED BY <1>4, <1>5, <2>1, <2>2
<1> QED BY <1>5

(* A set with 0 and the successor of each of its members has every natural *)
(* number.                                                                 *)
LEMMA InductionOnNat ==
  ASSUME NEW S \in SUBSET Nat, 0 \in S, \A n \in S : n + 1 \in S
  PROVE  S = Nat
<1> SUFFICES ASSUME Nat \ S # {} PROVE FALSE
  OBVIOUS
<1>1. PICK m \in Nat \ S : \A n \in Nat \ S : m =< n
  BY LeastElement
<1>2. m # 0 /\ m - 1 \in Nat
  BY <1>1
<1>3. m - 1 \in S
  BY <1>1, <1>2
<1> QED BY <1>1, <1>2, <1>3

(* The concatenation of lists over S is made by joining one after another. *)
Joins(f, c, seqs, S) ==
  \A i \in 1 .. c : /\ f[i] \in Seq(S)
                    /\ f[i] = IF i = 1 THEN seqs[i] ELSE f[i - 1] \o seqs[i]

(* FlattenSeq makes its joins in that order.                               *)
LEMMA FlattenSteps ==
  ASSUME NEW S, NEW c \in Nat \ {0}, NEW seqs \in [1 .. c -> Seq(S)]
  PROVE  \E f : Joins(f, c, seqs, S) /\ FlattenSeq(seqs) = f[c]
<1> DEFINE Lists == Seq(S)
           Body(f, k) == [i \in 1 .. k |-> IF i = 1 THEN seqs[i] ELSE f[i - 1] \o seqs[i]]
           Defined == {k \in Nat : \E f : f = Body(f, k)}
           flat == CHOOSE f : f = Body(f, Len(seqs))
           Typed == {k \in Nat : k + 1 \in 1 .. c => flat[k + 1] \in Lists}
<1>1. seqs \in Seq(Lists) /\ Len(seqs) = c
  <2> HIDE DEF Lists
  <2> QED BY DEF Lists
<1>2. 0 \in Defined
  <2>1. <<>> = Body(<<>>, 0)
    OBVIOUS
  <2> QED BY <2>1
<1>3. ASSUME NEW k \in Defined PROVE k + 1 \in Defined
  <2>1. PICK f : f = Body(f, k)
    OBVIOUS
  <2> DEFINE g == [i \in 1 .. (k + 1) |->
                     IF i = k + 1 THEN IF i = 1 THEN seqs[i] ELSE f[i - 1] \o seqs[i]
                     ELSE f[i]]
  <2>2. ASSUME NEW i \in 1 .. (k + 1) 
        PROVE g[i] = IF i = 1 THEN seqs[i] ELSE g[i - 1] \o seqs[i]
    <3>1. k \in Nat /\ i \in Nat
      OBVIOUS
    <3>2. CASE i = k + 1
      <4>1. i # 1 => i - 1 \in 1 .. (k + 1) /\ i - 1 # k + 1
        BY <3>1, <3>2
      <4>2. i # 1 => g[i - 1] = f[i - 1]
        BY <4>1
      <4> QED BY <3>2, <4>2
    <3>3. CASE i # k + 1
      <4>1. i \in 1 .. k
        BY <3>1, <3>3
      <4>2. g[i] = f[i]
        BY <3>3
      <4>3. i # 1 => i - 1 \in 1 .. (k + 1) /\ i - 1 # k + 1
        BY <3>1, <3>3
      <4>4. i # 1 => g[i - 1] = f[i - 1]
        BY <4>3
      <4>5. f[i] = IF i = 1 THEN seqs[i] ELSE f[i - 1] \o seqs[i]
        BY <2>1, <4>1, Zenon
      <4> QED BY <4>2, <4>4, <4>5, Zenon
    <3> QED BY <3>2, <3>3
  <2>3. g = Body(g, k + 1)
    <3> HIDE DEF g
    <3>1. g = [i \in 1 .. (k + 1) |-> g[i]]
      BY DEF g
    <3> QED BY <2>2, <3>1
  <2> HIDE DEF g
  <2>4. \E h : h = Body(h, k + 1)
    BY <2>3
  <2>5. k + 1 \in Nat
    OBVIOUS
  <2> QED BY <2>4, <2>5
<1>4. flat = Body(flat, Len(seqs))
  <2>1. Defined = Nat
    <3> HIDE DEF Defined
    <3>1. Defined \in SUBSET Nat
      BY DEF Defined
    <3> QED BY <1>2, <1>3, <3>1, InductionOnNat
  <2>2. \E f : f = Body(f, Len(seqs))
    BY <1>1, <2>1
  <2> QED BY <2>2
<1>5. FlattenSeq(seqs) = flat[c]
  BY <1>1 DEF FlattenSeq
<1>6. Typed = Nat
  <2> HIDE DEF flat
  <2> HIDE DEF Lists
  <2>1. 0 \in Typed
    BY <1>1, <1>4
  <2>2. ASSUME NEW k \in Typed PROVE k + 1 \in Typed
    <3> SUFFICES ASSUME k + 2 \in 1 .. c PROVE flat[k + 2] \in Lists
      OBVIOUS
    <3>1. k + 1 \in 1 .. c /\ k + 2 # 1 /\ (k + 2) - 1 = k + 1
      OBVIOUS
    <3>2. flat[k + 2] = flat[k + 1] \o seqs[k + 2]
      BY <1>1, <1>4, <3>1
    <3>3. flat[k + 1] \in Lists /\ seqs[k + 2] \in Lists
      BY <3>1 DEF Lists
    <3> QED BY <3>2, <3>3, ConcatProperties DEF Lists
  <2> HIDE DEF Typed
  <2>3. Typed \in SUBSET Nat
    BY DEF Typed
  <2> QED BY <2>1, <2>2, <2>3, InductionOnNat
<1>7. ASSUME NEW i \in 1 .. c
      PROVE  flat[i] \in Seq(S) /\ flat[i] = IF i = 1 THEN seqs[i] ELSE flat[i - 1] \o seqs[i]
  <2> HIDE DEF flat
  <2>1. i - 1 \in Nat /\ (i - 1) + 1 = i
    OBVIOUS
  <2>2. i - 1 \in Typed
    BY <1>6, <2>1
  <2>3. flat[i] \in Lists
    BY <2>1, <2>2
  <2>4. i \in 1 .. Len(seqs)
    BY <1>1
  <2>5. flat[i] = IF i = 1 THEN seqs[i] ELSE flat[i - 1] \o seqs[i]
    <3> HIDE DEF Lists
    <3> QED BY <1>4, <2>4, Zenon
  <2> QED BY <2>3, <2>5
<1> HIDE DEF flat
<1>8. Joins(flat, c, seqs, S)
  BY <1>7 DEF Joins
<1> QED BY <1>5, <1>8

(* So it is a list over S.                                                 *)
LEMMA FlattenType ==
  ASSUME NEW S, NEW c \in Nat \ {0}, NEW seqs \in [1 .. c -> Seq(S)]
  PROVE  FlattenSeq(seqs) \in Seq(S)
<1>1. PICK f : Joins(f, c, seqs, S) /\ FlattenSeq(seqs) = f[c]
  BY FlattenSteps
<1>2. c \in 1 .. c
  OBVIOUS
<1> QED BY <1>1, <1>2 DEF Joins

----------------------------------------------------------------------------
(* The queue as a list of nodes.                                           *)

(* A list of n nodes whose links of one kind lead from each node to the    *)
(* next is what Follow finds.                                              *)
Leads(q, n, p, a, link) ==
  /\ n \in Nat /\ p \in [1 .. n -> Nat]
  /\ Cardinality(DOMAIN q.node) = n
  /\ a = IF n = 0 THEN NULL ELSE p[1]
  /\ \A i \in 1 .. n : q.node[p[i]][link] = IF i = n THEN NULL ELSE p[i + 1]

(* What Follow finds from the first node of such a list: all of it.        *)
LEMMA FollowList ==
  ASSUME NEW q, NEW n, NEW p, NEW a, NEW link, Leads(q, n, p, a, link)
  PROVE  Follow(q, a, link) = p
<1>0. /\ n \in Nat /\ p \in [1 .. n -> Nat]
      /\ Cardinality(DOMAIN q.node) = n
      /\ a = IF n = 0 THEN NULL ELSE p[1]
      /\ \A i \in 1 .. n : q.node[p[i]][link] = IF i = n THEN NULL ELSE p[i + 1]
  BY Zenon DEF Leads
<1> USE <1>0
<1> DEFINE After(prefix) == IF prefix = <<>> THEN a ELSE q.node[Last(prefix)][link]
           Body(f) == [k \in Nat |-> IF k = 0 THEN <<>>
                         ELSE LET prefix == f[k - 1]
                                  next == After(prefix)
                              IN  IF next = NULL THEN prefix ELSE Append(prefix, next)]
           path == CHOOSE f : f = Body(f)
           First(k) == [i \in 1 .. k |-> p[i]]
           until(k) == IF k < n THEN k ELSE n
           Done == [k \in Nat |-> First(until(k))]
<1>1. NULL \notin Nat
  BY MsgQueueAssumption
<1>2. ASSUME NEW k \in 0 .. n
      PROVE  /\ First(k) \in Seq(Nat) /\ Len(First(k)) = k
             /\ First(k) = <<>> <=> k = 0
             /\ k # 0 => Last(First(k)) = p[k]
  <2>1. First(k) \in [1 .. k -> Nat]
    OBVIOUS
  <2>2. k # 0 => k \in 1 .. k /\ First(k)[k] = p[k]
    OBVIOUS
  <2> HIDE DEF First
  <2>3. First(k) \in Seq(Nat) /\ Len(First(k)) = k
    BY <2>1
  <2>4. First(k) = <<>> <=> k = 0
    BY <2>3, EmptySeq
  <2>5. k # 0 => Last(First(k)) = p[k]
    BY <2>2, <2>3 DEF Last
  <2> QED BY <2>3, <2>4, <2>5
<1>3. ASSUME NEW k \in 0 .. n
      PROVE  After(First(k)) = IF k = n THEN NULL ELSE p[k + 1]
  <2> HIDE DEF First
  <2>1. CASE k = 0
    <3>1. First(k) = <<>>
      BY <1>2, <2>1
    <3>2. n # 0 => p[k + 1] = p[1]
      BY <2>1
    <3> QED BY <2>1, <3>1, <3>2
  <2>2. CASE k # 0
    <3>1. First(k) # <<>>
      BY <1>2, <2>2, Zenon
    <3>2. Last(First(k)) = p[k]
      BY <1>2, <2>2, Zenon
    <3>3. k \in 1 .. n
      BY <2>2
    <3> QED BY <3>1, <3>2, <3>3
  <2> QED BY <2>1, <2>2
<1>4. ASSUME NEW k \in 0 .. (n - 1)
      PROVE  Append(First(k), p[k + 1]) = First(k + 1)
  <2>1. k \in 0 .. n /\ p[k + 1] \in Nat /\ k + 1 \in 0 .. n
    OBVIOUS
  <2>2. /\ Append(First(k), p[k + 1]) \in Seq(Nat)
        /\ Len(Append(First(k), p[k + 1])) = k + 1
        /\ \A i \in 1 .. k : Append(First(k), p[k + 1])[i] = p[i]
        /\ Append(First(k), p[k + 1])[k + 1] = p[k + 1]
    BY <1>2, <2>1, AppendProperties
  <2>3. \A i \in 1 .. (k + 1) : Append(First(k), p[k + 1])[i] = First(k + 1)[i]
    BY <2>2
  <2>4. First(k + 1) \in Seq(Nat) /\ Len(First(k + 1)) = k + 1
    BY <1>2, <2>1
  <2> HIDE DEF First
  <2> QED BY <2>2, <2>3, <2>4, SeqEqual
<1>5. ASSUME NEW k \in 0 .. n
      PROVE  (IF After(First(k)) = NULL THEN First(k) ELSE Append(First(k), After(First(k))))
               = First(until(k + 1))
  <2> HIDE DEF After, First
  <2>1. CASE k = n
    BY <1>3, <2>1
  <2>2. CASE k # n
    <3>1. k \in 0 .. (n - 1) /\ until(k + 1) = k + 1 /\ p[k + 1] \in Nat
      BY <2>2
    <3>2. After(First(k)) = p[k + 1] /\ After(First(k)) # NULL
      BY <1>1, <1>3, <2>2, <3>1
    <3> QED BY <1>4, <3>1, <3>2
  <2> QED BY <2>1, <2>2
<1>6. First(0) = <<>>
  OBVIOUS
<1>7. path = Body(path)
  <2>1. \A k \in Nat : k # 0 => Done[k - 1] = First(until(k - 1))
    OBVIOUS
  <2>2. ASSUME NEW k \in Nat
        PROVE  Done[k] = IF k = 0 THEN <<>>
                         ELSE IF After(Done[k - 1]) = NULL THEN Done[k - 1]
                         ELSE Append(Done[k - 1], After(Done[k - 1]))
    <3> HIDE DEF After, First
    <3>1. CASE k = 0
      <4>1. Done[0] = First(0)
        OBVIOUS
      <4> QED BY <1>6, <3>1, <4>1
    <3>2. CASE k # 0
      <4>1. until(k - 1) \in 0 .. n
        BY <3>2
      <4>2. until(until(k - 1) + 1) = until(k)
        BY <3>2
      <4>3. Done[k] = First(until(k)) /\ Done[k - 1] = First(until(k - 1))
        BY <2>1, <3>2
      <4> HIDE DEF Done, until
      <4>4. (IF After(Done[k - 1]) = NULL THEN Done[k - 1]
              ELSE Append(Done[k - 1], After(Done[k - 1]))) = First(until(k))
        BY <1>5, <4>1, <4>2, <4>3
      <4> QED BY <3>2, <4>3, <4>4
    <3> QED BY <3>1, <3>2
  <2>3. Done = Body(Done)
    <3>1. Done = [k \in Nat |-> Done[k]]
      OBVIOUS
    <3> HIDE DEF Done, After
    <3> QED BY <2>2, <3>1
  <2>4. \E f : f = Body(f)
    <3> HIDE DEF Done
    <3> QED BY <2>3
  <2> QED BY <2>4
<1> DEFINE Found == {k \in Nat : k =< n => path[k] = First(k)}
<1>8. Found = Nat
  <2> HIDE DEF path, First, After
  <2>1. 0 \in Found
    BY <1>6, <1>7
  <2>2. ASSUME NEW k \in Found PROVE k + 1 \in Found
    <3> SUFFICES ASSUME k + 1 =< n PROVE path[k + 1] = First(k + 1)
      OBVIOUS
    <3>1. k \in 0 .. n /\ path[k] = First(k) /\ until(k + 1) = k + 1
      OBVIOUS
    <3>2. k + 1 \in Nat /\ k + 1 # 0 /\ (k + 1) - 1 = k
      OBVIOUS
    <3>3. path[k + 1] = Body(path)[k + 1]
      BY <1>7, Zenon
    <3> HIDE DEF until
    <3>4. Body(path)[k + 1] = IF After(path[(k + 1) - 1]) = NULL THEN path[(k + 1) - 1] ELSE Append(path[(k + 1) - 1], After(path[(k + 1) - 1]))
      BY <3>2, Zenon
    <3>5. path[k + 1] = IF After(path[k]) = NULL THEN path[k] ELSE Append(path[k], After(path[k]))
      BY <3>2, <3>3, <3>4
    <3> QED BY <1>5, <3>1, <3>5
  <2> HIDE DEF Found
  <2>3. Found \in SUBSET Nat
    BY DEF Found
  <2> QED BY <2>1, <2>2, <2>3, InductionOnNat
<1>9. path[n] = p
  <2> HIDE DEF path
  <2>1. n \in Found
    BY <1>8
  <2>2. n =< n
    OBVIOUS
  <2>3. path[n] = First(n)
    BY <2>1, <2>2, Zenon
  <2> QED BY <2>3
<1>10. Follow(q, a, link) = path[Cardinality(DOMAIN q.node)]
  BY DEF Follow
<1> QED
  <2> HIDE DEF path
  <2> QED BY <1>9, <1>10

(* The nodes of a queue q are a list of n messages with the data d at the  *)
(* addresses p, from the head to the tail.  There may be other nodes.      *)
NodeOf(p, d, n, i) ==
  [data |-> d[i], prev |-> IF i = 1 THEN NULL ELSE p[i - 1],
   next |-> IF i = n THEN NULL ELSE p[i + 1]]

IsList(q, n, p, d) ==
  /\ q = [head |-> q.head, tail |-> q.tail, size |-> q.size, node |-> q.node]
  /\ q.size = n /\ n \in 0 .. (WORD_RANGE - 1)
  /\ p \in [1 .. n -> Nat] /\ \A i, j \in 1 .. n : p[i] = p[j] => i = j
  /\ \A i \in 1 .. n : p[i] \in DOMAIN q.node /\ q.node[p[i]] = NodeOf(p, d, n, i)
  /\ n # 0 => q.head = p[1] /\ q.tail = p[n]

(* The size of a list, and what its tail holds.                            *)
LEMMA ListFields ==
  ASSUME NEW q, NEW n, NEW p, NEW d, IsList(q, n, p, d)
  PROVE  /\ q.size = n /\ n \in Nat /\ n < WORD_RANGE /\ WORD_RANGE \in Nat \ {0, 1}
         /\ n # 0 => q.tail = p[n] /\ q.tail \in DOMAIN q.node /\ q.node[q.tail].data = d[n]
<1>1. q.size = n /\ n \in Nat /\ n < WORD_RANGE /\ WORD_RANGE \in Nat \ {0, 1}
  BY MsgQueueAssumption DEF IsList
<1>2. ASSUME n # 0 PROVE q.tail = p[n] /\ q.tail \in DOMAIN q.node /\ q.node[q.tail].data = d[n]
  <2>1. n \in 1 .. n
    BY <1>1, <1>2
  <2>2. q.tail = p[n] /\ p[n] \in DOMAIN q.node /\ q.node[p[n]] = NodeOf(p, d, n, n)
    BY <1>2, <2>1 DEF IsList
  <2> QED BY <2>2 DEF NodeOf
<1> QED BY <1>1, <1>2

(* An address that is not in use: there is always one (QueuePush).         *)
LEMMA FreshAddressExists ==
  ASSUME NEW q, IsFiniteSet(DOMAIN q.node)
  PROVE  FreshAddress(q) \in Nat \ DOMAIN q.node
<1> DEFINE D == DOMAIN q.node
           n == Cardinality(D) + 1
<1>1. Cardinality(D) \in Nat
  BY FS_CardinalityType
<1>2. ASSUME \A a \in 1 .. n : a \in D PROVE FALSE
  <2>1. 1 .. n \in SUBSET D
    BY <1>2
  <2> HIDE DEF D
  <2>2. Cardinality(1 .. n) =< Cardinality(D)
    BY <2>1, FS_Subset DEF D
  <2>3. Cardinality(1 .. n) = n
    <3>1. 1 \in Int /\ n \in Int /\ ~(1 > n) /\ n - 1 + 1 = n
      BY <1>1
    <3> QED BY <3>1, FS_Interval
  <2> QED BY <1>1, <2>2, <2>3
<1>3. \E a \in 1 .. n : a \notin D
  BY <1>2
<1>4. FreshAddress(q) \in 1 .. n /\ FreshAddress(q) \notin D
  BY <1>3, Zenon DEF FreshAddress
<1> QED BY <1>1, <1>4

(* The nodes after a push: one more, and the old head knows of it.         *)
Linked(q, a) == IF q.size = 0 THEN q.node ELSE [q.node EXCEPT ![q.head].prev = a]

IsPushed(q, n, e, a, r) ==
  /\ a \in Nat /\ a \notin DOMAIN q.node
  /\ r = [head |-> a, tail |-> IF n = 0 THEN a ELSE q.tail,
          size |-> (n + 1) % WORD_RANGE, node |-> r.node]
  /\ DOMAIN r.node = DOMAIN q.node \cup {a}
  /\ r.node[a] = [data |-> e, prev |-> NULL, next |-> IF n = 0 THEN NULL ELSE q.head]
  /\ \A b \in DOMAIN q.node : r.node[b] = Linked(q, a)[b] /\ r.node[b].data = q.node[b].data

(* QueuePush leaves such nodes behind (CreateQueueNode, Queue.c).          *)
LEMMA PushNodes ==
  ASSUME NEW q, NEW n, NEW p, NEW d, NEW e, IsList(q, n, p, d), IsFiniteSet(DOMAIN q.node)
  PROVE  IsPushed(q, n, e, FreshAddress(q), QueuePush(q, e))
<1> DEFINE a == FreshAddress(q)
           r == QueuePush(q, e)
           linked == Linked(q, a)
           new == [data |-> e, prev |-> NULL, next |-> IF n = 0 THEN NULL ELSE q.head]
           D == DOMAIN q.node
<1>1. /\ q.size = n /\ n \in Nat
      /\ \A i \in 1 .. n : p[i] \in D /\ q.node[p[i]] = NodeOf(p, d, n, i)
      /\ n # 0 => q.head = p[1] /\ q.tail = p[n]
  BY MsgQueueAssumption DEF IsList
<1>2. a \in Nat /\ a \notin D
  BY FreshAddressExists
<1> HIDE DEF a
<1>3. DOMAIN linked = D
  BY DEF Linked
<1>4. r = [head |-> a, tail |-> IF n = 0 THEN a ELSE q.tail, size |-> (n + 1) % WORD_RANGE,
           node |-> CreateQueueNode(linked, a, new)]
  BY <1>1 DEF QueuePush, Linked, a
<1> HIDE DEF r
<1>5. r.node = CreateQueueNode(linked, a, new)
  BY <1>4
<1>6. r = [head |-> a, tail |-> IF n = 0 THEN a ELSE q.tail, size |-> (n + 1) % WORD_RANGE,
           node |-> r.node]
  BY <1>4, <1>5
<1>7. DOMAIN r.node = D \cup {a} /\ r.node[a] = new
  <2> HIDE DEF new, linked
  <2> QED BY <1>3, <1>5 DEF CreateQueueNode
<1>8. ASSUME NEW b \in D PROVE r.node[b] = linked[b]
  <2> HIDE DEF new, linked
  <2> QED BY <1>2, <1>3, <1>5, <1>8 DEF CreateQueueNode
<1>9. ASSUME NEW b \in D PROVE r.node[b].data = q.node[b].data
  <2>1. linked[b].data = q.node[b].data
    <3>1. CASE q.size = 0
      BY <3>1 DEF Linked
    <3>2. CASE q.size # 0
      <4>1. q.head \in D /\ q.node[q.head] = NodeOf(p, d, n, 1)
        BY <1>1, <3>2
      <4>2. CASE b = q.head
        BY <3>2, <4>1, <4>2 DEF NodeOf, Linked
      <4>3. CASE b # q.head
        BY <3>2, <4>3 DEF Linked
      <4> QED BY <4>2, <4>3
    <3> QED BY <3>1, <3>2
  <2> QED BY <1>8, <2>1
<1> HIDE DEF linked
<1> QED BY <1>2, <1>6, <1>7, <1>8, <1>9 DEF a, r, linked, IsPushed

(* A list f of n elements with x in front of it.                           *)
InFront(n, x, f) == [i \in 1 .. (n + 1) |-> IF i = 1 THEN x ELSE f[i - 1]]

(* What QueuePush does to a list: the message is its first, at a new       *)
(* address.                                                                *)
LEMMA PushList ==
  ASSUME NEW q, NEW n, NEW p, NEW d, NEW e, IsList(q, n, p, d),
         IsFiniteSet(DOMAIN q.node), n + 1 < WORD_RANGE
  PROVE  IsList(QueuePush(q, e), n + 1, InFront(n, FreshAddress(q), p), InFront(n, e, d))
<1> DEFINE a == FreshAddress(q)
           r == QueuePush(q, e)
           pp == [i \in 1 .. (n + 1) |-> IF i = 1 THEN a ELSE p[i - 1]]
           dd == [i \in 1 .. (n + 1) |-> IF i = 1 THEN e ELSE d[i - 1]]
           linked == Linked(q, a)
           new == [data |-> e, prev |-> NULL, next |-> IF n = 0 THEN NULL ELSE q.head]
           D == DOMAIN q.node
<1>1. /\ q.size = n /\ n \in Nat /\ WORD_RANGE \in Nat /\ n < WORD_RANGE
      /\ p \in [1 .. n -> Nat] /\ \A i, j \in 1 .. n : p[i] = p[j] => i = j
      /\ \A i \in 1 .. n : p[i] \in D /\ q.node[p[i]] = NodeOf(p, d, n, i)
      /\ n # 0 => q.head = p[1] /\ q.tail = p[n]
  BY MsgQueueAssumption DEF IsList
<1>2. /\ a \in Nat /\ a \notin D
      /\ r = [head |-> a, tail |-> IF n = 0 THEN a ELSE q.tail,
              size |-> (n + 1) % WORD_RANGE, node |-> r.node]
      /\ DOMAIN r.node = D \cup {a} /\ r.node[a] = new
      /\ \A b \in D : r.node[b] = linked[b]
  <2> HIDE DEF a, r
  <2>1. IsPushed(q, n, e, a, r)
    BY PushNodes DEF a, r
  <2> QED BY <2>1, Zenon DEF IsPushed
<1> HIDE DEF a, r
<1>3. (n + 1) % WORD_RANGE = n + 1 /\ n + 1 \in 0 .. (WORD_RANGE - 1)
  BY <1>1
<1>4. pp \in [1 .. (n + 1) -> Nat] /\ \A i, j \in 1 .. (n + 1) : pp[i] = pp[j] => i = j
  <2>1. \A i \in 1 .. (n + 1) : i # 1 => i - 1 \in 1 .. n /\ pp[i] = p[i - 1]
    BY <1>1
  <2>2. pp[1] = a
    BY <1>1
  <2>3. pp \in [1 .. (n + 1) -> Nat]
    BY <1>1, <1>2, <2>1
  <2>4. ASSUME NEW i \in 1 .. (n + 1), NEW j \in 1 .. (n + 1), pp[i] = pp[j] PROVE i = j
    <3> HIDE DEF pp
    <3>1. \A k \in 1 .. (n + 1) : k # 1 => pp[k] \in D
      BY <1>1, <2>1
    <3>2. CASE i = 1 \/ j = 1
      BY <1>2, <2>2, <2>4, <3>1, <3>2
    <3>3. CASE i # 1 /\ j # 1
      <4>1. p[i - 1] = p[j - 1]
        BY <2>1, <2>4, <3>3
      <4>2. i - 1 = j - 1
        BY <1>1, <2>1, <3>3, <4>1
      <4> QED BY <4>2
    <3> QED BY <3>2, <3>3
  <2> QED BY <2>3, <2>4
<1>5. ASSUME NEW i \in 1 .. (n + 1)
       PROVE  pp[i] \in DOMAIN r.node /\ r.node[pp[i]] = NodeOf(pp, dd, n + 1, i)
  <2>1. pp[1] = a /\ dd[1] = e
    BY <1>1
  <2>2. CASE i = 1
    <3>1. NodeOf(pp, dd, n + 1, i) = [data |-> e, prev |-> NULL, next |-> IF n = 0 THEN NULL ELSE pp[2]]
      BY <1>1, <2>1, <2>2 DEF NodeOf
    <3>2. n # 0 => pp[2] = q.head
      BY <1>1
    <3>3. NodeOf(pp, dd, n + 1, i) = new
      BY <1>1, <3>1, <3>2
    <3> HIDE DEF pp, dd, new
    <3> QED BY <1>2, <2>1, <2>2, <3>3
  <2>3. CASE i # 1
    <3> DEFINE k == i - 1
    <3>1. k \in 1 .. n /\ pp[i] = p[k] /\ dd[i] = d[k] /\ n # 0 /\ q.size # 0
      BY <1>1, <2>3
    <3>2. p[k] \in D /\ q.node[p[k]] = NodeOf(p, d, n, k)
      BY <1>1, <3>1
    <3>3. (i = n + 1) = (k = n)
      BY <1>1
    <3>4. k # n => pp[i + 1] = p[k + 1]
      BY <1>1, <3>1
    <3>5. NodeOf(pp, dd, n + 1, i) = [data |-> d[k], prev |-> pp[k],
                                      next |-> IF k = n THEN NULL ELSE p[k + 1]]
      <4> HIDE DEF pp, dd
      <4> QED BY <2>3, <3>1, <3>3, <3>4 DEF NodeOf
    <3>6. r.node[pp[i]] = linked[p[k]]
      BY <1>2, <3>1, <3>2, Zenon
    <3>7. linked = [q.node EXCEPT ![q.head].prev = a]
      BY <3>1 DEF Linked
    <3>8. CASE k = 1
      <4>1. p[k] = q.head /\ pp[k] = a
        BY <1>1, <2>1, <3>1, <3>8
      <4>2. linked[p[k]] = [q.node[p[k]] EXCEPT !.prev = a]
        BY <3>2, <3>7, <4>1
      <4>3. linked[p[k]] = [data |-> d[k], prev |-> a, next |-> IF k = n THEN NULL ELSE p[k + 1]]
        BY <3>2, <4>2 DEF NodeOf
      <4> HIDE DEF pp, dd, linked
      <4> QED BY <1>2, <3>1, <3>2, <3>5, <3>6, <4>1, <4>3
    <3>9. CASE k # 1
      <4>1. p[k] # q.head
        BY <1>1, <3>1, <3>9
      <4>2. pp[k] = p[k - 1]
        BY <1>1, <3>1, <3>9
      <4>3. linked[p[k]] = q.node[p[k]]
        BY <3>2, <3>7, <4>1
      <4>4. linked[p[k]] = [data |-> d[k], prev |-> p[k - 1], next |-> IF k = n THEN NULL ELSE p[k + 1]]
        BY <3>2, <3>9, <4>3 DEF NodeOf
      <4> HIDE DEF pp, dd, linked
      <4> QED BY <1>2, <3>1, <3>2, <3>5, <3>6, <4>2, <4>4
    <3> QED BY <3>8, <3>9
  <2> QED BY <2>2, <2>3
<1>6. r.head = pp[1] /\ r.tail = pp[n + 1]
  BY <1>1, <1>2
<1>7. IsList(r, n + 1, pp, dd)
  <2> HIDE DEF pp, dd
  <2>1. r = [head |-> r.head, tail |-> r.tail, size |-> r.size, node |-> r.node] /\ r.size = n + 1
    BY <1>2, <1>3
  <2> QED BY <1>3, <1>4, <1>5, <1>6, <2>1 DEF IsList
<1> QED BY <1>7 DEF r, a, pp, dd, InFront

(* What QueuePopRemove does to a list: its last node is freed, and the     *)
(* data of every other node stay.                                          *)
LEMMA PopList ==
  ASSUME NEW q, NEW n, NEW p, NEW d, IsList(q, n, p, d), n # 0
  PROVE  LET r == QueuePopRemove(q)
         IN  /\ IsList(r, n - 1, [i \in 1 .. (n - 1) |-> p[i]], [i \in 1 .. (n - 1) |-> d[i]])
             /\ DOMAIN r.node = DOMAIN q.node \ {p[n]}
             /\ \A b \in DOMAIN r.node : r.node[b].data = q.node[b].data
<1> DEFINE r == QueuePopRemove(q)
           m == n - 1
           pp == [i \in 1 .. m |-> p[i]]
           dd == [i \in 1 .. m |-> d[i]]
           D == DOMAIN q.node
           rest == DestroyQueueNode(q.node, p[n])
<1>1. /\ q = [head |-> q.head, tail |-> q.tail, size |-> q.size, node |-> q.node]
      /\ q.size = n /\ n \in Nat \ {0} /\ m \in Nat /\ m \in 0 .. (WORD_RANGE - 1)
      /\ p \in [1 .. n -> Nat] /\ \A i, j \in 1 .. n : p[i] = p[j] => i = j
      /\ \A i \in 1 .. n : p[i] \in D /\ q.node[p[i]] = NodeOf(p, d, n, i)
      /\ q.head = p[1] /\ q.tail = p[n]
  BY MsgQueueAssumption DEF IsList
<1>2. DOMAIN rest = D \ {p[n]} /\ \A b \in D \ {p[n]} : rest[b] = q.node[b]
  BY DEF DestroyQueueNode
<1>3. pp \in [1 .. m -> Nat] /\ \A i, j \in 1 .. m : pp[i] = pp[j] => i = j
  BY <1>1
<1>4. CASE n = 1
  <2>1. r = [head |-> NULL, tail |-> NULL, size |-> 0, node |-> rest]
    BY <1>1, <1>4 DEF QueuePopRemove
  <2> HIDE DEF r, rest, pp, dd
  <2>2. IsList(r, m, pp, dd)
    <3>1. m = 0
      BY <1>4
    <3> QED BY <1>1, <1>3, <2>1, <3>1 DEF IsList
  <2>3. r.node = rest
    BY <2>1
  <2> QED BY <1>2, <2>2, <2>3 DEF r, pp, dd, m
<1>5. CASE n # 1
  <2> DEFINE t == p[m]
  <2>1. m \in 1 .. n /\ m # n /\ (m + 1) = n /\ n \in 1 .. n /\ m # 0 /\ n - 1 = m
    BY <1>1, <1>5
  <2>2. t \in D /\ t # p[n] /\ q.node[q.tail].prev = t
    <3>1. q.node[p[n]] = NodeOf(p, d, n, n)
      BY <1>1, <2>1
    <3>2. q.node[p[n]].prev = p[n - 1]
      BY <1>5, <3>1 DEF NodeOf
    <3> QED BY <1>1, <2>1, <3>2
  <2>3. r = [q EXCEPT !.tail = t, !.size = n - 1, !.node = [rest EXCEPT ![t].next = NULL]]
    BY <1>1, <1>5, <2>2 DEF QueuePopRemove
  <2>4. r = [head |-> q.head, tail |-> t, size |-> m, node |-> [rest EXCEPT ![t].next = NULL]]
    <3> HIDE DEF r, rest, t
    <3> QED BY <1>1, <2>3
  <2> DEFINE left == [rest EXCEPT ![t].next = NULL]
  <2>5. /\ DOMAIN left = D \ {p[n]}
        /\ \A b \in D \ {p[n]} : b # t => left[b] = q.node[b]
        /\ left[t] = [q.node[t] EXCEPT !.next = NULL]
    <3> HIDE DEF rest, t
    <3> QED BY <1>2, <2>2
  <2>6. q.node[t] = NodeOf(p, d, n, m)
    BY <1>1, <2>1
  <2>7. left[t] = [data |-> d[m], prev |-> IF m = 1 THEN NULL ELSE p[m - 1], next |-> NULL]
    <3> HIDE DEF left, t
    <3> QED BY <2>5, <2>6 DEF NodeOf
  <2>8. ASSUME NEW b \in D \ {p[n]} PROVE left[b].data = q.node[b].data
    <3>1. CASE b = t
      <4>1. q.node[t].data = d[m] /\ left[t].data = d[m]
        <5> HIDE DEF left, t
        <5> QED BY <2>6, <2>7 DEF NodeOf
      <4> QED BY <3>1, <4>1
    <3>2. CASE b # t
      BY <2>5, <3>2
    <3> QED BY <3>1, <3>2
  <2>9. ASSUME NEW i \in 1 .. m PROVE pp[i] \in DOMAIN left /\ left[pp[i]] = NodeOf(pp, dd, m, i)
    <3>1. i \in 1 .. n /\ pp[i] = p[i] /\ dd[i] = d[i] /\ p[i] \in D \ {p[n]} /\ i # n
      BY <1>1, <2>1
    <3>2. i # 1 => i - 1 \in 1 .. m /\ pp[i - 1] = p[i - 1]
      BY <1>1, <2>1
    <3>3. i # m => i + 1 \in 1 .. m /\ pp[i + 1] = p[i + 1]
      BY <1>1, <2>1
    <3>4. NodeOf(pp, dd, m, i) = [data |-> d[i], prev |-> IF i = 1 THEN NULL ELSE p[i - 1],
                                  next |-> IF i = m THEN NULL ELSE p[i + 1]]
      <4> HIDE DEF pp, dd
      <4> QED BY <3>1, <3>2, <3>3 DEF NodeOf
    <3>5. CASE i = m
      <4> HIDE DEF left, pp, dd
      <4> QED BY <2>5, <2>7, <3>1, <3>4, <3>5
    <3>6. CASE i # m
      <4>1. p[i] # t /\ q.node[p[i]] = NodeOf(p, d, n, i)
        BY <1>1, <2>1, <3>1, <3>6
      <4>2. left[p[i]] = q.node[p[i]]
        BY <2>5, <3>1, <4>1
      <4> HIDE DEF left, pp, dd
      <4> QED BY <2>5, <3>1, <3>4, <3>6, <4>1, <4>2 DEF NodeOf
    <3> QED BY <3>5, <3>6
  <2>10. q.head = pp[1] /\ t = pp[m]
    BY <1>1, <2>1
  <2> HIDE DEF left, pp, dd
  <2>11. r = [head |-> q.head, tail |-> t, size |-> m, node |-> left]
    BY <2>4 DEF left
  <2> HIDE DEF r, t
  <2>12. IsList(r, m, pp, dd)
    <3>1. r = [head |-> r.head, tail |-> r.tail, size |-> r.size, node |-> r.node]
          /\ r.size = m /\ r.node = left /\ r.head = q.head /\ r.tail = t
      BY <2>11
    <3> QED BY <1>1, <1>3, <2>9, <2>10, <3>1 DEF IsList
  <2>13. r.node = left
    BY <2>11
  <2> QED BY <2>5, <2>8, <2>12, <2>13 DEF r, pp, dd, m
<1> QED BY <1>4, <1>5

(* Of a list with no other node, and with no head and no tail when it is   *)
(* empty, following the links gives its nodes in order and in reverse.     *)
IsWholeList(q, n, p, d) ==
  /\ IsList(q, n, p, d)
  /\ DOMAIN q.node = {p[i] : i \in 1 .. n}
  /\ n = 0 => q.head = NULL /\ q.tail = NULL

(* A list with no other node has as many nodes as messages.                *)
LEMMA WholeListCount ==
  ASSUME NEW q, NEW n, NEW p, NEW d, IsWholeList(q, n, p, d)
  PROVE  IsFiniteSet(DOMAIN q.node) /\ Cardinality(DOMAIN q.node) = n
<1> DEFINE D == DOMAIN q.node
<1>1. /\ n \in Nat /\ p \in [1 .. n -> Nat] /\ \A i, j \in 1 .. n : p[i] = p[j] => i = j
      /\ D = {p[i] : i \in 1 .. n}
  BY MsgQueueAssumption DEF IsWholeList, IsList
<1> HIDE DEF D
<1>2. p \in [1 .. n -> D] /\ \A b \in D : \E i \in 1 .. n : p[i] = b
  BY <1>1
<1>3. p \in Bijection(1 .. n, D)
  BY <1>1, <1>2 DEF Bijection, Injection, Surjection, IsInjective
<1>4. ExistsBijection(1 .. n, D)
  BY <1>3 DEF ExistsBijection
<1>5. IsFiniteSet(1 .. n) /\ Cardinality(1 .. n) = n
  <2>1. 1 \in Int /\ n \in Int /\ (IF 1 > n THEN 0 ELSE n - 1 + 1) = n
    BY <1>1
  <2> QED BY <2>1, FS_Interval
<1>6. IsFiniteSet(D) /\ Cardinality(D) = n
  BY <1>4, <1>5, FS_Bijection
<1> QED BY <1>6 DEF D

(* From the head along the next links: the list.                           *)
LEMMA FollowNext ==
  ASSUME NEW q, NEW n, NEW p, NEW d, IsWholeList(q, n, p, d)
  PROVE  Follow(q, q.head, "next") = p
<1>1. /\ n \in Nat /\ p \in [1 .. n -> Nat]
      /\ \A i \in 1 .. n : q.node[p[i]] = NodeOf(p, d, n, i)
      /\ q.head = IF n = 0 THEN NULL ELSE p[1]
  BY MsgQueueAssumption DEF IsWholeList, IsList
<1>2. Cardinality(DOMAIN q.node) = n
  BY WholeListCount
<1>3. ASSUME NEW i \in 1 .. n
      PROVE  q.node[p[i]]["next"] = IF i = n THEN NULL ELSE p[i + 1]
  <2>1. q.node[p[i]] = NodeOf(p, d, n, i)
    BY <1>1
  <2> QED BY <2>1 DEF NodeOf
<1>4. PICK link : link = "next"
  OBVIOUS
<1>5. PICK a : a = q.head
  OBVIOUS
<1>6. \A i \in 1 .. n : q.node[p[i]][link] = IF i = n THEN NULL ELSE p[i + 1]
  BY <1>3, <1>4
<1>7. a = IF n = 0 THEN NULL ELSE p[1]
  BY <1>1, <1>5
<1>8. Leads(q, n, p, a, link)
  BY <1>1, <1>2, <1>6, <1>7, Zenon DEF Leads
<1>9. Follow(q, a, link) = p
  BY <1>8, FollowList
<1> QED BY <1>4, <1>5, <1>9

(* From the tail along the prev links: the list in reverse.                *)
LEMMA FollowPrev ==
  ASSUME NEW q, NEW n, NEW p, NEW d, IsWholeList(q, n, p, d)
  PROVE  Follow(q, q.tail, "prev") = [i \in 1 .. n |-> p[(n - i) + 1]]
<1> DEFINE b == [i \in 1 .. n |-> p[(n - i) + 1]]
<1>1. /\ n \in Nat /\ p \in [1 .. n -> Nat]
      /\ \A i \in 1 .. n : q.node[p[i]] = NodeOf(p, d, n, i)
      /\ q.tail = IF n = 0 THEN NULL ELSE p[n]
  BY MsgQueueAssumption DEF IsWholeList, IsList
<1>2. Cardinality(DOMAIN q.node) = n
  BY WholeListCount
<1>3. ASSUME NEW i \in 1 .. n
      PROVE  q.node[b[i]]["prev"] = IF i = n THEN NULL ELSE b[i + 1]
  <2> DEFINE j == (n - i) + 1
  <2>1. j \in 1 .. n /\ b[i] = p[j] /\ (i = n) = (j = 1)
    BY <1>1
  <2>2. i # n => i + 1 \in 1 .. n /\ b[i + 1] = p[j - 1]
    BY <1>1
  <2>3. q.node[p[j]]["prev"] = IF j = 1 THEN NULL ELSE p[j - 1]
    <3> HIDE DEF j
    <3>1. q.node[p[j]] = NodeOf(p, d, n, j)
      BY <1>1, <2>1
    <3> QED BY <3>1 DEF NodeOf
  <2> HIDE DEF j, b
  <2> QED BY <2>1, <2>2, <2>3
<1>4. b \in [1 .. n -> Nat] /\ q.tail = IF n = 0 THEN NULL ELSE b[1]
  <2>1. \A i \in 1 .. n : (n - i) + 1 \in 1 .. n
    BY <1>1
  <2>2. b \in [1 .. n -> Nat]
    BY <1>1, <2>1
  <2>3. n # 0 => b[1] = p[n]
    BY <1>1
  <2> QED BY <1>1, <2>2, <2>3
<1> HIDE DEF b
<1>5. PICK link : link = "prev"
  OBVIOUS
<1>6. PICK a : a = q.tail
  OBVIOUS
<1>7. \A i \in 1 .. n : q.node[b[i]][link] = IF i = n THEN NULL ELSE b[i + 1]
  BY <1>3, <1>5
<1>8. a = IF n = 0 THEN NULL ELSE b[1]
  BY <1>4, <1>6
<1>9. Leads(q, n, b, a, link)
  BY <1>1, <1>2, <1>4, <1>7, <1>8, Zenon DEF Leads
<1>10. Follow(q, a, link) = b
  BY <1>9, FollowList
<1> QED BY <1>5, <1>6, <1>10 DEF b

(* A list with no other node is linked well both ways, and its data are    *)
(* read from the tail on (QueueData).                                      *)
LEMMA WholeListIsWellLinked ==
  ASSUME NEW q, NEW n, NEW p, NEW d, IsWholeList(q, n, p, d)
  PROVE  /\ WellLinked(q)
         /\ QueueData(q) = [k \in 1 .. n |-> d[(n - k) + 1]]
<1> DEFINE b == [i \in 1 .. n |-> p[(n - i) + 1]]
<1>1. /\ n \in Nat /\ p \in [1 .. n -> Nat] /\ DOMAIN q.node = {p[i] : i \in 1 .. n} /\ q.size = n
      /\ \A i \in 1 .. n : q.node[p[i]] = NodeOf(p, d, n, i)
  BY MsgQueueAssumption DEF IsWholeList, IsList
<1>2. Len(p) = n /\ DOMAIN p = 1 .. n
  BY <1>1
<1>3. Follow(q, q.head, "next") = p /\ Follow(q, q.tail, "prev") = b
  BY FollowNext, FollowPrev
<1>4. Reverse(p) = b
  BY <1>2 DEF Reverse
<1>5. ToSet(p) = DOMAIN q.node
  BY <1>1, <1>2 DEF ToSet
<1>6. WellLinked(q)
  <2> HIDE DEF b
  <2> QED BY <1>1, <1>2, <1>3, <1>4, <1>5 DEF WellLinked
<1>7. \A k \in 1 .. n : (n - k) + 1 \in 1 .. n
  BY <1>1
<1>8. b \in [1 .. n -> Nat] /\ Len(b) = n
  <2>1. b \in [1 .. n -> Nat]
    BY <1>1, <1>7
  <2> HIDE DEF b
  <2> QED BY <1>1, <2>1
<1>9. ASSUME NEW k \in 1 .. n PROVE q.node[b[k]].data = d[(n - k) + 1]
  <2> DEFINE j == (n - k) + 1
  <2>1. b[k] = p[j] /\ j \in 1 .. n
    BY <1>7
  <2> HIDE DEF b, j
  <2>2. q.node[p[j]] = NodeOf(p, d, n, j)
    BY <1>1, <2>1
  <2>3. q.node[b[k]].data = d[j]
    BY <2>1, <2>2 DEF NodeOf
  <2> QED BY <2>3 DEF j
<1>10. QueueData(q) = [k \in 1 .. n |-> q.node[b[k]].data]
  <2> HIDE DEF b
  <2> QED BY <1>3, <1>8 DEF QueueData
<1> HIDE DEF b
<1> QED BY <1>6, <1>9, <1>10

(* A queue that is destroyed has no nodes left.                            *)
LEMMA DestroyList ==
  ASSUME NEW q, NEW n, NEW p, NEW d, IsWholeList(q, n, p, d)
  PROVE  /\ QueueDestroy(q).node = [a \in {} |-> q.node[a]]
         /\ QueueDestroy(q).size = 0 /\ QueueDestroy(q).head = NULL /\ QueueDestroy(q).tail = NULL
<1>1. /\ n \in Nat /\ p \in [1 .. n -> Nat] /\ DOMAIN q.node = {p[i] : i \in 1 .. n} /\ q.size = n
  BY MsgQueueAssumption DEF IsWholeList, IsList
<1>2. p \in Seq(Nat) /\ Len(p) = n /\ DOMAIN p = 1 .. n
  BY <1>1
<1>3. SubSeq(Follow(q, q.head, "next"), 1, q.size) = p
  BY <1>1, <1>2, FollowNext, SubSeqFull
<1>4. ToSet(p) = DOMAIN q.node
  BY <1>1, <1>2 DEF ToSet
<1>5. DOMAIN q.node \ ToSet(SubSeq(Follow(q, q.head, "next"), 1, q.size)) = {}
  BY <1>3, <1>4
<1>6. QueueDestroy(q) = [QueueInit EXCEPT !.node = [a \in {} |-> q.node[a]]]
  BY <1>5 DEF QueueDestroy
<1> QED BY <1>6 DEF QueueInit

----------------------------------------------------------------------------
(* Bytes, memories and the places that buffers name.                       *)

Byte == 0 .. 255
IsMemory(mem) == \A o \in DOMAIN mem : mem[o] \in Byte

(* What is joined of any number of lists over S is a list over S.          *)
LEMMA FlattenAny ==
  ASSUME NEW S, NEW c \in Nat, NEW seqs \in [1 .. c -> Seq(S)]
  PROVE  FlattenSeq(seqs) \in Seq(S)
<1>1. CASE c # 0
  BY <1>1, FlattenType
<1>2. CASE c = 0
  <2>1. DOMAIN seqs = {} /\ seqs \in [1 .. 0 -> S]
    BY <1>2
  <2>2. seqs \in Seq(S) /\ Len(seqs) = 0
    BY <2>1
  <2> QED BY <2>2 DEF FlattenSeq
<1> QED BY <1>1, <1>2

(* A byte that is read from a memory is a byte (HEAP_ZERO_MEMORY).         *)
LEMMA AtType ==
  ASSUME NEW mem, IsMemory(mem), NEW i
  PROVE  At(mem, i) \in Byte
BY DEF At, IsMemory, Byte

(* The memory of a list of bytes.                                          *)
LEMMA MemoryType ==
  ASSUME NEW bytes \in Seq(Byte)
  PROVE  IsMemory(Memory(bytes))
<1>1. \A i \in 0 .. Len(bytes) - 1 : bytes[i + 1] \in Byte
  <2> HIDE DEF Byte
  <2>1. \A i \in 0 .. Len(bytes) - 1 : i + 1 \in 1 .. Len(bytes)
    OBVIOUS
  <2> QED BY <2>1, ElementOfSeq
<1> QED BY <1>1 DEF Memory, IsMemory

(* The places that the buffers of a packet name lie in the memories whose  *)
(* buffers are not empty.                                                  *)
LEMMA PlacesType ==
  ASSUME NEW bufs, NEW I \in SUBSET (1 .. 3),
         \A i \in 1 .. 3 : bufs[i] \in Bufs /\ (bufs[i].len # 0 => i \in I)
  PROVE  Places(bufs) \in Seq(I \X Nat)
<1> DEFINE S == I \X Nat
           n(i) == IF bufs[i].len < REACH THEN bufs[i].len ELSE REACH
           Named(i) == [k \in 1 .. n(i) |-> <<i, bufs[i].at + k - 1>>]
           named == [i \in 1 .. 3 |-> Named(i)]
<1>1. ASSUME NEW i \in 1 .. 3 PROVE Named(i) \in Seq(S)
  <2>1. bufs[i].at \in Nat /\ bufs[i].len \in Nat
    BY DEF Bufs
  <2>2. n(i) \in Nat /\ n(i) =< bufs[i].len
    BY <2>1 DEF REACH
  <2>3. \A k \in 1 .. n(i) : bufs[i].at + k - 1 \in Nat /\ i \in I
    BY <2>1, <2>2
  <2> HIDE DEF n
  <2>4. \A k \in 1 .. n(i) : <<i, bufs[i].at + k - 1>> \in S
    BY <2>3
  <2> HIDE DEF S
  <2>5. Named(i) \in [1 .. n(i) -> S]
    BY <2>4
  <2> HIDE DEF Named
  <2> QED BY <2>2, <2>5
<1> HIDE DEF S, Named
<1>2. named \in [1 .. 3 -> Seq(S)]
  BY <1>1
<1>3. FlattenSeq(named) \in Seq(S)
  BY <1>2, FlattenAny
<1> QED BY <1>3 DEF Places, named, Named, S

(* What is gathered from memories is bytes, one for each place.            *)
LEMMA GatherType ==
  ASSUME NEW mems, NEW bufs, \A i \in 1 .. 3 : IsMemory(mems[i]),
         \A i \in 1 .. 3 : bufs[i] \in Bufs
  PROVE  Gather(mems, bufs) \in Seq(Byte) /\ Len(Gather(mems, bufs)) = Len(Places(bufs))
<1> DEFINE place == Places(bufs)
<1>1. place \in Seq((1 .. 3) \X Nat)
  BY PlacesType
<1>2. \A k \in 1 .. Len(place) : place[k] \in (1 .. 3) \X Nat
  BY <1>1, ElementOfSeq
<1>3. DOMAIN place = 1 .. Len(place) /\ Len(place) \in Nat
  BY <1>1
<1> HIDE DEF place
<1>4. \A k \in 1 .. Len(place) : At(mems[place[k][1]], place[k][2]) \in Byte
  <2>1. \A k \in 1 .. Len(place) : place[k][1] \in 1 .. 3
    BY <1>2
  <2> HIDE DEF Byte
  <2> QED BY <2>1, AtType
<1>5. Gather(mems, bufs) = [k \in 1 .. Len(place) |-> At(mems[place[k][1]], place[k][2])]
  BY <1>3 DEF Gather, place
<1> HIDE DEF Byte
<1>6. Gather(mems, bufs) \in [1 .. Len(place) -> Byte]
  BY <1>4, <1>5
<1>7. Gather(mems, bufs) \in Seq(Byte) /\ Len(Gather(mems, bufs)) = Len(place)
  BY <1>3, <1>6
<1> QED BY <1>7 DEF place

(* The lengths of a message.                                               *)
LEMMA LengthsType ==
  ASSUME NEW m \in Messages
  PROVE  m \in 1 .. 7 /\ Lengths[m][1] \in 0 .. 3 /\ Lengths[m][2] \in 0 .. 3
<1>1. Lengths \in Seq((0 .. 3) \X (0 .. 3)) /\ Len(Lengths) < 8
  BY PacketPartsAssumption
<1>2. m \in 1 .. Len(Lengths)
  BY DEF Messages
<1>3. Lengths[m] \in (0 .. 3) \X (0 .. 3)
  BY <1>1, <1>2, ElementOfSeq
<1> QED BY <1>1, <1>2, <1>3

(* The characters of a body in the order of the network are a memory.      *)
LEMMA CharsMemory ==
  ASSUME NEW n \in Nat, NEW chars, DOMAIN chars = 1 .. n,
         \A k \in 1 .. n : chars[k][1] \in Byte /\ chars[k][2] \in Byte
  PROVE  IsMemory(Memory(FlattenSeq(WstrHostToNet(chars))))
<1>1. WstrHostToNet(chars) = [k \in 1 .. n |-> <<chars[k][2], chars[k][1]>>]
  BY DEF WstrHostToNet
<1> HIDE DEF Byte
<1>2. \A k \in 1 .. n : <<chars[k][2], chars[k][1]>> \in Seq(Byte)
  OBVIOUS
<1>3. WstrHostToNet(chars) \in [1 .. n -> Seq(Byte)]
  BY <1>1, <1>2
<1>4. FlattenSeq(WstrHostToNet(chars)) \in Seq(Byte)
  BY <1>3, FlattenAny
<1> QED BY <1>4, MemoryType

(* A message is bytes.                                                     *)
LEMMA MemoriesType ==
  ASSUME NEW m \in Messages, NEW i \in 1 .. 3
  PROVE  IsMemory(MemoriesOf(m)[i])
<1> DEFINE one == Lengths[m][1]
           two == Lengths[m][2]
           Chars(first, n) == [k \in 1 .. n |-> <<16 * m + first + k, 128 + 16 * m + first + k>>]
<1>1. m \in 1 .. 7 /\ one \in 0 .. 3 /\ two \in 0 .. 3
  BY LengthsType
<1> HIDE DEF one, two
<1>2. ASSUME NEW first \in 0 .. 3, NEW n \in 0 .. 3
      PROVE  IsMemory(Memory(FlattenSeq(WstrHostToNet(Chars(first, n)))))
  <2>1. DOMAIN Chars(first, n) = 1 .. n /\ n \in Nat
    OBVIOUS
  <2>2. ASSUME NEW k \in 1 .. n
        PROVE  Chars(first, n)[k][1] \in Byte /\ Chars(first, n)[k][2] \in Byte
    <3>1. Chars(first, n)[k] = <<16 * m + first + k, 128 + 16 * m + first + k>>
      OBVIOUS
    <3>2. 16 * m + first + k \in Byte /\ 128 + 16 * m + first + k \in Byte
      BY <1>1 DEF Byte
    <3> HIDE DEF Chars, Byte
    <3> QED BY <3>1, <3>2
  <2> HIDE DEF Chars
  <2> QED BY <2>1, <2>2, CharsMemory
<1>3. CharsOf(m).one = Chars(0, one) /\ CharsOf(m).two = Chars(one, two)
  BY DEF CharsOf, one, two
<1>4. IsMemory(Memory(<<1, 1, 1, 0, one, 0, two>>))
  <2>1. <<1, 1, 1, 0, one, 0, two>> \in Seq(Byte)
    BY <1>1 DEF Byte
  <2> QED BY <2>1, MemoryType
<1> HIDE DEF Chars
<1>5. MemoriesOf(m) = <<Memory(<<1, 1, 1, 0, one, 0, two>>),
                        Memory(FlattenSeq(WstrHostToNet(Chars(0, one)))),
                        Memory(FlattenSeq(WstrHostToNet(Chars(one, two))))>>
  BY <1>3 DEF MemoriesOf, one, two
<1>6. /\ IsMemory(Memory(FlattenSeq(WstrHostToNet(Chars(0, one)))))
      /\ IsMemory(Memory(FlattenSeq(WstrHostToNet(Chars(one, two)))))
  BY <1>1, <1>2
<1> QED BY <1>4, <1>5, <1>6

(* What a receive of bytes into memories leaves.                           *)
LEMMA ScatterType ==
  ASSUME NEW mems, NEW bufs, NEW bytes \in Seq(Byte),
         \A i \in 1 .. 3 : IsMemory(mems[i]), \A i \in 1 .. 3 : bufs[i] \in Bufs,
         Len(bytes) =< Len(Places(bufs))
  PROVE  /\ \A i \in 1 .. 3 : IsMemory(Scatter(mems, bufs, bytes)[i])
         /\ bufs[1].len = 0 =>
              \A o : At(Scatter(mems, bufs, bytes)[1], o) = At(mems[1], o)
<1> DEFINE place == SubSeq(Places(bufs), 1, Len(bytes))
           Touched(i) == {place[k][2] : k \in {j \in DOMAIN place : place[j][1] = i}}
           New(i, o) == bytes[CHOOSE k \in DOMAIN place : place[k] = <<i, o>>]
           After(i) == [o \in DOMAIN mems[i] \cup Touched(i) |->
                          IF o \in Touched(i) THEN New(i, o) ELSE mems[i][o]]
<1>1. \A i \in 1 .. 3 : Scatter(mems, bufs, bytes)[i] = After(i)
  BY DEF Scatter
<1>2. ASSUME NEW I \in SUBSET (1 .. 3), \A i \in 1 .. 3 : bufs[i].len # 0 => i \in I
      PROVE  /\ DOMAIN place = 1 .. Len(bytes)
             /\ \A k \in DOMAIN place : place[k] \in I \X Nat
  <2> DEFINE all == Places(bufs)
             S == I \X Nat
  <2>1. all \in Seq(S)
    BY <1>2, PlacesType
  <2>2. Len(bytes) \in Nat /\ \A k \in 1 .. Len(bytes) : k \in 1 .. Len(all)
    BY <2>1
  <2> HIDE DEF all, S
  <2>3. \A k \in 1 .. Len(bytes) : all[k] \in S
    BY <2>1, <2>2, ElementOfSeq
  <2>4. place \in Seq(S) /\ Len(place) = Len(bytes)
    BY <2>2, <2>3, SubSeqProperties DEF all
  <2> HIDE DEF place
  <2>5. \A k \in 1 .. Len(place) : place[k] \in S
    BY <2>4, ElementOfSeq
  <2>6. DOMAIN place = 1 .. Len(place)
    BY <2>4
  <2> QED BY <2>4, <2>5, <2>6 DEF S
<1>3. DOMAIN place = 1 .. Len(bytes) /\ \A k \in DOMAIN place : place[k] \in (1 .. 3) \X Nat
  BY <1>2
<1> HIDE DEF place
<1>4. ASSUME NEW i \in 1 .. 3, NEW o \in Touched(i) PROVE New(i, o) \in Byte
  <2>1. PICK k \in DOMAIN place : place[k][1] = i /\ place[k][2] = o
    OBVIOUS
  <2>2. place[k] = <<i, o>>
    BY <1>3, <2>1
  <2>3. (CHOOSE j \in DOMAIN place : place[j] = <<i, o>>) \in 1 .. Len(bytes)
    BY <1>3, <2>2
  <2> HIDE DEF Byte
  <2> QED BY <2>3, ElementOfSeq
<1> HIDE DEF New
<1>5. ASSUME NEW i \in 1 .. 3 PROVE IsMemory(After(i))
  <2> HIDE DEF Touched, Byte
  <2> QED BY <1>4 DEF IsMemory
<1>6. ASSUME bufs[1].len = 0, NEW o PROVE At(After(1), o) = At(mems[1], o)
  <2>1. \A k \in DOMAIN place : place[k] \in (2 .. 3) \X Nat
    <3>1. 2 .. 3 \in SUBSET (1 .. 3) /\ \A i \in 1 .. 3 : bufs[i].len # 0 => i \in 2 .. 3
      BY <1>6
    <3> QED BY <1>2, <3>1
  <2>2. Touched(1) = {}
    BY <2>1
  <2> HIDE DEF Touched
  <2> QED BY <2>2 DEF At
<1> HIDE DEF After
<1> QED BY <1>1, <1>5, <1>6

----------------------------------------------------------------------------
(* Types.                                                                  *)

(* A packet being received: its buffers lie in its memories, and the       *)
(* client that reads the bodies counts to what the header says.            *)
Phases == {"header", "headerPeek", "body", "bodyPeek", "torn"}
BodyInv(r) ==
  r.phase \in {"body", "bodyPeek"} =>
    /\ r.toMove = 2 * LenOne(r.mems) + 2 * LenTwo(r.mems)
    /\ r.bufs[1].len = 0

RcvInv(r) ==
  /\ r = [phase |-> r.phase, bufs |-> r.bufs, mems |-> r.mems, total |-> r.total,
          toMove |-> r.toMove]
  /\ r.phase \in Phases
  /\ r.bufs \in [1 .. 3 -> Bufs]
  /\ \A i \in 1 .. 3 : IsMemory(r.mems[i])
  /\ r.total \in Nat /\ r.toMove \in Nat
  /\ BodyInv(r)

(* A number of two bytes.                                                  *)
LEMMA NumberType ==
  ASSUME NEW mem, IsMemory(mem), NEW i
  PROVE  ntohs(mem, i) \in Nat
<1>1. PICK high \in Byte : high = At(mem, i)
  BY AtType
<1>2. PICK low \in Byte : low = At(mem, i + 1)
  BY AtType
<1>3. ntohs(mem, i) = 256 * high + low
  BY <1>1, <1>2, Zenon DEF ntohs
<1> QED BY <1>3 DEF Byte

(* A packet with other buffers.                                            *)
Rcv(phase, bufs, mems, total, toMove) ==
  [phase |-> phase, bufs |-> bufs, mems |-> mems, total |-> total, toMove |-> toMove]

(* To change one buffer is to change the buffers: the header goes on,      *)
LEMMA FirstBuf ==
  \A r, b : [r EXCEPT !.bufs[1] = b] = [r EXCEPT !.bufs = [r.bufs EXCEPT ![1] = b]]
OBVIOUS

(* the first body of a packet the client reads,                            *)
LEMMA SecondBuf ==
  \A r, b : [r EXCEPT !.bufs[2] = b] = [r EXCEPT !.bufs = [r.bufs EXCEPT ![2] = b]]
OBVIOUS

(* the second body of one,                                                 *)
LEMMA SecondAndThirdBuf ==
  \A r, b, c : [r EXCEPT !.bufs[2] = b, !.bufs[3] = c]
                  = [r EXCEPT !.bufs = [r.bufs EXCEPT ![2] = b, ![3] = c]]
OBVIOUS

(* the first body of a packet the server sends or receives,                *)
LEMMA NotFirstBuf ==
  \A r, b : [r EXCEPT !.bufs[1].len = 0, !.bufs[2] = b]
               = [r EXCEPT !.bufs = [r.bufs EXCEPT ![1].len = 0, ![2] = b]]
OBVIOUS

(* and the second body of one.                                             *)
LEMMA OnlyLastBuf ==
  \A r, b : [r EXCEPT !.bufs[1].len = 0, !.bufs[2].len = 0, !.bufs[3] = b]
               = [r EXCEPT !.bufs = [r.bufs EXCEPT ![1].len = 0, ![2].len = 0, ![3] = b]]
<1> TAKE r, b
<1> QED OBVIOUS

(* The same with another phase.                                            *)
LEMMA OtherPhase ==
  ASSUME NEW r, NEW p, NEW b
  PROVE  [r EXCEPT !.phase = p, !.bufs[1] = b]
           = [r EXCEPT !.phase = p, !.bufs = [r.bufs EXCEPT ![1] = b]]
<1> DEFINE s == [r EXCEPT !.phase = p]
<1>1. s.bufs = r.bufs
  OBVIOUS
<1>2. [r EXCEPT !.phase = p, !.bufs[1] = b] = [s EXCEPT !.bufs[1] = b]
  OBVIOUS
<1>3. [r EXCEPT !.phase = p, !.bufs = [r.bufs EXCEPT ![1] = b]]
        = [s EXCEPT !.bufs = [r.bufs EXCEPT ![1] = b]]
  OBVIOUS
<1> HIDE DEF s
<1>4. [s EXCEPT !.bufs[1] = b] = [s EXCEPT !.bufs = [s.bufs EXCEPT ![1] = b]]
  OBVIOUS
<1> QED BY <1>1, <1>2, <1>3, <1>4

(* What the lengths of a header are, and their sizes.                      *)
LEMMA LensType ==
  ASSUME NEW mems, \A i \in 1 .. 3 : IsMemory(mems[i])
  PROVE  LenOne(mems) \in Nat /\ LenTwo(mems) \in Nat
<1>1. ASSUME NEW i PROVE ntohs(mems[1], i) \in Nat
  BY NumberType
<1> QED BY <1>1 DEF LenOne, LenTwo

(* The size of a string in bytes, a WORD, is a natural number.             *)
LEMMA SizeType ==
  ASSUME NEW chars \in Nat
  PROVE  Size(chars) \in Nat
BY DEF Size

(* The buffers before one that goes on are empty.                          *)
OnlyLast(f, b) == [f EXCEPT ![1].len = 0, ![2].len = 0, ![3] = b]
NotFirst(f, b) == [f EXCEPT ![1].len = 0, ![2] = b]

(* Such buffers are of their type.                                         *)
LEMMA EmptiedBufs ==
  ASSUME NEW f \in [1 .. 3 -> Bufs], NEW b \in Bufs
  PROVE  NotFirst(f, b) \in [1 .. 3 -> Bufs] /\ OnlyLast(f, b) \in [1 .. 3 -> Bufs]
<1> DEFINE first == [f EXCEPT ![1].len = 0]
           second == [first EXCEPT ![2].len = 0]
<1>1. first \in [1 .. 3 -> Bufs]
  <2>1. [f[1] EXCEPT !.len = 0] \in Bufs
    BY DEF Bufs
  <2> QED BY <2>1
<1>2. NotFirst(f, b) = [first EXCEPT ![2] = b] /\ OnlyLast(f, b) = [second EXCEPT ![3] = b]
  BY DEF NotFirst, OnlyLast
<1> HIDE DEF first
<1>3. second \in [1 .. 3 -> Bufs]
  <2>1. [first[2] EXCEPT !.len = 0] \in Bufs
    BY <1>1 DEF Bufs
  <2> QED BY <1>1, <2>1
<1> HIDE DEF second
<1> QED BY <1>1, <1>2, <1>3

(* A packet of which nothing was read.                                     *)
LEMMA ResetType ==
  ASSUME NEW bufs
  PROVE  RcvInv(ResetChatRecv(bufs)) /\ ResetChatRecv(bufs).phase = "header"
<1> DEFINE r == ResetChatRecv(bufs)
<1>1. r = [phase |-> "header", bufs |-> HeaderBufs, mems |-> NewMemories,
           total |-> 0, toMove |-> 7]
  BY DEF ResetChatRecv, HEADER_LEN
<1>2. HeaderBufs \in [1 .. 3 -> Bufs]
  BY DEF HeaderBufs, Buf, Bufs, HEADER_LEN
<1>3. \A i \in 1 .. 3 : IsMemory(NewMemories[i])
  BY DEF NewMemories, IsMemory
<1> HIDE DEF r
<1>4. r.phase = "header" /\ r.bufs = HeaderBufs /\ r.mems = NewMemories /\ r.total = 0 /\ r.toMove = 7
  BY <1>1
<1>5. RcvInv(r)
  BY <1>1, <1>2, <1>3, <1>4 DEF RcvInv, BodyInv, Phases
<1> QED BY <1>4, <1>5 DEF r

(* What a receive leaves: its bytes are in the memories, and a header      *)
(* whose buffer is empty stays as it is.                                   *)
LEMMA MovedType ==
  ASSUME RcvInv(rcv), wire \in Seq(Byte), read \in 0 .. Len(wire), NEW n \in Arriving(rcv)
  PROVE  LET r == Moved(rcv, n)
         IN  /\ r = Rcv(rcv.phase, rcv.bufs, r.mems, r.total, rcv.toMove)
             /\ \A i \in 1 .. 3 : IsMemory(r.mems[i])
             /\ r.total \in Nat
             /\ rcv.bufs[1].len = 0 => LenOne(r.mems) = LenOne(rcv.mems)
                                       /\ LenTwo(r.mems) = LenTwo(rcv.mems)
             /\ n \in Nat \ {0} /\ read + n \in 0 .. Len(wire)
<1> DEFINE bytes == SubSeq(wire, read + 1, read + n)
           r == Moved(rcv, n)
           room == Len(Places(rcv.bufs))
<1>1. /\ rcv = [phase |-> rcv.phase, bufs |-> rcv.bufs, mems |-> rcv.mems, total |-> rcv.total,
                toMove |-> rcv.toMove]
      /\ \A i \in 1 .. 3 : rcv.bufs[i] \in Bufs
      /\ \A i \in 1 .. 3 : IsMemory(rcv.mems[i])
      /\ rcv.total \in Nat
  BY DEF RcvInv
<1>2. room \in Nat
  <2>1. Places(rcv.bufs) \in Seq((1 .. 3) \X Nat)
    BY <1>1, PlacesType
  <2> QED BY <2>1
<1> HIDE DEF room
<1>3. Len(wire) \in Nat /\ read \in Nat /\ read =< Len(wire)
  OBVIOUS
<1>4. n \in Nat \ {0} /\ n =< room /\ read + n =< Len(wire)
  BY <1>2, <1>3 DEF Arriving, room
<1>5. bytes \in Seq(Byte) /\ Len(bytes) = n
  <2>1. \A i \in (read + 1) .. (read + n) : wire[i] \in Byte
    <3> HIDE DEF Byte
    <3>1. \A i \in (read + 1) .. (read + n) : i \in 1 .. Len(wire)
      BY <1>3, <1>4
    <3> QED BY <3>1, ElementOfSeq
  <2>2. read + 1 \in Int /\ read + n \in Int
        /\ (IF read + 1 =< read + n THEN (read + n) - (read + 1) + 1 ELSE 0) = n
    BY <1>3, <1>4
  <2> QED BY <2>1, <2>2, SubSeqProperties
<1> DEFINE mems == Scatter(rcv.mems, rcv.bufs, bytes)
<1>6. /\ \A i \in 1 .. 3 : IsMemory(mems[i])
      /\ rcv.bufs[1].len = 0 => \A o : At(mems[1], o) = At(rcv.mems[1], o)
  <2> HIDE DEF bytes
  <2>1. Len(bytes) =< Len(Places(rcv.bufs))
    BY <1>4, <1>5 DEF room
  <2>2. PICK ms, bs : ms = rcv.mems /\ bs = rcv.bufs
    OBVIOUS
  <2>3. /\ \A i \in 1 .. 3 : IsMemory(ms[i])
        /\ \A i \in 1 .. 3 : bs[i] \in Bufs
        /\ Len(bytes) =< Len(Places(bs)) /\ bytes \in Seq(Byte)
    BY <1>1, <1>5, <2>1, <2>2, Zenon
  <2>4. /\ \A i \in 1 .. 3 : IsMemory(Scatter(ms, bs, bytes)[i])
        /\ bs[1].len = 0 => \A o : At(Scatter(ms, bs, bytes)[1], o) = At(ms[1], o)
    BY <2>3, ScatterType, Zenon
  <2> QED BY <2>2, <2>4, Zenon
<1>7. r = [phase |-> rcv.phase, bufs |-> rcv.bufs, mems |-> mems, total |-> rcv.total + n,
           toMove |-> rcv.toMove]
  <2> HIDE DEF mems
  <2>1. r = [rcv EXCEPT !.mems = mems, !.total = rcv.total + n]
    BY DEF Moved, mems
  <2> QED BY <1>1, <2>1
<1> HIDE DEF mems, r
<1>8. r.mems = mems /\ r.total = rcv.total + n
  BY <1>7
<1>9. rcv.bufs[1].len = 0 => LenOne(mems) = LenOne(rcv.mems) /\ LenTwo(mems) = LenTwo(rcv.mems)
  BY <1>6 DEF LenOne, LenTwo, ntohs
<1> QED BY <1>1, <1>3, <1>4, <1>6, <1>7, <1>8, <1>9 DEF r, Rcv

(* The client's turn with a packet keeps its types (RecvHeader, RecvBody). *)
LEMMA ClientTurnType ==
  ASSUME RcvInv(rcv), wire \in Seq(Byte), read \in 0 .. Len(wire), NEW n \in Arriving(rcv),
         rcv.phase \in {"header", "body"},
         IF rcv.phase = "header" THEN RecvHeader(Moved(rcv, n)) ELSE RecvBody(Moved(rcv, n))
  PROVE  RcvInv(rcv')
<1> DEFINE r == Moved(rcv, n)
           one == 2 * LenOne(r.mems)
           two == 2 * LenTwo(r.mems)
<1>0. r = Rcv(rcv.phase, rcv.bufs, r.mems, r.total, rcv.toMove)
  BY MovedType
<1>1. /\ \A i \in 1 .. 3 : IsMemory(r.mems[i])
      /\ r.total \in Nat
      /\ rcv.bufs[1].len = 0 => LenOne(r.mems) = LenOne(rcv.mems)
                                /\ LenTwo(r.mems) = LenTwo(rcv.mems)
  BY MovedType
<1> HIDE DEF r
<1>2. /\ r.phase = rcv.phase /\ r.bufs = rcv.bufs /\ r.toMove = rcv.toMove
      /\ r.bufs \in [1 .. 3 -> Bufs] /\ rcv.toMove \in Nat /\ BodyInv(rcv)
  BY <1>0 DEF RcvInv, Rcv
<1>3. LenOne(r.mems) \in Nat /\ LenTwo(r.mems) \in Nat /\ one \in Nat /\ two \in Nat
  BY <1>1, LensType
<1>4. Handle(r) => RcvInv(rcv')
  BY ResetType DEF Handle
<1>7. ASSUME NEW phase \in Phases, NEW bufs \in [1 .. 3 -> Bufs], NEW total \in Nat, NEW toMove \in Nat,
             rcv' = Rcv(phase, bufs, r.mems, total, toMove),
             phase \in {"body", "bodyPeek"} => toMove = one + two /\ bufs[1].len = 0
      PROVE  RcvInv(rcv')
  <2>1. /\ rcv'.phase = phase /\ rcv'.bufs = bufs /\ rcv'.mems = r.mems
        /\ rcv'.total = total /\ rcv'.toMove = toMove
    BY <1>7 DEF Rcv
  <2> QED BY <1>1, <1>7, <2>1 DEF RcvInv, BodyInv, Rcv
<1>5. CASE rcv.phase = "header"
  <2>1. CASE r.total < HEADER_LEN
    <3> DEFINE bufs == [r.bufs EXCEPT ![1] = Buf(r.total, HEADER_LEN - r.total)]
    <3>1. bufs \in [1 .. 3 -> Bufs]
      <4>1. Buf(r.total, HEADER_LEN - r.total) \in Bufs
        BY <1>1, <2>1 DEF Buf, Bufs, HEADER_LEN
      <4> QED BY <1>2, <4>1
    <3>2. rcv' = [r EXCEPT !.phase = "headerPeek", !.bufs[1] = Buf(r.total, HEADER_LEN - r.total)]
      BY <1>1, <1>5, <2>1 DEF RecvHeader, HEADER_LEN, r
    <3>3. rcv' = [r EXCEPT !.phase = "headerPeek", !.bufs = bufs]
      BY <3>2, OtherPhase
    <3> HIDE DEF bufs
    <3>5. rcv' = Rcv("headerPeek", bufs, r.mems, r.total, rcv.toMove)
      <4> DEFINE s == [r EXCEPT !.phase = "headerPeek"]
      <4>1. rcv' = [s EXCEPT !.bufs = bufs]
        BY <3>3
      <4>2. s = Rcv("headerPeek", rcv.bufs, r.mems, r.total, rcv.toMove)
        BY <1>0 DEF Rcv
      <4> HIDE DEF s
      <4> QED BY <4>1, <4>2 DEF Rcv
    <3>4. "headerPeek" \in Phases
      BY DEF Phases
    <3> QED BY <1>1, <1>2, <1>7, <3>1, <3>4, <3>5
  <2>2. CASE r.total = HEADER_LEN /\ one + two = 0
    <3>1. ~(r.total < HEADER_LEN)
      BY <2>2 DEF HEADER_LEN
    <3>2. Handle(r)
      BY <1>5, <2>2, <3>1 DEF RecvHeader, r
    <3> QED BY <1>4, <3>2
  <2>3. CASE ~(r.total < HEADER_LEN) /\ ~(r.total = HEADER_LEN /\ one + two = 0)
    <3> DEFINE bufs == <<Buf(0, 0), Buf(0, one), Buf(0, two)>>
    <3>1. bufs \in [1 .. 3 -> Bufs] /\ bufs[1].len = 0
      BY <1>3 DEF Buf, Bufs
    <3>2. rcv' = [r EXCEPT !.phase = "body", !.total = 0, !.toMove = one + two, !.bufs = bufs]
      BY <1>5, <2>3 DEF RecvHeader, r
    <3> HIDE DEF bufs
    <3>3. rcv' = Rcv("body", bufs, r.mems, 0, one + two)
      BY <1>0, <3>2 DEF Rcv
    <3>4. "body" \in Phases /\ one + two \in Nat
      BY <1>3 DEF Phases
    <3> QED BY <1>7, <3>1, <3>3, <3>4
  <2> QED BY <2>1, <2>2, <2>3
<1>6. CASE rcv.phase = "body"
  <2>1. /\ rcv.toMove = one + two /\ rcv.bufs[1].len = 0
        /\ LenOne(r.mems) = LenOne(rcv.mems) /\ LenTwo(r.mems) = LenTwo(rcv.mems)
    BY <1>1, <1>2, <1>6 DEF BodyInv
  <2>2. CASE r.total < one + two
    <3>1. r.toMove = rcv.toMove
      BY <1>2
    <3>2. rcv' = [RecvBodyRest(r) EXCEPT !.phase = "bodyPeek"]
      BY <1>6, <2>1, <2>2, <3>1 DEF RecvBody, r
    <3>3. PICK bufs \in [1 .. 3 -> Bufs] :
            /\ RecvBodyRest(r) = [r EXCEPT !.bufs = bufs]
            /\ bufs[1].len = 0
      <4>1. CASE r.total < one
        <5> DEFINE bufs == [r.bufs EXCEPT ![2] = Buf(r.total, one - r.total)]
        <5>1. bufs \in [1 .. 3 -> Bufs] /\ bufs[1].len = 0
          <6>1. Buf(r.total, one - r.total) \in Bufs
            BY <1>1, <1>3, <4>1 DEF Buf, Bufs
          <6> QED BY <1>2, <2>1, <6>1
        <5>2. RecvBodyRest(r) = [r EXCEPT !.bufs[2] = Buf(r.total, one - r.total)]
          BY <4>1 DEF RecvBodyRest
        <5>3. RecvBodyRest(r) = [r EXCEPT !.bufs = bufs]
          BY <5>2, SecondBuf
        <5> QED BY <5>1, <5>3
      <4>2. CASE ~(r.total < one)
        <5> DEFINE rest == Buf(r.total - LenOne(r.mems), two - (r.total - one))
                   bufs == [r.bufs EXCEPT ![2] = Buf(LenOne(r.mems), 0), ![3] = rest]
        <5>1. rest \in Bufs /\ Buf(LenOne(r.mems), 0) \in Bufs
          <6>1. PICK a, b, t \in Nat : a = LenOne(r.mems) /\ b = LenTwo(r.mems) /\ t = r.total
            BY <1>1, <1>3
          <6>2. t - a \in Nat /\ 2 * b - (t - 2 * a) \in Nat
            <7>1. ~(t < 2 * a) /\ t < 2 * a + 2 * b
              BY <2>2, <4>2, <6>1, Zenon
            <7> QED BY <7>1
          <6>3. r.total - LenOne(r.mems) \in Nat /\ two - (r.total - one) \in Nat
            BY <6>1, <6>2
          <6> QED BY <1>3, <6>3 DEF Buf, Bufs
        <5> HIDE DEF rest
        <5>2. bufs \in [1 .. 3 -> Bufs] /\ bufs[1].len = 0
          BY <1>2, <2>1, <5>1
        <5>3. RecvBodyRest(r) = [r EXCEPT !.bufs[2] = Buf(LenOne(r.mems), 0), !.bufs[3] = rest]
          BY <4>2 DEF RecvBodyRest, rest
        <5>4. RecvBodyRest(r) = [r EXCEPT !.bufs = bufs]
          BY <5>3, SecondAndThirdBuf
        <5> QED BY <5>2, <5>4
      <4> QED BY <4>1, <4>2
    <3>4. rcv' = Rcv("bodyPeek", bufs, r.mems, r.total, rcv.toMove)
      <4> DEFINE s == [r EXCEPT !.bufs = bufs]
      <4>1. rcv' = [s EXCEPT !.phase = "bodyPeek"]
        BY <3>2, <3>3
      <4>2. s = Rcv(rcv.phase, bufs, r.mems, r.total, rcv.toMove)
        BY <1>0 DEF Rcv
      <4> HIDE DEF s
      <4> QED BY <4>1, <4>2 DEF Rcv
    <3>5. "bodyPeek" \in Phases
      BY DEF Phases
    <3> QED BY <1>1, <1>2, <1>7, <2>1, <3>3, <3>4, <3>5
  <2>3. CASE ~(r.total < one + two)
    <3>1. r.toMove = rcv.toMove
      BY <1>2
    <3>2. Handle(r)
      BY <1>6, <2>1, <2>3, <3>1 DEF RecvBody, r
    <3> QED BY <1>4, <3>2
  <2> QED BY <2>2, <2>3
<1> QED BY <1>5, <1>6

(* The server's turn with a packet (WorkerRecvOP).                         *)
ServerTurn(n) ==
  IF Moved(rcv, n).total = HEADER_LEN \/ Moved(rcv, n).total < Moved(rcv, n).toMove
  THEN WorkerPartialRecv(Moved(rcv, n)) ELSE Handle(Moved(rcv, n))

(* The turn keeps its types.                                               *)
LEMMA ServerTurnType ==
  ASSUME RcvInv(rcv), wire \in Seq(Byte), read \in 0 .. Len(wire), NEW n \in Arriving(rcv),
         rcv.phase = "header", ServerTurn(n)
  PROVE  RcvInv(rcv') /\ rcv'.phase = "header"
<1> DEFINE r == Moved(rcv, n)
           one == PeekedLens(r)[1]
           two == PeekedLens(r)[2]
           Kept(bufs, toMove) == Rcv("header", bufs, r.mems, r.total, toMove)
<1>0. r = Rcv("header", rcv.bufs, r.mems, r.total, rcv.toMove)
  BY MovedType
<1>1. /\ \A i \in 1 .. 3 : IsMemory(r.mems[i])
      /\ r.total \in Nat
  BY MovedType
<1>2. r.bufs = rcv.bufs /\ r.toMove = rcv.toMove /\ r.bufs \in [1 .. 3 -> Bufs] /\ rcv.toMove \in Nat
  <2> HIDE DEF r
  <2> QED BY <1>0 DEF RcvInv, Rcv
<1>3. CASE Handle(r)
  BY <1>3, ResetType DEF Handle
<1>4. CASE ~Handle(r)
  <2>1. WorkerPartialRecv(r)
    BY <1>4 DEF ServerTurn
  <2> HIDE DEF r
  <2>2. one \in Nat /\ two \in Nat
    <3>1. ASSUME NEW i PROVE Size(ntohs(r.mems[1], i)) \in Nat
      <4>1. ntohs(r.mems[1], i) \in Nat
        BY <1>1, NumberType
      <4> QED BY <4>1, SizeType
    <3> QED BY <3>1 DEF PeekedLens
  <2>3. \A a, b : a \in Nat /\ b \in Nat => DwordMinus(a, b) \in Nat
    BY DEF DwordMinus, HUGE
  <2>4. ASSUME NEW bufs \in [1 .. 3 -> Bufs], NEW toMove \in Nat, rcv' = Kept(bufs, toMove)
        PROVE  RcvInv(rcv') /\ rcv'.phase = "header"
    <3>1. /\ rcv'.phase = "header" /\ rcv'.bufs = bufs /\ rcv'.mems = r.mems
          /\ rcv'.total = r.total /\ rcv'.toMove = toMove
      BY <2>4 DEF Rcv
    <3> QED BY <1>1, <2>4, <3>1 DEF RcvInv, BodyInv, Phases, Rcv
  <2>5. CASE r.total < HEADER_LEN
    <3> DEFINE bufs == [r.bufs EXCEPT ![1] = Buf(r.total, HEADER_LEN - r.total)]
    <3>1. bufs \in [1 .. 3 -> Bufs]
      <4>1. Buf(r.total, HEADER_LEN - r.total) \in Bufs
        BY <1>1, <2>5 DEF Buf, Bufs, HEADER_LEN
      <4> QED BY <1>2, <4>1
    <3>2. rcv' = [r EXCEPT !.bufs[1] = Buf(r.total, HEADER_LEN - r.total)]
      BY <1>1, <2>1, <2>5 DEF WorkerPartialRecv, RestOfHeader, HEADER_LEN
    <3>3. rcv' = [r EXCEPT !.bufs = bufs]
      BY <3>2, FirstBuf
    <3> HIDE DEF bufs
    <3>4. rcv' = Kept(bufs, rcv.toMove)
      BY <1>0, <3>3 DEF Rcv
    <3> HIDE DEF Kept
    <3> QED BY <1>2, <2>4, <3>1, <3>4
  <2>6. CASE ~(r.total < HEADER_LEN)
    <3>1. rcv' = WorkerPartialRecvBody(r, one, two)
      <4>1. ~(r.total >= HEADER_LEN /\ PeekedLens(r) = <<0, 0>>)
        BY <1>4, <2>1, <2>6 DEF WorkerPartialRecv
      <4> QED BY <2>1, <2>6, <4>1 DEF WorkerPartialRecv
    <3> HIDE DEF one, two
    <3>2. r.toMove = rcv.toMove
      BY <1>2
    <3>3. CASE rcv.toMove = HEADER_LEN
      <4> DEFINE bufs == [r.bufs EXCEPT ![1].len = 0, ![2].len = one, ![3].len = two]
                 toMove == HEADER_LEN + one + two
      <4>1. bufs \in [1 .. 3 -> Bufs]
        <5> DEFINE first == [r.bufs EXCEPT ![1].len = 0]
                   second == [first EXCEPT ![2].len = one]
        <5>1. first \in [1 .. 3 -> Bufs]
          BY <1>2 DEF Bufs
        <5>2. bufs = [second EXCEPT ![3].len = two]
          OBVIOUS
        <5> HIDE DEF first
        <5>3. second \in [1 .. 3 -> Bufs]
          BY <2>2, <5>1 DEF Bufs
        <5> HIDE DEF second, bufs
        <5> QED BY <2>2, <5>2, <5>3 DEF Bufs
      <4>2. toMove \in Nat
        BY <2>2 DEF HEADER_LEN
      <4>3. rcv' = [r EXCEPT !.toMove = toMove,
                            !.bufs[1].len = 0, !.bufs[2].len = one, !.bufs[3].len = two]
        BY <3>1, <3>2, <3>3 DEF WorkerPartialRecvBody
      <4> HIDE DEF toMove
      <4>5. rcv' = Kept(bufs, toMove)
        <5> DEFINE s == [r EXCEPT !.toMove = toMove]
                   others == [s.bufs EXCEPT ![1].len = 0, ![2].len = one, ![3].len = two]
        <5>1. rcv' = [s EXCEPT !.bufs[1].len = 0, !.bufs[2].len = one, !.bufs[3].len = two]
          BY <4>3
        <5>2. s = Rcv("header", rcv.bufs, r.mems, r.total, toMove)
          BY <1>0 DEF Rcv
        <5> HIDE DEF s
        <5>3. rcv' = [s EXCEPT !.bufs = others]
          BY <5>1
        <5>4. s.bufs = r.bufs
          BY <1>2, <5>2 DEF Rcv
        <5>5. others = bufs
          BY <5>4
        <5> HIDE DEF bufs, others
        <5> QED BY <5>2, <5>3, <5>5 DEF Rcv
      <4> HIDE DEF bufs
      <4> HIDE DEF Kept
      <4> QED BY <2>4, <4>1, <4>2, <4>5
    <3>4. CASE rcv.toMove # HEADER_LEN /\ r.total < HEADER_LEN + one
      <4> DEFINE rest == Buf(r.total - HEADER_LEN, one - (r.total - HEADER_LEN))
                 bufs == [r.bufs EXCEPT ![1].len = 0, ![2] = rest]
      <4>1. rest \in Bufs
        BY <1>1, <2>2, <2>6, <3>4 DEF Buf, Bufs, HEADER_LEN
      <4>2. rcv' = [r EXCEPT !.bufs[1].len = 0, !.bufs[2] = rest]
        BY <3>1, <3>2, <3>4 DEF WorkerPartialRecvBody
      <4> HIDE DEF rest
      <4>3. bufs \in [1 .. 3 -> Bufs]
        <5>1. bufs = NotFirst(r.bufs, rest)
          BY DEF NotFirst
        <5>2. r.bufs \in [1 .. 3 -> Bufs]
          BY <1>2
        <5> HIDE DEF bufs
        <5> QED BY <4>1, <5>1, <5>2, EmptiedBufs
      <4>4. rcv' = [r EXCEPT !.bufs = bufs]
        BY <4>2, NotFirstBuf
      <4> HIDE DEF bufs
      <4>5. rcv' = Kept(bufs, rcv.toMove)
        BY <1>0, <4>4 DEF Rcv
      <4> HIDE DEF Kept
      <4> QED BY <1>2, <2>4, <4>3, <4>5
    <3>5. CASE rcv.toMove # HEADER_LEN /\ ~(r.total < HEADER_LEN + one)
      <4> DEFINE got == r.total - (one + HEADER_LEN)
                 rest == Buf(got, DwordMinus(two, got))
                 bufs == [r.bufs EXCEPT ![1].len = 0, ![2].len = 0, ![3] = rest]
      <4>1. got \in Nat
        BY <1>1, <2>2, <3>5 DEF HEADER_LEN
      <4>2. rest \in Bufs
        <5> HIDE DEF got
        <5> QED BY <2>2, <2>3, <4>1 DEF Buf, Bufs
      <4>3. rcv' = [r EXCEPT !.bufs[1].len = 0, !.bufs[2].len = 0, !.bufs[3] = rest]
        BY <3>1, <3>2, <3>5 DEF WorkerPartialRecvBody
      <4> HIDE DEF rest
      <4>4. bufs \in [1 .. 3 -> Bufs]
        <5>1. bufs = OnlyLast(r.bufs, rest)
          BY DEF OnlyLast
        <5>2. r.bufs \in [1 .. 3 -> Bufs]
          BY <1>2
        <5> HIDE DEF bufs
        <5> QED BY <4>2, <5>1, <5>2, EmptiedBufs
      <4>5. rcv' = [r EXCEPT !.bufs = bufs]
        BY <4>3, OnlyLastBuf
      <4> HIDE DEF bufs
      <4>6. rcv' = Kept(bufs, rcv.toMove)
        BY <1>0, <4>5 DEF Rcv
      <4> HIDE DEF Kept
      <4> QED BY <1>2, <2>4, <4>4, <4>6
    <3> QED BY <3>3, <3>4, <3>5
  <2> QED BY <2>5, <2>6
<1> QED BY <1>3, <1>4

(* The queue, whatever became of its size: the nodes that the size counts  *)
(* are a list, every node holds a message that was given, and while a      *)
(* message is sent there is a tail to look at.                             *)
QueueTyped(q, k) ==
  /\ \E n, p, d : IsList(q, n, p, d)
  /\ IsFiniteSet(DOMAIN q.node)
  /\ \A a \in DOMAIN q.node : q.node[a].data \in 1 .. k

Holders == [bufs : [1 .. 3 -> Bufs], total : Nat, toMove : Nat]
ToMove(m) == HEADER_LEN + 2 * (Lengths[m][1] + Lengths[m][2])

TypeInv ==
  /\ way \in Ways
  /\ accepted \in 0 .. Len(Lengths)
  /\ QueueTyped(queue, accepted)
  /\ holder \in [1 .. accepted -> Holders]
  /\ \A m \in 1 .. accepted : holder[m].toMove = ToMove(m)
  /\ sending \in (1 .. accepted) \cup {NULL}
  /\ sending # NULL => queue.tail \in DOMAIN queue.node
  /\ freed \in BOOLEAN
  /\ wire \in Seq(Byte)
  /\ read \in 0 .. Len(wire)
  /\ RcvInv(rcv)
  /\ way = "toServer" => rcv.phase = "header"
  /\ excuses \subseteq Excuses

(* The number of messages is a natural number.                             *)
LEMMA LengthsCount == Len(Lengths) \in Nat
BY PacketPartsAssumption

(* A queue of size zero, whatever its nodes are.                           *)
LEMMA EmptyList ==
  ASSUME NEW r, r.size = 0,
         r = [head |-> r.head, tail |-> r.tail, size |-> r.size, node |-> r.node]
  PROVE  \E n, p, d : IsList(r, n, p, d)
<1> DEFINE p == [i \in 1 .. 0 |-> 0]
<1>1. p \in [1 .. 0 -> Nat] /\ 0 \in 0 .. (WORD_RANGE - 1)
  BY MsgQueueAssumption
<1> HIDE DEF p
<1>2. IsList(r, 0, p, p)
  BY <1>1 DEF IsList
<1> QED BY <1>2

(* A queue after a push, a pop or a destroy.                               *)
LEMMA PushTyped ==
  ASSUME NEW q, NEW k \in Nat, QueueTyped(q, k)
  PROVE  LET r == QueuePush(q, k + 1)
         IN  QueueTyped(r, k + 1) /\ r.tail \in DOMAIN r.node
<1> DEFINE r == QueuePush(q, k + 1)
           a == FreshAddress(q)
<1>1. PICK n, p, d : IsList(q, n, p, d)
  BY DEF QueueTyped
<1>2. IsFiniteSet(DOMAIN q.node) /\ \A b \in DOMAIN q.node : q.node[b].data \in 1 .. k
  BY DEF QueueTyped
<1>3. IsPushed(q, n, k + 1, a, r)
  BY <1>1, <1>2, PushNodes
<1>4. /\ n \in Nat /\ n < WORD_RANGE /\ WORD_RANGE \in Nat \ {0, 1}
      /\ n # 0 => q.tail \in DOMAIN q.node
  BY <1>1, ListFields
<1> HIDE DEF r, a
<1>5. r = [head |-> a, tail |-> IF n = 0 THEN a ELSE q.tail,
           size |-> (n + 1) % WORD_RANGE, node |-> r.node]
  BY <1>3 DEF IsPushed
<1>6. DOMAIN r.node = DOMAIN q.node \cup {a}
  BY <1>3 DEF IsPushed
<1>7. IsFiniteSet(DOMAIN r.node)
  BY <1>2, <1>6, FS_AddElement
<1>8. \A b \in DOMAIN r.node : r.node[b].data \in 1 .. (k + 1)
  <2>1. r.node[a].data = k + 1
    BY <1>3 DEF IsPushed
  <2>2. \A b \in DOMAIN q.node : r.node[b].data \in 1 .. k
    BY <1>2, <1>3 DEF IsPushed
  <2> QED BY <1>6, <2>1, <2>2
<1>9. r.tail \in DOMAIN r.node
  <2>1. r.tail = IF n = 0 THEN a ELSE q.tail
    BY <1>5
  <2> QED BY <1>4, <1>6, <2>1
<1>10. \E m, pp, dd : IsList(r, m, pp, dd)
  <2>1. CASE n + 1 < WORD_RANGE
    <3>1. \E pp, dd : IsList(QueuePush(q, k + 1), n + 1, pp, dd)
      BY <1>1, <1>2, <2>1, PushList
    <3> QED BY <3>1 DEF r
  <2>2. CASE ~(n + 1 < WORD_RANGE)
    <3>1. n + 1 = WORD_RANGE
      BY <1>4, <2>2
    <3>2. (n + 1) % WORD_RANGE = 0
      BY <1>4, <3>1
    <3>3. r = [head |-> r.head, tail |-> r.tail, size |-> r.size, node |-> r.node] /\ r.size = 0
      BY <1>5, <3>2
    <3> QED BY <3>3, EmptyList
  <2> QED BY <2>1, <2>2
<1> QED BY <1>7, <1>8, <1>9, <1>10 DEF QueueTyped, r

(* QueuePopRemove leaves a queue of its type.                              *)
LEMMA PopTyped ==
  ASSUME NEW q, NEW k \in Nat, QueueTyped(q, k)
  PROVE  LET r == QueuePopRemove(q)
         IN  /\ QueueTyped(r, k)
             /\ r.size # 0 => r.tail \in DOMAIN r.node
<1> DEFINE r == QueuePopRemove(q)
<1>1. PICK n, p, d : IsList(q, n, p, d)
  BY DEF QueueTyped
<1>2. IsFiniteSet(DOMAIN q.node) /\ \A b \in DOMAIN q.node : q.node[b].data \in 1 .. k
  BY DEF QueueTyped
<1>3. n \in Nat /\ q.size = n
  BY <1>1, ListFields
<1>4. CASE n = 0
  <2>1. r = q
    BY <1>3, <1>4 DEF QueuePopRemove
  <2> QED BY <1>3, <1>4, <2>1
<1>5. CASE n # 0
  <2> DEFINE m == n - 1
             pp == [i \in 1 .. m |-> p[i]]
             dd == [i \in 1 .. m |-> d[i]]
  <2>1. /\ IsList(r, m, pp, dd)
        /\ DOMAIN r.node = DOMAIN q.node \ {p[n]}
        /\ \A b \in DOMAIN r.node : r.node[b].data = q.node[b].data
    BY <1>1, <1>5, PopList
  <2> HIDE DEF r, pp, dd
  <2>2. IsFiniteSet(DOMAIN r.node)
    BY <1>2, <2>1, FS_RemoveElement
  <2>3. \A b \in DOMAIN r.node : r.node[b].data \in 1 .. k
    BY <1>2, <2>1
  <2>4. QueueTyped(r, k)
    <3>1. \E x, y, z : IsList(r, x, y, z)
      BY <2>1
    <3> QED BY <2>2, <2>3, <3>1 DEF QueueTyped
  <2>5. r.size # 0 => r.tail \in DOMAIN r.node
    <3> HIDE DEF m
    <3> QED BY <2>1, ListFields
  <2> QED BY <2>4, <2>5 DEF r
<1> QED BY <1>4, <1>5

(* QueueDestroy leaves a queue of its type.                                *)
LEMMA DestroyTyped ==
  ASSUME NEW q, NEW k \in Nat, QueueTyped(q, k)
  PROVE  QueueTyped(QueueDestroy(q), k)
<1> DEFINE r == QueueDestroy(q)
           gone == ToSet(SubSeq(Follow(q, q.head, "next"), 1, q.size))
           D == DOMAIN q.node \ gone
<1>1. r = [head |-> NULL, tail |-> NULL, size |-> 0, node |-> [a \in D |-> q.node[a]]]
  <2> HIDE DEF gone
  <2> QED BY DEF QueueDestroy, QueueInit, gone
<1> HIDE DEF r, gone
<1>2. r.node = [a \in D |-> q.node[a]] /\ r.size = 0
  BY <1>1
<1>3. r = [head |-> r.head, tail |-> r.tail, size |-> r.size, node |-> r.node]
  BY <1>1
<1>4. IsFiniteSet(DOMAIN r.node)
  <2>1. DOMAIN r.node \in SUBSET (DOMAIN q.node)
    BY <1>2
  <2> QED BY <2>1, FS_Subset DEF QueueTyped
<1>5. \A a \in DOMAIN r.node : r.node[a].data \in 1 .. k
  BY <1>2 DEF QueueTyped
<1>6. \E n, p, d : IsList(r, n, p, d)
  BY <1>2, <1>3, EmptyList
<1> QED BY <1>4, <1>5, <1>6 DEF QueueTyped, r

(* The MSGHOLDERs: a new one, one that was sent and freed, and one whose   *)
(* rest is to be sent (WorkerPartialSend).                                 *)
LEMMA NewHolderType ==
  ASSUME NEW m \in Messages
  PROVE  /\ NewHolder(m) \in Holders /\ NewHolder(m).total = 0 /\ NewHolder(m).toMove = ToMove(m)
         /\ FreedHolder(m) \in Holders /\ FreedHolder(m).total = ToMove(m)
         /\ FreedHolder(m).toMove = ToMove(m)
         /\ ToMove(m) \in Nat \ {0}
<1> DEFINE h == NewHolder(m)
<1>1. Lengths[m][1] \in 0 .. 3 /\ Lengths[m][2] \in 0 .. 3
  BY LengthsType
<1>2. ToMove(m) \in Nat \ {0}
  <2>1. PICK a, b \in 0 .. 3 : a = Lengths[m][1] /\ b = Lengths[m][2]
    BY <1>1
  <2>2. ToMove(m) = 7 + 2 * (a + b)
    BY <2>1 DEF ToMove, HEADER_LEN
  <2> QED BY <2>2
<1>3. Size(Lengths[m][1]) \in Nat /\ Size(Lengths[m][2]) \in Nat
  BY <1>1, SizeType
<1>4. WholeBufs(m) \in [1 .. 3 -> Bufs]
  BY <1>3 DEF WholeBufs, Buf, Bufs, HEADER_LEN
<1>5. h = [bufs |-> WholeBufs(m), total |-> 0, toMove |-> ToMove(m)]
  BY DEF NewHolder, ToMove
<1> HIDE DEF h
<1>6. h \in Holders /\ h.total = 0 /\ h.toMove = ToMove(m)
  BY <1>2, <1>4, <1>5 DEF Holders
<1>7. FreedHolder(m) = [bufs |-> WholeBufs(m), total |-> ToMove(m), toMove |-> ToMove(m)]
  <2>1. FreedHolder(m) = [h EXCEPT !.total = h.total + h.toMove]
    BY DEF FreedHolder, h
  <2>2. h.total + h.toMove = ToMove(m)
    BY <1>2, <1>6
  <2>3. FreedHolder(m) = [h EXCEPT !.total = ToMove(m)]
    BY <2>1, <2>2
  <2> QED BY <1>5, <2>3
<1> QED BY <1>2, <1>4, <1>6, <1>7 DEF Holders, h

(* A MSGHOLDER with other buffers is one, and has its counts.              *)
LEMMA HolderWithBufs ==
  ASSUME NEW h \in Holders, NEW bufs \in [1 .. 3 -> Bufs], NEW r, r = [h EXCEPT !.bufs = bufs]
  PROVE  r \in Holders /\ r.total = h.total /\ r.toMove = h.toMove
<1>1. r = [bufs |-> bufs, total |-> h.total, toMove |-> h.toMove]
  BY DEF Holders
<1> QED BY <1>1 DEF Holders

(* The buffers of what is left of a message (WorkerPartialSend).           *)
LEMMA PartialSendType ==
  ASSUME NEW h \in Holders, NEW one \in 0 .. 3, NEW two \in 0 .. 3,
         h.toMove = HEADER_LEN + 2 * (one + two), h.total < h.toMove
  PROVE  LET r == WorkerPartialSend(h, one, two)
         IN  r \in Holders /\ r.total = h.total /\ r.toMove = h.toMove
<1> DEFINE r == WorkerPartialSend(h, one, two)
           total == h.total
<1>1. /\ h.bufs \in [1 .. 3 -> Bufs] /\ h.total \in Nat
      /\ h = [bufs |-> h.bufs, total |-> h.total, toMove |-> h.toMove] /\ h.toMove \in Nat
  BY DEF Holders
<1>2. Size(one) = 2 * one /\ Size(two) = 2 * two /\ h.total < 7 + 2 * one + 2 * two
      /\ HEADER_LEN = 7
  BY DEF Size, HEADER_LEN
<1>4. CASE total < HEADER_LEN
  <2> DEFINE rest == Buf(total, HEADER_LEN - total)
             bufs == [h.bufs EXCEPT ![1] = rest]
  <2>1. rest \in Bufs
    BY <1>1, <1>2, <1>4 DEF Buf, Bufs
  <2> HIDE DEF rest
  <2>2. bufs \in [1 .. 3 -> Bufs]
    BY <1>1, <2>1
  <2>3. r = [h EXCEPT !.bufs[1] = rest]
    BY <1>4 DEF WorkerPartialSend, rest
  <2>4. r = [h EXCEPT !.bufs = bufs]
    BY <2>3, FirstBuf
  <2> HIDE DEF bufs, r
  <2> QED BY  <2>2, <2>4, HolderWithBufs DEF r
<1>5. CASE ~(total < HEADER_LEN) /\ total < HEADER_LEN + Size(one)
  <2> DEFINE rest == Buf(total - HEADER_LEN, DwordMinus(one, total - HEADER_LEN))
             bufs == [h.bufs EXCEPT ![1].len = 0, ![2] = rest]
  <2>1. total - HEADER_LEN \in Nat
    BY <1>1, <1>2, <1>5
  <2>2. DwordMinus(one, total - HEADER_LEN) \in Nat
    BY <2>1 DEF DwordMinus, HUGE
  <2>3. rest \in Bufs
    BY <2>1, <2>2 DEF Buf, Bufs
  <2> HIDE DEF rest
  <2>4. bufs \in [1 .. 3 -> Bufs]
    <3>1. bufs = NotFirst(h.bufs, rest)
      BY DEF NotFirst
    <3> HIDE DEF bufs
    <3> QED BY <1>1, <2>3, <3>1, EmptiedBufs
  <2>5. r = [h EXCEPT !.bufs[1].len = 0, !.bufs[2] = rest]
    BY <1>5 DEF WorkerPartialSend, rest
  <2>6. r = [h EXCEPT !.bufs = bufs]
    BY <2>5, NotFirstBuf
  <2> HIDE DEF bufs, r
  <2> QED BY  <2>4, <2>6, HolderWithBufs DEF r
<1>6. CASE ~(total < HEADER_LEN) /\ ~(total < HEADER_LEN + Size(one))
  <2> DEFINE sent == total - (HEADER_LEN + Size(one))
             rest == Buf(sent, Size(two) - sent)
             bufs == [h.bufs EXCEPT ![1].len = 0, ![2].len = 0, ![3] = rest]
  <2>1. sent \in Nat /\ Size(two) - sent \in Nat
    BY <1>1, <1>2, <1>6
  <2>2. rest \in Bufs
    <3> HIDE DEF sent
    <3> QED BY <2>1 DEF Buf, Bufs
  <2>3. r = [h EXCEPT !.bufs[1].len = 0, !.bufs[2].len = 0, !.bufs[3] = rest]
    BY <1>6 DEF WorkerPartialSend
  <2> HIDE DEF rest
  <2>4. bufs \in [1 .. 3 -> Bufs]
    <3>1. bufs = OnlyLast(h.bufs, rest)
      BY DEF OnlyLast
    <3> HIDE DEF bufs
    <3> QED BY <1>1, <2>2, <3>1, EmptiedBufs
  <2>5. r = [h EXCEPT !.bufs = bufs]
    BY <2>3, OnlyLastBuf
  <2> HIDE DEF bufs, r
  <2> QED BY  <2>4, <2>5, HolderWithBufs DEF r
<1> QED BY <1>4, <1>5, <1>6

----------------------------------------------------------------------------
(* Every step keeps the types.                                             *)

(* What TypeInv says about the messages given so far.                      *)
LEMMA TypeInvParts ==
  ASSUME TypeInv
  PROVE  /\ accepted \in Nat /\ 1 .. accepted \in SUBSET Messages
         /\ DOMAIN holder = 1 .. accepted
         /\ (accepted < Len(Lengths) => accepted + 1 \in Messages)
<1>1. Len(Lengths) \in Nat /\ accepted \in 0 .. Len(Lengths)
  BY LengthsCount DEF TypeInv
<1> QED BY <1>1 DEF TypeInv, Messages

(* The holders after a message more, and the bytes after a send more.      *)
LEMMA AppendHolder ==
  ASSUME TypeInv, accepted + 1 \in Messages, accepted' = accepted + 1,
         holder' = Append(holder, NewHolder(accepted + 1))
  PROVE  /\ holder' \in [1 .. accepted' -> Holders]
         /\ \A m \in 1 .. accepted' : holder'[m].toMove = ToMove(m)
         /\ holder'[accepted + 1] = NewHolder(accepted + 1)
         /\ \A m \in 1 .. accepted : holder'[m] = holder[m]
<1> DEFINE h == NewHolder(accepted + 1)
<1>1. accepted \in Nat /\ holder \in [1 .. accepted -> Holders]
      /\ \A m \in 1 .. accepted : holder[m].toMove = ToMove(m)
  BY TypeInvParts DEF TypeInv
<1>2. h \in Holders /\ h.toMove = ToMove(accepted + 1)
  BY NewHolderType
<1> HIDE DEF h
<1>3. holder \in Seq(Holders) /\ Len(holder) = accepted
  BY <1>1
<1>4. /\ holder' \in Seq(Holders) /\ Len(holder') = accepted + 1
      /\ \A m \in 1 .. accepted : holder'[m] = holder[m]
      /\ holder'[accepted + 1] = h
  <2> DEFINE g == holder
  <2>1. holder' = Append(g, h)
    BY DEF h
  <2>2. g \in Seq(Holders) /\ Len(g) = accepted /\ h \in Holders
    BY <1>2, <1>3
  <2> HIDE DEF g
  <2>3. /\ Append(g, h) \in Seq(Holders) /\ Len(Append(g, h)) = Len(g) + 1
        /\ \A i \in 1 .. Len(g) : Append(g, h)[i] = g[i]
        /\ Append(g, h)[Len(g) + 1] = h
    BY <2>2, AppendProperties
  <2>4. /\ holder' \in Seq(Holders) /\ Len(holder') = accepted + 1
        /\ \A i \in 1 .. accepted : holder'[i] = g[i]
        /\ holder'[accepted + 1] = h
    <3> HIDE DEF h
    <3>1. PICK s : s = Append(g, h)
      OBVIOUS
    <3>2. s = holder'
      BY <2>1, <3>1
    <3> QED BY <2>2, <2>3, <3>1, <3>2, Zenon
  <2> QED BY <2>4 DEF g
<1>5. holder' \in [1 .. accepted' -> Holders]
  <2>1. \A s \in Seq(Holders) : s \in [1 .. Len(s) -> Holders]
    OBVIOUS
  <2>2. holder' \in [1 .. Len(holder') -> Holders]
    BY <1>4, <2>1
  <2> QED BY <1>4, <2>2
<1>6. \A m \in 1 .. accepted' : holder'[m].toMove = ToMove(m)
  BY <1>1, <1>2, <1>4
<1> QED BY <1>4, <1>5, <1>6 DEF h

(* The stream after n bytes of a packet more.                              *)
LEMMA WireGrows ==
  ASSUME NEW bytes \in Seq(Byte), NEW packet \in Seq(Byte), NEW n \in 1 .. Len(packet),
         NEW r \in 0 .. Len(bytes)
  PROVE  LET longer == bytes \o SubSeq(packet, 1, n)
         IN  longer \in Seq(Byte) /\ r \in 0 .. Len(longer) /\ Len(longer) = Len(bytes) + n
<1>1. \A i \in 1 .. n : packet[i] \in Byte
  <2> HIDE DEF Byte
  <2>1. \A i \in 1 .. n : i \in 1 .. Len(packet)
    OBVIOUS
  <2> QED BY <2>1, ElementOfSeq
<1> HIDE DEF Byte
<1>2. SubSeq(packet, 1, n) \in Seq(Byte) /\ Len(SubSeq(packet, 1, n)) = n
  <2>1. 1 \in Int /\ n \in Int /\ (IF 1 =< n THEN n - 1 + 1 ELSE 0) = n
    OBVIOUS
  <2> QED BY <1>1, <2>1, SubSeqProperties
<1>3. Len(bytes \o SubSeq(packet, 1, n)) = Len(bytes) + n /\ bytes \o SubSeq(packet, 1, n) \in Seq(Byte)
  BY <1>2, ConcatProperties
<1>4. Len(bytes) \in Nat
  OBVIOUS
<1> QED BY <1>3, <1>4

(* A packet is a sequence of bytes.                                        *)
LEMMA PacketType ==
  ASSUME NEW m \in Messages
  PROVE  PacketOf(m) \in Seq(Byte)
<1>1. WholeBufs(m) \in [1 .. 3 -> Bufs]
  BY NewHolderType DEF NewHolder, Holders
<1> QED BY <1>1, MemoriesType, GatherType DEF PacketOf

(* TypeInv implies the invariant the runs check.                           *)
LEMMA TypeInvImpliesTypeOK == TypeInv => TypeOK
<1> SUFFICES ASSUME TypeInv PROVE TypeOK
  OBVIOUS
<1>1. queue.size \in 0 .. WORD_RANGE - 1
  <2>1. PICK n, p, d : IsList(queue, n, p, d)
    BY DEF TypeInv, QueueTyped
  <2> QED BY <2>1, ListFields
<1>2. DOMAIN holder = 1 .. accepted /\ \A m \in DOMAIN holder : \A i \in 1 .. 3 : holder[m].bufs[i] \in Bufs
  BY DEF TypeInv, Holders
<1>3. sending \in Messages \cup {NULL}
  BY TypeInvParts DEF TypeInv
<1>4. \A k \in DOMAIN wire : wire[k] \in 0 .. 255
  <2>1. wire \in Seq(Byte) /\ DOMAIN wire = 1 .. Len(wire)
    BY DEF TypeInv
  <2> QED BY <2>1, ElementOfSeq DEF Byte
<1>5. rcv.phase \in {"header", "headerPeek", "body", "bodyPeek", "torn"} /\ \A i \in 1 .. 3 : rcv.bufs[i] \in Bufs
  BY DEF TypeInv, RcvInv, Phases
<1> QED BY <1>1, <1>2, <1>3, <1>4, <1>5 DEF TypeInv, TypeOK

(* The initial states have the types.                                      *)
LEMMA InitTyped == Init => TypeInv
<1> SUFFICES ASSUME Init PROVE TypeInv
  OBVIOUS
<1> USE DEF Init
<1>1. QueueTyped(queue, accepted)
  <2>1. queue = [head |-> NULL, tail |-> NULL, size |-> 0, node |-> <<>>]
    BY DEF QueueInit
  <2>2. /\ queue = [head |-> queue.head, tail |-> queue.tail, size |-> queue.size, node |-> queue.node]
        /\ queue.size = 0 /\ queue.node = <<>>
    BY <2>1
  <2>3. DOMAIN queue.node = {}
    BY <2>2
  <2>4. \E n, p, d : IsList(queue, n, p, d)
    BY <2>2, EmptyList
  <2> QED BY <2>3, <2>4, FS_EmptySet DEF QueueTyped
<1>2. RcvInv(rcv) /\ rcv.phase = "header"
  BY ResetType
<1>3. accepted \in 0 .. Len(Lengths) /\ 1 .. accepted = {}
  BY LengthsCount
<1>4. holder \in [1 .. accepted -> Holders] /\ \A m \in 1 .. accepted : holder[m].toMove = ToMove(m)
  BY <1>3
<1>5. wire \in Seq(Byte) /\ read \in 0 .. Len(wire)
  OBVIOUS
<1> QED BY <1>1, <1>2, <1>3, <1>4, <1>5 DEF TypeInv

(* A message is queued (AddMsgToQueue).                                    *)
LEMMA AddTyped == TypeInv /\ ManageMsgQueueAdd => TypeInv'
<1> SUFFICES ASSUME TypeInv, ManageMsgQueueAdd PROVE TypeInv'
  OBVIOUS
<1> DEFINE k == accepted + 1
<1>1. accepted \in Nat /\ k \in Messages /\ accepted' = k
  BY TypeInvParts DEF ManageMsgQueueAdd
<1>2. accepted' \in 0 .. Len(Lengths)
  BY <1>1, LengthsCount DEF Messages
<1>3. QueueTyped(queue, accepted)
  BY DEF TypeInv
<1>4. queue' = QueuePush(queue, k)
  BY <1>1 DEF ManageMsgQueueAdd
<1>5. QueueTyped(queue', accepted') /\ queue'.tail \in DOMAIN queue'.node
  BY <1>1, <1>3, <1>4, PushTyped
<1>6. holder' = Append(holder, NewHolder(k))
  BY <1>1 DEF ManageMsgQueueAdd
<1>7. holder' \in [1 .. accepted' -> Holders] /\ \A m \in 1 .. accepted' : holder'[m].toMove = ToMove(m)
  BY <1>1, <1>6, AppendHolder
<1>8. sending' \in (1 .. accepted') \cup {NULL}
  BY <1>1 DEF TypeInv, ManageMsgQueueAdd
<1>9. excuses' \subseteq Excuses
  BY DEF TypeInv, ManageMsgQueueAdd, Excuse, Excuses
<1> QED BY <1>2, <1>5, <1>7, <1>8, <1>9 DEF TypeInv, ManageMsgQueueAdd

(* A client sends a packet, or the start of one (SendPacket).              *)
LEMMA SendPacketTyped == TypeInv /\ SendPacket => TypeInv'
<1> SUFFICES ASSUME TypeInv, SendPacket PROVE TypeInv'
  OBVIOUS
<1> DEFINE k == accepted + 1
<1>1. accepted \in Nat /\ k \in Messages /\ accepted' = k
  BY TypeInvParts DEF SendPacket
<1>2. accepted' \in 0 .. Len(Lengths)
  BY <1>1, LengthsCount DEF Messages
<1>3. QueueTyped(queue', accepted')
  BY <1>1 DEF TypeInv, QueueTyped, SendPacket
<1>4. holder' \in [1 .. accepted' -> Holders] /\ \A m \in 1 .. accepted' : holder'[m].toMove = ToMove(m)
  <2>1. holder' = Append(holder, NewHolder(k))
    BY <1>1 DEF SendPacket
  <2> QED BY <1>1, <2>1, AppendHolder
<1>5. wire' \in Seq(Byte) /\ read' \in 0 .. Len(wire')
  <2> DEFINE packet == PacketOf(k)
  <2>1. packet \in Seq(Byte)
    BY <1>1, PacketType
  <2>2. PICK n \in DOMAIN packet : wire' = wire \o SubSeq(packet, 1, n)
    BY <1>1 DEF SendPacket
  <2> HIDE DEF packet
  <2>3. n \in 1 .. Len(packet)
    BY <2>1, <2>2
  <2>4. wire \in Seq(Byte) /\ read' \in 0 .. Len(wire)
    BY DEF TypeInv, SendPacket
  <2> QED BY <2>1, <2>2, <2>3, <2>4, WireGrows
<1>6. sending' \in (1 .. accepted') \cup {NULL}
  BY <1>1 DEF TypeInv, SendPacket
<1>7. excuses' \subseteq Excuses
  BY DEF TypeInv, SendPacket, Excuse, Excuses
<1> QED BY <1>2, <1>3, <1>4, <1>5, <1>6, <1>7 DEF TypeInv, SendPacket

(* The user is freed with its queue (UserFreeFunction).                    *)
LEMMA FreeTyped == TypeInv /\ UserFree => TypeInv'
<1> SUFFICES ASSUME TypeInv, UserFree PROVE TypeInv'
  OBVIOUS
<1>1. accepted \in Nat /\ QueueTyped(queue, accepted)
  BY TypeInvParts DEF TypeInv
<1>2. QueueTyped(queue', accepted')
  <2>1. QueueTyped(QueueDestroy(queue), accepted)
    BY <1>1, DestroyTyped
  <2>2. queue' = QueueDestroy(queue) /\ accepted' = accepted
    BY DEF UserFree
  <2> QED BY <2>1, <2>2
<1> QED BY <1>2 DEF TypeInv, UserFree

(* A client or the server has received bytes.                              *)
LEMMA ReadTyped == TypeInv /\ (ClientRecvPacket \/ WorkerRecvOP) => TypeInv'
<1>1. ASSUME TypeInv, ClientRecvPacket PROVE TypeInv'
  <2>1. PICK n \in Arriving(rcv) :
          /\ IF rcv.phase = "header" THEN RecvHeader(Moved(rcv, n)) ELSE RecvBody(Moved(rcv, n))
          /\ read' = read + n
    BY <1>1 DEF ClientRecvPacket
  <2>2. RcvInv(rcv) /\ wire \in Seq(Byte) /\ read \in 0 .. Len(wire) /\ rcv.phase \in {"header", "body"}
    BY <1>1 DEF TypeInv, ClientRecvPacket
  <2>3. RcvInv(rcv')
    BY <2>1, <2>2, ClientTurnType
  <2>4. read' \in 0 .. Len(wire)
    BY <2>1, <2>2, MovedType
  <2>5. excuses' \subseteq Excuses
    BY <1>1 DEF TypeInv, ClientRecvPacket, Excuse, Excuses
  <2>6. way' # "toServer"
    BY <1>1 DEF ClientRecvPacket
  <2>7. UNCHANGED <<way, accepted, queue, holder, sending, freed, wire>>
    BY <1>1 DEF ClientRecvPacket
  <2> QED BY <1>1, <2>3, <2>4, <2>5, <2>6, <2>7 DEF TypeInv, QueueTyped
<1>2. ASSUME TypeInv, WorkerRecvOP PROVE TypeInv'
  <2>1. PICK n \in Arriving(rcv) :
          ServerTurn(n) /\ read' = read + n
    BY <1>2 DEF WorkerRecvOP, ServerTurn
  <2>2. RcvInv(rcv) /\ wire \in Seq(Byte) /\ read \in 0 .. Len(wire) /\ rcv.phase = "header"
    BY <1>2 DEF TypeInv, WorkerRecvOP
  <2>3. RcvInv(rcv') /\ rcv'.phase = "header"
    BY <2>1, <2>2, ServerTurnType
  <2>4. read' \in 0 .. Len(wire)
    BY <2>1, <2>2, MovedType
  <2>5. excuses' \subseteq Excuses
    BY <1>2 DEF TypeInv, WorkerRecvOP, Excuse, Excuses
  <2>6. UNCHANGED <<way, accepted, queue, holder, sending, freed, wire>>
    BY <1>2 DEF WorkerRecvOP
  <2> QED BY <1>2, <2>3, <2>4, <2>5, <2>6 DEF TypeInv, QueueTyped
<1> QED BY <1>1, <1>2

(* The socket is looked at for the rest of a packet (SocketPeek).          *)
LEMMA PeekTyped == TypeInv /\ SocketPeek => TypeInv'
<1> SUFFICES ASSUME TypeInv, SocketPeek PROVE TypeInv'
  OBVIOUS
<1>1. PICK p \in Phases : /\ rcv' = [rcv EXCEPT !.phase = p]
                          /\ p = "body" => rcv.phase = "bodyPeek"
                          /\ p # "bodyPeek"
  <2>1. CASE read < Len(wire)
    <3>1. rcv' = [rcv EXCEPT !.phase = IF rcv.phase = "headerPeek" THEN "header" ELSE "body"]
          /\ rcv.phase \in {"headerPeek", "bodyPeek"}
      BY <2>1 DEF SocketPeek
    <3> QED BY <3>1 DEF Phases
  <2>2. CASE ~(read < Len(wire))
    <3>1. rcv' = [rcv EXCEPT !.phase = "torn"]
      BY <2>2 DEF SocketPeek
    <3> QED BY <3>1 DEF Phases
  <2> QED BY <2>1, <2>2
<1>2. RcvInv(rcv')
  <2>1. RcvInv(rcv)
    BY DEF TypeInv
  <2>2. /\ rcv' = [phase |-> p, bufs |-> rcv.bufs, mems |-> rcv.mems, total |-> rcv.total, toMove |-> rcv.toMove]
    BY <1>1, <2>1 DEF RcvInv
  <2>3. /\ rcv'.phase = p /\ rcv'.bufs = rcv.bufs /\ rcv'.mems = rcv.mems
        /\ rcv'.total = rcv.total /\ rcv'.toMove = rcv.toMove
    BY <2>2
  <2> QED BY <1>1, <2>1, <2>2, <2>3 DEF RcvInv, BodyInv
<1>3. way # "toServer"
  BY DEF TypeInv, SocketPeek
<1>4. excuses' \subseteq Excuses
  BY DEF TypeInv, SocketPeek, Excuse, Excuses
<1>5. UNCHANGED <<way, accepted, queue, holder, sending, freed, wire, read>>
  BY DEF SocketPeek
<1> QED BY <1>2, <1>3, <1>4, <1>5 DEF TypeInv, QueueTyped

(* What a completed send does (WorkerSendOP): the message at the tail of   *)
(* the queue goes on, or it is freed and the queue popped.                 *)
LEMMA SendCases ==
  ASSUME TypeInv, SendCompletes
  PROVE  LET m == QueuePeek(queue)
         IN  /\ m \in 1 .. accepted
             /\ wire' \in Seq(Byte) /\ read \in 0 .. Len(wire')
             /\ \/ /\ \E h \in Holders : /\ holder' = [holder EXCEPT ![m] = h]
                                         /\ h.toMove = ToMove(m) /\ h.total < h.toMove
                   /\ sending' = m /\ queue' = queue
                   /\ excuses' \in {excuses, excuses \cup {"bodyOneCut"}}
                \/ /\ holder' = [holder EXCEPT ![m] = FreedHolder(m)]
                   /\ ManageSendQueue(QueuePopRemove(queue))
                   /\ excuses' = excuses
<1> DEFINE m == QueuePeek(queue)
           part == Gather(MemoriesOf(sending), holder[sending].bufs)
           Sent(n) == [holder[m] EXCEPT !.total = holder[m].total + n]
<1>1. sending \in 1 .. accepted /\ sending \in Messages /\ accepted \in Nat
  BY TypeInvParts DEF TypeInv, SendCompletes
<1>2. m \in 1 .. accepted /\ m \in Messages
  BY TypeInvParts DEF TypeInv, SendCompletes, QueueTyped, QueuePeek
<1>3. part \in Seq(Byte)
  <2>1. holder[sending].bufs \in [1 .. 3 -> Bufs]
    BY <1>1 DEF TypeInv, Holders
  <2> QED BY <1>1, <2>1, MemoriesType, GatherType
<1>4. PICK n \in 1 .. Len(part) : WorkerSendOP(n)
  BY DEF SendCompletes
<1>5. wire' \in Seq(Byte) /\ read \in 0 .. Len(wire')
  <2>1. wire' = wire \o SubSeq(part, 1, n)
    BY <1>4 DEF WorkerSendOP
  <2>2. wire \in Seq(Byte) /\ read \in 0 .. Len(wire)
    BY DEF TypeInv
  <2> HIDE DEF part
  <2> QED BY <1>3, <2>1, <2>2, WireGrows
<1>6. n \in Nat
  BY <1>3
<1> HIDE DEF m, part
<1>7. Sent(n) \in Holders /\ Sent(n).toMove = ToMove(m)
  <2>1. holder[m] \in Holders /\ holder[m].toMove = ToMove(m)
    BY <1>2 DEF TypeInv
  <2>2. holder[m].total + n \in Nat
    BY <1>6, <2>1 DEF Holders
  <2> QED BY <2>1, <2>2 DEF Holders
<1> HIDE DEF Sent
<1>8. CASE Sent(n).total < Sent(n).toMove
  <2> DEFINE h == WorkerPartialSend(Sent(n), Lengths[m][1], Lengths[m][2])
  <2>1. /\ holder' = [holder EXCEPT ![m] = h]
        /\ sending' = m /\ queue' = queue
        /\ excuses' \in {excuses, excuses \cup {"bodyOneCut"}}
    BY <1>4, <1>8 DEF WorkerSendOP, Excuse, Sent, m
  <2>2. h \in Holders /\ h.total = Sent(n).total /\ h.toMove = Sent(n).toMove
    <3>1. Lengths[m][1] \in 0 .. 3 /\ Lengths[m][2] \in 0 .. 3
      BY <1>2, LengthsType
    <3> QED BY <1>7, <1>8, <3>1, PartialSendType DEF ToMove
  <2> HIDE DEF h
  <2> QED BY <1>2, <1>5, <1>7, <1>8, <2>1, <2>2 DEF m
<1>9. CASE ~(Sent(n).total < Sent(n).toMove)
  <2>1. /\ holder' = [holder EXCEPT ![m] = FreedHolder(m)]
        /\ ManageSendQueue(QueuePopRemove(queue))
        /\ excuses' = excuses
    BY <1>4, <1>9 DEF WorkerSendOP, Sent, m
  <2> QED BY <1>2, <1>5, <2>1 DEF m
<1> QED BY <1>8, <1>9

(* A send has completed (WorkerSendOP).                                    *)
LEMMA SendTyped == TypeInv /\ SendCompletes => TypeInv'
<1> SUFFICES ASSUME TypeInv, SendCompletes PROVE TypeInv'
  OBVIOUS
<1> DEFINE m == QueuePeek(queue)
<1>1. /\ m \in 1 .. accepted
      /\ wire' \in Seq(Byte) /\ read \in 0 .. Len(wire')
      /\ \/ /\ \E h \in Holders : /\ holder' = [holder EXCEPT ![m] = h]
                                  /\ h.toMove = ToMove(m) /\ h.total < h.toMove
            /\ sending' = m /\ queue' = queue
            /\ excuses' \in {excuses, excuses \cup {"bodyOneCut"}}
         \/ /\ holder' = [holder EXCEPT ![m] = FreedHolder(m)]
            /\ ManageSendQueue(QueuePopRemove(queue))
            /\ excuses' = excuses
  BY SendCases
<1>2. UNCHANGED <<way, accepted, freed, read, rcv>>
  BY DEF SendCompletes, WorkerSendOP
<1>3. /\ accepted \in Nat /\ m \in Messages /\ QueueTyped(queue, accepted)
      /\ holder \in [1 .. accepted -> Holders] /\ \A i \in 1 .. accepted : holder[i].toMove = ToMove(i)
  BY <1>1, TypeInvParts DEF TypeInv
<1> HIDE DEF m
<1>4. \E h \in Holders : holder' = [holder EXCEPT ![m] = h] /\ h.toMove = ToMove(m)
  BY <1>1, <1>3, NewHolderType
<1>5. holder' \in [1 .. accepted -> Holders] /\ \A i \in 1 .. accepted : holder'[i].toMove = ToMove(i)
  BY <1>1, <1>3, <1>4
<1>6. excuses' \subseteq Excuses
  BY <1>1 DEF TypeInv, Excuses
<1>7. /\ QueueTyped(queue', accepted) /\ sending' \in (1 .. accepted) \cup {NULL}
      /\ sending' # NULL => queue'.tail \in DOMAIN queue'.node
  <2>1. CASE sending' = m /\ queue' = queue
    <3>1. queue.tail \in DOMAIN queue.node
      BY DEF TypeInv, SendCompletes
    <3> QED BY <1>1, <1>3, <2>1, <3>1
  <2>2. CASE ManageSendQueue(QueuePopRemove(queue))
    <3> DEFINE q == QueuePopRemove(queue)
    <3>1. QueueTyped(q, accepted) /\ (q.size # 0 => q.tail \in DOMAIN q.node)
      BY <1>3, PopTyped
    <3>2. queue' = q /\ sending' = IF q.size = 0 THEN NULL ELSE q.node[q.tail].data
      BY <2>2 DEF ManageSendQueue, QueuePeek
    <3> HIDE DEF q
    <3> QED BY <3>1, <3>2 DEF QueueTyped
  <2> QED BY <1>1, <2>1, <2>2
<1> QED BY <1>1, <1>2, <1>5, <1>6, <1>7 DEF TypeInv

(* Every step keeps TypeInv.                                               *)
LEMMA TypeInvStep == TypeInv /\ [Next]_vars => TypeInv'
<1> SUFFICES ASSUME TypeInv, [Next]_vars PROVE TypeInv'
  OBVIOUS
<1>1. CASE ManageMsgQueueAdd
  BY <1>1, AddTyped
<1>2. CASE SendCompletes
  BY <1>2, SendTyped
<1>3. CASE UserFree
  BY <1>3, FreeTyped
<1>4. CASE ClientRecvPacket \/ WorkerRecvOP
  BY <1>4, ReadTyped
<1>5. CASE SocketPeek
  BY <1>5, PeekTyped
<1>6. CASE SendPacket
  BY <1>6, SendPacketTyped
<1>7. CASE UNCHANGED vars
  BY <1>7 DEF vars, TypeInv, QueueTyped
<1> QED BY <1>1, <1>2, <1>3, <1>4, <1>5, <1>6, <1>7 DEF Next

(* The types of PacketParts.  No offset and no length of a buffer that is  *)
(* given to WSASend or WSARecv is negative, however a packet is split      *)
(* (WorkerPartialSend, WorkerPartialRecvBody, RecvBody), the receiver      *)
(* never counts beyond what was sent, and the size of the send queue stays *)
(* within its 16 bits.                                                     *)
THEOREM TypeCorrect == Spec => []TypeOK
BY InitTyped, TypeInvStep, TypeInvImpliesTypeOK, PTL DEF Spec

----------------------------------------------------------------------------
(* What is in the send queue.                                              *)

(* Of k messages the first s are no longer in the queue q, and the others  *)
(* are in it, the last one at the head.                                    *)
InQueue(q, s, k) ==
  \E p : IsWholeList(q, k - s, p, [i \in 1 .. (k - s) |-> k + 1 - i])

(* Of k messages none is in a queue with no nodes.                         *)
LEMMA EmptyInQueue ==
  ASSUME NEW q, NEW k \in Nat, q.head = NULL, q.tail = NULL, q.size = 0,
         q = [head |-> q.head, tail |-> q.tail, size |-> q.size, node |-> q.node],
         DOMAIN q.node = {}
  PROVE  InQueue(q, k, k)
<1> DEFINE p == [i \in 1 .. 0 |-> 0]
           d == [i \in 1 .. (k - k) |-> k + 1 - i]
<1>1. p \in [1 .. 0 -> Nat] /\ 0 \in 0 .. (WORD_RANGE - 1) /\ k - k = 0
  BY MsgQueueAssumption
<1> HIDE DEF p, d
<1>2. IsList(q, 0, p, d)
  BY <1>1 DEF IsList
<1>3. IsWholeList(q, 0, p, d)
  BY <1>2 DEF IsWholeList
<1>4. IsWholeList(q, k - k, p, d)
  BY <1>1, <1>3
<1> QED BY <1>4 DEF InQueue, d

(* What QueuePeek finds: the oldest message.                               *)
LEMMA PeekInQueue ==
  ASSUME NEW q, NEW k \in Nat, NEW s \in 0 .. k, InQueue(q, s, k)
  PROVE  /\ (q.size = 0) = (s = k)
         /\ s # k => QueuePeek(q) = s + 1
<1> DEFINE n == k - s
           d == [i \in 1 .. n |-> k + 1 - i]
<1>1. PICK p : IsList(q, n, p, d)
  BY DEF InQueue, IsWholeList
<1>2. q.size = n /\ (n # 0 => q.node[q.tail].data = d[n])
  BY <1>1, ListFields
<1>3. n \in Nat /\ (n # 0 => d[n] = s + 1)
  OBVIOUS
<1> QED BY <1>2, <1>3 DEF QueuePeek

(* After a push one message more is in the queue.                          *)
LEMMA PushInQueue ==
  ASSUME NEW q, NEW k \in Nat, NEW s \in 0 .. k, InQueue(q, s, k), q.size # WORD_RANGE - 1
  PROVE  InQueue(QueuePush(q, k + 1), s, k + 1)
<1> DEFINE n == k - s
           d == [i \in 1 .. n |-> k + 1 - i]
           a == FreshAddress(q)
           r == QueuePush(q, k + 1)
<1>1. PICK p : IsWholeList(q, n, p, d)
  BY DEF InQueue
<1> HIDE DEF d
<1>2. IsList(q, n, p, d) /\ IsFiniteSet(DOMAIN q.node)
  BY <1>1, WholeListCount DEF IsWholeList
<1>3. n \in Nat /\ n + 1 < WORD_RANGE /\ n + 1 = (k + 1) - s
  <2>1. q.size = n /\ n < WORD_RANGE /\ WORD_RANGE \in Nat /\ n \in Nat
    BY <1>2, ListFields
  <2> QED BY <2>1
<1> DEFINE pp == [i \in 1 .. (n + 1) |-> IF i = 1 THEN a ELSE p[i - 1]]
           dd == [i \in 1 .. (n + 1) |-> IF i = 1 THEN k + 1 ELSE d[i - 1]]
<1>4. IsList(r, n + 1, pp, dd)
  <2> HIDE DEF n
  <2>1. IsList(r, n + 1, InFront(n, a, p), InFront(n, k + 1, d))
    BY <1>2, <1>3, PushList
  <2> QED BY <2>1 DEF InFront
<1>5. DOMAIN r.node = DOMAIN q.node \cup {a}
  <2>1. IsPushed(q, n, k + 1, a, r)
    BY <1>2, PushNodes
  <2> HIDE DEF a, r
  <2> QED BY <2>1 DEF IsPushed
<1> HIDE DEF a, r
<1>6. DOMAIN r.node = {pp[i] : i \in 1 .. (n + 1)}
  <2>1. DOMAIN q.node = {p[i] : i \in 1 .. n}
    BY <1>1 DEF IsWholeList
  <2>2. pp[1] = a /\ 1 \in 1 .. (n + 1)
    BY <1>3
  <2>3. \A i \in 1 .. n : i + 1 \in 1 .. (n + 1) /\ pp[i + 1] = p[i]
    BY <1>3
  <2>4. \A i \in 1 .. (n + 1) : i = 1 \/ (i - 1 \in 1 .. n /\ pp[i] = p[i - 1])
    BY <1>3
  <2> HIDE DEF pp, n
  <2>5. \A i \in 1 .. (n + 1) : pp[i] \in DOMAIN r.node
    BY <1>5, <2>1, <2>2, <2>4
  <2>6. \A b \in DOMAIN r.node : \E i \in 1 .. (n + 1) : b = pp[i]
    BY <1>5, <2>1, <2>2, <2>3
  <2> QED BY <2>5, <2>6
<1>7. dd = [i \in 1 .. ((k + 1) - s) |-> (k + 1) + 1 - i]
  <2>1. \A i \in 1 .. (n + 1) : dd[i] = (k + 1) + 1 - i
    BY <1>3 DEF d
  <2> QED BY <1>3, <2>1
<1> HIDE DEF pp, dd
<1>8. n + 1 # 0
  BY <1>3
<1>9. IsWholeList(r, n + 1, pp, dd)
  BY <1>4, <1>6, <1>8 DEF IsWholeList
<1> HIDE DEF n
<1>10. IsWholeList(r, (k + 1) - s, pp, [i \in 1 .. ((k + 1) - s) |-> (k + 1) + 1 - i])
  BY <1>3, <1>7, <1>9
<1> QED BY <1>10 DEF InQueue, r

(* After a pop the oldest message is no longer in the queue.               *)
LEMMA PopInQueue ==
  ASSUME NEW q, NEW k \in Nat, NEW s \in 0 .. (k - 1), InQueue(q, s, k)
  PROVE  InQueue(QueuePopRemove(q), s + 1, k)
<1> DEFINE n == k - s
           d == [i \in 1 .. n |-> k + 1 - i]
           r == QueuePopRemove(q)
           m == n - 1
<1>1. PICK p : IsWholeList(q, n, p, d)
  BY DEF InQueue
<1>2. n \in Nat \ {0} /\ m \in Nat /\ k - (s + 1) = m /\ n # 0
  OBVIOUS
<1> DEFINE pp == [i \in 1 .. m |-> p[i]]
           dd == [i \in 1 .. m |-> d[i]]
<1>3. dd = [i \in 1 .. (k - (s + 1)) |-> k + 1 - i]
  BY <1>2
<1> HIDE DEF d
<1>4. /\ IsList(q, n, p, d)
      /\ DOMAIN q.node = {p[i] : i \in 1 .. n}
  BY <1>1 DEF IsWholeList
<1>5. IsList(r, m, pp, dd) /\ DOMAIN r.node = DOMAIN q.node \ {p[n]}
  BY <1>2, <1>4, PopList
<1>6. DOMAIN r.node = {pp[i] : i \in 1 .. m}
  <2>1. \A i, j \in 1 .. n : p[i] = p[j] => i = j
    BY <1>4 DEF IsList
  <2>2. \A i \in 1 .. m : i \in 1 .. n /\ i # n /\ pp[i] = p[i]
    BY <1>2
  <2>3. \A i \in 1 .. n : i = n \/ i \in 1 .. m
    BY <1>2
  <2>4. n \in 1 .. n
    BY <1>2
  <2> HIDE DEF pp, m, n, r
  <2>5. \A i \in 1 .. m : pp[i] \in DOMAIN r.node
    BY <1>4, <1>5, <2>1, <2>2, <2>4
  <2>6. \A b \in DOMAIN r.node : \E i \in 1 .. m : b = pp[i]
    BY <1>4, <1>5, <2>2, <2>3
  <2> QED BY <2>5, <2>6
<1>7. m = 0 => r.head = NULL /\ r.tail = NULL
  <2> SUFFICES ASSUME m = 0 PROVE r.head = NULL /\ r.tail = NULL
    OBVIOUS
  <2>1. q.size = 1
    BY <1>2, <1>4, ListFields
  <2>2. r = [head |-> NULL, tail |-> NULL, size |-> 0, node |-> DestroyQueueNode(q.node, q.head)]
    BY <2>1 DEF QueuePopRemove
  <2> HIDE DEF r
  <2> QED BY <2>2
<1> HIDE DEF pp, dd, r
<1>8. IsWholeList(r, m, pp, dd)
  BY <1>5, <1>6, <1>7 DEF IsWholeList
<1> HIDE DEF m
<1>9. IsWholeList(r, k - (s + 1), pp, [i \in 1 .. (k - (s + 1)) |-> k + 1 - i])
  BY <1>2, <1>3, <1>8
<1> QED BY <1>9 DEF InQueue, r

(* Until its size has come to zero again, the queue holds the messages not *)
(* yet sent, and the oldest of them is the one that is being sent.         *)
IsSent(m) == holder[m].total >= holder[m].toMove

Waiting(s) ==
  /\ \A m \in 1 .. accepted : IsSent(m) <=> m =< s
  /\ ~freed => /\ InQueue(queue, s, accepted)
               /\ sending = IF s = accepted THEN NULL ELSE s + 1
  /\ freed => InQueue(queue, accepted, accepted)

QueueInv ==
  (way = "toClient" /\ "wrapped" \notin excuses) => \E s \in 0 .. accepted : Waiting(s)

(* At the start there is no message.                                       *)
LEMMA InitQueue == Init => QueueInv
<1> SUFFICES ASSUME Init PROVE QueueInv
  OBVIOUS
<1>1. queue = [head |-> NULL, tail |-> NULL, size |-> 0, node |-> <<>>]
  BY DEF Init, QueueInit
<1>2. /\ queue = [head |-> queue.head, tail |-> queue.tail, size |-> queue.size, node |-> queue.node]
      /\ queue.head = NULL /\ queue.tail = NULL /\ queue.size = 0 /\ queue.node = <<>>
  BY <1>1
<1>3. InQueue(queue, 0, 0)
  BY <1>2, EmptyInQueue
<1>4. accepted = 0 /\ freed = FALSE /\ sending = NULL
  BY DEF Init
<1>5. Waiting(0)
  BY <1>3, <1>4 DEF Waiting
<1> QED BY <1>4, <1>5 DEF QueueInv

(* A message that is queued waits behind the others (AddMsgToQueue).       *)
LEMMA AddKeepsQueue == TypeInv /\ QueueInv /\ ManageMsgQueueAdd => QueueInv'
<1> SUFFICES ASSUME TypeInv, QueueInv, ManageMsgQueueAdd, "wrapped" \notin excuses'
             PROVE  \E s \in 0 .. accepted' : Waiting(s)'
  BY DEF QueueInv
<1> DEFINE k == accepted + 1
<1>1. /\ way = "toClient" /\ ~freed /\ freed' = freed
      /\ accepted \in Nat /\ k \in Messages /\ accepted' = k
      /\ "wrapped" \notin excuses /\ queue.size # WORD_RANGE - 1
  BY TypeInvParts DEF ManageMsgQueueAdd, Running, Excuse
<1>2. queue' = QueuePush(queue, k) /\ holder' = Append(holder, NewHolder(k))
      /\ sending' = IF sending = NULL THEN k ELSE sending
  BY <1>1 DEF ManageMsgQueueAdd
<1>3. PICK s \in 0 .. accepted : Waiting(s)
  BY <1>1 DEF QueueInv
<1>4. InQueue(queue', s, k)
  <2>1. InQueue(queue, s, accepted)
    BY <1>1, <1>3 DEF Waiting
  <2> QED BY <1>1, <1>2, <2>1, PushInQueue
<1>5. sending' = IF s = k THEN NULL ELSE s + 1
  <2>1. sending = IF s = accepted THEN NULL ELSE s + 1
    BY <1>1, <1>3 DEF Waiting
  <2> QED BY <1>1, <1>2, <2>1, MsgQueueAssumption
<1>6. ASSUME NEW m \in 1 .. accepted' PROVE IsSent(m)' <=> m =< s
  <2>1. /\ holder'[k] = NewHolder(k)
        /\ \A i \in 1 .. accepted : holder'[i] = holder[i]
    BY <1>1, <1>2, AppendHolder
  <2>2. CASE m = k
    <3>1. NewHolder(k).total = 0 /\ NewHolder(k).toMove \in Nat \ {0}
      BY <1>1, NewHolderType
    <3>2. ~(NewHolder(k).total >= NewHolder(k).toMove)
      BY <3>1
    <3> QED BY <1>1, <2>1, <2>2, <3>2 DEF IsSent
  <2>3. CASE m # k
    <3>1. m \in 1 .. accepted
      BY <1>1, <2>3
    <3>2. IsSent(m) <=> m =< s
      BY <1>3, <3>1 DEF Waiting
    <3> QED BY <2>1, <3>1, <3>2 DEF IsSent
  <2> QED BY <2>2, <2>3
<1> QED BY <1>1, <1>4, <1>5, <1>6 DEF Waiting

(* A completed send leaves its message at the tail, or removes it.         *)
LEMMA SendKeepsQueue == TypeInv /\ QueueInv /\ SendCompletes => QueueInv'
<1> SUFFICES ASSUME TypeInv, QueueInv, SendCompletes, "wrapped" \notin excuses'
             PROVE  \E s \in 0 .. accepted' : Waiting(s)'
  BY DEF QueueInv
<1>1. /\ way = "toClient" /\ ~freed /\ freed' = freed /\ sending # NULL
      /\ accepted \in Nat /\ accepted' = accepted
  BY TypeInvParts DEF SendCompletes, Running, WorkerSendOP
<1> DEFINE t == QueuePeek(queue)
<1>2. /\ t \in 1 .. accepted
      /\ \/ /\ \E h \in Holders : /\ holder' = [holder EXCEPT ![t] = h]
                                  /\ h.toMove = ToMove(t) /\ h.total < h.toMove
            /\ sending' = t /\ queue' = queue
            /\ excuses' \in {excuses, excuses \cup {"bodyOneCut"}}
         \/ /\ holder' = [holder EXCEPT ![t] = FreedHolder(t)]
            /\ ManageSendQueue(QueuePopRemove(queue))
            /\ excuses' = excuses
  BY SendCases
<1>3. "wrapped" \notin excuses
  BY <1>2
<1>4. PICK s \in 0 .. accepted : Waiting(s)
  BY <1>1, <1>3 DEF QueueInv
<1>5. /\ InQueue(queue, s, accepted) /\ s # accepted /\ sending = s + 1
      /\ \A m \in 1 .. accepted : IsSent(m) <=> m =< s
  BY <1>1, <1>4 DEF Waiting
<1>6. t = s + 1
  BY <1>1, <1>5, PeekInQueue
<1> HIDE DEF t
<1>7. holder \in [1 .. accepted -> Holders]
  BY DEF TypeInv
<1>8. CASE sending' = t /\ queue' = queue /\ \E h \in Holders :
             /\ holder' = [holder EXCEPT ![t] = h]
             /\ h.toMove = ToMove(t) /\ h.total < h.toMove
  <2>1. PICK h \in Holders : holder' = [holder EXCEPT ![t] = h] /\ h.total < h.toMove
    BY <1>8
  <2>2. h.total \in Nat /\ h.toMove \in Nat
    BY DEF Holders
  <2>3. ASSUME NEW m \in 1 .. accepted PROVE IsSent(m)' <=> m =< s
    <3>1. CASE m = t
      <4>1. holder'[m] = h /\ ~(h.total >= h.toMove) /\ ~(m =< s)
        BY <1>2, <1>6, <1>7, <2>1, <2>2, <3>1
      <4> QED BY <4>1 DEF IsSent
    <3>2. CASE m # t
      <4>1. holder'[m] = holder[m]
        BY <1>7, <2>1, <3>2
      <4>2. IsSent(m) <=> m =< s
        BY <1>5
      <4> QED BY <4>1, <4>2 DEF IsSent
    <3> QED BY <3>1, <3>2
  <2> QED BY <1>1, <1>5, <1>6, <1>8, <2>3 DEF Waiting
<1>9. CASE holder' = [holder EXCEPT ![t] = FreedHolder(t)] /\ ManageSendQueue(QueuePopRemove(queue))
  <2>1. s \in 0 .. (accepted - 1) /\ s + 1 \in 0 .. accepted
    BY <1>1, <1>5
  <2>2. queue' = QueuePopRemove(queue)
        /\ sending' = IF queue'.size = 0 THEN NULL ELSE QueuePeek(queue')
    BY <1>9 DEF ManageSendQueue
  <2>3. InQueue(queue', s + 1, accepted)
    <3>1. InQueue(QueuePopRemove(queue), s + 1, accepted)
      BY <1>1, <1>5, <2>1, PopInQueue
    <3> QED BY <2>2, <3>1
  <2>4. sending' = IF s + 1 = accepted THEN NULL ELSE (s + 1) + 1
    BY <1>1, <2>1, <2>2, <2>3, PeekInQueue
  <2>5. FreedHolder(t).total >= FreedHolder(t).toMove
    <3>1. t \in Messages
      BY <1>2, TypeInvParts
    <3>2. /\ FreedHolder(t).total = ToMove(t) /\ FreedHolder(t).toMove = ToMove(t)
          /\ ToMove(t) \in Nat \ {0}
      BY <3>1, NewHolderType
    <3> QED BY <3>2
  <2>6. ASSUME NEW m \in 1 .. accepted PROVE IsSent(m)' <=> m =< s + 1
    <3>1. CASE m = t
      <4>1. holder'[m] = FreedHolder(t) /\ m =< s + 1
        BY <1>2, <1>6, <1>7, <1>9, <3>1
      <4> QED BY <2>5, <4>1 DEF IsSent
    <3>2. CASE m # t
      <4>1. holder'[m] = holder[m]
        BY <1>7, <1>9, <3>2
      <4>2. IsSent(m) <=> m =< s
        BY <1>5
      <4>3. m =< s <=> m =< s + 1
        BY <1>6, <3>2
      <4> QED BY <4>1, <4>2, <4>3 DEF IsSent
    <3> QED BY <3>1, <3>2
  <2> QED BY <1>1, <2>1, <2>3, <2>4, <2>6 DEF Waiting
<1> QED BY <1>2, <1>8, <1>9

(* A queue that is destroyed has no node left (QueueDestroy).              *)
LEMMA FreeKeepsQueue == TypeInv /\ QueueInv /\ UserFree => QueueInv'
<1> SUFFICES ASSUME TypeInv, QueueInv, UserFree, "wrapped" \notin excuses'
             PROVE  \E s \in 0 .. accepted' : Waiting(s)'
  BY DEF QueueInv
<1>1. /\ way = "toClient" /\ ~freed /\ freed' /\ "wrapped" \notin excuses
      /\ accepted \in Nat /\ accepted' = accepted /\ holder' = holder
      /\ queue' = QueueDestroy(queue)
  BY TypeInvParts DEF UserFree, Running
<1>2. PICK s \in 0 .. accepted : Waiting(s)
  BY <1>1 DEF QueueInv
<1>3. PICK n, p, d : IsWholeList(queue, n, p, d)
  BY <1>1, <1>2 DEF Waiting, InQueue
<1>4. InQueue(queue', accepted, accepted)
  <2>1. /\ QueueDestroy(queue).node = [a \in {} |-> queue.node[a]]
        /\ QueueDestroy(queue).size = 0
        /\ QueueDestroy(queue).head = NULL /\ QueueDestroy(queue).tail = NULL
    BY <1>3, DestroyList
  <2>2. PICK nodes : QueueDestroy(queue) = [head |-> NULL, tail |-> NULL, size |-> 0, node |-> nodes]
    <3> DEFINE gone == ToSet(SubSeq(Follow(queue, queue.head, "next"), 1, queue.size))
               left == [a \in DOMAIN queue.node \ gone |-> queue.node[a]]
    <3>1. QueueDestroy(queue) = [QueueInit EXCEPT !.node = left]
      BY DEF QueueDestroy
    <3> HIDE DEF left
    <3>2. QueueDestroy(queue) = [head |-> NULL, tail |-> NULL, size |-> 0, node |-> left]
      BY <3>1 DEF QueueInit
    <3> QED BY <3>2
  <2>3. queue' = [head |-> queue'.head, tail |-> queue'.tail, size |-> queue'.size, node |-> queue'.node]
    BY <1>1, <2>2
  <2>4. DOMAIN queue'.node = {} /\ queue'.size = 0 /\ queue'.head = NULL /\ queue'.tail = NULL
    BY <1>1, <2>1
  <2> QED BY <1>1, <2>3, <2>4, EmptyInQueue
<1> QED BY <1>1, <1>2, <1>4 DEF Waiting, IsSent

(* The steps that receive, and those of a sending client.                  *)
LEMMA OthersKeepQueue ==
  QueueInv /\ (ClientRecvPacket \/ SocketPeek \/ SendPacket \/ WorkerRecvOP) => QueueInv'
<1> SUFFICES ASSUME QueueInv, ClientRecvPacket \/ SocketPeek \/ SendPacket \/ WorkerRecvOP
             PROVE  QueueInv'
  OBVIOUS
<1>1. CASE SendPacket \/ WorkerRecvOP
  BY <1>1 DEF SendPacket, WorkerRecvOP, QueueInv
<1>2. CASE ClientRecvPacket \/ SocketPeek
  <2>1. UNCHANGED <<way, accepted, queue, holder, sending, freed>>
    BY <1>2 DEF ClientRecvPacket, SocketPeek
  <2>2. excuses \subseteq excuses'
    BY <1>2 DEF ClientRecvPacket, SocketPeek, Excuse
  <2> QED BY <2>1, <2>2 DEF QueueInv, Waiting, IsSent
<1> QED BY <1>1, <1>2

(* QueueInv implies the invariant the runs check.                          *)
LEMMA QueueInvImpliesQueueIsList == TypeInv /\ QueueInv => QueueIsList
<1> SUFFICES ASSUME TypeInv, QueueInv, way = "toClient", "wrapped" \notin excuses
             PROVE  /\ WellLinked(queue)
                    /\ freed => DOMAIN queue.node = {}
                    /\ ~freed => QueueData(queue) =
                                   [k \in 1 .. accepted - Cardinality(SentWhole) |->
                                      Cardinality(SentWhole) + k]
  BY DEF QueueIsList
<1>1. accepted \in Nat /\ DOMAIN holder = 1 .. accepted
  BY TypeInvParts
<1>2. PICK s \in 0 .. accepted : Waiting(s)
  BY DEF QueueInv
<1>3. Cardinality(SentWhole) = s
  <2>1. SentWhole = {m \in 1 .. accepted : m =< s}
    BY <1>1, <1>2 DEF SentWhole, Waiting, IsSent
  <2>2. SentWhole = 1 .. s
    BY <1>1, <2>1
  <2>3. 1 \in Int /\ s \in Int /\ (IF 1 > s THEN 0 ELSE s - 1 + 1) = s
    BY <1>1
  <2>4. Cardinality(1 .. s) = IF 1 > s THEN 0 ELSE s - 1 + 1
    BY <2>3, FS_Interval
  <2> QED BY <2>2, <2>3, <2>4
<1>4. ASSUME ~freed
      PROVE  /\ WellLinked(queue)
             /\ QueueData(queue) = [k \in 1 .. (accepted - s) |-> s + k]
  <2> DEFINE n == accepted - s
             d == [i \in 1 .. n |-> accepted + 1 - i]
  <2>1. PICK p : IsWholeList(queue, n, p, d)
    BY <1>2, <1>4 DEF Waiting, InQueue
  <2>2. WellLinked(queue) /\ QueueData(queue) = [k \in 1 .. n |-> d[(n - k) + 1]]
    <3> HIDE DEF n, d
    <3> QED BY <2>1, WholeListIsWellLinked
  <2>3. \A k \in 1 .. n : d[(n - k) + 1] = s + k
    BY <1>1
  <2> QED BY <2>2, <2>3
<1>5. ASSUME freed PROVE WellLinked(queue) /\ DOMAIN queue.node = {}
  <2>1. PICK p, d : IsWholeList(queue, accepted - accepted, p, d)
    BY <1>2, <1>5 DEF Waiting, InQueue
  <2>2. WellLinked(queue)
    BY <2>1, WholeListIsWellLinked
  <2>3. DOMAIN queue.node = {p[i] : i \in 1 .. (accepted - accepted)}
    BY <2>1 DEF IsWholeList
  <2>4. 1 .. (accepted - accepted) = {}
    BY <1>1
  <2> QED BY <2>2, <2>3, <2>4
<1> QED BY <1>3, <1>4, <1>5

(* Every step keeps what is in the queue.                                  *)
LEMMA QueueStep == TypeInv /\ QueueInv /\ [Next]_vars => QueueInv'
<1> SUFFICES ASSUME TypeInv, QueueInv, [Next]_vars PROVE QueueInv'
  OBVIOUS
<1>1. CASE ManageMsgQueueAdd
  BY <1>1, AddKeepsQueue
<1>2. CASE SendCompletes
  BY <1>2, SendKeepsQueue
<1>3. CASE UserFree
  BY <1>3, FreeKeepsQueue
<1>4. CASE ClientRecvPacket \/ SocketPeek \/ SendPacket \/ WorkerRecvOP
  BY <1>4, OthersKeepQueue
<1>5. CASE UNCHANGED vars
  BY <1>5 DEF vars, QueueInv, Waiting, IsSent
<1> QED BY <1>1, <1>2, <1>3, <1>4, <1>5 DEF Next

(* The send queue is a list linked both ways whose data are the messages   *)
(* not yet sent in their order, through every push of AddMsgToQueue, every *)
(* pop of ManageSendQueue and the destroy of UserFreeFunction, until its   *)
(* 16 bit size has come to zero with messages in it.                       *)
THEOREM QueueStaysList == Spec => []QueueIsList
<1>1. Spec => []TypeInv
  BY InitTyped, TypeInvStep, PTL DEF Spec
<1> QED BY <1>1, QueueStep, InitQueue, QueueInvImpliesQueueIsList, PTL DEF Spec

----------------------------------------------------------------------------
(* Packets one after another.                                              *)

(* Three lists joined.                                                     *)
LEMMA FlattenThree ==
  ASSUME NEW S, NEW seqs \in [1 .. 3 -> Seq(S)]
  PROVE  FlattenSeq(seqs) = (seqs[1] \o seqs[2]) \o seqs[3]
<1>1. PICK f : Joins(f, 3, seqs, S) /\ FlattenSeq(seqs) = f[3]
  <2>1. 3 \in Nat \ {0}
    OBVIOUS
  <2> QED BY <2>1, FlattenSteps
<1>2. f[1] = seqs[1]
  BY <1>1 DEF Joins
<1>3. f[2] = f[1] \o seqs[2]
  BY <1>1 DEF Joins
<1>4. f[3] = f[2] \o seqs[3]
  BY <1>1 DEF Joins
<1> QED BY <1>1, <1>2, <1>3, <1>4

(* One list more.                                                          *)
LEMMA FlattenMore ==
  ASSUME NEW S, NEW c \in Nat, NEW seqs \in [1 .. (c + 1) -> Seq(S)]
  PROVE  FlattenSeq(seqs) = FlattenSeq([i \in 1 .. c |-> seqs[i]]) \o seqs[c + 1]
<1> DEFINE front == [i \in 1 .. c |-> seqs[i]]
<1>1. PICK f : Joins(f, c + 1, seqs, S) /\ FlattenSeq(seqs) = f[c + 1]
  BY FlattenSteps
<1>2. front \in [1 .. c -> Seq(S)]
  OBVIOUS
<1>3. seqs[c + 1] \in Seq(S) /\ c + 1 \in 1 .. (c + 1) /\ (c + 1) - 1 = c
  OBVIOUS
<1>4. CASE c = 0
  <2>1. f[1] = seqs[1]
    BY <1>1, <1>4 DEF Joins
  <2>2. front = <<>>
    BY <1>4
  <2>3. FlattenSeq(<<>>) = <<>>
    BY DEF FlattenSeq
  <2>4. <<>> \o seqs[1] = seqs[1]
    BY <1>3, <1>4, ConcatEmptySeq
  <2> QED BY <1>1, <1>4, <2>1, <2>2, <2>3, <2>4
<1>5. CASE c # 0
  <2> HIDE DEF front
  <2>1. PICK g : Joins(g, c, front, S) /\ FlattenSeq(front) = g[c]
    BY <1>2, <1>5, FlattenSteps
  <2> DEFINE Same == {k \in Nat : k + 1 \in 1 .. c => f[k + 1] = g[k + 1]}
  <2>2. ASSUME NEW i \in 1 .. c
        PROVE  /\ f[i] = IF i = 1 THEN seqs[i] ELSE f[i - 1] \o seqs[i]
               /\ g[i] = IF i = 1 THEN seqs[i] ELSE g[i - 1] \o seqs[i]
    <3>1. front[i] = seqs[i]
      BY DEF front
    <3>2. i \in 1 .. (c + 1)
      OBVIOUS
    <3>3. f[i] = IF i = 1 THEN seqs[i] ELSE f[i - 1] \o seqs[i]
      BY <1>1, <3>2, Zenon DEF Joins
    <3>4. g[i] = IF i = 1 THEN front[i] ELSE g[i - 1] \o front[i]
      BY <2>1, Zenon DEF Joins
    <3> QED BY <3>1, <3>3, <3>4
  <2>3. 0 \in Same
    BY <2>2, <1>5
  <2>4. ASSUME NEW k \in Same PROVE k + 1 \in Same
    <3> SUFFICES ASSUME k + 2 \in 1 .. c PROVE f[k + 2] = g[k + 2]
      OBVIOUS
    <3>1. k + 1 \in 1 .. c /\ k + 2 # 1 /\ (k + 2) - 1 = k + 1
      OBVIOUS
    <3>2. f[k + 1] = g[k + 1]
      BY <3>1
    <3> QED BY <2>2, <3>1, <3>2
  <2>5. Same = Nat
    <3>1. Same \in SUBSET Nat
      OBVIOUS
    <3> HIDE DEF Same
    <3> QED BY <2>3, <2>4, <3>1, InductionOnNat
  <2>6. f[c] = g[c]
    <3>1. c - 1 \in Nat /\ (c - 1) + 1 = c /\ c \in 1 .. c
      BY <1>5
    <3>2. c - 1 \in Same
      BY <2>5, <3>1
    <3> QED BY <3>1, <3>2
  <2>7. f[c + 1] = f[c] \o seqs[c + 1]
    <3>1. f[c + 1] = IF c + 1 = 1 THEN seqs[c + 1] ELSE f[(c + 1) - 1] \o seqs[c + 1]
      BY <1>1, <1>3, Zenon DEF Joins
    <3>2. c + 1 # 1
      BY <1>5
    <3> QED BY <1>3, <3>1, <3>2
  <2> QED BY <1>1, <2>1, <2>6, <2>7 DEF front
<1> QED BY <1>4, <1>5

(* The first k packets in order, what SentRight is about.                  *)
Flat(k) == FlattenSeq([m \in 1 .. k |-> PacketOf(m)])

(* Of no message there is no byte.                                         *)
LEMMA FlatNone == Flat(0) = <<>>
<1>1. [m \in 1 .. 0 |-> PacketOf(m)] = <<>>
  OBVIOUS
<1>2. FlattenSeq(<<>>) = <<>>
  BY DEF FlattenSeq
<1> QED BY <1>1, <1>2 DEF Flat

(* They are bytes.                                                         *)
LEMMA FlatType ==
  ASSUME NEW k \in 0 .. Len(Lengths)
  PROVE  Flat(k) \in Seq(Byte)
<1> HIDE DEF Byte
<1>1. k \in Nat /\ 1 .. k \in SUBSET Messages
  BY LengthsCount DEF Messages
<1>2. \A m \in 1 .. k : PacketOf(m) \in Seq(Byte)
  BY <1>1, PacketType
<1>3. [m \in 1 .. k |-> PacketOf(m)] \in [1 .. k -> Seq(Byte)]
  BY <1>2
<1> QED BY <1>1, <1>3, FlattenAny DEF Flat

(* The next packet follows them.                                           *)
LEMMA FlatMore ==
  ASSUME NEW k \in 0 .. Len(Lengths), k < Len(Lengths)
  PROVE  /\ k + 1 \in Messages /\ PacketOf(k + 1) \in Seq(Byte)
         /\ Flat(k + 1) = Flat(k) \o PacketOf(k + 1)
<1> HIDE DEF Byte
<1> DEFINE seqs == [m \in 1 .. (k + 1) |-> PacketOf(m)]
<1>1. k \in Nat /\ 1 .. (k + 1) \in SUBSET Messages /\ k + 1 \in Messages
  BY LengthsCount DEF Messages
<1>2. \A m \in 1 .. (k + 1) : PacketOf(m) \in Seq(Byte)
  BY <1>1, PacketType
<1>3. seqs \in [1 .. (k + 1) -> Seq(Byte)]
  BY <1>2
<1>4. [i \in 1 .. k |-> seqs[i]] = [m \in 1 .. k |-> PacketOf(m)] /\ seqs[k + 1] = PacketOf(k + 1)
  BY <1>1
<1> HIDE DEF seqs
<1>5. FlattenSeq(seqs) = FlattenSeq([i \in 1 .. k |-> seqs[i]]) \o seqs[k + 1]
  BY <1>1, <1>3, FlattenMore
<1>6. FlattenSeq(seqs) = FlattenSeq([m \in 1 .. k |-> PacketOf(m)]) \o PacketOf(k + 1)
  BY <1>4, <1>5
<1>7. Flat(k + 1) = FlattenSeq(seqs) /\ Flat(k) = FlattenSeq([m \in 1 .. k |-> PacketOf(m)])
  BY DEF Flat, seqs
<1>8. PacketOf(k + 1) \in Seq(Byte)
  BY <1>1, PacketType
<1> QED BY <1>1, <1>6, <1>7, <1>8

(* To be a beginning of a list is to have its elements as far as it goes.  *)
LEMMA PrefixIsElements ==
  ASSUME NEW S, NEW s \in Seq(S), NEW t \in Seq(S)
  PROVE  IsPrefix(s, t) <=> Len(s) =< Len(t) /\ \A i \in 1 .. Len(s) : s[i] = t[i]
<1>1. Len(s) \in Nat /\ Len(t) \in Nat
  OBVIOUS
<1>2. SubSeq(s, 1, Len(s)) = s
  BY SubSeqFull
<1>3. ASSUME Len(s) =< Len(t)
      PROVE  /\ SubSeq(t, 1, Len(s)) \in Seq(S) /\ Len(SubSeq(t, 1, Len(s))) = Len(s)
             /\ \A i \in 1 .. Len(s) : SubSeq(t, 1, Len(s))[i] = t[i]
  <2>1. \A i \in 1 .. Len(s) : t[i] \in S
    <3>1. \A i \in 1 .. Len(s) : i \in 1 .. Len(t)
      BY <1>1, <1>3
    <3> QED BY <3>1, ElementOfSeq
  <2>2. 1 \in Int /\ Len(s) \in Int /\ (IF 1 =< Len(s) THEN Len(s) - 1 + 1 ELSE 0) = Len(s)
    BY <1>1
  <2>3. /\ SubSeq(t, 1, Len(s)) \in Seq(S)
        /\ Len(SubSeq(t, 1, Len(s))) = IF 1 =< Len(s) THEN Len(s) - 1 + 1 ELSE 0
        /\ \A i \in 1 .. Len(s) - 1 + 1 : SubSeq(t, 1, Len(s))[i] = t[1 + i - 1]
    BY <2>1, <2>2, SubSeqProperties
  <2>4. \A i \in 1 .. Len(s) : i \in 1 .. Len(s) - 1 + 1 /\ 1 + i - 1 = i
    BY <1>1
  <2> QED BY <2>2, <2>3, <2>4
<1>4. ASSUME IsPrefix(s, t) PROVE \A i \in 1 .. Len(s) : s[i] = t[i]
  <2>1. Len(s) =< Len(t) /\ s = SubSeq(t, 1, Len(s))
    BY <1>2, <1>4 DEF IsPrefix
  <2> QED BY <1>3, <2>1
<1>5. ASSUME Len(s) =< Len(t), \A i \in 1 .. Len(s) : s[i] = t[i] PROVE IsPrefix(s, t)
  <2>1. s = SubSeq(t, 1, Len(s))
    BY <1>3, <1>5, SeqEqual
  <2> QED BY <1>2, <1>5, <2>1 DEF IsPrefix
<1> QED BY <1>4, <1>5 DEF IsPrefix

----------------------------------------------------------------------------
(* The bytes of a packet.                                                  *)

(* What three buffers name, when no transfer is longer than REACH.         *)
NamedBy(bufs, k) ==
  IF k =< bufs[1].len THEN <<1, bufs[1].at + k - 1>>
  ELSE IF k =< bufs[1].len + bufs[2].len THEN <<2, bufs[2].at + (k - bufs[1].len) - 1>>
  ELSE <<3, bufs[3].at + (k - (bufs[1].len + bufs[2].len)) - 1>>

(* Places names them in the order of the buffers.                          *)
LEMMA PlacesThree ==
  ASSUME NEW bufs, \A i \in 1 .. 3 : bufs[i] \in Bufs /\ bufs[i].len =< REACH
  PROVE  /\ Places(bufs) \in Seq((1 .. 3) \X Nat)
         /\ Len(Places(bufs)) = bufs[1].len + bufs[2].len + bufs[3].len
         /\ \A k \in 1 .. (bufs[1].len + bufs[2].len + bufs[3].len) : Places(bufs)[k] = NamedBy(bufs, k)
<1> DEFINE S == (1 .. 3) \X Nat
           Named(i) == [k \in 1 .. bufs[i].len |-> <<i, bufs[i].at + k - 1>>]
           named == [i \in 1 .. 3 |-> Named(i)]
           first == Named(1) \o Named(2)
           all == first \o Named(3)
<1>1. ASSUME NEW i \in 1 .. 3
      PROVE  /\ bufs[i].len \in Nat /\ bufs[i].at \in Nat
             /\ (IF bufs[i].len < REACH THEN bufs[i].len ELSE REACH) = bufs[i].len
             /\ Named(i) \in Seq(S) /\ Len(Named(i)) = bufs[i].len
             /\ \A k \in 1 .. bufs[i].len : Named(i)[k] = <<i, bufs[i].at + k - 1>>
  <2>1. bufs[i].at \in Nat /\ bufs[i].len \in Nat
    BY DEF Bufs
  <2>2. (IF bufs[i].len < REACH THEN bufs[i].len ELSE REACH) = bufs[i].len
    BY <2>1 DEF REACH
  <2>3. \A k \in 1 .. bufs[i].len : bufs[i].at + k - 1 \in Nat
    BY <2>1
  <2>4. \A k \in 1 .. bufs[i].len : <<i, bufs[i].at + k - 1>> \in S
    BY <2>3
  <2> HIDE DEF S
  <2>5. Named(i) \in [1 .. bufs[i].len -> S]
    BY <2>4
  <2>6. \A k \in 1 .. bufs[i].len : Named(i)[k] = <<i, bufs[i].at + k - 1>>
    OBVIOUS
  <2> HIDE DEF Named
  <2>7. Named(i) \in Seq(S) /\ Len(Named(i)) = bufs[i].len
    BY <2>1, <2>5
  <2> QED BY <2>1, <2>2, <2>6, <2>7
<1>2. Places(bufs) = FlattenSeq(named)
  <2> DEFINE full == [i \in 1 .. 3 |->
                [k \in 1 .. (IF bufs[i].len < REACH THEN bufs[i].len ELSE REACH) |->
                  <<i, bufs[i].at + k - 1>>]]
  <2>1. full = named
    BY <1>1
  <2>2. Places(bufs) = FlattenSeq(full)
    BY DEF Places
  <2> HIDE DEF full, named
  <2> QED BY <2>1, <2>2
<1> HIDE DEF Named, S
<1>3. named \in [1 .. 3 -> Seq(S)] /\ named[1] = Named(1) /\ named[2] = Named(2) /\ named[3] = Named(3)
  BY <1>1
<1> HIDE DEF named
<1>4. Places(bufs) = all
  <2>1. FlattenSeq(named) = (named[1] \o named[2]) \o named[3]
    BY <1>3, FlattenThree
  <2> QED BY <1>2, <1>3, <2>1
<1>5. /\ first \in Seq(S) /\ Len(first) = bufs[1].len + bufs[2].len
      /\ \A k \in 1 .. (bufs[1].len + bufs[2].len) :
           first[k] = IF k =< bufs[1].len THEN Named(1)[k] ELSE Named(2)[k - bufs[1].len]
  <2>1. Named(1) \in Seq(S) /\ Named(2) \in Seq(S)
        /\ Len(Named(1)) = bufs[1].len /\ Len(Named(2)) = bufs[2].len
    BY <1>1
  <2>2. PICK u \in Seq(S), v \in Seq(S) : u = Named(1) /\ v = Named(2)
    BY <2>1
  <2>3. /\ u \o v \in Seq(S) /\ Len(u \o v) = Len(u) + Len(v)
        /\ \A k \in 1 .. (Len(u) + Len(v)) : (u \o v)[k] = IF k =< Len(u) THEN u[k] ELSE v[k - Len(u)]
    BY ConcatProperties
  <2> QED BY <2>1, <2>2, <2>3
<1> HIDE DEF first
<1>6. /\ all \in Seq(S) /\ Len(all) = bufs[1].len + bufs[2].len + bufs[3].len
      /\ \A k \in 1 .. (bufs[1].len + bufs[2].len + bufs[3].len) :
           all[k] = IF k =< bufs[1].len + bufs[2].len THEN first[k]
                    ELSE Named(3)[k - (bufs[1].len + bufs[2].len)]
  <2>1. Named(3) \in Seq(S) /\ Len(Named(3)) = bufs[3].len
    BY <1>1
  <2>2. /\ all \in Seq(S) /\ Len(all) = Len(first) + Len(Named(3))
        /\ \A k \in 1 .. (Len(first) + Len(Named(3))) :
             all[k] = IF k =< Len(first) THEN first[k] ELSE Named(3)[k - Len(first)]
    BY <1>5, <2>1, ConcatProperties
  <2> QED BY <1>5, <2>1, <2>2
<1> HIDE DEF all
<1>7. PICK a \in Nat, b \in Nat, c \in Nat : a = bufs[1].len /\ b = bufs[2].len /\ c = bufs[3].len
  BY <1>1
<1>8. PICK x, y, z \in Nat : /\ \A j \in 1 .. a : Named(1)[j] = <<1, x + j - 1>>
                             /\ \A j \in 1 .. b : Named(2)[j] = <<2, y + j - 1>>
                             /\ \A j \in 1 .. c : Named(3)[j] = <<3, z + j - 1>>
                             /\ bufs[1].at = x /\ bufs[2].at = y /\ bufs[3].at = z
  <2>1. PICK x, y, z \in Nat : bufs[1].at = x /\ bufs[2].at = y /\ bufs[3].at = z
    <3>1. \A i \in 1 .. 3 : bufs[i].at \in Nat
      BY <1>1, Zenon
    <3> QED BY <3>1
  <2>2. 1 \in 1 .. 3 /\ 2 \in 1 .. 3 /\ 3 \in 1 .. 3
    OBVIOUS
  <2>3. \A j \in 1 .. a : Named(1)[j] = <<1, x + j - 1>>
    BY <1>1, <1>7, <2>1, <2>2, Zenon
  <2>4. \A j \in 1 .. b : Named(2)[j] = <<2, y + j - 1>>
    BY <1>1, <1>7, <2>1, <2>2, Zenon
  <2>5. \A j \in 1 .. c : Named(3)[j] = <<3, z + j - 1>>
    BY <1>1, <1>7, <2>1, <2>2, Zenon
  <2> QED BY <2>1, <2>3, <2>4, <2>5
<1>9. ASSUME NEW k \in 1 .. (a + b + c) PROVE all[k] = NamedBy(bufs, k)
  <2>1. k \in 1 .. (bufs[1].len + bufs[2].len + bufs[3].len) /\ k \in Nat
    BY <1>7, <1>9
  <2>2. all[k] = IF k =< a + b THEN first[k] ELSE Named(3)[k - (a + b)]
    BY <1>6, <1>7, <2>1
  <2>3. CASE k =< a
    <3>1. k =< a + b /\ k \in 1 .. (a + b) /\ k \in 1 .. a
      BY <2>3
    <3>2. all[k] = Named(1)[k]
      BY <1>5, <1>7, <2>2, <2>3, <3>1
    <3>3. Named(1)[k] = <<1, x + k - 1>>
      BY <1>8, <3>1
    <3>4. NamedBy(bufs, k) = <<1, x + k - 1>>
      BY <1>7, <1>8, <2>3 DEF NamedBy
    <3> QED BY <3>2, <3>3, <3>4
  <2>4. CASE ~(k =< a) /\ k =< a + b
    <3>1. k \in 1 .. (a + b) /\ k - a \in 1 .. b
      BY <2>4
    <3>2. all[k] = Named(2)[k - a]
      BY <1>5, <1>7, <2>2, <2>4, <3>1
    <3>3. Named(2)[k - a] = <<2, y + (k - a) - 1>>
      BY <1>8, <3>1
    <3>4. NamedBy(bufs, k) = <<2, y + (k - a) - 1>>
      BY <1>7, <1>8, <2>4 DEF NamedBy
    <3> QED BY <3>2, <3>3, <3>4
  <2>5. CASE ~(k =< a + b)
    <3>1. k - (a + b) \in 1 .. c /\ ~(k =< a)
      BY <2>5
    <3>2. all[k] = Named(3)[k - (a + b)]
      BY <2>2, <2>5
    <3>3. Named(3)[k - (a + b)] = <<3, z + (k - (a + b)) - 1>>
      BY <1>8, <3>1
    <3>4. NamedBy(bufs, k) = <<3, z + (k - (a + b)) - 1>>
      BY <1>7, <1>8, <2>5, <3>1 DEF NamedBy
    <3> QED BY <3>2, <3>3, <3>4
  <2>6. a + b \in Nat
    OBVIOUS
  <2> QED BY <2>3, <2>4, <2>5
<1> QED BY <1>4, <1>6, <1>7, <1>9 DEF S

(* Where byte p of packet m lies, counted from zero: in the header, in the *)
(* first body or in the second.                                            *)
BodyTwoAt(m) == HEADER_LEN + 2 * Lengths[m][1]
Place(m, p) ==
  IF p < HEADER_LEN THEN <<1, p>>
  ELSE IF p < BodyTwoAt(m) THEN <<2, p - HEADER_LEN>> ELSE <<3, p - BodyTwoAt(m)>>

(* The buffers name the bytes of packet m from t to before q.              *)
Names(bufs, m, t, q) ==
  /\ Places(bufs) \in Seq((1 .. 3) \X Nat) /\ Len(Places(bufs)) = q - t
  /\ \A k \in 1 .. (q - t) : Places(bufs)[k] = Place(m, t + k - 1)

(* The buffers of what is left of packet m when t bytes have moved.        *)
RestBufs(m, bufs, t) ==
  \/ /\ t < HEADER_LEN
     /\ bufs[1] = Buf(t, HEADER_LEN - t)
     /\ bufs[2] = Buf(0, 2 * Lengths[m][1]) /\ bufs[3] = Buf(0, 2 * Lengths[m][2])
  \/ /\ t >= HEADER_LEN /\ t < BodyTwoAt(m)
     /\ bufs[1] \in Bufs /\ bufs[1].len = 0
     /\ bufs[2] = Buf(t - HEADER_LEN, BodyTwoAt(m) - t) /\ bufs[3] = Buf(0, 2 * Lengths[m][2])
  \/ /\ t >= BodyTwoAt(m)
     /\ bufs[1] \in Bufs /\ bufs[1].len = 0
     /\ bufs[2] \in Bufs /\ bufs[2].len = 0
     /\ bufs[3] = Buf(t - BodyTwoAt(m), ToMove(m) - t)

(* The numbers of a packet.                                                *)
LEMMA PacketNumbers ==
  ASSUME NEW m \in Messages
  PROVE  \E a, b \in 0 .. 3 : /\ Lengths[m][1] = a /\ Lengths[m][2] = b
                              /\ BodyTwoAt(m) = 7 + 2 * a /\ ToMove(m) = 7 + 2 * a + 2 * b
                              /\ HEADER_LEN = 7
<1>1. PICK a, b \in 0 .. 3 : a = Lengths[m][1] /\ b = Lengths[m][2]
  BY LengthsType
<1>2. BodyTwoAt(m) = 7 + 2 * a /\ ToMove(m) = 7 + 2 * a + 2 * b
  BY <1>1 DEF BodyTwoAt, ToMove, HEADER_LEN
<1> QED BY <1>1, <1>2 DEF HEADER_LEN

(* Such buffers name the bytes they are meant to.                          *)
LEMMA RestNames ==
  ASSUME NEW m \in Messages, NEW t \in 0 .. ToMove(m), NEW bufs, RestBufs(m, bufs, t)
  PROVE  Names(bufs, m, t, ToMove(m))
<1>1. PICK a, b \in 0 .. 3 : /\ Lengths[m][1] = a /\ Lengths[m][2] = b
                             /\ BodyTwoAt(m) = 7 + 2 * a /\ ToMove(m) = 7 + 2 * a + 2 * b
                             /\ HEADER_LEN = 7
  BY PacketNumbers
<1>2. t \in Nat /\ t =< 7 + 2 * a + 2 * b
  BY <1>1
<1>3. ASSUME \A i \in 1 .. 3 : bufs[i] \in Bufs /\ bufs[i].len =< REACH,
             bufs[1].len + bufs[2].len + bufs[3].len = ToMove(m) - t,
             \A k \in 1 .. (ToMove(m) - t) : NamedBy(bufs, k) = Place(m, t + k - 1)
      PROVE  Names(bufs, m, t, ToMove(m))
  BY <1>3, PlacesThree DEF Names
<1>4. CASE t < 7
  <2>1. bufs[1] = Buf(t, 7 - t) /\ bufs[2] = Buf(0, 2 * a) /\ bufs[3] = Buf(0, 2 * b)
    BY <1>1, <1>2, <1>4 DEF RestBufs
  <2>2. /\ bufs[1].at = t /\ bufs[1].len = 7 - t /\ bufs[2].at = 0 /\ bufs[2].len = 2 * a
        /\ bufs[3].at = 0 /\ bufs[3].len = 2 * b
    BY <2>1 DEF Buf
  <2>3. \A i \in 1 .. 3 : bufs[i] \in Bufs /\ bufs[i].len =< REACH
    BY <1>2, <1>4, <2>1 DEF Buf, Bufs, REACH
  <2>4. \A k \in 1 .. (ToMove(m) - t) : NamedBy(bufs, k) = Place(m, t + k - 1)
    BY <1>1, <1>2, <1>4, <2>2 DEF NamedBy, Place
  <2>5. bufs[1].len + bufs[2].len + bufs[3].len = ToMove(m) - t
    BY <1>1, <1>2, <2>2
  <2> QED BY <1>3, <2>3, <2>4, <2>5
<1>5. CASE t >= 7 /\ t < 7 + 2 * a
  <2>1. bufs[1] \in Bufs /\ bufs[1].len = 0 /\ bufs[2] = Buf(t - 7, 7 + 2 * a - t) /\ bufs[3] = Buf(0, 2 * b)
    BY <1>1, <1>2, <1>5 DEF RestBufs
  <2>2. /\ bufs[2].at = t - 7 /\ bufs[2].len = 7 + 2 * a - t
        /\ bufs[3].at = 0 /\ bufs[3].len = 2 * b
    BY <2>1 DEF Buf
  <2>3. \A i \in 1 .. 3 : bufs[i] \in Bufs /\ bufs[i].len =< REACH
    BY <1>2, <1>5, <2>1 DEF Buf, Bufs, REACH
  <2>4. \A k \in 1 .. (ToMove(m) - t) : NamedBy(bufs, k) = Place(m, t + k - 1)
    BY <1>1, <1>2, <1>5, <2>1, <2>2 DEF NamedBy, Place
  <2>5. bufs[1].len + bufs[2].len + bufs[3].len = ToMove(m) - t
    BY <1>1, <1>2, <2>1, <2>2
  <2> QED BY <1>3, <2>3, <2>4, <2>5
<1>6. CASE t >= 7 + 2 * a
  <2>1. /\ bufs[1] \in Bufs /\ bufs[1].len = 0 /\ bufs[2] \in Bufs /\ bufs[2].len = 0
        /\ bufs[3] = Buf(t - (7 + 2 * a), 7 + 2 * a + 2 * b - t)
    BY <1>1, <1>2, <1>6 DEF RestBufs
  <2>2. bufs[3].at = t - (7 + 2 * a) /\ bufs[3].len = 7 + 2 * a + 2 * b - t
    BY <2>1 DEF Buf
  <2>3. \A i \in 1 .. 3 : bufs[i] \in Bufs /\ bufs[i].len =< REACH
    BY <1>2, <1>6, <2>1 DEF Buf, Bufs, REACH
  <2>4. \A k \in 1 .. (ToMove(m) - t) : NamedBy(bufs, k) = Place(m, t + k - 1)
    BY <1>1, <1>2, <1>6, <2>1, <2>2 DEF NamedBy, Place
  <2>5. bufs[1].len + bufs[2].len + bufs[3].len = ToMove(m) - t
    BY <1>1, <1>2, <2>1, <2>2
  <2> QED BY <1>3, <2>3, <2>4, <2>5
<1> QED BY <1>2, <1>4, <1>5, <1>6

(* The buffers of a new message name all of it.                            *)
LEMMA WholeNames ==
  ASSUME NEW m \in Messages
  PROVE  RestBufs(m, WholeBufs(m), 0) /\ Names(WholeBufs(m), m, 0, ToMove(m))
<1>1. PICK a, b \in 0 .. 3 : /\ Lengths[m][1] = a /\ Lengths[m][2] = b
                             /\ BodyTwoAt(m) = 7 + 2 * a /\ ToMove(m) = 7 + 2 * a + 2 * b
                             /\ HEADER_LEN = 7
  BY PacketNumbers
<1>2. Size(a) = 2 * a /\ Size(b) = 2 * b
  BY DEF Size
<1>3. WholeBufs(m) = <<Buf(0, 7), Buf(0, 2 * a), Buf(0, 2 * b)>>
  BY <1>1, <1>2 DEF WholeBufs
<1>4. RestBufs(m, WholeBufs(m), 0)
  BY <1>1, <1>3 DEF RestBufs
<1>5. 0 \in 0 .. ToMove(m)
  BY <1>1
<1> QED BY <1>4, <1>5, RestNames

(* What is gathered where the buffers name bytes of a packet.              *)
LEMMA GatherNames ==
  ASSUME NEW m \in Messages, NEW bufs, NEW t \in Nat, NEW q \in Nat, Names(bufs, m, t, q), NEW mems
  PROVE  /\ DOMAIN Gather(mems, bufs) = 1 .. (q - t)
         /\ \A k \in 1 .. (q - t) :
              Gather(mems, bufs)[k] = At(mems[Place(m, t + k - 1)[1]], Place(m, t + k - 1)[2])
<1> DEFINE place == Places(bufs)
<1>1. DOMAIN place = 1 .. (q - t) /\ \A k \in 1 .. (q - t) : place[k] = Place(m, t + k - 1)
  BY DEF Names
<1> HIDE DEF place
<1>2. Gather(mems, bufs) = [k \in 1 .. (q - t) |-> At(mems[place[k][1]], place[k][2])]
  BY <1>1 DEF Gather, place
<1> QED BY <1>1, <1>2

(* The bytes of a packet lie where Place says.                             *)
LEMMA PacketBytes ==
  ASSUME NEW m \in Messages
  PROVE  /\ PacketOf(m) \in Seq(Byte) /\ Len(PacketOf(m)) = ToMove(m)
         /\ \A k \in 1 .. ToMove(m) :
              PacketOf(m)[k] = At(MemoriesOf(m)[Place(m, k - 1)[1]], Place(m, k - 1)[2])
<1>1. ToMove(m) \in Nat
  BY NewHolderType
<1>2. PICK z \in Nat : z = 0
  OBVIOUS
<1>3. PICK bufs : bufs = WholeBufs(m)
  OBVIOUS
<1>4. Names(bufs, m, z, ToMove(m))
  BY <1>2, <1>3, WholeNames
<1> DEFINE bytes == Gather(MemoriesOf(m), bufs)
<1>5. /\ DOMAIN bytes = 1 .. (ToMove(m) - z)
      /\ \A k \in 1 .. (ToMove(m) - z) :
           bytes[k] = At(MemoriesOf(m)[Place(m, z + k - 1)[1]], Place(m, z + k - 1)[2])
  BY <1>1, <1>4, GatherNames
<1>6. PacketOf(m) = bytes
  BY <1>3 DEF PacketOf
<1> HIDE DEF bytes
<1>7. \A k \in 1 .. ToMove(m) : z + k - 1 = k - 1
  BY <1>1, <1>2
<1>8. ToMove(m) - z = ToMove(m)
  BY <1>1, <1>2
<1>9. PacketOf(m) \in Seq(Byte)
  BY PacketType
<1>10. DOMAIN PacketOf(m) = 1 .. Len(PacketOf(m)) /\ Len(PacketOf(m)) \in Nat
  BY <1>9
<1>11. Len(PacketOf(m)) = ToMove(m)
  BY <1>1, <1>5, <1>10, <1>6, <1>8
<1> QED BY <1>5, <1>9, <1>11, <1>6, <1>7, <1>8

(* What is sent from the buffers of the rest of a message is its rest.     *)
LEMMA GatherRest ==
  ASSUME NEW m \in Messages, NEW t \in 0 .. ToMove(m), NEW bufs, RestBufs(m, bufs, t)
  PROVE  /\ DOMAIN Gather(MemoriesOf(m), bufs) = 1 .. (ToMove(m) - t)
         /\ \A k \in 1 .. (ToMove(m) - t) : Gather(MemoriesOf(m), bufs)[k] = PacketOf(m)[t + k]
<1>1. ToMove(m) \in Nat /\ t \in Nat /\ t =< ToMove(m)
  BY NewHolderType
<1>2. Names(bufs, m, t, ToMove(m))
  BY RestNames
<1>3. ASSUME NEW k \in 1 .. (ToMove(m) - t)
      PROVE  Gather(MemoriesOf(m), bufs)[k] = PacketOf(m)[t + k]
  <2>1. t + k \in 1 .. ToMove(m) /\ (t + k) - 1 = t + k - 1
    BY <1>1
  <2>2. PacketOf(m)[t + k] = At(MemoriesOf(m)[Place(m, (t + k) - 1)[1]], Place(m, (t + k) - 1)[2])
    BY <2>1, PacketBytes
  <2>3. Gather(MemoriesOf(m), bufs)[k]
          = At(MemoriesOf(m)[Place(m, t + k - 1)[1]], Place(m, t + k - 1)[2])
    BY <1>1, <1>2, GatherNames
  <2> QED BY <2>1, <2>2, <2>3
<1> QED BY <1>1, <1>2, <1>3, GatherNames

----------------------------------------------------------------------------
(* What is on the wire.                                                    *)

(* The first packets are a beginning of those of more messages.            *)
LEMMA FlatGrows ==
  ASSUME NEW k \in 0 .. Len(Lengths), NEW n \in k .. Len(Lengths)
  PROVE  /\ Len(Flat(k)) =< Len(Flat(n))
         /\ \A i \in 1 .. Len(Flat(k)) : Flat(k)[i] = Flat(n)[i]
<1> HIDE DEF Byte
<1> DEFINE Begins(j) == /\ Len(Flat(k)) =< Len(Flat(j))
                        /\ \A i \in 1 .. Len(Flat(k)) : Flat(k)[i] = Flat(j)[i]
           Good == {d \in Nat : k + d =< Len(Lengths) => Begins(k + d)}
<1>1. k \in Nat /\ n \in Nat /\ Len(Lengths) \in Nat /\ n =< Len(Lengths) /\ k =< n
  BY LengthsCount
<1>2. Len(Flat(k)) \in Nat
  BY <1>1, FlatType
<1>3. 0 \in Good
  <2>1. k + 0 = k
    BY <1>1
  <2> QED BY <1>2, <2>1
<1>4. ASSUME NEW d \in Good PROVE d + 1 \in Good
  <2> SUFFICES ASSUME k + (d + 1) =< Len(Lengths) PROVE Begins(k + (d + 1))
    OBVIOUS
  <2>1. PICK j \in 0 .. Len(Lengths) : j = k + d /\ j < Len(Lengths) /\ k + (d + 1) = j + 1
    BY <1>1
  <2>2. Begins(j)
    BY <2>1
  <2>3. /\ Flat(j) \in Seq(Byte) /\ PacketOf(j + 1) \in Seq(Byte)
        /\ Flat(j + 1) = Flat(j) \o PacketOf(j + 1)
    BY <2>1, FlatType, FlatMore
  <2>4. Len(Flat(j)) \in Nat /\ Len(PacketOf(j + 1)) \in Nat
    BY <2>3
  <2>5. /\ Len(Flat(j + 1)) = Len(Flat(j)) + Len(PacketOf(j + 1))
        /\ \A i \in 1 .. (Len(Flat(j)) + Len(PacketOf(j + 1))) :
             Flat(j + 1)[i] = IF i =< Len(Flat(j)) THEN Flat(j)[i] ELSE PacketOf(j + 1)[i - Len(Flat(j))]
    BY <2>3, ConcatProperties
  <2>6. Len(Flat(k)) =< Len(Flat(j + 1))
    BY <1>2, <2>2, <2>4, <2>5
  <2>7. ASSUME NEW i \in 1 .. Len(Flat(k)) PROVE Flat(k)[i] = Flat(j + 1)[i]
    <3>1. i =< Len(Flat(j)) /\ i \in 1 .. (Len(Flat(j)) + Len(PacketOf(j + 1)))
      BY <1>2, <2>2, <2>4
    <3>2. Flat(j + 1)[i] = Flat(j)[i]
      BY <2>5, <3>1
    <3> QED BY <2>2, <3>2
  <2> QED BY <2>1, <2>6, <2>7
<1>5. Good = Nat
  <2>1. Good \in SUBSET Nat
    OBVIOUS
  <2> HIDE DEF Good
  <2> QED BY <1>3, <1>4, <2>1, InductionOnNat
<1>6. n - k \in Good /\ k + (n - k) = n
  <2>1. n - k \in Nat /\ k + (n - k) = n
    BY <1>1
  <2> QED BY <1>5, <2>1
<1> QED BY <1>1, <1>6

(* The packet behind the first k of them.                                  *)
LEMMA FlatAt ==
  ASSUME NEW n \in 0 .. Len(Lengths), NEW k \in 0 .. (n - 1)
  PROVE  /\ k + 1 \in Messages /\ Len(Flat(k)) \in Nat /\ Len(Flat(n)) \in Nat
         /\ Len(Flat(k + 1)) = Len(Flat(k)) + ToMove(k + 1)
         /\ Len(Flat(k)) + ToMove(k + 1) =< Len(Flat(n))
         /\ \A i \in 1 .. ToMove(k + 1) : Flat(n)[Len(Flat(k)) + i] = PacketOf(k + 1)[i]
<1> HIDE DEF Byte
<1>1. /\ n \in Nat /\ k \in Nat /\ Len(Lengths) \in Nat /\ k \in 0 .. Len(Lengths) /\ k < Len(Lengths)
      /\ k + 1 \in 0 .. Len(Lengths) /\ n \in (k + 1) .. Len(Lengths)
  BY LengthsCount
<1>2. /\ k + 1 \in Messages /\ PacketOf(k + 1) \in Seq(Byte)
      /\ Flat(k + 1) = Flat(k) \o PacketOf(k + 1)
  BY <1>1, FlatMore
<1>3. Flat(k) \in Seq(Byte) /\ Flat(n) \in Seq(Byte)
  BY <1>1, FlatType
<1>4. Len(PacketOf(k + 1)) = ToMove(k + 1)
  BY <1>2, PacketBytes
<1>5. Len(Flat(k)) \in Nat /\ Len(Flat(n)) \in Nat /\ ToMove(k + 1) \in Nat
  BY <1>2, <1>3, <1>4
<1>6. /\ Len(Flat(k + 1)) = Len(Flat(k)) + ToMove(k + 1)
      /\ \A i \in 1 .. (Len(Flat(k)) + ToMove(k + 1)) :
           Flat(k + 1)[i] = IF i =< Len(Flat(k)) THEN Flat(k)[i] ELSE PacketOf(k + 1)[i - Len(Flat(k))]
  BY <1>2, <1>3, <1>4, ConcatProperties
<1>7. /\ Len(Flat(k + 1)) =< Len(Flat(n))
      /\ \A i \in 1 .. Len(Flat(k + 1)) : Flat(k + 1)[i] = Flat(n)[i]
  BY <1>1, FlatGrows
<1>8. ASSUME NEW i \in 1 .. ToMove(k + 1) PROVE Flat(n)[Len(Flat(k)) + i] = PacketOf(k + 1)[i]
  <2>1. PICK j \in Nat : j = Len(Flat(k)) + i
    BY <1>5
  <2>2. j \in 1 .. (Len(Flat(k)) + ToMove(k + 1)) /\ ~(j =< Len(Flat(k))) /\ j - Len(Flat(k)) = i
    BY <1>5, <2>1
  <2>3. Flat(k + 1)[j] = PacketOf(k + 1)[i]
    BY <1>6, <2>2
  <2>4. Flat(k + 1)[j] = Flat(n)[j]
    BY <1>6, <1>7, <2>2
  <2> QED BY <2>1, <2>3, <2>4
<1> QED BY <1>2, <1>5, <1>6, <1>7, <1>8

(* A beginning of the packets of the messages so far.                      *)
Begins(bytes, n) ==
  /\ bytes \in Seq(Byte) /\ Len(bytes) \in Nat /\ Len(bytes) =< Len(Flat(n))
  /\ \A i \in 1 .. Len(bytes) : bytes[i] = Flat(n)[i]

(* That is what SentRight says.                                            *)
LEMMA BeginsIsSentRight ==
  ASSUME TypeInv
  PROVE  Begins(wire, accepted) <=> SentRight
<1> HIDE DEF Byte
<1>1. wire \in Seq(Byte) /\ Len(wire) \in Nat /\ accepted \in 0 .. Len(Lengths)
  BY DEF TypeInv
<1>2. Flat(accepted) \in Seq(Byte)
  BY <1>1, FlatType
<1>3. IsPrefix(wire, Flat(accepted))
        <=> Len(wire) =< Len(Flat(accepted)) /\ \A i \in 1 .. Len(wire) : wire[i] = Flat(accepted)[i]
  BY <1>1, <1>2, PrefixIsElements
<1> QED BY <1>1, <1>3 DEF Begins, SentRight, Flat

(* It is still one when there are more messages,                           *)
LEMMA BeginsMore ==
  ASSUME NEW k \in 0 .. Len(Lengths), NEW n \in k .. Len(Lengths), NEW bytes, Begins(bytes, k)
  PROVE  Begins(bytes, n)
<1> HIDE DEF Byte
<1>1. n \in 0 .. Len(Lengths)
  BY LengthsCount
<1>2. Flat(k) \in Seq(Byte) /\ Flat(n) \in Seq(Byte)
  BY <1>1, FlatType
<1>3. Len(Flat(k)) \in Nat /\ Len(Flat(n)) \in Nat
  BY <1>2
<1>4. /\ Len(Flat(k)) =< Len(Flat(n))
      /\ \A i \in 1 .. Len(Flat(k)) : Flat(k)[i] = Flat(n)[i]
  BY FlatGrows
<1>5. /\ bytes \in Seq(Byte) /\ Len(bytes) \in Nat /\ Len(bytes) =< Len(Flat(k))
      /\ \A i \in 1 .. Len(bytes) : bytes[i] = Flat(k)[i]
  BY DEF Begins
<1>6. \A i \in 1 .. Len(bytes) : i \in 1 .. Len(Flat(k))
  BY <1>3, <1>5
<1> QED BY <1>3, <1>4, <1>5, <1>6 DEF Begins

(* and when the next bytes of a packet are sent behind those before.       *)
GoesOn(bytes, n, k, t, rest, l) ==
  /\ n \in 0 .. Len(Lengths) /\ k \in 0 .. (n - 1) /\ t \in Nat /\ l \in Nat
  /\ Begins(bytes, n) /\ Len(bytes) = Len(Flat(k)) + t
  /\ rest \in Seq(Byte) /\ l =< Len(rest) /\ t + l =< ToMove(k + 1)
  /\ \A i \in 1 .. l : rest[i] = PacketOf(k + 1)[t + i]

(* What was sent then is still a beginning of the packets.                 *)
LEMMA BeginsWith ==
  ASSUME NEW bytes, NEW n, NEW k, NEW t, NEW rest, NEW l, GoesOn(bytes, n, k, t, rest, l)
  PROVE  /\ Begins(bytes \o SubSeq(rest, 1, l), n)
         /\ Len(bytes \o SubSeq(rest, 1, l)) = Len(Flat(k)) + (t + l)
<1>1. /\ n \in 0 .. Len(Lengths) /\ k \in 0 .. (n - 1) /\ t \in Nat /\ l \in Nat
      /\ Begins(bytes, n) /\ Len(bytes) = Len(Flat(k)) + t
      /\ rest \in Seq(Byte) /\ l =< Len(rest) /\ t + l =< ToMove(k + 1)
      /\ \A i \in 1 .. l : rest[i] = PacketOf(k + 1)[t + i]
  BY DEF GoesOn
<1> USE <1>1
<1> DEFINE longer == bytes \o SubSeq(rest, 1, l)
<1> HIDE DEF Byte
<1>2. /\ k + 1 \in Messages /\ Len(Flat(k)) \in Nat /\ Len(Flat(n)) \in Nat
      /\ Len(Flat(k)) + ToMove(k + 1) =< Len(Flat(n))
      /\ \A i \in 1 .. ToMove(k + 1) : Flat(n)[Len(Flat(k)) + i] = PacketOf(k + 1)[i]
  BY FlatAt
<1>3. ToMove(k + 1) \in Nat
  BY <1>2, NewHolderType
<1>4. /\ bytes \in Seq(Byte) /\ Len(bytes) \in Nat
      /\ \A i \in 1 .. Len(bytes) : bytes[i] = Flat(n)[i]
  BY DEF Begins
<1>5. /\ SubSeq(rest, 1, l) \in Seq(Byte) /\ Len(SubSeq(rest, 1, l)) = l
      /\ \A i \in 1 .. l : SubSeq(rest, 1, l)[i] = rest[i]
  <2>1. \A i \in 1 .. l : rest[i] \in Byte
    <3>1. \A i \in 1 .. l : i \in 1 .. Len(rest)
      OBVIOUS
    <3> QED BY <3>1, ElementOfSeq
  <2>2. 1 \in Int /\ l \in Int /\ (IF 1 =< l THEN l - 1 + 1 ELSE 0) = l
    OBVIOUS
  <2>3. /\ SubSeq(rest, 1, l) \in Seq(Byte)
        /\ Len(SubSeq(rest, 1, l)) = IF 1 =< l THEN l - 1 + 1 ELSE 0
        /\ \A i \in 1 .. l - 1 + 1 : SubSeq(rest, 1, l)[i] = rest[1 + i - 1]
    BY <2>1, <2>2, SubSeqProperties
  <2>4. \A i \in 1 .. l : i \in 1 .. l - 1 + 1 /\ 1 + i - 1 = i
    OBVIOUS
  <2> QED BY <2>2, <2>3, <2>4
<1>6. /\ longer \in Seq(Byte) /\ Len(longer) = Len(bytes) + l
      /\ \A i \in 1 .. (Len(bytes) + l) :
           longer[i] = IF i =< Len(bytes) THEN bytes[i] ELSE SubSeq(rest, 1, l)[i - Len(bytes)]
  <2>1. PICK part : part = SubSeq(rest, 1, l)
    OBVIOUS
  <2>2. part \in Seq(Byte) /\ Len(part) = l
    BY <1>5, <2>1
  <2>3. /\ bytes \o part \in Seq(Byte) /\ Len(bytes \o part) = Len(bytes) + Len(part)
        /\ \A i \in 1 .. (Len(bytes) + Len(part)) :
             (bytes \o part)[i] = IF i =< Len(bytes) THEN bytes[i] ELSE part[i - Len(bytes)]
    BY <1>4, <2>2, ConcatProperties
  <2>4. longer = bytes \o part
    BY <2>1 DEF longer
  <2> HIDE DEF longer
  <2> QED BY <2>1, <2>2, <2>3, <2>4
<1> HIDE DEF longer
<1>7. ASSUME NEW i \in 1 .. (Len(bytes) + l) PROVE longer[i] = Flat(n)[i]
  <2>1. CASE i =< Len(bytes)
    <3>1. i \in 1 .. Len(bytes)
      BY <1>4, <2>1
    <3> QED BY <1>4, <1>6, <2>1, <3>1
  <2>2. CASE ~(i =< Len(bytes))
    <3>1. i - Len(bytes) \in Nat
      BY <1>4, <2>2
    <3>2. PICK j \in Nat : j = i - Len(bytes)
      BY <3>1
    <3>3. j \in 1 .. l /\ t + j \in 1 .. ToMove(k + 1) /\ i = Len(Flat(k)) + (t + j)
      <4>1. PICK v \in Nat, w \in Nat, u \in Nat :
               /\ v = Len(Flat(k)) /\ w = Len(bytes) /\ u = ToMove(k + 1)
               /\ w = v + t /\ t + l =< u
        BY <1>2, <1>3, <1>4
      <4>2. i \in 1 .. (w + l) /\ ~(i =< w) /\ j = i - w
        BY <2>2, <3>2, <4>1
      <4>3. j \in 1 .. l /\ t + j \in 1 .. u /\ i = v + (t + j)
        BY <4>1, <4>2
      <4> QED BY <4>1, <4>3
    <3>4. longer[i] = rest[j]
      BY <1>5, <1>6, <2>2, <3>2, <3>3
    <3>5. rest[j] = PacketOf(k + 1)[t + j]
      BY <3>3
    <3>6. PICK x \in 1 .. ToMove(k + 1) : x = t + j
      BY <3>3
    <3>7. Flat(n)[i] = PacketOf(k + 1)[x]
      BY <1>2, <3>3, <3>6
    <3> QED BY <3>4, <3>5, <3>6, <3>7
  <2> QED BY <2>1, <2>2
<1>8. Len(longer) \in Nat /\ Len(longer) =< Len(Flat(n)) /\ Len(longer) = Len(Flat(k)) + (t + l)
  <2>1. PICK u \in Nat, v \in Nat, w \in Nat :
           u = ToMove(k + 1) /\ v = Len(Flat(k)) /\ w = Len(Flat(n)) /\ v + u =< w
    BY <1>2, <1>3
  <2>2. Len(longer) = (v + t) + l /\ t + l =< u
    BY <1>6, <2>1
  <2> QED BY <2>1, <2>2
<1>9. Begins(longer, n)
  <2>1. \A i \in 1 .. Len(longer) : longer[i] = Flat(n)[i]
    BY <1>6, <1>7
  <2> QED BY <1>6, <1>8, <2>1 DEF Begins
<1> QED BY <1>8, <1>9 DEF longer

----------------------------------------------------------------------------
(* The server sends the packets in their order, each once and whole.       *)

(* The first s messages were sent.  Of the next one a part was sent, which *)
(* is the end of what is on the wire, and its buffers name the rest; those *)
(* behind it are untouched.                                                *)
Counted(s) == \A m \in 1 .. accepted : IsSent(m) <=> m =< s

Wired(s) ==
  /\ Counted(s)
  /\ Begins(wire, accepted)
  /\ s = accepted => Len(wire) = Len(Flat(s))
  /\ s # accepted => Len(wire) = Len(Flat(s)) + holder[s + 1].total
  /\ \A m \in (s + 1) .. accepted : /\ RestBufs(m, holder[m].bufs, holder[m].total)
                                    /\ m # s + 1 => holder[m].total = 0

Clean == excuses \cap {"bodyOneCut", "wrapped"} = {}

WiredInv == (way = "toClient" /\ Clean /\ ~freed) => \E s \in 0 .. accepted : Wired(s)
SentInv == (way = "toClient" /\ Clean) => SentRight

(* How many messages were sent is one number.                              *)
LEMMA CountedOnce ==
  ASSUME accepted \in Nat, NEW s \in 0 .. accepted, NEW t \in 0 .. accepted, Counted(s), Counted(t)
  PROVE  s = t
<1>1. ASSUME NEW a \in 0 .. accepted, NEW b \in 0 .. accepted, Counted(a), Counted(b), a < b
      PROVE  FALSE
  <2>1. b \in 1 .. accepted /\ ~(b =< a) /\ b =< b
    BY <1>1
  <2>2. IsSent(b) /\ ~IsSent(b)
    BY <1>1, <2>1 DEF Counted
  <2> QED BY <2>2
<1>2. ~(s < t) /\ ~(t < s)
  BY <1>1
<1> QED BY <1>2

(* A message that is not sent whole is behind those that were.             *)
LEMMA NotSent ==
  ASSUME TypeInv, NEW m \in 1 .. accepted
  PROVE  /\ m \in Messages /\ holder[m] \in Holders /\ holder[m].toMove = ToMove(m)
         /\ holder[m].total \in Nat /\ ToMove(m) \in Nat
         /\ IsSent(m) <=> holder[m].total >= ToMove(m)
<1>1. m \in Messages
  BY TypeInvParts
<1>2. holder[m] \in Holders /\ holder[m].toMove = ToMove(m)
  BY DEF TypeInv
<1> QED BY <1>1, <1>2, NewHolderType DEF IsSent, Holders

(* At the start nothing was sent.                                          *)
LEMMA InitWired == Init => WiredInv
<1> SUFFICES ASSUME Init PROVE WiredInv
  OBVIOUS
<1>1. accepted = 0 /\ wire = <<>>
  BY DEF Init
<1>2. Begins(<<>>, 0)
  <2>1. Flat(0) = <<>>
    BY FlatNone
  <2>2. <<>> \in Seq(Byte) /\ Len(<<>>) = 0
    BY EmptySeq
  <2> QED BY <2>1, <2>2 DEF Begins
<1>3. Wired(0)
  <2>1. Len(Flat(0)) = 0 /\ Len(wire) = 0
    BY <1>1, FlatNone
  <2>2. \A m : m \notin 1 .. 0
    OBVIOUS
  <2> QED BY <1>1, <1>2, <2>1, <2>2 DEF Wired, Counted
<1> QED BY <1>1, <1>3 DEF WiredInv

(* A new message is behind the others (AddMsgToQueue).                     *)
LEMMA AddKeepsWired == TypeInv /\ WiredInv /\ ManageMsgQueueAdd => WiredInv'
<1> SUFFICES ASSUME TypeInv, WiredInv, ManageMsgQueueAdd, Clean'
             PROVE  \E s \in 0 .. accepted' : Wired(s)'
  BY DEF WiredInv
<1> DEFINE k == accepted + 1
<1>1. /\ way = "toClient" /\ ~freed /\ wire' = wire
      /\ accepted \in Nat /\ accepted \in 0 .. Len(Lengths) /\ Len(Lengths) \in Nat
      /\ k \in Messages /\ k \in accepted .. Len(Lengths) /\ accepted' = k
      /\ holder' = Append(holder, NewHolder(k))
  BY TypeInvParts, LengthsCount DEF ManageMsgQueueAdd, Running, TypeInv
<1>2. Clean
  BY DEF ManageMsgQueueAdd, Excuse, Clean
<1>3. PICK s \in 0 .. accepted : Wired(s)
  BY <1>1, <1>2 DEF WiredInv
<1>4. /\ holder'[k] = NewHolder(k)
      /\ \A i \in 1 .. accepted : holder'[i] = holder[i]
  BY <1>1, AppendHolder
<1>5. NewHolder(k).total = 0 /\ NewHolder(k).toMove \in Nat \ {0} /\ NewHolder(k).bufs = WholeBufs(k)
  BY <1>1, NewHolderType DEF NewHolder
<1> HIDE DEF k
<1>6. s \in Nat /\ s # k /\ s \in 0 .. k /\ k = accepted + 1 /\ k \in Nat
  BY <1>1 DEF k
<1>7. Counted(s)'
  <2> SUFFICES ASSUME NEW m \in 1 .. accepted' PROVE IsSent(m)' <=> m =< s
    BY DEF Counted
  <2>1. CASE m = k
    <3>1. ~(NewHolder(k).total >= NewHolder(k).toMove)
      BY <1>5
    <3> QED BY <1>4, <1>6, <2>1, <3>1 DEF IsSent
  <2>2. CASE m # k
    <3>1. m \in 1 .. accepted
      BY <1>1, <1>6, <2>2
    <3>2. IsSent(m) <=> m =< s
      BY <1>3, <3>1 DEF Wired, Counted
    <3> QED BY <1>4, <3>1, <3>2 DEF IsSent
  <2> QED BY <2>1, <2>2
<1>8. Begins(wire', accepted')
  <2>1. Begins(wire, accepted)
    BY <1>3 DEF Wired
  <2>2. k \in accepted .. Len(Lengths)
    BY <1>1
  <2>3. Begins(wire, k)
    BY <1>1, <2>1, <2>2, BeginsMore
  <2> QED BY <1>1, <2>3
<1>9. Len(wire') = Len(Flat(s)) + holder'[s + 1].total
  <2>1. CASE s = accepted
    <3>1. holder'[s + 1].total = 0
      BY <1>4, <1>5, <1>6, <2>1
    <3>2. Len(Flat(s)) \in Nat
      BY <1>1, FlatType
    <3> QED BY <1>1, <1>3, <2>1, <3>1, <3>2 DEF Wired
  <2>2. CASE s # accepted
    <3>1. s + 1 \in 1 .. accepted
      BY <1>1, <2>2
    <3> QED BY <1>1, <1>3, <1>4, <2>2, <3>1 DEF Wired
  <2> QED BY <2>1, <2>2
<1>10. ASSUME NEW m \in (s + 1) .. accepted'
       PROVE  /\ RestBufs(m, holder'[m].bufs, holder'[m].total)
              /\ m # s + 1 => holder'[m].total = 0
  <2>1. CASE m = k
    <3>1. RestBufs(k, WholeBufs(k), 0)
      BY <1>1, WholeNames DEF k
    <3> QED BY <1>4, <1>5, <2>1, <3>1
  <2>2. CASE m # k
    <3>1. m \in 1 .. accepted /\ m \in (s + 1) .. accepted
      BY <1>1, <1>6, <2>2
    <3> QED BY <1>3, <1>4, <3>1 DEF Wired
  <2> QED BY <2>1, <2>2
<1>11. Wired(s)'
  BY <1>1, <1>6, <1>7, <1>8, <1>9, <1>10 DEF Wired
<1> QED BY <1>1, <1>6, <1>11

(* Where a send that ended early was not cut before the end of the first   *)
(* body, the new buffers name what is left (WorkerPartialSend).            *)
LEMMA PartialSendRest ==
  ASSUME NEW m \in Messages, NEW h \in Holders, h.toMove = ToMove(m), h.total < h.toMove,
         NEW t \in Nat, t =< h.total, RestBufs(m, h.bufs, t),
         ~(h.total \in HEADER_LEN .. (BodyTwoAt(m) - 1))
  PROVE  RestBufs(m, WorkerPartialSend(h, Lengths[m][1], Lengths[m][2]).bufs, h.total)
<1> DEFINE r == WorkerPartialSend(h, Lengths[m][1], Lengths[m][2])
<1>1. PICK a, b \in 0 .. 3 : /\ Lengths[m][1] = a /\ Lengths[m][2] = b
                             /\ BodyTwoAt(m) = 7 + 2 * a /\ ToMove(m) = 7 + 2 * a + 2 * b
                             /\ HEADER_LEN = 7
  BY PacketNumbers
<1>2. h.bufs \in [1 .. 3 -> Bufs] /\ h.total \in Nat /\ h.total < 7 + 2 * a + 2 * b
      /\ Size(a) = 2 * a /\ Size(b) = 2 * b
      /\ h = [bufs |-> h.bufs, total |-> h.total, toMove |-> h.toMove]
  BY <1>1 DEF Holders, Size
<1>3. CASE h.total < 7
  <2> DEFINE rest == Buf(h.total, 7 - h.total)
             bufs == [h.bufs EXCEPT ![1] = rest]
  <2>1. t < 7 /\ ~(t >= 7) /\ ~(t >= 7 + 2 * a)
    BY <1>2, <1>3
  <2>2. h.bufs[2] = Buf(0, 2 * a) /\ h.bufs[3] = Buf(0, 2 * b)
    BY <1>1, <2>1 DEF RestBufs
  <2>3. r = [h EXCEPT !.bufs[1] = rest]
    BY <1>1, <1>3 DEF WorkerPartialSend
  <2> HIDE DEF rest
  <2>4. r = [h EXCEPT !.bufs = bufs]
    BY <2>3, FirstBuf
  <2>5. bufs[1] = rest /\ bufs[2] = Buf(0, 2 * a) /\ bufs[3] = Buf(0, 2 * b)
    BY <1>2, <2>2
  <2> HIDE DEF bufs, r
  <2>6. r.bufs = bufs
    BY <1>2, <2>4
  <2> QED BY <1>1, <1>3, <2>5, <2>6 DEF RestBufs, rest, r
<1>4. CASE ~(h.total < 7)
  <2> DEFINE sent == h.total - (7 + 2 * a)
             rest == Buf(sent, 2 * b - sent)
             bufs == [h.bufs EXCEPT ![1].len = 0, ![2].len = 0, ![3] = rest]
  <2>1. h.total >= 7 + 2 * a /\ ~(h.total < 7 + 2 * a)
    BY <1>1, <1>2, <1>4
  <2>2. 2 * b - sent = ToMove(m) - h.total
    BY <1>1, <1>2
  <2>3. r = [h EXCEPT !.bufs[1].len = 0, !.bufs[2].len = 0, !.bufs[3] = rest]
    BY <1>1, <1>2, <1>4, <2>1 DEF WorkerPartialSend
  <2>4. rest = Buf(h.total - BodyTwoAt(m), ToMove(m) - h.total)
    BY <1>1, <2>2
  <2> HIDE DEF rest
  <2>5. r = [h EXCEPT !.bufs = bufs]
    BY <2>3, OnlyLastBuf
  <2>6. bufs = OnlyLast(h.bufs, rest)
    BY DEF OnlyLast
  <2> HIDE DEF bufs, r
  <2>7. r.bufs = bufs
    BY <1>2, <2>5
  <2>8. /\ bufs[1] \in Bufs /\ bufs[1].len = 0 /\ bufs[2] \in Bufs /\ bufs[2].len = 0
        /\ bufs[3] = rest
    <3>1. PICK f \in [1 .. 3 -> Bufs] : f = h.bufs
      BY <1>2
    <3>2. bufs = [f EXCEPT ![1].len = 0, ![2].len = 0, ![3] = rest]
      BY <2>6, <3>1 DEF OnlyLast
    <3> QED BY <3>2 DEF Bufs
  <2> QED BY <1>1, <2>1, <2>4, <2>7, <2>8 DEF RestBufs, r
<1> QED BY <1>3, <1>4

(* What a completed send of n bytes of the oldest message m leaves.        *)
SendGoesOn(m, n) ==
  \E h \in Holders :
    /\ holder' = [holder EXCEPT ![m] = h]
    /\ h.total = holder[m].total + n /\ h.toMove = ToMove(m) /\ h.total < ToMove(m)
    /\ Clean' => Clean
    /\ Clean' /\ RestBufs(m, holder[m].bufs, holder[m].total) => RestBufs(m, h.bufs, h.total)

SendFinishes(m, n) ==
  /\ holder[m].total + n >= ToMove(m)
  /\ holder' = [holder EXCEPT ![m] = FreedHolder(m)]
  /\ excuses' = excuses

(* A completed send does one of the two (WorkerSendOP).                    *)
LEMMA SendMoves ==
  ASSUME TypeInv, SendCompletes, QueuePeek(queue) = sending
  PROVE  \E n \in 1 .. Len(Gather(MemoriesOf(sending), holder[sending].bufs)) :
           /\ wire' = wire \o SubSeq(Gather(MemoriesOf(sending), holder[sending].bufs), 1, n)
           /\ SendGoesOn(sending, n) \/ SendFinishes(sending, n)
<1> DEFINE m == sending
           part == Gather(MemoriesOf(m), holder[m].bufs)
           Sent(n) == [holder[m] EXCEPT !.total = holder[m].total + n]
<1>1. m \in 1 .. accepted /\ accepted \in Nat
  BY TypeInvParts DEF TypeInv, SendCompletes
<1>2. /\ m \in Messages /\ holder[m] \in Holders /\ holder[m].toMove = ToMove(m)
      /\ holder[m].total \in Nat /\ ToMove(m) \in Nat
  BY <1>1, NotSent
<1>3. PICK n \in 1 .. Len(part) : WorkerSendOP(n)
  BY DEF SendCompletes
<1>4. n \in Nat
  <2>1. part \in Seq(Byte)
    <3>1. holder[m].bufs \in [1 .. 3 -> Bufs]
      BY <1>2 DEF Holders
    <3> QED BY <1>2, <3>1, MemoriesType, GatherType
  <2> QED BY <2>1
<1>5. wire' = wire \o SubSeq(part, 1, n)
  BY <1>3 DEF WorkerSendOP
<1>6. Sent(n) \in Holders /\ Sent(n).toMove = ToMove(m) /\ Sent(n).total = holder[m].total + n
      /\ Sent(n).bufs = holder[m].bufs
  <2>1. holder[m].total + n \in Nat
    BY <1>2, <1>4
  <2> QED BY <1>2, <2>1 DEF Holders
<1>7. \/ /\ Sent(n).total < Sent(n).toMove
         /\ holder' = [holder EXCEPT ![m] = WorkerPartialSend(Sent(n), Lengths[m][1], Lengths[m][2])]
         /\ Excuse(IF Sent(n).total \in HEADER_LEN .. (HEADER_LEN + Size(Lengths[m][1])) - 1
                   THEN {"bodyOneCut"} ELSE {})
      \/ /\ ~(Sent(n).total < Sent(n).toMove)
         /\ holder' = [holder EXCEPT ![m] = FreedHolder(m)]
         /\ excuses' = excuses
  BY <1>3 DEF WorkerSendOP
<1> HIDE DEF Sent, part, m
<1>8. CASE /\ Sent(n).total < Sent(n).toMove
           /\ holder' = [holder EXCEPT ![m] = WorkerPartialSend(Sent(n), Lengths[m][1], Lengths[m][2])]
           /\ Excuse(IF Sent(n).total \in HEADER_LEN .. (HEADER_LEN + Size(Lengths[m][1])) - 1
                     THEN {"bodyOneCut"} ELSE {})
  <2> DEFINE h == WorkerPartialSend(Sent(n), Lengths[m][1], Lengths[m][2])
  <2>1. PICK a, b \in 0 .. 3 : /\ Lengths[m][1] = a /\ Lengths[m][2] = b
                               /\ BodyTwoAt(m) = 7 + 2 * a /\ ToMove(m) = 7 + 2 * a + 2 * b
                               /\ HEADER_LEN = 7
    BY <1>2, PacketNumbers
  <2>2. h \in Holders /\ h.total = Sent(n).total /\ h.toMove = Sent(n).toMove
    <3>1. PICK g \in Holders : g = Sent(n) /\ g.toMove = ToMove(m) /\ g.total < g.toMove
      BY <1>6, <1>8
    <3>2. g.toMove = HEADER_LEN + 2 * (a + b)
      BY <2>1, <3>1
    <3>3. LET r == WorkerPartialSend(g, a, b)
          IN  r \in Holders /\ r.total = g.total /\ r.toMove = g.toMove
      BY <3>1, <3>2, PartialSendType
    <3> QED BY <2>1, <3>1, <3>3
  <2>3. HEADER_LEN + Size(Lengths[m][1]) = BodyTwoAt(m)
    BY <2>1 DEF Size
  <2>4. excuses' = excuses \/ excuses' = excuses \cup {"bodyOneCut"}
    BY <1>8 DEF Excuse
  <2>5. Clean' => ~(Sent(n).total \in HEADER_LEN .. (BodyTwoAt(m) - 1))
    BY <1>8, <2>3 DEF Excuse, Clean
  <2>6. Clean' => Clean
    BY <2>4 DEF Clean
  <2>7. ASSUME Clean', RestBufs(m, holder[m].bufs, holder[m].total)
        PROVE  RestBufs(m, h.bufs, h.total)
    <3>1. holder[m].total =< Sent(n).total
      BY <1>2, <1>4, <1>6
    <3>2. RestBufs(m, Sent(n).bufs, holder[m].total)
      BY <1>6, <2>7
    <3> QED BY <1>2, <1>6, <1>8, <2>2, <2>5, <2>7, <3>1, <3>2, PartialSendRest
  <2> HIDE DEF h
  <2>8. holder' = [holder EXCEPT ![m] = h]
    BY <1>8 DEF h
  <2>9. SendGoesOn(m, n)
    BY <1>6, <1>8, <2>2, <2>6, <2>7, <2>8 DEF SendGoesOn
  <2> QED BY <1>5, <2>9 DEF m, part
<1>9. CASE /\ ~(Sent(n).total < Sent(n).toMove)
           /\ holder' = [holder EXCEPT ![m] = FreedHolder(m)]
           /\ excuses' = excuses
  <2>1. holder[m].total + n >= ToMove(m)
    BY <1>2, <1>4, <1>6, <1>9
  <2>2. SendFinishes(m, n)
    BY <1>9, <2>1 DEF SendFinishes
  <2> QED BY <1>5, <2>2 DEF m, part
<1> QED BY <1>7, <1>8, <1>9

(* What is sent follows what was sent before.                              *)
LEMMA SendKeepsWired == TypeInv /\ QueueInv /\ WiredInv /\ SendCompletes => WiredInv'
<1> SUFFICES ASSUME TypeInv, QueueInv, WiredInv, SendCompletes, Clean'
             PROVE  \E s \in 0 .. accepted' : Wired(s)'
  BY DEF WiredInv
<1>1. /\ way = "toClient" /\ ~freed /\ sending # NULL /\ accepted \in Nat /\ accepted' = accepted
      /\ accepted \in 0 .. Len(Lengths)
  BY TypeInvParts DEF SendCompletes, Running, WorkerSendOP, TypeInv
<1>2. Clean /\ "wrapped" \notin excuses
  <2>1. excuses \subseteq excuses'
    BY DEF SendCompletes, WorkerSendOP, Excuse
  <2> QED BY <2>1 DEF Clean
<1>3. PICK s \in 0 .. accepted : Wired(s)
  BY <1>1, <1>2 DEF WiredInv
<1>4. Waiting(s)
  <2>1. PICK t \in 0 .. accepted : Waiting(t)
    BY <1>1, <1>2 DEF QueueInv
  <2>2. Counted(t) /\ Counted(s)
    BY <1>3, <2>1 DEF Waiting, Wired, Counted
  <2>3. s = t
    BY <1>1, <2>2, CountedOnce
  <2> QED BY <2>1, <2>3
<1>5. InQueue(queue, s, accepted) /\ s # accepted /\ sending = s + 1
  BY <1>1, <1>4 DEF Waiting
<1> DEFINE m == s + 1
           part == Gather(MemoriesOf(m), holder[m].bufs)
           t == holder[m].total
<1>6. m \in 1 .. accepted /\ s \in 0 .. (accepted - 1) /\ QueuePeek(queue) = m /\ sending = m
      /\ s \in Nat /\ m \in Nat
  BY <1>1, <1>5, PeekInQueue
<1>7. PICK n \in 1 .. Len(part) :
        /\ wire' = wire \o SubSeq(part, 1, n)
        /\ SendGoesOn(m, n) \/ SendFinishes(m, n)
  BY <1>5, <1>6, SendMoves
<1>8. /\ m \in Messages /\ holder[m] \in Holders /\ t \in Nat /\ ToMove(m) \in Nat
      /\ IsSent(m) <=> t >= ToMove(m)
  BY <1>6, NotSent
<1>9. t < ToMove(m)
  <2>1. ~IsSent(m)
    BY <1>3, <1>6 DEF Wired, Counted
  <2> QED BY <1>8, <2>1
<1>10. RestBufs(m, holder[m].bufs, t)
  <2>1. m \in (s + 1) .. accepted
    BY <1>1, <1>6
  <2> QED BY <1>3, <2>1 DEF Wired
<1>11. /\ part \in Seq(Byte) /\ Len(part) = ToMove(m) - t
       /\ \A k \in 1 .. (ToMove(m) - t) : part[k] = PacketOf(m)[t + k]
  <2>1. part \in Seq(Byte)
    <3>1. holder[m].bufs \in [1 .. 3 -> Bufs]
      BY <1>8 DEF Holders
    <3> QED BY <1>8, <3>1, MemoriesType, GatherType
  <2>2. t \in 0 .. ToMove(m)
    BY <1>8, <1>9
  <2>3. /\ DOMAIN part = 1 .. (ToMove(m) - t)
        /\ \A k \in 1 .. (ToMove(m) - t) : part[k] = PacketOf(m)[t + k]
    BY <1>8, <1>10, <2>2, GatherRest
  <2> HIDE DEF part, t
  <2>4. DOMAIN part = 1 .. Len(part) /\ Len(part) \in Nat
    BY <2>1
  <2>5. Len(part) = ToMove(m) - t
    BY <1>8, <1>9, <2>3, <2>4
  <2> QED BY <2>1, <2>3, <2>5
<1>12. Begins(wire, accepted) /\ Len(wire) = Len(Flat(s)) + t
  BY <1>3, <1>5 DEF Wired
<1> HIDE DEF part, t
<1>13. n \in Nat /\ n =< Len(part) /\ t + n =< ToMove(m)
  BY <1>8, <1>9, <1>11
<1>14. Begins(wire', accepted') /\ Len(wire') = Len(Flat(s)) + (t + n)
  <2>1. \A k \in 1 .. n : part[k] = PacketOf(m)[t + k]
    <3>1. \A k \in 1 .. n : k \in 1 .. (ToMove(m) - t)
      BY <1>8, <1>11, <1>13
    <3> QED BY <1>11, <3>1
  <2>2. /\ Begins(wire \o SubSeq(part, 1, n), accepted)
        /\ Len(wire \o SubSeq(part, 1, n)) = Len(Flat(s)) + (t + n)
    <3> HIDE DEF Byte
    <3>1. /\ accepted \in 0 .. Len(Lengths) /\ s \in 0 .. (accepted - 1) /\ t \in Nat
          /\ Begins(wire, accepted) /\ Len(wire) = Len(Flat(s)) + t
          /\ n \in Nat /\ n =< Len(part) /\ t + n =< ToMove(s + 1)
          /\ part \in Seq(Byte) /\ \A i \in 1 .. n : part[i] = PacketOf(s + 1)[t + i]
      BY <1>1, <1>6, <1>8, <1>11, <1>12, <1>13, <2>1
    <3>2. GoesOn(wire, accepted, s, t, part, n)
      BY <3>1 DEF GoesOn
    <3> QED BY <3>2, BeginsWith
  <2> QED BY <1>1, <1>7, <2>2
<1>15. holder \in [1 .. accepted -> Holders]
  BY DEF TypeInv
<1>16. \A i \in 1 .. accepted : i # m => IsSent(i) <=> i =< s
  BY <1>3 DEF Wired, Counted
<1>17. \A i \in (s + 1) .. accepted :
         /\ RestBufs(i, holder[i].bufs, holder[i].total)
         /\ i # m => holder[i].total = 0
  BY <1>3 DEF Wired
<1>18. CASE SendGoesOn(m, n)
  <2>1. PICK h \in Holders :
          /\ holder' = [holder EXCEPT ![m] = h]
          /\ h.total = t + n /\ h.toMove = ToMove(m) /\ h.total < ToMove(m)
          /\ RestBufs(m, h.bufs, h.total)
    BY <1>10, <1>18 DEF SendGoesOn, t
  <2>2. holder'[m] = h /\ \A i \in 1 .. accepted : i # m => holder'[i] = holder[i]
    BY <1>6, <1>15, <2>1
  <2>3. ~(h.total >= h.toMove) /\ ~(m =< s)
    BY <1>6, <1>8, <1>13, <2>1 DEF Holders
  <2>4. ASSUME NEW i \in 1 .. accepted PROVE IsSent(i)' <=> i =< s
    <3>1. CASE i = m
      BY <2>2, <2>3, <3>1 DEF IsSent
    <3>2. CASE i # m
      BY <1>16, <2>2, <3>2 DEF IsSent
    <3> QED BY <3>1, <3>2
  <2>5. ASSUME NEW i \in (s + 1) .. accepted
        PROVE  /\ RestBufs(i, holder'[i].bufs, holder'[i].total)
               /\ i # s + 1 => holder'[i].total = 0
    <3>1. CASE i = m
      BY <2>1, <2>2, <3>1
    <3>2. CASE i # m
      <4>1. i \in 1 .. accepted
        BY <1>6
      <4> QED BY <1>17, <2>2, <3>2, <4>1
    <3> QED BY <3>1, <3>2
  <2>6. Len(wire') = Len(Flat(s)) + holder'[s + 1].total
    BY <1>14, <2>1, <2>2
  <2>7. Wired(s)'
    BY <1>1, <1>5, <1>14, <2>4, <2>5, <2>6 DEF Wired, Counted
  <2> QED BY <1>1, <2>7
<1>19. CASE SendFinishes(m, n)
  <2>1. t + n = ToMove(m) /\ holder' = [holder EXCEPT ![m] = FreedHolder(m)]
    BY <1>8, <1>13, <1>19 DEF SendFinishes, t
  <2>2. holder'[m] = FreedHolder(m) /\ \A i \in 1 .. accepted : i # m => holder'[i] = holder[i]
    BY <1>6, <1>15, <2>1
  <2>3. FreedHolder(m).total >= FreedHolder(m).toMove /\ m =< s + 1
    BY <1>6, <1>8, NewHolderType
  <2>4. ASSUME NEW i \in 1 .. accepted PROVE IsSent(i)' <=> i =< s + 1
    <3>1. CASE i = m
      BY <2>2, <2>3, <3>1 DEF IsSent
    <3>2. CASE i # m
      <4>1. i =< s <=> i =< s + 1
        BY <1>6, <3>2
      <4> QED BY <1>16, <2>2, <3>2, <4>1 DEF IsSent
    <3> QED BY <3>1, <3>2
  <2>5. ASSUME NEW i \in ((s + 1) + 1) .. accepted
        PROVE  /\ RestBufs(i, holder'[i].bufs, holder'[i].total)
               /\ holder'[i].total = 0
    <3>1. i # m /\ i \in 1 .. accepted /\ i \in (s + 1) .. accepted
      BY <1>6
    <3> QED BY <1>17, <2>2, <3>1
  <2>6. Len(wire') = Len(Flat(s + 1)) /\ Len(Flat(s + 1)) \in Nat
    <3>1. Len(Flat(s + 1)) = Len(Flat(s)) + ToMove(s + 1) /\ Len(Flat(s)) \in Nat
      BY <1>1, <1>6, FlatAt
    <3> QED BY <1>8, <1>14, <2>1, <3>1
  <2>7. s + 1 # accepted => Len(wire') = Len(Flat(s + 1)) + holder'[(s + 1) + 1].total
    <3> SUFFICES ASSUME s + 1 # accepted
                 PROVE  Len(wire') = Len(Flat(s + 1)) + holder'[(s + 1) + 1].total
      OBVIOUS
    <3>1. (s + 1) + 1 \in ((s + 1) + 1) .. accepted
      BY <1>1, <1>6
    <3>2. holder'[(s + 1) + 1].total = 0
      BY <2>5, <3>1
    <3> QED BY <2>6, <3>2
  <2>8. Wired(s + 1)'
    BY <1>1, <1>14, <2>4, <2>5, <2>6, <2>7 DEF Wired, Counted
  <2>9. s + 1 \in 0 .. accepted'
    BY <1>1, <1>6
  <2> QED BY <2>8, <2>9
<1> QED BY <1>7, <1>18, <1>19

(* The steps that do not send leave the wire as it is.                     *)
LEMMA OthersKeepWired ==
  /\ WiredInv /\ (ClientRecvPacket \/ SocketPeek \/ UserFree \/ SendPacket \/ WorkerRecvOP) => WiredInv'
  /\ WiredInv /\ UNCHANGED vars => WiredInv'
<1>1. CASE UNCHANGED vars
  BY <1>1 DEF vars, WiredInv, Wired, Counted, IsSent, Clean
<1>2. CASE SendPacket \/ WorkerRecvOP \/ UserFree
  BY <1>2 DEF SendPacket, WorkerRecvOP, UserFree, WiredInv
<1>3. CASE ClientRecvPacket \/ SocketPeek
  <2>1. UNCHANGED <<way, accepted, holder, freed, wire>>
    BY <1>3 DEF ClientRecvPacket, SocketPeek
  <2>2. excuses \subseteq excuses'
    BY <1>3 DEF ClientRecvPacket, SocketPeek, Excuse
  <2>3. Clean' => Clean
    BY <2>2 DEF Clean
  <2> QED BY <2>1, <2>3 DEF WiredInv, Wired, Counted, IsSent
<1> QED BY <1>1, <1>2, <1>3

(* So what the server has sent is right, and stays so when the user is     *)
(* freed.                                                                  *)
LEMMA SentStep == TypeInv' /\ WiredInv' /\ SentInv /\ [Next]_vars => SentInv'
<1> SUFFICES ASSUME TypeInv', WiredInv', SentInv, [Next]_vars, way' = "toClient", Clean'
             PROVE  SentRight'
  BY DEF SentInv
<1>1. CASE ~freed'
  <2>1. PICK s \in 0 .. accepted' : Wired(s)'
    BY <1>1 DEF WiredInv
  <2>2. Begins(wire, accepted)'
    BY <2>1 DEF Wired
  <2> QED BY <2>2, BeginsIsSentRight, PTL
<1>2. CASE freed'
  <2>1. ~Running \/ UserFree \/ UNCHANGED vars
    BY <1>2 DEF Next, Running, ManageMsgQueueAdd, SendCompletes, WorkerSendOP, ClientRecvPacket, SocketPeek, SendPacket, WorkerRecvOP, vars
  <2>2. UserFree \/ UNCHANGED vars
    BY <2>1 DEF Next, ManageMsgQueueAdd, SendCompletes, ClientRecvPacket, SocketPeek, SendPacket, WorkerRecvOP
  <2>3. way' = way /\ wire' = wire /\ accepted' = accepted /\ excuses' = excuses
    BY <2>2 DEF UserFree, vars
  <2> QED BY <2>3 DEF SentInv, SentRight, Clean
<1> QED BY <1>1, <1>2

----------------------------------------------------------------------------
(* The characters of a message, and its last byte.                         *)

(* Lists of two joined.                                                    *)
LEMMA FlattenPairs ==
  ASSUME NEW S, NEW n \in Nat, NEW pairs \in [1 .. n -> Seq(S)], \A k \in 1 .. n : Len(pairs[k]) = 2
  PROVE  /\ FlattenSeq(pairs) \in Seq(S) /\ Len(FlattenSeq(pairs)) = 2 * n
         /\ \A k \in 1 .. n : /\ FlattenSeq(pairs)[2 * k - 1] = pairs[k][1]
                              /\ FlattenSeq(pairs)[2 * k] = pairs[k][2]
<1>1. CASE n = 0
  <2>1. pairs = <<>>
    BY <1>1
  <2>2. FlattenSeq(<<>>) = <<>>
    BY DEF FlattenSeq
  <2>3. <<>> \in Seq(S) /\ Len(<<>>) = 0
    BY EmptySeq
  <2>4. PICK r : r = FlattenSeq(pairs)
    OBVIOUS
  <2>5. r \in Seq(S) /\ Len(r) = 2 * n
    <3>1. 2 * n = 0
      BY <1>1
    <3>2. r = <<>>
      BY <2>1, <2>2, <2>4, Zenon
    <3>3. r \in Seq(S) /\ Len(r) = 0
      BY <2>3, <3>2, Zenon
    <3> QED BY <3>1, <3>3
  <2>6. \A k : k \notin 1 .. n
    BY <1>1
  <2> QED BY <2>4, <2>5, <2>6
<1>2. CASE n # 0
  <2>1. PICK f : Joins(f, n, pairs, S) /\ FlattenSeq(pairs) = f[n]
    BY <1>2, FlattenSteps
  <2> DEFINE Right(i) == /\ Len(f[i]) = 2 * i
                         /\ \A k \in 1 .. i : f[i][2 * k - 1] = pairs[k][1] /\ f[i][2 * k] = pairs[k][2]
             Good == {d \in Nat : d + 1 \in 1 .. n => Right(d + 1)}
  <2>2. ASSUME NEW i \in 1 .. n
        PROVE  f[i] \in Seq(S) /\ f[i] = IF i = 1 THEN pairs[i] ELSE f[i - 1] \o pairs[i]
    BY <2>1, Zenon DEF Joins
  <2>3. 0 \in Good
    <3> SUFFICES ASSUME 1 \in 1 .. n PROVE Right(1)
      OBVIOUS
    <3>1. f[1] = pairs[1] /\ Len(pairs[1]) = 2
      BY <2>2
    <3> QED BY <3>1
  <2>4. ASSUME NEW d \in Good PROVE d + 1 \in Good
    <3> HIDE DEF Right
    <3>1. d \in Nat /\ (d + 1 \in 1 .. n => Right(d + 1))
      OBVIOUS
    <3> SUFFICES ASSUME (d + 1) + 1 \in 1 .. n PROVE Right((d + 1) + 1)
      BY <3>1
    <3> HIDE DEF Good
    <3>2. PICK i \in 1 .. n : i = (d + 1) + 1
      OBVIOUS
    <3>3. i - 1 = d + 1 /\ i - 1 \in 1 .. n /\ i # 1
      BY <3>1, <3>2
    <3>4. Right(i - 1)
      BY <3>1, <3>3
    <3> USE DEF Right
    <3>5. f[i] = f[i - 1] \o pairs[i] /\ f[i - 1] \in Seq(S) /\ pairs[i] \in Seq(S) /\ Len(pairs[i]) = 2
      BY <2>2, <3>3
    <3>6. PICK g : g = f[i - 1]
      OBVIOUS
    <3>7. PICK p \in Seq(S) : p = pairs[i] /\ Len(p) = 2
      BY <3>5
    <3>8. g \in Seq(S)
      BY <3>5, <3>6
    <3>9. /\ Len(g \o p) = Len(g) + Len(p)
          /\ \A j \in 1 .. (Len(g) + Len(p)) :
               (g \o p)[j] = IF j =< Len(g) THEN g[j] ELSE p[j - Len(g)]
      BY <3>8, ConcatProperties
    <3>10. /\ Len(g \o pairs[i]) = Len(g) + 2
          /\ \A j \in 1 .. (Len(g) + 2) :
               (g \o pairs[i])[j] = IF j =< Len(g) THEN g[j] ELSE pairs[i][j - Len(g)]
      BY <3>7, <3>9
    <3>11. Len(g) = 2 * (i - 1) /\ Len(g) \in Nat
      BY <3>4, <3>3, <3>6
    <3>12. Len(f[i]) = 2 * i
      BY <3>5, <3>6, <3>10, <3>11
    <3>13. ASSUME NEW k \in 1 .. i PROVE f[i][2 * k - 1] = pairs[k][1] /\ f[i][2 * k] = pairs[k][2]
      <4>1. CASE k = i
        <5>1. 2 * k - 1 \in 1 .. (Len(g) + 2) /\ ~(2 * k - 1 =< Len(g)) /\ (2 * k - 1) - Len(g) = 1
          BY <3>11, <4>1
        <5>2. 2 * k \in 1 .. (Len(g) + 2) /\ ~(2 * k =< Len(g)) /\ 2 * k - Len(g) = 2
          BY <3>11, <4>1
        <5> QED BY <3>5, <3>6, <3>10, <4>1, <5>1, <5>2
      <4>2. CASE k # i
        <5>1. k \in 1 .. (i - 1)
          BY <4>2
        <5>2. 2 * k - 1 \in 1 .. (Len(g) + 2) /\ 2 * k - 1 =< Len(g)
              /\ 2 * k \in 1 .. (Len(g) + 2) /\ 2 * k =< Len(g)
          BY <3>11, <5>1
        <5>3. g[2 * k - 1] = pairs[k][1] /\ g[2 * k] = pairs[k][2]
          BY <3>4, <3>3, <3>6, <5>1
        <5> QED BY <3>5, <3>6, <3>10, <5>2, <5>3
      <4> QED BY <4>1, <4>2
    <3>14. Right(i)
      BY <3>12, <3>13
    <3> HIDE DEF Right
    <3> QED BY <3>2, <3>14
  <2>5. Good = Nat
    <3>1. Good \in SUBSET Nat
      OBVIOUS
    <3> HIDE DEF Good
    <3> QED BY <2>3, <2>4, <3>1, InductionOnNat
  <2>6. Right(n)
    <3>1. n - 1 \in Nat /\ (n - 1) + 1 = n /\ n \in 1 .. n
      BY <1>2
    <3>2. n - 1 \in Good
      BY <2>5, <3>1
    <3> QED BY <3>1, <3>2
  <2>7. n \in 1 .. n
    BY <1>2
  <2> QED BY <2>1, <2>2, <2>6, <2>7
<1> QED BY <1>1, <1>2

(* The bytes of characters in the order of the network.                    *)
LEMMA CharsBytes ==
  ASSUME NEW n \in Nat, NEW chars \in [1 .. n -> Byte \X Byte]
  PROVE  \A k \in 1 .. n :
           /\ At(Memory(FlattenSeq(WstrHostToNet(chars))), 2 * k - 2) = chars[k][2]
           /\ At(Memory(FlattenSeq(WstrHostToNet(chars))), 2 * k - 1) = chars[k][1]
<1> DEFINE pairs == WstrHostToNet(chars)
           flat == FlattenSeq(pairs)
           mem == Memory(flat)
<1>1. pairs = [k \in 1 .. n |-> <<chars[k][2], chars[k][1]>>]
  BY DEF WstrHostToNet
<1> HIDE DEF pairs
<1>2. \A k \in 1 .. n : chars[k][1] \in Byte /\ chars[k][2] \in Byte
  OBVIOUS
<1>3. ASSUME NEW k \in 1 .. n
      PROVE  pairs[k] \in Seq(Byte) /\ Len(pairs[k]) = 2 /\ pairs[k][1] = chars[k][2] /\ pairs[k][2] = chars[k][1]
  BY <1>1, <1>2
<1>4. pairs \in [1 .. n -> Seq(Byte)]
  BY <1>1, <1>2
<1>5. /\ flat \in Seq(Byte) /\ Len(flat) = 2 * n
      /\ \A k \in 1 .. n : flat[2 * k - 1] = pairs[k][1] /\ flat[2 * k] = pairs[k][2]
  <2>1. PICK S, c : S = Byte /\ c = pairs
    OBVIOUS
  <2>2. c \in [1 .. n -> Seq(S)] /\ \A k \in 1 .. n : Len(c[k]) = 2
    BY <1>3, <1>4, <2>1
  <2>3. /\ FlattenSeq(c) \in Seq(S) /\ Len(FlattenSeq(c)) = 2 * n
        /\ \A k \in 1 .. n : /\ FlattenSeq(c)[2 * k - 1] = c[k][1]
                             /\ FlattenSeq(c)[2 * k] = c[k][2]
    BY <2>2, FlattenPairs
  <2> QED BY <2>1, <2>3
<1> HIDE DEF flat
<1>6. DOMAIN mem = 0 .. (2 * n - 1) /\ \A o \in 0 .. (2 * n - 1) : mem[o] = flat[o + 1]
  BY <1>5 DEF Memory
<1> HIDE DEF mem
<1>7. ASSUME NEW k \in 1 .. n PROVE At(mem, 2 * k - 2) = chars[k][2] /\ At(mem, 2 * k - 1) = chars[k][1]
  <2>1. 2 * k - 2 \in 0 .. (2 * n - 1) /\ 2 * k - 1 \in 0 .. (2 * n - 1)
        /\ (2 * k - 2) + 1 = 2 * k - 1 /\ (2 * k - 1) + 1 = 2 * k
    OBVIOUS
  <2>2. mem[2 * k - 2] = flat[2 * k - 1] /\ mem[2 * k - 1] = flat[2 * k]
    BY <1>6, <2>1
  <2> QED BY <1>3, <1>5, <1>6, <2>1, <2>2 DEF At
<1> QED BY <1>7 DEF mem, flat, pairs

(* What the memories of a message hold.                                    *)
BytesOf(m, a, b) ==
  /\ At(MemoriesOf(m)[1], 0) = 1 /\ At(MemoriesOf(m)[1], 1) = 1 /\ At(MemoriesOf(m)[1], 2) = 1
  /\ At(MemoriesOf(m)[1], 3) = 0 /\ At(MemoriesOf(m)[1], 4) = a
  /\ At(MemoriesOf(m)[1], 5) = 0 /\ At(MemoriesOf(m)[1], 6) = b
  /\ \A k \in 1 .. a : /\ At(MemoriesOf(m)[2], 2 * k - 2) = 128 + 16 * m + k
                       /\ At(MemoriesOf(m)[2], 2 * k - 1) = 16 * m + k
  /\ \A k \in 1 .. b : /\ At(MemoriesOf(m)[3], 2 * k - 2) = 128 + 16 * m + a + k
                       /\ At(MemoriesOf(m)[3], 2 * k - 1) = 16 * m + a + k
  /\ CharsOf(m).one = [k \in 1 .. a |-> <<16 * m + k, 128 + 16 * m + k>>]
  /\ CharsOf(m).two = [k \in 1 .. b |-> <<16 * m + a + k, 128 + 16 * m + a + k>>]

(* They hold that of every message (WstrHostToNet).                        *)
LEMMA MessageBytes ==
  ASSUME NEW m \in Messages
  PROVE  BytesOf(m, Lengths[m][1], Lengths[m][2])
<1>1. PICK a, b : a = Lengths[m][1] /\ b = Lengths[m][2]
  OBVIOUS
<1> DEFINE Chars(first, n) == [k \in 1 .. n |-> <<16 * m + first + k, 128 + 16 * m + first + k>>]
           header == <<1, 1, 1, 0, a, 0, b>>
<1>2. m \in 1 .. 7 /\ a \in 0 .. 3 /\ b \in 0 .. 3
  BY <1>1, LengthsType
<1>3. CharsOf(m).one = Chars(0, a) /\ CharsOf(m).two = Chars(a, b)
  BY <1>1 DEF CharsOf
<1>4. /\ MemoriesOf(m)[1] = Memory(header)
      /\ MemoriesOf(m)[2] = Memory(FlattenSeq(WstrHostToNet(Chars(0, a))))
      /\ MemoriesOf(m)[3] = Memory(FlattenSeq(WstrHostToNet(Chars(a, b))))
  BY <1>1, <1>3 DEF MemoriesOf
<1>5. ASSUME NEW first \in 0 .. 3, NEW n \in 0 .. 3
      PROVE  \A k \in 1 .. n :
               /\ At(Memory(FlattenSeq(WstrHostToNet(Chars(first, n)))), 2 * k - 2) = 128 + 16 * m + first + k
               /\ At(Memory(FlattenSeq(WstrHostToNet(Chars(first, n)))), 2 * k - 1) = 16 * m + first + k
  <2>1. \A k \in 1 .. n : 16 * m + first + k \in Byte /\ 128 + 16 * m + first + k \in Byte
    BY <1>2 DEF Byte
  <2>2. \A k \in 1 .. n : Chars(first, n)[k] = <<16 * m + first + k, 128 + 16 * m + first + k>>
    OBVIOUS
  <2>3. Chars(first, n) \in [1 .. n -> Byte \X Byte]
    BY <2>1
  <2>4. PICK chars \in [1 .. n -> Byte \X Byte] : chars = Chars(first, n)
    BY <2>3
  <2>5. \A k \in 1 .. n : chars[k][1] = 16 * m + first + k /\ chars[k][2] = 128 + 16 * m + first + k
    BY <2>2, <2>4
  <2> HIDE DEF Chars
  <2>6. n \in Nat
    OBVIOUS
  <2>7. \A k \in 1 .. n :
           /\ At(Memory(FlattenSeq(WstrHostToNet(chars))), 2 * k - 2) = chars[k][2]
           /\ At(Memory(FlattenSeq(WstrHostToNet(chars))), 2 * k - 1) = chars[k][1]
    BY <2>6, CharsBytes
  <2> QED BY <2>4, <2>5, <2>7
<1>6. \A o \in 0 .. 6 : At(Memory(header), o) = header[o + 1]
  <2>1. Len(header) = 7
    OBVIOUS
  <2>2. DOMAIN Memory(header) = 0 .. 6 /\ \A o \in 0 .. 6 : Memory(header)[o] = header[o + 1]
    BY <2>1 DEF Memory
  <2> HIDE DEF header
  <2> QED BY <2>2 DEF At
<1>7. /\ At(Memory(header), 0) = 1 /\ At(Memory(header), 1) = 1 /\ At(Memory(header), 2) = 1
      /\ At(Memory(header), 3) = 0 /\ At(Memory(header), 4) = a
      /\ At(Memory(header), 5) = 0 /\ At(Memory(header), 6) = b
  <2>1. /\ header[1] = 1 /\ header[2] = 1 /\ header[3] = 1 /\ header[4] = 0
        /\ header[5] = a /\ header[6] = 0 /\ header[7] = b
    OBVIOUS
  <2> HIDE DEF header
  <2> QED BY <1>6, <2>1
<1>8. Chars(0, a) = [k \in 1 .. a |-> <<16 * m + k, 128 + 16 * m + k>>]
  <2>1. \A k \in 1 .. a : 16 * m + 0 + k = 16 * m + k /\ 128 + 16 * m + 0 + k = 128 + 16 * m + k
    BY <1>2
  <2> QED BY <2>1
<1>9. \A k \in 1 .. a : /\ At(MemoriesOf(m)[2], 2 * k - 2) = 128 + 16 * m + k
                        /\ At(MemoriesOf(m)[2], 2 * k - 1) = 16 * m + k
  <2>1. \A k \in 1 .. a : 16 * m + 0 + k = 16 * m + k /\ 128 + 16 * m + 0 + k = 128 + 16 * m + k
    BY <1>2
  <2>2. 0 \in 0 .. 3
    OBVIOUS
  <2> HIDE DEF Chars
  <2> QED BY <1>2, <1>4, <1>5, <2>1, <2>2
<1> HIDE DEF Chars, header
<1>10. \A k \in 1 .. b : /\ At(MemoriesOf(m)[3], 2 * k - 2) = 128 + 16 * m + a + k
                         /\ At(MemoriesOf(m)[3], 2 * k - 1) = 16 * m + a + k
  BY <1>2, <1>4, <1>5
<1>11. CharsOf(m).two = [k \in 1 .. b |-> <<16 * m + a + k, 128 + 16 * m + a + k>>]
  BY <1>3 DEF Chars
<1> QED BY <1>1, <1>3, <1>4, <1>7, <1>8, <1>9, <1>10, <1>11 DEF BytesOf

(* The last byte of a packet with a body is nowhere else in it.            *)
LEMMA LastByte ==
  ASSUME NEW m \in Messages, NEW a \in 0 .. 3, NEW b \in 0 .. 3,
         Lengths[m][1] = a, Lengths[m][2] = b, a + b # 0,
         NEW j \in 1 .. ToMove(m), PacketOf(m)[j] = 16 * m + a + b
  PROVE  j = ToMove(m)
<1>1. /\ BodyTwoAt(m) = 7 + 2 * a /\ ToMove(m) = 7 + 2 * a + 2 * b /\ HEADER_LEN = 7
      /\ m \in 1 .. 7
  BY LengthsType DEF BodyTwoAt, ToMove, HEADER_LEN
<1>2. BytesOf(m, a, b)
  BY MessageBytes
<1>3. PICK v \in Nat : v = 16 * m + a + b
  BY <1>1
<1>4. At(MemoriesOf(m)[Place(m, j - 1)[1]], Place(m, j - 1)[2]) = v
  BY <1>3, PacketBytes
<1>5. v > 3 /\ v < 128
  BY <1>1, <1>3
<1>6. PICK p \in Nat : p = j - 1 /\ p < 7 + 2 * a + 2 * b
  BY <1>1
<1>7. CASE p < 7
  <2>1. At(MemoriesOf(m)[1], p) = v
    BY <1>1, <1>4, <1>6, <1>7 DEF Place
  <2>2. /\ At(MemoriesOf(m)[1], 0) = 1 /\ At(MemoriesOf(m)[1], 1) = 1 /\ At(MemoriesOf(m)[1], 2) = 1
        /\ At(MemoriesOf(m)[1], 3) = 0 /\ At(MemoriesOf(m)[1], 4) = a
        /\ At(MemoriesOf(m)[1], 5) = 0 /\ At(MemoriesOf(m)[1], 6) = b
    BY <1>2 DEF BytesOf
  <2>3. p \in {0, 1, 2, 3, 4, 5, 6}
    BY <1>7
  <2> QED BY <1>5, <2>1, <2>2, <2>3
<1>8. CASE p >= 7 /\ p < 7 + 2 * a
  <2>1. At(MemoriesOf(m)[2], p - 7) = v
    <3>1. Place(m, j - 1) = <<2, p - 7>>
      BY <1>1, <1>6, <1>8 DEF Place
    <3> QED BY <1>4, <3>1
  <2>2. PICK k \in 1 .. a : p - 7 = 2 * k - 2 \/ p - 7 = 2 * k - 1
    <3>1. p - 7 \in {0, 1, 2, 3, 4, 5}
      BY <1>8
    <3>2. \/ (p - 7 = 2 * 1 - 2 /\ 1 \in 1 .. a) \/ (p - 7 = 2 * 1 - 1 /\ 1 \in 1 .. a)
          \/ (p - 7 = 2 * 2 - 2 /\ 2 \in 1 .. a) \/ (p - 7 = 2 * 2 - 1 /\ 2 \in 1 .. a)
          \/ (p - 7 = 2 * 3 - 2 /\ 3 \in 1 .. a) \/ (p - 7 = 2 * 3 - 1 /\ 3 \in 1 .. a)
      BY <1>8, <3>1
    <3> QED BY <3>2
  <2>3. At(MemoriesOf(m)[2], 2 * k - 2) = 128 + 16 * m + k /\ At(MemoriesOf(m)[2], 2 * k - 1) = 16 * m + k
    BY <1>2 DEF BytesOf
  <2>4. 128 + 16 * m + k # v
    BY <1>1, <1>5
  <2>5. p - 7 = 2 * k - 1 /\ 16 * m + k = v
    BY <2>1, <2>2, <2>3, <2>4
  <2> QED BY <1>1, <1>3, <1>6, <2>5
<1>9. CASE p >= 7 + 2 * a
  <2>1. At(MemoriesOf(m)[3], p - (7 + 2 * a)) = v
    <3>1. Place(m, j - 1) = <<3, p - (7 + 2 * a)>>
      BY <1>1, <1>6, <1>9 DEF Place
    <3> QED BY <1>4, <3>1
  <2>2. PICK k \in 1 .. b : p - (7 + 2 * a) = 2 * k - 2 \/ p - (7 + 2 * a) = 2 * k - 1
    <3>1. PICK o \in Nat : o = p - (7 + 2 * a) /\ o < 2 * b
      BY <1>6, <1>9
    <3>2. o \in {0, 1, 2, 3, 4, 5}
      BY <3>1
    <3>3. \/ (o = 2 * 1 - 2 /\ 1 \in 1 .. b) \/ (o = 2 * 1 - 1 /\ 1 \in 1 .. b)
          \/ (o = 2 * 2 - 2 /\ 2 \in 1 .. b) \/ (o = 2 * 2 - 1 /\ 2 \in 1 .. b)
          \/ (o = 2 * 3 - 2 /\ 3 \in 1 .. b) \/ (o = 2 * 3 - 1 /\ 3 \in 1 .. b)
      BY <3>1, <3>2
    <3> QED BY <3>1, <3>3
  <2>3. At(MemoriesOf(m)[3], 2 * k - 2) = 128 + 16 * m + a + k
        /\ At(MemoriesOf(m)[3], 2 * k - 1) = 16 * m + a + k
    BY <1>2 DEF BytesOf
  <2>4. 128 + 16 * m + a + k # v
    BY <1>1, <1>5
  <2>5. p - (7 + 2 * a) = 2 * k - 1 /\ 16 * m + a + k = v
    BY <2>1, <2>2, <2>3, <2>4
  <2>6. k = b
    <3>1. m \in Nat /\ a \in Nat /\ b \in Nat /\ k \in Nat
      BY <1>1
    <3>2. 16 * m + a + k = 16 * m + a + b
      BY <1>3, <2>5
    <3> QED BY <3>1, <3>2
  <2> QED BY <1>1, <1>6, <2>5, <2>6
<1> QED BY <1>6, <1>7, <1>8, <1>9

(* What a receive leaves in a memory was there before or is what came.     *)
LEMMA ScatterFrom ==
  ASSUME NEW mems, NEW bufs, NEW bytes \in Seq(Byte), \A i \in 1 .. 3 : bufs[i] \in Bufs,
         Len(bytes) =< Len(Places(bufs)),
         NEW i \in 1 .. 3, NEW o \in DOMAIN Scatter(mems, bufs, bytes)[i]
  PROVE  \/ o \in DOMAIN mems[i] /\ Scatter(mems, bufs, bytes)[i][o] = mems[i][o]
         \/ \E k \in 1 .. Len(bytes) : Scatter(mems, bufs, bytes)[i][o] = bytes[k]
<1> DEFINE place == SubSeq(Places(bufs), 1, Len(bytes))
           Touched(x) == {place[k][2] : k \in {j \in DOMAIN place : place[j][1] = x}}
           New(x, y) == bytes[CHOOSE k \in DOMAIN place : place[k] = <<x, y>>]
<1>1. Scatter(mems, bufs, bytes)[i] = [y \in DOMAIN mems[i] \cup Touched(i) |->
                                         IF y \in Touched(i) THEN New(i, y) ELSE mems[i][y]]
  BY DEF Scatter
<1>2. DOMAIN place = 1 .. Len(bytes) /\ \A k \in DOMAIN place : place[k] \in (1 .. 3) \X Nat
  <2> DEFINE all == Places(bufs)
             S == (1 .. 3) \X Nat
  <2>1. all \in Seq(S)
    BY PlacesType
  <2>2. Len(bytes) \in Nat /\ \A k \in 1 .. Len(bytes) : k \in 1 .. Len(all)
    BY <2>1
  <2> HIDE DEF all, S
  <2>3. \A k \in 1 .. Len(bytes) : all[k] \in S
    BY <2>1, <2>2, ElementOfSeq
  <2>4. place \in Seq(S) /\ Len(place) = Len(bytes)
    BY <2>2, <2>3, SubSeqProperties DEF all
  <2> HIDE DEF place
  <2>5. \A k \in 1 .. Len(place) : place[k] \in S
    BY <2>4, ElementOfSeq
  <2>6. DOMAIN place = 1 .. Len(place)
    BY <2>4
  <2> QED BY <2>4, <2>5, <2>6 DEF S
<1> HIDE DEF place
<1>3. CASE o \in Touched(i)
  <2>1. PICK k \in DOMAIN place : place[k][1] = i /\ place[k][2] = o
    BY <1>3
  <2>2. place[k] = <<i, o>>
    BY <1>2, <2>1
  <2>3. (CHOOSE j \in DOMAIN place : place[j] = <<i, o>>) \in 1 .. Len(bytes)
    BY <1>2, <2>2
  <2>4. Scatter(mems, bufs, bytes)[i][o] = New(i, o)
    <3> HIDE DEF Touched, New
    <3> QED BY <1>1, <1>3
  <2> QED BY <2>3, <2>4
<1>4. CASE o \notin Touched(i)
  <2> HIDE DEF Touched, New
  <2> QED BY <1>1, <1>4
<1> QED BY <1>3, <1>4

----------------------------------------------------------------------------
(* What is read.                                                           *)

Packets == [one : Seq(Byte \X Byte), two : Seq(Byte \X Byte)]

(* The packet that Handle makes of what was received.                      *)
Taken(r) ==
  [one |-> WstrNetToHost(r.mems[2], IF LenOne(r.mems) < MAX_MSG_LEN_CHAT THEN LenOne(r.mems) ELSE 0),
   two |-> WstrNetToHost(r.mems[3], IF LenTwo(r.mems) < MAX_MSG_LEN_CHAT THEN LenTwo(r.mems) ELSE 0)]

(* It is what Handle appends to the packets that were read.                *)
LEMMA HandleTakes ==
  ASSUME NEW r, Handle(r)
  PROVE  handled' = Append(handled, Taken(r)) /\ rcv' = ResetChatRecv(r.bufs)
BY DEF Handle, Taken

(* It is characters (WstrNetToHost),                                       *)
LEMMA TakenType ==
  ASSUME NEW r, \A i \in 1 .. 3 : IsMemory(r.mems[i])
  PROVE  Taken(r) \in Packets
<1> DEFINE n(len) == IF len < MAX_MSG_LEN_CHAT THEN len ELSE 0
<1>1. LenOne(r.mems) \in Nat /\ LenTwo(r.mems) \in Nat
  <2>1. PICK mems : mems = r.mems
    OBVIOUS
  <2>2. \A i \in 1 .. 3 : IsMemory(mems[i])
    BY <2>1
  <2> QED BY <2>1, <2>2, LensType
<1>2. ASSUME NEW mem, IsMemory(mem), NEW len \in Nat PROVE WstrNetToHost(mem, n(len)) \in Seq(Byte \X Byte)
  <2>1. n(len) \in Nat
    OBVIOUS
  <2> HIDE DEF n
  <2>2. ASSUME NEW k \in 1 .. n(len) PROVE <<At(mem, 2 * k - 1), At(mem, 2 * k - 2)>> \in Byte \X Byte
    <3>1. At(mem, 2 * k - 1) \in Byte
      BY <1>2, AtType
    <3>2. At(mem, 2 * k - 2) \in Byte
      BY <1>2, AtType
    <3> QED BY <3>1, <3>2
  <2>3. WstrNetToHost(mem, n(len)) \in [1 .. n(len) -> Byte \X Byte]
    BY <2>2 DEF WstrNetToHost
  <2> QED BY <2>1, <2>3
<1>3. Taken(r) = [one |-> WstrNetToHost(r.mems[2], n(LenOne(r.mems))),
                  two |-> WstrNetToHost(r.mems[3], n(LenTwo(r.mems)))]
  BY DEF Taken
<1> HIDE DEF n
<1>4. IsMemory(r.mems[2]) /\ IsMemory(r.mems[3])
  OBVIOUS
<1>5. PICK one, two \in Seq(Byte \X Byte) :
        one = WstrNetToHost(r.mems[2], n(LenOne(r.mems))) /\ two = WstrNetToHost(r.mems[3], n(LenTwo(r.mems)))
  BY <1>1, <1>2, <1>4
<1>6. Taken(r) = [one |-> one, two |-> two]
  BY <1>3, <1>5
<1> QED BY <1>6 DEF Packets

(* and so is what was given to the sender.                                 *)
LEMMA CharsType ==
  ASSUME NEW m \in Messages
  PROVE  CharsOf(m) \in Packets
<1>1. PICK a, b \in 0 .. 3 : a = Lengths[m][1] /\ b = Lengths[m][2]
  BY LengthsType
<1>2. m \in 1 .. 7
  BY LengthsType
<1>3. /\ CharsOf(m).one = [k \in 1 .. a |-> <<16 * m + k, 128 + 16 * m + k>>]
      /\ CharsOf(m).two = [k \in 1 .. b |-> <<16 * m + a + k, 128 + 16 * m + a + k>>]
  <2>1. BytesOf(m, a, b)
    BY <1>1, MessageBytes
  <2> QED BY <2>1 DEF BytesOf
<1>4. CharsOf(m) = [one |-> CharsOf(m).one, two |-> CharsOf(m).two]
  BY DEF CharsOf
<1>5. CharsOf(m).one \in [1 .. a -> Byte \X Byte]
  <2>1. \A k \in 1 .. a : 16 * m + k \in Byte /\ 128 + 16 * m + k \in Byte
    BY <1>2 DEF Byte
  <2> QED BY <1>3, <2>1
<1>6. CharsOf(m).two \in [1 .. b -> Byte \X Byte]
  <2>1. \A k \in 1 .. b : 16 * m + a + k \in Byte /\ 128 + 16 * m + a + k \in Byte
    BY <1>2 DEF Byte
  <2> QED BY <1>3, <2>1
<1>7. CharsOf(m).one \in Seq(Byte \X Byte) /\ CharsOf(m).two \in Seq(Byte \X Byte)
  BY <1>5, <1>6
<1> QED BY <1>4, <1>7 DEF Packets

(* What was read right, packet by packet.                                  *)
LEMMA ReadRightIs ==
  ASSUME accepted \in 0 .. Len(Lengths), handled \in Seq(Packets)
  PROVE  ReadRight <=> /\ Len(handled) =< accepted
                       /\ \A m \in 1 .. Len(handled) : handled[m] = CharsOf(m)
<1> DEFINE given == [m \in 1 .. accepted |-> CharsOf(m)]
<1>1. accepted \in Nat /\ 1 .. accepted \in SUBSET Messages /\ Len(handled) \in Nat
  BY LengthsCount DEF Messages
<1>2. given \in Seq(Packets) /\ Len(given) = accepted /\ \A m \in 1 .. accepted : given[m] = CharsOf(m)
  <2>1. \A m \in 1 .. accepted : CharsOf(m) \in Packets
    BY <1>1, CharsType
  <2>2. given \in [1 .. accepted -> Packets]
    BY <2>1
  <2>3. \A m \in 1 .. accepted : given[m] = CharsOf(m)
    OBVIOUS
  <2> HIDE DEF given
  <2> QED BY <1>1, <2>2, <2>3
<1>3. ReadRight <=> IsPrefix(handled, given)
  BY DEF ReadRight
<1> HIDE DEF given
<1>4. ReadRight <=> Len(handled) =< Len(given) /\ \A m \in 1 .. Len(handled) : handled[m] = given[m]
  BY <1>2, <1>3, PrefixIsElements
<1>5. Len(handled) =< accepted => \A m \in 1 .. Len(handled) : m \in 1 .. accepted
  BY <1>1
<1> QED BY <1>2, <1>4, <1>5

(* A receive leaves a packet with more bytes in its memories.              *)
LEMMA MovedIs ==
  ASSUME RcvInv(rcv), NEW n
  PROVE  /\ Moved(rcv, n).mems = Scatter(rcv.mems, rcv.bufs, SubSeq(wire, read + 1, read + n))
         /\ Moved(rcv, n).total = rcv.total + n
<1> DEFINE mems == Scatter(rcv.mems, rcv.bufs, SubSeq(wire, read + 1, read + n))
<1>1. Moved(rcv, n) = [rcv EXCEPT !.mems = mems, !.total = rcv.total + n]
  BY DEF Moved
<1>2. rcv = [phase |-> rcv.phase, bufs |-> rcv.bufs, mems |-> rcv.mems, total |-> rcv.total,
             toMove |-> rcv.toMove]
  BY DEF RcvInv
<1> HIDE DEF mems
<1>3. Moved(rcv, n) = [phase |-> rcv.phase, bufs |-> rcv.bufs, mems |-> mems, total |-> rcv.total + n,
                       toMove |-> rcv.toMove]
  BY <1>1, <1>2
<1>4. Moved(rcv, n).mems = mems /\ Moved(rcv, n).total = rcv.total + n
  BY <1>3
<1> QED BY <1>4 DEF mems

(* The bytes that come are the next on the wire.                           *)
LEMMA ArrivingBytes ==
  ASSUME RcvInv(rcv), wire \in Seq(Byte), read \in 0 .. Len(wire), NEW n \in Arriving(rcv)
  PROVE  /\ n \in Nat \ {0} /\ n =< Len(Places(rcv.bufs)) /\ read + n =< Len(wire)
         /\ SubSeq(wire, read + 1, read + n) \in Seq(Byte)
         /\ Len(SubSeq(wire, read + 1, read + n)) = n
         /\ \A i \in 1 .. n : SubSeq(wire, read + 1, read + n)[i] = wire[read + i]
<1>1. Len(Places(rcv.bufs)) \in Nat
  <2>1. \A i \in 1 .. 3 : rcv.bufs[i] \in Bufs
    BY DEF RcvInv
  <2>2. Places(rcv.bufs) \in Seq((1 .. 3) \X Nat)
    BY <2>1, PlacesType
  <2> QED BY <2>2
<1>2. Len(wire) \in Nat /\ read \in Nat /\ read =< Len(wire)
  OBVIOUS
<1>3. n \in Nat \ {0} /\ n =< Len(Places(rcv.bufs)) /\ read + n =< Len(wire)
  BY <1>1, <1>2 DEF Arriving
<1>4. \A i \in (read + 1) .. (read + n) : wire[i] \in Byte
  <2>1. \A i \in (read + 1) .. (read + n) : i \in 1 .. Len(wire)
    BY <1>2, <1>3
  <2> QED BY <2>1, ElementOfSeq
<1>5. read + 1 \in Int /\ read + n \in Int
      /\ (IF read + 1 =< read + n THEN (read + n) - (read + 1) + 1 ELSE 0) = n
  BY <1>2, <1>3
<1>6. /\ SubSeq(wire, read + 1, read + n) \in Seq(Byte)
      /\ Len(SubSeq(wire, read + 1, read + n))
           = IF read + 1 =< read + n THEN (read + n) - (read + 1) + 1 ELSE 0
      /\ \A i \in 1 .. (read + n) - (read + 1) + 1 :
           SubSeq(wire, read + 1, read + n)[i] = wire[(read + 1) + i - 1]
  BY <1>4, <1>5, SubSeqProperties
<1>7. \A i \in 1 .. n : i \in 1 .. (read + n) - (read + 1) + 1 /\ (read + 1) + i - 1 = read + i
  BY <1>2, <1>3
<1> QED BY <1>3, <1>5, <1>6, <1>7

(* What was handled is packets.                                            *)
HandledTyped == handled \in Seq(Packets)

(* The turn of a client or of the server with what came handles it or      *)
(* leaves what was handled.                                                *)
LEMMA ReadTurn ==
  ASSUME ClientRecvPacket \/ WorkerRecvOP
  PROVE  \E n \in Arriving(rcv) : Handle(Moved(rcv, n)) \/ handled' = handled
<1>1. CASE ClientRecvPacket
  <2>1. PICK n \in Arriving(rcv) :
          IF rcv.phase = "header" THEN RecvHeader(Moved(rcv, n)) ELSE RecvBody(Moved(rcv, n))
    BY <1>1 DEF ClientRecvPacket
  <2>2. RecvHeader(Moved(rcv, n)) \/ RecvBody(Moved(rcv, n))
    BY <2>1
  <2>3. PICK r : r = Moved(rcv, n)
    OBVIOUS
  <2>4. RecvHeader(r) => Handle(r) \/ handled' = handled
    BY DEF RecvHeader
  <2>5. RecvBody(r) => Handle(r) \/ handled' = handled
    BY DEF RecvBody
  <2> QED BY <2>2, <2>3, <2>4, <2>5
<1>2. CASE WorkerRecvOP
  <2>1. PICK n \in Arriving(rcv) : ServerTurn(n)
    BY <1>2 DEF WorkerRecvOP, ServerTurn
  <2>2. WorkerPartialRecv(Moved(rcv, n)) \/ Handle(Moved(rcv, n))
    BY <2>1 DEF ServerTurn
  <2>3. PICK r : r = Moved(rcv, n)
    OBVIOUS
  <2>4. WorkerPartialRecv(r) => Handle(r) \/ handled' = handled
    BY DEF WorkerPartialRecv
  <2> QED BY <2>2, <2>3, <2>4
<1> QED BY <1>1, <1>2

(* That holds at the start, and every step keeps it.                       *)
LEMMA InitHandled == Init => HandledTyped
BY EmptySeq DEF Init, HandledTyped

(* What is handled is a packet.                                            *)
LEMMA HandledStep == TypeInv /\ HandledTyped /\ [Next]_vars => HandledTyped'
<1> SUFFICES ASSUME TypeInv, HandledTyped, [Next]_vars PROVE HandledTyped'
  OBVIOUS
<1>1. CASE ClientRecvPacket \/ WorkerRecvOP
  <2>1. PICK n \in Arriving(rcv) : Handle(Moved(rcv, n)) \/ handled' = handled
    BY <1>1, ReadTurn
  <2>2. CASE Handle(Moved(rcv, n))
    <3>1. PICK r : r = Moved(rcv, n)
      OBVIOUS
    <3>2. handled' = Append(handled, Taken(r))
      BY <2>2, <3>1, HandleTakes
    <3>3. \A i \in 1 .. 3 : IsMemory(r.mems[i])
      <4>1. RcvInv(rcv) /\ wire \in Seq(Byte) /\ read \in 0 .. Len(wire)
        BY DEF TypeInv
      <4> QED BY <3>1, <4>1, MovedType
    <3>4. Taken(r) \in Packets
      BY <3>3, TakenType
    <3> QED BY <3>2, <3>4, AppendProperties DEF HandledTyped
  <2>3. CASE handled' = handled
    BY <2>3 DEF HandledTyped
  <2> QED BY <2>1, <2>2, <2>3
<1>2. CASE ManageMsgQueueAdd \/ SendCompletes \/ UserFree \/ SocketPeek \/ SendPacket \/ UNCHANGED vars
  BY <1>2 DEF ManageMsgQueueAdd, SendCompletes, WorkerSendOP, UserFree, SocketPeek, SendPacket, vars, HandledTyped
<1> QED BY <1>1, <1>2 DEF Next

(* A packet that is handled is one more.                                   *)
LEMMA HandledMore ==
  ASSUME HandledTyped, NEW r, Handle(r), \A i \in 1 .. 3 : IsMemory(r.mems[i])
  PROVE  /\ Len(handled) \in Nat /\ Len(handled') = Len(handled) + 1
         /\ handled'[Len(handled) + 1] = Taken(r)
         /\ \A m \in 1 .. Len(handled) : handled'[m] = handled[m]
<1>1. handled' = Append(handled, Taken(r)) /\ Taken(r) \in Packets
  BY HandleTakes, TakenType
<1>2. Len(handled) \in Nat
  BY DEF HandledTyped
<1> QED BY <1>1, <1>2, AppendProperties DEF HandledTyped

(* The server's turn with r: it waits for more, or r had a whole header    *)
(* and is handled (WorkerRecvOP, WorkerPartialRecv).                       *)
LEMMA ServerTurnCases ==
  ASSUME TypeInv, way = "toServer", rcv.toMove >= HEADER_LEN, NEW n \in Arriving(rcv), ServerTurn(n)
  PROVE  \/ Handle(Moved(rcv, n)) /\ Moved(rcv, n).total >= HEADER_LEN
         \/ /\ handled' = handled /\ rcv'.mems = Moved(rcv, n).mems
            /\ rcv'.total = Moved(rcv, n).total /\ rcv'.toMove >= HEADER_LEN
<1>1. RcvInv(rcv) /\ wire \in Seq(Byte) /\ read \in 0 .. Len(wire) /\ rcv.toMove \in Nat
  BY DEF TypeInv, RcvInv
<1>2. PICK r : r = Moved(rcv, n)
  OBVIOUS
<1>3. /\ r = Rcv(rcv.phase, rcv.bufs, r.mems, r.total, rcv.toMove)
      /\ \A i \in 1 .. 3 : IsMemory(r.mems[i])
      /\ r.total \in Nat
  BY <1>1, <1>2, MovedType
<1>4. r.toMove = rcv.toMove /\ r.bufs = rcv.bufs
  BY <1>3 DEF Rcv
<1>5. \/ Handle(r) /\ r.total >= r.toMove
      \/ WorkerPartialRecv(r)
  BY <1>1, <1>2, <1>3, <1>4 DEF ServerTurn
<1>6. HEADER_LEN = 7
  BY DEF HEADER_LEN
<1>7. CASE Handle(r) /\ r.total >= r.toMove
  BY <1>1, <1>2, <1>3, <1>4, <1>6, <1>7
<1>8. CASE WorkerPartialRecv(r)
  <2>1. \/ Handle(r) /\ r.total >= HEADER_LEN
        \/ rcv' = RestOfHeader(r) /\ handled' = handled
        \/ /\ rcv' = WorkerPartialRecvBody(r, PeekedLens(r)[1], PeekedLens(r)[2]) /\ handled' = handled
    BY <1>8 DEF WorkerPartialRecv
  <2>2. CASE Handle(r) /\ r.total >= HEADER_LEN
    BY <1>2, <2>2
  <2>3. CASE rcv' = RestOfHeader(r) /\ handled' = handled
    <3>1. rcv' = [r EXCEPT !.bufs = [r.bufs EXCEPT ![1] = Buf(r.total, HEADER_LEN - r.total)]]
      BY <2>3, FirstBuf DEF RestOfHeader
    <3>2. rcv'.mems = r.mems /\ rcv'.total = r.total /\ rcv'.toMove = r.toMove
      BY <1>3, <3>1 DEF Rcv
    <3> QED BY <1>2, <1>4, <2>3, <3>2
  <2>4. CASE rcv' = WorkerPartialRecvBody(r, PeekedLens(r)[1], PeekedLens(r)[2]) /\ handled' = handled
    <3>1. PICK one, two \in Nat : one = PeekedLens(r)[1] /\ two = PeekedLens(r)[2]
      <4>1. ASSUME NEW i PROVE Size(ntohs(r.mems[1], i)) \in Nat
        <5>1. ntohs(r.mems[1], i) \in Nat
          BY <1>3, NumberType
        <5> QED BY <5>1, SizeType
      <4> QED BY <4>1 DEF PeekedLens
    <3>2. rcv' = WorkerPartialRecvBody(r, one, two)
      BY <2>4, <3>1
    <3>3. /\ rcv'.mems = r.mems /\ rcv'.total = r.total
          /\ rcv'.toMove = r.toMove \/ rcv'.toMove = HEADER_LEN + one + two
      BY <1>3, <3>2 DEF WorkerPartialRecvBody, Rcv
    <3>4. HEADER_LEN + one + two >= HEADER_LEN
      BY <1>6
    <3> QED BY <1>2, <1>4, <2>4, <3>3, <3>4
  <2> QED BY <2>1, <2>2, <2>3, <2>4
<1> QED BY <1>5, <1>7, <1>8

(* r was read as message m was given.                                      *)
TakenRight(r, m) == (\A i \in 1 .. 3 : IsMemory(r.mems[i])) /\ Taken(r) = CharsOf(m)

HasByte(mems, v) == \E i \in 1 .. 3 : \E o \in DOMAIN mems[i] : mems[i][o] = v

(* A packet with a body that was read right holds its last byte.           *)
LEMMA TakenLast ==
  ASSUME NEW m \in Messages, Lengths[m][1] + Lengths[m][2] # 0, NEW r, TakenRight(r, m)
  PROVE  HasByte(r.mems, 16 * m + Lengths[m][1] + Lengths[m][2])
<1>1. PICK a, b \in 0 .. 3 : Lengths[m][1] = a /\ Lengths[m][2] = b /\ a + b # 0
  BY PacketNumbers
<1> DEFINE n(len) == IF len < MAX_MSG_LEN_CHAT THEN len ELSE 0
<1>2. (\A i \in 1 .. 3 : IsMemory(r.mems[i])) /\ Taken(r) = CharsOf(m)
  BY DEF TakenRight
<1>3. PICK one \in Nat, two \in Nat : one = n(LenOne(r.mems)) /\ two = n(LenTwo(r.mems))
  <2>1. PICK mems : mems = r.mems
    OBVIOUS
  <2>2. \A i \in 1 .. 3 : IsMemory(mems[i])
    BY <1>2, <2>1
  <2>3. LenOne(r.mems) \in Nat /\ LenTwo(r.mems) \in Nat
    BY <2>1, <2>2, LensType
  <2>4. n(LenOne(r.mems)) \in Nat /\ n(LenTwo(r.mems)) \in Nat
    BY <2>3
  <2> QED BY <2>4
<1>4. Taken(r).one = WstrNetToHost(r.mems[2], one) /\ Taken(r).two = WstrNetToHost(r.mems[3], two)
  BY <1>3 DEF Taken
<1> HIDE DEF n
<1>5. m \in Nat /\ m > 0
  BY LengthsType
<1>6. /\ CharsOf(m).one = [k \in 1 .. a |-> <<16 * m + k, 128 + 16 * m + k>>]
      /\ CharsOf(m).two = [k \in 1 .. b |-> <<16 * m + a + k, 128 + 16 * m + a + k>>]
  <2>1. BytesOf(m, a, b)
    BY <1>1, MessageBytes
  <2> QED BY <2>1 DEF BytesOf
<1>7. ASSUME NEW i \in 2 .. 3, NEW len \in Nat, NEW c \in 1 .. 3, NEW v \in [1 .. c -> Nat \X Nat],
             v[c][1] = 16 * m + a + b, WstrNetToHost(r.mems[i], len) = v
      PROVE  \E o \in DOMAIN r.mems[i] : r.mems[i][o] = 16 * m + a + b
  <2> DEFINE read1 == [k \in 1 .. len |-> <<At(r.mems[i], 2 * k - 1), At(r.mems[i], 2 * k - 2)>>]
  <2>1. read1 = v
    BY <1>7 DEF WstrNetToHost
  <2>2. DOMAIN read1 = 1 .. len /\ DOMAIN v = 1 .. c
    OBVIOUS
  <2>3. c \in 1 .. len
    BY <2>1, <2>2
  <2>4. read1[c] = <<At(r.mems[i], 2 * c - 1), At(r.mems[i], 2 * c - 2)>>
    BY <2>3
  <2> HIDE DEF read1
  <2>5. At(r.mems[i], 2 * c - 1) = 16 * m + a + b
    BY <1>7, <2>1, <2>4
  <2>6. 16 * m + a + b # 0
    BY <1>5, <1>1
  <2> QED BY <2>5, <2>6 DEF At
<1>8. CASE b # 0
  <2> DEFINE v == [k \in 1 .. b |-> <<16 * m + a + k, 128 + 16 * m + a + k>>]
  <2>1. v \in [1 .. b -> Nat \X Nat]
    BY <1>5, <1>1
  <2>2. b \in 1 .. 3 /\ v[b][1] = 16 * m + a + b
    BY <1>5, <1>8, <1>1
  <2>3. WstrNetToHost(r.mems[3], two) = v
    BY <1>2, <1>4, <1>6
  <2>4. 3 \in 2 .. 3 /\ 3 \in 1 .. 3
    OBVIOUS
  <2> HIDE DEF v
  <2>5. \E o \in DOMAIN r.mems[3] : r.mems[3][o] = 16 * m + a + b
    BY <1>7, <2>1, <2>2, <2>3, <2>4
  <2> QED BY <1>1, <2>5, <2>4 DEF HasByte
<1>9. CASE b = 0
  <2> DEFINE v == [k \in 1 .. a |-> <<16 * m + k, 128 + 16 * m + k>>]
  <2>1. v \in [1 .. a -> Nat \X Nat]
    BY <1>5, <1>1
  <2>2. a \in 1 .. 3 /\ v[a][1] = 16 * m + a + b
    BY <1>5, <1>9, <1>1
  <2>3. WstrNetToHost(r.mems[2], one) = v
    BY <1>2, <1>4, <1>6
  <2>4. 2 \in 2 .. 3 /\ 2 \in 1 .. 3
    OBVIOUS
  <2> HIDE DEF v
  <2>5. \E o \in DOMAIN r.mems[2] : r.mems[2][o] = 16 * m + a + b
    BY <1>7, <2>1, <2>2, <2>3, <2>4
  <2> QED BY <1>1, <2>5, <2>4 DEF HasByte
<1> QED BY <1>8, <1>9, <1>1

(* What is in memories is bytes that lie between two places.               *)
FromWire(mems, bytes, from, to) ==
  \A i \in 1 .. 3 : \A o \in DOMAIN mems[i] : \E k \in (from + 1) .. to : mems[i][o] = bytes[k]

(* When the last packet that was sent is handled and was read right, all   *)
(* of it had come: the last byte it needs is the last on the wire.         *)
LEMMA AllHadCome ==
  ASSUME NEW k \in Nat, k + 1 \in Messages, Begins(wire, k + 1), NEW r,
         TakenRight(r, k + 1),
         r.total \in Nat, r.total >= HEADER_LEN, Len(Flat(k)) + r.total =< Len(wire),
         FromWire(r.mems, wire, Len(Flat(k)), Len(Flat(k)) + r.total)
  PROVE  /\ Len(Flat(k)) + r.total = Len(wire) /\ Len(wire) = Len(Flat(k + 1))
<1>1. PICK m \in Messages, t \in Nat : m = k + 1 /\ t = r.total
  OBVIOUS
<1>2. PICK begin : begin = Len(Flat(k))
  OBVIOUS
<1>3. m \in Messages /\ TakenRight(r, m) /\ begin + t =< Len(wire) /\ t >= HEADER_LEN
      /\ FromWire(r.mems, wire, begin, begin + t)
  BY <1>1, <1>2
<1>4. PICK a, b \in 0 .. 3 : /\ Lengths[m][1] = a /\ Lengths[m][2] = b
                             /\ BodyTwoAt(m) = 7 + 2 * a /\ ToMove(m) = 7 + 2 * a + 2 * b
                             /\ HEADER_LEN = 7
  BY <1>3, PacketNumbers
<1>5. m \in 0 .. Len(Lengths) /\ k \in 0 .. (m - 1)
  BY <1>1, <1>3, LengthsCount DEF Messages
<1>6. /\ begin \in Nat /\ Len(Flat(m)) = begin + ToMove(m)
      /\ \A i \in 1 .. ToMove(m) : Flat(m)[begin + i] = PacketOf(m)[i]
  BY <1>1, <1>5, <1>2, FlatAt
<1>7. /\ Len(wire) \in Nat /\ Len(wire) =< begin + ToMove(m)
      /\ \A i \in 1 .. Len(wire) : wire[i] = Flat(m)[i]
  BY <1>1, <1>6 DEF Begins
<1>8. t >= ToMove(m)
  <2>1. CASE a + b = 0
    BY <1>4, <1>3, <2>1
  <2>2. CASE a + b # 0
    <3>1. HasByte(r.mems, 16 * m + Lengths[m][1] + Lengths[m][2])
      BY <1>4, <1>3, <2>2, TakenLast
    <3>2. PICK i \in 1 .. 3 : \E o \in DOMAIN r.mems[i] : r.mems[i][o] = 16 * m + a + b
      BY <1>4, <3>1 DEF HasByte
    <3>3. PICK o \in DOMAIN r.mems[i] : r.mems[i][o] = 16 * m + a + b
      BY <3>2
    <3>4. PICK j \in (begin + 1) .. (begin + t) : wire[j] = 16 * m + a + b
      BY <1>3, <3>3 DEF FromWire
    <3>5. j - begin \in Nat
      BY <1>6
    <3>6. PICK i2 \in Nat : i2 = j - begin
      BY <3>5
    <3>7. PICK w \in Nat, l \in Nat : w = Len(wire) /\ l = ToMove(m) /\ w =< begin + l /\ begin + t =< w
      <4>1. ToMove(m) \in Nat
        BY <1>3, NewHolderType
      <4> QED BY <1>3, <1>7, <4>1
    <3>8. i2 \in 1 .. l /\ j = begin + i2 /\ j \in 1 .. w /\ i2 =< t
      BY <1>6, <3>6, <3>7
    <3>9. i2 \in 1 .. ToMove(m) /\ j = begin + i2 /\ j \in 1 .. Len(wire) /\ i2 =< t
      BY <3>7, <3>8
    <3>10. PacketOf(m)[i2] = 16 * m + a + b
      BY <1>6, <1>7, <3>4, <3>9
    <3>11. i2 = ToMove(m)
      BY <1>4, <1>3, <2>2, <3>9, <3>10, LastByte
    <3> QED BY <3>9, <3>11
  <2> QED BY <2>1, <2>2
<1>9. begin + t = Len(wire) /\ Len(wire) = begin + ToMove(m)
  <2>1. PICK w \in Nat, l \in Nat : w = Len(wire) /\ l = ToMove(m)
    <3>1. ToMove(m) \in Nat
      BY <1>4
    <3> QED BY <1>7, <3>1
  <2>2. w =< begin + l /\ begin + t =< w /\ t >= l
    BY <1>3, <1>7, <1>8, <2>1
  <2>3. begin + t = w /\ w = begin + l
    BY <1>6, <2>2
  <2> QED BY <2>1, <2>3
<1> QED BY <1>1, <1>2, <1>6, <1>9

(* What was read is right when each packet is.                             *)
EachRight == Len(handled) =< accepted /\ \A m \in 1 .. Len(handled) : handled[m] = CharsOf(m)

(* That is what ReadRight says.                                            *)
LEMMA ReadRightMeans == TypeInv /\ HandledTyped => (ReadRight <=> EachRight)
BY ReadRightIs DEF TypeInv, HandledTyped, EachRight

(* What the server knows of the requests: it read the ones before, and of  *)
(* at most one more a part came, which is all that its memories hold.      *)
Begin == Len(Flat(Len(handled)))

Asking ==
  /\ Len(handled) =< accepted /\ accepted =< Len(handled) + 1
  /\ read = Begin + rcv.total
  /\ Len(handled) = accepted => Len(wire) = Begin /\ rcv.total = 0
  /\ FromWire(rcv.mems, wire, Begin, read)

RequestInv ==
  way = "toServer" => /\ Begins(wire, accepted)
                      /\ rcv.toMove >= HEADER_LEN
                      /\ ReadRight => Asking

(* At the start no request was sent.                                       *)
LEMMA InitAsking == Init => RequestInv
<1> SUFFICES ASSUME Init PROVE RequestInv
  OBVIOUS
<1>1. /\ accepted = 0 /\ wire = <<>> /\ read = 0 /\ handled = <<>>
      /\ rcv = ResetChatRecv(HeaderBufs)
  BY DEF Init
<1>2. <<>> \in Seq(Byte) /\ Len(<<>>) = 0 /\ Flat(0) = <<>>
  BY EmptySeq, FlatNone
<1>3. Begins(wire, accepted)
  BY <1>1, <1>2 DEF Begins
<1>4. rcv.total = 0 /\ rcv.toMove = 7 /\ rcv.mems = <<<<>>, <<>>, <<>>>>
  BY <1>1 DEF ResetChatRecv, NewMemories, HEADER_LEN
<1>5. Begin = 0
  BY <1>1, <1>2 DEF Begin
<1>6. FromWire(rcv.mems, wire, Begin, read)
  BY <1>4 DEF FromWire
<1>7. Len(handled) = 0 /\ Len(wire) = 0
  BY <1>1, <1>2
<1>8. Asking
  BY <1>1, <1>4, <1>5, <1>6, <1>7 DEF Asking
<1> QED BY <1>3, <1>4, <1>8 DEF RequestInv, HEADER_LEN

(* A request is sent when the one before was read (SendPacket).            *)
LEMMA SendKeepsAsking == TypeInv /\ HandledTyped /\ RequestInv /\ SendPacket => RequestInv'
<1> SUFFICES ASSUME TypeInv, HandledTyped, RequestInv, SendPacket PROVE RequestInv'
  OBVIOUS
<1>1. /\ way = "toServer" /\ ReadRight /\ accepted < Len(Lengths) /\ Len(handled) = accepted
      /\ accepted' = accepted + 1 /\ UNCHANGED <<way, read, rcv, handled>>
  BY DEF SendPacket, Running
<1>2. Asking /\ Begins(wire, accepted) /\ rcv.toMove >= HEADER_LEN
  BY <1>1 DEF RequestInv
<1>3. PICK m \in Messages : m = accepted + 1
  BY <1>1, TypeInvParts
<1>4. PICK packet : packet = PacketOf(m)
  OBVIOUS
<1>5. PICK n \in DOMAIN packet : wire' = wire \o SubSeq(packet, 1, n)
  BY <1>1, <1>3, <1>4 DEF SendPacket
<1>6. packet \in Seq(Byte) /\ Len(packet) = ToMove(m) /\ n \in 1 .. ToMove(m) /\ ToMove(m) \in Nat
  BY <1>4, PacketBytes, NewHolderType
<1>7. accepted \in 0 .. Len(Lengths) /\ accepted \in Nat /\ Len(Lengths) \in Nat /\ m \in accepted .. Len(Lengths)
      /\ m \in 0 .. Len(Lengths) /\ accepted \in 0 .. (m - 1)
  BY <1>1, <1>3, LengthsCount DEF TypeInv
<1>8. Begins(wire, m)
  BY <1>2, <1>7, BeginsMore
<1>9. Len(wire) = Begin /\ rcv.total = 0 /\ Begin = Len(Flat(accepted)) /\ Begin \in Nat /\ read = Begin
  <2>1. Len(wire) \in Nat
    BY <1>2 DEF Begins
  <2> QED BY <1>1, <1>2, <2>1 DEF Asking, Begin
<1>10. PICK z \in Nat : z = 0
  OBVIOUS
<1>11. GoesOn(wire, m, accepted, z, packet, n)
  <2>1. \A i \in 1 .. n : packet[i] = PacketOf(accepted + 1)[z + i]
    BY <1>3, <1>4, <1>6, <1>10
  <2> QED BY <1>3, <1>6, <1>7, <1>8, <1>9, <1>10, <2>1 DEF GoesOn
<1>12. Begins(wire', m)
  BY <1>5, <1>11, BeginsWith
<1>13. ASSUME ReadRight' PROVE Asking'
  <2>1. Begin' = Begin
    BY <1>1 DEF Begin
  <2>2. FromWire(rcv'.mems, wire', Begin, read)
    <3>1. FromWire(rcv.mems, wire, Begin, Begin)
      BY <1>2, <1>9 DEF Asking
    <3>2. \A k : k \notin (Begin + 1) .. Begin
      BY <1>9
    <3> QED BY <1>1, <3>1, <3>2 DEF FromWire
  <2>3. /\ Len(handled') =< accepted' /\ accepted' =< Len(handled') + 1 /\ Len(handled') # accepted'
    BY <1>1, <1>7
  <2>4. read' = Begin' + rcv'.total
    BY <1>1, <1>9, <2>1
  <2> QED BY <1>1, <2>1, <2>2, <2>3, <2>4 DEF Asking
<1> QED BY <1>1, <1>2, <1>3, <1>12, <1>13 DEF RequestInv

(* The server waits for more of a request, or handles it (WorkerRecvOP).   *)
LEMMA ReadKeepsAsking == TypeInv /\ HandledTyped /\ RequestInv /\ WorkerRecvOP => RequestInv'
<1> SUFFICES ASSUME TypeInv, HandledTyped, RequestInv, WorkerRecvOP PROVE RequestInv'
  OBVIOUS
<1>1. way = "toServer" /\ ReadRight /\ UNCHANGED <<way, accepted, wire>>
  BY DEF WorkerRecvOP, Running
<1>2. Asking /\ Begins(wire, accepted) /\ rcv.toMove >= HEADER_LEN
  BY <1>1 DEF RequestInv
<1>3. PICK n \in Arriving(rcv) : ServerTurn(n) /\ read' = read + n
  BY DEF WorkerRecvOP, ServerTurn
<1>4. RcvInv(rcv) /\ wire \in Seq(Byte) /\ read \in 0 .. Len(wire) /\ accepted \in 0 .. Len(Lengths)
  BY DEF TypeInv
<1>5. PICK bytes : bytes = SubSeq(wire, read + 1, read + n)
  OBVIOUS
<1>6. /\ n \in Nat \ {0} /\ n =< Len(Places(rcv.bufs)) /\ read + n =< Len(wire)
      /\ SubSeq(wire, read + 1, read + n) \in Seq(Byte)
      /\ Len(SubSeq(wire, read + 1, read + n)) = n
      /\ \A i \in 1 .. n : SubSeq(wire, read + 1, read + n)[i] = wire[read + i]
  BY <1>4, ArrivingBytes
<1>7. /\ n \in Nat \ {0} /\ n =< Len(Places(rcv.bufs)) /\ read + n =< Len(wire) /\ read \in Nat
      /\ bytes \in Seq(Byte) /\ Len(bytes) = n
      /\ \A i \in 1 .. n : bytes[i] = wire[read + i]
  BY <1>4, <1>5, <1>6
<1>8. PICK r : r = Moved(rcv, n)
  OBVIOUS
<1>9. \A i \in 1 .. 3 : IsMemory(r.mems[i])
  BY <1>4, <1>8, MovedType
<1>10. r.mems = Scatter(rcv.mems, rcv.bufs, bytes) /\ r.total = rcv.total + n /\ rcv.total \in Nat
  BY <1>4, <1>5, <1>8, MovedIs DEF RcvInv
<1>11. Len(handled) \in Nat /\ accepted \in Nat /\ accepted = Len(handled) + 1
  <2>1. Len(handled) \in Nat /\ accepted \in Nat
    BY <1>4, LengthsCount DEF HandledTyped
  <2>2. Len(handled) # accepted
    BY <1>2, <1>4, <1>7 DEF Asking
  <2> QED BY <1>2, <2>1, <2>2 DEF Asking
<1>12. Begin \in Nat /\ read = Begin + rcv.total /\ read' = Begin + r.total /\ r.total \in Nat
  <2>1. Len(handled) \in 0 .. Len(Lengths)
    BY <1>4, <1>11, LengthsCount
  <2>2. Flat(Len(handled)) \in Seq(Byte)
    BY <2>1, FlatType
  <2>3. Begin \in Nat
    BY <2>2 DEF Begin
  <2>4. PICK begin, t \in Nat : begin = Begin /\ t = rcv.total
    BY <1>10, <2>3
  <2>5. read = begin + t /\ read' = read + n /\ r.total = t + n /\ n \in Nat
    BY <1>2, <1>3, <1>7, <1>10, <2>4 DEF Asking
  <2>6. read' = begin + r.total /\ r.total \in Nat
    BY <2>5
  <2> QED BY <2>4, <2>5, <2>6
<1>13. FromWire(r.mems, wire, Begin, Begin + r.total)
  <2> SUFFICES ASSUME NEW i \in 1 .. 3, NEW o \in DOMAIN r.mems[i]
               PROVE  \E k \in (Begin + 1) .. (Begin + r.total) : r.mems[i][o] = wire[k]
    BY DEF FromWire
  <2>1. \A j \in 1 .. 3 : rcv.bufs[j] \in Bufs
    BY <1>4 DEF RcvInv
  <2>2. \/ o \in DOMAIN rcv.mems[i] /\ r.mems[i][o] = rcv.mems[i][o]
        \/ \E k \in 1 .. Len(bytes) : r.mems[i][o] = bytes[k]
    <3>1. PICK mems, bufs : mems = rcv.mems /\ bufs = rcv.bufs
      OBVIOUS
    <3>2. /\ bytes \in Seq(Byte) /\ Len(bytes) =< Len(Places(bufs)) /\ (\A j \in 1 .. 3 : bufs[j] \in Bufs)
          /\ r.mems = Scatter(mems, bufs, bytes) /\ o \in DOMAIN Scatter(mems, bufs, bytes)[i]
      BY <1>7, <1>10, <2>1, <3>1
    <3>3. \/ o \in DOMAIN mems[i] /\ Scatter(mems, bufs, bytes)[i][o] = mems[i][o]
          \/ \E k \in 1 .. Len(bytes) : Scatter(mems, bufs, bytes)[i][o] = bytes[k]
      BY <3>2, ScatterFrom
    <3> QED BY <3>1, <3>2, <3>3
  <2>3. CASE o \in DOMAIN rcv.mems[i] /\ r.mems[i][o] = rcv.mems[i][o]
    <3>1. PICK k \in (Begin + 1) .. read : rcv.mems[i][o] = wire[k]
      BY <1>2, <2>3 DEF Asking, FromWire
    <3>2. k \in (Begin + 1) .. (Begin + r.total)
      BY <1>7, <1>10, <1>12
    <3> QED BY <2>3, <3>1, <3>2
  <2>4. CASE \E k \in 1 .. Len(bytes) : r.mems[i][o] = bytes[k]
    <3>1. PICK k \in 1 .. n : r.mems[i][o] = bytes[k]
      BY <1>7, <2>4
    <3>2. PICK begin, t \in Nat : begin = Begin /\ t = rcv.total /\ read = begin + t /\ r.total = t + n
      BY <1>10, <1>12
    <3>3. read + k \in (Begin + 1) .. (Begin + r.total)
      <4>1. n \in Nat
        BY <1>7
      <4>2. (begin + t) + k \in (begin + 1) .. (begin + (t + n))
        BY <3>2, <4>1
      <4> QED BY <3>2, <4>2
    <3> QED BY <1>7, <3>1, <3>3
  <2> QED BY <2>2, <2>3, <2>4
<1>14. \/ Handle(r) /\ r.total >= HEADER_LEN
       \/ /\ handled' = handled /\ rcv'.mems = r.mems
          /\ rcv'.total = r.total /\ rcv'.toMove >= HEADER_LEN
  BY <1>1, <1>2, <1>3, <1>8, ServerTurnCases
<1>15. CASE /\ handled' = handled /\ rcv'.mems = r.mems
            /\ rcv'.total = r.total /\ rcv'.toMove >= HEADER_LEN
  <2>1. Begin' = Begin
    BY <1>15 DEF Begin
  <2>2. Asking'
    BY <1>1, <1>11, <1>12, <1>13, <1>15, <2>1 DEF Asking
  <2> QED BY <1>1, <1>2, <1>15, <2>2 DEF RequestInv
<1>16. CASE Handle(r) /\ r.total >= HEADER_LEN
  <2>1. handled' = Append(handled, Taken(r)) /\ rcv' = ResetChatRecv(r.bufs)
    BY <1>16, HandleTakes
  <2>2. rcv'.total = 0 /\ rcv'.toMove = HEADER_LEN /\ rcv'.mems = <<<<>>, <<>>, <<>>>>
    BY <2>1 DEF ResetChatRecv, NewMemories
  <2>3. ASSUME ReadRight' PROVE Asking'
    <3>1. /\ Len(handled') = Len(handled) + 1 /\ handled'[Len(handled) + 1] = Taken(r)
      BY <1>9, <1>16, HandledMore
    <3>2. TakenRight(r, accepted)
      <4>1. HandledTyped'
        BY HandledStep DEF Next
      <4>2. TypeInv'
        BY TypeInvStep DEF Next
      <4>3. EachRight'
        BY <2>3, <4>1, <4>2, ReadRightMeans, PTL
      <4>4. \A m \in 1 .. Len(handled') : handled'[m] = CharsOf(m)
        BY <4>3 DEF EachRight
      <4> QED BY <1>9, <1>11, <3>1, <4>4 DEF TakenRight
    <3>3. Len(handled) + 1 \in Messages
      BY <1>4, <1>11, TypeInvParts DEF Messages
    <3>4. Begin + r.total =< Len(wire) /\ Begin = Len(Flat(Len(handled)))
      BY <1>7, <1>10, <1>12 DEF Begin
    <3>5. Begin + r.total = Len(wire) /\ Len(wire) = Len(Flat(accepted))
      BY <1>2, <1>9, <1>11, <1>12, <1>13, <1>16, <3>2, <3>3, <3>4, AllHadCome
    <3>6. Begin' = Len(wire) /\ Len(wire) \in Nat /\ Len(handled') = accepted
      BY <1>4, <1>11, <3>1, <3>5 DEF Begin
    <3>7. FromWire(rcv'.mems, wire', Begin', read')
      BY <2>2 DEF FromWire
    <3>8. read' = Begin' + rcv'.total
      BY <1>12, <2>2, <3>5, <3>6
    <3> QED BY <1>1, <1>11, <2>2, <3>6, <3>7, <3>8 DEF Asking
  <2>4. HEADER_LEN >= HEADER_LEN
    BY DEF HEADER_LEN
  <2> QED BY <1>1, <1>2, <2>2, <2>3, <2>4 DEF RequestInv
<1> QED BY <1>14, <1>15, <1>16

(* Every step keeps what the server knows of the requests.                 *)
LEMMA AskingStep == TypeInv /\ HandledTyped /\ RequestInv /\ [Next]_vars => RequestInv'
<1> SUFFICES ASSUME TypeInv, HandledTyped, RequestInv, [Next]_vars PROVE RequestInv'
  OBVIOUS
<1>1. CASE ManageMsgQueueAdd \/ SendCompletes \/ UserFree \/ ClientRecvPacket
  BY <1>1 DEF ManageMsgQueueAdd, SendCompletes, WorkerSendOP, UserFree, ClientRecvPacket, RequestInv
<1>2. CASE SocketPeek
  <2>1. way' = way /\ way # "toServer"
    BY <1>2 DEF SocketPeek, TypeInv
  <2> QED BY <2>1 DEF RequestInv
<1>3. CASE SendPacket
  BY <1>3, SendKeepsAsking
<1>4. CASE WorkerRecvOP
  BY <1>4, ReadKeepsAsking
<1>5. CASE UNCHANGED vars
  BY <1>5 DEF vars, RequestInv, Asking, Begin, ReadRight
<1> QED BY <1>1, <1>2, <1>3, <1>4, <1>5 DEF Next

(* Every step keeps what is on the wire.                                   *)
LEMMA WiredStep == TypeInv /\ QueueInv /\ WiredInv /\ [Next]_vars => WiredInv'
<1> SUFFICES ASSUME TypeInv, QueueInv, WiredInv, [Next]_vars PROVE WiredInv'
  OBVIOUS
<1>1. CASE ManageMsgQueueAdd
  BY <1>1, AddKeepsWired
<1>2. CASE SendCompletes
  BY <1>2, SendKeepsWired
<1>3. CASE ClientRecvPacket \/ SocketPeek \/ UserFree \/ SendPacket \/ WorkerRecvOP
  BY <1>3, OthersKeepWired
<1>4. CASE UNCHANGED vars
  BY <1>4, OthersKeepWired
<1> QED BY <1>1, <1>2, <1>3, <1>4 DEF Next

(* At the start nothing was sent wrong.                                    *)
LEMMA InitSent == Init => SentInv
<1> SUFFICES ASSUME Init, way = "toClient", Clean PROVE SentRight
  BY DEF SentInv
<1>1. TypeInv /\ WiredInv /\ ~freed
  BY InitTyped, InitWired DEF Init
<1>2. PICK s \in 0 .. accepted : Wired(s)
  BY <1>1 DEF WiredInv
<1> QED BY <1>1, <1>2, BeginsIsSentRight DEF Wired

(* The invariants of the two ways imply the one the runs check.            *)
LEMMA BothWaysInOrder == TypeInv /\ SentInv /\ RequestInv => StreamIsPackets
<1> SUFFICES ASSUME TypeInv, SentInv, RequestInv, Clean PROVE SentRight
  BY DEF StreamIsPackets, Clean
<1>1. way = "toClient" \/ way = "toServer"
  BY PacketPartsAssumption DEF TypeInv
<1>2. CASE way = "toClient"
  BY <1>2 DEF SentInv
<1>3. CASE way = "toServer"
  BY <1>3, BeginsIsSentRight DEF RequestInv
<1> QED BY <1>1, <1>2, <1>3

(* What a connection carries is the packets in the order they were given,  *)
(* each once and whole or on its way, wherever the sends of the server are *)
(* cut (WorkerPartialSend, ManageSendQueue) and also when a send of the    *)
(* client is short, which leaves the connection without an answer and so   *)
(* without a next request (SendPacket); except after a send that was cut   *)
(* before the end of the first body, or a queue whose size came to zero.   *)
THEOREM StreamStaysInOrder == Spec => []StreamIsPackets
<1>1. Spec => []TypeInv
  BY InitTyped, TypeInvStep, PTL DEF Spec
<1>2. Spec => []QueueInv
  BY <1>1, InitQueue, QueueStep, PTL DEF Spec
<1>3. Spec => []WiredInv
  BY <1>1, <1>2, InitWired, WiredStep, PTL DEF Spec
<1>4. Spec => []SentInv
  BY <1>1, <1>3, InitSent, SentStep, PTL DEF Spec
<1>5. Spec => []HandledTyped
  BY <1>1, InitHandled, HandledStep, PTL DEF Spec
<1>6. Spec => []RequestInv
  BY <1>1, <1>5, InitAsking, AskingStep, PTL DEF Spec
<1> QED BY <1>1, <1>4, <1>6, BothWaysInOrder, PTL

----------------------------------------------------------------------------
(* What is in the memories of a packet that is received.                   *)

(* The first p bytes of packet m are where they belong.                    *)
Held(mems, m, k) == At(mems[Place(m, k)[1]], Place(m, k)[2])
Holds(mems, m, p) == \A k \in 0 .. (p - 1) : Held(mems, m, k) = PacketOf(m)[k + 1]

(* No two bytes of a packet have one place.                                *)
LEMMA PlaceOnce ==
  ASSUME NEW m \in Messages, NEW j \in Nat, NEW k \in Nat, Place(m, j) = Place(m, k)
  PROVE  j = k
<1>1. PICK e \in Nat : BodyTwoAt(m) = e /\ HEADER_LEN = 7
  <2>1. PICK a, b \in 0 .. 3 : BodyTwoAt(m) = 7 + 2 * a /\ HEADER_LEN = 7
    BY PacketNumbers
  <2> QED BY <2>1
<1>2. ASSUME NEW p \in Nat
      PROVE  \/ p < 7 /\ Place(m, p) = <<1, p>>
             \/ p >= 7 /\ p < e /\ Place(m, p) = <<2, p - 7>>
             \/ p >= 7 /\ p >= e /\ Place(m, p) = <<3, p - e>>
  BY <1>1 DEF Place
<1>3. /\ \/ j < 7 /\ Place(m, j) = <<1, j>>
         \/ j >= 7 /\ j < e /\ Place(m, j) = <<2, j - 7>>
         \/ j >= 7 /\ j >= e /\ Place(m, j) = <<3, j - e>>
      /\ \/ k < 7 /\ Place(m, k) = <<1, k>>
         \/ k >= 7 /\ k < e /\ Place(m, k) = <<2, k - 7>>
         \/ k >= 7 /\ k >= e /\ Place(m, k) = <<3, k - e>>
  BY <1>2
<1> QED BY <1>3

(* It is in one of three memories.                                         *)
LEMMA PlaceType ==
  ASSUME NEW m \in Messages, NEW k \in Nat
  PROVE  /\ Place(m, k) \in (1 .. 3) \X Nat
         /\ Place(m, k)[1] = 1 => Place(m, k)[2] < HEADER_LEN
<1>1. PICK e \in Nat : BodyTwoAt(m) = e /\ HEADER_LEN = 7
  <2>1. PICK a, b \in 0 .. 3 : BodyTwoAt(m) = 7 + 2 * a /\ HEADER_LEN = 7
    BY PacketNumbers
  <2> QED BY <2>1
<1>2. \/ k < 7 /\ Place(m, k) = <<1, k>>
      \/ k >= 7 /\ k < e /\ Place(m, k) = <<2, k - 7>>
      \/ k >= 7 /\ k >= e /\ Place(m, k) = <<3, k - e>>
  BY <1>1 DEF Place
<1>3. k - 7 \in Nat \/ k < 7
  OBVIOUS
<1>4. k - e \in Nat \/ k < e
  BY <1>1
<1> QED BY <1>1, <1>2, <1>3, <1>4

(* The first places that buffers name.                                     *)
FirstPlaces(bufs, n) == SubSeq(Places(bufs), 1, n)

(* They are as many as there are bytes.                                    *)
LEMMA FirstOfPlaces ==
  ASSUME NEW bufs, Places(bufs) \in Seq((1 .. 3) \X Nat), NEW n \in Nat, n =< Len(Places(bufs))
  PROVE  /\ DOMAIN FirstPlaces(bufs, n) = 1 .. n
         /\ \A k \in 1 .. n : /\ FirstPlaces(bufs, n)[k] = Places(bufs)[k]
                              /\ Places(bufs)[k] \in (1 .. 3) \X Nat
<1> DEFINE S == (1 .. 3) \X Nat
           all == Places(bufs)
           first == SubSeq(all, 1, n)
<1>1. all \in Seq(S) /\ n \in Nat /\ n =< Len(all) /\ Len(all) \in Nat
  OBVIOUS
<1> HIDE DEF S, all
<1>2. \A k \in 1 .. n : k \in 1 .. Len(all)
  BY <1>1
<1>3. \A k \in 1 .. n : all[k] \in S
  BY <1>1, <1>2, ElementOfSeq
<1>4. 1 \in Int /\ n \in Int /\ (IF 1 =< n THEN n - 1 + 1 ELSE 0) = n
  OBVIOUS
<1>5. /\ first \in Seq(S) /\ Len(first) = IF 1 =< n THEN n - 1 + 1 ELSE 0
      /\ \A k \in 1 .. n - 1 + 1 : first[k] = all[1 + k - 1]
  BY <1>3, <1>4, SubSeqProperties
<1>6. \A k \in 1 .. n : k \in 1 .. n - 1 + 1 /\ 1 + k - 1 = k
  OBVIOUS
<1>7. DOMAIN first = 1 .. Len(first) /\ Len(first) = n
  BY <1>4, <1>5
<1>8. \A k \in 1 .. n : first[k] = all[k]
  BY <1>5, <1>6
<1> QED BY <1>3, <1>7, <1>8 DEF FirstPlaces, all, S

(* What a receive leaves in a memory.                                      *)
Touches(bufs, n, i) == {FirstPlaces(bufs, n)[k][2] :
                          k \in {j \in DOMAIN FirstPlaces(bufs, n) : FirstPlaces(bufs, n)[j][1] = i}}
Came(bufs, bytes, i, o) ==
  bytes[CHOOSE k \in DOMAIN FirstPlaces(bufs, Len(bytes)) : FirstPlaces(bufs, Len(bytes))[k] = <<i, o>>]

Left(mems, bufs, bytes, i) ==
  [o \in DOMAIN mems[i] \cup Touches(bufs, Len(bytes), i) |->
     IF o \in Touches(bufs, Len(bytes), i) THEN Came(bufs, bytes, i, o) ELSE mems[i][o]]

(* That is what Scatter makes of the memory.                               *)
LEMMA ScatterIs ==
  ASSUME NEW mems, NEW bufs, NEW bytes, NEW i \in 1 .. 3
  PROVE  Scatter(mems, bufs, bytes)[i] = Left(mems, bufs, bytes, i)
BY DEF Scatter, Left, Touches, Came, FirstPlaces

(* Where no byte comes, what was there stays,                              *)
Spared(bufs, n, i, o) == \A k \in 1 .. n : Places(bufs)[k] # <<i, o>>

(* so it reads the same as before,                                         *)
LEMMA ScatterSpares ==
  ASSUME NEW mems, NEW bufs, Places(bufs) \in Seq((1 .. 3) \X Nat), NEW bytes \in Seq(Byte),
         Len(bytes) =< Len(Places(bufs)), NEW i \in 1 .. 3, NEW o, Spared(bufs, Len(bytes), i, o)
  PROVE  At(Scatter(mems, bufs, bytes)[i], o) = At(mems[i], o)
<1> HIDE DEF Byte
<1>1. PICK n \in Nat : n = Len(bytes)
  OBVIOUS
<1>2. /\ DOMAIN FirstPlaces(bufs, n) = 1 .. n
      /\ \A k \in 1 .. n : /\ FirstPlaces(bufs, n)[k] = Places(bufs)[k]
                           /\ Places(bufs)[k] \in (1 .. 3) \X Nat
  BY <1>1, FirstOfPlaces
<1>3. o \notin Touches(bufs, n, i)
  <2>1. SUFFICES ASSUME o \in Touches(bufs, n, i) PROVE FALSE
    OBVIOUS
  <2>2. PICK k \in 1 .. n : FirstPlaces(bufs, n)[k][1] = i /\ FirstPlaces(bufs, n)[k][2] = o
    BY <1>2, <2>1 DEF Touches
  <2>3. Places(bufs)[k] = <<i, o>>
    BY <1>2, <2>2
  <2> QED BY <1>1, <2>3 DEF Spared
<1> DEFINE T == Touches(bufs, n, i)
           came == [x \in DOMAIN mems[i] \cup T |-> IF x \in T THEN Came(bufs, bytes, i, x) ELSE mems[i][x]]
<1>4. Scatter(mems, bufs, bytes)[i] = came
  <2>1. Left(mems, bufs, bytes, i) = came
    BY <1>1 DEF Left
  <2> HIDE DEF came, T
  <2> QED BY <2>1, ScatterIs
<1> HIDE DEF T
<1>5. At(came, o) = At(mems[i], o)
  BY <1>3 DEF At, T
<1> QED BY <1>4, <1>5

(* and a byte that comes lies where its buffer is                          *)
Lands(bufs, bytes, v, i, o) ==
  \E k \in 1 .. Len(bytes) :
    bytes[k] = v /\ \A j \in 1 .. Len(bytes) : Places(bufs)[j] = <<i, o>> <=> j = k

(* and is found there.                                                     *)
LEMMA ScatterLands ==
  ASSUME NEW mems, NEW bufs, Places(bufs) \in Seq((1 .. 3) \X Nat), NEW bytes \in Seq(Byte),
         Len(bytes) =< Len(Places(bufs)), NEW v, NEW i \in 1 .. 3, NEW o, Lands(bufs, bytes, v, i, o)
  PROVE  At(Scatter(mems, bufs, bytes)[i], o) = v
<1> HIDE DEF Byte
<1>1. PICK n \in Nat : n = Len(bytes)
  OBVIOUS
<1>2. /\ DOMAIN FirstPlaces(bufs, n) = 1 .. n
      /\ \A j \in 1 .. n : /\ FirstPlaces(bufs, n)[j] = Places(bufs)[j]
                           /\ Places(bufs)[j] \in (1 .. 3) \X Nat
  BY <1>1, FirstOfPlaces
<1>3. PICK k \in 1 .. n : bytes[k] = v /\ \A j \in 1 .. n : Places(bufs)[j] = <<i, o>> <=> j = k
  BY <1>1 DEF Lands
<1>4. o \in Touches(bufs, n, i)
  <2>1. FirstPlaces(bufs, n)[k] = <<i, o>>
    BY <1>2, <1>3
  <2>2. FirstPlaces(bufs, n)[k][1] = i /\ FirstPlaces(bufs, n)[k][2] = o
    BY <2>1
  <2> QED BY <1>2, <1>3, <2>2 DEF Touches
<1>5. Came(bufs, bytes, i, o) = v
  <2>1. \A j \in DOMAIN FirstPlaces(bufs, n) : FirstPlaces(bufs, n)[j] = <<i, o>> <=> j = k
    BY <1>2, <1>3
  <2>2. (CHOOSE j \in DOMAIN FirstPlaces(bufs, n) : FirstPlaces(bufs, n)[j] = <<i, o>>) = k
    BY <1>2, <1>3, <2>1
  <2> QED BY <1>1, <1>3, <2>2 DEF Came
<1> DEFINE T == Touches(bufs, n, i)
           came == [x \in DOMAIN mems[i] \cup T |-> IF x \in T THEN Came(bufs, bytes, i, x) ELSE mems[i][x]]
<1>6. Scatter(mems, bufs, bytes)[i] = came
  <2>1. Left(mems, bufs, bytes, i) = came
    BY <1>1 DEF Left
  <2> HIDE DEF came, T
  <2> QED BY <2>1, ScatterIs
<1> HIDE DEF T
<1>7. At(came, o) = v
  BY <1>4, <1>5 DEF At, T
<1> QED BY <1>6, <1>7

(* The next bytes of packet m come into buffers that name their places.    *)
Coming(m, p, bufs, q, bytes) ==
  /\ p \in Nat /\ q \in Nat /\ p =< q /\ Names(bufs, m, p, q)
  /\ bytes \in Seq(Byte) /\ Len(bytes) =< q - p
  /\ \A i \in 1 .. Len(bytes) : bytes[i] = PacketOf(m)[p + i]

(* What that says of each byte and its place.                              *)
LEMMA ComingParts ==
  ASSUME NEW m \in Messages, NEW p, NEW bufs, NEW q, NEW bytes, Coming(m, p, bufs, q, bytes)
  PROVE  /\ p \in Nat /\ Places(bufs) \in Seq((1 .. 3) \X Nat) /\ bytes \in Seq(Byte)
         /\ Len(bytes) \in Nat /\ Len(bytes) =< Len(Places(bufs))
         /\ \A k \in 1 .. Len(bytes) : /\ bytes[k] = PacketOf(m)[p + k]
                                       /\ p + k - 1 \in Nat /\ Places(bufs)[k] = Place(m, p + k - 1)
<1> HIDE DEF Byte
<1>1. /\ p \in Nat /\ q \in Nat /\ p =< q /\ bytes \in Seq(Byte) /\ Len(bytes) =< q - p
      /\ \A i \in 1 .. Len(bytes) : bytes[i] = PacketOf(m)[p + i]
  BY DEF Coming
<1>2. /\ Places(bufs) \in Seq((1 .. 3) \X Nat) /\ Len(Places(bufs)) = q - p
      /\ \A k \in 1 .. (q - p) : Places(bufs)[k] = Place(m, p + k - 1)
  BY DEF Coming, Names
<1>3. PICK n \in Nat : n = Len(bytes) /\ n =< q - p
  BY <1>1
<1>4. \A k \in 1 .. n : k \in 1 .. (q - p) /\ p + k - 1 \in Nat
  BY <1>1, <1>3
<1> QED BY <1>1, <1>2, <1>3, <1>4

(* They come to lie where they belong, and those before stay.              *)
LEMMA ScatterHolds ==
  ASSUME NEW m \in Messages, NEW p, NEW bufs, NEW q, NEW bytes, Coming(m, p, bufs, q, bytes),
         NEW mems, Holds(mems, m, p)
  PROVE  Holds(Scatter(mems, bufs, bytes), m, p + Len(bytes))
<1> HIDE DEF Byte
<1>1. /\ p \in Nat /\ Places(bufs) \in Seq((1 .. 3) \X Nat) /\ bytes \in Seq(Byte)
      /\ Len(bytes) \in Nat /\ Len(bytes) =< Len(Places(bufs))
      /\ \A k \in 1 .. Len(bytes) : /\ bytes[k] = PacketOf(m)[p + k]
                                    /\ p + k - 1 \in Nat /\ Places(bufs)[k] = Place(m, p + k - 1)
  BY ComingParts
<1>2. PICK new : new = Scatter(mems, bufs, bytes)
  OBVIOUS
<1> SUFFICES ASSUME NEW k \in 0 .. ((p + Len(bytes)) - 1) PROVE Held(new, m, k) = PacketOf(m)[k + 1]
  BY <1>2 DEF Holds
<1>3. k \in Nat
  OBVIOUS
<1>4. PICK i \in 1 .. 3, o \in Nat : Place(m, k) = <<i, o>>
  BY <1>3, PlaceType
<1>5. Held(new, m, k) = At(new[i], o) /\ Held(mems, m, k) = At(mems[i], o)
  BY <1>4 DEF Held
<1>6. CASE k < p
  <2>1. ASSUME NEW j \in 1 .. Len(bytes) PROVE Places(bufs)[j] # <<i, o>>
    <3>1. PICK l \in Nat : l = p + j - 1 /\ l # k /\ Places(bufs)[j] = Place(m, l)
      BY <1>1, <1>6
    <3> QED BY <1>3, <1>4, <3>1, PlaceOnce
  <2>2. Spared(bufs, Len(bytes), i, o)
    BY <2>1 DEF Spared
  <2>3. At(new[i], o) = At(mems[i], o)
    BY <1>1, <1>2, <2>2, ScatterSpares
  <2>4. k \in 0 .. (p - 1)
    BY <1>1, <1>6
  <2>5. Held(mems, m, k) = PacketOf(m)[k + 1]
    BY <2>4 DEF Holds
  <2> QED BY <1>5, <2>3, <2>5
<1>7. CASE ~(k < p)
  <2>1. (k - p) + 1 \in Nat
    BY <1>1, <1>7
  <2>2. PICK c \in Nat : c = (k - p) + 1
    BY <2>1
  <2>3. c \in 1 .. Len(bytes) /\ p + c = k + 1 /\ p + c - 1 = k
    BY <1>1, <1>7, <2>2
  <2>4. ASSUME NEW j \in 1 .. Len(bytes) PROVE Places(bufs)[j] = <<i, o>> <=> j = c
    <3>1. PICK l \in Nat : l = p + j - 1 /\ Places(bufs)[j] = Place(m, l)
      BY <1>1
    <3>2. j = c <=> l = k
      <4>1. p \in Nat /\ p + c - 1 = k /\ l = p + j - 1
        BY <1>1, <2>3, <3>1
      <4> QED BY <4>1
    <3>3. Place(m, l) = Place(m, k) => l = k
      BY <1>3, PlaceOnce
    <3> QED BY <1>4, <3>1, <3>2, <3>3
  <2>5. Lands(bufs, bytes, bytes[c], i, o)
    BY <2>3, <2>4 DEF Lands
  <2>6. At(new[i], o) = bytes[c]
    <3>1. /\ Places(bufs) \in Seq((1 .. 3) \X Nat) /\ bytes \in Seq(Byte)
          /\ Len(bytes) =< Len(Places(bufs))
      BY <1>1
    <3>2. At(Scatter(mems, bufs, bytes)[i], o) = bytes[c]
      BY <2>5, <3>1, ScatterLands
    <3> QED BY <1>2, <3>2
  <2> QED BY <1>1, <1>5, <2>3, <2>6
<1> QED BY <1>6, <1>7

(* Nothing lies behind the header in its memory.                           *)
OnlyHeader(mems) == \A o \in Nat : o >= HEADER_LEN => At(mems[1], o) = 0

(* The bytes of a packet do not come there either.                         *)
LEMMA ScatterOnlyHeader ==
  ASSUME NEW m \in Messages, NEW p, NEW bufs, NEW q, NEW bytes, Coming(m, p, bufs, q, bytes),
         NEW mems, OnlyHeader(mems)
  PROVE  OnlyHeader(Scatter(mems, bufs, bytes))
<1> HIDE DEF Byte
<1>1. /\ p \in Nat /\ Places(bufs) \in Seq((1 .. 3) \X Nat) /\ bytes \in Seq(Byte)
      /\ Len(bytes) \in Nat /\ Len(bytes) =< Len(Places(bufs))
      /\ \A k \in 1 .. Len(bytes) : /\ bytes[k] = PacketOf(m)[p + k]
                                    /\ p + k - 1 \in Nat /\ Places(bufs)[k] = Place(m, p + k - 1)
  BY ComingParts
<1>2. PICK new : new = Scatter(mems, bufs, bytes)
  OBVIOUS
<1> SUFFICES ASSUME NEW o \in Nat, o >= HEADER_LEN PROVE At(new[1], o) = 0
  BY <1>2 DEF OnlyHeader
<1>3. PICK i \in 1 .. 3 : i = 1
  OBVIOUS
<1>4. ASSUME NEW j \in 1 .. Len(bytes) PROVE Places(bufs)[j] # <<i, o>>
  <2>1. PICK l \in Nat : Places(bufs)[j] = Place(m, l)
    BY <1>1
  <2>2. Place(m, l)[1] = 1 => Place(m, l)[2] < HEADER_LEN /\ Place(m, l)[2] \in Nat
    BY PlaceType
  <2>3. HEADER_LEN = 7
    BY DEF HEADER_LEN
  <2> QED BY <1>3, <2>1, <2>2, <2>3
<1>5. Spared(bufs, Len(bytes), i, o)
  BY <1>4 DEF Spared
<1>6. At(new[i], o) = At(mems[i], o)
  BY <1>1, <1>2, <1>5, ScatterSpares
<1> QED BY <1>3, <1>6 DEF OnlyHeader

(* Such bytes are those of the message.                                    *)
LEMMA HeldIs ==
  ASSUME NEW m \in Messages, NEW p \in 0 .. ToMove(m), NEW mems, Holds(mems, m, p), NEW k \in 0 .. (p - 1)
  PROVE  Held(mems, m, k) = Held(MemoriesOf(m), m, k)
<1>1. ToMove(m) \in Nat
  BY NewHolderType
<1>2. PICK j \in 1 .. ToMove(m) : j = k + 1 /\ j - 1 = k
  BY <1>1
<1>3. PacketOf(m)[j] = Held(MemoriesOf(m), m, j - 1)
  BY PacketBytes DEF Held
<1>4. Held(mems, m, k) = PacketOf(m)[k + 1]
  BY DEF Holds
<1> QED BY <1>2, <1>3, <1>4

(* A header that is whole has the lengths of the message.                  *)
LEMMA HeaderHeld ==
  ASSUME NEW m \in Messages, NEW p \in HEADER_LEN .. ToMove(m), NEW mems, Holds(mems, m, p)
  PROVE  /\ LenOne(mems) = Lengths[m][1] /\ LenTwo(mems) = Lengths[m][2]
         /\ At(mems[1], 3) = 0 /\ At(mems[1], 4) = Lengths[m][1]
         /\ At(mems[1], 5) = 0 /\ At(mems[1], 6) = Lengths[m][2]
<1>1. PICK a, b \in 0 .. 3 : /\ Lengths[m][1] = a /\ Lengths[m][2] = b
                             /\ BodyTwoAt(m) = 7 + 2 * a /\ ToMove(m) = 7 + 2 * a + 2 * b
                             /\ HEADER_LEN = 7
  BY PacketNumbers
<1>2. p \in 0 .. ToMove(m) /\ p >= 7 /\ p \in Nat
  BY <1>1
<1>3. ASSUME NEW k \in 0 .. 6 PROVE At(mems[1], k) = At(MemoriesOf(m)[1], k)
  <2>1. k \in 0 .. (p - 1) /\ k < 7
    BY <1>2
  <2>2. Held(mems, m, k) = Held(MemoriesOf(m), m, k)
    BY <1>2, <2>1, HeldIs
  <2>3. Place(m, k) = <<1, k>>
    BY <1>1, <2>1 DEF Place
  <2> QED BY <2>2, <2>3 DEF Held
<1>4. BytesOf(m, a, b)
  BY <1>1, MessageBytes
<1>5. /\ At(MemoriesOf(m)[1], 3) = 0 /\ At(MemoriesOf(m)[1], 4) = a
      /\ At(MemoriesOf(m)[1], 5) = 0 /\ At(MemoriesOf(m)[1], 6) = b
  BY <1>4 DEF BytesOf
<1>6. /\ At(mems[1], 3) = 0 /\ At(mems[1], 4) = a /\ At(mems[1], 5) = 0 /\ At(mems[1], 6) = b
  BY <1>3, <1>5
<1>7. LenOne(mems) = 256 * At(mems[1], 3) + At(mems[1], 4)
      /\ LenTwo(mems) = 256 * At(mems[1], 5) + At(mems[1], 6)
  BY DEF LenOne, LenTwo, ntohs
<1> QED BY <1>1, <1>6, <1>7

(* A packet that is whole is taken for what it is.                         *)
LEMMA WholeIsTaken ==
  ASSUME NEW m \in Messages, NEW r, Holds(r.mems, m, ToMove(m))
  PROVE  Taken(r) = CharsOf(m)
<1>1. PICK a, b \in 0 .. 3 : /\ Lengths[m][1] = a /\ Lengths[m][2] = b
                             /\ BodyTwoAt(m) = 7 + 2 * a /\ ToMove(m) = 7 + 2 * a + 2 * b
                             /\ HEADER_LEN = 7
  BY PacketNumbers
<1>2. PICK mems, p : mems = r.mems /\ p = ToMove(m)
  OBVIOUS
<1>3. p \in HEADER_LEN .. ToMove(m) /\ p \in 0 .. ToMove(m) /\ p = 7 + 2 * a + 2 * b /\ Holds(mems, m, p)
  BY <1>1, <1>2
<1>4. LenOne(mems) = a /\ LenTwo(mems) = b
  BY <1>1, <1>3, HeaderHeld
<1>5. BytesOf(m, a, b)
  BY <1>1, MessageBytes
<1>6. ASSUME NEW k \in 1 .. a
      PROVE  At(mems[2], 2 * k - 1) = 16 * m + k /\ At(mems[2], 2 * k - 2) = 128 + 16 * m + k
  <2>1. ASSUME NEW o \in 0 .. 5, o < 2 * a PROVE At(mems[2], o) = At(MemoriesOf(m)[2], o)
    <3>1. PICK l \in 0 .. (p - 1) : l = 7 + o
      BY <1>3, <2>1
    <3>2. Held(mems, m, l) = Held(MemoriesOf(m), m, l)
      BY <1>3, HeldIs
    <3>3. l - 7 = o /\ ~(l < 7) /\ l < 7 + 2 * a
      BY <2>1, <3>1
    <3>4. Place(m, l) = <<2, o>>
      BY <1>1, <3>3 DEF Place
    <3> QED BY <3>2, <3>4 DEF Held
  <2>2. At(MemoriesOf(m)[2], 2 * k - 2) = 128 + 16 * m + k /\ At(MemoriesOf(m)[2], 2 * k - 1) = 16 * m + k
    BY <1>5 DEF BytesOf
  <2>3. /\ 2 * k - 2 \in 0 .. 5 /\ 2 * k - 2 < 2 * a
        /\ 2 * k - 1 \in 0 .. 5 /\ 2 * k - 1 < 2 * a
    OBVIOUS
  <2>4. At(mems[2], 2 * k - 2) = At(MemoriesOf(m)[2], 2 * k - 2)
    BY <2>1, <2>3
  <2>5. At(mems[2], 2 * k - 1) = At(MemoriesOf(m)[2], 2 * k - 1)
    BY <2>1, <2>3
  <2> QED BY <2>2, <2>4, <2>5
<1>7. ASSUME NEW k \in 1 .. b
      PROVE  At(mems[3], 2 * k - 1) = 16 * m + a + k /\ At(mems[3], 2 * k - 2) = 128 + 16 * m + a + k
  <2>1. ASSUME NEW o \in 0 .. 5, o < 2 * b PROVE At(mems[3], o) = At(MemoriesOf(m)[3], o)
    <3>1. PICK l \in 0 .. (p - 1) : l = (7 + 2 * a) + o
      BY <1>3, <2>1
    <3>2. Held(mems, m, l) = Held(MemoriesOf(m), m, l)
      BY <1>3, HeldIs
    <3>3. l - (7 + 2 * a) = o /\ ~(l < 7) /\ ~(l < 7 + 2 * a)
      BY <2>1, <3>1
    <3>4. Place(m, l) = <<3, o>>
      BY <1>1, <3>3 DEF Place
    <3> QED BY <3>2, <3>4 DEF Held
  <2>2. At(MemoriesOf(m)[3], 2 * k - 2) = 128 + 16 * m + a + k
        /\ At(MemoriesOf(m)[3], 2 * k - 1) = 16 * m + a + k
    BY <1>5 DEF BytesOf
  <2>3. /\ 2 * k - 2 \in 0 .. 5 /\ 2 * k - 2 < 2 * b
        /\ 2 * k - 1 \in 0 .. 5 /\ 2 * k - 1 < 2 * b
    OBVIOUS
  <2>4. At(mems[3], 2 * k - 2) = At(MemoriesOf(m)[3], 2 * k - 2)
    BY <2>1, <2>3
  <2>5. At(mems[3], 2 * k - 1) = At(MemoriesOf(m)[3], 2 * k - 1)
    BY <2>1, <2>3
  <2> QED BY <2>2, <2>4, <2>5
<1>8. a < MAX_MSG_LEN_CHAT /\ b < MAX_MSG_LEN_CHAT
  BY DEF MAX_MSG_LEN_CHAT
<1>9. Taken(r) = [one |-> WstrNetToHost(mems[2], a), two |-> WstrNetToHost(mems[3], b)]
  BY <1>2, <1>4, <1>8 DEF Taken
<1>10. WstrNetToHost(mems[2], a) = CharsOf(m).one
  <2>1. WstrNetToHost(mems[2], a) = [k \in 1 .. a |-> <<At(mems[2], 2 * k - 1), At(mems[2], 2 * k - 2)>>]
    BY DEF WstrNetToHost
  <2>2. CharsOf(m).one = [k \in 1 .. a |-> <<16 * m + k, 128 + 16 * m + k>>]
    BY <1>5 DEF BytesOf
  <2> QED BY <1>6, <2>1, <2>2
<1>11. WstrNetToHost(mems[3], b) = CharsOf(m).two
  <2>1. WstrNetToHost(mems[3], b) = [k \in 1 .. b |-> <<At(mems[3], 2 * k - 1), At(mems[3], 2 * k - 2)>>]
    BY DEF WstrNetToHost
  <2>2. CharsOf(m).two = [k \in 1 .. b |-> <<16 * m + a + k, 128 + 16 * m + a + k>>]
    BY <1>5 DEF BytesOf
  <2> QED BY <1>7, <2>1, <2>2
<1>12. CharsOf(m) = [one |-> CharsOf(m).one, two |-> CharsOf(m).two]
  BY DEF CharsOf
<1> QED BY <1>9, <1>10, <1>11, <1>12

----------------------------------------------------------------------------
(* A packet that is received: where its reader stands.                     *)

(* r has p bytes of a header and waits for the rest,                       *)
InHeader(r, p) ==
  /\ p \in 0 .. 6 /\ r.phase \in {"header", "headerPeek"}
  /\ r.total = p /\ r.toMove = HEADER_LEN
  /\ r.bufs[1] = Buf(p, HEADER_LEN - p) /\ r.bufs[2] = Buf(0, 0) /\ r.bufs[3] = Buf(0, 0)

(* or p bytes of packet m, with the whole header, and waits for the rest   *)
(* of its bodies. The client counts the bytes of the bodies, the server    *)
(* those of the packet.                                                    *)
InBodies(w, r, m, p) ==
  /\ p \in Nat /\ p >= HEADER_LEN /\ p < ToMove(m) /\ RestBufs(m, r.bufs, p)
  /\ \/ /\ w = "toClient" /\ r.phase \in {"body", "bodyPeek"}
        /\ r.total = p - HEADER_LEN /\ r.toMove = ToMove(m) - HEADER_LEN
     \/ /\ w = "toServer" /\ r.phase = "header"
        /\ r.total = p /\ r.toMove = ToMove(m) /\ r.bufs[1].at = 0

Reads(w, r, m, p) == InHeader(r, p) \/ InBodies(w, r, m, p)

(* As far as the buffers go.                                               *)
Upto(m, p) == IF p < HEADER_LEN THEN HEADER_LEN ELSE ToMove(m)

(* The buffers of a reader name the places up to there.                    *)
LEMMA ReadsNames ==
  ASSUME NEW m \in Messages, NEW w, NEW r, NEW p, Reads(w, r, m, p)
  PROVE  /\ p \in Nat /\ Upto(m, p) \in Nat /\ p < Upto(m, p) /\ Upto(m, p) =< ToMove(m)
         /\ ToMove(m) \in Nat /\ Names(r.bufs, m, p, Upto(m, p))
<1>1. PICK a, b \in 0 .. 3 : /\ Lengths[m][1] = a /\ Lengths[m][2] = b
                             /\ BodyTwoAt(m) = 7 + 2 * a /\ ToMove(m) = 7 + 2 * a + 2 * b
                             /\ HEADER_LEN = 7
  BY PacketNumbers
<1>2. CASE InHeader(r, p)
  <2>1. PICK bufs : bufs = r.bufs
    OBVIOUS
  <2>2. p \in 0 .. 6 /\ bufs[1] = Buf(p, 7 - p) /\ bufs[2] = Buf(0, 0) /\ bufs[3] = Buf(0, 0)
    BY <1>1, <1>2, <2>1 DEF InHeader
  <2>3. \A i \in 1 .. 3 : bufs[i] \in Bufs /\ bufs[i].len =< REACH
    BY <2>2 DEF Buf, Bufs, REACH
  <2>4. bufs[1].len = 7 - p /\ bufs[1].at = p /\ bufs[2].len = 0 /\ bufs[3].len = 0
    BY <2>2 DEF Buf
  <2>5. bufs[1].len + bufs[2].len + bufs[3].len = 7 - p
    BY <2>2, <2>4
  <2>6. /\ Places(bufs) \in Seq((1 .. 3) \X Nat) /\ Len(Places(bufs)) = 7 - p
        /\ \A k \in 1 .. (7 - p) : Places(bufs)[k] = NamedBy(bufs, k)
    BY <2>3, <2>5, PlacesThree
  <2>7. ASSUME NEW k \in 1 .. (7 - p) PROVE NamedBy(bufs, k) = Place(m, p + k - 1)
    BY <1>1, <2>2, <2>4 DEF NamedBy, Place
  <2>8. Names(bufs, m, p, 7)
    BY <2>6, <2>7 DEF Names
  <2>9. Upto(m, p) = 7
    BY <1>1, <2>2 DEF Upto
  <2> QED BY <1>1, <2>1, <2>2, <2>8, <2>9
<1>3. CASE InBodies(w, r, m, p)
  <2>1. p \in Nat /\ p >= 7 /\ p < ToMove(m) /\ RestBufs(m, r.bufs, p)
    BY <1>1, <1>3 DEF InBodies
  <2>2. p \in 0 .. ToMove(m)
    BY <1>1, <2>1
  <2>3. Names(r.bufs, m, p, ToMove(m))
    BY <2>1, <2>2, RestNames
  <2>4. Upto(m, p) = ToMove(m)
    BY <1>1, <2>1 DEF Upto
  <2> QED BY <1>1, <2>1, <2>3, <2>4
<1> QED BY <1>2, <1>3 DEF Reads

(* The first p bytes of the packet that is received have come, and lie     *)
(* where they belong.                                                      *)
HasCome(p) ==
  /\ read = Begin + p
  /\ Reads(way, rcv, Len(handled) + 1, p)
  /\ OnlyHeader(rcv.mems)
  /\ Len(handled) = accepted => p = 0
  /\ Len(handled) < accepted => Holds(rcv.mems, Len(handled) + 1, p)

(* What a receive of n bytes makes of that.                                *)
Receives(r, m, p, n) ==
  /\ m \in Messages /\ m = Len(handled) + 1 /\ m =< accepted
  /\ Begin \in Nat /\ read = Begin + p
  /\ n \in Nat \ {0} /\ p + n =< Upto(m, p) /\ Reads(way, rcv, m, p)
  /\ r = Rcv(rcv.phase, rcv.bufs, r.mems, rcv.total + n, rcv.toMove)
  /\ Holds(r.mems, m, p + n) /\ OnlyHeader(r.mems)

(* A receive goes on with the bytes of the packet that is read.            *)
LEMMA NextBytes ==
  ASSUME TypeInv, HandledTyped, EachRight, Begins(wire, accepted), NEW p, HasCome(p), NEW n \in Arriving(rcv)
  PROVE  Receives(Moved(rcv, n), Len(handled) + 1, p, n)
<1>1. RcvInv(rcv) /\ wire \in Seq(Byte) /\ read \in 0 .. Len(wire) /\ accepted \in 0 .. Len(Lengths)
  BY DEF TypeInv
<1>2. PICK k \in Nat : k = Len(handled)
  BY DEF HandledTyped
<1>3. /\ n \in Nat \ {0} /\ n =< Len(Places(rcv.bufs)) /\ read + n =< Len(wire)
      /\ SubSeq(wire, read + 1, read + n) \in Seq(Byte)
      /\ Len(SubSeq(wire, read + 1, read + n)) = n
      /\ \A i \in 1 .. n : SubSeq(wire, read + 1, read + n)[i] = wire[read + i]
  BY <1>1, ArrivingBytes
<1>4. PICK bytes : bytes = SubSeq(wire, read + 1, read + n)
  OBVIOUS
<1>5. /\ n \in Nat \ {0} /\ read + n =< Len(wire) /\ bytes \in Seq(Byte) /\ Len(bytes) = n
      /\ \A i \in 1 .. n : bytes[i] = wire[read + i]
  BY <1>3, <1>4
<1>6. accepted \in Nat /\ k =< accepted /\ Len(Lengths) \in Nat /\ Len(wire) \in Nat /\ read \in Nat
  BY <1>1, <1>2, LengthsCount DEF EachRight
<1>7. /\ Len(wire) =< Len(Flat(accepted))
      /\ \A i \in 1 .. Len(wire) : wire[i] = Flat(accepted)[i]
  BY DEF Begins
<1>8. k # accepted
  <2>1. SUFFICES ASSUME k = accepted PROVE FALSE
    OBVIOUS
  <2>2. Len(Flat(accepted)) \in Nat
    <3>1. Flat(accepted) \in Seq(Byte)
      BY <1>1, FlatType
    <3> QED BY <3>1
  <2>3. p = 0 /\ read = Len(Flat(accepted)) + p
    BY <1>2, <2>1 DEF HasCome, Begin
  <2> QED BY <1>5, <1>6, <1>7, <2>2, <2>3
<1>9. PICK m \in Messages : m = k + 1
  BY <1>1, <1>6, <1>8 DEF Messages
<1>10. /\ Reads(way, rcv, m, p) /\ OnlyHeader(rcv.mems) /\ Holds(rcv.mems, m, p)
       /\ read = Begin + p
  BY <1>2, <1>6, <1>8, <1>9 DEF HasCome
<1>11. /\ p \in Nat /\ Upto(m, p) \in Nat /\ p < Upto(m, p) /\ Upto(m, p) =< ToMove(m)
       /\ ToMove(m) \in Nat /\ Names(rcv.bufs, m, p, Upto(m, p))
  BY <1>10, ReadsNames
<1>12. n =< Upto(m, p) - p /\ p + n =< Upto(m, p)
  <2>1. Len(Places(rcv.bufs)) = Upto(m, p) - p
    BY <1>11 DEF Names
  <2> QED BY <1>3, <1>5, <1>11, <2>1
<1>13. /\ Begin \in Nat
       /\ \A i \in 1 .. ToMove(m) : Flat(accepted)[Begin + i] = PacketOf(m)[i]
  <2>1. k \in 0 .. (accepted - 1)
    BY <1>6, <1>8
  <2> QED BY <1>1, <1>2, <1>9, <2>1, FlatAt DEF Begin
<1>14. ASSUME NEW i \in 1 .. n PROVE bytes[i] = PacketOf(m)[p + i]
  <2>1. PICK j \in Nat : j = p + i
    BY <1>11
  <2>2. j \in 1 .. ToMove(m)
    BY <1>5, <1>11, <1>12, <2>1
  <2>3. PICK l \in 1 .. Len(wire) : l = read + i
    BY <1>5, <1>6
  <2>4. l = Begin + j
    BY <1>10, <1>11, <1>13, <2>1, <2>3
  <2>5. bytes[i] = wire[l]
    BY <1>5, <2>3
  <2> QED BY <1>7, <1>13, <2>1, <2>2, <2>3, <2>4, <2>5
<1>15. Coming(m, p, rcv.bufs, Upto(m, p), bytes)
  BY <1>5, <1>11, <1>12, <1>14 DEF Coming
<1>16. PICK r : r = Moved(rcv, n)
  OBVIOUS
<1>17. r.mems = Scatter(rcv.mems, rcv.bufs, bytes) /\ r.total = rcv.total + n
  BY <1>1, <1>4, <1>16, MovedIs
<1>18. r = Rcv(rcv.phase, rcv.bufs, r.mems, r.total, rcv.toMove)
  BY <1>1, <1>16, MovedType
<1>19. Holds(r.mems, m, p + n)
  BY <1>5, <1>10, <1>15, <1>17, ScatterHolds
<1>20. OnlyHeader(r.mems)
  BY <1>10, <1>15, <1>17, ScatterOnlyHeader
<1>21. Receives(r, m, p, n)
  BY <1>2, <1>5, <1>6, <1>8, <1>9, <1>10, <1>12, <1>13, <1>17, <1>18, <1>19, <1>20 DEF Receives
<1> QED BY <1>2, <1>9, <1>16, <1>21

(* The lengths the server looks up in a header that is whole: those of the *)
(* message, when the header came at once, or when it has no bodies.        *)
LEMMA PeekedHeld ==
  ASSUME NEW m \in Messages, NEW p \in HEADER_LEN .. ToMove(m), NEW r,
         Holds(r.mems, m, p), OnlyHeader(r.mems),
         \/ r.bufs[1].at = 0
         \/ r.bufs[1].at \in 0 .. 6 /\ Lengths[m][1] = 0 /\ Lengths[m][2] = 0
  PROVE  PeekedLens(r) = <<2 * Lengths[m][1], 2 * Lengths[m][2]>>
<1>1. PICK a, b \in 0 .. 3 : /\ Lengths[m][1] = a /\ Lengths[m][2] = b
                             /\ BodyTwoAt(m) = 7 + 2 * a /\ ToMove(m) = 7 + 2 * a + 2 * b
                             /\ HEADER_LEN = 7
  BY PacketNumbers
<1>2. PICK mems, at : mems = r.mems /\ at = r.bufs[1].at
  OBVIOUS
<1>3. /\ At(mems[1], 3) = 0 /\ At(mems[1], 4) = a /\ At(mems[1], 5) = 0 /\ At(mems[1], 6) = b
  <2>1. Holds(mems, m, p)
    BY <1>2
  <2> QED BY <1>1, <2>1, HeaderHeld
<1>4. Size(a) = 2 * a /\ Size(b) = 2 * b
  BY DEF Size
<1>5. PeekedLens(r) = <<Size(256 * At(mems[1], at + 3) + At(mems[1], at + 3 + 1)),
                        Size(256 * At(mems[1], at + 5) + At(mems[1], at + 5 + 1))>>
  BY <1>2 DEF PeekedLens, ntohs
<1>6. CASE at = 0
  <2>1. at + 3 = 3 /\ at + 3 + 1 = 4 /\ at + 5 = 5 /\ at + 5 + 1 = 6
    BY <1>6
  <2>2. PeekedLens(r) = <<Size(256 * 0 + a), Size(256 * 0 + b)>>
    BY <1>3, <1>5, <2>1
  <2>3. 256 * 0 + a = a /\ 256 * 0 + b = b
    OBVIOUS
  <2> QED BY <1>1, <1>4, <2>2, <2>3
<1>7. CASE at \in 1 .. 6 /\ a = 0 /\ b = 0
  <2>1. ASSUME NEW o \in 4 .. 12 PROVE At(mems[1], o) = 0
    <3>1. o \in {4, 5, 6} \/ (o \in Nat /\ o >= 7)
      OBVIOUS
    <3> QED BY <1>1, <1>2, <1>3, <1>7, <3>1 DEF OnlyHeader
  <2>2. at + 3 \in 4 .. 12 /\ at + 3 + 1 \in 4 .. 12 /\ at + 5 \in 4 .. 12 /\ at + 5 + 1 \in 4 .. 12
    BY <1>7
  <2>3. PeekedLens(r) = <<Size(256 * 0 + 0), Size(256 * 0 + 0)>>
    BY <1>5, <2>1, <2>2
  <2>4. 256 * 0 + 0 = a /\ 256 * 0 + 0 = b
    BY <1>7
  <2> QED BY <1>1, <1>4, <2>3, <2>4
<1>8. at = 0 \/ (at \in 1 .. 6 /\ a = 0 /\ b = 0)
  BY <1>1, <1>2
<1> QED BY <1>6, <1>7, <1>8

(* The server's buffers for the bodies name all of them,                   *)
LEMMA ServerStartsBodies ==
  ASSUME NEW m \in Messages, NEW mems, Lengths[m][1] + Lengths[m][2] # 0,
         NEW bufs \in [1 .. 3 -> Bufs],
         bufs[1].at = 0, bufs[2] = Buf(0, 0), bufs[3] = Buf(0, 0), NEW r,
         r = WorkerPartialRecvBody(Rcv("header", bufs, mems, 7, HEADER_LEN),
                                   2 * Lengths[m][1], 2 * Lengths[m][2])
  PROVE  r.mems = mems /\ InBodies("toServer", r, m, 7)
<1>1. PICK a, b \in 0 .. 3 : /\ Lengths[m][1] = a /\ Lengths[m][2] = b
                             /\ BodyTwoAt(m) = 7 + 2 * a /\ ToMove(m) = 7 + 2 * a + 2 * b
                             /\ HEADER_LEN = 7
  BY PacketNumbers
<1> DEFINE whole == 7 + 2 * a + 2 * b
           s == Rcv("header", bufs, mems, 7, whole)
           new == [bufs EXCEPT ![1].len = 0, ![2].len = 2 * a, ![3].len = 2 * b]
<1>2. r = [Rcv("header", bufs, mems, 7, 7) EXCEPT
             !.toMove = whole, !.bufs[1].len = 0, !.bufs[2].len = 2 * a, !.bufs[3].len = 2 * b]
  <2>1. Rcv("header", bufs, mems, 7, 7).toMove = 7
    BY DEF Rcv
  <2> QED BY <1>1, <2>1 DEF WorkerPartialRecvBody
<1>3. r = Rcv("header", new, mems, 7, whole)
  <2> DEFINE q == Rcv("header", bufs, mems, 7, 7)
             u == [q EXCEPT !.toMove = whole]
  <2> HIDE DEF whole
  <2>1. r = [u EXCEPT !.bufs[1].len = 0, !.bufs[2].len = 2 * a, !.bufs[3].len = 2 * b]
    <3> HIDE DEF q
    <3> QED BY <1>2 DEF q
  <2>2. u = s
    BY DEF Rcv
  <2> HIDE DEF u, s
  <2>3. r = [s EXCEPT !.bufs[1].len = 0, !.bufs[2].len = 2 * a, !.bufs[3].len = 2 * b]
    BY <2>1, <2>2
  <2>4. r = [s EXCEPT !.bufs = [s.bufs EXCEPT ![1].len = 0, ![2].len = 2 * a, ![3].len = 2 * b]]
    BY <2>3
  <2>5. s.bufs = bufs
    BY DEF s, Rcv
  <2> QED BY <2>4, <2>5 DEF s, Rcv
<1>4. new[1] \in Bufs /\ new[1].len = 0 /\ new[1].at = 0 /\ new[2] = Buf(0, 2 * a) /\ new[3] = Buf(0, 2 * b)
  BY DEF Buf, Bufs
<1> HIDE DEF new, s
<1>5. /\ r.phase = "header" /\ r.bufs = new /\ r.mems = mems /\ r.total = 7 /\ r.toMove = whole
  BY <1>3 DEF Rcv
<1>6. RestBufs(m, new, 7)
  <2>1. CASE a = 0
    <3>1. /\ 7 >= BodyTwoAt(m) /\ new[2] \in Bufs /\ new[2].len = 0
          /\ new[3] = Buf(7 - BodyTwoAt(m), ToMove(m) - 7)
      BY <1>1, <1>4, <2>1 DEF Buf, Bufs
    <3> QED BY <1>4, <3>1 DEF RestBufs
  <2>2. CASE a # 0
    <3>1. /\ 7 >= HEADER_LEN /\ 7 < BodyTwoAt(m) /\ new[2] = Buf(7 - HEADER_LEN, BodyTwoAt(m) - 7)
          /\ new[3] = Buf(0, 2 * Lengths[m][2])
      BY <1>1, <1>4, <2>2
    <3> QED BY <1>4, <3>1 DEF RestBufs
  <2> QED BY <2>1, <2>2
<1>7. 7 \in Nat /\ 7 >= HEADER_LEN /\ 7 < ToMove(m)
  BY <1>1
<1> QED BY <1>1, <1>4, <1>5, <1>6, <1>7 DEF InBodies

(* and those for what is left of them name what is left.                   *)
LEMMA ServerGoesOn ==
  ASSUME NEW m \in Messages, NEW mems, NEW bufs \in [1 .. 3 -> Bufs], bufs[1].at = 0,
         NEW p \in Nat, NEW t \in Nat, p >= HEADER_LEN, p =< t, t < ToMove(m), RestBufs(m, bufs, p), NEW r,
         r = WorkerPartialRecvBody(Rcv("header", bufs, mems, t, ToMove(m)),
                                   2 * Lengths[m][1], 2 * Lengths[m][2])
  PROVE  r.mems = mems /\ InBodies("toServer", r, m, t)
<1>1. PICK a, b \in 0 .. 3 : /\ Lengths[m][1] = a /\ Lengths[m][2] = b
                             /\ BodyTwoAt(m) = 7 + 2 * a /\ ToMove(m) = 7 + 2 * a + 2 * b
                             /\ HEADER_LEN = 7
  BY PacketNumbers
<1> DEFINE whole == ToMove(m)
           s == Rcv("header", bufs, mems, t, whole)
<1>2. s.toMove = whole /\ s.total = t /\ s.bufs = bufs /\ whole # HEADER_LEN /\ whole \in Nat
      /\ t >= 7 /\ t < 7 + 2 * a + 2 * b /\ r = WorkerPartialRecvBody(s, 2 * a, 2 * b)
  BY <1>1 DEF Rcv
<1>3. ASSUME NEW new \in [1 .. 3 -> Bufs], r = [s EXCEPT !.bufs = new], RestBufs(m, new, t), new[1].at = 0
      PROVE  r.mems = mems /\ InBodies("toServer", r, m, t)
  <2>1. /\ r.phase = "header" /\ r.bufs = new /\ r.mems = mems /\ r.total = t /\ r.toMove = whole
    BY <1>3 DEF Rcv
  <2>2. t >= HEADER_LEN
    BY <1>1, <1>2
  <2> QED BY <1>3, <2>1, <2>2 DEF InBodies
<1> HIDE DEF s, whole
<1>4. CASE t < 7 + 2 * a
  <2> DEFINE rest == Buf(t - 7, 2 * a - (t - 7))
             new == [bufs EXCEPT ![1].len = 0, ![2] = rest]
  <2>1. r = [s EXCEPT !.bufs[1].len = 0, !.bufs[2] = rest]
    BY <1>1, <1>2, <1>4 DEF WorkerPartialRecvBody
  <2>2. rest \in Bufs /\ rest = Buf(t - 7, (7 + 2 * a) - t)
    <3>1. t - 7 \in Nat /\ 2 * a - (t - 7) \in Nat /\ 2 * a - (t - 7) = (7 + 2 * a) - t
      BY <1>2, <1>4
    <3> QED BY <3>1 DEF Buf, Bufs
  <2> HIDE DEF rest
  <2>3. r = [s EXCEPT !.bufs = new]
    BY <1>2, <2>1, NotFirstBuf
  <2>4. new \in [1 .. 3 -> Bufs] /\ new[1].len = 0 /\ new[1].at = 0 /\ new[2] = rest /\ new[3] = bufs[3]
    BY <2>2 DEF Bufs
  <2> HIDE DEF new
  <2>5. bufs[3] = Buf(0, 2 * b)
    <3>1. ~(p < HEADER_LEN) /\ ~(p >= BodyTwoAt(m))
      BY <1>1, <1>4
    <3> QED BY <1>1, <3>1 DEF RestBufs
  <2>6. RestBufs(m, new, t)
    <3>1. /\ t >= HEADER_LEN /\ t < BodyTwoAt(m) /\ new[1] \in Bufs
          /\ new[2] = Buf(t - HEADER_LEN, BodyTwoAt(m) - t) /\ new[3] = Buf(0, 2 * Lengths[m][2])
      BY <1>1, <1>2, <1>4, <2>2, <2>4, <2>5
    <3> QED BY <2>4, <3>1 DEF RestBufs
  <2> QED BY <1>3, <2>3, <2>4, <2>6
<1>5. CASE ~(t < 7 + 2 * a)
  <2> DEFINE got == t - (2 * a + 7)
             rest == Buf(got, DwordMinus(2 * b, got))
             new == [bufs EXCEPT ![1].len = 0, ![2].len = 0, ![3] = rest]
  <2>1. r = [s EXCEPT !.bufs[1].len = 0, !.bufs[2].len = 0, !.bufs[3] = rest]
    BY <1>1, <1>2, <1>5 DEF WorkerPartialRecvBody
  <2>2. rest \in Bufs /\ rest = Buf(t - (7 + 2 * a), (7 + 2 * a + 2 * b) - t)
    <3>1. got \in Nat /\ 2 * b >= got /\ 2 * b - got = (7 + 2 * a + 2 * b) - t /\ got = t - (7 + 2 * a)
          /\ 2 * b - got \in Nat
      BY <1>2, <1>5
    <3> HIDE DEF got
    <3> QED BY <3>1 DEF Buf, Bufs, DwordMinus
  <2> HIDE DEF rest
  <2>3. r = [s EXCEPT !.bufs = new]
    BY <1>2, <2>1, OnlyLastBuf
  <2>4. /\ new \in [1 .. 3 -> Bufs] /\ new[1].len = 0 /\ new[1].at = 0
        /\ new[2].len = 0 /\ new[3] = rest
    BY <2>2 DEF Bufs
  <2> HIDE DEF new
  <2>5. RestBufs(m, new, t)
    <3>1. /\ t >= BodyTwoAt(m) /\ t >= HEADER_LEN /\ new[1] \in Bufs /\ new[2] \in Bufs
          /\ new[3] = Buf(t - BodyTwoAt(m), ToMove(m) - t)
      BY <1>1, <1>2, <1>5, <2>2, <2>4
    <3> QED BY <2>4, <3>1 DEF RestBufs
  <2> QED BY <1>3, <2>3, <2>4, <2>5
<1> QED BY <1>4, <1>5

(* A turn handles the packet when all of it has come, and otherwise waits  *)
(* for what is left.                                                       *)
Turned(r, m, t) ==
  \/ Handle(r) /\ t = ToMove(m)
  \/ /\ handled' = handled /\ rcv'.mems = r.mems
     /\ Reads(way, rcv', m, t)

(* What is known of a receive.                                             *)
LEMMA ReceivesParts ==
  ASSUME RcvInv(rcv), NEW r, NEW m, NEW p, NEW n, Receives(r, m, p, n)
  PROVE  /\ m \in Messages /\ p \in Nat /\ n \in Nat \ {0} /\ p + n =< Upto(m, p)
         /\ r.phase = rcv.phase /\ r.bufs = rcv.bufs /\ r.total = rcv.total + n /\ r.toMove = rcv.toMove
         /\ r.bufs \in [1 .. 3 -> Bufs]
         /\ r = Rcv(r.phase, r.bufs, r.mems, r.total, r.toMove)
         /\ Holds(r.mems, m, p + n) /\ OnlyHeader(r.mems)
<1>1. /\ m \in Messages /\ n \in Nat \ {0} /\ p + n =< Upto(m, p) /\ Reads(way, rcv, m, p)
      /\ r = Rcv(rcv.phase, rcv.bufs, r.mems, rcv.total + n, rcv.toMove)
      /\ Holds(r.mems, m, p + n) /\ OnlyHeader(r.mems)
  BY DEF Receives
<1>2. p \in Nat
  BY <1>1, ReadsNames
<1>3. r.phase = rcv.phase /\ r.bufs = rcv.bufs /\ r.total = rcv.total + n /\ r.toMove = rcv.toMove
  BY <1>1 DEF Rcv
<1> QED BY <1>1, <1>2, <1>3 DEF RcvInv

(* The server's turn does (WorkerRecvOP, WorkerPartialRecv).               *)
LEMMA ServerReads ==
  ASSUME way = "toServer", RcvInv(rcv), rcv.phase = "header",
         NEW r, NEW m, NEW p, NEW n, Receives(r, m, p, n), ~SplitHeader(r),
         IF r.total = HEADER_LEN \/ r.total < r.toMove THEN WorkerPartialRecv(r) ELSE Handle(r)
  PROVE  Turned(r, m, p + n)
<1>1. /\ m \in Messages /\ p \in Nat /\ n \in Nat \ {0} /\ p + n =< Upto(m, p)
      /\ r.phase = rcv.phase /\ r.bufs = rcv.bufs /\ r.total = rcv.total + n /\ r.toMove = rcv.toMove
      /\ r.bufs \in [1 .. 3 -> Bufs]
      /\ r = Rcv(r.phase, r.bufs, r.mems, r.total, r.toMove)
      /\ Holds(r.mems, m, p + n) /\ OnlyHeader(r.mems)
  BY ReceivesParts
<1>2. PICK a, b \in 0 .. 3 : /\ Lengths[m][1] = a /\ Lengths[m][2] = b
                             /\ BodyTwoAt(m) = 7 + 2 * a /\ ToMove(m) = 7 + 2 * a + 2 * b
                             /\ HEADER_LEN = 7
  BY <1>1, PacketNumbers
<1>3. PICK t \in Nat : t = p + n /\ t > p
  BY <1>1
<1>4. Reads("toServer", rcv, m, p) /\ r.phase = "header" /\ t =< Upto(m, p)
      /\ Holds(r.mems, m, t) /\ OnlyHeader(r.mems)
  BY <1>1, <1>3 DEF Receives
<1>5. CASE InHeader(rcv, p)
  <2>1. /\ p \in 0 .. 6 /\ rcv.total = p /\ r.toMove = 7 /\ r.total = t /\ t =< 7
        /\ r.bufs[1] = Buf(p, 7 - p) /\ r.bufs[2] = Buf(0, 0) /\ r.bufs[3] = Buf(0, 0)
    BY <1>1, <1>2, <1>3, <1>4, <1>5 DEF InHeader, Upto
  <2>2. r = Rcv("header", r.bufs, r.mems, t, 7)
    BY <1>1, <1>4, <2>1
  <2>3. WorkerPartialRecv(r)
    <3>1. r.total = HEADER_LEN \/ r.total < r.toMove
      BY <1>2, <2>1
    <3> QED BY <3>1
  <2>4. CASE t < 7
    <3> DEFINE rest == Buf(t, 7 - t)
               new == [r.bufs EXCEPT ![1] = rest]
    <3>1. rcv' = [r EXCEPT !.bufs[1] = rest] /\ handled' = handled
      <4>1. r.total < HEADER_LEN
        BY <1>2, <2>1, <2>4
      <4>2. ~(r.total >= HEADER_LEN)
        BY <1>2, <2>1, <2>4
      <4>3. rcv' = RestOfHeader(r) /\ handled' = handled
        BY <2>3, <4>1, <4>2 DEF WorkerPartialRecv
      <4> QED BY <1>2, <2>1, <4>3 DEF RestOfHeader
    <3> HIDE DEF rest
    <3>2. rcv' = [r EXCEPT !.bufs = new]
      BY <3>1, FirstBuf
    <3>3. new[1] = rest /\ new[2] = Buf(0, 0) /\ new[3] = Buf(0, 0)
      BY <1>1, <2>1
    <3> HIDE DEF new
    <3>4. rcv' = Rcv("header", new, r.mems, t, 7)
      BY <2>2, <3>2 DEF Rcv
    <3>5. rcv'.phase = "header" /\ rcv'.bufs = new /\ rcv'.mems = r.mems /\ rcv'.total = t /\ rcv'.toMove = 7
      BY <3>4 DEF Rcv
    <3>6. t \in 0 .. 6
      BY <2>4
    <3>7. InHeader(rcv', t)
      BY <1>2, <3>3, <3>5, <3>6 DEF InHeader, rest
    <3> QED BY <1>3, <3>1, <3>5, <3>7 DEF Turned, Reads
  <2>5. CASE t = 7
    <3>1. /\ ~(r.total < HEADER_LEN) /\ r.total >= HEADER_LEN /\ r.total = HEADER_LEN
          /\ t \in HEADER_LEN .. ToMove(m) /\ r.bufs[1].at = p
      BY <1>2, <2>1, <2>5 DEF Buf
    <3>2. CASE a + b = 0
      <4>1. r.bufs[1].at \in 0 .. 6 /\ Lengths[m][1] = 0 /\ Lengths[m][2] = 0
        BY <1>2, <2>1, <3>1, <3>2
      <4>2. PeekedLens(r) = <<2 * Lengths[m][1], 2 * Lengths[m][2]>>
        BY <1>1, <1>4, <3>1, <4>1, PeekedHeld
      <4>3. PeekedLens(r) = <<0, 0>>
        BY <4>1, <4>2
      <4>4. Handle(r)
        BY <2>3, <3>1, <4>3 DEF WorkerPartialRecv
      <4> QED BY <1>2, <1>3, <2>5, <3>2, <4>4 DEF Turned
    <3>3. CASE a + b # 0
      <4>1. r.bufs[1].at = 0
        <5>1. LenOne(r.mems) = a /\ LenTwo(r.mems) = b
          BY <1>1, <1>2, <1>4, <3>1, HeaderHeld
        <5>2. ~(p > 0)
          BY <2>1, <3>1, <3>3, <5>1 DEF SplitHeader
        <5> QED BY <2>1, <3>1, <5>2
      <4>2. PeekedLens(r) = <<2 * Lengths[m][1], 2 * Lengths[m][2]>>
        BY <1>1, <1>4, <3>1, <4>1, PeekedHeld
      <4>3. PeekedLens(r) # <<0, 0>>
        BY <1>2, <3>3, <4>2
      <4>4. handled' = handled /\ rcv' = WorkerPartialRecvBody(r, 2 * Lengths[m][1], 2 * Lengths[m][2])
        BY <2>3, <3>1, <4>2, <4>3 DEF WorkerPartialRecv
      <4>5. PICK bufs \in [1 .. 3 -> Bufs], mems \in {r.mems} : bufs = r.bufs /\ mems = r.mems
        BY <1>1
      <4>6. rcv' = WorkerPartialRecvBody(Rcv("header", bufs, mems, 7, HEADER_LEN),
                                         2 * Lengths[m][1], 2 * Lengths[m][2])
        BY <1>2, <2>2, <2>5, <4>4, <4>5
      <4>7. Lengths[m][1] + Lengths[m][2] # 0 /\ bufs[1].at = 0 /\ bufs[2] = Buf(0, 0) /\ bufs[3] = Buf(0, 0)
        BY <1>2, <2>1, <3>3, <4>1, <4>5
      <4>8. rcv'.mems = mems /\ InBodies("toServer", rcv', m, 7)
        BY <1>1, <4>6, <4>7, ServerStartsBodies
      <4> QED BY <1>3, <2>5, <4>4, <4>5, <4>8 DEF Turned, Reads
    <3> QED BY <3>2, <3>3
  <2> QED BY <2>1, <2>4, <2>5
<1>6. CASE InBodies("toServer", rcv, m, p)
  <2>1. /\ p >= HEADER_LEN /\ p < ToMove(m) /\ RestBufs(m, r.bufs, p) /\ rcv.total = p
        /\ r.toMove = ToMove(m) /\ r.bufs[1].at = 0
    BY <1>1, <1>6 DEF InBodies
  <2>2. r.total = t /\ t =< ToMove(m) /\ t > 7 /\ p =< t
    BY <1>1, <1>2, <1>3, <1>4, <2>1 DEF Upto
  <2>3. CASE t = ToMove(m)
    <3>1. ~(r.total = HEADER_LEN) /\ ~(r.total < r.toMove)
      BY <1>2, <2>1, <2>2, <2>3
    <3>2. Handle(r)
      BY <3>1
    <3> QED BY <1>3, <2>3, <3>2 DEF Turned
  <2>4. CASE t < ToMove(m)
    <3>1. WorkerPartialRecv(r)
      BY <2>1, <2>2, <2>4
    <3>2. ~(r.total < HEADER_LEN) /\ t \in HEADER_LEN .. ToMove(m)
      BY <1>2, <2>2
    <3>3. PeekedLens(r) = <<2 * Lengths[m][1], 2 * Lengths[m][2]>>
      BY <1>1, <1>4, <2>1, <3>2, PeekedHeld
    <3>4. PeekedLens(r) # <<0, 0>>
      <4>1. a + b # 0
        BY <1>2, <2>2
      <4> QED BY <1>2, <3>3, <4>1
    <3>5. handled' = handled /\ rcv' = WorkerPartialRecvBody(r, 2 * Lengths[m][1], 2 * Lengths[m][2])
      BY <3>1, <3>2, <3>3, <3>4 DEF WorkerPartialRecv
    <3>6. PICK bufs \in [1 .. 3 -> Bufs], mems \in {r.mems} : bufs = r.bufs /\ mems = r.mems
      BY <1>1
    <3>7. rcv' = WorkerPartialRecvBody(Rcv("header", bufs, mems, t, ToMove(m)),
                                       2 * Lengths[m][1], 2 * Lengths[m][2])
      BY <1>1, <1>4, <2>1, <2>2, <3>5, <3>6
    <3>8. bufs[1].at = 0 /\ RestBufs(m, bufs, p)
      BY <2>1, <3>6
    <3>9. rcv'.mems = mems /\ InBodies("toServer", rcv', m, t)
      BY <1>1, <2>1, <2>2, <2>4, <3>7, <3>8, ServerGoesOn
    <3> QED BY <1>3, <3>5, <3>6, <3>9 DEF Turned, Reads
  <2> QED BY <1>2, <2>2, <2>3, <2>4
<1> QED BY <1>4, <1>5, <1>6 DEF Reads

(* The client's buffers for the bodies name all of them.                   *)
LEMMA ClientStartsBodies ==
  ASSUME NEW m \in Messages, Lengths[m][1] + Lengths[m][2] # 0, NEW bufs,
         bufs = <<Buf(0, 0), Buf(0, 2 * Lengths[m][1]), Buf(0, 2 * Lengths[m][2])>>,
         NEW mems, NEW r, r = Rcv("body", bufs, mems, 0, 2 * Lengths[m][1] + 2 * Lengths[m][2])
  PROVE  r.mems = mems /\ InBodies("toClient", r, m, 7)
<1>1. PICK a, b \in 0 .. 3 : /\ Lengths[m][1] = a /\ Lengths[m][2] = b
                             /\ BodyTwoAt(m) = 7 + 2 * a /\ ToMove(m) = 7 + 2 * a + 2 * b
                             /\ HEADER_LEN = 7
  BY PacketNumbers
<1>2. /\ r.phase = "body" /\ r.bufs = bufs /\ r.mems = mems /\ r.total = 0 /\ r.toMove = 2 * a + 2 * b
  BY <1>1 DEF Rcv
<1>3. bufs[1] = Buf(0, 0) /\ bufs[2] = Buf(0, 2 * a) /\ bufs[3] = Buf(0, 2 * b)
  BY <1>1
<1>4. bufs[1] \in Bufs /\ bufs[1].len = 0
  BY <1>3 DEF Buf, Bufs
<1>5. RestBufs(m, bufs, 7)
  <2>1. CASE a = 0
    <3>1. /\ 7 >= BodyTwoAt(m) /\ bufs[2] \in Bufs /\ bufs[2].len = 0
          /\ bufs[3] = Buf(7 - BodyTwoAt(m), ToMove(m) - 7)
      BY <1>1, <1>3, <2>1 DEF Buf, Bufs
    <3> QED BY <1>4, <3>1 DEF RestBufs
  <2>2. CASE a # 0
    <3>1. /\ 7 >= HEADER_LEN /\ 7 < BodyTwoAt(m) /\ bufs[2] = Buf(7 - HEADER_LEN, BodyTwoAt(m) - 7)
          /\ bufs[3] = Buf(0, 2 * Lengths[m][2])
      BY <1>1, <1>3, <2>2
    <3> QED BY <1>4, <3>1 DEF RestBufs
  <2> QED BY <2>1, <2>2
<1>6. /\ 7 \in Nat /\ 7 >= HEADER_LEN /\ 7 < ToMove(m)
      /\ r.total = 7 - HEADER_LEN /\ r.toMove = ToMove(m) - HEADER_LEN
  BY <1>1, <1>2
<1> QED BY <1>2, <1>5, <1>6 DEF InBodies

(* A packet in another phase.                                              *)
LEMMA RcvPhase ==
  \A phase, bufs, mems, total, toMove, q, p :
    q = Rcv(phase, bufs, mems, total, toMove)
      => [q EXCEPT !.phase = p] = Rcv(p, bufs, mems, total, toMove)
BY DEF Rcv

(* A break at byte t of packet m, when the buffers were those behind byte  *)
(* p: not behind the first of two bodies.                                  *)
Breaks(m, mems, bufs, p, t) ==
  /\ m \in Messages /\ LenOne(mems) = Lengths[m][1] /\ LenTwo(mems) = Lengths[m][2]
  /\ bufs \in [1 .. 3 -> Bufs] /\ p \in Nat /\ t \in Nat
  /\ p >= HEADER_LEN /\ p =< t /\ t < ToMove(m) /\ RestBufs(m, bufs, p)
  /\ t < BodyTwoAt(m) \/ Lengths[m][1] = 0

(* The packet that goes on there.                                          *)
GoesOnAs(r, m, mems, bufs, t) ==
  \E s : /\ s = Rcv("body", bufs, mems, t - HEADER_LEN, ToMove(m) - HEADER_LEN)
         /\ r = [RecvBodyRest(s) EXCEPT !.phase = "bodyPeek"]

(* The buffers for what is left after one name what is left (RecvBody).    *)
LEMMA ClientGoesOn ==
  ASSUME NEW m, NEW mems, NEW bufs, NEW p, NEW t, Breaks(m, mems, bufs, p, t),
         NEW r, GoesOnAs(r, m, mems, bufs, t)
  PROVE  r.mems = mems /\ InBodies("toClient", r, m, t)
<1>1. /\ m \in Messages /\ LenOne(mems) = Lengths[m][1] /\ LenTwo(mems) = Lengths[m][2]
      /\ bufs \in [1 .. 3 -> Bufs] /\ p \in Nat /\ t \in Nat
      /\ p >= HEADER_LEN /\ p =< t /\ t < ToMove(m) /\ RestBufs(m, bufs, p)
      /\ (t < BodyTwoAt(m) \/ Lengths[m][1] = 0)
  BY DEF Breaks
<1>2. PICK a, b \in 0 .. 3 : /\ Lengths[m][1] = a /\ Lengths[m][2] = b
                             /\ BodyTwoAt(m) = 7 + 2 * a /\ ToMove(m) = 7 + 2 * a + 2 * b
                             /\ HEADER_LEN = 7
  BY <1>1, PacketNumbers
<1>3. PICK left, whole \in Nat : left = t - 7 /\ whole = ToMove(m) - 7
  <2>1. t - 7 \in Nat /\ ToMove(m) - 7 \in Nat
    BY <1>1, <1>2
  <2> QED BY <1>1, <2>1
<1>4. PICK s : /\ s = Rcv("body", bufs, mems, t - HEADER_LEN, ToMove(m) - HEADER_LEN)
               /\ r = [RecvBodyRest(s) EXCEPT !.phase = "bodyPeek"]
  BY DEF GoesOnAs
<1>5. s = Rcv("body", bufs, mems, left, whole)
  BY <1>2, <1>3, <1>4
<1>6. s.total = left /\ s.bufs = bufs /\ s.mems = mems
  BY <1>1, <1>5 DEF Rcv
<1>7. bufs[1] \in Bufs /\ bufs[1].len = 0
  <2>1. ~(p < HEADER_LEN)
    BY <1>1, <1>2
  <2> QED BY <1>1, <2>1 DEF RestBufs
<1>8. ASSUME NEW new \in [1 .. 3 -> Bufs], RecvBodyRest(s) = [s EXCEPT !.bufs = new], RestBufs(m, new, t)
      PROVE  r.mems = mems /\ InBodies("toClient", r, m, t)
  <2>1. PICK q : q = RecvBodyRest(s)
    OBVIOUS
  <2>2. q = Rcv("body", new, mems, left, whole)
    BY <1>1, <1>5, <1>8, <2>1 DEF Rcv
  <2>3. r = [q EXCEPT !.phase = "bodyPeek"]
    BY <1>4, <2>1
  <2>4. r = Rcv("bodyPeek", new, mems, left, whole)
    BY <2>2, <2>3, RcvPhase
  <2>5. /\ r.phase = "bodyPeek" /\ r.bufs = new /\ r.mems = mems /\ r.total = left /\ r.toMove = whole
    BY <1>1, <2>4 DEF Rcv
  <2>6. t >= HEADER_LEN
    BY <1>1, <1>2
  <2> QED BY <1>1, <1>2, <1>3, <1>8, <2>5, <2>6 DEF InBodies
<1>9. CASE t < 7 + 2 * a
  <2> DEFINE rest == Buf(left, 2 * a - left)
             new == [bufs EXCEPT ![2] = rest]
  <2>1. RecvBodyRest(s) = [s EXCEPT !.bufs[2] = rest]
    BY <1>1, <1>2, <1>3, <1>6, <1>9 DEF RecvBodyRest
  <2>2. rest \in Bufs /\ rest = Buf(t - 7, (7 + 2 * a) - t)
    <3>1. 2 * a - left \in Nat /\ 2 * a - left = (7 + 2 * a) - t
      BY <1>1, <1>2, <1>3, <1>9
    <3> QED BY <1>1, <1>3, <3>1 DEF Buf, Bufs
  <2> HIDE DEF rest
  <2>3. RecvBodyRest(s) = [s EXCEPT !.bufs = new]
    BY <1>1, <1>6, <2>1, SecondBuf
  <2>4. new \in [1 .. 3 -> Bufs] /\ new[1] = bufs[1] /\ new[2] = rest /\ new[3] = bufs[3]
    BY <1>1, <2>2
  <2> HIDE DEF new
  <2>5. bufs[3] = Buf(0, 2 * b)
    <3>1. ~(p < HEADER_LEN) /\ ~(p >= BodyTwoAt(m))
      BY <1>1, <1>2, <1>9
    <3> QED BY <1>1, <1>2, <3>1 DEF RestBufs
  <2>6. RestBufs(m, new, t)
    <3>1. /\ t >= HEADER_LEN /\ t < BodyTwoAt(m)
          /\ new[2] = Buf(t - HEADER_LEN, BodyTwoAt(m) - t) /\ new[3] = Buf(0, 2 * Lengths[m][2])
      BY <1>1, <1>2, <1>9, <2>2, <2>4, <2>5
    <3> QED BY <1>1, <1>7, <2>4, <3>1 DEF RestBufs
  <2> QED BY <1>1, <1>8, <2>3, <2>4, <2>6
<1>10. CASE ~(t < 7 + 2 * a)
  <2>1. a = 0
    BY <1>1, <1>2, <1>10
  <2> DEFINE rest == Buf(left, 2 * b - left)
             new == [bufs EXCEPT ![2] = Buf(0, 0), ![3] = rest]
  <2>2. RecvBodyRest(s) = [s EXCEPT !.bufs[2] = Buf(0, 0), !.bufs[3] = rest]
    <3>1. /\ LenOne(s.mems) = 0 /\ 2 * LenOne(s.mems) = 0 /\ 2 * LenTwo(s.mems) = 2 * b
          /\ s.total - 0 = left /\ ~(s.total < 0)
      BY <1>1, <1>2, <1>6, <2>1
    <3> QED BY <1>1, <1>6, <3>1 DEF RecvBodyRest
  <2>3. rest \in Bufs /\ rest = Buf(t - BodyTwoAt(m), ToMove(m) - t)
    <3>1. 2 * b - left \in Nat /\ 2 * b - left = ToMove(m) - t /\ left = t - BodyTwoAt(m)
      BY <1>1, <1>2, <1>3, <2>1
    <3> QED BY <1>1, <3>1 DEF Buf, Bufs
  <2> HIDE DEF rest
  <2>4. RecvBodyRest(s) = [s EXCEPT !.bufs = new]
    BY <1>1, <1>6, <2>2, SecondAndThirdBuf
  <2>5. Buf(0, 0) \in Bufs /\ Buf(0, 0).len = 0
    BY DEF Buf, Bufs
  <2>6. new \in [1 .. 3 -> Bufs] /\ new[1] = bufs[1] /\ new[2] = Buf(0, 0) /\ new[3] = rest
    BY <1>1, <2>3, <2>5
  <2> HIDE DEF new
  <2>7. RestBufs(m, new, t)
    <3>1. t >= BodyTwoAt(m)
      BY <1>1, <1>2, <1>10
    <3> QED BY <1>1, <1>7, <2>3, <2>5, <2>6, <3>1 DEF RestBufs
  <2> QED BY <1>1, <1>8, <2>4, <2>6, <2>7
<1> QED BY <1>9, <1>10

(* The client's turn handles the packet or waits for what is left.         *)
LEMMA ClientReads ==
  ASSUME way = "toClient", RcvInv(rcv), rcv.phase \in {"header", "body"},
         NEW r, NEW m, NEW p, NEW n, Receives(r, m, p, n), ~SplitLate(r),
         IF rcv.phase = "header" THEN RecvHeader(r) ELSE RecvBody(r)
  PROVE  Turned(r, m, p + n)
<1>1. /\ m \in Messages /\ p \in Nat /\ n \in Nat \ {0} /\ p + n =< Upto(m, p)
      /\ r.phase = rcv.phase /\ r.bufs = rcv.bufs /\ r.total = rcv.total + n /\ r.toMove = rcv.toMove
      /\ r.bufs \in [1 .. 3 -> Bufs]
      /\ r = Rcv(r.phase, r.bufs, r.mems, r.total, r.toMove)
      /\ Holds(r.mems, m, p + n) /\ OnlyHeader(r.mems)
  BY ReceivesParts
<1>2. PICK a, b \in 0 .. 3 : /\ Lengths[m][1] = a /\ Lengths[m][2] = b
                             /\ BodyTwoAt(m) = 7 + 2 * a /\ ToMove(m) = 7 + 2 * a + 2 * b
                             /\ HEADER_LEN = 7
  BY <1>1, PacketNumbers
<1>3. PICK t \in Nat : t = p + n /\ t > p
  BY <1>1
<1>4. Reads("toClient", rcv, m, p) /\ t =< Upto(m, p) /\ Holds(r.mems, m, t)
  BY <1>1, <1>3 DEF Receives
<1>5. t \in HEADER_LEN .. ToMove(m) => LenOne(r.mems) = a /\ LenTwo(r.mems) = b
  BY <1>1, <1>2, <1>4, HeaderHeld
<1>6. CASE InHeader(rcv, p)
  <2>1. /\ p \in 0 .. 6 /\ rcv.total = p /\ r.toMove = 7 /\ r.total = t /\ t =< 7
        /\ r.bufs[1] = Buf(p, 7 - p) /\ r.bufs[2] = Buf(0, 0) /\ r.bufs[3] = Buf(0, 0)
        /\ rcv.phase = "header"
    BY <1>1, <1>2, <1>3, <1>4, <1>6 DEF InHeader, Upto
  <2>2. r = Rcv("header", r.bufs, r.mems, t, 7)
    BY <1>1, <2>1
  <2>3. RecvHeader(r)
    BY <2>1
  <2>4. CASE t < 7
    <3> DEFINE rest == Buf(t, 7 - t)
               new == [r.bufs EXCEPT ![1] = rest]
    <3>1. rcv' = [r EXCEPT !.phase = "headerPeek", !.bufs[1] = rest] /\ handled' = handled
      <4>1. r.total < HEADER_LEN /\ r.total # HEADER_LEN
        BY <1>2, <2>1, <2>4
      <4>2. /\ rcv' = [r EXCEPT !.phase = "headerPeek", !.bufs[1] = Buf(r.total, HEADER_LEN - r.total)]
            /\ handled' = handled
        BY <2>3, <4>1 DEF RecvHeader
      <4> QED BY <1>2, <2>1, <4>2
    <3> HIDE DEF rest
    <3>2. rcv' = [r EXCEPT !.phase = "headerPeek", !.bufs = new]
      BY <3>1, OtherPhase
    <3>3. new[1] = rest /\ new[2] = Buf(0, 0) /\ new[3] = Buf(0, 0)
      BY <1>1, <2>1
    <3> HIDE DEF new
    <3>4. rcv' = Rcv("headerPeek", new, r.mems, t, 7)
      <4> DEFINE s == [r EXCEPT !.phase = "headerPeek"]
      <4>1. rcv' = [s EXCEPT !.bufs = new]
        BY <3>2
      <4>2. s = Rcv("headerPeek", r.bufs, r.mems, t, 7)
        BY <2>2 DEF Rcv
      <4> HIDE DEF s
      <4> QED BY <4>1, <4>2 DEF Rcv
    <3>5. rcv'.phase = "headerPeek" /\ rcv'.bufs = new /\ rcv'.mems = r.mems /\ rcv'.total = t /\ rcv'.toMove = 7
      BY <3>4 DEF Rcv
    <3>6. t \in 0 .. 6
      BY <2>4
    <3>7. InHeader(rcv', t)
      BY <1>2, <3>3, <3>5, <3>6 DEF InHeader, rest
    <3> QED BY <1>3, <3>1, <3>5, <3>7 DEF Turned, Reads
  <2>5. CASE t = 7
    <3>1. ~(r.total < HEADER_LEN) /\ r.total = HEADER_LEN /\ LenOne(r.mems) = a /\ LenTwo(r.mems) = b
      <4>1. t \in HEADER_LEN .. ToMove(m)
        BY <1>2, <2>5
      <4> QED BY <1>2, <1>5, <2>1, <2>5, <4>1
    <3>2. CASE a + b = 0
      <4>1. 2 * LenOne(r.mems) + 2 * LenTwo(r.mems) = 0
        BY <3>1, <3>2
      <4>2. Handle(r)
        BY <2>3, <3>1, <4>1 DEF RecvHeader
      <4> QED BY <1>2, <1>3, <2>5, <3>2, <4>2 DEF Turned
    <3>3. CASE a + b # 0
      <4>1. PICK one, two \in Nat : one = 2 * LenOne(r.mems) /\ two = 2 * LenTwo(r.mems)
                                    /\ one = 2 * a /\ two = 2 * b /\ one + two # 0
        BY <3>1, <3>3
      <4>2. /\ handled' = handled
            /\ rcv' = [r EXCEPT !.phase = "body", !.total = 0, !.toMove = one + two,
                                !.bufs = <<Buf(0, 0), Buf(0, one), Buf(0, two)>>]
        BY <2>3, <3>1, <4>1 DEF RecvHeader
      <4>3. PICK bufs, mems : bufs = <<Buf(0, 0), Buf(0, one), Buf(0, two)>> /\ mems = r.mems
        OBVIOUS
      <4>4. rcv' = Rcv("body", bufs, mems, 0, one + two)
        <5>1. rcv' = [r EXCEPT !.phase = "body", !.total = 0, !.toMove = one + two, !.bufs = bufs]
          BY <4>2, <4>3
        <5> QED BY <2>2, <4>3, <5>1 DEF Rcv
      <4>5. /\ Lengths[m][1] + Lengths[m][2] # 0 /\ one = 2 * Lengths[m][1] /\ two = 2 * Lengths[m][2]
        BY <1>2, <3>3, <4>1
      <4>6. rcv'.mems = mems /\ InBodies("toClient", rcv', m, 7)
        BY <1>1, <4>3, <4>4, <4>5, ClientStartsBodies
      <4> QED BY <1>3, <2>5, <4>2, <4>3, <4>6 DEF Turned, Reads
    <3> QED BY <3>2, <3>3
  <2> QED BY <2>1, <2>4, <2>5
<1>7. CASE InBodies("toClient", rcv, m, p)
  <2>1. /\ p >= HEADER_LEN /\ p < ToMove(m) /\ RestBufs(m, r.bufs, p) /\ rcv.total = p - HEADER_LEN
        /\ r.toMove = ToMove(m) - HEADER_LEN /\ rcv.phase = "body" /\ r.phase = "body"
    BY <1>1, <1>7 DEF InBodies
  <2>2. r.total = t - 7 /\ t =< ToMove(m) /\ t > 7 /\ p =< t
    BY <1>1, <1>2, <1>3, <1>4, <2>1 DEF Upto
  <2>3. LenOne(r.mems) = a /\ LenTwo(r.mems) = b /\ RecvBody(r)
    <3>1. t \in HEADER_LEN .. ToMove(m)
      BY <1>2, <2>2
    <3> QED BY <1>5, <2>1, <3>1
  <2>4. CASE t = ToMove(m)
    <3>1. ~(r.total < r.toMove)
      BY <1>2, <2>1, <2>2, <2>4
    <3>2. Handle(r)
      BY <2>3, <3>1 DEF RecvBody
    <3> QED BY <1>3, <2>4, <3>2 DEF Turned
  <2>5. CASE t < ToMove(m)
    <3>1. r.total < r.toMove
      BY <1>2, <2>1, <2>2, <2>5
    <3>2. handled' = handled /\ rcv' = [RecvBodyRest(r) EXCEPT !.phase = "bodyPeek"]
      BY <2>3, <3>1 DEF RecvBody
    <3>3. t < BodyTwoAt(m) \/ Lengths[m][1] = 0
      <4>1. ~(a > 0 /\ t - 7 \in (2 * a) .. (2 * a + 2 * b - 1))
        <5>1. r.toMove = 2 * a + 2 * b
          BY <1>2, <2>1
        <5> QED BY <2>1, <2>2, <2>3, <5>1 DEF SplitLate
      <4> QED BY <1>2, <2>2, <2>5, <4>1
    <3>4. PICK bufs \in [1 .. 3 -> Bufs], mems \in {r.mems} : bufs = r.bufs /\ mems = r.mems
      BY <1>1
    <3>5. r = Rcv("body", bufs, mems, t - HEADER_LEN, ToMove(m) - HEADER_LEN)
      BY <1>1, <1>2, <2>1, <2>2, <3>4
    <3>6. RestBufs(m, bufs, p) /\ LenOne(mems) = Lengths[m][1] /\ LenTwo(mems) = Lengths[m][2]
      BY <1>2, <2>1, <2>3, <3>4
    <3>7. PICK q, s : q = rcv' /\ s = r
      OBVIOUS
    <3>8. GoesOnAs(q, m, mems, bufs, t)
      BY <3>2, <3>5, <3>7 DEF GoesOnAs
    <3>9. Breaks(m, mems, bufs, p, t)
      BY <1>1, <2>1, <2>2, <2>5, <3>3, <3>6 DEF Breaks
    <3>10. q.mems = mems /\ InBodies("toClient", q, m, t)
      BY <3>9, <3>8, ClientGoesOn
    <3> QED BY <1>3, <3>2, <3>4, <3>7, <3>10 DEF Turned, Reads
  <2> QED BY <1>2, <2>2, <2>4, <2>5
<1> QED BY <1>4, <1>6, <1>7 DEF Reads

----------------------------------------------------------------------------
(* What is read is what was given.                                         *)

(* The reader and the packets that were given agree, as long as nothing    *)
(* happened that the code does not survive.                                *)
CameInv == excuses = {} => EachRight /\ \E p \in Nat : HasCome(p)

(* A packet of which nothing was read (ResetChatRecv).                     *)
LEMMA ResetReads ==
  ASSUME NEW bufs, NEW r, r = ResetChatRecv(bufs)
  PROVE  InHeader(r, 0) /\ OnlyHeader(r.mems) /\ \A m : Holds(r.mems, m, 0)
<1>1. /\ r.phase = "header" /\ r.total = 0 /\ r.toMove = HEADER_LEN
      /\ r.bufs[1] = Buf(0, HEADER_LEN) /\ r.bufs[2] = Buf(0, 0) /\ r.bufs[3] = Buf(0, 0)
      /\ r.mems[1] = <<>>
  BY DEF ResetChatRecv, HeaderBufs, NewMemories
<1>2. HEADER_LEN - 0 = HEADER_LEN /\ 0 \in 0 .. 6
  BY DEF HEADER_LEN
<1>3. OnlyHeader(r.mems)
  <2>1. \A o \in Nat : o >= HEADER_LEN => o \notin DOMAIN <<>>
    BY DEF HEADER_LEN
  <2> QED BY <1>1, <2>1 DEF OnlyHeader, At
<1>4. \A m : Holds(r.mems, m, 0)
  <2>1. \A k : k \notin 0 .. (0 - 1)
    OBVIOUS
  <2> QED BY <2>1 DEF Holds
<1> QED BY <1>1, <1>2, <1>3, <1>4 DEF InHeader

(* At the start nothing was read.                                          *)
LEMMA InitCame == Init => CameInv
<1> SUFFICES ASSUME Init PROVE EachRight /\ \E p \in Nat : HasCome(p)
  BY DEF CameInv
<1>1. accepted = 0 /\ read = 0 /\ handled = <<>> /\ rcv = ResetChatRecv(HeaderBufs)
  BY DEF Init
<1>2. Len(handled) = 0 /\ Begin = 0
  BY <1>1, FlatNone DEF Begin
<1>3. EachRight
  BY <1>1, <1>2 DEF EachRight
<1>4. InHeader(rcv, 0) /\ OnlyHeader(rcv.mems)
  BY <1>1, ResetReads
<1>5. HasCome(0)
  BY <1>1, <1>2, <1>4 DEF HasCome, Reads
<1> QED BY <1>3, <1>5

(* The reader does not notice that one more message was given.             *)
LEMMA GivenKeepsCame ==
  TypeInv /\ HandledTyped /\ CameInv /\ accepted' = accepted + 1 /\ excuses \subseteq excuses'
    /\ UNCHANGED <<way, read, rcv, handled>> => CameInv'
<1> SUFFICES ASSUME TypeInv, HandledTyped, CameInv, accepted' = accepted + 1, excuses' = {}, excuses \subseteq excuses',
                    UNCHANGED <<way, read, rcv, handled>>
             PROVE  EachRight' /\ \E p \in Nat : HasCome(p)'
  BY DEF CameInv
<1>1. EachRight /\ accepted \in Nat /\ Len(handled) \in Nat
  BY TypeInvParts DEF CameInv, HandledTyped
<1>2. PICK p \in Nat : HasCome(p)
  BY DEF CameInv
<1>3. EachRight'
  BY <1>1 DEF EachRight
<1>4. Len(handled') # accepted' /\ Begin' = Begin
  BY <1>1 DEF EachRight, Begin
<1>5. Holds(rcv.mems, Len(handled) + 1, p)
  <2>1. CASE Len(handled) < accepted
    BY <1>2, <2>1 DEF HasCome
  <2>2. CASE Len(handled) = accepted
    <3>1. p = 0 /\ \A k : k \notin 0 .. (0 - 1)
      BY <1>2, <2>2 DEF HasCome
    <3> QED BY <3>1 DEF Holds
  <2> QED BY <1>1, <2>1, <2>2 DEF EachRight
<1>6. HasCome(p)'
  BY <1>2, <1>4, <1>5 DEF HasCome
<1> QED BY <1>3, <1>6

(* A reader that is left alone, or only learns that there is more, stays   *)
(* where it is (SocketPeek).                                               *)
LEMMA LeftAloneKeepsCame ==
  /\ CameInv
  /\ \/ UNCHANGED <<way, accepted, read, rcv, handled>> /\ excuses \subseteq excuses'
     \/ SocketPeek
  => CameInv'
<1> SUFFICES ASSUME CameInv, excuses' = {},
                    \/ UNCHANGED <<way, accepted, read, rcv, handled>> /\ excuses \subseteq excuses'
                    \/ SocketPeek
             PROVE  EachRight' /\ \E p \in Nat : HasCome(p)'
  BY DEF CameInv
<1>1. CASE UNCHANGED <<way, accepted, read, rcv, handled>> /\ excuses \subseteq excuses'
  <2>1. PICK p \in Nat : HasCome(p) /\ EachRight
    BY <1>1 DEF CameInv
  <2>2. HasCome(p)' /\ EachRight'
    BY <1>1, <2>1 DEF HasCome, EachRight, Begin
  <2> QED BY <2>2
<1>2. CASE SocketPeek
  <2>1. /\ UNCHANGED <<way, accepted, read, handled, excuses>>
        /\ rcv.phase \in {"headerPeek", "bodyPeek"}
        /\ rcv' = [rcv EXCEPT !.phase = IF rcv.phase = "headerPeek" THEN "header" ELSE "body"]
    BY <1>2 DEF SocketPeek, Excuse
  <2>2. PICK p \in Nat : HasCome(p) /\ EachRight
    BY <2>1 DEF CameInv
  <2>3. PICK m : m = Len(handled) + 1
    OBVIOUS
  <2>4. rcv'.bufs = rcv.bufs /\ rcv'.mems = rcv.mems /\ rcv'.total = rcv.total /\ rcv'.toMove = rcv.toMove
    BY <2>1
  <2>5. Reads(way, rcv, m, p)
    BY <2>2, <2>3 DEF HasCome
  <2>6. Reads(way, rcv', m, p)
    <3>1. CASE InHeader(rcv, p)
      <4>1. rcv'.phase = "header"
        BY <2>1, <3>1 DEF InHeader
      <4> QED BY <2>4, <3>1, <4>1 DEF InHeader, Reads
    <3>2. CASE InBodies(way, rcv, m, p)
      <4>1. way = "toClient" /\ rcv'.phase = "body"
        BY <2>1, <3>2 DEF InBodies
      <4> QED BY <2>4, <3>2, <4>1 DEF InBodies, Reads
    <3> QED BY <2>5, <3>1, <3>2 DEF Reads
  <2>7. HasCome(p)' /\ EachRight'
    BY <2>1, <2>2, <2>3, <2>4, <2>6 DEF HasCome, EachRight, Begin
  <2> QED BY <2>7
<1> QED BY <1>1, <1>2

(* A turn of the reader is right: it goes on with the packet, or takes it  *)
(* for what it is and begins with the next.                                *)
LEMMA ReadKeepsCame ==
  TypeInv /\ HandledTyped /\ CameInv /\ (ClientRecvPacket \/ WorkerRecvOP) => CameInv'
<1> SUFFICES ASSUME TypeInv, HandledTyped, CameInv, ClientRecvPacket \/ WorkerRecvOP, excuses' = {}
             PROVE  EachRight' /\ \E p \in Nat : HasCome(p)'
  BY DEF CameInv
<1>1. /\ excuses = {} /\ SentRight /\ UNCHANGED <<way, accepted, wire>>
  BY DEF ClientRecvPacket, WorkerRecvOP, Running, Excuse
<1>2. /\ RcvInv(rcv) /\ wire \in Seq(Byte) /\ read \in 0 .. Len(wire)
      /\ accepted \in 0 .. Len(Lengths) /\ accepted \in Nat
  BY TypeInvParts DEF TypeInv
<1>3. EachRight /\ Begins(wire, accepted)
  BY <1>1, BeginsIsSentRight DEF CameInv
<1>4. PICK p \in Nat : HasCome(p)
  BY <1>1 DEF CameInv
<1>5. PICK m : m = Len(handled) + 1
  OBVIOUS
<1>6. PICK n, r :
        /\ n \in Arriving(rcv) /\ r = Moved(rcv, n) /\ read' = read + n
        /\ Receives(r, m, p, n) /\ Turned(r, m, p + n)
  <2>1. CASE ClientRecvPacket
    <3>1. PICK n \in Arriving(rcv) :
            /\ IF rcv.phase = "header" THEN RecvHeader(Moved(rcv, n)) ELSE RecvBody(Moved(rcv, n))
            /\ Excuse(IF SplitLate(Moved(rcv, n)) THEN {"lateSplit"} ELSE {})
            /\ read' = read + n
      BY <2>1 DEF ClientRecvPacket
    <3>2. way = "toClient" /\ rcv.phase \in {"header", "body"} /\ ~SplitLate(Moved(rcv, n))
      BY <2>1, <3>1 DEF ClientRecvPacket, Excuse
    <3>3. Receives(Moved(rcv, n), m, p, n)
      BY <1>3, <1>4, <1>5, NextBytes
    <3>4. PICK r : r = Moved(rcv, n)
      OBVIOUS
    <3>5. IF rcv.phase = "header" THEN RecvHeader(r) ELSE RecvBody(r)
      BY <3>1, <3>4
    <3>6. Turned(r, m, p + n)
      BY <1>2, <3>2, <3>3, <3>4, <3>5, ClientReads
    <3> QED BY <3>1, <3>3, <3>4, <3>6
  <2>2. CASE WorkerRecvOP
    <3>1. PICK n \in Arriving(rcv) :
            /\ ServerTurn(n)
            /\ Excuse(IF SplitHeader(Moved(rcv, n)) THEN {"headerSplit"} ELSE {})
            /\ read' = read + n
      BY <2>2 DEF WorkerRecvOP, ServerTurn
    <3>2. way = "toServer" /\ rcv.phase = "header" /\ ~SplitHeader(Moved(rcv, n))
      BY <2>2, <3>1 DEF WorkerRecvOP, Excuse, TypeInv
    <3>3. Receives(Moved(rcv, n), m, p, n)
      BY <1>3, <1>4, <1>5, NextBytes
    <3>4. PICK r : r = Moved(rcv, n)
      OBVIOUS
    <3>5. IF r.total = HEADER_LEN \/ r.total < r.toMove THEN WorkerPartialRecv(r) ELSE Handle(r)
      BY <3>1, <3>4 DEF ServerTurn
    <3>6. Turned(r, m, p + n)
      BY <1>2, <3>2, <3>3, <3>4, <3>5, ServerReads
    <3> QED BY <3>1, <3>3, <3>4, <3>6
  <2> QED BY <2>1, <2>2
<1>7. /\ m \in Messages /\ m =< accepted /\ Begin \in Nat /\ read = Begin + p
      /\ Holds(r.mems, m, p + n) /\ OnlyHeader(r.mems) /\ n \in Nat
  BY <1>6 DEF Receives
<1>8. \A i \in 1 .. 3 : IsMemory(r.mems[i])
  BY <1>2, <1>6, MovedType
<1>9. Len(handled) \in Nat /\ Len(handled) < accepted
  BY <1>2, <1>5, <1>7 DEF HandledTyped
<1>10. CASE handled' = handled /\ rcv'.mems = r.mems /\ Reads(way, rcv', m, p + n)
  <2>1. Begin' = Begin /\ Len(handled') = Len(handled)
    BY <1>10 DEF Begin
  <2>2. EachRight'
    BY <1>1, <1>3, <1>10 DEF EachRight
  <2>3. PICK t \in Nat : t = p + n
    BY <1>7
  <2>4. read' = Begin' + t
    BY <1>6, <1>7, <2>1, <2>3
  <2>5. Reads(way', rcv', Len(handled') + 1, t) /\ Holds(rcv'.mems, Len(handled') + 1, t)
    BY <1>1, <1>5, <1>7, <1>10, <2>1, <2>3
  <2>6. HasCome(t)'
    BY <1>1, <1>7, <1>9, <1>10, <2>1, <2>4, <2>5 DEF HasCome
  <2> QED BY <2>2, <2>6
<1>11. CASE Handle(r) /\ p + n = ToMove(m)
  <2>1. Taken(r) = CharsOf(m)
    BY <1>7, <1>11, WholeIsTaken
  <2>2. /\ Len(handled') = Len(handled) + 1 /\ handled'[Len(handled) + 1] = Taken(r)
        /\ \A k \in 1 .. Len(handled) : handled'[k] = handled[k]
    BY <1>8, <1>11, HandledMore
  <2>3. EachRight'
    <3>1. Len(handled') =< accepted'
      BY <1>1, <1>2, <1>9, <2>2
    <3>2. ASSUME NEW k \in 1 .. Len(handled') PROVE handled'[k] = CharsOf(k)
      <4>1. CASE k = Len(handled) + 1
        BY <1>5, <2>1, <2>2, <4>1
      <4>2. CASE k \in 1 .. Len(handled)
        BY <1>3, <2>2, <4>2 DEF EachRight
      <4> QED BY <1>9, <2>2, <4>1, <4>2
    <3> QED BY <3>1, <3>2 DEF EachRight
  <2>4. Begin' = Begin + ToMove(m)
    <3>1. Len(handled) \in 0 .. (accepted - 1)
      BY <1>2, <1>9
    <3> QED BY <1>2, <1>5, <2>2, <3>1, FlatAt DEF Begin
  <2>5. read' = Begin' + 0 /\ 0 \in Nat
    BY <1>6, <1>7, <1>11, <2>4
  <2>6. InHeader(rcv', 0) /\ OnlyHeader(rcv'.mems) /\ \A k : Holds(rcv'.mems, k, 0)
    <3>1. rcv' = ResetChatRecv(r.bufs)
      BY <1>11, HandleTakes
    <3>2. PICK q : q = rcv'
      OBVIOUS
    <3> QED BY <3>1, <3>2, ResetReads
  <2>7. HasCome(0)'
    BY <2>5, <2>6 DEF HasCome, Reads
  <2> QED BY <2>3, <2>5, <2>7
<1> QED BY <1>6, <1>10, <1>11 DEF Turned

(* Every step keeps what was read.                                         *)
LEMMA CameStep == TypeInv /\ HandledTyped /\ CameInv /\ [Next]_vars => CameInv'
<1> SUFFICES ASSUME TypeInv, HandledTyped, CameInv, [Next]_vars PROVE CameInv'
  OBVIOUS
<1>1. CASE ManageMsgQueueAdd \/ SendPacket
  <2>1. accepted' = accepted + 1 /\ excuses \subseteq excuses' /\ UNCHANGED <<way, read, rcv, handled>>
    BY <1>1 DEF ManageMsgQueueAdd, SendPacket, Excuse
  <2> QED BY <2>1, GivenKeepsCame
<1>2. CASE SendCompletes \/ UserFree \/ UNCHANGED vars
  <2>1. UNCHANGED <<way, accepted, read, rcv, handled>> /\ excuses \subseteq excuses'
    BY <1>2 DEF SendCompletes, WorkerSendOP, UserFree, vars, Excuse
  <2> QED BY <2>1, LeftAloneKeepsCame
<1>3. CASE SocketPeek
  BY <1>3, LeftAloneKeepsCame
<1>4. CASE ClientRecvPacket \/ WorkerRecvOP
  BY <1>4, ReadKeepsCame
<1> QED BY <1>1, <1>2, <1>3, <1>4 DEF Next

(* The requests of a client are on the wire, unless a send was short.      *)
AskedInv == (way = "toServer" /\ excuses = {}) => Len(wire) = Len(Flat(accepted))

(* At the start there is no request.                                       *)
LEMMA InitAsked == Init => AskedInv
<1> SUFFICES ASSUME Init PROVE Len(wire) = Len(Flat(accepted))
  BY DEF AskedInv
<1> QED BY FlatNone DEF Init

(* Every step keeps them there (SendPacket).                               *)
LEMMA AskedStep == TypeInv /\ AskedInv /\ [Next]_vars => AskedInv'
<1> SUFFICES ASSUME TypeInv, AskedInv, [Next]_vars, way' = "toServer", excuses' = {}
             PROVE  Len(wire') = Len(Flat(accepted'))
  BY DEF AskedInv
<1>1. CASE SendPacket
  <2>1. way = "toServer" /\ excuses = {} /\ accepted < Len(Lengths) /\ accepted' = accepted + 1
    BY <1>1 DEF SendPacket, Excuse
  <2>2. PICK m \in Messages : m = accepted + 1
    BY <2>1, TypeInvParts
  <2>3. PICK packet : packet = PacketOf(m)
    OBVIOUS
  <2>4. PICK n \in DOMAIN packet : /\ wire' = wire \o SubSeq(packet, 1, n)
                                   /\ Excuse(IF n < Len(packet) THEN {"shortSend"} ELSE {})
    BY <1>1, <2>1, <2>2, <2>3 DEF SendPacket
  <2>5. packet \in Seq(Byte) /\ Len(packet) = ToMove(m) /\ n \in 1 .. ToMove(m) /\ ToMove(m) \in Nat
    BY <2>2, <2>3, PacketBytes, NewHolderType
  <2>6. n = ToMove(m)
    <3>1. ~(n < Len(packet))
      BY <2>4 DEF Excuse
    <3> QED BY <2>5, <3>1
  <2>7. SubSeq(packet, 1, n) \in Seq(Byte) /\ Len(SubSeq(packet, 1, n)) = n
    <3> HIDE DEF Byte
    <3>1. \A i \in 1 .. n : packet[i] \in Byte
      <4>1. \A i \in 1 .. n : i \in 1 .. Len(packet)
        BY <2>5
      <4> QED BY <2>5, <4>1, ElementOfSeq
    <3>2. 1 \in Int /\ n \in Int /\ (IF 1 =< n THEN n - 1 + 1 ELSE 0) = n
      BY <2>5
    <3> QED BY <3>1, <3>2, SubSeqProperties
  <2>8. wire \in Seq(Byte) /\ Len(wire) = Len(Flat(accepted))
    BY <2>1 DEF TypeInv, AskedInv
  <2>9. Len(wire') = Len(wire) + n
    <3> HIDE DEF Byte
    <3> QED BY <2>4, <2>7, <2>8, ConcatProperties
  <2>10. Len(Flat(accepted')) = Len(Flat(accepted)) + ToMove(m)
    <3>1. accepted' \in 0 .. Len(Lengths) /\ accepted \in 0 .. (accepted' - 1)
      BY <2>1, LengthsCount, TypeInvParts
    <3> QED BY <2>1, <2>2, <3>1, FlatAt
  <2> QED BY <2>6, <2>8, <2>9, <2>10
<1>2. CASE ManageMsgQueueAdd \/ SendCompletes \/ UserFree \/ ClientRecvPacket
  BY <1>2 DEF ManageMsgQueueAdd, SendCompletes, WorkerSendOP, UserFree, ClientRecvPacket
<1>3. CASE SocketPeek \/ WorkerRecvOP \/ UNCHANGED vars
  <2>1. UNCHANGED <<way, wire, accepted>> /\ excuses \subseteq excuses'
    BY <1>3 DEF SocketPeek, WorkerRecvOP, vars, Excuse
  <2> QED BY <2>1 DEF AskedInv
<1> QED BY <1>1, <1>2, <1>3 DEF Next

(* When nothing waits to be sent, all that was given is on the wire.       *)
LEMMA AllOnWire ==
  ASSUME TypeInv, QueueInv, WiredInv, AskedInv, excuses = {}, sending = NULL, ~freed
  PROVE  Len(wire) = Len(Flat(accepted))
<1>1. way = "toClient" \/ way = "toServer"
  BY PacketPartsAssumption DEF TypeInv
<1>2. CASE way = "toServer"
  BY <1>2 DEF AskedInv
<1>3. CASE way = "toClient"
  <2>1. PICK s \in 0 .. accepted : Waiting(s)
    BY <1>3 DEF QueueInv
  <2>2. PICK t \in 0 .. accepted : Wired(t)
    BY <1>3 DEF WiredInv, Clean
  <2>3. s = t
    BY <2>1, <2>2, TypeInvParts, CountedOnce DEF Waiting, Wired, Counted
  <2>4. s = accepted
    BY <2>1, MsgQueueAssumption DEF Waiting
  <2> QED BY <2>2, <2>3, <2>4 DEF Wired
<1> QED BY <1>1, <1>2, <1>3

(* What was read is right, and with nothing on its way it is everything.   *)
LEMMA ReadMeans ==
  TypeInv /\ QueueInv /\ WiredInv /\ HandledTyped /\ CameInv /\ AskedInv => PacketsAreRead
<1> SUFFICES ASSUME TypeInv, QueueInv, WiredInv, HandledTyped, CameInv, AskedInv, excuses = {}
             PROVE  ReadRight /\ (AllArrived => Len(handled) = accepted)
  BY DEF PacketsAreRead
<1>1. EachRight /\ \E p \in Nat : HasCome(p)
  BY DEF CameInv
<1>2. ASSUME AllArrived, Len(handled) # accepted PROVE FALSE
  <2>1. read = Len(Flat(accepted))
    BY <1>2, AllOnWire DEF AllArrived
  <2>2. PICK k \in Nat, m \in Nat : k = Len(handled) /\ m = k + 1
    BY DEF HandledTyped
  <2>3. k \in 0 .. (accepted - 1) /\ accepted \in 0 .. Len(Lengths)
    BY <1>1, <1>2, <2>2, TypeInvParts DEF EachRight, TypeInv
  <2>4. /\ m \in Messages /\ Begin \in Nat /\ Begin + ToMove(m) =< Len(Flat(accepted))
        /\ Len(Flat(accepted)) \in Nat
    BY <2>2, <2>3, FlatAt DEF Begin
  <2>5. PICK p \in Nat : read = Begin + p /\ Reads(way, rcv, m, p)
    BY <1>1, <2>2 DEF HasCome
  <2>6. p < ToMove(m) /\ ToMove(m) \in Nat
    <3>1. Upto(m, p) \in Nat /\ p < Upto(m, p) /\ Upto(m, p) =< ToMove(m) /\ ToMove(m) \in Nat
      BY <2>4, <2>5, ReadsNames
    <3> QED BY <3>1
  <2> QED BY <2>1, <2>4, <2>5, <2>6
<1> QED BY <1>1, <1>2, ReadRightMeans

(* A packet is read as it was given, with its characters in the order of   *)
(* the host, however its bytes are split among the receives of the server  *)
(* (WorkerRecvOP, WorkerPartialRecv) or of a client (ClientRecvPacket), as *)
(* long as none of the breaks came that the code does not survive; nothing *)
(* of one packet is taken for the next, and when nothing is on its way     *)
(* every packet was read.                                                  *)
THEOREM PacketsStayRight == Spec => []PacketsAreRead
<1>1. Spec => []TypeInv
  BY InitTyped, TypeInvStep, PTL DEF Spec
<1>2. Spec => []QueueInv
  BY <1>1, InitQueue, QueueStep, PTL DEF Spec
<1>3. Spec => []WiredInv
  BY <1>1, <1>2, InitWired, WiredStep, PTL DEF Spec
<1>4. Spec => []HandledTyped
  BY <1>1, InitHandled, HandledStep, PTL DEF Spec
<1>5. Spec => []CameInv
  BY <1>1, <1>4, InitCame, CameStep, PTL DEF Spec
<1>6. Spec => []AskedInv
  BY <1>1, InitAsked, AskedStep, PTL DEF Spec
<1> QED BY <1>1, <1>2, <1>3, <1>4, <1>5, <1>6, ReadMeans, PTL

=============================================================================
