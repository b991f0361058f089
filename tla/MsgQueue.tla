------------------------------ MODULE MsgQueue ------------------------------
(* The send queue of a user (server_application/Queue.c): a doubly linked  *)
(* list with a size of 16 bits.  A push goes to the head and a pop takes   *)
(* the tail.  A node is named by its address, and every function is an     *)
(* operator that returns the queue it leaves; nodes that were allocated    *)
(* and not freed are the domain of the queue's node field.                 *)
EXTENDS Naturals, Sequences, SequencesExt

CONSTANTS
  WORD_RANGE, \* the values of m_iSize, 2^16 in the code
  NULL

ASSUME MsgQueueAssumption ==
  /\ WORD_RANGE \in Nat \ {0, 1}
  /\ NULL \notin Nat

QueueInit == [head |-> NULL, tail |-> NULL, size |-> 0, node |-> <<>>]

(* HeapAlloc gives any address that is not in use.                         *)
FreshAddress(q) == CHOOSE a \in 1 .. (Cardinality(DOMAIN q.node) + 1) :
                     a \notin DOMAIN q.node

CreateQueueNode(nodes, n, node) ==
  [a \in DOMAIN nodes \cup {n} |-> IF a = n THEN node ELSE nodes[a]]

(* Seeded fault: the old head does not learn about the node before it.     *)
QueuePushOneWay(q, data) ==
  LET n == FreshAddress(q)
  IN  [head |-> n,
       tail |-> IF q.size = 0 THEN n ELSE q.tail,
       size |-> (q.size + 1) % WORD_RANGE,
       node |-> CreateQueueNode(q.node, n,
                 [data |-> data, prev |-> NULL,
                  next |-> IF q.size = 0 THEN NULL ELSE q.head])]

(* A queue whose size is zero is taken for an empty one.                   *)
QueuePush(q, data) ==
  LET n == FreshAddress(q)
      linked == IF q.size = 0 THEN q.node ELSE [q.node EXCEPT ![q.head].prev = n]
  IN  [head |-> n,
       tail |-> IF q.size = 0 THEN n ELSE q.tail,
       size |-> (q.size + 1) % WORD_RANGE,
       node |-> CreateQueueNode(linked, n,
                 [data |-> data, prev |-> NULL,
                  next |-> IF q.size = 0 THEN NULL ELSE q.head])]

QueuePeek(q) == q.node[q.tail].data

DestroyQueueNode(nodes, n) == [a \in DOMAIN nodes \ {n} |-> nodes[a]]

(* Pops the tail and frees its data.  Nothing happens at size zero.        *)
QueuePopRemove(q) ==
  CASE q.size = 0 -> q
    [] q.size = 1 -> [head |-> NULL, tail |-> NULL, size |-> 0,
                      node |-> DestroyQueueNode(q.node, q.head)]
    [] OTHER -> LET t == q.node[q.tail].prev
                IN  [q EXCEPT !.tail = t, !.size = @ - 1,
                              !.node = [DestroyQueueNode(@, q.tail) EXCEPT ![t].next = NULL]]

(* The nodes met from a on when links of one kind are followed.            *)
Follow(q, a, link) ==
  LET path[k \in Nat] == IF k = 0 THEN <<>>
                         ELSE LET p == path[k - 1]
                                  n == IF p = <<>> THEN a ELSE q.node[Last(p)][link]
                              IN  IF n = NULL THEN p ELSE Append(p, n)
  IN  path[Cardinality(DOMAIN q.node)]

(* Frees as many nodes as the size says, from the head on.                 *)
QueueDestroy(q) ==
  LET freed == ToSet(SubSeq(Follow(q, q.head, "next"), 1, q.size))
  IN  [QueueInit EXCEPT !.node = [a \in DOMAIN q.node \ freed |-> q.node[a]]]

(* The data from the next to be popped to the last one pushed.             *)
QueueData(q) ==
  LET path == Follow(q, q.tail, "prev")
  IN  [k \in 1 .. Len(path) |-> q.node[path[k]].data]

(* The links of both kinds agree, every node allocated is on the list, and *)
(* the size counts them.                                                   *)
WellLinked(q) ==
  LET path == Follow(q, q.head, "next")
  IN  /\ Follow(q, q.tail, "prev") = Reverse(path)
      /\ ToSet(path) = DOMAIN q.node
      /\ q.size = Len(path)
=============================================================================
