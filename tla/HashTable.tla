----------------------------- MODULE HashTable -----------------------------
(* The hash table of the server (hashtable/hashtable.c) over the circular  *)
(* list of linkedlist/linkedlist.c: what each function does to the table   *)
(* and what it returns.  A key is the sequence of its characters, a list   *)
(* the sequence of its data.  Only the positions the table asks of the     *)
(* list are here: insertion at the head of an empty list and at the end,   *)
(* reading and removal at any index.                                       *)
EXTENDS Integers, Sequences, SequencesExt

CONSTANTS
  Keys,              \* every key the server uses: names and socket handles
  Hash,              \* Hash[key], the 32 bits of DefaultHashFunction
  MIN_CAPACITY,      \* 7 in the code
  MAX_PRIME_IN_RANGE,\* 65521 in the code
  NoUser             \* the NULL a lookup returns

ASSUME HashTableAssumption ==
  /\ Keys \subseteq Seq(Nat)
  /\ Hash \in [Keys -> Nat]
  /\ MIN_CAPACITY \in Nat \ {0}
  /\ MAX_PRIME_IN_RANGE \in Nat

WORD_RANGE == 2^16

SUCCESS == 0
ERR_INVALID_PARAM == 1   \* what the callers compare with EXIT_FAILURE
ERR_GENERIC == 100

----------------------------------------------------------------------------
(* The test of primality and the next capacity.                            *)

(* base ^ exponent modulo m, by squaring.                                  *)
ModularExponentiation(base, exponent, m) ==
  LET power[e \in 0 .. exponent] ==
        IF e = 0 THEN 1
        ELSE IF e % 2 = 1 THEN (power[e - 1] * base) % m
        ELSE LET half == power[e \div 2] IN (half * half) % m
  IN  power[exponent]

(* Seeded fault: w - 1, whose square is always 1, speaks against w.        *)
IsAnyRoot(x, w) == x # 1

(* If the square of x is 1, x shows that w is composite.                   *)
IsOtherRoot(x, w) == x \notin {1, w - 1}

(* One round of the loop in IsPrime: w passes for this base.  w - 1 is     *)
(* d * 2^s with d odd, and the base is raised to d, then squared s times.  *)
PassesRound(w, base) ==
  LET s == CHOOSE k \in 0 .. w : (w - 1) % 2^k = 0 /\ ((w - 1) \div 2^k) % 2 = 1
      d == (w - 1) \div 2^s
      square[i \in 0 .. s] == IF i = 0 THEN ModularExponentiation(base, d, w)
                              ELSE (square[i - 1] * square[i - 1]) % w
      rootFound == \E i \in 1 .. s : square[i] = 1 /\ IsOtherRoot(square[i - 1], w)
  IN  \/ square[0] \in {1, w - 1}
      \/ s > 0 /\ square[s] = 1 /\ ~rootFound

(* The five bases are random: w may be called prime when some base lets it *)
(* pass, and composite when some base does not.                            *)
Bases(w) == 2 .. (w - 2)
MayBePrime(w) == w \in {2, 3} \/ (w > 3 /\ \E b \in Bases(w) : PassesRound(w, b))
MayBeComposite(w) == w <= 1 \/ (w > 3 /\ \E b \in Bases(w) : ~PassesRound(w, b))

(* Every value NextPrime may return: the first odd candidate IsPrime       *)
(* accepts, and 0 if it can turn them all down.                            *)
NextPrime(w) ==
  LET start == IF w % 2 = 0 THEN w + 1 ELSE w + 2
      limit == IF start > 32767 THEN 65535 ELSE 2 * start
      candidates == {c \in start .. (limit - 1) : c % 2 = 1}
      reached(c) == \A e \in candidates : e < c => MayBeComposite(e)
  IN  CASE w <= 1 -> {2}
        [] w = 2 -> {3}
        [] OTHER -> {c \in candidates : reached(c) /\ MayBePrime(c)}
                    \cup {z \in {0} : \A c \in candidates : MayBeComposite(c)}

----------------------------------------------------------------------------
(* The list.  Indices start at 0 as in the code.                           *)

LinkedListInsert(list, data, index) ==
  IF index = 0 THEN <<data>> \o list ELSE Append(list, data)

LinkedListReturn(list, index) == list[index + 1]

LinkedListRemove(list, index) == RemoveAt(list, index + 1)

----------------------------------------------------------------------------
(* A table: slots maps every index to the list there, empty for NULL.      *)
(* NoSlots is the freed array a failed rehash leaves behind.               *)

NoSlots == <<>>

EmptySlots(capacity) == [s \in 0 .. (capacity - 1) |-> <<>>]

HashTableInit(capacity) ==
  LET c == IF MIN_CAPACITY > capacity THEN MIN_CAPACITY ELSE capacity
  IN  [capacity |-> c, size |-> 0, slots |-> EmptySlots(c)]

Slot(key, capacity) == Hash[key] % capacity

(* The first n characters of both keys are the same; the table pads its    *)
(* keys with zeros, so a shorter key differs from a longer one.            *)
CompareMemory(key1, key2, n) ==
  /\ n <= Len(key1) /\ n <= Len(key2)
  /\ \A i \in 1 .. n : key1[i] = key2[i]

(* A stored key that is the beginning of the new one is a duplicate.       *)
DuplicateDataCheck(list, key) ==
  IF \E i \in 0 .. (Len(list) - 1) :
       LET e == LinkedListReturn(list, i) IN CompareMemory(e.key, key, Len(e.key))
  THEN ERR_INVALID_PARAM ELSE SUCCESS

(* An entry whose slot already has a list is counted and not inserted.     *)
HashTableNewEntryCalc(table, entry) ==
  LET s == Slot(entry.key, table.capacity)
      counted == [table EXCEPT !.size = (@ + 1) % WORD_RANGE]
  IN  IF table.slots[s] = <<>>
      THEN [table |-> [counted EXCEPT !.slots[s] = LinkedListInsert(@, entry, 0)],
            ret |-> SUCCESS]
      ELSE IF DuplicateDataCheck(table.slots[s], entry.key) = SUCCESS
      THEN [table |-> counted, ret |-> SUCCESS]
      ELSE [table |-> table, ret |-> ERR_INVALID_PARAM]

HashTabletoList(table) ==
  FlattenSeq([i \in 1 .. table.capacity |-> table.slots[i - 1]])

(* The entries are inserted in order up to the first that is refused.      *)
HashTableListToTable(table, list) ==
  LET done[i \in 0 .. Len(list)] ==
        IF i = 0 THEN [table |-> table, ret |-> ERR_GENERIC]
        ELSE IF i > 1 /\ done[i - 1].ret # SUCCESS THEN done[i - 1]
        ELSE HashTableNewEntryCalc(done[i - 1].table, LinkedListReturn(list, i - 1))
  IN  done[Len(list)]

(* Seeded fault: a load factor of a half.                                  *)
LoadFactorHalf(table) == 2 * table.size >= table.capacity

(* size / capacity has reached LOAD_FACTOR_UPDATE, which is 1.5.           *)
LoadFactorReached(table) == 2 * table.size >= 3 * table.capacity

NeedsReHash(table) == table.capacity < MAX_PRIME_IN_RANGE /\ LoadFactorReached(table)

(* Seeded fault: the lists stay where they were.                           *)
HashTableReHashInPlace(table, prime) ==
  IF ~NeedsReHash(table) THEN table
  ELSE [table EXCEPT !.capacity = prime,
          !.slots = [s \in 0 .. (prime - 1) |->
                       IF s < table.capacity THEN table.slots[s] ELSE <<>>]]

(* prime is what NextPrime returned.                                       *)
HashTableReHash(table, prime) ==
  LET filled == HashTableListToTable(
                  [capacity |-> prime, size |-> 0, slots |-> EmptySlots(prime)],
                  HashTabletoList(table))
  IN  IF ~NeedsReHash(table) THEN table
      ELSE IF prime = 0 THEN [capacity |-> 0, size |-> 0, slots |-> NoSlots]
      ELSE IF filled.ret = ERR_INVALID_PARAM THEN [filled.table EXCEPT !.slots = NoSlots]
      ELSE filled.table

(* The table and the result code after the call; prime as above.  Without  *)
(* slots the code goes on to use a null pointer or to divide by zero:      *)
(* ERR_GENERIC stands for that end, and the table keeps the trace of it.   *)
HashTableNewEntry(table, data, key, prime) ==
  LET grown == HashTableReHash(table, prime)
  IN  IF grown.slots = NoSlots THEN [table |-> grown, ret |-> ERR_GENERIC]
      ELSE HashTableNewEntryCalc(grown, [key |-> key, data |-> data])

(* Index in its list of the first entry that begins with key, or -1.       *)
Matching(table, key) ==
  SelectInSeq(table.slots[Slot(key, table.capacity)],
              LAMBDA e : CompareMemory(e.key, key, Len(key))) - 1

HashTableReturnEntry(table, key) ==
  LET list == table.slots[Slot(key, table.capacity)]
      i == Matching(table, key)
  IN  IF i < 0 THEN NoUser ELSE LinkedListReturn(list, i).data

HashTableDestroyEntry(table, key) ==
  LET s == Slot(key, table.capacity)
      i == Matching(table, key)
  IN  IF i < 0 THEN table
      ELSE [table EXCEPT !.slots[s] = LinkedListRemove(@, i),
                         !.size = (@ - 1) % WORD_RANGE]

(* Every entry of the table, as the loops over m_ppTable meet them.        *)
Entries(table) == UNION {ToSet(table.slots[s]) : s \in DOMAIN table.slots}
StoredUsers(table) == {e.data : e \in Entries(table)}
=============================================================================
