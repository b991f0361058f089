------------------------- MODULE UserTablesProofs --------------------------
(* Proofs about UserTables, and about the hash table under it.  First what *)
(* each function of the table does to a table that is in order, for every  *)
(* hash function and capacity; then the invariants of the server's two     *)
(* tables and of the users in them.                                        *)
EXTENDS UserTables, SequenceTheorems, FiniteSetTheorems, TLAPS

----------------------------------------------------------------------------
(* Induction, for the two loops of a rehash.                               *)

(* A set of naturals that is not empty has a least element.                *)
LEMMA LeastElement ==
  ASSUME NEW S \in SUBSET Nat, S # {}
  PROVE  \E m \in S : \A n \in S : m =< n
<1> DEFINE R == {ss \in Nat \X Nat : ss[1] < ss[2]}
<1>1. R = OpToRel(<, Nat)
  BY DEF OpToRel
<1>2. IsWellFoundedOn(R, Nat)
  BY <1>1, NatLessThanWellFounded
<1>3. \E m \in S : \A n \in S : ~(<<n, m>> \in R)
  <2> HIDE DEF R
  <2> QED BY <1>2, WFMin
<1>4. PICK m \in S : \A n \in S : ~(<<n, m>> \in R)
  BY <1>3
<1>5. ASSUME NEW n \in S PROVE m =< n
  <2>1. m \in Nat /\ n \in Nat
    OBVIOUS
  <2>2. n < m => <<n, m>> \in R
    BY <2>1
  <2> QED BY <1>4, <1>5, <2>1, <2>2
<1> QED BY <1>5

(* A set with 0 and the successor of each of its members has every natural *)
(* number.                                                                 *)
LEMMA InductionOnNat ==
  ASSUME NEW S \in SUBSET Nat, 0 \in S, \A n \in S : n + 1 \in S
  PROVE  S = Nat
<1> SUFFICES ASSUME Nat \ S # {} PROVE FALSE
  OBVIOUS
<1>1. PICK m \in Nat \ S : \A n \in Nat \ S : m =< n
  BY LeastElement
<1>2. m # 0 /\ m - 1 \in Nat
  BY <1>1
<1>3. m - 1 \in S
  BY <1>1, <1>2
<1> QED BY <1>1, <1>2, <1>3

(* The concatenation of lists over S is made by joining one after another. *)
Joins(f, c, seqs, S) ==
  \A i \in 1 .. c : /\ f[i] \in Seq(S)
                    /\ f[i] = IF i = 1 THEN seqs[i] ELSE f[i - 1] \o seqs[i]

(* FlattenSeq makes its joins in that order.                               *)
LEMMA FlattenSteps ==
  ASSUME NEW S, NEW c \in Nat \ {0}, NEW seqs \in [1 .. c -> Seq(S)]
  PROVE  \E f : Joins(f, c, seqs, S) /\ FlattenSeq(seqs) = f[c]
<1> DEFINE Lists == Seq(S)
           Body(f, k) == [i \in 1 .. k |-> IF i = 1 THEN seqs[i] ELSE f[i - 1] \o seqs[i]]
           Defined == {k \in Nat : \E f : f = Body(f, k)}
           flat == CHOOSE f : f = Body(f, Len(seqs))
           Typed == {k \in Nat : k + 1 \in 1 .. c => flat[k + 1] \in Lists}
<1>1. seqs \in Seq(Lists) /\ Len(seqs) = c
  <2> HIDE DEF Lists
  <2> QED BY DEF Lists
<1>2. 0 \in Defined
  <2>1. <<>> = Body(<<>>, 0)
    OBVIOUS
  <2> QED BY <2>1
<1>3. ASSUME NEW k \in Defined PROVE k + 1 \in Defined
  <2>1. PICK f : f = Body(f, k)
    OBVIOUS
  <2> DEFINE g == [i \in 1 .. (k + 1) |->
                     IF i = k + 1 THEN IF i = 1 THEN seqs[i] ELSE f[i - 1] \o seqs[i]
                     ELSE f[i]]
  <2>2. ASSUME NEW i \in 1 .. (k + 1) 
        PROVE g[i] = IF i = 1 THEN seqs[i] ELSE g[i - 1] \o seqs[i]
    <3>1. k \in Nat /\ i \in Nat
      OBVIOUS
    <3>2. CASE i = k + 1
      <4>1. i # 1 => i - 1 \in 1 .. (k + 1) /\ i - 1 # k + 1
        BY <3>1, <3>2
      <4>2. i # 1 => g[i - 1] = f[i - 1]
        BY <4>1
      <4> QED BY <3>2, <4>2
    <3>3. CASE i # k + 1
      <4>1. i \in 1 .. k
        BY <3>1, <3>3
      <4>2. g[i] = f[i]
        BY <3>3
      <4>3. i # 1 => i - 1 \in 1 .. (k + 1) /\ i - 1 # k + 1
        BY <3>1, <3>3
      <4>4. i # 1 => g[i - 1] = f[i - 1]
        BY <4>3
      <4>5. f[i] = IF i = 1 THEN seqs[i] ELSE f[i - 1] \o seqs[i]
        BY <2>1, <4>1, Zenon
      <4> QED BY <4>2, <4>4, <4>5, Zenon
    <3> QED BY <3>2, <3>3
  <2>3. g = Body(g, k + 1)
    <3> HIDE DEF g
    <3>1. g = [i \in 1 .. (k + 1) |-> g[i]]
      BY DEF g
    <3> QED BY <2>2, <3>1
  <2> HIDE DEF g
  <2>4. \E h : h = Body(h, k + 1)
    BY <2>3
  <2>5. k + 1 \in Nat
    OBVIOUS
  <2> QED BY <2>4, <2>5
<1>4. flat = Body(flat, Len(seqs))
  <2>1. Defined = Nat
    <3> HIDE DEF Defined
    <3>1. Defined \in SUBSET Nat
      BY DEF Defined
    <3> QED BY <1>2, <1>3, <3>1, InductionOnNat
  <2>2. \E f : f = Body(f, Len(seqs))
    BY <1>1, <2>1
  <2> QED BY <2>2
<1>5. FlattenSeq(seqs) = flat[c]
  BY <1>1 DEF FlattenSeq
<1>6. Typed = Nat
  <2> HIDE DEF flat
  <2> HIDE DEF Lists
  <2>1. 0 \in Typed
    BY <1>1, <1>4
  <2>2. ASSUME NEW k \in Typed PROVE k + 1 \in Typed
    <3> SUFFICES ASSUME k + 2 \in 1 .. c PROVE flat[k + 2] \in Lists
      OBVIOUS
    <3>1. k + 1 \in 1 .. c /\ k + 2 # 1 /\ (k + 2) - 1 = k + 1
      OBVIOUS
    <3>2. flat[k + 2] = flat[k + 1] \o seqs[k + 2]
      BY <1>1, <1>4, <3>1
    <3>3. flat[k + 1] \in Lists /\ seqs[k + 2] \in Lists
      BY <3>1 DEF Lists
    <3> QED BY <3>2, <3>3, ConcatProperties DEF Lists
  <2> HIDE DEF Typed
  <2>3. Typed \in SUBSET Nat
    BY DEF Typed
  <2> QED BY <2>1, <2>2, <2>3, InductionOnNat
<1>7. ASSUME NEW i \in 1 .. c
      PROVE  flat[i] \in Seq(S) /\ flat[i] = IF i = 1 THEN seqs[i] ELSE flat[i - 1] \o seqs[i]
  <2> HIDE DEF flat
  <2>1. i - 1 \in Nat /\ (i - 1) + 1 = i
    OBVIOUS
  <2>2. i - 1 \in Typed
    BY <1>6, <2>1
  <2>3. flat[i] \in Lists
    BY <2>1, <2>2
  <2>4. i \in 1 .. Len(seqs)
    BY <1>1
  <2>5. flat[i] = IF i = 1 THEN seqs[i] ELSE flat[i - 1] \o seqs[i]
    <3> HIDE DEF Lists
    <3> QED BY <1>4, <2>4, Zenon
  <2> QED BY <2>3, <2>5
<1> HIDE DEF flat
<1>8. Joins(flat, c, seqs, S)
  BY <1>7 DEF Joins
<1> QED BY <1>5, <1>8

(* So it is a list over S.                                                 *)
LEMMA FlattenType ==
  ASSUME NEW S, NEW c \in Nat \ {0}, NEW seqs \in [1 .. c -> Seq(S)]
  PROVE  FlattenSeq(seqs) \in Seq(S)
<1>1. PICK f : Joins(f, c, seqs, S) /\ FlattenSeq(seqs) = f[c]
  BY FlattenSteps
<1>2. c \in 1 .. c
  OBVIOUS
<1> QED BY <1>1, <1>2 DEF Joins

----------------------------------------------------------------------------
(* Tables in order.                                                        *)

(* The list of a slot: LinkedListInsert is only asked of an empty list.    *)
OneOf(E) == {<<>>} \cup {<<e>> : e \in E}

(* A table with entries of E has a slot for every index, at most one entry *)
(* in each, and every entry in the slot of its key.                        *)
WellFormed(table, E) ==
  \E c \in Nat \ {0}, n \in 0 .. (WORD_RANGE - 1) :
    \E f \in [0 .. (c - 1) -> OneOf(E)] :
      /\ table = [capacity |-> c, size |-> n, slots |-> f]
      /\ \A s \in 0 .. (c - 1), e \in E : f[s] = <<e>> => Slot(e.key, c) = s

(* The width of m_wSize.                                                   *)
LEMMA WordRange == WORD_RANGE \in Nat \ {0} /\ 0 \in 0 .. (WORD_RANGE - 1)
<1>1. 2^16 = 65536
  OBVIOUS
<1>2. WORD_RANGE = 65536
  BY <1>1 DEF WORD_RANGE
<1>3. WORD_RANGE \in Nat \ {0}
  BY <1>2
<1> QED BY <1>3

(* What a count of that width becomes when one is added or taken away.     *)
LEMMA WordCount ==
  ASSUME NEW n \in 0 .. (WORD_RANGE - 1)
  PROVE  /\ n \in Nat
         /\ (n + 1) % WORD_RANGE \in 0 .. (WORD_RANGE - 1)
         /\ (n - 1) % WORD_RANGE \in 0 .. (WORD_RANGE - 1)
         /\ n + 1 < WORD_RANGE => (n + 1) % WORD_RANGE = n + 1
         /\ n > 0 => (n - 1) % WORD_RANGE = n - 1
<1>1. WORD_RANGE \in Nat \ {0} /\ n \in Nat /\ 0 =< n /\ n < WORD_RANGE
  BY WordRange
<1>2. \A w \in Nat \ {0} : \A i \in Int : i % w \in 0 .. (w - 1)
  OBVIOUS
<1>3. \A w \in Nat \ {0} : \A i \in Int : 0 =< i /\ i < w => i % w = i
  OBVIOUS
<1>4. n + 1 \in Int /\ n - 1 \in Int /\ 0 =< n + 1 /\ (n > 0 => 0 =< n - 1) /\ n - 1 < WORD_RANGE
  BY <1>1
<1> QED BY <1>1, <1>2, <1>3, <1>4, Zenon

(* A key has a slot in every table.                                        *)
LEMMA SlotInRange ==
  ASSUME NEW key \in Keys, NEW c \in Nat \ {0}
  PROVE  Slot(key, c) \in 0 .. (c - 1)
<1>1. Hash[key] \in Nat
  BY HashTableAssumption
<1>2. \A h \in Nat, d \in Nat \ {0} : h % d \in 0 .. (d - 1)
  OBVIOUS
<1> QED BY <1>1, <1>2, Zenon DEF Slot

(* What it is to be in order, field by field.                              *)
LEMMA WellFormedFields ==
  ASSUME NEW table, NEW E, WellFormed(table, E)
  PROVE  /\ table.capacity \in Nat \ {0}
         /\ table.size \in 0 .. (WORD_RANGE - 1)
         /\ table.slots \in [0 .. (table.capacity - 1) -> OneOf(E)]
         /\ table = [capacity |-> table.capacity, size |-> table.size, slots |-> table.slots]
         /\ \A s \in 0 .. (table.capacity - 1), e \in E :
              table.slots[s] = <<e>> => Slot(e.key, table.capacity) = s
         /\ table.slots # NoSlots
<1>1. PICK c \in Nat \ {0}, n \in 0 .. (WORD_RANGE - 1) :
        \E f \in [0 .. (c - 1) -> OneOf(E)] :
          /\ table = [capacity |-> c, size |-> n, slots |-> f]
          /\ \A s \in 0 .. (c - 1), e \in E : f[s] = <<e>> => Slot(e.key, c) = s
  BY Zenon DEF WellFormed
<1>2. PICK f \in [0 .. (c - 1) -> OneOf(E)] :
          /\ table = [capacity |-> c, size |-> n, slots |-> f]
          /\ \A s \in 0 .. (c - 1), e \in E : f[s] = <<e>> => Slot(e.key, c) = s
  BY <1>1, Zenon
<1>3. table.capacity = c /\ table.size = n /\ table.slots = f
  BY <1>2
<1>4. f # NoSlots
  <2>1. DOMAIN f = 0 .. (c - 1)
    OBVIOUS
  <2>2. 0 \in DOMAIN f
    BY <2>1
  <2>3. 0 \notin DOMAIN NoSlots
    BY DEF NoSlots
  <2> QED BY <2>2, <2>3
<1> QED BY <1>1, <1>2, <1>3, <1>4, Zenon

(* The entries of a table in order are the members of E in its slots.      *)
LEMMA EntriesInSlots ==
  ASSUME NEW table, NEW E, WellFormed(table, E)
  PROVE  /\ Entries(table) \subseteq E
         /\ \A e \in E : e \in Entries(table) <=>
              \E s \in 0 .. (table.capacity - 1) : table.slots[s] = <<e>>
<1> DEFINE f == table.slots
           D == 0 .. (table.capacity - 1)
<1>1. f \in [D -> OneOf(E)]
  BY WellFormedFields, Zenon
<1> HIDE DEF f, D
<1>2. Entries(table) = UNION {ToSet(f[s]) : s \in D}
  <2>1. DOMAIN f = D
    BY <1>1
  <2> QED BY <2>1 DEF Entries, f
<1>3. ToSet(<<>>) = {} /\ \A e \in E : ToSet(<<e>>) = {e}
  BY DEF ToSet
<1>4. ASSUME NEW s \in D, NEW e \in ToSet(f[s])
      PROVE  e \in E /\ f[s] = <<e>>
  <2>1. f[s] = <<>> \/ \E d \in E : f[s] = <<d>>
    BY <1>1 DEF OneOf
  <2> QED BY <1>3, <2>1
<1>5. ASSUME NEW e \in E, NEW s \in D, f[s] = <<e>>
      PROVE  e \in Entries(table)
  <2>1. e \in ToSet(f[s])
    BY <1>3, <1>5
  <2> QED BY <1>2, <2>1
<1>6. ASSUME NEW e \in Entries(table)
      PROVE  e \in E /\ \E s \in D : f[s] = <<e>>
  <2>1. PICK s \in D : e \in ToSet(f[s])
    BY <1>2
  <2> QED BY <1>4, <2>1
<1>7. /\ Entries(table) \subseteq E
      /\ \A e \in E : e \in Entries(table) <=> \E s \in D : f[s] = <<e>>
  BY <1>5, <1>6
<1> QED BY <1>7, Zenon DEF f, D

(* A table is in order for its own entries as well.                        *)
LEMMA WellFormedForEntries ==
  ASSUME NEW table, NEW E, WellFormed(table, E)
  PROVE  WellFormed(table, Entries(table))
<1> DEFINE c == table.capacity
           f == table.slots
           D == 0 .. (c - 1)
           S == Entries(table)
<1>1. /\ c \in Nat \ {0} /\ table.size \in 0 .. (WORD_RANGE - 1)
      /\ f \in [D -> OneOf(E)]
      /\ table = [capacity |-> c, size |-> table.size, slots |-> f]
      /\ \A s \in D, e \in E : f[s] = <<e>> => Slot(e.key, c) = s
  BY WellFormedFields, Zenon
<1>2. S \subseteq E /\ \A e \in E : e \in S <=> \E s \in D : f[s] = <<e>>
  BY EntriesInSlots, Zenon
<1> HIDE DEF f, D, S
<1>3. f \in [D -> OneOf(S)]
  <2>1. \A s \in D : f[s] \in OneOf(S)
    <3>1. \A s \in D : f[s] = <<>> \/ \E e \in E : f[s] = <<e>>
      BY <1>1 DEF OneOf
    <3> QED BY <1>2, <3>1 DEF OneOf
  <2>2. f = [s \in D |-> f[s]]
    BY <1>1
  <2> QED BY <2>1, <2>2
<1>4. \A s \in D, e \in S : f[s] = <<e>> => Slot(e.key, c) = s
  BY <1>1, <1>2
<1>5. \E n \in 0 .. (WORD_RANGE - 1), g \in [0 .. (c - 1) -> OneOf(S)] :
        /\ table = [capacity |-> c, size |-> n, slots |-> g]
        /\ \A s \in 0 .. (c - 1), e \in S : g[s] = <<e>> => Slot(e.key, c) = s
  BY <1>1, <1>3, <1>4, Zenon DEF D
<1> HIDE DEF c
<1> QED BY <1>1, <1>5, Zenon DEF WellFormed, S

(* A new table is in order, has room for every client and no entries.      *)
LEMMA InitWellFormed ==
  ASSUME NEW E, NEW capacity \in Nat
  PROVE  LET table == HashTableInit(capacity) IN
         /\ WellFormed(table, E)
         /\ table.size = 0 /\ table.capacity >= capacity
         /\ Entries(table) = {}
<1> DEFINE table == HashTableInit(capacity)
           c == IF MIN_CAPACITY > capacity THEN MIN_CAPACITY ELSE capacity
<1>1. c \in Nat \ {0} /\ c >= capacity
  BY HashTableAssumption
<1>2. table = [capacity |-> c, size |-> 0, slots |-> EmptySlots(c)]
  BY DEF HashTableInit
<1> HIDE DEF c, table
<1>3. EmptySlots(c) \in [0 .. (c - 1) -> OneOf(E)]
  BY DEF EmptySlots, OneOf
<1>4. \A s \in 0 .. (c - 1), e \in E : EmptySlots(c)[s] # <<e>>
  BY DEF EmptySlots
<1>5. 0 \in 0 .. (WORD_RANGE - 1)
  BY WordRange
<1>6. WellFormed(table, E)
  BY <1>1, <1>2, <1>3, <1>4, <1>5, Zenon DEF WellFormed
<1>7. table.capacity = c /\ table.size = 0 /\ table.slots = EmptySlots(c)
  BY <1>2
<1>8. Entries(table) = {}
  BY <1>4, <1>6, <1>7, EntriesInSlots
<1> QED BY <1>1, <1>6, <1>7, <1>8 DEF table
(* What HashTableNewEntryCalc does: it keeps the table in order and what   *)
(* is in it, counts the entry unless it is refused, and puts in no other.  *)
LEMMA NewEntryCalc ==
  ASSUME NEW table, NEW E, WellFormed(table, E), NEW entry \in E, entry.key \in Keys
  PROVE  LET r == HashTableNewEntryCalc(table, entry) IN
         /\ WellFormed(r.table, E)
         /\ r.table.capacity = table.capacity
         /\ Entries(r.table) \subseteq Entries(table) \cup {entry}
         /\ r.ret # SUCCESS => r.table = table
         /\ r.ret = SUCCESS => r.table.size = (table.size + 1) % WORD_RANGE
<1> DEFINE c == table.capacity
           f == table.slots
           n == (table.size + 1) % WORD_RANGE
           s == Slot(entry.key, c)
           r == HashTableNewEntryCalc(table, entry)
           D == 0 .. (c - 1)
           Lists == OneOf(E)
           Placed(g) == \A i \in D, e \in E : g[i] = <<e>> => Slot(e.key, c) = i
           Table(m, g) == [capacity |-> c, size |-> m, slots |-> g]
<1>1. /\ c \in Nat \ {0} /\ table.size \in 0 .. (WORD_RANGE - 1)
      /\ f \in [D -> Lists] /\ Placed(f) /\ table = Table(table.size, f)
  BY WellFormedFields, Zenon
<1>2. s \in D
  BY <1>1, SlotInRange
<1>3. n \in 0 .. (WORD_RANGE - 1)
  BY <1>1, WordCount, Zenon
<1>4. <<>> \in Lists /\ <<entry>> \in Lists
  BY DEF OneOf
<1>5. SUCCESS # ERR_INVALID_PARAM
  BY DEF SUCCESS, ERR_INVALID_PARAM
<1>6. ASSUME NEW m \in 0 .. (WORD_RANGE - 1), NEW g \in [D -> Lists], Placed(g)
      PROVE  WellFormed(Table(m, g), E)
  <2> HIDE DEF c
  <2> QED BY <1>1, <1>6, Zenon DEF WellFormed
<1>7. CASE f[s] = <<>>
  <2> DEFINE g == [f EXCEPT ![s] = <<entry>>]
  <2>1. LinkedListInsert(f[s], entry, 0) = <<entry>>
    BY <1>7 DEF LinkedListInsert
  <2>2. r = [table |-> Table(n, g), ret |-> SUCCESS]
    <3> HIDE DEF n
    <3>1. [table EXCEPT !.size = n] = Table(n, f)
      BY <1>1
    <3>2. [Table(n, f) EXCEPT !.slots[s] = LinkedListInsert(@, entry, 0)] = Table(n, g)
      BY <1>1, <2>1
    <3> QED BY <1>7, <3>1, <3>2 DEF HashTableNewEntryCalc, n
  <2> HIDE DEF n, s, f, D, Lists
  <2>3. g \in [D -> Lists] /\ g[s] = <<entry>> /\ \A i \in D : i # s => g[i] = f[i]
    BY <1>1, <1>2, <1>4
  <2> HIDE DEF g
  <2>4. Placed(g)
    BY <1>1, <2>3 DEF s
  <2>5. WellFormed(Table(n, g), E)
    BY <1>3, <1>6, <2>3, <2>4
  <2>6. Entries(Table(n, g)) \subseteq Entries(table) \cup {entry}
    <3>1. Table(n, g).capacity = c /\ Table(n, g).slots = g
      OBVIOUS
    <3>2. /\ Entries(Table(n, g)) \subseteq E
          /\ \A e \in E : e \in Entries(Table(n, g)) <=> \E i \in D : g[i] = <<e>>
      BY <2>5, <3>1, EntriesInSlots, Zenon DEF D
    <3>3. \A e \in E : (\E i \in D : f[i] = <<e>>) => e \in Entries(table)
      BY EntriesInSlots, Zenon DEF D, f
    <3>4. ASSUME NEW e \in E, NEW i \in D, g[i] = <<e>>
          PROVE  e = entry \/ f[i] = <<e>>
      BY <2>3, <3>4
    <3> QED BY <3>2, <3>3, <3>4
  <2>7. r.table = Table(n, g) /\ r.ret = SUCCESS
    BY <2>2
  <2> HIDE DEF r
  <2> QED BY <2>5, <2>6, <2>7 DEF n, r
<1>8. CASE f[s] # <<>> /\ DuplicateDataCheck(f[s], entry.key) = SUCCESS
  <2>1. r = [table |-> Table(n, f), ret |-> SUCCESS]
    <3> HIDE DEF n
    <3>1. [table EXCEPT !.size = n] = Table(n, f)
      BY <1>1
    <3> QED BY <1>8, <3>1 DEF HashTableNewEntryCalc, n
  <2>2. r.table = Table(n, f) /\ r.ret = SUCCESS
    BY <2>1
  <2>3. WellFormed(r.table, E)
    BY <1>1, <1>3, <1>6, <2>2, Zenon
  <2>4. r.table.capacity = c /\ r.table.size = n /\ r.table.slots = f
    BY <2>2
  <2>5. Entries(r.table) = Entries(table)
    BY <2>4, Zenon DEF Entries, f
  <2> QED BY <2>2, <2>3, <2>4, <2>5, Zenon
<1>9. CASE f[s] # <<>> /\ DuplicateDataCheck(f[s], entry.key) # SUCCESS
  <2>1. r = [table |-> table, ret |-> ERR_INVALID_PARAM]
    BY <1>9 DEF HashTableNewEntryCalc
  <2>2. r.table = table /\ r.ret = ERR_INVALID_PARAM
    BY <2>1
  <2> QED BY <1>5, <2>2, Zenon
<1> QED BY <1>7, <1>8, <1>9, Zenon

(* When list i has entries of place i only, and no more than one, the      *)
(* entries of the concatenation come in the order of their places.         *)
LEMMA FlattenInOrder ==
  ASSUME NEW S, NEW c \in Nat \ {0}, NEW place \in [S -> Nat], NEW seqs \in [1 .. c -> OneOf(S)],
         \A i \in 1 .. c, e \in S : seqs[i] = <<e>> => place[e] = i
  PROVE  \A j, l \in 1 .. Len(FlattenSeq(seqs)) :
           j < l => place[FlattenSeq(seqs)[j]] < place[FlattenSeq(seqs)[l]]
<1> DEFINE Lists == Seq(S)
           Ordered(g, n) == /\ \A j \in 1 .. Len(g) : place[g[j]] \in Nat /\ place[g[j]] =< n
                            /\ \A j, l \in 1 .. Len(g) : j < l => place[g[j]] < place[g[l]]
<1>1. \A i \in 1 .. c : seqs[i] = <<>> \/ \E e \in S : seqs[i] = <<e>>
  BY DEF OneOf
<1>2. seqs \in [1 .. c -> Lists]
  <2>1. <<>> \in Lists /\ \A e \in S : <<e>> \in Lists
    OBVIOUS
  <2> HIDE DEF Lists
  <2>2. ASSUME NEW i \in 1 .. c PROVE seqs[i] \in Lists
    <3>1. CASE seqs[i] = <<>>
      BY <2>1, <3>1
    <3>2. CASE \E e \in S : seqs[i] = <<e>>
      BY <2>1, <3>2
    <3> QED BY <1>1, <3>1, <3>2
  <2>3. seqs = [i \in 1 .. c |-> seqs[i]]
    OBVIOUS
  <2> QED BY <2>2, <2>3
<1>3. PICK f : Joins(f, c, seqs, S) /\ FlattenSeq(seqs) = f[c]
  BY <1>2, FlattenSteps
<1>4. \A i \in 1 .. c : f[i] \in Lists /\ f[i] = IF i = 1 THEN seqs[i] ELSE f[i - 1] \o seqs[i]
  BY <1>3, Zenon DEF Joins
<1>5. ASSUME NEW i \in 1 .. c PROVE Ordered(seqs[i], i)
  <2>1. CASE seqs[i] = <<>>
    BY <2>1
  <2>2. CASE \E e \in S : seqs[i] = <<e>>
    <3>1. PICK e \in S : seqs[i] = <<e>>
      BY <2>2
    <3>2. Len(<<e>>) = 1 /\ <<e>>[1] = e /\ place[e] = i
      BY <3>1
    <3>3. \A j \in 1 .. 1 : j = 1
      OBVIOUS
    <3> QED BY <3>1, <3>2, <3>3
  <2> QED BY <1>1, <2>1, <2>2
<1>6. ASSUME NEW i \in 1 .. c, i # 1, Ordered(f[i - 1], i - 1) PROVE Ordered(f[i], i)
  <2>1. i - 1 \in 1 .. c /\ i \in Nat
    BY <1>6
  <2>2. PICK g \in Lists : g = f[i - 1] /\ f[i] = g \o seqs[i]
    BY <1>4, <1>6, <2>1
  <2>3. Ordered(g, i - 1) /\ g \in Seq(S) /\ Len(g) \in Nat
    BY <1>6, <2>2
  <2>4. CASE seqs[i] = <<>>
    <3>1. f[i] = g
      BY <2>2, <2>3, <2>4
    <3> QED BY <2>1, <2>3, <3>1
  <2>5. CASE \E e \in S : seqs[i] = <<e>>
    <3>1. PICK e \in S : seqs[i] = <<e>>
      BY <2>5
    <3>2. place[e] = i
      BY <3>1
    <3>3. PICK h : h = f[i]
      OBVIOUS
    <3>4. h = g \o <<e>>
      BY <2>2, <3>1, <3>3
    <3>5. /\ Len(h) = Len(g) + 1 /\ h[Len(g) + 1] = e
          /\ \A j \in 1 .. Len(g) : h[j] = g[j]
      BY <2>3, <3>4
    <3>6. ASSUME NEW j \in 1 .. Len(h) PROVE j = Len(g) + 1 \/ (j \in 1 .. Len(g) /\ h[j] = g[j])
      BY <2>3, <3>5
    <3>7. ASSUME NEW j \in 1 .. Len(h) PROVE place[h[j]] \in Nat /\ place[h[j]] =< i
      <4>1. CASE j = Len(g) + 1
        BY <2>1, <3>2, <3>5, <4>1
      <4>2. CASE j \in 1 .. Len(g) /\ h[j] = g[j]
        <5>1. place[g[j]] \in Nat /\ place[g[j]] =< i - 1
          BY <2>3, <4>2
        <5> QED BY <2>1, <4>2, <5>1
      <4> QED BY <3>6, <4>1, <4>2
    <3>8. ASSUME NEW j \in 1 .. Len(h), NEW l \in 1 .. Len(h), j < l PROVE place[h[j]] < place[h[l]]
      <4>1. j \in 1 .. Len(g) /\ h[j] = g[j]
        BY <2>3, <3>5, <3>8
      <4>2. CASE l = Len(g) + 1
        BY <2>1, <2>3, <3>2, <3>5, <4>1, <4>2
      <4>3. CASE l \in 1 .. Len(g) /\ h[l] = g[l]
        BY <2>3, <3>8, <4>1, <4>3
      <4> QED BY <3>6, <4>2, <4>3
    <3>9. Ordered(h, i)
      BY <3>7, <3>8
    <3> HIDE DEF Ordered
    <3> QED BY <3>3, <3>9
  <2> QED BY <1>1, <2>4, <2>5
<1> HIDE DEF Lists, Ordered
<1> DEFINE Good == {k \in Nat : k + 1 \in 1 .. c => Ordered(f[k + 1], k + 1)}
<1>7. 0 \in Good
  <2> SUFFICES ASSUME 1 \in 1 .. c PROVE Ordered(f[1], 1)
    OBVIOUS
  <2> QED BY <1>4, <1>5
<1>8. ASSUME NEW k \in Good PROVE k + 1 \in Good
  <2>1. k \in Nat /\ (k + 1 \in 1 .. c => Ordered(f[k + 1], k + 1))
    OBVIOUS
  <2> SUFFICES ASSUME (k + 1) + 1 \in 1 .. c PROVE Ordered(f[(k + 1) + 1], (k + 1) + 1)
    BY <2>1
  <2> HIDE DEF Good
  <2>2. PICK i \in 1 .. c : i = (k + 1) + 1
    OBVIOUS
  <2>3. i # 1 /\ i - 1 = k + 1 /\ i - 1 \in 1 .. c
    BY <2>1, <2>2
  <2>4. Ordered(f[i], i)
    BY <1>6, <2>1, <2>3
  <2> QED BY <2>2, <2>4
<1>9. Good = Nat
  <2> HIDE DEF Good
  <2>1. Good \in SUBSET Nat
    BY DEF Good
  <2> QED BY <1>7, <1>8, <2>1, InductionOnNat
<1>10. Ordered(f[c], c)
  <2>1. c - 1 \in Nat /\ (c - 1) + 1 = c /\ c \in 1 .. c
    OBVIOUS
  <2>2. c - 1 \in Good
    BY <1>9, <2>1
  <2> QED BY <2>1, <2>2
<1> QED BY <1>3, <1>10 DEF Ordered

(* The list of a table has entries of the table only.                      *)
LEMMA ListOfTable ==
  ASSUME NEW table, NEW E, WellFormed(table, E)
  PROVE  HashTabletoList(table) \in Seq(E)
<1> DEFINE c == table.capacity
           f == table.slots
           lists == [i \in 1 .. c |-> f[i - 1]]
           Lists == Seq(E)
<1>1. c \in Nat \ {0} /\ f \in [0 .. (c - 1) -> OneOf(E)]
  BY WellFormedFields, Zenon
<1>2. ASSUME NEW list \in OneOf(E) PROVE list \in Lists
  <2>1. list = <<>> \/ \E e \in E : list = <<e>>
    BY DEF OneOf
  <2>2. <<>> \in Lists
    OBVIOUS
  <2>3. \A e \in E : <<e>> \in Lists
    OBVIOUS
  <2> QED BY <2>1, <2>2, <2>3, Zenon
<1> HIDE DEF c, f, Lists
<1>3. \A i \in 1 .. c : f[i - 1] \in Lists
  <2>1. \A i \in 1 .. c : i - 1 \in 0 .. (c - 1)
    BY <1>1
  <2> QED BY <1>1, <1>2, <2>1, Zenon
<1>4. lists \in [1 .. c -> Lists]
  BY <1>3
<1> HIDE DEF lists
<1>5. FlattenSeq(lists) \in Seq(E)
  BY <1>1, <1>4, FlattenType, Zenon DEF Lists
<1> QED BY <1>5, Zenon DEF HashTabletoList, lists, c, f

(* A list is inserted entry by entry, up to the first that is refused.     *)
Inserts(f, table, list) ==
  /\ f[0] = [table |-> table, ret |-> ERR_GENERIC]
  /\ \A i \in 1 .. Len(list) :
       f[i] = IF i > 1 /\ f[i - 1].ret # SUCCESS THEN f[i - 1]
              ELSE HashTableNewEntryCalc(f[i - 1].table, list[i])

(* HashTableListToTable does so.                                           *)
LEMMA InsertSteps ==
  ASSUME NEW table, NEW E, NEW list \in Seq(E)
  PROVE  \E f : Inserts(f, table, list) /\ HashTableListToTable(table, list) = f[Len(list)]
<1> DEFINE len == Len(list)
           Start == [table |-> table, ret |-> ERR_GENERIC]
           Insert(r, i) == IF i > 1 /\ r.ret # SUCCESS THEN r
                           ELSE HashTableNewEntryCalc(r.table, LinkedListReturn(list, i - 1))
           Body(f, k) == [i \in 0 .. k |-> IF i = 0 THEN Start
                            ELSE IF i > 1 /\ f[i - 1].ret # SUCCESS THEN f[i - 1]
                            ELSE HashTableNewEntryCalc(f[i - 1].table,
                                                       LinkedListReturn(list, i - 1))]
           Defined == {k \in Nat : \E f : f = Body(f, k)}
           done == CHOOSE f : f = Body(f, len)
<1> HIDE DEF Start
<1>1. len \in Nat /\ \A i \in 1 .. len : list[i] \in E
  OBVIOUS
<1>2. 0 \in Defined
  <2> DEFINE f == [i \in 0 .. 0 |-> Start]
  <2>1. ASSUME NEW i \in 0 .. 0
        PROVE  Start = IF i = 0 THEN Start
                            ELSE IF i > 1 /\ f[i - 1].ret # SUCCESS THEN f[i - 1]
                            ELSE HashTableNewEntryCalc(f[i - 1].table,
                                                       LinkedListReturn(list, i - 1))
    BY i = 0
  <2>2. f = Body(f, 0)
    BY <2>1
  <2> HIDE DEF f
  <2>3. \E h : h = Body(h, 0)
    BY <2>2
  <2> QED BY <2>3
<1>3. ASSUME NEW k \in Defined PROVE k + 1 \in Defined
  <2>1. k \in Nat /\ k + 1 \in Nat
    OBVIOUS
  <2>2. PICK f : f = Body(f, k)
    OBVIOUS
  <2> DEFINE g == [i \in 0 .. (k + 1) |-> IF i = k + 1 THEN Insert(f[k], k + 1) ELSE f[i]]
  <2> HIDE DEF Insert
  <2>3. ASSUME NEW i \in 0 .. (k + 1)
        PROVE  g[i] = IF i = 0 THEN Start ELSE Insert(g[i - 1], i)
    <3>1. i # 0 => i - 1 \in 0 .. (k + 1) /\ i - 1 # k + 1
      BY <2>1
    <3>2. CASE i = k + 1
      <4>1. i # 0 /\ i - 1 = k
        BY <2>1, <3>2
      <4>2. g[i - 1] = f[k] /\ g[i] = Insert(f[k], k + 1)
        BY <3>1, <3>2, <4>1
      <4> QED BY <3>2, <4>1, <4>2
    <3>3. CASE i # k + 1
      <4>1. i \in 0 .. k
        BY <2>1, <3>3
      <4>2. g[i] = f[i]
        BY <3>3
      <4>3. i # 0 => g[i - 1] = f[i - 1]
        BY <3>1
      <4>4. f[i] = IF i = 0 THEN Start ELSE Insert(f[i - 1], i)
        BY <2>2, <4>1, Zenon DEF Insert
      <4> QED BY <4>2, <4>3, <4>4, Zenon
    <3> QED BY <3>2, <3>3
  <2>4. g = Body(g, k + 1)
    <3> HIDE DEF g
    <3>1. g = [i \in 0 .. (k + 1) |-> g[i]]
      BY DEF g
    <3>2. g = [i \in 0 .. (k + 1) |-> IF i = 0 THEN Start ELSE Insert(g[i - 1], i)]
      BY <2>3, <3>1
    <3> QED BY <3>2, Zenon DEF Insert
  <2> HIDE DEF g
  <2>5. \E h : h = Body(h, k + 1)
    BY <2>4
  <2> QED BY <2>1, <2>5
<1>4. done = Body(done, len)
  <2>1. Defined = Nat
    <3> HIDE DEF Defined
    <3>1. Defined \in SUBSET Nat
      BY DEF Defined
    <3> QED BY <1>2, <1>3, <3>1, InductionOnNat
  <2>2. \E f : f = Body(f, len)
    BY <1>1, <2>1
  <2> QED BY <2>2
<1>5. HashTableListToTable(table, list) = done[len]
  BY Zenon DEF HashTableListToTable, Start
<1> HIDE DEF done
<1>6. done[0] = Start
  <2>1. 0 \in 0 .. len
    BY <1>1
  <2> QED BY <1>4, <2>1
<1>7. ASSUME NEW i \in 1 .. len
      PROVE  done[i] = IF i > 1 /\ done[i - 1].ret # SUCCESS THEN done[i - 1]
                       ELSE HashTableNewEntryCalc(done[i - 1].table, list[i])
  <2>1. i \in 0 .. len /\ i # 0
    BY <1>1
  <2>2. done[i] = IF i > 1 /\ done[i - 1].ret # SUCCESS THEN done[i - 1]
                  ELSE HashTableNewEntryCalc(done[i - 1].table, LinkedListReturn(list, i - 1))
    BY <1>4, <2>1, Zenon
  <2>3. LinkedListReturn(list, i - 1) = list[i]
    <3>1. (i - 1) + 1 = i
      OBVIOUS
    <3> QED BY <3>1, Zenon DEF LinkedListReturn
  <2> QED BY <2>2, <2>3, Zenon
<1>8. Inserts(done, table, list)
  BY <1>6, <1>7, Zenon DEF Inserts, Start
<1> QED BY <1>5, <1>8

(* Inserting a list of entries keeps the table in order.                   *)
LEMMA ListToTable ==
  ASSUME NEW table, NEW E, WellFormed(table, E), \A e \in E : e.key \in Keys,
         NEW list \in Seq(E)
  PROVE  WellFormed(HashTableListToTable(table, list).table, E)
<1>1. PICK f : Inserts(f, table, list) /\ HashTableListToTable(table, list) = f[Len(list)]
  BY InsertSteps
<1>2. PICK len \in Nat : len = Len(list) /\ \A i \in 1 .. len : list[i] \in E
  OBVIOUS
<1>3. ASSUME NEW i \in 1 .. len
      PROVE  f[i] = IF i > 1 /\ f[i - 1].ret # SUCCESS THEN f[i - 1]
                    ELSE HashTableNewEntryCalc(f[i - 1].table, list[i])
  BY <1>1, <1>2, Zenon DEF Inserts
<1> DEFINE Good == {k \in Nat : k =< len => WellFormed(f[k].table, E)}
<1>4. 0 \in Good
  <2>1. f[0].table = table
    BY <1>1 DEF Inserts
  <2> QED BY <2>1
<1>5. ASSUME NEW k \in Good PROVE k + 1 \in Good
  <2>1. k \in Nat /\ (k =< len => WellFormed(f[k].table, E))
    OBVIOUS
  <2> SUFFICES ASSUME k + 1 =< len PROVE WellFormed(f[k + 1].table, E)
    BY <2>1
  <2> HIDE DEF Good
  <2>2. k =< len /\ k + 1 \in 1 .. len /\ (k + 1) - 1 = k
    BY <1>2, <2>1
  <2>3. WellFormed(HashTableNewEntryCalc(f[k].table, list[k + 1]).table, E)
    BY <1>2, <2>1, <2>2, NewEntryCalc
  <2> QED BY <1>3, <2>1, <2>2, <2>3
<1>6. Good = Nat
  <2> HIDE DEF Good
  <2>1. Good \in SUBSET Nat
    BY DEF Good
  <2> QED BY <1>4, <1>5, <2>1, InductionOnNat
<1> QED BY <1>1, <1>2, <1>6

(* A table with entries of S is a table with entries of any larger set.    *)
LEMMA WellFormedForMore ==
  ASSUME NEW table, NEW E, NEW S \in SUBSET E, WellFormed(table, S)
  PROVE  WellFormed(table, E)
<1>1. PICK c \in Nat \ {0}, n \in 0 .. (WORD_RANGE - 1) :
        \E f \in [0 .. (c - 1) -> OneOf(S)] :
          /\ table = [capacity |-> c, size |-> n, slots |-> f]
          /\ \A s \in 0 .. (c - 1), e \in S : f[s] = <<e>> => Slot(e.key, c) = s
  BY Zenon DEF WellFormed
<1>2. PICK f \in [0 .. (c - 1) -> OneOf(S)] :
          /\ table = [capacity |-> c, size |-> n, slots |-> f]
          /\ \A s \in 0 .. (c - 1), e \in S : f[s] = <<e>> => Slot(e.key, c) = s
  BY <1>1, Zenon
<1> DEFINE D == 0 .. (c - 1)
<1> HIDE DEF D
<1>3. \A s \in D : f[s] = <<>> \/ \E d \in S : f[s] = <<d>>
  BY <1>2 DEF OneOf, D
<1>4. \A s \in D : f[s] \in OneOf(E)
  BY <1>3 DEF OneOf
<1>5. f \in [D -> OneOf(E)]
  <2>1. f = [s \in D |-> f[s]]
    BY DEF D
  <2> DEFINE T == OneOf(E)
  <2>2. \A s \in D : f[s] \in T
    BY <1>4
  <2> HIDE DEF T
  <2>3. f \in [D -> T]
    BY <2>1, <2>2
  <2> QED BY <2>3 DEF T
<1>6. ASSUME NEW s \in D, NEW e \in E, f[s] = <<e>> PROVE Slot(e.key, c) = s
  <2>1. PICK d \in S : f[s] = <<d>>
    BY <1>3, <1>6
  <2>2. d = e
    BY <1>6, <2>1
  <2> QED BY <1>2, <2>1, <2>2 DEF D
<1>7. \E g \in [0 .. (c - 1) -> OneOf(E)] :
        /\ table = [capacity |-> c, size |-> n, slots |-> g]
        /\ \A s \in 0 .. (c - 1), e \in E : g[s] = <<e>> => Slot(e.key, c) = s
  BY <1>2, <1>5, <1>6, Zenon DEF D
<1> QED BY <1>1, <1>7, Zenon DEF WellFormed

(* The values of NextPrime are numbers.                                    *)
LEMMA NextPrimeType ==
  ASSUME NEW c \in Nat \ {0}, NEW prime \in NextPrime(c)
  PROVE  prime \in Nat
<1> DEFINE start == IF c % 2 = 0 THEN c + 1 ELSE c + 2
           limit == IF start > 32767 THEN 65535 ELSE 2 * start
           candidates == {k \in start .. (limit - 1) : k % 2 = 1}
<1>1. candidates \subseteq Nat
  <2>1. start \in Nat
    OBVIOUS
  <2>2. limit \in Nat
    BY <2>1
  <2> QED BY <2>1, <2>2
<1>2. CASE c <= 1
  BY <1>2 DEF NextPrime
<1>3. CASE c = 2
  <2>1. NextPrime(2) = {3}
    BY DEF NextPrime
  <2> QED BY <1>3, <2>1
<1>4. CASE ~(c <= 1) /\ c # 2
  <2> DEFINE reached(k) == \A e \in candidates : e < k => MayBeComposite(e)
             found == {k \in candidates : reached(k) /\ MayBePrime(k)}
             none == {z \in {0} : \A k \in candidates : MayBeComposite(k)}
  <2>1. NextPrime(c) = found \cup none
    BY <1>4 DEF NextPrime
  <2> HIDE DEF candidates
  <2>2. found \subseteq candidates /\ none \subseteq {0}
    OBVIOUS
  <2>3. prime \in candidates \/ prime = 0
    <3> HIDE DEF found, none
    <3> QED BY <2>1, <2>2
  <2>4. candidates \subseteq Nat
    BY <1>1
  <2>5. prime \in candidates => prime \in Nat
    BY <2>4, Zenon
  <2>6. 0 \in Nat
    OBVIOUS
  <2> QED BY <2>3, <2>5, <2>6, Zenon
<1> QED BY <1>2, <1>3, <1>4

(* Without slots a table has no entries.                                   *)
LEMMA NoSlotsNoEntries ==
  ASSUME NEW table, table.slots = NoSlots
  PROVE  Entries(table) = {}
BY DEF Entries, NoSlots

(* A rehash leaves a table in order with no entry it did not have, or one  *)
(* without slots; nothing happens below the load factor.                   *)
LEMMA ReHash ==
  ASSUME NEW table, NEW E, WellFormed(table, E), \A e \in E : e.key \in Keys,
         NEW prime \in Nat
  PROVE  LET grown == HashTableReHash(table, prime) IN
         /\ ~NeedsReHash(table) => grown = table
         /\ \/ WellFormed(grown, Entries(table))
            \/ grown.slots = NoSlots /\ grown.size \in 0 .. (WORD_RANGE - 1)
<1> DEFINE S == Entries(table)
           empty == [capacity |-> prime, size |-> 0, slots |-> EmptySlots(prime)]
           filled == HashTableListToTable(empty, HashTabletoList(table))
           grown == HashTableReHash(table, prime)
<1>1. WellFormed(table, S) /\ S \subseteq E
  BY WellFormedForEntries, EntriesInSlots, Zenon
<1>2. CASE ~NeedsReHash(table)
  <2>1. grown = table
    BY <1>2 DEF HashTableReHash
  <2> QED BY <1>1, <2>1, Zenon
<1>3. CASE NeedsReHash(table) /\ prime = 0
  <2>1. grown = [capacity |-> 0, size |-> 0, slots |-> NoSlots]
    BY <1>3, Zenon DEF HashTableReHash
  <2>2. grown.slots = NoSlots /\ grown.size = 0
    BY <2>1
  <2>3. 0 \in 0 .. (WORD_RANGE - 1)
    BY WordRange
  <2> QED BY <1>3, <2>2, <2>3, Zenon
<1>4. CASE NeedsReHash(table) /\ prime # 0
  <2> HIDE DEF S
  <2>1. WellFormed(empty, S)
    <3>1. EmptySlots(prime) \in [0 .. (prime - 1) -> OneOf(S)]
      BY DEF EmptySlots, OneOf
    <3>2. \A s \in 0 .. (prime - 1), e \in S : EmptySlots(prime)[s] # <<e>>
      BY DEF EmptySlots
    <3>3. 0 \in 0 .. (WORD_RANGE - 1) /\ prime \in Nat \ {0}
      BY <1>4, WordRange
    <3>4. \E g \in [0 .. (prime - 1) -> OneOf(S)] :
            /\ empty = [capacity |-> prime, size |-> 0, slots |-> g]
            /\ \A s \in 0 .. (prime - 1), e \in S : g[s] = <<e>> => Slot(e.key, prime) = s
      BY <3>1, <3>2, Zenon
    <3> HIDE DEF empty
    <3> QED BY <3>3, <3>4, Zenon DEF WellFormed
  <2>2. HashTabletoList(table) \in Seq(S)
    BY <1>1, ListOfTable
  <2>3. \A e \in S : e.key \in Keys
    BY <1>1
  <2> HIDE DEF empty
  <2>4. WellFormed(filled.table, S)
    BY <2>1, <2>2, <2>3, ListToTable
  <2> HIDE DEF filled
  <2>5. filled.table.size \in 0 .. (WORD_RANGE - 1)
    BY <2>4, WellFormedFields, Zenon
  <2>6. grown = IF filled.ret = ERR_INVALID_PARAM THEN [filled.table EXCEPT !.slots = NoSlots]
                ELSE filled.table
    BY <1>4, Zenon DEF HashTableReHash, filled, empty
  <2>7. CASE filled.ret = ERR_INVALID_PARAM
    <3>1. filled.table = [capacity |-> filled.table.capacity, size |-> filled.table.size,
                          slots |-> filled.table.slots]
      BY <2>4, WellFormedFields, Zenon
    <3>2. [filled.table EXCEPT !.slots = NoSlots].slots = NoSlots
      BY <3>1
    <3>3. [filled.table EXCEPT !.slots = NoSlots].size = filled.table.size
      BY <3>1
    <3>4. grown.slots = NoSlots /\ grown.size = filled.table.size
      BY <2>6, <2>7, <3>2, <3>3, Zenon
    <3> QED BY <1>4, <2>5, <3>4, Zenon
  <2>8. CASE filled.ret # ERR_INVALID_PARAM
    BY <1>4, <2>4, <2>6, <2>8, Zenon DEF S
  <2> QED BY <2>7, <2>8
<1> QED BY <1>2, <1>3, <1>4, Zenon

(* A table the server uses is in order, with entries of E, or it has lost  *)
(* its slots.                                                              *)
Usable(table, E) ==
  \/ WellFormed(table, E)
  \/ table.slots = NoSlots /\ table.size \in 0 .. (WORD_RANGE - 1)

(* What a table in order is after an insertion: its entries are those it   *)
(* had, and the new one if the call succeeded; with room below the load    *)
(* factor it stays in order, with the slots it has.                        *)
LEMMA NewEntry ==
  ASSUME NEW table, NEW E, WellFormed(table, E), \A e \in E : e.key \in Keys,
         NEW data, NEW key \in Keys, [key |-> key, data |-> data] \in E,
         NEW prime \in Nat
  PROVE  LET r == HashTableNewEntry(table, data, key, prime)
             entry == [key |-> key, data |-> data]
         IN  /\ Usable(r.table, E)
             /\ Entries(r.table) \subseteq Entries(table) \cup {entry}
             /\ r.ret # SUCCESS => Entries(r.table) \subseteq Entries(table)
             /\ ~NeedsReHash(table) =>
                  /\ WellFormed(r.table, E) /\ r.table.capacity = table.capacity
                  /\ r.ret # SUCCESS => r.table = table
                  /\ r.ret = SUCCESS => r.table.size = (table.size + 1) % WORD_RANGE
<1> DEFINE S == Entries(table)
           entry == [key |-> key, data |-> data]
           grown == HashTableReHash(table, prime)
           r == HashTableNewEntry(table, data, key, prime)
<1>1. /\ ~NeedsReHash(table) => grown = table
      /\ WellFormed(grown, S) \/ (grown.slots = NoSlots /\ grown.size \in 0 .. (WORD_RANGE - 1))
  BY ReHash
<1>2. S \subseteq E
  BY EntriesInSlots, Zenon
<1>3. table.slots # NoSlots
  BY WellFormedFields, Zenon
<1>4. CASE grown.slots = NoSlots
  <2>1. r = [table |-> grown, ret |-> ERR_GENERIC]
    BY <1>4, Zenon DEF HashTableNewEntry
  <2>2. r.table = grown /\ r.ret # SUCCESS
    BY <2>1 DEF ERR_GENERIC, SUCCESS
  <2>3. grown.size \in 0 .. (WORD_RANGE - 1)
    <3>1. ~WellFormed(grown, S)
      BY <1>4, WellFormedFields, Zenon
    <3> QED BY <1>1, <3>1, Zenon
  <2>4. Entries(grown) = {}
    BY <1>4, NoSlotsNoEntries
  <2>5. Usable(r.table, E)
    BY <1>4, <2>2, <2>3, Zenon DEF Usable
  <2>6. NeedsReHash(table)
    BY <1>1, <1>3, <1>4, Zenon
  <2> QED BY <2>2, <2>4, <2>5, <2>6, Zenon
<1>5. CASE grown.slots # NoSlots
  <2> HIDE DEF grown, entry
  <2>1. WellFormed(grown, S)
    BY <1>1, <1>5, Zenon
  <2>2. WellFormed(grown, E) /\ Entries(grown) \subseteq S
    <3>1. Entries(grown) \subseteq S
      BY <2>1, EntriesInSlots, Zenon
    <3>2. WellFormed(grown, E)
      BY <1>2, <2>1, WellFormedForMore
    <3> QED BY <3>1, <3>2
  <2>3. entry.key = key /\ entry \in E
    BY DEF entry
  <2> DEFINE q == HashTableNewEntryCalc(grown, entry)
  <2>4. r = q
    BY <1>5, Zenon DEF HashTableNewEntry, grown, entry
  <2>5. /\ WellFormed(q.table, E)
        /\ q.table.capacity = grown.capacity
        /\ Entries(q.table) \subseteq Entries(grown) \cup {entry}
        /\ q.ret # SUCCESS => q.table = grown
        /\ q.ret = SUCCESS => q.table.size = (grown.size + 1) % WORD_RANGE
    BY <2>2, <2>3, NewEntryCalc
  <2> HIDE DEF q, r
  <2>6. Usable(r.table, E)
    BY <2>4, <2>5, Zenon DEF Usable
  <2>7. Entries(r.table) \subseteq S \cup {entry}
    BY <2>2, <2>4, <2>5
  <2>8. r.ret # SUCCESS => Entries(r.table) \subseteq S
    BY <2>2, <2>4, <2>5
  <2> QED BY <1>1, <2>4, <2>5, <2>6, <2>7, <2>8 DEF r, entry
<1> QED BY <1>4, <1>5

(* A lookup matches an entry of the slot of the key, or nothing.           *)
LEMMA MatchingOne ==
  ASSUME NEW table, NEW E, WellFormed(table, E), NEW key \in Keys
  PROVE  LET s == Slot(key, table.capacity) IN
         \/ /\ Matching(table, key) = -1
            /\ \A e \in E : table.slots[s] = <<e>> => ~CompareMemory(e.key, key, Len(key))
         \/ /\ Matching(table, key) = 0
            /\ \E e \in E : table.slots[s] = <<e>> /\ CompareMemory(e.key, key, Len(key))
<1> DEFINE s == Slot(key, table.capacity)
           list == table.slots[s]
           Test(e) == CompareMemory(e.key, key, Len(key))
           I == {i \in 1 .. Len(list) : Test(list[i])}
<1>1. list = <<>> \/ \E e \in E : list = <<e>>
  <2>1. /\ table.capacity \in Nat \ {0}
        /\ table.slots \in [0 .. (table.capacity - 1) -> OneOf(E)]
    BY WellFormedFields, Zenon
  <2>2. s \in 0 .. (table.capacity - 1)
    BY <2>1, SlotInRange
  <2>3. list \in OneOf(E)
    BY <2>1, <2>2, Zenon
  <2> HIDE DEF list
  <2> QED BY <2>3 DEF OneOf
<1>2. Matching(table, key) = (IF I # {} THEN Min(I) ELSE 0) - 1
  BY DEF Matching, SelectInSeq
<1> HIDE DEF Test, list
<1>3. CASE list = <<>>
  <2>1. I = {}
    BY <1>3
  <2>2. Matching(table, key) = -1
    BY <1>2, <2>1
  <2>3. \A e \in E : list # <<e>>
    BY <1>3
  <2> QED BY <2>2, <2>3 DEF list
<1>4. ASSUME NEW e \in E, list = <<e>>
      PROVE  \/ Matching(table, key) = -1 /\ ~Test(e)
             \/ Matching(table, key) = 0 /\ Test(e)
  <2>1. Len(list) = 1 /\ list[1] = e
    BY <1>4
  <2>2. CASE Test(e)
    <3>1. I = {1}
      BY <2>1, <2>2
    <3>2. Min({1}) = 1
      BY DEF Min
    <3> HIDE DEF I
    <3>3. Matching(table, key) = 1 - 1
      BY <1>2, <3>1, <3>2
    <3> QED BY <2>2, <3>3
  <2>3. CASE ~Test(e)
    <3>1. I = {}
      BY <2>1, <2>3
    <3>2. Matching(table, key) = 0 - 1
      BY <1>2, <3>1
    <3> QED BY <2>3, <3>2
  <2> QED BY <2>2, <2>3
<1>5. ASSUME NEW e \in E, list = <<e>>
      PROVE  \A d \in E : list = <<d>> => d = e
  BY <1>5
<1> QED BY <1>1, <1>3, <1>4, <1>5 DEF list, Test

(* What a lookup and a removal by a key do to a table in order: either no  *)
(* entry of its slot begins with the key, nothing is returned and nothing  *)
(* changes; or the data returned are those of an entry that does, and that *)
(* entry alone leaves the table.                                           *)
LEMMA LookupAndRemove ==
  ASSUME NEW table, NEW E, WellFormed(table, E), NEW key \in Keys
  PROVE  LET after == HashTableDestroyEntry(table, key)
             found == HashTableReturnEntry(table, key)
         IN  /\ WellFormed(after, E)
             /\ after.capacity = table.capacity
             /\ \/ /\ found = NoUser /\ after = table
                   /\ \A e \in Entries(table) : Slot(e.key, table.capacity)
                          = Slot(key, table.capacity) => ~CompareMemory(e.key, key, Len(key))
                \/ \E e \in Entries(table) :
                     /\ CompareMemory(e.key, key, Len(key)) /\ found = e.data
                     /\ Slot(e.key, table.capacity) = Slot(key, table.capacity)
                     /\ \A d \in Entries(table) : Slot(d.key, table.capacity)
                          = Slot(key, table.capacity) => d = e
                     /\ Entries(after) = Entries(table) \ {e}
                     /\ after.size = (table.size - 1) % WORD_RANGE
<1> DEFINE c == table.capacity
           f == table.slots
           s == Slot(key, c)
           D == 0 .. (c - 1)
           after == HashTableDestroyEntry(table, key)
           found == HashTableReturnEntry(table, key)
           n == (table.size - 1) % WORD_RANGE
           g == [f EXCEPT ![s] = <<>>]
           Placed(h) == \A i \in D, e \in E : h[i] = <<e>> => Slot(e.key, c) = i
<1>1. /\ c \in Nat \ {0} /\ table.size \in 0 .. (WORD_RANGE - 1)
      /\ f \in [D -> OneOf(E)] /\ Placed(f)
      /\ table = [capacity |-> c, size |-> table.size, slots |-> f]
  BY WellFormedFields, Zenon
<1>2. s \in D
  BY <1>1, SlotInRange
<1>3. n \in 0 .. (WORD_RANGE - 1)
  BY <1>1, WordCount, Zenon
<1>4. /\ Entries(table) \subseteq E
      /\ \A e \in E : e \in Entries(table) <=> \E i \in D : f[i] = <<e>>
  BY EntriesInSlots, Zenon
<1>5. \A e \in Entries(table) : Slot(e.key, c) = s => f[s] = <<e>>
  <2> HIDE DEF s, D, f, c
  <2> QED BY <1>1, <1>4
<1>6. CASE Matching(table, key) = -1
  <2>1. found = NoUser /\ after = table
    BY <1>6 DEF HashTableReturnEntry, HashTableDestroyEntry
  <2>2. \A e \in E : f[s] = <<e>> => ~CompareMemory(e.key, key, Len(key))
    BY <1>6, MatchingOne
  <2> HIDE DEF found, after, s, f, c
  <2>3. \A e \in Entries(table) : Slot(e.key, c) = s => ~CompareMemory(e.key, key, Len(key))
    BY <1>4, <1>5, <2>2
  <2> QED BY <2>1, <2>3 DEF found, after, s, c
<1>7. \/ Matching(table, key) = -1
      \/ /\ Matching(table, key) = 0
         /\ \E e \in E : f[s] = <<e>> /\ CompareMemory(e.key, key, Len(key))
  BY MatchingOne, Zenon
<1>8. CASE Matching(table, key) = 0
  <2>1. PICK e \in E : f[s] = <<e>> /\ CompareMemory(e.key, key, Len(key))
    <3>1. 0 # -1
      OBVIOUS
    <3> QED BY <1>8, <1>7, <3>1, Zenon
  <2>2. found = e.data
    <3>1. LinkedListReturn(f[s], 0) = e
      BY <2>1 DEF LinkedListReturn
    <3> QED BY <1>8, <3>1 DEF HashTableReturnEntry
  <2>3. LinkedListRemove(f[s], 0) = <<>>
    <3>1. Len(<<e>>) = 1
      OBVIOUS
    <3>2. SubSeq(<<e>>, 1, 0) = <<>> /\ SubSeq(<<e>>, 2, 1) = <<>>
      BY SubSeqEmpty
    <3>3. RemoveAt(<<e>>, 1) = <<>>
      BY <3>1, <3>2 DEF RemoveAt
    <3> QED BY <2>1, <3>3 DEF LinkedListRemove
  <2>4. after = [capacity |-> c, size |-> n, slots |-> g]
    <3> HIDE DEF n
    <3>1. after = [table EXCEPT !.slots[s] = LinkedListRemove(@, 0), !.size = n]
      BY <1>8 DEF HashTableDestroyEntry, n
    <3> QED BY <1>1, <2>3, <3>1
  <2>5. after.capacity = c /\ after.size = n /\ after.slots = g
    BY <2>4
  <2> HIDE DEF after, found, n, s, D, f
  <2>6. g \in [D -> OneOf(E)] /\ g[s] = <<>> /\ \A i \in D : i # s => g[i] = f[i]
    <3>1. <<>> \in OneOf(E)
      BY DEF OneOf
    <3> QED BY <1>1, <1>2, <3>1
  <2> HIDE DEF g
  <2>7. Placed(g)
    <3>1. \A e2 \in E : g[s] # <<e2>>
      BY <2>6
    <3> QED BY <1>1, <2>6, <3>1, Zenon
  <2>8. WellFormed(after, E)
    <3>1. \E h \in [0 .. (c - 1) -> OneOf(E)] :
            /\ after = [capacity |-> c, size |-> n, slots |-> h]
            /\ \A i \in 0 .. (c - 1), d \in E : h[i] = <<d>> => Slot(d.key, c) = i
      BY <2>4, <2>6, <2>7, Zenon DEF D
    <3> HIDE DEF c
    <3> QED BY <1>1, <1>3, <3>1, Zenon DEF WellFormed
  <2>9. Entries(after) = Entries(table) \ {e}
    <3>1. /\ Entries(after) \subseteq E
          /\ \A d \in E : d \in Entries(after) <=> \E i \in D : g[i] = <<d>>
      BY <2>5, <2>8, EntriesInSlots, Zenon DEF D
    <3>2. ASSUME NEW d \in Entries(after) PROVE d \in Entries(table) /\ d # e
      <4>1. PICK i \in D : g[i] = <<d>>
        BY <3>1
      <4>2. i # s /\ f[i] = <<d>>
        <5>1. <<>> # <<d>>
          OBVIOUS
        <5> QED BY <2>6, <4>1, <5>1, Zenon
      <4>3. d \in E
        BY <3>1
      <4>4. Slot(d.key, c) = i /\ Slot(e.key, c) = s
        BY <1>1, <1>2, <2>1, <4>2, <4>3
      <4> QED BY <1>4, <4>2, <4>3, <4>4
    <3>3. ASSUME NEW d \in Entries(table), d # e PROVE d \in Entries(after)
      <4>1. PICK i \in D : f[i] = <<d>>
        BY <1>4
      <4>2. i # s
        BY <2>1, <3>3, <4>1
      <4>3. g[i] = <<d>> /\ d \in E
        BY <1>4, <2>6, <4>1, <4>2
      <4> QED BY <3>1, <4>3
    <3> QED BY <3>2, <3>3
  <2>10. e \in Entries(table) /\ Slot(e.key, c) = s
    BY <1>1, <1>2, <1>4, <2>1
  <2>11. \A d \in Entries(table) : Slot(d.key, c) = s => d = e
    <3>1. ASSUME NEW d \in Entries(table), Slot(d.key, c) = s PROVE d = e
      <4>1. f[s] = <<d>> /\ f[s] = <<e>>
        BY <1>5, <2>1, <3>1
      <4> QED BY <4>1
    <3> QED BY <3>1
  <2> HIDE DEF c
  <2> QED BY <2>1, <2>2, <2>5, <2>8, <2>9, <2>10, <2>11, Zenon DEF after, found, n, s, c
<1> QED BY <1>6, <1>8, <1>7, Zenon

(* What a lookup returns, of that.                                         *)
LEMMA Lookup ==
  ASSUME NEW table, NEW E, WellFormed(table, E), NEW key \in Keys
  PROVE  \/ /\ HashTableReturnEntry(table, key) = NoUser
            /\ \A e \in Entries(table) : Slot(e.key, table.capacity)
                  = Slot(key, table.capacity) => ~CompareMemory(e.key, key, Len(key))
         \/ \E e \in Entries(table) :
              /\ HashTableReturnEntry(table, key) = e.data
              /\ \A d \in Entries(table) : Slot(d.key, table.capacity)
                    = Slot(key, table.capacity) => d = e
BY LookupAndRemove, ZenonT(60)

(* Every entry of a table in order is found under its own key.             *)
LEMMA FoundByKey ==
  ASSUME NEW table, NEW E, WellFormed(table, E), \A e \in E : e.key \in Keys,
         NEW e \in Entries(table)
  PROVE  HashTableReturnEntry(table, e.key) = e.data
<1>1. e.key \in Keys
  BY EntriesInSlots, Zenon
<1>2. Len(e.key) \in Nat
  BY <1>1, HashTableAssumption
<1>3. CompareMemory(e.key, e.key, Len(e.key))
  BY <1>2 DEF CompareMemory
<1>4. \/ \A d \in Entries(table) : Slot(d.key, table.capacity)
             = Slot(e.key, table.capacity) => ~CompareMemory(d.key, e.key, Len(e.key))
      \/ \E d \in Entries(table) :
           /\ HashTableReturnEntry(table, e.key) = d.data
           /\ \A b \in Entries(table) : Slot(b.key, table.capacity)
                = Slot(e.key, table.capacity) => b = d
  BY <1>1, Lookup, Zenon
<1> QED BY <1>3, <1>4, Zenon

(* A key that begins with another of the same length is that key.          *)
LEMMA SameLengthSameKey ==
  ASSUME NEW k1 \in Keys, NEW k2 \in Keys, Len(k1) = Len(k2), CompareMemory(k1, k2, Len(k2))
  PROVE  k1 = k2
<1>1. k1 \in Seq(Nat) /\ k2 \in Seq(Nat)
  BY HashTableAssumption
<1>2. \A i \in 1 .. Len(k1) : k1[i] = k2[i]
  BY Zenon DEF CompareMemory
<1> QED BY <1>1, <1>2, SeqEqual

----------------------------------------------------------------------------
(* A rehash that finds a capacity keeps the slots.                         *)

(* The list of a table in order has no key twice: its entries come in the  *)
(* order of their slots.                                                   *)
LEMMA ListHasKeysOnce ==
  ASSUME NEW table, NEW E, WellFormed(table, E), \A e \in E : e.key \in Keys,
         NEW list, list = HashTabletoList(table)
  PROVE  /\ list \in Seq(E)
         /\ \A j, l \in 1 .. Len(list) : j < l => list[j].key # list[l].key
<1> DEFINE c == table.capacity
           f == table.slots
           lists == [i \in 1 .. c |-> f[i - 1]]
           place == [e \in E |-> Slot(e.key, c) + 1]
<1>1. /\ c \in Nat \ {0} /\ f \in [0 .. (c - 1) -> OneOf(E)]
      /\ \A s \in 0 .. (c - 1), e \in E : f[s] = <<e>> => Slot(e.key, c) = s
  BY WellFormedFields, Zenon
<1>2. list \in Seq(E)
  BY ListOfTable
<1>3. list = FlattenSeq(lists)
  BY Zenon DEF HashTabletoList
<1> HIDE DEF c, f
<1>4. \A e \in E : Slot(e.key, c) \in Nat
  <2>1. ASSUME NEW e \in E PROVE Slot(e.key, c) \in Nat
    <3>1. Slot(e.key, c) \in 0 .. (c - 1)
      BY <1>1, SlotInRange
    <3> QED BY <1>1, <3>1
  <2> QED BY <2>1
<1>5. place \in [E -> Nat] /\ \A e \in E : place[e] = Slot(e.key, c) + 1
  BY <1>4
<1>6. \A i \in 1 .. c : i - 1 \in 0 .. (c - 1)
  BY <1>1
<1>7. lists \in [1 .. c -> OneOf(E)] /\ \A i \in 1 .. c : lists[i] = f[i - 1]
  <2>1. ASSUME NEW i \in 1 .. c PROVE f[i - 1] \in OneOf(E)
    BY <1>1, <1>6
  <2> QED BY <2>1
<1> HIDE DEF lists, place
<1>8. ASSUME NEW i \in 1 .. c, NEW e \in E, lists[i] = <<e>> PROVE place[e] = i
  <2>1. Slot(e.key, c) = i - 1
    BY <1>1, <1>6, <1>7, <1>8
  <2> QED BY <1>1, <1>5, <2>1
<1>9. \A j, l \in 1 .. Len(list) : j < l => place[list[j]] < place[list[l]]
  <2>1. c \in Nat \ {0} /\ place \in [E -> Nat] /\ lists \in [1 .. c -> OneOf(E)]
    BY <1>1, <1>5, <1>7
  <2>2. \A i \in 1 .. c, e \in E : lists[i] = <<e>> => place[e] = i
    BY <1>8
  <2>3. \A j, l \in 1 .. Len(FlattenSeq(lists)) :
          j < l => place[FlattenSeq(lists)[j]] < place[FlattenSeq(lists)[l]]
    BY ONLY <2>1, <2>2, FlattenInOrder
  <2> QED BY <1>3, <2>3, Zenon
<1>10. ASSUME NEW j \in 1 .. Len(list), NEW l \in 1 .. Len(list), j < l, list[j].key = list[l].key
       PROVE  FALSE
  <2>1. PICK d \in E, e \in E : d = list[j] /\ e = list[l]
    BY <1>2
  <2>2. place[d] = Slot(d.key, c) + 1 /\ place[e] = Slot(e.key, c) + 1
    BY <1>5
  <2>3. place[d] = place[e]
    BY <1>10, <2>1, <2>2
  <2>4. place[d] < place[e] /\ place[d] \in Nat
    BY <1>5, <1>9, <1>10, <2>1
  <2> QED BY <2>3, <2>4
<1> QED BY <1>2, <1>10

(* An insertion is refused only when the table has a key the new one       *)
(* begins with (HashTableNewEntryCalc, DuplicateDataCheck).                *)
LEMMA RefusedForDuplicate ==
  ASSUME NEW table, NEW E, WellFormed(table, E), NEW entry \in E, entry.key \in Keys,
         HashTableNewEntryCalc(table, entry).ret = ERR_INVALID_PARAM
  PROVE  \E e \in Entries(table) : CompareMemory(e.key, entry.key, Len(e.key))
<1> DEFINE f == table.slots
           s == Slot(entry.key, table.capacity)
<1>1. /\ table.capacity \in Nat \ {0}
      /\ f \in [0 .. (table.capacity - 1) -> OneOf(E)]
  BY WellFormedFields, Zenon
<1>2. s \in 0 .. (table.capacity - 1)
  BY <1>1, SlotInRange
<1>3. SUCCESS # ERR_INVALID_PARAM
  BY DEF SUCCESS, ERR_INVALID_PARAM
<1>4. f[s] # <<>> /\ DuplicateDataCheck(f[s], entry.key) # SUCCESS
  BY <1>3 DEF HashTableNewEntryCalc
<1> HIDE DEF f, s
<1>5. PICK e \in E : f[s] = <<e>>
  BY <1>1, <1>2, <1>4 DEF OneOf
<1>6. e \in Entries(table)
  BY <1>2, <1>5, EntriesInSlots, Zenon DEF f
<1>7. PICK i \in 0 .. (Len(f[s]) - 1) :
        CompareMemory(LinkedListReturn(f[s], i).key, entry.key, Len(LinkedListReturn(f[s], i).key))
  BY <1>4, Zenon DEF DuplicateDataCheck
<1>8. LinkedListReturn(f[s], i) = e
  <2>1. Len(<<e>>) = 1 /\ <<e>>[1] = e
    OBVIOUS
  <2>2. i = 0
    BY <1>5, <1>7, <2>1
  <2> QED BY <1>5, <2>1, <2>2 DEF LinkedListReturn
<1> QED BY <1>6, <1>7, <1>8

(* A list with keys of one length, none of them twice, is inserted whole   *)
(* in a table that is empty.                                               *)
LEMMA NoneIsRefused ==
  ASSUME NEW table, NEW E, WellFormed(table, E), Entries(table) = {},
         \A e \in E : e.key \in Keys, \A d, e \in E : Len(d.key) = Len(e.key),
         NEW list \in Seq(E),
         \A j, l \in 1 .. Len(list) : j < l => list[j].key # list[l].key
  PROVE  HashTableListToTable(table, list).ret # ERR_INVALID_PARAM
<1>1. PICK f : Inserts(f, table, list) /\ HashTableListToTable(table, list) = f[Len(list)]
  BY InsertSteps
<1>2. PICK len \in Nat : len = Len(list) /\ \A i \in 1 .. len : list[i] \in E
  OBVIOUS
<1>3. ASSUME NEW i \in 1 .. len
      PROVE  f[i] = IF i > 1 /\ f[i - 1].ret # SUCCESS THEN f[i - 1]
                    ELSE HashTableNewEntryCalc(f[i - 1].table, list[i])
  BY <1>1, <1>2, Zenon DEF Inserts
<1> DEFINE Filled(t, k) == /\ WellFormed(t, E)
                           /\ \A e \in Entries(t) : \E j \in 1 .. k : e = list[j]
           Right(k) == Filled(f[k].table, k) /\ f[k].ret # ERR_INVALID_PARAM
           Good == {k \in Nat : k =< len => Right(k)}
<1>4. 0 \in Good
  <2>1. f[0].table = table /\ f[0].ret = ERR_GENERIC
    BY <1>1 DEF Inserts
  <2>2. ERR_GENERIC # ERR_INVALID_PARAM
    BY DEF ERR_GENERIC, ERR_INVALID_PARAM
  <2> QED BY <2>1, <2>2
<1>5. ASSUME NEW k \in Nat, NEW i \in 1 .. len, i = k + 1, Right(k) PROVE Right(i)
  <2> DEFINE t == f[k].table
             q == HashTableNewEntryCalc(t, list[i])
  <2>1. i - 1 = k
    BY <1>5
  <2>2. WellFormed(t, E) /\ list[i] \in E /\ list[i].key \in Keys
    BY <1>2, <1>5
  <2>3. /\ WellFormed(q.table, E)
        /\ Entries(q.table) \subseteq Entries(t) \cup {list[i]}
    BY <2>2, NewEntryCalc
  <2>4. ASSUME q.ret = ERR_INVALID_PARAM PROVE FALSE
    <3>1. PICK e \in Entries(t) : CompareMemory(e.key, list[i].key, Len(e.key))
      BY <2>2, <2>4, RefusedForDuplicate
    <3>2. PICK j \in 1 .. k : e = list[j]
      BY <1>5
    <3>3. j \in 1 .. len /\ j < i
      BY <1>2, <1>5, <3>2
    <3>4. list[j].key # list[i].key
      BY <1>2, <3>3
    <3>5. e \in E /\ e.key \in Keys
      BY <1>2, <3>2, <3>3
    <3>6. Len(e.key) = Len(list[i].key)
      BY <2>2, <3>5
    <3>7. e.key = list[i].key
      BY <2>2, <3>1, <3>5, <3>6, SameLengthSameKey
    <3> QED BY <3>2, <3>4, <3>7
  <2>5. \A j \in 1 .. k : j \in 1 .. i
    BY <1>5
  <2>6. i \in 1 .. i
    OBVIOUS
  <2>7. CASE i > 1 /\ f[i - 1].ret # SUCCESS
    <3>1. f[i] = f[k]
      BY <1>3, <2>1, <2>7
    <3> QED BY <1>5, <2>5, <3>1
  <2>8. CASE ~(i > 1 /\ f[i - 1].ret # SUCCESS)
    <3>1. f[i] = q
      BY <1>3, <2>1, <2>8
    <3>2. \A e \in Entries(q.table) : \E j \in 1 .. i : e = list[j]
      BY <1>5, <2>3, <2>5, <2>6
    <3> HIDE DEF q
    <3> QED BY <2>3, <2>4, <3>1, <3>2
  <2> QED BY <2>7, <2>8
<1> HIDE DEF Right
<1>6. ASSUME NEW k \in Good PROVE k + 1 \in Good
  <2>1. k \in Nat /\ (k =< len => Right(k))
    OBVIOUS
  <2> SUFFICES ASSUME k + 1 =< len PROVE Right(k + 1)
    BY <2>1
  <2> HIDE DEF Good
  <2>2. k =< len /\ k + 1 \in 1 .. len
    BY <1>2, <2>1
  <2> QED BY <1>5, <2>1, <2>2
<1>7. Good = Nat
  <2> HIDE DEF Good
  <2>1. Good \in SUBSET Nat
    BY DEF Good
  <2> QED BY <1>4, <1>6, <2>1, InductionOnNat
<1>8. Right(len)
  BY <1>2, <1>7
<1> QED BY <1>1, <1>2, <1>8 DEF Right

(* The keys of the entries of E are of one length.                         *)
OneLength(E) == \A d, e \in E : e.key \in Keys /\ Len(d.key) = Len(e.key)

(* With a capacity to grow to and keys of one length, a rehash does not    *)
(* lose the slots.                                                         *)
LEMMA ReHashKeepsSlots ==
  ASSUME NEW table, NEW E, WellFormed(table, E), OneLength(E),
         NEW prime \in Nat, NeedsReHash(table) => prime # 0
  PROVE  WellFormed(HashTableReHash(table, prime), Entries(table))
<1> DEFINE S == Entries(table)
           empty == [capacity |-> prime, size |-> 0, slots |-> EmptySlots(prime)]
           filled == HashTableListToTable(empty, HashTabletoList(table))
           grown == HashTableReHash(table, prime)
<1>1. WellFormed(table, S) /\ S \subseteq E
  BY WellFormedForEntries, EntriesInSlots, Zenon
<1>2. CASE ~NeedsReHash(table)
  <2>1. grown = table
    BY <1>2 DEF HashTableReHash
  <2> QED BY <1>1, <2>1, Zenon
<1>3. CASE NeedsReHash(table)
  <2> HIDE DEF S
  <2>1. prime \in Nat \ {0}
    BY <1>3
  <2>2. \A s \in 0 .. (prime - 1) : EmptySlots(prime)[s] = <<>>
    BY DEF EmptySlots
  <2>3. WellFormed(empty, S)
    <3>1. EmptySlots(prime) \in [0 .. (prime - 1) -> OneOf(S)]
      BY DEF EmptySlots, OneOf
    <3>2. \A s \in 0 .. (prime - 1), e \in S : EmptySlots(prime)[s] # <<e>>
      BY <2>2
    <3>3. \E g \in [0 .. (prime - 1) -> OneOf(S)] :
            /\ empty = [capacity |-> prime, size |-> 0, slots |-> g]
            /\ \A s \in 0 .. (prime - 1), e \in S : g[s] = <<e>> => Slot(e.key, prime) = s
      BY <3>1, <3>2, Zenon
    <3>4. 0 \in 0 .. (WORD_RANGE - 1)
      BY WordRange
    <3> HIDE DEF empty
    <3> QED BY <2>1, <3>3, <3>4, Zenon DEF WellFormed
  <2>4. Entries(empty) = {}
    <3>1. empty.capacity = prime /\ empty.slots = EmptySlots(prime)
      OBVIOUS
    <3> HIDE DEF empty
    <3>2. /\ Entries(empty) \subseteq S
          /\ \A e \in S : e \in Entries(empty) =>
               \E s \in 0 .. (prime - 1) : EmptySlots(prime)[s] = <<e>>
      BY <2>3, <3>1, EntriesInSlots, Zenon
    <3>3. \A s \in 0 .. (prime - 1), e \in S : EmptySlots(prime)[s] # <<e>>
      BY <2>2
    <3> QED BY <3>2, <3>3
  <2>5. /\ \A e \in S : e.key \in Keys
        /\ \A d, e \in S : Len(d.key) = Len(e.key)
    BY <1>1 DEF OneLength
  <2>6. PICK list : list = HashTabletoList(table)
    OBVIOUS
  <2>7. list \in Seq(S) /\ \A j, l \in 1 .. Len(list) : j < l => list[j].key # list[l].key
    BY <1>1, <2>5, <2>6, ListHasKeysOnce
  <2> HIDE DEF empty
  <2>8. WellFormed(HashTableListToTable(empty, list).table, S)
    BY <2>3, <2>5, <2>7, ListToTable
  <2>9. HashTableListToTable(empty, list).ret # ERR_INVALID_PARAM
    BY <2>3, <2>4, <2>5, <2>7, NoneIsRefused
  <2>10. grown = filled.table
    BY <1>3, <2>1, <2>6, <2>9, Zenon DEF HashTableReHash, empty
  <2> HIDE DEF grown
  <2> QED BY <2>6, <2>8, <2>10, Zenon DEF grown, S
<1> QED BY <1>2, <1>3

(* Nor does an insertion.                                                  *)
LEMMA NewEntryKeepsSlots ==
  ASSUME NEW table, NEW E, WellFormed(table, E), OneLength(E),
         NEW data, NEW key \in Keys, [key |-> key, data |-> data] \in E,
         NEW prime \in Nat, NeedsReHash(table) => prime # 0
  PROVE  WellFormed(HashTableNewEntry(table, data, key, prime).table, E)
<1> DEFINE grown == HashTableReHash(table, prime)
           entry == [key |-> key, data |-> data]
<1>1. WellFormed(grown, E)
  <2>1. WellFormed(grown, Entries(table)) /\ Entries(table) \subseteq E
    BY ReHashKeepsSlots, EntriesInSlots, Zenon
  <2> HIDE DEF grown
  <2> QED BY <2>1, WellFormedForMore
<1>2. grown.slots # NoSlots
  BY <1>1, WellFormedFields, Zenon
<1>3. entry \in E /\ entry.key \in Keys
  OBVIOUS
<1>4. WellFormed(HashTableNewEntryCalc(grown, entry).table, E)
  <2> HIDE DEF grown, entry
  <2> QED BY <1>1, <1>3, NewEntryCalc
<1> QED BY <1>2, <1>4, Zenon DEF HashTableNewEntry

----------------------------------------------------------------------------
(* The types of UserTables.                                                *)

NameEntries == [key : Names, data : Users]
SocketEntries == [key : Sockets, data : Users]

(* The tables of the server: the users table never grows, and only the     *)
(* other one can lose its slots.                                           *)
TablesOK ==
  /\ WellFormed(users, NameEntries)
  /\ users.capacity = HashTableInit(MaxClients).capacity
  /\ Usable(newUsers, SocketEntries)

(* The rest of TypeOK.                                                     *)
Types ==
  /\ state \in [Users -> {"none", "new", "negotiated", "freed"}]
  /\ socket \in [Users -> Sockets \cup {<<>>}]
  /\ name \in [Users -> Names \cup {<<>>}]
  /\ at \in [Users -> [Workers -> Locations]]
  /\ receiving \subseteq Users /\ sending \subseteq Users /\ freed \subseteq Users
  /\ broken \in BOOLEAN /\ running \in BOOLEAN /\ shutdown \in BOOLEAN
  /\ listener \in {"accepting", "joining", "stopped"}
  /\ late \in 0 .. MaxLate

(* The keys in use are keys of the table.                                  *)
LEMMA KeysInUse ==
  /\ Names \subseteq Keys /\ Sockets \subseteq Keys /\ <<>> \in Keys
  /\ \A e \in NameEntries : e.key \in Keys
  /\ \A e \in SocketEntries : e.key \in Keys
<1>1. Names \subseteq Keys /\ Sockets \subseteq Keys /\ <<>> \in Keys
  BY UserTablesAssumption
<1> QED BY <1>1 DEF NameEntries, SocketEntries

(* A table of the server has entries of the right type.                    *)
LEMMA UsableType ==
  ASSUME NEW table, NEW K, Usable(table, [key : K, data : Users])
  PROVE  /\ table.size \in 0 .. (WORD_RANGE - 1)
         /\ Entries(table) \subseteq [key : K, data : Users]
         /\ StoredUsers(table) \subseteq Users
         /\ TableOK(table, K)
<1> DEFINE E == [key : K, data : Users]
           In == Entries(table)
<1>1. table.size \in 0 .. (WORD_RANGE - 1) /\ In \subseteq E
  <2>1. CASE WellFormed(table, E)
    <3> HIDE DEF E
    <3> QED BY <2>1, WellFormedFields, EntriesInSlots, Zenon
  <2>2. CASE table.slots = NoSlots /\ table.size \in 0 .. (WORD_RANGE - 1)
    BY <2>2, NoSlotsNoEntries
  <2> QED BY <2>1, <2>2, Zenon DEF Usable
<1> HIDE DEF In
<1>2. \A e \in In : e.key \in K /\ e.data \in Users
  BY <1>1
<1>3. {e.data : e \in In} \subseteq Users
  BY <1>2
<1> QED BY <1>1, <1>2, <1>3, Zenon DEF TableOK, StoredUsers, In

(* TypeOK is about the tables and the rest.                                *)
LEMMA TypeParts ==
  /\ TablesOK => StoredUsers(users) \subseteq Users /\ StoredUsers(newUsers) \subseteq Users
  /\ TablesOK /\ Types => TypeOK
  /\ TypeOK => Types
<1>1. ASSUME TablesOK
      PROVE  /\ StoredUsers(users) \subseteq Users /\ TableOK(users, Names)
             /\ StoredUsers(newUsers) \subseteq Users /\ TableOK(newUsers, Sockets)
  <2>1. Usable(users, NameEntries) /\ Usable(newUsers, SocketEntries)
    BY <1>1, Zenon DEF TablesOK, Usable
  <2> QED BY <2>1, UsableType, Zenon DEF NameEntries, SocketEntries
<1> QED BY <1>1, Zenon DEF TypeOK, Types

(* A worker moves to a place it can be at.                                 *)
LEMMA MovedType ==
  ASSUME Types, NEW u \in Users, NEW w \in Workers, NEW place \in Locations
  PROVE  /\ Moved(u, w, place) \in [Users -> [Workers -> Locations]]
         /\ \A v \in Users, x \in Workers :
              Moved(u, w, place)[v][x] = IF v = u /\ x = w THEN place ELSE at[v][x]
<1> DEFINE P == [Workers -> Locations]
<1>1. at \in [Users -> P]
  BY DEF Types
<1>2. ASSUME NEW p \in P
      PROVE  /\ [p EXCEPT ![w] = place] \in P
             /\ \A x \in Workers : [p EXCEPT ![w] = place][x] = IF x = w THEN place ELSE p[x]
  OBVIOUS
<1> HIDE DEF P
<1>3. at[u] \in P
  BY <1>1
<1> DEFINE q == [at[u] EXCEPT ![w] = place]
<1>4. q \in P /\ \A x \in Workers : q[x] = IF x = w THEN place ELSE at[u][x]
  BY <1>2, <1>3
<1>5. Moved(u, w, place) = [at EXCEPT ![u] = q]
  BY DEF Moved
<1> HIDE DEF q
<1>6. [at EXCEPT ![u] = q] \in [Users -> P]
  BY <1>1, <1>4
<1>7. \A v \in Users : [at EXCEPT ![u] = q][v] = IF v = u THEN q ELSE at[v]
  BY <1>1
<1> QED BY <1>4, <1>5, <1>6, <1>7 DEF P

(* The first and the second worker.                                        *)
LEMMA WorkersAre == "first" \in Workers /\ "second" \in Workers /\ "first" # "second"
BY DEF Workers

----------------------------------------------------------------------------
(* The invariant.  While no freed memory has been used:                    *)

(* No worker is with a freed user.                                         *)
FreedIsIdle == \A u \in freed, w \in Workers : ~Busy(u, w)

(* Until the tables are destroyed, a user is freed when its state says so. *)
FreedState == listener # "stopped" => \A u \in Users : u \in freed <=> state[u] = "freed"

(* A user that is in the tables has a socket of its own.                   *)
SocketsDiffer ==
  /\ \A u, v \in Users : socket[u] = socket[v] => u = v \/ socket[u] = <<>>
  /\ \A u \in Users : state[u] \in {"new", "negotiated"} => socket[u] \in Sockets \ {<<>>}

(* A user that is not freed is stored under its socket and its name.       *)
KeysAreSockets == \A e \in Entries(newUsers) : e.data \notin freed => e.key = socket[e.data]
KeysAreNames == \A e \in Entries(users) : e.data \notin freed => e.key = name[e.data]

(* A user that is not freed enters the users table when its login is       *)
(* accepted, and has left the other one when the login is complete.        *)
UsersAreIn ==
  \A u \in StoredUsers(users) : u \notin freed =>
    state[u] = "negotiated" \/ at[u]["first"] = "naming"
NewAreNew ==
  \A u \in StoredUsers(newUsers) : u \notin freed =>
    state[u] = "new" \/ at[u]["first"] \in {"copying", "lockNew"} \/ shutdown

(* A structure no connection has been given is nowhere.                    *)
Unused ==
  \A u \in Users : state[u] = "none" =>
    /\ u \notin StoredUsers(users) /\ u \notin StoredUsers(newUsers)
    /\ socket[u] = <<>>
    /\ \A w \in Workers : at[u][w] = "idle"

(* The state of a user a worker is with.                                   *)
BusyState ==
  \A u \in Users :
    /\ \A w \in Workers : Busy(u, w) => state[u] \in {"new", "negotiated"}
    /\ at[u]["first"] \in {"copying", "lockNew", "leaving"} => state[u] = "negotiated"
    /\ at[u]["first"] \in {"naming", "lockLost"} => state[u] = "new"

Stopping == (listener # "accepting" => ~running) /\ (shutdown => ~running)

(* Who is logged in, or has been let in; the count of the users table has  *)
(* all of them, and never passes the limit.                                *)
LetIn == {u \in Users : u \notin freed /\ (state[u] = "negotiated" \/ at[u]["first"] = "naming")}
Limit ==
  /\ IsFiniteSet(LetIn) /\ Cardinality(LetIn) =< users.size
  /\ users.size =< MaxClients

Sound ==
  /\ WellFormed(newUsers, SocketEntries)
  /\ FreedIsIdle /\ FreedState /\ SocketsDiffer /\ KeysAreSockets /\ KeysAreNames
  /\ UsersAreIn /\ NewAreNew /\ Unused /\ BusyState /\ Stopping /\ Limit
  /\ StoredUsersAreLive

ServerInv ==
  /\ TypeOK /\ TablesOK /\ InBothWhileMoving
  /\ ~broken => Sound

(* What is found in the parts of the invariant before a step.              *)
LEMMA BeforeStep ==
  ServerInv /\ ~broken =>
    /\ Types /\ TablesOK /\ InBothWhileMoving
    /\ WellFormed(newUsers, SocketEntries)
    /\ FreedIsIdle /\ FreedState /\ SocketsDiffer /\ KeysAreSockets /\ KeysAreNames
    /\ UsersAreIn /\ NewAreNew /\ Unused /\ BusyState /\ Stopping /\ Limit
    /\ StoredUsersAreLive
    /\ StoredUsers(users) \subseteq Users /\ StoredUsers(newUsers) \subseteq Users
BY TypeParts, Zenon DEF ServerInv, Sound

(* What remains to be shown of the invariant after a step.                 *)
Kept ==
  /\ TablesOK' /\ InBothWhileMoving'
  /\ ~broken' => Sound'

(* With no more users in the tables, and none taken off the move before    *)
(* it is out of one of them or the server ends, a user is still in both    *)
(* only while moving.                                                      *)
LEMMA BothKept ==
  ASSUME InBothWhileMoving, StoredUsers(users) \subseteq Users,
         StoredUsers(users') \subseteq StoredUsers(users),
         StoredUsers(newUsers') \subseteq StoredUsers(newUsers),
         shutdown => shutdown',
         \A v \in Users : at[v]["first"] \in {"naming", "copying", "lockNew"} =>
            \/ at'[v]["first"] \in {"naming", "copying", "lockNew"} \/ shutdown'
            \/ v \notin StoredUsers(newUsers')
  PROVE  InBothWhileMoving'
BY DEF InBothWhileMoving

(* A step that leaves the users as they are, at most takes some out of the *)
(* new users table, and at most moves one worker: the places it may come   *)
(* from and go to.                                                         *)
LegalMove(u, w, place) ==
  /\ state[u] \in {"new", "negotiated"} /\ listener # "stopped"
  /\ \/ at[u][w] = "idle" /\ place = "done"
     \/ at[u][w] = "idle" /\ place = "lockLost" /\ state[u] = "new"
     \/ w = "first" /\ at[u][w] = "idle" /\ place = "leaving" /\ state[u] = "negotiated"
     \/ w = "first" /\ at[u][w] = "copying" /\ place = "lockNew"
     \/ /\ w = "first" /\ at[u][w] = "lockNew" /\ place = "idle"
        /\ u \notin StoredUsers(newUsers')
     \/ shutdown /\ at[u][w] \in {"lockNew", "lockLost", "leaving"} /\ place = "done"

(* Such a step keeps the invariant.                                        *)
LEMMA MoveStep ==
  ASSUME ServerInv, ~broken,
         UNCHANGED <<users, state, socket, name, freed, broken>>,
         WellFormed(newUsers', SocketEntries),
         Entries(newUsers') \subseteq Entries(newUsers),
         running' => running, shutdown => shutdown', shutdown' => ~running',
         listener' # "accepting" => ~running',
         listener' # "stopped" => listener # "stopped",
         NEW u \in Users, NEW w \in Workers, NEW place \in Locations,
         at' = at \/ (at' = Moved(u, w, place) /\ LegalMove(u, w, place))
  PROVE  Kept
<1>1. /\ Types /\ TablesOK /\ InBothWhileMoving
      /\ WellFormed(newUsers, SocketEntries)
      /\ FreedIsIdle /\ FreedState /\ SocketsDiffer /\ KeysAreSockets /\ KeysAreNames
      /\ UsersAreIn /\ NewAreNew /\ Unused /\ BusyState /\ Stopping /\ Limit
      /\ StoredUsersAreLive
      /\ StoredUsers(users) \subseteq Users /\ StoredUsers(newUsers) \subseteq Users
  BY BeforeStep, Zenon
<1>2. ASSUME NEW v \in Users, NEW x \in Workers
      PROVE  \/ at'[v][x] = at[v][x]
             \/ v = u /\ x = w /\ at'[v][x] = place /\ LegalMove(u, w, place)
  <2>1. Moved(u, w, place)[v][x] = IF v = u /\ x = w THEN place ELSE at[v][x]
    BY <1>1, MovedType
  <2> QED BY <2>1
<1>3. ASSUME NEW v \in Users
      PROVE  \/ at'[v]["first"] = at[v]["first"]
             \/ /\ v = u /\ state[v] \in {"new", "negotiated"}
                /\ \/ at'[v]["first"] = "done" /\ at[v]["first"] = "idle"
                   \/ at'[v]["first"] = "lockLost" /\ at[v]["first"] = "idle" /\ state[v] = "new"
                   \/ /\ at'[v]["first"] = "leaving" /\ at[v]["first"] = "idle"
                      /\ state[v] = "negotiated"
                   \/ at'[v]["first"] = "lockNew" /\ at[v]["first"] = "copying"
                   \/ /\ at'[v]["first"] = "idle" /\ at[v]["first"] = "lockNew"
                      /\ v \notin StoredUsers(newUsers')
                   \/ /\ at'[v]["first"] = "done" /\ shutdown
                      /\ at[v]["first"] \in {"lockNew", "lockLost", "leaving"}
  BY <1>2, WorkersAre DEF LegalMove
<1>4. TablesOK' /\ StoredUsers(newUsers') \subseteq StoredUsers(newUsers)
  BY <1>1 DEF TablesOK, Usable, StoredUsers
<1>5. InBothWhileMoving'
  BY <1>1, <1>3, <1>4, BothKept
<1>6. ASSUME NEW v \in Users, NEW x \in Workers, at'[v][x] \in BusyAt
      PROVE  state[v] \in {"new", "negotiated"} /\ v \notin freed
  <2>1. CASE at'[v][x] = at[v][x]
    BY <1>1, <1>6, <2>1 DEF BusyState, FreedIsIdle, Busy
  <2>2. CASE v = u /\ LegalMove(u, w, place)
    BY <1>1, <2>2 DEF LegalMove, FreedState
  <2> QED BY <1>2, <2>1, <2>2
<1>7. FreedIsIdle' /\ FreedState' /\ SocketsDiffer' /\ KeysAreSockets' /\ KeysAreNames'
  <2>1. freed \subseteq Users
    BY <1>1 DEF Types
  <2>2. FreedIsIdle'
    BY <1>6, <2>1 DEF FreedIsIdle, Busy
  <2>3. FreedState' /\ SocketsDiffer' /\ KeysAreSockets' /\ KeysAreNames'
    BY <1>1 DEF FreedState, SocketsDiffer, KeysAreSockets, KeysAreNames
  <2> QED BY <2>2, <2>3
<1>8. UsersAreIn' /\ NewAreNew'
  <2>1. UsersAreIn'
    BY <1>1, <1>3 DEF UsersAreIn
  <2>2. NewAreNew'
    BY <1>1, <1>3, <1>4 DEF NewAreNew
  <2> QED BY <2>1, <2>2
<1>9. Unused'
  <2>1. ASSUME NEW v \in Users, state[v] = "none", NEW x \in Workers PROVE at'[v][x] = "idle"
    BY <1>1, <1>2, <2>1 DEF LegalMove, Unused
  <2> QED BY <1>1, <1>4, <2>1 DEF Unused
<1>10. BusyState'
  <2>1. ASSUME NEW v \in Users
        PROVE  /\ at'[v]["first"] \in {"copying", "lockNew", "leaving"} => state[v] = "negotiated"
               /\ at'[v]["first"] \in {"naming", "lockLost"} => state[v] = "new"
    BY <1>1, <1>3 DEF BusyState
  <2> QED BY <1>6, <2>1 DEF BusyState, Busy
<1>11. Stopping'
  BY DEF Stopping
<1>12. Limit'
  <2>1. LetIn' \subseteq LetIn
    BY <1>3 DEF LetIn
  <2>2. IsFiniteSet(LetIn') /\ Cardinality(LetIn') =< Cardinality(LetIn)
        /\ Cardinality(LetIn') \in Nat /\ Cardinality(LetIn) \in Nat
    BY <1>1, <2>1, FS_Subset, FS_CardinalityType DEF Limit
  <2>3. users.size \in Nat
    BY <1>1, WellFormedFields, WordCount, Zenon DEF TablesOK
  <2> HIDE DEF LetIn
  <2> QED BY <1>1, <2>2, <2>3 DEF Limit
<1>13. StoredUsersAreLive'
  <2>1. ASSUME running, NEW v \in StoredUsers(users) \cup StoredUsers(newUsers'), v \in freed
        PROVE  at'[v]["second"] = "done"
    <3>1. at[v]["second"] = "done" /\ v \in Users
      BY <1>1, <1>4, <2>1 DEF StoredUsersAreLive
    <3> QED BY <1>2, <3>1, WorkersAre DEF LegalMove
  <2> QED BY <2>1 DEF StoredUsersAreLive
<1> QED BY <1>4, <1>5, <1>7, <1>8, <1>9, <1>10, <1>11, <1>12, <1>13, Zenon DEF Kept, Sound

(* A count of m_wSize after one removal.                                   *)
OneLess(n) == (n - 1) % WORD_RANGE

(* The users of a table, the dead ones apart, are stored under their keys. *)
UnderOwnKeys(table, owned, dead) ==
  \A e \in Entries(table) : e.data \notin dead => e.key = owned[e.data]

(* After a removal by key, found is a user who has left, or nobody left;   *)
(* in any case no live user that owns the key is still there.              *)
Removal(table, K, owned, dead, key, after, found) ==
  /\ WellFormed(after, [key : K, data : Users])
  /\ after.capacity = table.capacity
  /\ Entries(after) \subseteq Entries(table)
  /\ StoredUsers(after) \subseteq StoredUsers(table)
  /\ \/ found = NoUser /\ after = table
     \/ /\ found \in StoredUsers(table) /\ found \in Users /\ found # NoUser
        /\ found \notin dead =>
             /\ found \notin StoredUsers(after)
             /\ owned[found] \in K
             /\ CompareMemory(owned[found], key, Len(key))
        /\ after.size = OneLess(table.size)
  /\ \A v \in Users : v \notin dead /\ owned[v] = key => v \notin StoredUsers(after)

(* A removal by key from a table whose users, the freed ones apart, are    *)
(* each stored under the key they own: who is found leaves the table, and  *)
(* no user that owns that key remains.                                     *)
LEMMA RemoveOwner ==
  ASSUME NEW table, NEW K \in SUBSET Keys, WellFormed(table, [key : K, data : Users]),
         NEW owned, NEW dead, NEW key \in Keys,
         UnderOwnKeys(table, owned, dead)
  PROVE  Removal(table, K, owned, dead, key, HashTableDestroyEntry(table, key),
                 HashTableReturnEntry(table, key))
<1> DEFINE E == [key : K, data : Users]
           after == HashTableDestroyEntry(table, key)
           found == HashTableReturnEntry(table, key)
           SlotOf(k) == Slot(k, table.capacity)
           Before == Entries(table)
           After == Entries(after)
<1>1. /\ WellFormed(after, E)
      /\ after.capacity = table.capacity
      /\ \/ /\ found = NoUser /\ after = table
            /\ \A e \in Before : SlotOf(e.key) = SlotOf(key) => ~CompareMemory(e.key, key, Len(key))
         \/ \E e \in Before :
              /\ CompareMemory(e.key, key, Len(key)) /\ found = e.data /\ SlotOf(e.key) = SlotOf(key)
              /\ \A d \in Before : SlotOf(d.key) = SlotOf(key) => d = e
              /\ After = Before \ {e}
              /\ after.size = OneLess(table.size)
  <2>1. WellFormed(table, E)
    OBVIOUS
  <2> HIDE DEF E
  <2> QED BY <2>1, LookupAndRemove DEF OneLess
<1>2. \A e \in Before : e.key \in K /\ e.data \in Users
  <2>1. Before \subseteq E
    BY EntriesInSlots, Zenon
  <2> HIDE DEF Before
  <2> QED BY <2>1
<1>3. CompareMemory(key, key, Len(key))
  <2>1. Len(key) \in Nat
    BY HashTableAssumption
  <2> QED BY <2>1 DEF CompareMemory
<1>4. /\ StoredUsers(after) = {e.data : e \in After}
      /\ StoredUsers(table) = {e.data : e \in Before}
  BY Zenon DEF StoredUsers
<1>5. \A e \in Before : e.data \notin dead => e.key = owned[e.data]
  BY Zenon DEF UnderOwnKeys
<1> HIDE DEF after, found, SlotOf, Before, After
<1>6. CASE /\ found = NoUser /\ after = table
           /\ \A e \in Before : SlotOf(e.key) = SlotOf(key) => ~CompareMemory(e.key, key, Len(key))
  <2>1. After = Before
    BY <1>6 DEF After, Before
  <2>2. ASSUME NEW v \in Users, v \notin dead, owned[v] = key PROVE v \notin StoredUsers(after)
    <3>1. ASSUME NEW e \in Before, e.data = v PROVE FALSE
      BY <1>3, <1>5, <1>6, <2>2, <3>1
    <3> QED BY <1>4, <2>1, <3>1
  <2>3. StoredUsers(after) \subseteq StoredUsers(table)
    BY <1>4, <2>1
  <2> QED BY <1>1, <1>6, <2>1, <2>2, <2>3, Zenon DEF Removal, after, found, After, Before
<1>7. ASSUME NEW e \in Before, CompareMemory(e.key, key, Len(key)), found = e.data,
             SlotOf(e.key) = SlotOf(key),
             \A d \in Before : SlotOf(d.key) = SlotOf(key) => d = e,
             After = Before \ {e}, after.size = OneLess(table.size)
      PROVE  /\ After \subseteq Before
             /\ StoredUsers(after) \subseteq StoredUsers(table)
             /\ found \in StoredUsers(table) /\ found \in Users /\ found # NoUser
             /\ found \notin dead =>
                        /\ found \notin StoredUsers(after)
                        /\ owned[found] \in K
                        /\ CompareMemory(owned[found], key, Len(key))
             /\ \A v \in Users : v \notin dead /\ owned[v] = key => v \notin StoredUsers(after)
  <2>1. After \subseteq Before
    BY <1>7
  <2>2. StoredUsers(after) \subseteq StoredUsers(table)
    BY <1>4, <2>1
  <2>3. found \in StoredUsers(table) /\ found \in Users /\ found # NoUser
    BY <1>2, <1>4, <1>7, UserTablesAssumption
  <2>4. ASSUME found \notin dead
        PROVE  /\ found \notin StoredUsers(after)
               /\ owned[found] \in K
               /\ CompareMemory(owned[found], key, Len(key))
    <3>1. e.key = owned[found]
      BY <1>5, <1>7, <2>4
    <3>2. ASSUME NEW d \in After, d.data = found PROVE FALSE
      <4>1. d \in Before /\ d # e
        BY <1>7
      <4>2. d.key = e.key
        BY <1>5, <2>4, <3>1, <3>2, <4>1
      <4> QED BY <1>7, <4>1, <4>2
    <3> QED BY <1>2, <1>4, <1>7, <3>1, <3>2
  <2>5. ASSUME NEW v \in Users, v \notin dead, owned[v] = key PROVE v \notin StoredUsers(after)
    <3>1. ASSUME NEW d \in After, d.data = v PROVE FALSE
      <4>1. d \in Before /\ d # e
        BY <1>7
      <4>2. d.key = key
        BY <1>5, <2>5, <3>1, <4>1
      <4> QED BY <1>7, <4>1, <4>2
    <3> QED BY <1>4, <3>1
  <2> QED BY <2>1, <2>2, <2>3, <2>4, <2>5
<1> QED
  <2>1. CASE \E e \in Before :
              /\ CompareMemory(e.key, key, Len(key)) /\ found = e.data /\ SlotOf(e.key) = SlotOf(key)
              /\ \A d \in Before : SlotOf(d.key) = SlotOf(key) => d = e
              /\ After = Before \ {e}
              /\ after.size = OneLess(table.size)
    BY <1>1, <1>7, <2>1, Zenon DEF Removal, after, found, After, Before
  <2> QED BY <1>1, <1>6, <2>1

(* What freeing a user keeps, whoever it is, while no freed memory is      *)
(* used: the counts and what the tables hold of freed users are left.      *)
LEMMA FreeStep ==
  ASSUME ServerInv, ~broken, ~broken', NEW u \in Users, NEW w \in Workers, NEW gone \in Users,
         FreeUser(gone, u, w), at' = Moved(u, w, "done"),
         listener # "stopped", listener' = listener,
         state[u] \in {"new", "negotiated"}, at[u][w] \in {"idle", "leaving", "lockLost"},
         Entries(users') \subseteq Entries(users),
         Entries(newUsers') \subseteq Entries(newUsers),
         running' => running, shutdown => shutdown', shutdown' => ~running'
  PROVE  /\ gone \notin freed
         /\ \A x \in Workers : Busy(gone, x) => gone = u /\ x = w
         /\ FreedIsIdle' /\ FreedState' /\ SocketsDiffer' /\ KeysAreSockets' /\ KeysAreNames'
         /\ UsersAreIn' /\ NewAreNew' /\ Unused' /\ BusyState' /\ Stopping'
         /\ LetIn' \subseteq LetIn \ {gone}
<1>1. /\ Types
      /\ FreedIsIdle /\ FreedState /\ SocketsDiffer /\ KeysAreSockets /\ KeysAreNames
      /\ UsersAreIn /\ NewAreNew /\ Unused /\ BusyState /\ Stopping
      /\ StoredUsers(users) \subseteq Users /\ StoredUsers(newUsers) \subseteq Users
  BY BeforeStep, Zenon
<1>2. /\ freed' = freed \cup {gone}
      /\ state' = [state EXCEPT ![gone] = "freed"]
      /\ socket' = [socket EXCEPT ![gone] = <<>>]
      /\ name' = [name EXCEPT ![gone] = <<>>]
  BY Zenon DEF FreeUser
<1>3. gone \notin freed /\ \A x \in Workers : Busy(gone, x) => gone = u /\ x = w
  BY DEF FreeUser
<1>4. /\ \A v \in Users : state'[v] = IF v = gone THEN "freed" ELSE state[v]
      /\ \A v \in Users : socket'[v] = IF v = gone THEN <<>> ELSE socket[v]
      /\ \A v \in Users : v # gone => name'[v] = name[v]
  BY <1>1, <1>2 DEF Types
<1>5. \A v \in Users, x \in Workers : at'[v][x] = IF v = u /\ x = w THEN "done" ELSE at[v][x]
  BY <1>1, MovedType DEF Locations
<1>6. /\ StoredUsers(users') \subseteq StoredUsers(users)
      /\ StoredUsers(newUsers') \subseteq StoredUsers(newUsers)
  BY DEF StoredUsers
<1>7. \A v \in Users, x \in Workers : at'[v][x] \in BusyAt => at[v][x] \in BusyAt /\ v # gone
  BY <1>3, <1>5 DEF Busy, BusyAt
<1>8. freed \subseteq Users /\ u \notin freed
  BY <1>1 DEF Types, FreedState
<1>9. FreedIsIdle'
  BY <1>1, <1>2, <1>7, <1>8 DEF FreedIsIdle, Busy
<1>10. FreedState'
  BY <1>1, <1>2, <1>4 DEF FreedState
<1>11. SocketsDiffer'
  BY <1>1, <1>4 DEF SocketsDiffer
<1>12. KeysAreSockets' /\ KeysAreNames'
  <2>1. \A e \in Entries(users) : e.data \in Users
    BY <1>1 DEF StoredUsers
  <2>2. \A e \in Entries(newUsers) : e.data \in Users
    BY <1>1 DEF StoredUsers
  <2>3. KeysAreNames'
    BY <1>1, <1>2, <1>4, <2>1 DEF KeysAreNames
  <2>4. KeysAreSockets'
    BY <1>1, <1>2, <1>4, <2>2 DEF KeysAreSockets
  <2> QED BY <2>3, <2>4
<1>13. ASSUME NEW v \in Users
       PROVE  at'[v]["first"] = at[v]["first"] \/
                (at'[v]["first"] = "done" /\ at[v]["first"] \in {"idle", "leaving", "lockLost"})
  BY <1>5, WorkersAre
<1>14. UsersAreIn'
  BY <1>1, <1>2, <1>4, <1>6, <1>13 DEF UsersAreIn
<1>15. NewAreNew'
  BY <1>1, <1>2, <1>4, <1>6, <1>13 DEF NewAreNew
<1>16. Unused'
  <2>1. ASSUME NEW v \in Users, state'[v] = "none"
        PROVE  /\ state[v] = "none" /\ v # gone /\ v # u
               /\ \A x \in Workers : at'[v][x] = at[v][x]
    BY <1>4, <1>5, <2>1
  <2> QED BY <1>1, <1>4, <1>6, <2>1 DEF Unused
<1>17. BusyState'
  <2>1. ASSUME NEW v \in Users, NEW x \in Workers, at'[v][x] \in BusyAt
        PROVE  state'[v] \in {"new", "negotiated"}
    BY <1>1, <1>4, <1>7, <2>1 DEF BusyState, Busy
  <2>2. ASSUME NEW v \in Users
        PROVE  /\ at'[v]["first"] \in {"copying", "lockNew", "leaving"} => state'[v] = "negotiated"
               /\ at'[v]["first"] \in {"naming", "lockLost"} => state'[v] = "new"
    <3>1. at'[v]["first"] \in BusyAt => at'[v]["first"] = at[v]["first"] /\ state'[v] = state[v]
      BY <1>4, <1>7, <1>13, WorkersAre DEF BusyAt
    <3> QED BY <1>1, <3>1 DEF BusyState, BusyAt
  <2> QED BY <2>1, <2>2 DEF BusyState, Busy
<1>18. Stopping'
  BY <1>1 DEF Stopping
<1>19. LetIn' \subseteq LetIn \ {gone}
  BY <1>2, <1>4, <1>13 DEF LetIn
<1> QED BY <1>3, <1>9, <1>10, <1>11, <1>12, <1>14, <1>15, <1>16, <1>17, <1>18, <1>19, Zenon

(* The limit after a step in which nobody is let in, and who leaves the    *)
(* users table was in.                                                     *)
LEMMA LimitKept ==
  ASSUME Limit, users.size \in 0 .. (WORD_RANGE - 1), NEW gone,
         LetIn' \subseteq LetIn \ {gone},
         \/ users' = users
         \/ gone \in LetIn /\ users'.size = OneLess(users.size)
  PROVE  Limit'
<1> DEFINE L == LetIn
           size == users.size
<1>1. /\ IsFiniteSet(L) /\ Cardinality(L) \in Nat /\ Cardinality(L) =< size /\ size =< MaxClients
      /\ MaxClients \in Nat
  BY FS_CardinalityType, UserTablesAssumption, Zenon DEF Limit
<1>2. /\ IsFiniteSet(L \ {gone})
      /\ Cardinality(L \ {gone}) = IF gone \in L THEN Cardinality(L) - 1 ELSE Cardinality(L)
  BY <1>1, FS_RemoveElement
<1>3. /\ IsFiniteSet(LetIn') /\ Cardinality(LetIn') =< Cardinality(L \ {gone})
      /\ Cardinality(LetIn') \in Nat
  BY <1>2, FS_Subset, FS_CardinalityType
<1>4. size \in Nat /\ (size > 0 => OneLess(size) = size - 1)
  BY WordCount, Zenon DEF OneLess
<1> HIDE DEF L, size
<1>5. CASE users'.size = size
  BY <1>1, <1>2, <1>3, <1>4, <1>5 DEF Limit
<1>6. CASE gone \in L /\ users'.size = OneLess(size)
  <2>1. size > 0
    <3>1. Cardinality(L) # 0
      BY <1>1, <1>6, FS_EmptySet
    <3> QED BY <1>1, <1>4, <3>1
  <2>2. users'.size = size - 1
    BY <1>4, <1>6, <2>1
  <2> QED BY <1>1, <1>2, <1>3, <1>4, <1>6, <2>2 DEF Limit
<1> QED BY <1>5, <1>6 DEF L, size

(* The name a worker goes by is a key.                                     *)
LEMMA UsernameIsKey ==
  ASSUME Types, NEW u \in Users
  PROVE  Username(u) \in Keys
BY KeysInUse DEF Types, Username

(* A removal from the users table, by any key.                             *)
LEMMA RemoveFromUsers ==
  ASSUME ServerInv, ~broken, NEW key \in Keys, users' = HashTableDestroyEntry(users, key)
  PROVE  LET found == HashTableReturnEntry(users, key) IN
         /\ WellFormed(users', NameEntries) /\ users'.capacity = users.capacity
         /\ Entries(users') \subseteq Entries(users)
         /\ StoredUsers(users') \subseteq StoredUsers(users)
         /\ users.size \in 0 .. (WORD_RANGE - 1)
         /\ \/ found = NoUser /\ users' = users
            \/ /\ found \in StoredUsers(users) /\ found \in Users /\ found # NoUser
               /\ found \notin freed => found \notin StoredUsers(users') /\ found \in LetIn
               /\ users'.size = OneLess(users.size)
<1> DEFINE found == HashTableReturnEntry(users, key)
<1>1. /\ WellFormed(users, NameEntries) /\ KeysAreNames /\ UsersAreIn
  BY BeforeStep, Zenon DEF TablesOK
<1>2. Names \in SUBSET Keys
  BY KeysInUse
<1>3. UnderOwnKeys(users, name, freed)
  BY <1>1, Zenon DEF KeysAreNames, UnderOwnKeys
<1>4. users.size \in 0 .. (WORD_RANGE - 1)
  BY <1>1, WellFormedFields, Zenon
<1>5. /\ WellFormed(users', NameEntries) /\ users'.capacity = users.capacity
      /\ Entries(users') \subseteq Entries(users)
      /\ StoredUsers(users') \subseteq StoredUsers(users)
      /\ \/ found = NoUser /\ users' = users
         \/ /\ found \in StoredUsers(users) /\ found \in Users /\ found # NoUser
            /\ found \notin freed => found \notin StoredUsers(users')
            /\ users'.size = OneLess(users.size)
  <2> DEFINE after == HashTableDestroyEntry(users, key)
  <2>1. WellFormed(users, [key : Names, data : Users])
    BY <1>1 DEF NameEntries
  <2>2. key \in Keys
    OBVIOUS
  <2>3. Removal(users, Names, name, freed, key, after, found)
    BY ONLY <1>2, <1>3, <2>1, <2>2, RemoveOwner
  <2> QED BY <2>3, Zenon DEF Removal, NameEntries
<1> HIDE DEF found
<1>6. found \in StoredUsers(users) /\ found \in Users /\ found \notin freed => found \in LetIn
  BY <1>1 DEF UsersAreIn, LetIn
<1> QED BY <1>4, <1>5, <1>6, Zenon DEF found

(* A removal from the new users table by the socket of a user that is not  *)
(* freed: only that user can be found, the freed ones apart, and it is out *)
(* of the table.                                                           *)
LEMMA RemoveFromNew ==
  ASSUME ServerInv, ~broken, NEW u \in Users, state[u] \in {"new", "negotiated"},
         listener # "stopped", newUsers' = HashTableDestroyEntry(newUsers, socket[u])
  PROVE  LET found == HashTableReturnEntry(newUsers, socket[u]) IN
         /\ WellFormed(newUsers', SocketEntries)
         /\ Entries(newUsers') \subseteq Entries(newUsers)
         /\ StoredUsers(newUsers') \subseteq StoredUsers(newUsers)
         /\ u \notin freed /\ u \notin StoredUsers(newUsers')
         /\ found # NoUser => found \in Users /\ (found \in freed \/ found = u)
<1> DEFINE found == HashTableReturnEntry(newUsers, socket[u])
<1>1. /\ WellFormed(newUsers, SocketEntries) /\ KeysAreSockets /\ SocketsDiffer /\ FreedState
  BY BeforeStep, Zenon
<1>2. Sockets \in SUBSET Keys
  BY KeysInUse
<1>3. UnderOwnKeys(newUsers, socket, freed)
  BY <1>1, Zenon DEF KeysAreSockets, UnderOwnKeys
<1>4. u \notin freed /\ socket[u] \in Sockets \ {<<>>} /\ socket[u] \in Keys
  BY <1>1, <1>2 DEF FreedState, SocketsDiffer
<1>5. /\ WellFormed(newUsers', SocketEntries)
      /\ Entries(newUsers') \subseteq Entries(newUsers)
      /\ StoredUsers(newUsers') \subseteq StoredUsers(newUsers)
      /\ \/ found = NoUser
         \/ /\ found \in Users /\ found # NoUser
            /\ found \notin freed =>
                 socket[found] \in Sockets /\ CompareMemory(socket[found], socket[u], Len(socket[u]))
      /\ \A v \in Users : v \notin freed /\ socket[v] = socket[u] => v \notin StoredUsers(newUsers')
  <2> DEFINE after == HashTableDestroyEntry(newUsers, socket[u])
  <2>1. WellFormed(newUsers, [key : Sockets, data : Users])
    BY <1>1 DEF SocketEntries
  <2>2. Removal(newUsers, Sockets, socket, freed, socket[u], after, found)
    BY ONLY <1>2, <1>3, <1>4, <2>1, RemoveOwner
  <2> QED BY <2>2, Zenon DEF Removal, SocketEntries
<1> HIDE DEF found
<1>6. ASSUME found \in Users, found \notin freed, socket[found] \in Sockets,
             CompareMemory(socket[found], socket[u], Len(socket[u]))
      PROVE  found = u
  <2>1. Len(socket[found]) = Len(socket[u])
    BY <1>4, <1>6, UserTablesAssumption
  <2>2. socket[found] = socket[u]
    BY <1>2, <1>4, <1>6, <2>1, SameLengthSameKey
  <2> QED BY <1>1, <1>4, <1>6, <2>2 DEF SocketsDiffer
<1> QED BY <1>4, <1>5, <1>6, Zenon DEF found

(* The user that was found and leaves the users table while the server     *)
(* runs, handled by nobody else, was in that table alone.                  *)
LEMMA NotInNew ==
  ASSUME ServerInv, ~broken, running, NEW found \in StoredUsers(users), found \notin freed,
         at[found]["first"] \notin {"naming", "copying", "lockNew"}
  PROVE  found \notin StoredUsers(newUsers)
<1>1. UsersAreIn /\ NewAreNew /\ Stopping
  BY BeforeStep, Zenon
<1>2. state[found] = "negotiated" /\ ~shutdown
  BY <1>1 DEF UsersAreIn, Stopping
<1> QED BY <1>1, <1>2 DEF NewAreNew

(* A logout, or the loss of a user that is logged in: the name is removed  *)
(* and a user is freed.                                                    *)
LEMMA LeaveUsers ==
  ASSUME ServerInv, ~broken, NEW u \in Users, NEW w \in Workers, NEW gone \in Users,
         listener # "stopped", listener' = listener,
         state[u] = "negotiated", w = "first" \/ at[u][w] = "idle",
         at[u][w] \in {"idle", "leaving"},
         users' = HashTableDestroyEntry(users, Username(u)), newUsers' = newUsers,
         FreeUser(gone, u, w), at' = Moved(u, w, "done"),
         \/ gone = HashTableReturnEntry(users, Username(u))
         \/ /\ HashTableReturnEntry(users, Username(u)) = NoUser
            /\ ~running',
         running' => running, shutdown => shutdown', shutdown' => ~running'
  PROVE  Kept
<1> DEFINE found == HashTableReturnEntry(users, Username(u))
<1>1. /\ Types /\ TablesOK /\ InBothWhileMoving /\ WellFormed(newUsers, SocketEntries)
      /\ Limit /\ StoredUsersAreLive
      /\ StoredUsers(users) \subseteq Users /\ StoredUsers(newUsers) \subseteq Users
  BY BeforeStep, Zenon
<1>2. Username(u) \in Keys
  BY <1>1, UsernameIsKey
<1>3. /\ WellFormed(users', NameEntries) /\ users'.capacity = users.capacity
      /\ Entries(users') \subseteq Entries(users)
      /\ StoredUsers(users') \subseteq StoredUsers(users)
      /\ users.size \in 0 .. (WORD_RANGE - 1)
      /\ \/ found = NoUser /\ users' = users
         \/ /\ found \in StoredUsers(users) /\ found \in Users /\ found # NoUser
            /\ found \notin freed => found \notin StoredUsers(users') /\ found \in LetIn
            /\ users'.size = OneLess(users.size)
  BY <1>2, RemoveFromUsers, Zenon
<1> HIDE DEF found
<1>4. gone = found \/ (found = NoUser /\ ~running')
  BY Zenon DEF found
<1>5. gone # NoUser
  BY UserTablesAssumption
<1>6. \A v \in Users, x \in Workers : at'[v][x] = IF v = u /\ x = w THEN "done" ELSE at[v][x]
  BY <1>1, MovedType DEF Locations
<1>7. TablesOK'
  BY <1>1, <1>3 DEF TablesOK
<1>8. InBothWhileMoving'
  <2>1. \A v \in Users : at[v]["first"] \in {"naming", "copying", "lockNew"} =>
           at'[v]["first"] = at[v]["first"]
    BY <1>6, WorkersAre
  <2> QED BY <1>1, <1>3, <2>1, BothKept
<1>9. ASSUME ~broken' PROVE Sound'
  <2>1. Entries(newUsers') \subseteq Entries(newUsers)
    OBVIOUS
  <2>2. /\ gone \notin freed
        /\ \A x \in Workers : Busy(gone, x) => gone = u /\ x = w
        /\ FreedIsIdle' /\ FreedState' /\ SocketsDiffer' /\ KeysAreSockets' /\ KeysAreNames'
        /\ UsersAreIn' /\ NewAreNew' /\ Unused' /\ BusyState' /\ Stopping'
        /\ LetIn' \subseteq LetIn \ {gone}
    BY <1>3, <1>9, <2>1, FreeStep
  <2>3. WellFormed(newUsers, SocketEntries)'
    BY <1>1
  <2>4. Limit'
    BY <1>1, <1>3, <1>4, <1>5, <2>2, LimitKept, Zenon
  <2>5. StoredUsersAreLive'
    <3> SUFFICES ASSUME running', NEW v \in StoredUsers(users') \cup StoredUsers(newUsers'),
                        v \in freed'
                 PROVE  at'[v]["second"] = "done"
      BY DEF StoredUsersAreLive
    <3>1. running /\ gone = found /\ found # NoUser
      BY <1>4, <1>5
    <3>2. found \in StoredUsers(users) /\ found \notin StoredUsers(users')
      BY <1>3, <2>2, <3>1
    <3>3. at[found]["first"] \notin {"naming", "copying", "lockNew"}
      BY <2>2, <3>1, WorkersAre DEF Busy, BusyAt
    <3>4. found \notin StoredUsers(newUsers)
      BY <2>2, <3>1, <3>2, <3>3, NotInNew
    <3>5. v # gone /\ v \in freed
      BY <3>1, <3>2, <3>4 DEF FreeUser
    <3>6. at[v]["second"] = "done" /\ v \in Users
      BY <1>1, <1>3, <3>1, <3>5 DEF StoredUsersAreLive
    <3> QED BY <1>6, <3>6, WorkersAre
  <2> QED BY <2>2, <2>3, <2>4, <2>5, Zenon DEF Sound
<1> QED BY <1>7, <1>8, <1>9, Zenon DEF Kept

(* The loss of a new user: only that user is freed, or the end is near.    *)
LEMMA RemoveLostKeeps ==
  ASSUME ServerInv, ~broken, listener # "stopped", NEW u \in Users, NEW w \in Workers,
         RemoveLost(u, w)
  PROVE  Kept
<1> DEFINE found == HashTableReturnEntry(newUsers, socket[u])
           gone == IF found = NoUser THEN u ELSE found
<1>1. /\ Types /\ TablesOK /\ InBothWhileMoving
      /\ Limit /\ StoredUsersAreLive /\ BusyState /\ UsersAreIn /\ Stopping
      /\ StoredUsers(users) \subseteq Users /\ StoredUsers(newUsers) \subseteq Users
  BY BeforeStep, Zenon
<1>2. /\ at[u][w] = "lockLost" /\ at' = Moved(u, w, "done")
      /\ newUsers' = HashTableDestroyEntry(newUsers, socket[u])
      /\ users' = users /\ listener' = listener /\ running' = running /\ shutdown' = shutdown
  BY DEF RemoveLost, server
<1>3. state[u] \in {"new", "negotiated"}
  BY <1>1, <1>2 DEF BusyState, Busy, BusyAt
<1>4. /\ WellFormed(newUsers', SocketEntries)
      /\ Entries(newUsers') \subseteq Entries(newUsers)
      /\ StoredUsers(newUsers') \subseteq StoredUsers(newUsers)
      /\ u \notin freed /\ u \notin StoredUsers(newUsers')
      /\ found # NoUser => found \in Users /\ (found \in freed \/ found = u)
  BY <1>2, <1>3, RemoveFromNew, Zenon
<1>5. FreeUser(gone, u, w)
  BY Zenon DEF RemoveLost
<1> HIDE DEF found
<1>6. gone \in Users /\ (gone \in freed \/ gone = u)
  BY <1>4
<1> HIDE DEF gone
<1>7. \A v \in Users, x \in Workers : at'[v][x] = IF v = u /\ x = w THEN "done" ELSE at[v][x]
  BY <1>1, <1>2, MovedType DEF Locations
<1>8. TablesOK'
  BY <1>1, <1>2, <1>4 DEF TablesOK, Usable
<1>9. InBothWhileMoving'
  <2>1. \A v \in Users : at[v]["first"] \in {"naming", "copying", "lockNew"} =>
           at'[v]["first"] = at[v]["first"]
    BY <1>2, <1>7, WorkersAre
  <2> QED BY <1>1, <1>2, <1>4, <2>1, BothKept
<1>10. ASSUME ~broken' PROVE Sound'
  <2>1. Entries(users') \subseteq Entries(users)
    BY <1>2
  <2>2. /\ running' => running
        /\ shutdown => shutdown'
        /\ shutdown' => ~running'
    BY <1>1, <1>2 DEF Stopping
  <2>3. at[u][w] \in {"idle", "leaving", "lockLost"}
    BY <1>2
  <2>4. /\ gone \notin freed
        /\ \A x \in Workers : Busy(gone, x) => gone = u /\ x = w
        /\ FreedIsIdle' /\ FreedState' /\ SocketsDiffer' /\ KeysAreSockets' /\ KeysAreNames'
        /\ UsersAreIn' /\ NewAreNew' /\ Unused' /\ BusyState' /\ Stopping'
        /\ LetIn' \subseteq LetIn \ {gone}
    BY <1>2, <1>3, <1>4, <1>5, <1>6, <1>10, <2>1, <2>2, <2>3, FreeStep
  <2>5. gone = u
    BY <1>6, <2>4
  <2>6. users.size \in 0 .. (WORD_RANGE - 1)
    BY <1>1, WellFormedFields, Zenon DEF TablesOK
  <2>7. Limit'
    BY <1>1, <1>2, <2>4, <2>6, LimitKept, Zenon
  <2>8. StoredUsersAreLive'
    <3> SUFFICES ASSUME running', NEW v \in StoredUsers(users') \cup StoredUsers(newUsers'),
                        v \in freed'
                 PROVE  at'[v]["second"] = "done"
      BY DEF StoredUsersAreLive
    <3>1. freed' = freed \cup {u}
      BY <1>5, <2>5 DEF FreeUser
    <3>2. CASE v # u
      <4>1. v \in freed
        BY <3>1, <3>2
      <4>2. at[v]["second"] = "done" /\ v \in Users
        BY <1>1, <1>2, <1>4, <4>1 DEF StoredUsersAreLive
      <4> QED BY <1>7, <4>2, WorkersAre
    <3>3. CASE v = u
      <4>1. u \in StoredUsers(users)
        BY <1>2, <1>4, <3>3
      <4>2. w # "first"
        <5>1. ASSUME at[u]["first"] = "lockLost" PROVE FALSE
          <6>1. state[u] = "new"
            BY <1>1, <5>1 DEF BusyState
          <6> QED BY <1>1, <1>4, <4>1, <5>1, <6>1 DEF UsersAreIn
        <5> QED BY <1>2, <5>1
      <4>3. w = "second"
        BY <4>2 DEF Workers
      <4> QED BY <1>7, <3>3, <4>3, WorkersAre
    <3> QED BY <3>2, <3>3
  <2> QED BY <1>4, <2>4, <2>7, <2>8, Zenon DEF Sound
<1> QED BY <1>8, <1>9, <1>10, Zenon DEF Kept

(* The user is negotiated, and its name not yet copied.                    *)
LEMMA SetNegotiatedKeeps ==
  ASSUME ServerInv, ~broken, listener # "stopped", NEW u \in Users, SetNegotiated(u)
  PROVE  Kept
<1>1. /\ Types /\ TablesOK /\ InBothWhileMoving
      /\ WellFormed(newUsers, SocketEntries)
      /\ FreedIsIdle /\ FreedState /\ SocketsDiffer /\ KeysAreSockets /\ KeysAreNames
      /\ UsersAreIn /\ NewAreNew /\ Unused /\ BusyState /\ Stopping /\ Limit
      /\ StoredUsersAreLive
      /\ StoredUsers(users) \subseteq Users /\ StoredUsers(newUsers) \subseteq Users
  BY BeforeStep, Zenon
<1>2. /\ at[u]["first"] = "naming" /\ at' = Moved(u, "first", "copying")
      /\ state' = [state EXCEPT ![u] = "negotiated"]
      /\ users' = users /\ newUsers' = newUsers /\ socket' = socket /\ name' = name
      /\ freed' = freed /\ broken' = broken
      /\ listener' = listener /\ running' = running /\ shutdown' = shutdown
  BY DEF SetNegotiated, tables, memory, server
<1>3. \A v \in Users : state'[v] = IF v = u THEN "negotiated" ELSE state[v]
  BY <1>1, <1>2 DEF Types
<1>4. \A v \in Users, x \in Workers :
        at'[v][x] = IF v = u /\ x = "first" THEN "copying" ELSE at[v][x]
  BY <1>1, <1>2, MovedType, WorkersAre DEF Locations, BusyAt
<1>5. state[u] = "new" /\ u \notin freed
  BY <1>1, <1>2 DEF BusyState, FreedState
<1>6. TablesOK' /\ (WellFormed(newUsers, SocketEntries))'
  BY <1>1, <1>2 DEF TablesOK
<1>7. InBothWhileMoving'
  <2>1. \A v \in Users : at[v]["first"] \in {"naming", "copying", "lockNew"} =>
           at'[v]["first"] \in {"naming", "copying", "lockNew"}
    BY <1>4, WorkersAre
  <2> QED BY <1>1, <1>2, <2>1, BothKept
<1>8. FreedIsIdle'
  <2>1. freed \subseteq Users
    BY <1>1 DEF Types
  <2> QED BY <1>1, <1>2, <1>4, <1>5, <2>1 DEF FreedIsIdle, Busy
<1>9. FreedState' /\ KeysAreSockets' /\ KeysAreNames'
  BY <1>1, <1>2, <1>3, <1>5 DEF FreedState, KeysAreSockets, KeysAreNames
<1>10. SocketsDiffer'
  BY <1>1, <1>2, <1>3, <1>5 DEF SocketsDiffer
<1>11. UsersAreIn'
  BY <1>1, <1>2, <1>3, <1>4, WorkersAre DEF UsersAreIn
<1>12. NewAreNew'
  BY <1>1, <1>2, <1>3, <1>4, WorkersAre DEF NewAreNew
<1>13. Unused'
  BY <1>1, <1>2, <1>3, <1>4, <1>5 DEF Unused
<1>14. BusyState'
  <2>1. ASSUME NEW v \in Users
        PROVE  /\ \A x \in Workers : at'[v][x] \in BusyAt => state'[v] \in {"new", "negotiated"}
               /\ at'[v]["first"] \in {"copying", "lockNew", "leaving"} => state'[v] = "negotiated"
               /\ at'[v]["first"] \in {"naming", "lockLost"} => state'[v] = "new"
    BY <1>1, <1>3, <1>4, WorkersAre DEF BusyState, Busy
  <2> QED BY <2>1 DEF BusyState, Busy
<1>15. Stopping'
  BY <1>1, <1>2 DEF Stopping
<1>16. Limit'
  <2>1. LetIn' \subseteq LetIn \ {NoUser}
    BY <1>1, <1>2, <1>3, <1>4, <1>5, WorkersAre, UserTablesAssumption DEF LetIn
  <2>2. users.size \in 0 .. (WORD_RANGE - 1)
    BY <1>1, WellFormedFields, Zenon DEF TablesOK
  <2> QED BY <1>1, <1>2, <2>1, <2>2, LimitKept, Zenon
<1>17. StoredUsersAreLive'
  <2>1. \A v \in Users : at'[v]["second"] = at[v]["second"]
    BY <1>4, WorkersAre
  <2> QED BY <1>1, <1>2, <2>1 DEF StoredUsersAreLive
<1> QED BY <1>6, <1>7, <1>8, <1>9, <1>10, <1>11, <1>12, <1>13, <1>14, <1>15, <1>16, <1>17, Zenon
        DEF Kept, Sound

(* The end of the tables frees who is left in them.                        *)
LEMMA DestroyTablesKeeps ==
  ASSUME ServerInv, ~broken, DestroyTables
  PROVE  Kept
<1>1. /\ Types /\ TablesOK /\ InBothWhileMoving
      /\ WellFormed(newUsers, SocketEntries)
      /\ FreedIsIdle /\ FreedState /\ SocketsDiffer /\ KeysAreSockets /\ KeysAreNames
      /\ UsersAreIn /\ NewAreNew /\ Unused /\ BusyState /\ Stopping /\ Limit
      /\ StoredUsersAreLive
      /\ StoredUsers(users) \subseteq Users /\ StoredUsers(newUsers) \subseteq Users
  BY BeforeStep, Zenon
<1>2. /\ listener = "joining" /\ listener' = "stopped"
      /\ \A u \in Users, w \in Workers : ~Busy(u, w)
      /\ freed \subseteq freed' /\ freed' \subseteq Users
      /\ users' = users /\ newUsers' = newUsers /\ state' = state /\ socket' = socket
      /\ name' = name /\ at' = at /\ running' = running /\ shutdown' = shutdown
  BY <1>1 DEF DestroyTables, tables, identity, Types
<1>3. ~running'
  BY <1>1, <1>2 DEF Stopping
<1>4. TablesOK' /\ (WellFormed(newUsers, SocketEntries))'
  BY <1>1, <1>2 DEF TablesOK
<1>5. InBothWhileMoving'
  BY <1>1, <1>2 DEF InBothWhileMoving
<1>6. FreedIsIdle' /\ FreedState'
  BY <1>2 DEF FreedIsIdle, FreedState, Busy
<1>7. SocketsDiffer' /\ KeysAreSockets' /\ KeysAreNames'
  BY <1>1, <1>2 DEF SocketsDiffer, KeysAreSockets, KeysAreNames
<1>8. UsersAreIn' /\ NewAreNew'
  BY <1>1, <1>2 DEF UsersAreIn, NewAreNew
<1>9. Unused' /\ BusyState'
  BY <1>1, <1>2 DEF Unused, BusyState, Busy
<1>10. Stopping' /\ StoredUsersAreLive'
  BY <1>2, <1>3 DEF Stopping, StoredUsersAreLive
<1>11. Limit'
  <2>1. LetIn' \subseteq LetIn \ {NoUser}
    BY <1>2, UserTablesAssumption DEF LetIn
  <2>2. users.size \in 0 .. (WORD_RANGE - 1)
    BY <1>1, WellFormedFields, Zenon DEF TablesOK
  <2> QED BY <1>1, <1>2, <2>1, <2>2, LimitKept, Zenon
<1> QED BY <1>4, <1>5, <1>6, <1>7, <1>8, <1>9, <1>10, <1>11, Zenon DEF Kept, Sound

(* A login that passes the test of the limit: the users table is below its *)
(* load factor, so the name is put in its slots, is counted only, or is    *)
(* refused; the table is as large as before.                               *)
LEMMA CheckforUserKeeps ==
  ASSUME ServerInv, ~broken, listener # "stopped", NEW u \in Users, NEW n \in Names,
         NEW prime \in NextPrime(users.capacity), CheckforUser(u, n, prime)
  PROVE  Kept
<1> DEFINE inserted == HashTableNewEntry(users, u, n, prime)
           accepted == inserted.ret = SUCCESS
           entry == [key |-> n, data |-> u]
           place == IF accepted THEN "naming" ELSE "refused"
<1>1. /\ Types /\ TablesOK /\ InBothWhileMoving
      /\ WellFormed(newUsers, SocketEntries)
      /\ FreedIsIdle /\ FreedState /\ SocketsDiffer /\ KeysAreSockets /\ KeysAreNames
      /\ UsersAreIn /\ NewAreNew /\ Unused /\ BusyState /\ Stopping /\ Limit
      /\ StoredUsersAreLive
      /\ StoredUsers(users) \subseteq Users /\ StoredUsers(newUsers) \subseteq Users
  BY BeforeStep, Zenon
<1>2. /\ state[u] = "new" /\ \A x \in Workers : at[u][x] = "idle"
      /\ users.size < MaxClients
      /\ users' = inserted.table /\ newUsers' = newUsers
      /\ name' = [name EXCEPT ![u] = n] /\ state' = state /\ socket' = socket
      /\ at' = Moved(u, "first", place)
      /\ running' = (running /\ accepted) /\ shutdown' = (shutdown \/ ~accepted)
      /\ broken' = (inserted.table.slots = NoSlots)
      /\ freed' = freed /\ listener' = listener
  BY DEF CheckforUser, Completes, BothIdle, HasRoom, Crash
<1>3. /\ WellFormed(users, NameEntries)
      /\ users.size \in Nat /\ users.size + 1 < WORD_RANGE
      /\ (users.size + 1) % WORD_RANGE = users.size + 1
      /\ MaxClients \in Nat
      /\ users.capacity \in Nat \ {0} /\ users.capacity >= MaxClients
  <2>1. WellFormed(users, NameEntries) /\ users.capacity = HashTableInit(MaxClients).capacity
    BY <1>1 DEF TablesOK
  <2>2. users.size \in 0 .. (WORD_RANGE - 1) /\ users.capacity \in Nat \ {0}
    BY <2>1, WellFormedFields, Zenon
  <2>3. MaxClients \in Nat /\ MaxClients < WORD_RANGE
    BY UserTablesAssumption
  <2>4. HashTableInit(MaxClients).capacity >= MaxClients
    BY <2>3, InitWellFormed
  <2>5. users.size + 1 < WORD_RANGE
    BY <1>2, <2>2, <2>3, WordRange
  <2> QED BY <2>1, <2>2, <2>3, <2>4, <2>5, WordCount, Zenon
<1>4. ~NeedsReHash(users)
  BY <1>2, <1>3 DEF NeedsReHash, LoadFactorReached
<1>5. /\ WellFormed(users', NameEntries) /\ users'.capacity = users.capacity
      /\ Entries(users') \subseteq Entries(users) \cup {entry}
      /\ ~accepted => users' = users
      /\ accepted => users'.size = users.size + 1
  <2>1. prime \in Nat
    BY <1>3, NextPrimeType
  <2>2. n \in Keys /\ entry \in NameEntries
    BY KeysInUse DEF NameEntries
  <2>3. \A e \in NameEntries : e.key \in Keys
    BY KeysInUse
  <2>4. /\ Entries(inserted.table) \subseteq Entries(users) \cup {entry}
        /\ WellFormed(inserted.table, NameEntries) /\ inserted.table.capacity = users.capacity
        /\ inserted.ret # SUCCESS => inserted.table = users
        /\ inserted.ret = SUCCESS => inserted.table.size = (users.size + 1) % WORD_RANGE
    <3>1. WellFormed(users, NameEntries)
      BY <1>3
    <3> QED BY ONLY <1>4, <2>1, <2>2, <2>3, <3>1, NewEntry, SMT
  <2> QED BY <1>2, <1>3, <2>4, Zenon
<1>6. ~broken'
  BY <1>2, <1>5, WellFormedFields, Zenon
<1> HIDE DEF inserted
<1>7. u \notin freed /\ u \notin StoredUsers(users)
  <2>1. u \notin freed
    BY <1>1, <1>2 DEF FreedState
  <2> QED BY <1>1, <1>2, <2>1, WorkersAre DEF UsersAreIn
<1>8. /\ \A e \in Entries(users') : e \in Entries(users) \/ (accepted /\ e = entry)
      /\ \A v \in StoredUsers(users') : v \in StoredUsers(users) \/ (accepted /\ v = u)
      /\ \A e \in Entries(users) : e.data \in Users /\ e.data # u
  <2>1. \A e \in Entries(users') : e \in Entries(users) \/ (accepted /\ e = entry)
    BY <1>5
  <2> HIDE DEF accepted
  <2>2. \A v \in StoredUsers(users') : v \in StoredUsers(users) \/ (accepted /\ v = u)
    BY <2>1 DEF StoredUsers
  <2>3. \A e \in Entries(users) : e.data \in Users /\ e.data # u
    BY <1>1, <1>7 DEF StoredUsers
  <2> QED BY <2>1, <2>2, <2>3
<1> HIDE DEF accepted
<1>9. place \in Locations /\ place \in {"naming", "refused"} /\ (accepted => place = "naming")
      /\ (~accepted => place = "refused")
  BY DEF Locations, BusyAt
<1> HIDE DEF place
<1>10. /\ \A v \in Users, x \in Workers :
            at'[v][x] = IF v = u /\ x = "first" THEN place ELSE at[v][x]
       /\ \A v \in Users : name'[v] = IF v = u THEN n ELSE name[v]
  <2>1. \A v \in Users, x \in Workers :
            at'[v][x] = IF v = u /\ x = "first" THEN place ELSE at[v][x]
    BY <1>1, <1>2, <1>9, MovedType, WorkersAre
  <2> QED BY <1>1, <1>2, <2>1 DEF Types
<1>11. TablesOK' /\ (WellFormed(newUsers, SocketEntries))'
  BY <1>1, <1>2, <1>5 DEF TablesOK
<1>12. InBothWhileMoving'
  <2>1. ASSUME NEW v \in StoredUsers(users') \cap StoredUsers(newUsers')
        PROVE  at'[v]["first"] \in {"naming", "copying", "lockNew"} \/ shutdown'
    <3>1. CASE v = u
      BY <1>2, <1>7, <1>8, <1>9, <1>10, <2>1, <3>1, WorkersAre
    <3>2. CASE v # u
      BY <1>1, <1>2, <1>8, <1>10, <2>1, <3>2, WorkersAre DEF InBothWhileMoving
    <3> QED BY <3>1, <3>2
  <2> QED BY <2>1 DEF InBothWhileMoving
<1>13. FreedIsIdle' /\ FreedState' /\ SocketsDiffer' /\ KeysAreSockets'
  <2>1. freed \subseteq Users
    BY <1>1 DEF Types
  <2>2. FreedIsIdle'
    BY <1>1, <1>2, <1>7, <1>10, <2>1 DEF FreedIsIdle, Busy
  <2>3. FreedState' /\ SocketsDiffer' /\ KeysAreSockets'
    BY <1>1, <1>2 DEF FreedState, SocketsDiffer, KeysAreSockets
  <2> QED BY <2>2, <2>3
<1>14. KeysAreNames'
  <2>1. ASSUME NEW e \in Entries(users'), e.data \notin freed PROVE e.key = name'[e.data]
    <3>1. CASE e \in Entries(users)
      BY <1>1, <1>8, <1>10, <2>1, <3>1 DEF KeysAreNames
    <3>2. CASE e = entry
      BY <1>10, <3>2
    <3> QED BY <1>8, <3>1, <3>2
  <2> QED BY <1>2, <2>1 DEF KeysAreNames
<1>15. UsersAreIn' /\ NewAreNew'
  <2>1. UsersAreIn'
    BY <1>1, <1>2, <1>8, <1>9, <1>10, WorkersAre DEF UsersAreIn
  <2>2. NewAreNew'
    BY <1>1, <1>2, <1>10, WorkersAre DEF NewAreNew
  <2> QED BY <2>1, <2>2
<1>16. Unused'
  BY <1>1, <1>2, <1>8, <1>10 DEF Unused
<1>17. BusyState'
  <2>1. ASSUME NEW v \in Users
        PROVE  /\ \A x \in Workers : at'[v][x] \in BusyAt => state[v] \in {"new", "negotiated"}
               /\ at'[v]["first"] \in {"copying", "lockNew", "leaving"} => state[v] = "negotiated"
               /\ at'[v]["first"] \in {"naming", "lockLost"} => state[v] = "new"
    BY <1>1, <1>2, <1>9, <1>10, WorkersAre DEF BusyState, Busy
  <2> QED BY <1>2, <2>1 DEF BusyState, Busy
<1>18. Stopping'
  BY <1>1, <1>2 DEF Stopping
<1>19. Limit'
  <2>1. LetIn' \subseteq IF accepted THEN LetIn \cup {u} ELSE LetIn
    BY <1>2, <1>9, <1>10, WorkersAre DEF LetIn
  <2>2. /\ IsFiniteSet(LetIn) /\ Cardinality(LetIn) \in Nat
        /\ Cardinality(LetIn) =< users.size /\ users.size =< MaxClients
    BY <1>1, FS_CardinalityType DEF Limit
  <2> DEFINE more == IF accepted THEN LetIn \cup {u} ELSE LetIn
  <2> HIDE DEF LetIn
  <2>3. /\ IsFiniteSet(more) /\ Cardinality(more) \in Nat
        /\ Cardinality(more) =< users'.size /\ users'.size =< MaxClients
    <3>1. CASE ~accepted
      BY <1>5, <2>2, <3>1
    <3>2. CASE accepted
      <4>1. /\ IsFiniteSet(LetIn \cup {u})
            /\ Cardinality(LetIn \cup {u}) = IF u \in LetIn THEN Cardinality(LetIn)
                                             ELSE Cardinality(LetIn) + 1
        BY <2>2, FS_AddElement
      <4> QED BY <1>2, <1>3, <1>5, <2>2, <3>2, <4>1
    <3> QED BY <3>1, <3>2
  <2>4. LetIn' \subseteq more
    BY <2>1
  <2> HIDE DEF more
  <2>5. /\ IsFiniteSet(LetIn') /\ Cardinality(LetIn') =< Cardinality(more)
        /\ Cardinality(LetIn') \in Nat
    BY <2>3, <2>4, FS_Subset, FS_CardinalityType
  <2>6. users'.size \in Nat
    BY <1>2, <1>3, <1>5
  <2> QED BY <1>3, <2>3, <2>5, <2>6 DEF Limit
<1>20. StoredUsersAreLive'
  <2>1. ASSUME running', NEW v \in (StoredUsers(users') \cup StoredUsers(newUsers')) \cap freed'
        PROVE  at'[v]["second"] = "done"
    <3>1. v # u /\ v \in Users /\ at[v]["second"] = "done"
      BY <1>1, <1>2, <1>7, <1>8, <2>1 DEF StoredUsersAreLive
    <3> QED BY <1>10, <3>1, WorkersAre
  <2> QED BY <2>1 DEF StoredUsersAreLive
<1> QED BY <1>11, <1>12, <1>13, <1>14, <1>15, <1>16, <1>17, <1>18, <1>19, <1>20, Zenon
        DEF Kept, Sound

(* A connection is accepted: its user is put in the new users table, or is *)
(* freed again, and the server then ends.                                  *)
LEMMA AcceptKeeps ==
  ASSUME ServerInv, ~broken, NEW u \in Users, NEW s \in Sockets,
         NEW prime \in NextPrime(newUsers.capacity), NEW posted \in BOOLEAN,
         Accept(u, s, prime, posted)
  PROVE  Kept
<1> DEFINE inserted == HashTableNewEntry(newUsers, u, s, prime)
           stored == inserted.ret = SUCCESS
           entry == [key |-> s, data |-> u]
<1>1. /\ Types /\ TablesOK /\ InBothWhileMoving
      /\ WellFormed(newUsers, SocketEntries)
      /\ FreedIsIdle /\ FreedState /\ SocketsDiffer /\ KeysAreSockets /\ KeysAreNames
      /\ UsersAreIn /\ NewAreNew /\ Unused /\ BusyState /\ Stopping /\ Limit
      /\ StoredUsersAreLive
      /\ StoredUsers(users) \subseteq Users /\ StoredUsers(newUsers) \subseteq Users
  BY BeforeStep, Zenon
<1>2. /\ listener = "accepting" /\ state[u] = "none" /\ \A v \in Users : socket[v] # s
      /\ newUsers' = inserted.table /\ users' = users /\ name' = name /\ at' = at
      /\ state' = [state EXCEPT ![u] = IF stored THEN "new" ELSE "freed"]
      /\ socket' = IF stored THEN [socket EXCEPT ![u] = s] ELSE socket
      /\ freed' = IF stored THEN freed ELSE freed \cup {u}
      /\ listener' = IF stored /\ posted /\ running THEN "accepting" ELSE "joining"
      /\ running' = (running /\ stored /\ posted) /\ shutdown' = shutdown
      /\ broken' = (inserted.table.slots = NoSlots)
  BY DEF Accept, Crash
<1>3. /\ Usable(newUsers', SocketEntries)
      /\ Entries(newUsers') \subseteq Entries(newUsers) \cup {entry}
      /\ ~stored => Entries(newUsers') \subseteq Entries(newUsers)
  <2>1. WellFormed(newUsers, SocketEntries)
    BY <1>1
  <2>2. prime \in Nat
    <3>1. newUsers.capacity \in Nat \ {0}
      BY <2>1, WellFormedFields, Zenon
    <3> QED BY <3>1, NextPrimeType
  <2>3. s \in Keys /\ entry \in SocketEntries
    BY KeysInUse DEF SocketEntries
  <2>4. \A e \in SocketEntries : e.key \in Keys
    BY KeysInUse
  <2>5. /\ Usable(inserted.table, SocketEntries)
        /\ Entries(inserted.table) \subseteq Entries(newUsers) \cup {entry}
        /\ inserted.ret # SUCCESS => Entries(inserted.table) \subseteq Entries(newUsers)
    BY ONLY <2>1, <2>2, <2>3, <2>4, NewEntry, SMT
  <2> QED BY <1>2, <2>5, Zenon
<1>4. ~broken' => WellFormed(newUsers', SocketEntries)
  BY <1>2, <1>3, Zenon DEF Usable
<1> HIDE DEF inserted
<1>5. /\ u \notin freed /\ u \notin StoredUsers(users) /\ u \notin StoredUsers(newUsers)
      /\ s # <<>> /\ \A x \in Workers : at[u][x] = "idle"
  BY <1>1, <1>2 DEF FreedState, Unused
<1>6. /\ \A e \in Entries(newUsers') : e \in Entries(newUsers) \/ (stored /\ e = entry)
      /\ \A v \in StoredUsers(newUsers') : v \in StoredUsers(newUsers) \/ (stored /\ v = u)
      /\ \A e \in Entries(newUsers) : e.data \in Users /\ e.data # u
  <2>1. \A e \in Entries(newUsers') : e \in Entries(newUsers) \/ (stored /\ e = entry)
    BY <1>3
  <2> HIDE DEF stored
  <2>2. \A v \in StoredUsers(newUsers') : v \in StoredUsers(newUsers) \/ (stored /\ v = u)
    BY <2>1 DEF StoredUsers
  <2>3. \A e \in Entries(newUsers) : e.data \in Users /\ e.data # u
    BY <1>1, <1>5 DEF StoredUsers
  <2> QED BY <2>1, <2>2, <2>3
<1>7. /\ \A v \in Users : v # u => state'[v] = state[v] /\ socket'[v] = socket[v]
      /\ stored => state'[u] = "new" /\ socket'[u] = s
      /\ ~stored => state'[u] = "freed" /\ socket' = socket
  BY <1>1, <1>2 DEF Types
<1> HIDE DEF stored
<1>8. TablesOK'
  BY <1>1, <1>2, <1>3 DEF TablesOK
<1>9. InBothWhileMoving'
  BY <1>1, <1>2, <1>5, <1>6 DEF InBothWhileMoving
<1>10. ASSUME ~broken' PROVE Sound'
  <2>1. freed \subseteq Users
    BY <1>1 DEF Types
  <2>2. FreedIsIdle'
    BY <1>1, <1>2, <1>5, <2>1 DEF FreedIsIdle, Busy, BusyAt
  <2>3. FreedState'
    BY <1>1, <1>2, <1>5, <1>7 DEF FreedState
  <2>4. SocketsDiffer'
    BY <1>1, <1>2, <1>5, <1>7 DEF SocketsDiffer
  <2>5. KeysAreSockets'
    <3>1. ASSUME NEW e \in Entries(newUsers'), e.data \notin freed' PROVE e.key = socket'[e.data]
      <4>1. CASE e \in Entries(newUsers)
        BY <1>1, <1>2, <1>6, <1>7, <3>1, <4>1 DEF KeysAreSockets
      <4>2. CASE stored /\ e = entry
        BY <1>7, <4>2
      <4> QED BY <1>6, <4>1, <4>2
    <3> QED BY <3>1 DEF KeysAreSockets
  <2>6. KeysAreNames'
    BY <1>1, <1>2 DEF KeysAreNames
  <2>7. UsersAreIn'
    BY <1>1, <1>2, <1>5, <1>7 DEF UsersAreIn
  <2>8. NewAreNew'
    BY <1>1, <1>2, <1>6, <1>7 DEF NewAreNew
  <2>9. Unused'
    BY <1>1, <1>2, <1>6, <1>7 DEF Unused
  <2>10. BusyState'
    BY <1>1, <1>2, <1>5, <1>7, WorkersAre DEF BusyState, Busy, BusyAt
  <2>11. Stopping'
    BY <1>1, <1>2 DEF Stopping
  <2>12. Limit'
    <3>1. LetIn' \subseteq LetIn \ {NoUser}
      BY <1>2, <1>5, <1>7, WorkersAre, UserTablesAssumption DEF LetIn
    <3>2. users.size \in 0 .. (WORD_RANGE - 1)
      BY <1>1, WellFormedFields, Zenon DEF TablesOK
    <3> QED BY <1>1, <1>2, <3>1, <3>2, LimitKept, Zenon
  <2>13. StoredUsersAreLive'
    <3>1. ASSUME running', NEW v \in (StoredUsers(users') \cup StoredUsers(newUsers')) \cap freed'
          PROVE  at'[v]["second"] = "done"
      BY <1>1, <1>2, <1>5, <1>6, <3>1 DEF StoredUsersAreLive
    <3> QED BY <3>1 DEF StoredUsersAreLive
  <2> QED BY <1>4, <1>10, <2>2, <2>3, <2>4, <2>5, <2>6, <2>7, <2>8, <2>9, <2>10, <2>11, <2>12,
             <2>13, Zenon DEF Sound
<1> QED BY <1>8, <1>9, <1>10, Zenon DEF Kept

(* A handler that changes no table and frees nobody: it may move its       *)
(* worker, or stop the server.                                             *)
LEMMA HandlerStep ==
  ASSUME ServerInv, ~broken, listener # "stopped",
         UNCHANGED <<tables, identity, memory, listener>>,
         UNCHANGED <<running, shutdown>> \/ (running' = FALSE /\ (shutdown => shutdown')),
         NEW u \in Users, NEW w \in Workers, NEW place \in Locations,
         at' = at \/ (at' = Moved(u, w, place) /\ LegalMove(u, w, place))
  PROVE  Kept
<1>1. Stopping /\ WellFormed(newUsers, SocketEntries)
  BY BeforeStep, Zenon
<1>2. /\ users' = users /\ newUsers' = newUsers /\ state' = state /\ socket' = socket
      /\ name' = name /\ freed' = freed /\ broken' = broken /\ listener' = listener
  BY DEF tables, identity, memory
<1>3. /\ running' => running
      /\ shutdown => shutdown'
      /\ shutdown' => ~running'
      /\ listener' # "accepting" => ~running'
  BY <1>1, <1>2 DEF Stopping
<1>4. UNCHANGED <<users, state, socket, name, freed, broken>>
  BY <1>2
<1>5. WellFormed(newUsers', SocketEntries) /\ Entries(newUsers') \subseteq Entries(newUsers)
  BY <1>1, <1>2
<1>6. listener' # "stopped" => listener # "stopped"
  OBVIOUS
<1> QED BY ONLY ServerInv, ~broken, <1>3, <1>4, <1>5, <1>6, u \in Users, w \in Workers,
                place \in Locations,
                at' = at \/ (at' = Moved(u, w, place) /\ LegalMove(u, w, place)), MoveStep

(* The places a worker moves to.                                           *)
LEMMA PlacesAre ==
  /\ "idle" \in Locations /\ "done" \in Locations /\ "refused" \in Locations
  /\ "naming" \in Locations /\ "copying" \in Locations /\ "lockNew" \in Locations
  /\ "leaving" \in Locations /\ "lockLost" \in Locations
BY DEF Locations, BusyAt

(* The packets and sends that leave the tables and their users alone.      *)
LEMMA QuietStepsKeep ==
  ASSUME ServerInv, ~broken, listener # "stopped", NEW u \in Users,
         \/ Reject(u) \/ HandleBroadcast(u) \/ SendCompletes(u)
         \/ \E n \in Names : HandleClientMessage(u, n)
  PROVE  Kept
<1>1. /\ UNCHANGED <<tables, identity, memory, listener>>
      /\ UNCHANGED <<running, shutdown>> /\ at' = at
  BY Zenon DEF Reject, HandleBroadcast, SendCompletes, HandleClientMessage, server
<1> QED BY <1>1, WorkersAre, PlacesAre, HandlerStep

(* The packets and sends whose worker goes on, or gives up: no table       *)
(* changes and nobody is freed.                                            *)
LEMMA MovesKeep ==
  ASSUME ServerInv, ~broken, listener # "stopped", NEW u \in Users, NEW w \in Workers,
         \/ HandleList(u) \/ HandleLogout(u) \/ SendFails(u) \/ CopyName(u) \/ LogoutAborted(u)
         \/ LoseNew(u, w) \/ WaitAborted(u, w) \/ LockNewAborted(u, w)
  PROVE  Kept
<1>1. Stopping /\ BusyState
  BY BeforeStep, Zenon
<1>2. state[u] \in {"new", "negotiated"} \/ at[u]["first"] \notin BusyAt
  BY <1>1, WorkersAre DEF BusyState, Busy
<1>3. CASE HandleList(u)
  <2>1. /\ UNCHANGED <<tables, identity, memory, listener>>
        /\ running' = FALSE /\ shutdown'
        /\ at' = Moved(u, "first", "done") /\ LegalMove(u, "first", "done")
    BY <1>3, WorkersAre DEF HandleList, Asks, BothIdle, StopServer, LegalMove
  <2> QED BY <2>1, WorkersAre, PlacesAre, HandlerStep
<1>4. CASE HandleLogout(u)
  <2>1. /\ UNCHANGED <<tables, identity, memory, listener>>
        /\ UNCHANGED <<running, shutdown>>
        /\ at' = Moved(u, "first", "leaving") /\ LegalMove(u, "first", "leaving")
    BY <1>4, WorkersAre DEF HandleLogout, Asks, BothIdle, server, LegalMove
  <2> QED BY <2>1, WorkersAre, PlacesAre, HandlerStep
<1>5. CASE SendFails(u)
  <2>1. /\ UNCHANGED <<tables, identity, memory, listener>>
        /\ UNCHANGED <<running, shutdown>>
    BY <1>5 DEF SendFails, server
  <2>2. CASE at' = at
    BY <2>1, <2>2, WorkersAre, PlacesAre, HandlerStep
  <2>3. ASSUME NEW x \in Workers, state[u] = "new", at[u][x] = "idle",
               at' = Moved(u, x, "lockLost")
        PROVE  Kept
    <3>1. LegalMove(u, x, "lockLost")
      BY <2>3 DEF LegalMove
    <3> QED BY <2>1, <2>3, <3>1, PlacesAre, HandlerStep
  <2> QED BY <1>5, <2>2, <2>3, Zenon DEF SendFails
<1>6. CASE CopyName(u)
  <2>1. /\ UNCHANGED <<tables, identity, memory, listener>>
        /\ UNCHANGED <<running, shutdown>>
        /\ at' = Moved(u, "first", "lockNew") /\ LegalMove(u, "first", "lockNew")
    BY <1>2, <1>6 DEF CopyName, server, LegalMove, BusyAt
  <2> QED BY <2>1, WorkersAre, PlacesAre, HandlerStep
<1>7. CASE LogoutAborted(u)
  <2>1. /\ UNCHANGED <<tables, identity, memory, listener>>
        /\ running' = FALSE /\ shutdown' = shutdown
        /\ at' = Moved(u, "first", "done") /\ LegalMove(u, "first", "done")
    BY <1>2, <1>7 DEF LogoutAborted, LegalMove, BusyAt
  <2> QED BY <2>1, WorkersAre, PlacesAre, HandlerStep
<1>8. CASE LoseNew(u, w)
  <2>1. /\ UNCHANGED <<tables, identity, memory, listener>>
        /\ UNCHANGED <<running, shutdown>>
        /\ at' = Moved(u, w, "lockLost") /\ LegalMove(u, w, "lockLost")
    BY <1>8 DEF LoseNew, Completes, server, LegalMove
  <2> QED BY <2>1, PlacesAre, HandlerStep
<1>9. CASE WaitAborted(u, w)
  <2>1. /\ UNCHANGED <<tables, identity, memory, listener>>
        /\ running' = FALSE /\ shutdown' = shutdown
        /\ at' = Moved(u, w, "done") /\ LegalMove(u, w, "done")
    BY <1>9 DEF WaitAborted, Completes, LegalMove
  <2> QED BY <2>1, PlacesAre, HandlerStep
<1>10. CASE LockNewAborted(u, w)
  <2>1. state[u] \in {"new", "negotiated"}
    BY <1>1, <1>10 DEF LockNewAborted, BusyState, Busy, BusyAt
  <2>2. /\ UNCHANGED <<tables, identity, memory, listener>>
        /\ running' = FALSE /\ shutdown' = shutdown
        /\ at' = Moved(u, w, "done") /\ LegalMove(u, w, "done")
    BY <1>10, <2>1 DEF LockNewAborted, LegalMove
  <2> QED BY <2>2, PlacesAre, HandlerStep
<1> QED BY <1>3, <1>4, <1>5, <1>6, <1>7, <1>8, <1>9, <1>10

(* The end of a login: the user is out of the new users table.             *)
LEMMA RemoveNewKeeps ==
  ASSUME ServerInv, ~broken, listener # "stopped", NEW u \in Users, RemoveNew(u)
  PROVE  Kept
<1>1. Stopping /\ BusyState
  BY BeforeStep, Zenon
<1>2. /\ at[u]["first"] = "lockNew" /\ at' = Moved(u, "first", "idle")
      /\ newUsers' = HashTableDestroyEntry(newUsers, socket[u])
      /\ users' = users /\ state' = state /\ socket' = socket /\ name' = name
      /\ freed' = freed /\ broken' = broken
      /\ listener' = listener /\ running' = running /\ shutdown' = shutdown
  BY DEF RemoveNew, LeaveNew, identity, memory, server
<1>3. state[u] = "negotiated"
  BY <1>1, <1>2 DEF BusyState
<1>4. /\ WellFormed(newUsers', SocketEntries)
      /\ Entries(newUsers') \subseteq Entries(newUsers)
      /\ u \notin StoredUsers(newUsers')
  BY <1>2, <1>3, RemoveFromNew, Zenon
<1>5. LegalMove(u, "first", "idle")
  BY <1>2, <1>3, <1>4 DEF LegalMove
<1>6. /\ running' => running
      /\ shutdown => shutdown'
      /\ shutdown' => ~running'
      /\ listener' # "accepting" => ~running'
      /\ listener' # "stopped" => listener # "stopped"
  BY <1>1, <1>2 DEF Stopping
<1>7. UNCHANGED <<users, state, socket, name, freed, broken>>
  BY <1>2
<1>8. at' = at \/ (at' = Moved(u, "first", "idle") /\ LegalMove(u, "first", "idle"))
  BY <1>2, <1>5
<1>9. "first" \in Workers /\ "idle" \in Locations
  BY WorkersAre, PlacesAre
<1> QED BY ONLY ServerInv, ~broken, u \in Users, <1>4, <1>6, <1>7, <1>8, <1>9, MoveStep

(* The listener's end and the console's.                                   *)
LEMMA StopsKeep ==
  ASSUME ServerInv, ~broken, ListenerStops \/ GracefulShutdown
  PROVE  Kept
<1>1. /\ Types /\ TablesOK /\ InBothWhileMoving
      /\ WellFormed(newUsers, SocketEntries)
      /\ FreedIsIdle /\ FreedState /\ SocketsDiffer /\ KeysAreSockets /\ KeysAreNames
      /\ UsersAreIn /\ NewAreNew /\ Unused /\ BusyState /\ Stopping /\ Limit
      /\ StoredUsersAreLive
  BY BeforeStep, Zenon
<1>2. /\ users' = users /\ newUsers' = newUsers /\ state' = state /\ socket' = socket
      /\ name' = name /\ at' = at /\ freed' = freed /\ broken' = broken
      /\ running' = FALSE /\ (shutdown => shutdown')
      /\ listener' = "stopped" <=> listener = "stopped"
  BY DEF ListenerStops, GracefulShutdown, StopServer, tables, identity, memory
<1>3. TablesOK' /\ (WellFormed(newUsers, SocketEntries))'
  BY <1>1, <1>2 DEF TablesOK
<1>4. InBothWhileMoving'
  BY <1>1, <1>2 DEF InBothWhileMoving
<1>5. FreedIsIdle' /\ FreedState' /\ SocketsDiffer' /\ KeysAreSockets' /\ KeysAreNames'
  BY <1>1, <1>2 DEF FreedIsIdle, FreedState, SocketsDiffer, KeysAreSockets, KeysAreNames, Busy
<1>6. UsersAreIn' /\ NewAreNew' /\ Unused' /\ BusyState'
  BY <1>1, <1>2 DEF UsersAreIn, NewAreNew, Unused, BusyState, Busy
<1>7. Stopping' /\ StoredUsersAreLive'
  BY <1>2 DEF Stopping, StoredUsersAreLive
<1>8. Limit'
  <2>1. LetIn' = LetIn
    BY <1>2 DEF LetIn
  <2> QED BY <1>1, <1>2, <2>1 DEF Limit
<1> QED BY <1>3, <1>4, <1>5, <1>6, <1>7, <1>8, Zenon DEF Kept, Sound

(* A logout, in either of its outcomes.                                    *)
LEMMA LogoutRemoveKeeps ==
  ASSUME ServerInv, ~broken, listener # "stopped", NEW u \in Users, LogoutRemove(u)
  PROVE  Kept
<1> DEFINE found == HashTableReturnEntry(users, Username(u))
           gone == IF found = NoUser THEN u ELSE found
<1>1. Types /\ BusyState /\ Stopping
  BY BeforeStep, Zenon
<1>2. /\ at[u]["first"] = "leaving" /\ at' = Moved(u, "first", "done")
      /\ users' = HashTableDestroyEntry(users, Username(u)) /\ newUsers' = newUsers
      /\ listener' = listener
      /\ \/ found # NoUser /\ FreeUser(found, u, "first") /\ running' = running /\ shutdown' = shutdown
         \/ found = NoUser /\ FreeUser(u, u, "first") /\ running' = FALSE /\ shutdown' = TRUE
  BY Zenon DEF LogoutRemove, StopServer
<1>3. state[u] = "negotiated"
  BY <1>1, <1>2 DEF BusyState
<1>4. found # NoUser => found \in Users
  <2>1. Username(u) \in Keys
    BY <1>1, UsernameIsKey
  <2> QED BY <1>2, <2>1, RemoveFromUsers, Zenon
<1> HIDE DEF found
<1>5. gone \in Users /\ FreeUser(gone, u, "first")
  BY <1>2, <1>4
<1>6. gone = found \/ (found = NoUser /\ ~running')
  BY <1>2
<1>7. /\ running' => running
      /\ shutdown => shutdown'
      /\ shutdown' => ~running'
  BY <1>1, <1>2 DEF Stopping
<1>8. /\ at[u]["first"] \in {"idle", "leaving"}
      /\ "first" = "first" \/ at[u]["first"] = "idle"
  BY <1>2
<1>9. \/ gone = HashTableReturnEntry(users, Username(u))
      \/ HashTableReturnEntry(users, Username(u)) = NoUser /\ ~running'
  BY <1>6 DEF found
<1>10. /\ listener' = listener /\ newUsers' = newUsers /\ at' = Moved(u, "first", "done")
       /\ users' = HashTableDestroyEntry(users, Username(u))
  BY <1>2
<1> HIDE DEF gone
<1> QED BY ONLY ServerInv, ~broken, listener # "stopped", u \in Users, <1>3, <1>5, <1>7, <1>8,
                <1>9, <1>10, WorkersAre, LeaveUsers

(* The loss of a user that is logged in.                                   *)
LEMMA LoseNegotiatedKeeps ==
  ASSUME ServerInv, ~broken, listener # "stopped", NEW u \in Users, NEW w \in Workers,
         LoseNegotiated(u, w)
  PROVE  Kept
<1> DEFINE found == HashTableReturnEntry(users, Username(u))
           gone == Leaver(u, found)
<1>1. Types /\ Stopping
  BY BeforeStep, Zenon
<1>2. /\ state[u] = "negotiated" /\ at[u][w] = "idle" /\ at' = Moved(u, w, "done")
      /\ users' = HashTableDestroyEntry(users, Username(u)) /\ newUsers' = newUsers
      /\ listener' = listener /\ FreeUser(gone, u, w)
      /\ running' = (running /\ found # NoUser) /\ shutdown' = shutdown
  BY Zenon DEF LoseNegotiated, Completes
<1>3. found # NoUser => found \in Users
  <2>1. Username(u) \in Keys
    BY <1>1, UsernameIsKey
  <2> QED BY <1>2, <2>1, RemoveFromUsers, Zenon
<1> HIDE DEF found
<1>4. gone \in Users /\ (gone = found \/ (found = NoUser /\ ~running'))
  BY <1>2, <1>3 DEF Leaver
<1>5. /\ running' => running
      /\ shutdown => shutdown'
      /\ shutdown' => ~running'
  BY <1>1, <1>2 DEF Stopping
<1>6. /\ at[u][w] \in {"idle", "leaving"}
      /\ w = "first" \/ at[u][w] = "idle"
  BY <1>2
<1>7. \/ gone = HashTableReturnEntry(users, Username(u))
      \/ HashTableReturnEntry(users, Username(u)) = NoUser /\ ~running'
  BY <1>4 DEF found
<1>8. /\ listener' = listener /\ newUsers' = newUsers /\ at' = Moved(u, w, "done")
      /\ users' = HashTableDestroyEntry(users, Username(u))
      /\ FreeUser(gone, u, w) /\ state[u] = "negotiated"
  BY <1>2
<1> HIDE DEF gone
<1> QED BY ONLY ServerInv, ~broken, listener # "stopped", u \in Users, w \in Workers, <1>4, <1>5,
                <1>6, <1>7, <1>8, LeaveUsers

----------------------------------------------------------------------------
(* The types after a step.                                                 *)

(* Messages are queued for users.                                          *)
LEMMA QueueType ==
  ASSUME Types, NEW S, QueueFor(S), S \subseteq Users
  PROVE  sending' \subseteq Users
BY DEF QueueFor, Types

(* A receive is posted for a user.                                         *)
LEMMA PostType ==
  ASSUME Types, NEW u \in Users, PostReceive(u)
  PROVE  receiving' \subseteq Users
BY DEF PostReceive, Types

(* Freeing a user keeps the types it changes.                              *)
LEMMA FreeType ==
  ASSUME Types, NEW gone \in Users, NEW u, NEW w, FreeUser(gone, u, w)
  PROVE  /\ freed' \subseteq Users
         /\ state' \in [Users -> {"none", "new", "negotiated", "freed"}]
         /\ socket' \in [Users -> Sockets \cup {<<>>}]
         /\ name' \in [Users -> Names \cup {<<>>}]
         /\ broken' \in BOOLEAN
<1>1. broken' \in BOOLEAN
  BY Zenon DEF FreeUser
<1> QED BY <1>1 DEF FreeUser, Types

(* The types that most steps leave alone.                                  *)
IdentityTypes ==
  /\ state \in [Users -> {"none", "new", "negotiated", "freed"}]
  /\ socket \in [Users -> Sockets \cup {<<>>}]
  /\ name \in [Users -> Names \cup {<<>>}]
MemoryTypes == freed \subseteq Users /\ broken \in BOOLEAN
ServerTypes ==
  running \in BOOLEAN /\ shutdown \in BOOLEAN /\ listener \in {"accepting", "joining", "stopped"}
TrafficTypes == receiving \subseteq Users /\ sending \subseteq Users
AtType == at \in [Users -> [Workers -> Locations]]

(* They are the types of UserTables, with that of late.                    *)
LEMMA TypesSplit ==
  Types <=> IdentityTypes /\ MemoryTypes /\ ServerTypes /\ TrafficTypes /\ AtType
            /\ late \in 0 .. MaxLate
BY Zenon DEF Types, IdentityTypes, MemoryTypes, ServerTypes, TrafficTypes, AtType

(* A part that is left alone keeps its type.                               *)
LEMMA TypesUnchanged ==
  ASSUME Types
  PROVE  /\ UNCHANGED identity => IdentityTypes'
         /\ UNCHANGED memory => MemoryTypes'
         /\ UNCHANGED server => ServerTypes'
         /\ UNCHANGED at => AtType'
BY DEF Types, IdentityTypes, MemoryTypes, ServerTypes, AtType, identity, memory, server

(* All of them.                                                            *)
AllTypes == IdentityTypes /\ MemoryTypes /\ ServerTypes /\ TrafficTypes /\ AtType

(* The types after a completion was taken.                                 *)
LEMMA CompletionTypes ==
  ASSUME ServerInv, ~broken, NEW u \in Users,
         \/ Reject(u)
         \/ \E n \in Names, prime \in NextPrime(users.capacity) : CheckforUser(u, n, prime)
         \/ \E n \in Names : HandleClientMessage(u, n)
         \/ HandleBroadcast(u)
         \/ HandleList(u)
         \/ HandleLogout(u)
         \/ SendCompletes(u)
         \/ SendFails(u)
         \/ \E w \in Workers :
              LoseNew(u, w) \/ LoseNegotiated(u, w) \/ WaitAborted(u, w)
  PROVE  AllTypes'
<1>1. Types /\ TablesOK /\ StoredUsers(users) \subseteq Users
  BY BeforeStep, Zenon
<1>2. TrafficTypes /\ ServerTypes /\ IdentityTypes /\ MemoryTypes /\ AtType
  BY <1>1, TypesSplit, Zenon
<1>3. ASSUME NEW w \in Workers, NEW place \in Locations, at' = Moved(u, w, place)
      PROVE  AtType'
  BY <1>1, <1>3, MovedType, Zenon DEF AtType
<1>4. ASSUME NEW S, S \subseteq Users, QueueFor(S), receiving' \subseteq Users
      PROVE  TrafficTypes'
  BY <1>1, <1>4, QueueType, Zenon DEF TrafficTypes
<1>5. /\ receiving \ {u} \subseteq Users
      /\ sending \ {u} \subseteq Users
      /\ receiving \subseteq Users /\ sending \subseteq Users
  BY <1>2 DEF TrafficTypes
<1>6. CASE Reject(u)
  <2>1. receiving' \subseteq Users
    BY <1>5, <1>6 DEF Reject, Completes
  <2>2. TrafficTypes'
    <3>1. CASE QueueFor({u})
      BY <1>4, <2>1, <3>1
    <3>2. CASE QueueFor({u} \cup StoredUsers(users))
      BY <1>1, <1>4, <2>1, <3>2
    <3> QED BY <1>6, <3>1, <3>2, Zenon DEF Reject
  <2>3. UNCHANGED identity /\ UNCHANGED at /\ UNCHANGED memory /\ UNCHANGED server
    BY <1>6, Zenon DEF Reject
  <2> QED BY <1>1, <2>2, <2>3, TypesUnchanged, Zenon DEF AllTypes
<1>7. ASSUME NEW n \in Names, NEW prime \in NextPrime(users.capacity), CheckforUser(u, n, prime)
      PROVE  AllTypes'
  <2> DEFINE inserted == HashTableNewEntry(users, u, n, prime)
             accepted == inserted.ret = SUCCESS
  <2>1. /\ receiving' = receiving \ {u} /\ sending' = sending
        /\ name' = [name EXCEPT ![u] = n] /\ state' = state /\ socket' = socket
        /\ at' = Moved(u, "first", IF accepted THEN "naming" ELSE "refused")
        /\ running' = (running /\ accepted) /\ shutdown' = (shutdown \/ ~accepted)
        /\ listener' = listener /\ freed' = freed
        /\ broken' = (inserted.table.slots = NoSlots)
    BY <1>7 DEF CheckforUser, Completes, Crash
  <2>2. running' \in BOOLEAN /\ shutdown' \in BOOLEAN /\ broken' \in BOOLEAN
    BY <2>1, Zenon
  <2> HIDE DEF inserted, accepted
  <2>3. AtType'
    BY <1>3, <2>1, WorkersAre, PlacesAre
  <2>4. TrafficTypes'
    BY <1>5, <2>1 DEF TrafficTypes
  <2>5. ServerTypes' /\ MemoryTypes'
    BY <1>2, <2>1, <2>2 DEF ServerTypes, MemoryTypes
  <2>6. IdentityTypes'
    BY <1>2, <2>1 DEF IdentityTypes
  <2> QED BY <2>3, <2>4, <2>5, <2>6, Zenon DEF AllTypes
<1>8. ASSUME NEW n \in Names, HandleClientMessage(u, n)
      PROVE  AllTypes'
  <2> DEFINE found == HashTableReturnEntry(users, n)
  <2>1. {found} \ {NoUser} \subseteq Users
    <3>1. WellFormed(users, NameEntries) /\ n \in Keys
      BY <1>1, KeysInUse DEF TablesOK
    <3>2. found = NoUser \/ \E e \in Entries(users) : found = e.data
      BY <3>1, Lookup, Zenon
    <3>3. found = NoUser \/ found \in StoredUsers(users)
      BY <3>2, Zenon DEF StoredUsers
    <3> HIDE DEF found
    <3> QED BY <1>1, <3>3
  <2>2. /\ QueueFor({found} \ {NoUser}) /\ receiving' = receiving
        /\ UNCHANGED identity /\ UNCHANGED at /\ UNCHANGED memory /\ UNCHANGED server
    BY <1>8, Zenon DEF HandleClientMessage
  <2>3. TrafficTypes'
    BY <1>4, <1>5, <2>1, <2>2
  <2> QED BY <1>1, <2>2, <2>3, TypesUnchanged, Zenon DEF AllTypes
<1>9. CASE HandleBroadcast(u)
  <2>1. /\ QueueFor(StoredUsers(users)) /\ receiving' = receiving
        /\ UNCHANGED identity /\ UNCHANGED at /\ UNCHANGED memory /\ UNCHANGED server
    BY <1>9, Zenon DEF HandleBroadcast
  <2>2. TrafficTypes'
    BY <1>1, <1>4, <1>5, <2>1
  <2> QED BY <1>1, <2>1, <2>2, TypesUnchanged, Zenon DEF AllTypes
<1>10. CASE HandleList(u)
  <2>1. /\ receiving' = receiving \ {u} /\ sending' = sending
        /\ at' = Moved(u, "first", "done")
        /\ running' = FALSE /\ shutdown' = TRUE /\ listener' = listener
        /\ UNCHANGED identity /\ UNCHANGED memory
    BY <1>10, Zenon DEF HandleList, StopServer
  <2>2. AtType'
    BY <1>3, <2>1, WorkersAre, PlacesAre
  <2>3. TrafficTypes' /\ ServerTypes'
    BY <1>2, <1>5, <2>1 DEF TrafficTypes, ServerTypes
  <2> QED BY <1>1, <2>1, <2>2, <2>3, TypesUnchanged, Zenon DEF AllTypes
<1>11. CASE HandleLogout(u)
  <2>1. /\ receiving' = receiving \ {u} /\ sending' = sending
        /\ at' = Moved(u, "first", "leaving")
        /\ UNCHANGED identity /\ UNCHANGED memory /\ UNCHANGED server
    BY <1>11, Zenon DEF HandleLogout
  <2>2. AtType'
    BY <1>3, <2>1, WorkersAre, PlacesAre
  <2>3. TrafficTypes'
    BY <1>5, <2>1 DEF TrafficTypes
  <2> QED BY <1>1, <2>1, <2>2, <2>3, TypesUnchanged, Zenon DEF AllTypes
<1>12. CASE SendCompletes(u)
  <2>1. /\ sending' = sending \ {u} /\ PostReceive(u)
        /\ UNCHANGED identity /\ UNCHANGED at /\ UNCHANGED memory /\ UNCHANGED server
    BY <1>12, Zenon DEF SendCompletes
  <2>2. receiving' \subseteq Users
    BY <1>1, <2>1, PostType
  <2>3. TrafficTypes'
    BY <1>5, <2>1, <2>2 DEF TrafficTypes
  <2> QED BY <1>1, <2>1, <2>3, TypesUnchanged, Zenon DEF AllTypes
<1>13. CASE SendFails(u)
  <2>1. /\ sending' = sending \ {u} /\ receiving' = receiving
        /\ UNCHANGED at \/ \E w \in Workers : at' = Moved(u, w, "lockLost")
        /\ UNCHANGED identity /\ UNCHANGED memory /\ UNCHANGED server
    BY <1>13, Zenon DEF SendFails
  <2>2. AtType'
    BY <1>1, <1>3, <2>1, PlacesAre, TypesUnchanged
  <2>3. TrafficTypes'
    BY <1>5, <2>1 DEF TrafficTypes
  <2> QED BY <1>1, <2>1, <2>2, <2>3, TypesUnchanged, Zenon DEF AllTypes
<1>14. ASSUME NEW w \in Workers, LoseNew(u, w) PROVE AllTypes'
  <2>1. /\ receiving' = receiving \ {u} /\ sending' = sending
        /\ at' = Moved(u, w, "lockLost")
        /\ UNCHANGED identity /\ UNCHANGED memory /\ UNCHANGED server
    BY <1>14, Zenon DEF LoseNew, Completes
  <2>2. AtType'
    BY <1>3, <2>1, PlacesAre
  <2>3. TrafficTypes'
    BY <1>5, <2>1 DEF TrafficTypes
  <2> QED BY <1>1, <2>1, <2>2, <2>3, TypesUnchanged, Zenon DEF AllTypes
<1>15. ASSUME NEW w \in Workers, LoseNegotiated(u, w) PROVE AllTypes'
  <2> DEFINE found == HashTableReturnEntry(users, Username(u))
             gone == Leaver(u, found)
  <2>1. /\ receiving' = receiving \ {u} /\ QueueFor(StoredUsers(users'))
        /\ users' = HashTableDestroyEntry(users, Username(u))
        /\ at' = Moved(u, w, "done") /\ FreeUser(gone, u, w)
        /\ running' = (running /\ found # NoUser) /\ shutdown' = shutdown /\ listener' = listener
    BY <1>15, Zenon DEF LoseNegotiated, Completes
  <2>2. StoredUsers(users') \subseteq StoredUsers(users) /\ (found = NoUser \/ found \in Users)
    <3>1. Username(u) \in Keys
      BY <1>1, UsernameIsKey
    <3> QED BY <2>1, <3>1, RemoveFromUsers, Zenon
  <2>3. running' \in BOOLEAN
    BY <2>1, Zenon
  <2> HIDE DEF found
  <2>4. gone \in Users
    BY <2>2 DEF Leaver
  <2> HIDE DEF gone
  <2>5. IdentityTypes' /\ MemoryTypes'
    BY <1>1, <2>1, <2>4, FreeType, Zenon DEF IdentityTypes, MemoryTypes
  <2>6. AtType'
    BY <1>3, <2>1, PlacesAre
  <2>7. TrafficTypes'
    BY <1>1, <1>4, <1>5, <2>1, <2>2
  <2>8. ServerTypes'
    BY <1>2, <2>1, <2>3 DEF ServerTypes
  <2> QED BY <2>5, <2>6, <2>7, <2>8, Zenon DEF AllTypes
<1>16. ASSUME NEW w \in Workers, WaitAborted(u, w) PROVE AllTypes'
  <2>1. /\ receiving' = receiving \ {u} /\ (sending' = sending \/ QueueFor(StoredUsers(users)))
        /\ at' = Moved(u, w, "done")
        /\ running' = FALSE /\ listener' = listener /\ shutdown' = shutdown
        /\ UNCHANGED identity /\ UNCHANGED memory
    BY <1>16, Zenon DEF WaitAborted, Completes
  <2>2. AtType'
    BY <1>3, <2>1, PlacesAre
  <2>3. TrafficTypes'
    <3>1. CASE sending' = sending
      BY <1>5, <2>1, <3>1 DEF TrafficTypes
    <3>2. CASE QueueFor(StoredUsers(users))
      BY <1>1, <1>4, <1>5, <2>1, <3>2
    <3> QED BY <2>1, <3>1, <3>2
  <2>4. ServerTypes'
    BY <1>2, <2>1 DEF ServerTypes
  <2> QED BY <1>1, <2>1, <2>2, <2>3, <2>4, TypesUnchanged, Zenon DEF AllTypes
<1> QED BY <1>6, <1>7, <1>8, <1>9, <1>10, <1>11, <1>12, <1>13, <1>14, <1>15, <1>16

(* The types after a worker went on with its completion.                   *)
LEMMA GoOnTypes ==
  ASSUME ServerInv, ~broken, listener # "stopped", NEW u \in Users,
         \/ SetNegotiated(u) \/ CopyName(u) \/ RemoveNew(u)
         \/ LogoutRemove(u) \/ LogoutAborted(u)
         \/ \E w \in Workers : LockNewAborted(u, w) \/ RemoveLost(u, w)
  PROVE  AllTypes'
<1>1. /\ Types /\ TablesOK /\ BusyState
      /\ StoredUsers(users) \subseteq Users /\ StoredUsers(newUsers) \subseteq Users
  BY BeforeStep, Zenon
<1>2. TrafficTypes /\ ServerTypes /\ IdentityTypes /\ MemoryTypes /\ AtType
  BY <1>1, TypesSplit, Zenon
<1>3. ASSUME NEW w \in Workers, NEW place \in Locations, at' = Moved(u, w, place)
      PROVE  AtType'
  BY <1>1, <1>3, MovedType, Zenon DEF AtType
<1>4. receiving \subseteq Users /\ sending \subseteq Users
  BY <1>2 DEF TrafficTypes
<1>5. UNCHANGED traffic => TrafficTypes'
  BY <1>2 DEF TrafficTypes, traffic
<1>6. CASE SetNegotiated(u)
  <2>1. /\ at' = Moved(u, "first", "copying")
        /\ state' = [state EXCEPT ![u] = "negotiated"]
        /\ socket' = socket /\ name' = name
        /\ UNCHANGED traffic /\ UNCHANGED memory /\ UNCHANGED server
    BY <1>6, Zenon DEF SetNegotiated
  <2>2. AtType'
    BY <1>3, <2>1, WorkersAre, PlacesAre
  <2>3. IdentityTypes'
    BY <1>2, <2>1 DEF IdentityTypes
  <2> QED BY <1>1, <1>5, <2>1, <2>2, <2>3, TypesUnchanged, Zenon DEF AllTypes
<1>7. CASE CopyName(u)
  <2>1. /\ at' = Moved(u, "first", "lockNew")
        /\ UNCHANGED identity /\ UNCHANGED traffic /\ UNCHANGED memory /\ UNCHANGED server
    BY <1>7, Zenon DEF CopyName
  <2>2. AtType'
    BY <1>3, <2>1, WorkersAre, PlacesAre
  <2> QED BY <1>1, <1>5, <2>1, <2>2, TypesUnchanged, Zenon DEF AllTypes
<1>8. CASE RemoveNew(u)
  <2>1. /\ at' = Moved(u, "first", "idle")
        /\ sending' = (sending \ {u}) \cup {v \in StoredUsers(users) \ {u} : LoggingIn(v)}
        /\ PostReceive(u)
        /\ UNCHANGED identity /\ UNCHANGED memory /\ UNCHANGED server
    BY <1>8, Zenon DEF RemoveNew
  <2>2. AtType'
    BY <1>3, <2>1, WorkersAre, PlacesAre
  <2>3. sending' \subseteq Users
    BY <1>1, <1>4, <2>1
  <2>4. receiving' \subseteq Users
    BY <1>1, <2>1, PostType
  <2> QED BY <1>1, <2>1, <2>2, <2>3, <2>4, TypesUnchanged, Zenon DEF AllTypes, TrafficTypes
<1>9. CASE LogoutRemove(u)
  <2> DEFINE found == HashTableReturnEntry(users, Username(u))
  <2>1. /\ at' = Moved(u, "first", "done") /\ receiving' = receiving /\ listener' = listener
        /\ users' = HashTableDestroyEntry(users, Username(u))
        /\ \/ /\ found # NoUser /\ FreeUser(found, u, "first") /\ QueueFor(StoredUsers(users'))
              /\ running' = running /\ shutdown' = shutdown
           \/ /\ found = NoUser /\ FreeUser(u, u, "first") /\ sending' = sending
              /\ running' = FALSE /\ shutdown' = TRUE
    BY <1>9, Zenon DEF LogoutRemove, StopServer
  <2>2. StoredUsers(users') \subseteq StoredUsers(users) /\ (found = NoUser \/ found \in Users)
    <3>1. Username(u) \in Keys
      BY <1>1, UsernameIsKey
    <3> QED BY <2>1, <3>1, RemoveFromUsers, Zenon
  <2> HIDE DEF found
  <2>3. PICK gone \in Users : FreeUser(gone, u, "first")
    BY <2>1, <2>2
  <2>4. IdentityTypes' /\ MemoryTypes'
    BY <1>1, <2>3, FreeType, Zenon DEF IdentityTypes, MemoryTypes
  <2>5. AtType'
    BY <1>3, <2>1, WorkersAre, PlacesAre
  <2>6. TrafficTypes'
    <3>1. CASE sending' = sending
      BY <1>4, <2>1, <3>1 DEF TrafficTypes
    <3>2. CASE QueueFor(StoredUsers(users'))
      <4>1. StoredUsers(users') \subseteq Users
        BY <1>1, <2>2
      <4> QED BY <1>1, <1>4, <2>1, <3>2, <4>1, QueueType DEF TrafficTypes
    <3> QED BY <2>1, <3>1, <3>2
  <2>7. ServerTypes'
    BY <1>2, <2>1 DEF ServerTypes
  <2> QED BY <2>4, <2>5, <2>6, <2>7, Zenon DEF AllTypes
<1>10. CASE LogoutAborted(u)
  <2>1. /\ at' = Moved(u, "first", "done")
        /\ running' = FALSE /\ listener' = listener /\ shutdown' = shutdown
        /\ UNCHANGED identity /\ UNCHANGED traffic /\ UNCHANGED memory
    BY <1>10, Zenon DEF LogoutAborted
  <2>2. AtType'
    BY <1>3, <2>1, WorkersAre, PlacesAre
  <2>3. ServerTypes'
    BY <1>2, <2>1 DEF ServerTypes
  <2> QED BY <1>1, <1>5, <2>1, <2>2, <2>3, TypesUnchanged, Zenon DEF AllTypes
<1>11. ASSUME NEW w \in Workers, LockNewAborted(u, w) PROVE AllTypes'
  <2>1. /\ at' = Moved(u, w, "done")
        /\ running' = FALSE /\ listener' = listener /\ shutdown' = shutdown
        /\ UNCHANGED identity /\ UNCHANGED traffic /\ UNCHANGED memory
    BY <1>11, Zenon DEF LockNewAborted
  <2>2. AtType'
    BY <1>3, <2>1, PlacesAre
  <2>3. ServerTypes'
    BY <1>2, <2>1 DEF ServerTypes
  <2> QED BY <1>1, <1>5, <2>1, <2>2, <2>3, TypesUnchanged, Zenon DEF AllTypes
<1>12. ASSUME NEW w \in Workers, RemoveLost(u, w) PROVE AllTypes'
  <2> DEFINE found == HashTableReturnEntry(newUsers, socket[u])
  <2>1. /\ at[u][w] = "lockLost" /\ at' = Moved(u, w, "done") /\ receiving' = receiving
        /\ newUsers' = HashTableDestroyEntry(newUsers, socket[u])
        /\ \/ found # NoUser /\ FreeUser(found, u, w) /\ QueueFor(StoredUsers(users))
           \/ found = NoUser /\ FreeUser(u, u, w) /\ sending' = sending
        /\ UNCHANGED server
    BY <1>12, Zenon DEF RemoveLost
  <2>2. found = NoUser \/ found \in Users
    <3>1. state[u] \in {"new", "negotiated"}
      BY <1>1, <2>1 DEF BusyState, Busy, BusyAt
    <3> QED BY <2>1, <3>1, RemoveFromNew, Zenon
  <2> HIDE DEF found
  <2>3. PICK gone \in Users : FreeUser(gone, u, w)
    BY <2>1, <2>2
  <2>4. IdentityTypes' /\ MemoryTypes'
    BY <1>1, <2>3, FreeType, Zenon DEF IdentityTypes, MemoryTypes
  <2>5. AtType'
    BY <1>3, <2>1, PlacesAre
  <2>6. TrafficTypes'
    <3>1. CASE sending' = sending
      BY <1>4, <2>1, <3>1 DEF TrafficTypes
    <3>2. CASE QueueFor(StoredUsers(users))
      BY <1>1, <1>4, <2>1, <3>2, QueueType DEF TrafficTypes
    <3> QED BY <2>1, <3>1, <3>2
  <2> QED BY <1>1, <2>1, <2>4, <2>5, <2>6, TypesUnchanged, Zenon DEF AllTypes
<1> QED BY <1>6, <1>7, <1>8, <1>9, <1>10, <1>11, <1>12

(* The types after a step of the listener or the console.                  *)
LEMMA ListenTypes ==
  ASSUME ServerInv, ~broken,
         \/ \E u \in Users, s \in Sockets, prime \in NextPrime(newUsers.capacity),
              posted \in BOOLEAN : Accept(u, s, prime, posted)
         \/ ListenerStops \/ DestroyTables \/ GracefulShutdown
  PROVE  AllTypes'
<1>1. /\ Types /\ StoredUsers(users) \subseteq Users /\ StoredUsers(newUsers) \subseteq Users
  BY BeforeStep, Zenon
<1>2. TrafficTypes /\ ServerTypes /\ IdentityTypes /\ MemoryTypes /\ AtType
  BY <1>1, TypesSplit, Zenon
<1>3. ASSUME NEW u \in Users, NEW s \in Sockets, NEW prime \in NextPrime(newUsers.capacity),
             NEW posted \in BOOLEAN, Accept(u, s, prime, posted)
      PROVE  AllTypes'
  <2> DEFINE inserted == HashTableNewEntry(newUsers, u, s, prime)
             stored == inserted.ret = SUCCESS
  <2>1. /\ state' = [state EXCEPT ![u] = IF stored THEN "new" ELSE "freed"]
        /\ socket' = IF stored THEN [socket EXCEPT ![u] = s] ELSE socket
        /\ receiving' = IF stored /\ posted THEN receiving \cup {u} ELSE receiving
        /\ freed' = IF stored THEN freed ELSE freed \cup {u}
        /\ listener' = IF stored /\ posted /\ running THEN "accepting" ELSE "joining"
        /\ running' = (running /\ stored /\ posted) /\ shutdown' = shutdown
        /\ broken' = (inserted.table.slots = NoSlots)
        /\ name' = name /\ at' = at /\ sending' = sending
    BY <1>3 DEF Accept, Crash
  <2>2. running' \in BOOLEAN /\ broken' \in BOOLEAN
    BY <2>1, Zenon
  <2> HIDE DEF inserted, stored
  <2>3. IdentityTypes'
    BY <1>2, <2>1 DEF IdentityTypes
  <2>4. MemoryTypes' /\ ServerTypes'
    BY <1>2, <2>1, <2>2 DEF MemoryTypes, ServerTypes
  <2>5. TrafficTypes' /\ AtType'
    BY <1>2, <2>1 DEF TrafficTypes, AtType
  <2> QED BY <2>3, <2>4, <2>5, Zenon DEF AllTypes
<1>4. CASE ListenerStops
  <2>1. /\ listener' = "joining" /\ running' = FALSE /\ shutdown' = shutdown
        /\ UNCHANGED identity /\ UNCHANGED at /\ UNCHANGED traffic /\ UNCHANGED memory
    BY <1>4, Zenon DEF ListenerStops
  <2>2. ServerTypes' /\ TrafficTypes'
    BY <1>2, <2>1 DEF ServerTypes, TrafficTypes, traffic
  <2> QED BY <1>1, <2>1, <2>2, TypesUnchanged, Zenon DEF AllTypes
<1>5. CASE DestroyTables
  <2>1. /\ listener' = "stopped" /\ running' = running /\ shutdown' = shutdown
        /\ freed' = freed \cup StoredUsers(users) \cup StoredUsers(newUsers)
        /\ broken' \in BOOLEAN
        /\ UNCHANGED identity /\ UNCHANGED at /\ UNCHANGED traffic
    BY <1>5, Zenon DEF DestroyTables
  <2>2. ServerTypes' /\ TrafficTypes' /\ MemoryTypes'
    BY <1>1, <1>2, <2>1 DEF ServerTypes, TrafficTypes, MemoryTypes, traffic
  <2> QED BY <1>1, <2>1, <2>2, TypesUnchanged, Zenon DEF AllTypes
<1>6. CASE GracefulShutdown
  <2>1. /\ listener' = listener /\ running' = FALSE /\ shutdown' = TRUE
        /\ UNCHANGED identity /\ UNCHANGED at /\ UNCHANGED traffic /\ UNCHANGED memory
    BY <1>6, Zenon DEF GracefulShutdown, StopServer
  <2>2. ServerTypes' /\ TrafficTypes'
    BY <1>2, <2>1 DEF ServerTypes, TrafficTypes, traffic
  <2> QED BY <1>1, <2>1, <2>2, TypesUnchanged, Zenon DEF AllTypes
<1> QED BY <1>3, <1>4, <1>5, <1>6

----------------------------------------------------------------------------
(* The theorems.                                                           *)

(* A server that has just been started.                                    *)
LEMMA InitServerInv ==
  ASSUME Init
  PROVE  ServerInv
<1>1. MaxClients \in Nat
  BY UserTablesAssumption
<1>2. /\ WellFormed(users, NameEntries) /\ WellFormed(newUsers, SocketEntries)
      /\ users.capacity = HashTableInit(MaxClients).capacity
      /\ users.size = 0 /\ Entries(users) = {} /\ Entries(newUsers) = {}
  <2>1. users = HashTableInit(MaxClients) /\ newUsers = HashTableInit(MaxClients)
    BY DEF Init
  <2> QED BY <1>1, <2>1, InitWellFormed, Zenon
<1>3. StoredUsers(users) = {} /\ StoredUsers(newUsers) = {}
  BY <1>2 DEF StoredUsers
<1>4. /\ state = [u \in Users |-> "none"]
      /\ socket = [u \in Users |-> <<>>]
      /\ name = [u \in Users |-> <<>>]
      /\ at = [u \in Users |-> [w \in Workers |-> "idle"]]
      /\ receiving = {} /\ sending = {} /\ freed = {} /\ broken = FALSE
      /\ listener = "accepting" /\ running = TRUE /\ shutdown = FALSE /\ late = 0
  BY DEF Init
<1>5. TablesOK
  BY <1>2, Zenon DEF TablesOK, Usable
<1>6. TypeOK
  <2>1. late \in 0 .. MaxLate
    BY <1>4, UserTablesAssumption
  <2>2. Types
    BY <1>4, <2>1 DEF Types, Locations
  <2> QED BY <1>5, <2>2, TypeParts
<1>7. InBothWhileMoving /\ FreedIsIdle /\ FreedState /\ KeysAreSockets /\ KeysAreNames
  BY <1>2, <1>3, <1>4 DEF InBothWhileMoving, FreedIsIdle, FreedState, KeysAreSockets, KeysAreNames
<1>8. SocketsDiffer
  BY <1>4 DEF SocketsDiffer
<1>9. UsersAreIn /\ NewAreNew /\ Stopping /\ StoredUsersAreLive
  BY <1>3, <1>4 DEF UsersAreIn, NewAreNew, Stopping, StoredUsersAreLive
<1>10. Unused
  BY <1>3, <1>4 DEF Unused
<1>11. BusyState
  BY <1>4, WorkersAre DEF BusyState, Busy, BusyAt
<1>12. Limit
  <2>1. LetIn = {}
    BY <1>4, WorkersAre DEF LetIn
  <2> QED BY <1>1, <1>2, <2>1, FS_EmptySet DEF Limit
<1> QED BY <1>2, <1>5, <1>6, <1>7, <1>8, <1>9, <1>10, <1>11, <1>12, Zenon DEF ServerInv, Sound

(* Every action keeps what the invariant says of the tables.               *)
LEMMA NextKeeps ==
  ASSUME ServerInv, Next
  PROVE  Kept /\ AllTypes' /\ late' \in 0 .. MaxLate
<1>1. ~broken
  BY DEF Next
<1>2. late \in Nat /\ late =< MaxLate /\ MaxLate \in Nat
  <2>1. late \in 0 .. MaxLate
    BY Zenon DEF ServerInv, TypeOK
  <2> QED BY <2>1, UserTablesAssumption
<1>3. CASE Listen
  <2>1. late' = late
    BY <1>3 DEF Listen
  <2>2. late' \in 0 .. MaxLate
    BY <1>2, <2>1
  <2>3. \/ \E u \in Users, s \in Sockets, prime \in NextPrime(newUsers.capacity),
             posted \in BOOLEAN : Accept(u, s, prime, posted)
        \/ ListenerStops \/ DestroyTables \/ GracefulShutdown
    BY <1>3, Zenon DEF Listen
  <2>4. AllTypes'
    BY <1>1, <2>3, ListenTypes, Zenon
  <2>5. Kept
    BY <1>1, <2>3, AcceptKeeps, StopsKeep, DestroyTablesKeeps, Zenon
  <2> QED BY <2>2, <2>4, <2>5
<1>4. ASSUME listener # "stopped", NEW u \in Users, TakeCompletion(u)
      PROVE  Kept /\ AllTypes' /\ late' \in 0 .. MaxLate
  <2>1. late' \in 0 .. MaxLate
    <3>1. late' = (IF running THEN late ELSE late + 1) /\ (running \/ late < MaxLate)
      BY <1>4 DEF TakeCompletion, Waits
    <3> QED BY <1>2, <3>1
  <2>2. \/ Reject(u)
        \/ \E n \in Names, prime \in NextPrime(users.capacity) : CheckforUser(u, n, prime)
        \/ \E n \in Names : HandleClientMessage(u, n)
        \/ HandleBroadcast(u)
        \/ HandleList(u)
        \/ HandleLogout(u)
        \/ SendCompletes(u)
        \/ SendFails(u)
        \/ \E w \in Workers :
             LoseNew(u, w) \/ LoseNegotiated(u, w) \/ WaitAborted(u, w)
    BY <1>4, Zenon DEF TakeCompletion
  <2>3. AllTypes'
    BY <1>1, <2>2, CompletionTypes, Zenon
  <2>4. Kept
    <3>1. CASE Reject(u) \/ HandleBroadcast(u) \/ SendCompletes(u)
                 \/ \E n \in Names : HandleClientMessage(u, n)
      BY <1>1, <1>4, <3>1, QuietStepsKeep, Zenon
    <3>2. CASE \E n \in Names, prime \in NextPrime(users.capacity) : CheckforUser(u, n, prime)
      BY <1>1, <1>4, <3>2, CheckforUserKeeps, Zenon
    <3>3. CASE HandleList(u) \/ HandleLogout(u) \/ SendFails(u)
      BY <1>1, <1>4, <3>3, WorkersAre, MovesKeep, Zenon
    <3>4. ASSUME NEW w \in Workers, LoseNew(u, w) \/ WaitAborted(u, w) PROVE Kept
      BY <1>1, <1>4, <3>4, MovesKeep, Zenon
    <3>5. ASSUME NEW w \in Workers, LoseNegotiated(u, w) PROVE Kept
      BY <1>1, <1>4, <3>5, LoseNegotiatedKeeps, Zenon
    <3> QED BY <2>2, <3>1, <3>2, <3>3, <3>4, <3>5, Zenon
  <2> QED BY <2>1, <2>3, <2>4
<1>5. ASSUME listener # "stopped", NEW u \in Users, GoOn(u)
      PROVE  Kept /\ AllTypes' /\ late' \in 0 .. MaxLate
  <2>1. late' = late
    BY <1>5 DEF GoOn
  <2>2. late' \in 0 .. MaxLate
    BY <1>2, <2>1
  <2>3. \/ SetNegotiated(u) \/ CopyName(u) \/ RemoveNew(u)
        \/ LogoutRemove(u) \/ LogoutAborted(u)
        \/ \E w \in Workers : LockNewAborted(u, w) \/ RemoveLost(u, w)
    BY <1>5, Zenon DEF GoOn
  <2>4. AllTypes'
    BY <1>1, <1>5, <2>3, GoOnTypes, Zenon
  <2>5. Kept
    <3>1. CASE SetNegotiated(u)
      BY <1>1, <1>5, <3>1, SetNegotiatedKeeps, Zenon
    <3>2. CASE CopyName(u) \/ LogoutAborted(u)
      BY <1>1, <1>5, <3>2, WorkersAre, MovesKeep, Zenon
    <3>3. CASE RemoveNew(u)
      BY <1>1, <1>5, <3>3, RemoveNewKeeps, Zenon
    <3>4. CASE LogoutRemove(u)
      BY <1>1, <1>5, <3>4, LogoutRemoveKeeps, Zenon
    <3>5. ASSUME NEW w \in Workers, LockNewAborted(u, w) PROVE Kept
      BY <1>1, <1>5, <3>5, MovesKeep, Zenon
    <3>6. ASSUME NEW w \in Workers, RemoveLost(u, w) PROVE Kept
      BY <1>1, <1>5, <3>6, RemoveLostKeeps, Zenon
    <3> QED BY <2>3, <3>1, <3>2, <3>3, <3>4, <3>5, <3>6, Zenon
  <2> QED BY <2>2, <2>4, <2>5
<1> QED BY <1>3, <1>4, <1>5, Zenon DEF Next

(* A step that changes nothing.                                            *)
LEMMA StutterKeeps ==
  ASSUME ServerInv, UNCHANGED vars
  PROVE  ServerInv'
<1>1. /\ users' = users /\ newUsers' = newUsers /\ state' = state /\ socket' = socket
      /\ name' = name /\ at' = at /\ receiving' = receiving /\ sending' = sending
      /\ freed' = freed /\ broken' = broken
      /\ listener' = listener /\ running' = running /\ shutdown' = shutdown /\ late' = late
  BY DEF vars, tables, identity, traffic, memory, server
<1>2. TypeOK' /\ TablesOK' /\ InBothWhileMoving'
  BY <1>1 DEF ServerInv, TypeOK, TablesOK, InBothWhileMoving
<1>3. ASSUME Sound PROVE Sound'
  <2>1. /\ FreedIsIdle' /\ FreedState' /\ SocketsDiffer' /\ KeysAreSockets' /\ KeysAreNames'
        /\ (WellFormed(newUsers, SocketEntries))'
    BY <1>1, <1>3 DEF Sound, FreedIsIdle, FreedState, SocketsDiffer, KeysAreSockets, KeysAreNames,
         Busy
  <2>2. UsersAreIn' /\ NewAreNew' /\ Unused' /\ BusyState'
    BY <1>1, <1>3 DEF Sound, UsersAreIn, NewAreNew, Unused, BusyState, Busy
  <2>3. Stopping' /\ Limit' /\ StoredUsersAreLive'
    BY <1>1, <1>3 DEF Sound, Stopping, Limit, LetIn, StoredUsersAreLive
  <2> QED BY <2>1, <2>2, <2>3, Zenon DEF Sound
<1> QED BY <1>1, <1>2, <1>3 DEF ServerInv

(* The invariant of the server's tables and users: ServerInv is inductive, *)
(* for any hash function, any number of clients, names and sockets, and    *)
(* any order in which workers, listener and console take their steps.      *)
THEOREM ServerInvariant == Spec => []ServerInv
<1>1. Init => ServerInv
  BY InitServerInv
<1>2. ServerInv /\ [Next]_vars => ServerInv'
  <2> SUFFICES ASSUME ServerInv, [Next]_vars PROVE ServerInv'
    OBVIOUS
  <2>1. CASE Next
    <3>1. Kept /\ AllTypes' /\ late' \in 0 .. MaxLate
      BY <2>1, NextKeeps
    <3>2. TablesOK' /\ Types'
      BY <3>1, Zenon DEF Kept, AllTypes, Types, IdentityTypes, MemoryTypes, ServerTypes,
           TrafficTypes, AtType
    <3>3. (TablesOK /\ Types => TypeOK)'
      BY TypeParts, PTL
    <3> QED BY <3>1, <3>2, <3>3, Zenon DEF Kept, ServerInv
  <2>2. CASE UNCHANGED vars
    BY <2>2, StutterKeeps
  <2> QED BY <2>1, <2>2
<1> QED BY <1>1, <1>2, PTL DEF Spec

(* TypeOK: what CreateUsers made and the handlers changed is of its type.  *)
THEOREM TypeCorrect == Spec => []TypeOK
<1>1. ServerInv => TypeOK
  BY Zenon DEF ServerInv
<1> QED BY <1>1, ServerInvariant, PTL

(* InBothWhileMoving: a user is in the users table and among the new ones  *)
(* only while HandleClientRegistration is moving it, or after the shutdown *)
(* event cut that short.                                                   *)
THEOREM OnlyMovingUsersInBoth == Spec => []InBothWhileMoving
<1>1. ServerInv => InBothWhileMoving
  BY Zenon DEF ServerInv
<1> QED BY <1>1, ServerInvariant, PTL

(* ClientsWithinLimit: the test of m_wSize in CheckforUser, read under the *)
(* write mutex, keeps the users that are logged in within m_dwMaxClients,  *)
(* for every limit and whatever leaves the table in the meantime.          *)
THEOREM LimitHolds == Spec => []ClientsWithinLimit
<1>1. ServerInv => ClientsWithinLimit
  <2> SUFFICES ASSUME ServerInv, ~broken PROVE ClientsWithinLimit
    BY Zenon DEF ClientsWithinLimit
  <2> DEFINE L == LetIn
             In == {u \in Users \ freed : state[u] = "negotiated"}
  <2>1. IsFiniteSet(L) /\ Cardinality(L) =< users.size /\ users.size =< MaxClients
    BY BeforeStep, Zenon DEF Limit
  <2>2. users.size \in Nat /\ MaxClients \in Nat
    <3>1. WellFormed(users, NameEntries)
      BY BeforeStep, Zenon DEF TablesOK
    <3> QED BY <3>1, WellFormedFields, WordCount, UserTablesAssumption, Zenon
  <2>3. In \subseteq L
    BY DEF LetIn
  <2> HIDE DEF L, In
  <2>4. /\ Cardinality(In) =< Cardinality(L)
        /\ Cardinality(In) \in Nat /\ Cardinality(L) \in Nat
    BY <2>1, <2>3, FS_Subset, FS_CardinalityType
  <2>5. Cardinality(In) =< MaxClients
    BY <2>1, <2>2, <2>4
  <2> QED BY <2>5, Zenon DEF ClientsWithinLimit, In
<1> QED BY <1>1, ServerInvariant, PTL

(* StoredUsersAreLive: while the server runs, a table holds a freed user   *)
(* only when a second worker handled it: the lookups that precede each     *)
(* UserFreeFunction find the user that leaves and take it out.             *)
THEOREM StoredAreLive == Spec => []StoredUsersAreLive
<1>1. ServerInv => StoredUsersAreLive
  <2>1. broken => StoredUsersAreLive
    BY Zenon DEF StoredUsersAreLive
  <2>2. ServerInv /\ ~broken => StoredUsersAreLive
    BY BeforeStep, Zenon
  <2> QED BY <2>1, <2>2
<1> QED BY <1>1, ServerInvariant, PTL

(* EntriesAreFound: HashTableReturnEntry returns the data of every entry   *)
(* for that entry's key, in whatever slot the rehash has put it.           *)
THEOREM EveryEntryIsFound == Spec => []EntriesAreFound
<1>1. ServerInv => EntriesAreFound
  <2> SUFFICES ASSUME ServerInv PROVE EntriesAreFound
    OBVIOUS
  <2>1. Usable(users, NameEntries) /\ Usable(newUsers, SocketEntries)
    BY Zenon DEF ServerInv, TablesOK, Usable
  <2>2. ASSUME NEW table, NEW E, Usable(table, E), \A e \in E : e.key \in Keys,
               NEW e \in Entries(table)
        PROVE  HashTableReturnEntry(table, e.key) = e.data
    <3>1. CASE WellFormed(table, E)
      BY <2>2, <3>1, FoundByKey
    <3>2. CASE table.slots = NoSlots
      BY <2>2, <3>2, NoSlotsNoEntries
    <3> QED BY <2>2, <3>1, <3>2, Zenon DEF Usable
  <2>3. /\ \A e \in Entries(users) : HashTableReturnEntry(users, e.key) = e.data
        /\ \A e \in Entries(newUsers) : HashTableReturnEntry(newUsers, e.key) = e.data
    BY <2>1, <2>2, KeysInUse, Zenon
  <2>4. \A table \in {users, newUsers} : table = users \/ table = newUsers
    OBVIOUS
  <2> QED BY <2>3, <2>4, Zenon DEF EntriesAreFound
<1> QED BY <1>1, ServerInvariant, PTL

(* The part of TablesKeepTheirSlots that is about m_pUsersHTable: it never *)
(* grows, because m_wSize is tested against m_dwMaxClients before each     *)
(* insertion, and so never loses the slots it was made with.               *)
UsersTableKeepsItsSlots ==
  /\ users.capacity = HashTableInit(MaxClients).capacity
  /\ users.capacity > 0 /\ DOMAIN users.slots = 0 .. (users.capacity - 1)

(* The users table is as large as CreateUsers made it, with all its slots. *)
THEOREM UsersTableNeverGrows == Spec => []UsersTableKeepsItsSlots
<1>1. ServerInv => UsersTableKeepsItsSlots
  <2> SUFFICES ASSUME ServerInv PROVE UsersTableKeepsItsSlots
    OBVIOUS
  <2>1. /\ WellFormed(users, NameEntries)
        /\ users.capacity = HashTableInit(MaxClients).capacity
    BY Zenon DEF ServerInv, TablesOK
  <2>2. /\ users.capacity \in Nat \ {0}
        /\ users.slots \in [0 .. (users.capacity - 1) -> OneOf(NameEntries)]
    BY <2>1, WellFormedFields, Zenon
  <2>3. users.capacity > 0 /\ DOMAIN users.slots = 0 .. (users.capacity - 1)
    BY <2>2
  <2> QED BY <2>1, <2>3 DEF UsersTableKeepsItsSlots
<1> QED BY <1>1, ServerInvariant, PTL

----------------------------------------------------------------------------
(* The other table, when there is always a capacity to grow to.            *)

(* From every capacity that is still to grow, NextPrime finds a larger     *)
(* one: of the odd numbers up to twice the capacity, or up to 65534, one   *)
(* is not turned down by IsPrime, whatever five bases it draws.  A prime   *)
(* never is, so this is Bertrand's postulate; it is assumed, not proved.   *)
GrowsToPrimes == \A c \in 1 .. (MAX_PRIME_IN_RANGE - 1) : 0 \notin NextPrime(c)

NewUsersHaveSlots == WellFormed(newUsers, SocketEntries)

(* The socket handles are keys of one length.                              *)
LEMMA SocketsOfOneLength == OneLength(SocketEntries)
BY KeysInUse, UserTablesAssumption DEF OneLength, SocketEntries

(* A new connection leaves the table its slots (Accept).                   *)
LEMMA AcceptKeepsSlots ==
  ASSUME GrowsToPrimes, NewUsersHaveSlots, NEW u \in Users, NEW s \in Sockets,
         NEW prime \in NextPrime(newUsers.capacity)
  PROVE  WellFormed(HashTableNewEntry(newUsers, u, s, prime).table, SocketEntries)
<1>1. WellFormed(newUsers, SocketEntries) /\ newUsers.capacity \in Nat \ {0}
  BY WellFormedFields, Zenon DEF NewUsersHaveSlots
<1>2. prime \in Nat
  BY <1>1, NextPrimeType
<1>3. ASSUME NeedsReHash(newUsers) PROVE prime # 0
  <2>1. newUsers.capacity \in 1 .. (MAX_PRIME_IN_RANGE - 1)
    BY <1>1, <1>3, HashTableAssumption DEF NeedsReHash
  <2> QED BY <2>1 DEF GrowsToPrimes
<1>4. s \in Keys /\ [key |-> s, data |-> u] \in SocketEntries
  BY KeysInUse DEF SocketEntries
<1> QED BY <1>1, <1>2, <1>3, <1>4, SocketsOfOneLength, NewEntryKeepsSlots

(* The other handlers leave the table alone, or take one user out of it.   *)
LEMMA NewUsersChange ==
  ASSUME Next
  PROVE  \/ newUsers' = newUsers
         \/ \E u \in Users : newUsers' = HashTableDestroyEntry(newUsers, socket[u])
         \/ \E u \in Users, s \in Sockets, prime \in NextPrime(newUsers.capacity) :
              newUsers' = HashTableNewEntry(newUsers, u, s, prime).table
<1>1. CASE Listen
  BY <1>1 DEF Listen, Accept, ListenerStops, DestroyTables, GracefulShutdown, tables
<1>2. ASSUME NEW u \in Users, TakeCompletion(u) PROVE newUsers' = newUsers
  BY <1>2 DEF TakeCompletion, Reject, CheckforUser, HandleClientMessage, HandleBroadcast,
       HandleList, HandleLogout, SendCompletes, SendFails, LoseNew, LoseNegotiated, WaitAborted,
       tables
<1>3. ASSUME NEW u \in Users, GoOn(u)
      PROVE  newUsers' = newUsers \/ newUsers' = HashTableDestroyEntry(newUsers, socket[u])
  BY <1>3 DEF GoOn, SetNegotiated, CopyName, RemoveNew, LeaveNew, LogoutRemove, LogoutAborted,
       LockNewAborted, RemoveLost, tables
<1> QED BY <1>1, <1>2, <1>3 DEF Next

(* So no step takes the slots away.                                        *)
LEMMA SlotsStep ==
  ASSUME GrowsToPrimes, TypeOK, NewUsersHaveSlots, [Next]_vars
  PROVE  NewUsersHaveSlots'
<1>1. CASE newUsers' = newUsers
  BY <1>1 DEF NewUsersHaveSlots
<1>2. ASSUME NEW u \in Users, newUsers' = HashTableDestroyEntry(newUsers, socket[u])
      PROVE  NewUsersHaveSlots'
  <2>1. socket[u] \in Keys
    BY KeysInUse DEF TypeOK
  <2>2. WellFormed(HashTableDestroyEntry(newUsers, socket[u]), SocketEntries)
    BY <2>1, LookupAndRemove, Zenon DEF NewUsersHaveSlots
  <2> QED BY <1>2, <2>2, Zenon DEF NewUsersHaveSlots
<1>3. ASSUME NEW u \in Users, NEW s \in Sockets, NEW prime \in NextPrime(newUsers.capacity),
             newUsers' = HashTableNewEntry(newUsers, u, s, prime).table
      PROVE  NewUsersHaveSlots'
  BY <1>3, AcceptKeepsSlots, Zenon DEF NewUsersHaveSlots
<1>4. CASE UNCHANGED vars
  BY <1>1, <1>4 DEF vars, tables
<1> QED BY <1>1, <1>2, <1>3, <1>4, NewUsersChange

(* TablesKeepTheirSlots: m_pUsersHTable never grows, and m_pNewUsersTable, *)
(* which does, keeps a slot for every index, whatever users come and go:   *)
(* no rehash meets a key it refuses, because the socket handles are of one *)
(* length and the list it inserts has none twice.  That there is a prime   *)
(* to grow to is the hypothesis.                                           *)
THEOREM SlotsAreKept ==
  ASSUME GrowsToPrimes
  PROVE  Spec => []TablesKeepTheirSlots
<1>1. Init => NewUsersHaveSlots
  BY InitWellFormed, UserTablesAssumption DEF Init, NewUsersHaveSlots
<1>2. TypeOK /\ NewUsersHaveSlots /\ [Next]_vars => NewUsersHaveSlots'
  BY SlotsStep
<1>3. Spec => []NewUsersHaveSlots
  BY <1>1, <1>2, TypeCorrect, PTL DEF Spec
<1>4. UsersTableKeepsItsSlots /\ NewUsersHaveSlots => TablesKeepTheirSlots
  <2> SUFFICES ASSUME UsersTableKeepsItsSlots, NewUsersHaveSlots PROVE TablesKeepTheirSlots
    OBVIOUS
  <2>1. /\ newUsers.capacity \in Nat \ {0}
        /\ newUsers.slots \in [0 .. (newUsers.capacity - 1) -> OneOf(SocketEntries)]
    BY WellFormedFields, Zenon DEF NewUsersHaveSlots
  <2>2. newUsers.capacity > 0 /\ DOMAIN newUsers.slots = 0 .. (newUsers.capacity - 1)
    BY <2>1
  <2> QED BY <2>2 DEF UsersTableKeepsItsSlots, TablesKeepTheirSlots
<1> QED BY <1>3, <1>4, UsersTableNeverGrows, PTL

=============================================================================
