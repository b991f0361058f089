-------------------------- MODULE UsersLockProofs --------------------------
(***************************************************************************)
(* UsersLock for every number of workers and every client limit: its type  *)
(* invariant, who owns the mutex, what the counter and the semaphore       *)
(* count, the exclusion that holds, and the refinement of                  *)
(* UsersAccess!SharedSpec.                                                 *)
(*                                                                         *)
(* The state invariants are proved together, as IInv: that the count does  *)
(* not go below zero needs CountExact, that the semaphore stays below its  *)
(* maximum needs SemaphoreExact, and that nobody writes once a mutex is    *)
(* kept needs KeeperLeaves.                                                *)
(***************************************************************************)
EXTENDS UsersLock, FiniteSetTheorems, TLAPS

USE DEF Outside, Registering, Writer, Finishing, Locations

(* A thread that kept the mutex broadcasts and leaves its loop.            *)
KeeperLeaves == leaked => pc[mutex] \notin {"idle", "w_lock"} \cup Writer

IInv == TypeOK /\ MutexExact /\ KeeperLeaves /\ CountExact /\ SemaphoreExact

(* When one thread moves, the number of threads at a set of locations      *)
(* changes by what that thread left or entered.                            *)
LEMMA MoveCardinality ==
  ASSUME NEW S, NEW t \in Threads, NEW l, pc \in [Threads -> Locations],
         Goto(t, l)
  PROVE  /\ Cardinality(At(S)) \in Nat
         /\ Cardinality(At(S)') \in Nat
         /\ (pc[t] \in S <=> l \in S) => At(S)' = At(S)
         /\ pc[t] \in S /\ l \notin S =>
              Cardinality(At(S)') = Cardinality(At(S)) - 1
         /\ pc[t] \notin S /\ l \in S =>
              Cardinality(At(S)') = Cardinality(At(S)) + 1
<1>1. IsFiniteSet(At(S)) /\ Cardinality(At(S)) \in Nat
  <2>1. At(S) \in SUBSET Threads
    BY DEF At
  <2> QED BY <2>1, ThreadsAssumption, FS_Subset, FS_CardinalityType
<1>2. IsFiniteSet(At(S)') /\ Cardinality(At(S)') \in Nat
  <2>1. At(S)' \in SUBSET Threads
    BY DEF At
  <2> QED BY <2>1, ThreadsAssumption, FS_Subset, FS_CardinalityType
<1>3. ASSUME pc[t] \in S <=> l \in S
      PROVE  At(S)' = At(S)
  BY <1>3 DEF At, Goto
<1>4. ASSUME pc[t] \in S, l \notin S
      PROVE  Cardinality(At(S)') = Cardinality(At(S)) - 1
  <2>1. At(S)' = At(S) \ {t} /\ t \in At(S)
    BY <1>4 DEF At, Goto
  <2> QED BY <2>1, <1>1, FS_RemoveElement
<1>5. ASSUME pc[t] \notin S, l \in S
      PROVE  Cardinality(At(S)') = Cardinality(At(S)) + 1
  <2>1. At(S)' = At(S) \cup {t} /\ t \notin At(S)
    BY <1>5 DEF At, Goto
  <2> QED BY <2>1, <1>1, FS_AddElement
<1> QED BY <1>1, <1>2, <1>3, <1>4, <1>5

(* The two cases of MoveCardinality the invariant needs.                   *)
LEMMA MoveCounted ==
  ASSUME NEW t \in Threads, NEW l, pc \in [Threads -> Locations], Goto(t, l)
  PROVE  /\ Cardinality(Counted) \in Nat /\ Cardinality(Counted') \in Nat
         /\ (pc[t] \in CountedAt <=> l \in CountedAt) => Counted' = Counted
         /\ pc[t] \in CountedAt /\ l \notin CountedAt =>
              Cardinality(Counted') = Cardinality(Counted) - 1
         /\ pc[t] \notin CountedAt /\ l \in CountedAt =>
              Cardinality(Counted') = Cardinality(Counted) + 1
<1> DEFINE S == CountedAt
<1>1. Counted = At(S) /\ Counted' = At(S)'
  BY DEF Counted, CountedAt
<1> HIDE DEF S
<1> QED BY <1>1, MoveCardinality DEF S

LEMMA MoveAdmitted ==
  ASSUME NEW t \in Threads, NEW l, pc \in [Threads -> Locations], Goto(t, l)
  PROVE  /\ Cardinality(Admitted) \in Nat /\ Cardinality(Admitted') \in Nat
         /\ (pc[t] \in AdmittedAt <=> l \in AdmittedAt) =>
              Admitted' = Admitted
         /\ pc[t] \in AdmittedAt /\ l \notin AdmittedAt =>
              Cardinality(Admitted') = Cardinality(Admitted) - 1
         /\ pc[t] \notin AdmittedAt /\ l \in AdmittedAt =>
              Cardinality(Admitted') = Cardinality(Admitted) + 1
<1> DEFINE S == AdmittedAt
<1>1. Admitted = At(S) /\ Admitted' = At(S)'
  BY DEF Admitted, AdmittedAt
<1> HIDE DEF S
<1> QED BY <1>1, MoveCardinality DEF S

LEMMA InitIInv == Init => IInv
<1> SUFFICES ASSUME Init PROVE IInv
  OBVIOUS
<1>1. TypeOK
  <2>1. semaphore \in 0..MaxReaders /\ readerCount \in Nat
    BY MaxReadersAssumption DEF Init
  <2>2. pc \in [Threads -> Locations]
    BY DEF Init
  <2> QED BY <2>1, <2>2 DEF Init, TypeOK
<1>0. MutexExact
  BY ThreadsAssumption DEF Init, MutexExact, At
<1>2. Counted = {} /\ Admitted = {}
  BY DEF Init, Counted, Admitted, CountedAt, AdmittedAt, At
<1> QED BY <1>0, <1>1, <1>2, FS_EmptySet, MaxReadersAssumption
        DEF Init, IInv, KeeperLeaves, CountExact, SemaphoreExact

(* No step of a thread, and no shutdown, breaks the invariant.             *)
LEMMA NextIInv == IInv /\ [Next]_vars => IInv'
<1> SUFFICES ASSUME IInv, [Next]_vars PROVE IInv'
  OBVIOUS
<1> USE DEF IInv, TypeOK, MutexExact, KeeperLeaves, CountExact, SemaphoreExact,
           CountedAt, AdmittedAt, At, CanLock, Release
<1>1. ASSUME NEW t \in Threads, TakeRequest(t) PROVE IInv'
  <2> PICK l \in {"r_lock", "w_lock"} : Goto(t, l)
    BY <1>1 DEF TakeRequest
  <2>1. Counted' = Counted /\ Admitted' = Admitted
    BY <1>1, MoveCounted, MoveAdmitted DEF TakeRequest
  <2> QED BY <2>1, <1>1, ThreadsAssumption DEF TakeRequest, Goto
<1>2. ASSUME NEW t \in Threads, ReaderStartLock(t) PROVE IInv'
  <2>1. Counted' = Counted /\ Admitted' = Admitted
    BY <1>2, MoveCounted, MoveAdmitted DEF ReaderStartLock
  <2> QED BY <2>1, <1>2, ThreadsAssumption DEF ReaderStartLock, Goto
<1>3. ASSUME NEW t \in Threads, ReaderStartSemaphore(t) PROVE IInv'
  <2>1. /\ Counted' = Counted
        /\ Cardinality(Admitted') = Cardinality(Admitted) + 1
        /\ Cardinality(Admitted) \in Nat
    BY <1>3, MoveCounted, MoveAdmitted DEF ReaderStartSemaphore
  <2> QED BY <2>1, <1>3, ThreadsAssumption, MaxReadersAssumption
          DEF ReaderStartSemaphore, Goto
<1>4. ASSUME NEW t \in Threads, ReaderStartIncrement(t) PROVE IInv'
  <2>1. /\ Admitted' = Admitted
        /\ Cardinality(Counted') = Cardinality(Counted) + 1
    BY <1>4, MoveCounted, MoveAdmitted DEF ReaderStartIncrement
  <2> QED BY <2>1, <1>4, ThreadsAssumption DEF ReaderStartIncrement, Goto
<1>5. ASSUME NEW t \in Threads, ReaderStartReset(t) PROVE IInv'
  <2>1. Counted' = Counted /\ Admitted' = Admitted
    BY <1>5, MoveCounted, MoveAdmitted DEF ReaderStartReset
  <2> QED BY <2>1, <1>5, ThreadsAssumption DEF ReaderStartReset, Goto
<1>6. ASSUME NEW t \in Threads, ReaderStartUnlock(t) PROVE IInv'
  <2>1. Counted' = Counted /\ Admitted' = Admitted
    BY <1>6, MoveCounted, MoveAdmitted DEF ReaderStartUnlock
  <2>2. mutex = t /\ pc' = [pc EXCEPT ![t] = "reading"]
    BY <1>6 DEF ReaderStartUnlock, Goto
  <2>3. TypeOK'
    BY <2>2, <1>6, ThreadsAssumption DEF ReaderStartUnlock
  <2>4. MutexExact' /\ KeeperLeaves'
    BY <2>2, <1>6, ThreadsAssumption DEF ReaderStartUnlock
  <2>5. CountExact' /\ SemaphoreExact'
    BY <2>1, <1>6 DEF ReaderStartUnlock
  <2> HIDE DEF TypeOK, MutexExact, KeeperLeaves, CountExact, SemaphoreExact
  <2> QED BY <2>3, <2>4, <2>5
<1>7. ASSUME NEW t \in Threads, ReaderFinishRelease(t) PROVE IInv'
  <2>1. /\ Counted' = Counted
        /\ Cardinality(Admitted') = Cardinality(Admitted) - 1
        /\ Cardinality(Admitted) \in Nat
        /\ Cardinality(Admitted') \in Nat
    BY <1>7, MoveCounted, MoveAdmitted DEF ReaderFinishRelease
  <2>2. semaphore' \in 0..MaxReaders /\ SemaphoreExact'
    BY <2>1, <1>7, MaxReadersAssumption DEF ReaderFinishRelease
  <2>3. pc' \in [Threads -> Locations] /\ MutexExact' /\ KeeperLeaves'
    BY <1>7, ThreadsAssumption DEF ReaderFinishRelease, Goto
  <2>4. CountExact'
    BY <2>1, <1>7 DEF ReaderFinishRelease
  <2> QED BY <2>2, <2>3, <2>4, <1>7 DEF ReaderFinishRelease
<1>8. ASSUME NEW t \in Threads, ReaderFinishCompare(t) PROVE IInv'
  <2>1. CASE readerCount <= 1
    <3>1. Goto(t, "f_signal") /\ pc[t] = "f_compare"
      BY <2>1, <1>8 DEF ReaderFinishCompare
    <3>2. /\ Admitted' = Admitted
          /\ Cardinality(Counted') = Cardinality(Counted) - 1
          /\ Cardinality(Counted') \in Nat
      BY <3>1, MoveCounted, MoveAdmitted
    <3>3. readerCount = 1
      BY <3>2, <2>1
    <3> QED BY <3>1, <3>2, <3>3, <1>8, ThreadsAssumption
            DEF ReaderFinishCompare, Goto
  <2>2. CASE ~(readerCount <= 1)
    <3>1. Goto(t, "f_decrement") /\ pc[t] = "f_compare"
      BY <2>2, <1>8 DEF ReaderFinishCompare
    <3>2. Admitted' = Admitted /\ Counted' = Counted
      BY <3>1, MoveCounted, MoveAdmitted
    <3> QED BY <3>1, <3>2, <2>2, <1>8, ThreadsAssumption
            DEF ReaderFinishCompare, Goto
  <2> QED BY <2>1, <2>2
<1>9. ASSUME NEW t \in Threads, ReaderFinishSignal(t) PROVE IInv'
  <2>1. Counted' = Counted /\ Admitted' = Admitted
    BY <1>9, MoveCounted, MoveAdmitted DEF ReaderFinishSignal, LoopHead
  <2> QED BY <2>1, <1>9, ThreadsAssumption
          DEF ReaderFinishSignal, Goto, LoopHead
<1>10. ASSUME NEW t \in Threads, ReaderFinishDecrement(t) PROVE IInv'
  <2>1. /\ Admitted' = Admitted
        /\ Cardinality(Counted') = Cardinality(Counted) - 1
        /\ Cardinality(Counted') \in Nat
    BY <1>10, MoveCounted, MoveAdmitted DEF ReaderFinishDecrement, LoopHead
  <2> QED BY <2>1, <1>10, ThreadsAssumption
          DEF ReaderFinishDecrement, Goto, LoopHead
<1>11. ASSUME NEW t \in Threads, WriterLock(t) PROVE IInv'
  <2>1. Counted' = Counted /\ Admitted' = Admitted
    BY <1>11, MoveCounted, MoveAdmitted DEF WriterLock
  <2> QED BY <2>1, <1>11, ThreadsAssumption DEF WriterLock, Goto
<1>12. ASSUME NEW t \in Threads, WriterCheck(t) PROVE IInv'
  <2>1. Counted' = Counted /\ Admitted' = Admitted
    BY <1>12, MoveCounted, MoveAdmitted DEF WriterCheck
  <2> QED BY <2>1, <1>12, ThreadsAssumption DEF WriterCheck, Goto
<1>13. ASSUME NEW t \in Threads, WriterWait(t) PROVE IInv'
  <2>1. Counted' = Counted /\ Admitted' = Admitted
    BY <1>13, MoveCounted, MoveAdmitted DEF WriterWait
  <2> QED BY <2>1, <1>13, ThreadsAssumption DEF WriterWait, Goto
<1>14. ASSUME NEW t \in Threads, WriterRelease(t) PROVE IInv'
  <2> PICK l \in {"idle", "exited", "r_lock"} : Goto(t, l)
    BY <1>14 DEF WriterRelease, LoopHead
  <2>1. Counted' = Counted /\ Admitted' = Admitted
    BY <1>14, MoveCounted, MoveAdmitted DEF WriterRelease
  <2> QED BY <2>1, <1>14, ThreadsAssumption DEF WriterRelease, Goto
<1>15. ASSUME NEW t \in Threads, WaitInterrupted(t) PROVE IInv'
  <2> PICK l \in {"exited", "r_lock"} : Goto(t, l)
    BY <1>15 DEF WaitInterrupted
  <2>1. Counted' = Counted /\ Admitted' = Admitted
    BY <1>15, MoveCounted, MoveAdmitted DEF WaitInterrupted
  <2> QED BY <2>1, <1>15, ThreadsAssumption DEF WaitInterrupted, Goto
<1>16. ASSUME NEW t \in Threads, Exit(t) PROVE IInv'
  <2>1. Counted' = Counted /\ Admitted' = Admitted
    BY <1>16, MoveCounted, MoveAdmitted DEF Exit
  <2> QED BY <2>1, <1>16, ThreadsAssumption DEF Exit, Goto
<1>19. ASSUME NEW t \in Threads, ClientShutdownInterrupted(t) PROVE IInv'
  <2>1. Counted' = Counted /\ Admitted' = Admitted
    BY <1>19, MoveCounted, MoveAdmitted DEF ClientShutdownInterrupted
  <2> QED BY <2>1, <1>19, ThreadsAssumption
          DEF ClientShutdownInterrupted, Goto
<1>20. ASSUME NEW t \in Threads, WaitAbandoned(t) PROVE IInv'
  <2> PICK l \in {"exited", "r_lock"} : Goto(t, l)
    BY <1>20 DEF WaitAbandoned
  <2>1. Counted' = Counted /\ Admitted' = Admitted
    BY <1>20, MoveCounted, MoveAdmitted DEF WaitAbandoned
  <2>2. mutex \in Threads /\ leaked /\ shutdown /\ At(Writer) = {}
    BY <1>20 DEF WaitAbandoned
  <2> QED BY <2>1, <2>2, <1>20, ThreadsAssumption DEF WaitAbandoned, Goto
<1>17. ASSUME Shutdown PROVE IInv'
  BY <1>17 DEF Shutdown, At, Counted, Admitted
<1>18. ASSUME UNCHANGED vars PROVE IInv'
  BY <1>18 DEF vars, At, Counted, Admitted
<1> QED BY <1>1, <1>2, <1>3, <1>4, <1>5, <1>6, <1>7, <1>8, <1>9, <1>10,
          <1>11, <1>12, <1>13, <1>14, <1>15, <1>16, <1>17, <1>18,
          <1>19, <1>20
       DEF Next, Proceed

LEMMA Invariance == Spec => []IInv
<1> QED BY InitIInv, NextIInv, PTL DEF Spec

(* Every variable keeps its type, whatever the threads do.                 *)
THEOREM TypeCorrect == Spec => []TypeOK
<1>1. IInv => TypeOK
  BY DEF IInv
<1> QED BY <1>1, Invariance, PTL

(* Every thread that relies on the mutex owns it, and only ClientShutdown, *)
(* in a server that is stopping, leaves it owned by a thread that does not *)
(* release it.                                                             *)
THEOREM MutexCorrect == Spec => []MutexExact
<1>1. IInv => MutexExact
  BY DEF IInv
<1> QED BY <1>1, Invariance, PTL

(* m_plReaderCount counts the readers exactly.                             *)
THEOREM CountCorrect == Spec => []CountExact
<1>1. IInv => CountExact
  BY DEF IInv
<1> QED BY <1>1, Invariance, PTL

(* The semaphore neither loses nor gains a unit.                           *)
THEOREM SemaphoreCorrect == Spec => []SemaphoreExact
<1>1. IInv => SemaphoreExact
  BY DEF IInv
<1> QED BY <1>1, Invariance, PTL

-----------------------------------------------------------------------------
(* The exclusion between readers and writers that does hold.               *)

(* The readers in the table are among the threads the counter counts.      *)
LEMMA NoReaderWhenZero ==
  ASSUME IInv, readerCount = 0
  PROVE  At({"reading"}) = {}
<1>1. IsFiniteSet(Counted)
  <2>1. Counted \in SUBSET Threads
    BY DEF Counted, At
  <2> QED BY <2>1, ThreadsAssumption, FS_Subset
<1>2. Counted = {}
  BY <1>1, FS_EmptySet DEF IInv, CountExact
<1> QED BY <1>2 DEF Counted, CountedAt, At

(* A writer that finds the count zero is alone in the table.               *)
THEOREM UnwaitingWriterCorrect == Spec => UnwaitingWriterIsAlone
<1> DEFINE A == \A t \in Threads :
                  pc[t] = "w_check" /\ pc'[t] = "writing" =>
                    At({"reading"}) = {}
<1>1. IInv /\ [Next]_vars => [A]_vars
  <2> SUFFICES ASSUME IInv, [Next]_vars, NEW t \in Threads,
                      pc[t] = "w_check", pc'[t] = "writing"
               PROVE  At({"reading"}) = {}
    OBVIOUS
  <2>1. pc[t] # pc'[t]
    OBVIOUS
  <2>2. PICK u \in Threads : TakeRequest(u) \/ Proceed(u)
    BY <2>1 DEF Next, vars, Shutdown
  <2>3. readerCount = 0
    BY <2>1, <2>2 DEF IInv, TypeOK, TakeRequest, Proceed, Goto, LoopHead,
       ReaderStartLock, ReaderStartSemaphore, ReaderStartIncrement,
       ReaderStartReset, ReaderStartUnlock, ReaderFinishRelease,
       ReaderFinishCompare, ReaderFinishSignal, ReaderFinishDecrement,
       WriterLock, WriterCheck, WriterWait, WriterRelease, WaitInterrupted,
       ClientShutdownInterrupted, WaitAbandoned, Exit
  <2> QED BY <2>3, NoReaderWhenZero
<1> QED BY <1>1, Invariance, PTL DEF Spec, UnwaitingWriterIsAlone

(* Two threads are never both between the lock and the unlock.             *)
LEMMA OneOwner ==
  ASSUME IInv, NEW t \in Threads, NEW u \in Threads,
         pc[t] \in Registering \cup Writer, pc[u] \in Registering \cup Writer
  PROVE  t = u
BY DEF IInv, MutexExact, At

(* Beside a writer the readers can only become fewer.                      *)
THEOREM NoReaderJoinsCorrect == Spec => NoReaderJoinsWriter
<1> DEFINE A == \A t \in Threads :
                  pc[t] \in Writer /\ pc'[t] \in Writer =>
                    Counted' \subseteq Counted
<1>1. IInv /\ [Next]_vars => [A]_vars
  <2> SUFFICES ASSUME IInv, [Next]_vars, NEW t \in Threads,
                      pc[t] \in Writer, pc'[t] \in Writer,
                      NEW u \in Counted'
               PROVE  u \in Counted
    OBVIOUS
  <2> u \in Threads /\ pc'[u] \in CountedAt
    BY DEF Counted, At
  <2>1. SUFFICES ASSUME pc[u] \notin CountedAt PROVE FALSE
    BY DEF Counted, At
  <2>2. pc[u] # pc'[u]
    BY <2>1
  <2>3. PICK v \in Threads : TakeRequest(v) \/ Proceed(v)
    BY <2>2 DEF Next, vars, Shutdown
  <2>4. v = u /\ pc[u] = "r_inc"
    BY <2>1, <2>2, <2>3
       DEF IInv, TypeOK, TakeRequest, Proceed, Goto, LoopHead, CountedAt,
       ReaderStartLock, ReaderStartSemaphore, ReaderStartIncrement,
       ReaderStartReset, ReaderStartUnlock, ReaderFinishRelease,
       ReaderFinishCompare, ReaderFinishSignal, ReaderFinishDecrement,
       WriterLock, WriterCheck, WriterWait, WriterRelease, WaitInterrupted,
       ClientShutdownInterrupted, WaitAbandoned, Exit
  <2>5. t = u
    BY <2>4, OneOwner
  <2> QED BY <2>4, <2>5
<1> QED BY <1>1, Invariance, PTL DEF Spec, NoReaderJoinsWriter

-----------------------------------------------------------------------------
(* The refinement of UsersAccess!SharedSpec.                               *)

LEMMA WriterInsideValue ==
  ASSUME IInv
  PROVE  /\ \A t \in Threads : pc[t] = "writing" => WriterInside = t
         /\ (\A t \in Threads : pc[t] # "writing") => WriterInside = NoThread
BY OneOwner DEF WriterInside, At

LEMMA WriterInsideValueNext ==
  ASSUME IInv'
  PROVE  /\ \A t \in Threads : pc'[t] = "writing" => WriterInside' = t
         /\ (\A t \in Threads : pc'[t] # "writing") => WriterInside' = NoThread
<1>1. \A t, u \in Threads :
        pc'[t] = "writing" /\ pc'[u] = "writing" => t = u
  BY DEF IInv, MutexExact, At
<1> QED BY <1>1 DEF WriterInside, At

(* A thread that moves outside the table moves neither reader nor writer.  *)
LEMMA MoveOutside ==
  ASSUME IInv, IInv', NEW t \in Threads, NEW l, Goto(t, l),
         pc[t] \notin {"reading", "writing"}, l \notin {"reading", "writing"}
  PROVE  UNCHANGED Access!vars
<1>1. At({"reading"})' = At({"reading"})
  BY MoveCardinality DEF IInv, TypeOK
<1>2. \A u \in Threads : pc'[u] = "writing" <=> pc[u] = "writing"
  BY DEF IInv, TypeOK, Goto
<1>3. WriterInside' = WriterInside
  BY <1>2, WriterInsideValue, WriterInsideValueNext
<1> QED BY <1>1, <1>3 DEF Access!vars

(* A reader that is about to enter holds a unit of the semaphore besides   *)
(* the readers inside, so there are fewer than MaxReaders of them.         *)
LEMMA RoomForReader ==
  ASSUME IInv, NEW t \in Threads, pc[t] = "r_unlock"
  PROVE  Cardinality(At({"reading"})) < MaxReaders
<1>1. IsFiniteSet(Admitted) /\ Cardinality(Admitted) \in Nat
  <2>1. Admitted \in SUBSET Threads
    BY DEF Admitted, At
  <2> QED BY <2>1, ThreadsAssumption, FS_Subset, FS_CardinalityType
<1>2. /\ IsFiniteSet(Admitted \ {t})
      /\ Cardinality(Admitted \ {t}) = Cardinality(Admitted) - 1
  <2>1. t \in Admitted
    BY DEF Admitted, AdmittedAt, At
  <2> QED BY <2>1, <1>1, FS_RemoveElement
<1>3. At({"reading"}) \in SUBSET (Admitted \ {t})
  BY DEF Admitted, AdmittedAt, At
<1>4. /\ Cardinality(At({"reading"})) \in Nat
      /\ Cardinality(At({"reading"})) <= Cardinality(Admitted \ {t})
  BY <1>2, <1>3, FS_Subset, FS_CardinalityType
<1>5. Cardinality(Admitted) <= MaxReaders
  BY <1>1, MaxReadersAssumption DEF IInv, TypeOK, SemaphoreExact
<1> QED BY <1>1, <1>2, <1>4, <1>5, MaxReadersAssumption

(* Every step of the lock is a step of the promise, or none.               *)
LEMMA StepRefines ==
  IInv /\ IInv' /\ [Next]_vars => [Access!SharedNext]_(Access!vars)
<1> SUFFICES ASSUME IInv, IInv', [Next]_vars
             PROVE  [Access!SharedNext]_(Access!vars)
  OBVIOUS
<1> USE DEF IInv, TypeOK
<1>1. ASSUME NEW t \in Threads, ReaderStartUnlock(t)
      PROVE  Access!StartRead(t)
  <2>1. \A u \in Threads : pc[u] # "writing" /\ pc'[u] # "writing"
    BY <1>1, OneOwner DEF ReaderStartUnlock, Goto
  <2>2. WriterInside = NoThread /\ WriterInside' = NoThread
    BY <2>1, WriterInsideValue, WriterInsideValueNext
  <2>3. t \notin At({"reading"}) /\ At({"reading"})' = At({"reading"}) \cup {t}
    BY <1>1 DEF ReaderStartUnlock, Goto, At
  <2>4. Cardinality(At({"reading"})) < MaxReaders
    BY <1>1, RoomForReader DEF ReaderStartUnlock
  <2>5. Access!Cardinality(At({"reading"})) = Cardinality(At({"reading"}))
    BY DEF Access!Cardinality, Cardinality
  <2> QED BY <2>2, <2>3, <2>4, <2>5 DEF Access!StartRead
<1>2. ASSUME NEW t \in Threads, ReaderFinishRelease(t)
      PROVE  Access!StopRead(t)
  <2>1. t \in At({"reading"}) /\ At({"reading"})' = At({"reading"}) \ {t}
    BY <1>2 DEF ReaderFinishRelease, Goto, At
  <2>2. \A u \in Threads : pc'[u] = "writing" <=> pc[u] = "writing"
    BY <1>2 DEF ReaderFinishRelease, Goto
  <2>3. WriterInside' = WriterInside
    BY <2>2, WriterInsideValue, WriterInsideValueNext
  <2> QED BY <2>1, <2>3 DEF Access!StopRead
<1>3. ASSUME NEW t \in Threads, Goto(t, "writing"),
             pc[t] \in {"w_check", "w_wait"}
      PROVE  Access!StartWrite(t)
  <2>1. \A u \in Threads : pc[u] # "writing"
    BY <1>3, OneOwner
  <2>2. WriterInside = NoThread /\ WriterInside' = t
    BY <1>3, <2>1, WriterInsideValue, WriterInsideValueNext DEF Goto
  <2>3. t \notin At({"reading"}) /\ At({"reading"})' = At({"reading"})
    BY <1>3 DEF Goto, At
  <2> QED BY <2>2, <2>3 DEF Access!StartWrite
<1>4. ASSUME NEW t \in Threads,
             WriterRelease(t) \/ ClientShutdownInterrupted(t)
      PROVE  Access!StopWrite(t)
  <2>1. \A u \in Threads : pc'[u] # "writing"
    BY <1>4, OneOwner DEF WriterRelease, ClientShutdownInterrupted, Goto,
       LoopHead
  <2>2. WriterInside = t /\ WriterInside' = NoThread
    BY <1>4, <2>1, WriterInsideValue, WriterInsideValueNext
       DEF WriterRelease, ClientShutdownInterrupted
  <2>3. At({"reading"})' = At({"reading"})
    BY <1>4 DEF WriterRelease, ClientShutdownInterrupted, Goto, LoopHead,
       At
  <2> QED BY <2>2, <2>3 DEF Access!StopWrite
<1>5. ASSUME NEW t \in Threads,
             \/ TakeRequest(t)
             \/ ReaderStartLock(t) \/ ReaderStartSemaphore(t)
             \/ ReaderStartIncrement(t) \/ ReaderStartReset(t)
      PROVE  UNCHANGED Access!vars
  BY <1>5, MoveOutside DEF TakeRequest, ReaderStartLock,
     ReaderStartSemaphore, ReaderStartIncrement, ReaderStartReset
<1>6. ASSUME NEW t \in Threads,
             \/ ReaderFinishCompare(t) \/ ReaderFinishSignal(t)
             \/ ReaderFinishDecrement(t) \/ WriterLock(t)
      PROVE  UNCHANGED Access!vars
  BY <1>6, MoveOutside DEF ReaderFinishCompare, ReaderFinishSignal,
     ReaderFinishDecrement, WriterLock, LoopHead
<1>7. ASSUME NEW t \in Threads,
             WaitInterrupted(t) \/ WaitAbandoned(t) \/ Exit(t)
      PROVE  UNCHANGED Access!vars
  BY <1>7, MoveOutside DEF WaitInterrupted, WaitAbandoned, Exit
<1>8. ASSUME NEW t \in Threads, WriterCheck(t)
      PROVE  Access!StartWrite(t) \/ UNCHANGED Access!vars
  BY <1>8, <1>3, MoveOutside DEF WriterCheck
<1>9. ASSUME NEW t \in Threads, WriterWait(t)
      PROVE  Access!StartWrite(t)
  BY <1>9, <1>3 DEF WriterWait
<1>10. ASSUME Shutdown \/ UNCHANGED vars
       PROVE  UNCHANGED Access!vars
  <2>1. pc' = pc
    BY <1>10 DEF Shutdown, vars
  <2>2. At({"reading"})' = At({"reading"})
    BY <2>1 DEF At
  <2>3. WriterInside' = WriterInside
    BY <2>1, WriterInsideValue, WriterInsideValueNext
  <2> QED BY <2>2, <2>3 DEF Access!vars
<1> QED BY <1>1, <1>2, <1>4, <1>5, <1>6, <1>7, <1>8, <1>9, <1>10
        DEF Next, Proceed, Access!SharedNext

(* The lock implements the promise it can keep.                            *)
THEOREM LockRefinesAccess == Spec => SharedAccess
<1>1. Init => Access!Init
  BY DEF Init, Access!Init, At, WriterInside
<1> QED BY <1>1, Invariance, StepRefines, PTL
        DEF Spec, SharedAccess, Access!SharedSpec
=============================================================================
