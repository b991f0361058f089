----------------------------- MODULE UsersLock -----------------------------
(***************************************************************************)
(* The reader/writer lock of the users hash table (s_worker.c).  It is     *)
(* built from four Win32 objects of the USERS structure and one global:    *)
(*                                                                         *)
(*   USERS_WRITE_MUTEX     taken by a writer for its whole visit and by a  *)
(*                         reader while it registers itself                *)
(*   USERS_READ_SEMAPHORE  one unit per reader, MaxReaders units           *)
(*   m_plReaderCount       changed with interlocked instructions           *)
(*   READERS_DONE_EVENT    auto-reset: a wait that succeeds clears it      *)
(*   g_hShutdownEvent      every wait also watches it, with less priority  *)
(*                                                                         *)
(* A worker thread is a process.  Each step is one call to the kernel or   *)
(* one interlocked instruction, so that every interleaving of the calls    *)
(* of several threads is a behaviour.  The calls that fail only for an     *)
(* invalid handle (SetEvent, ResetEvent, ReleaseMutex) do not fail here.   *)
(*                                                                         *)
(* A mutex of Windows counts the waits of its owner, who must release it   *)
(* as often; one whose owner ends is abandoned: the next wait takes it and *)
(* reports WAIT_ABANDONED_0, which the code treats as a failure.           *)
(***************************************************************************)
EXTENDS Integers, FiniteSets

CONSTANTS
  Threads,     (* the worker threads, all served by one completion port  *)
  MaxReaders,  (* m_dwMaxClients, the initial and maximal semaphore count *)
  NoThread     (* the owner of a free mutex                              *)

ASSUME ThreadsAssumption == IsFiniteSet(Threads) /\ NoThread \notin Threads
ASSUME MaxReadersAssumption == MaxReaders \in Nat \ {0}

VARIABLES
  pc,           (* where each thread is                                  *)
  mutex,        (* the owner of USERS_WRITE_MUTEX, or NoThread           *)
  leaked,       (* the owner took it once more than it will release it   *)
  semaphore,    (* the count of USERS_READ_SEMAPHORE                     *)
  readerCount,  (* m_plReaderCount                                       *)
  readersDone,  (* READERS_DONE_EVENT is signalled                       *)
  shutdown      (* g_hShutdownEvent is signalled                         *)

vars == <<pc, mutex, leaked, semaphore, readerCount, readersDone, shutdown>>

-----------------------------------------------------------------------------
(* Where a thread can be, grouped by what it holds there.                  *)

(* "idle" waits for a completion; "exited" has left WorkerThread.          *)
Outside == {"idle", "exited", "r_lock", "w_lock", "f_signal"}

(* UsersTableReaderStart, with the mutex held.                             *)
Registering == {"r_sem", "r_inc", "r_reset", "r_unlock"}

(* UsersTableWriter and the writer's visit, with the mutex held.           *)
Writer == {"w_check", "w_wait", "writing"}

(* UsersTableReaderFinish, after the semaphore is released.                *)
Finishing == {"f_compare", "f_decrement"}

Locations == Outside \cup Registering \cup Writer \cup Finishing \cup {"reading"}

At(S) == {t \in Threads : pc[t] \in S}

(* The threads m_plReaderCount should count, and where they are.           *)
CountedAt == {"r_reset", "r_unlock", "reading"} \cup Finishing
Counted == At(CountedAt)

(* The threads that hold a unit of the semaphore, and where they are.      *)
AdmittedAt == {"r_inc", "r_reset", "r_unlock", "reading"}
Admitted == At(AdmittedAt)

Goto(t, l) == pc' = [pc EXCEPT ![t] = l]

(* The end of a handler: the loop of WorkerThread goes on unless the       *)
(* server is stopping.                                                     *)
LoopHead == IF shutdown THEN "exited" ELSE "idle"

(* A wait for the mutex succeeds when it is free, and for its owner.       *)
CanLock(t) == mutex \in {NoThread, t}

(* ReleaseMutex takes back one wait of the owner: the mutex is free unless *)
(* another wait was never taken back.                                      *)
Release == mutex' = IF leaked THEN mutex ELSE NoThread

-----------------------------------------------------------------------------
Init ==
  /\ pc = [t \in Threads |-> "idle"]
  /\ mutex = NoThread
  /\ leaked = FALSE
  /\ semaphore = MaxReaders
  /\ readerCount = 0
  /\ readersDone = FALSE
  /\ shutdown = FALSE

(* A completion hands the thread a request that reads the table (message,  *)
(* list, broadcast, the broadcast of a lost client) or writes it           *)
(* (registration, logout, lost client).                                    *)
TakeRequest(t) ==
  /\ pc[t] = "idle"
  /\ \E l \in {"r_lock", "w_lock"} : Goto(t, l)
  /\ UNCHANGED <<mutex, leaked, semaphore, readerCount, readersDone, shutdown>>

-----------------------------------------------------------------------------
(* UsersTableReaderStart                                                   *)

ReaderStartLock(t) ==
  /\ pc[t] = "r_lock"
  /\ CanLock(t)
  /\ mutex' = t
  /\ Goto(t, "r_sem")
  /\ UNCHANGED <<leaked, semaphore, readerCount, readersDone, shutdown>>

ReaderStartWithoutSemaphore(t) ==   \* seeded fault: the wait times out at once
  /\ pc[t] = "r_sem"
  /\ semaphore' = IF semaphore > 0 THEN semaphore - 1 ELSE 0
  /\ Goto(t, "r_inc")
  /\ UNCHANGED <<mutex, leaked, readerCount, readersDone, shutdown>>

ReaderStartSemaphoreUnlocked(t) ==   \* seeded fault: unlocks before it counts
  /\ pc[t] = "r_sem"
  /\ semaphore > 0
  /\ semaphore' = semaphore - 1
  /\ Release
  /\ Goto(t, "r_inc")
  /\ UNCHANGED <<leaked, readerCount, readersDone, shutdown>>

ReaderStartSemaphore(t) ==
  /\ pc[t] = "r_sem"
  /\ semaphore > 0
  /\ semaphore' = semaphore - 1
  /\ Goto(t, "r_inc")
  /\ UNCHANGED <<mutex, leaked, readerCount, readersDone, shutdown>>

ReaderStartIncrement(t) ==
  /\ pc[t] = "r_inc"
  /\ readerCount' = readerCount + 1
  /\ Goto(t, "r_reset")
  /\ UNCHANGED <<mutex, leaked, semaphore, readersDone, shutdown>>

ReaderStartReset(t) ==
  /\ pc[t] = "r_reset"
  /\ readersDone' = FALSE
  /\ Goto(t, "r_unlock")
  /\ UNCHANGED <<mutex, leaked, semaphore, readerCount, shutdown>>

ReaderStartUnlock(t) ==
  /\ pc[t] = "r_unlock"
  /\ Release
  /\ Goto(t, "reading")
  /\ UNCHANGED <<leaked, semaphore, readerCount, readersDone, shutdown>>

-----------------------------------------------------------------------------
(* UsersTableReaderFinish                                                  *)

ReaderFinishRelease(t) ==
  /\ pc[t] = "reading"
  /\ semaphore' = semaphore + 1
  /\ Goto(t, "f_compare")
  /\ UNCHANGED <<mutex, leaked, readerCount, readersDone, shutdown>>

ReaderFinishStoreZero(t) ==   \* seeded fault: an exchange for the compare-exchange
  /\ pc[t] = "f_compare"
  /\ readerCount' = 0
  /\ Goto(t, IF readerCount <= 1 THEN "f_signal" ELSE "f_decrement")
  /\ UNCHANGED <<mutex, leaked, semaphore, readersDone, shutdown>>

(* The compare-exchange and the test of the value it found.                *)
ReaderFinishCompare(t) ==
  /\ pc[t] = "f_compare"
  /\ readerCount' = IF readerCount = 1 THEN 0 ELSE readerCount
  /\ Goto(t, IF readerCount <= 1 THEN "f_signal" ELSE "f_decrement")
  /\ UNCHANGED <<mutex, leaked, semaphore, readersDone, shutdown>>

ReaderFinishSignal(t) ==
  /\ pc[t] = "f_signal"
  /\ readersDone' = TRUE
  /\ Goto(t, LoopHead)
  /\ UNCHANGED <<mutex, leaked, semaphore, readerCount, shutdown>>

ReaderFinishDecrement(t) ==
  /\ pc[t] = "f_decrement"
  /\ readerCount' = readerCount - 1
  /\ Goto(t, LoopHead)
  /\ UNCHANGED <<mutex, leaked, semaphore, readersDone, shutdown>>

-----------------------------------------------------------------------------
(* UsersTableWriter, and the release that ends the visit in its callers    *)

WriterLock(t) ==
  /\ pc[t] = "w_lock"
  /\ CanLock(t)
  /\ mutex' = t
  /\ Goto(t, "w_check")
  /\ UNCHANGED <<leaked, semaphore, readerCount, readersDone, shutdown>>

WriterCheckLastReader(t) ==   \* seeded fault: 1 taken for "no more readers"
  /\ pc[t] = "w_check"
  /\ Goto(t, IF readerCount > 1 THEN "w_wait" ELSE "writing")
  /\ UNCHANGED <<mutex, leaked, semaphore, readerCount, readersDone, shutdown>>

WriterCheck(t) ==
  /\ pc[t] = "w_check"
  /\ Goto(t, IF readerCount # 0 THEN "w_wait" ELSE "writing")
  /\ UNCHANGED <<mutex, leaked, semaphore, readerCount, readersDone, shutdown>>

WriterWait(t) ==
  /\ pc[t] = "w_wait"
  /\ readersDone
  /\ readersDone' = FALSE
  /\ Goto(t, "writing")
  /\ UNCHANGED <<mutex, leaked, semaphore, readerCount, shutdown>>

(* A registration ends here.  A logout and the removal of a lost client    *)
(* go on to broadcast, as readers, that the user left.                     *)
WriterRelease(t) ==
  /\ pc[t] = "writing"
  /\ Release
  /\ \E l \in {LoopHead, "r_lock"} : Goto(t, l)
  /\ UNCHANGED <<leaked, semaphore, readerCount, readersDone, shutdown>>

-----------------------------------------------------------------------------
(* Shutdown                                                                *)

(* A console event, or a worker that met a fatal error.                    *)
Shutdown ==
  /\ ~shutdown
  /\ shutdown' = TRUE
  /\ UNCHANGED <<pc, mutex, leaked, semaphore, readerCount, readersDone>>

WaitInterruptedKeepsMutex(t) ==   \* seeded fault: the early return forgets the mutex
  /\ shutdown
  /\ \/ pc[t] \in {"r_lock", "w_lock"} /\ ~CanLock(t)
     \/ pc[t] = "r_sem" /\ semaphore = 0
     \/ pc[t] = "w_wait" /\ ~readersDone
  /\ Goto(t, "exited")
  /\ UNCHANGED <<mutex, leaked, semaphore, readerCount, readersDone, shutdown>>

WaitInterruptedReturnsUnit(t) ==   \* seeded fault: gives back a unit it never got
  /\ shutdown
  /\ pc[t] = "r_sem" /\ semaphore = 0
  /\ semaphore' = semaphore + 1
  /\ Release
  /\ Goto(t, "exited")
  /\ UNCHANGED <<leaked, readerCount, readersDone, shutdown>>

WaitIgnoresShutdown(t) ==   \* seeded fault: a plain WaitForSingleObject
  /\ shutdown
  /\ pc[t] \in {"r_lock", "w_lock"} /\ ~CanLock(t)
  /\ Goto(t, "exited")
  /\ UNCHANGED <<mutex, leaked, semaphore, readerCount, readersDone, shutdown>>

(* A wait whose object is not signalled returns for g_hShutdownEvent; the  *)
(* wait on the semaphore and on the event give the mutex back.  The error  *)
(* ends the thread, except that a lost client's departure is broadcast     *)
(* even when the write lock could not be had.                              *)
WaitInterrupted(t) ==
  /\ shutdown
  /\ \/ /\ pc[t] \in {"r_lock", "w_lock"}
        /\ ~CanLock(t)
        /\ UNCHANGED mutex
     \/ /\ pc[t] = "r_sem" /\ semaphore = 0
        /\ Release
     \/ /\ pc[t] = "w_wait" /\ ~readersDone
        /\ Release
  /\ \/ Goto(t, "exited")
     \/ pc[t] \in {"w_lock", "w_wait"} /\ Goto(t, "r_lock")
  /\ UNCHANGED <<leaked, semaphore, readerCount, readersDone, shutdown>>

(* A writer that removes a lost client waits, with the mutex held, for the *)
(* client's send to be done.  When a shutdown ends that wait ClientShutdown *)
(* returns without a release; its caller broadcasts the departure, waiting *)
(* for the mutex a second time.                                            *)
ClientShutdownInterrupted(t) ==
  /\ pc[t] = "writing"
  /\ shutdown
  /\ leaked' = TRUE
  /\ Goto(t, "r_lock")
  /\ UNCHANGED <<mutex, semaphore, readerCount, readersDone, shutdown>>

(* The owner of the mutex has ended: the wait for it fails, but the thread *)
(* is the new owner, and does not know it.                                 *)
WaitAbandoned(t) ==
  /\ pc[t] \in {"r_lock", "w_lock"}
  /\ ~CanLock(t) /\ pc[mutex] = "exited"
  /\ mutex' = t
  /\ leaked' = TRUE
  /\ \/ Goto(t, "exited")
     \/ pc[t] = "w_lock" /\ Goto(t, "r_lock")
  /\ UNCHANGED <<semaphore, readerCount, readersDone, shutdown>>

(* The main thread posts one IOCP_SHUTDOWN packet per worker.              *)
Exit(t) ==
  /\ pc[t] = "idle"
  /\ shutdown
  /\ Goto(t, "exited")
  /\ UNCHANGED <<mutex, leaked, semaphore, readerCount, readersDone, shutdown>>

-----------------------------------------------------------------------------
(* The steps a thread takes by itself, a new request and Shutdown apart.   *)
Proceed(t) ==
  \/ ReaderStartLock(t) \/ ReaderStartSemaphore(t) \/ ReaderStartIncrement(t)
  \/ ReaderStartReset(t) \/ ReaderStartUnlock(t)
  \/ ReaderFinishRelease(t) \/ ReaderFinishCompare(t)
  \/ ReaderFinishSignal(t) \/ ReaderFinishDecrement(t)
  \/ WriterLock(t) \/ WriterCheck(t) \/ WriterWait(t) \/ WriterRelease(t)
  \/ WaitInterrupted(t) \/ ClientShutdownInterrupted(t) \/ WaitAbandoned(t)
  \/ Exit(t)

Next ==
  \/ \E t \in Threads : TakeRequest(t) \/ Proceed(t)
  \/ Shutdown

Spec == Init /\ [][Next]_vars

(* The operating system runs every thread that can run, and a handler's    *)
(* visit to the table ends.  No request need ever come.                    *)
FairSpec == Spec /\ \A t \in Threads : WF_vars(Proceed(t))

-----------------------------------------------------------------------------
(* Properties                                                              *)

(* Every variable stays in its range; the semaphore is never released past *)
(* the maximum it was created with (s_listen.c:246), which would fail      *)
(* unnoticed in UsersTableReaderFinish.                                    *)
TypeOK ==
  /\ pc \in [Threads -> Locations]
  /\ mutex \in Threads \cup {NoThread}
  /\ leaked \in BOOLEAN
  /\ semaphore \in 0..MaxReaders
  /\ readerCount \in Nat
  /\ readersDone \in BOOLEAN
  /\ shutdown \in BOOLEAN

(* A thread between the lock and the unlock of UsersTableReaderStart, or   *)
(* in a writer's visit, owns USERS_WRITE_MUTEX.  A thread elsewhere owns   *)
(* it only when ClientShutdown kept it (s_worker.c:1131-1141) or a thread  *)
(* that did so has ended: then the server is stopping, and nobody writes   *)
(* the table any more.  So the early returns of UsersTableReaderStart and  *)
(* UsersTableWriter leak no mutex and no thread goes on without it.        *)
MutexExact ==
  /\ \A t \in At(Registering \cup Writer) : mutex = t
  /\ mutex # NoThread /\ ~leaked => pc[mutex] \in Registering \cup Writer
  /\ leaked => shutdown /\ mutex # NoThread /\ At(Writer) = {}

(* m_plReaderCount is the number of threads that have counted themselves   *)
(* and not yet taken themselves off, although the last step of a reader is *)
(* a compare-exchange for one reader and a decrement for another.          *)
CountExact == readerCount = Cardinality(Counted)

(* The units of USERS_READ_SEMAPHORE and the readers that hold one add up  *)
(* to its maximum, whichever way each UsersTableReaderStart ended: no unit *)
(* is lost or made up by a wait that a shutdown interrupts.                *)
SemaphoreExact == semaphore + Cardinality(Admitted) = MaxReaders

(* A writer that goes on without waiting for READERS_DONE_EVENT does so    *)
(* only when no thread is reading (s_worker.c:71).                         *)
UnwaitingWriterIsAlone ==
  [][\A t \in Threads :
       pc[t] = "w_check" /\ pc'[t] = "writing" => At({"reading"}) = {}]_vars

(* While a thread waits for the readers or writes, no other thread comes   *)
(* in as a reader: the readers that are there can only become fewer.       *)
NoReaderJoinsWriter ==
  [][\A t \in Threads :
       pc[t] \in Writer /\ pc'[t] \in Writer => Counted' \subseteq Counted]_vars

(* The table is used as UsersAccess!SharedSpec allows.                     *)
WriterInside ==
  IF At({"writing"}) = {} THEN NoThread
  ELSE CHOOSE t \in Threads : pc[t] = "writing"

Access == INSTANCE UsersAccess WITH
  readers <- At({"reading"}),
  writer <- WriterInside

(* The lock gives readers and writers what SharedSpec promises: one writer *)
(* at a time, no reader that comes in beside it, and at most m_dwMaxClients *)
(* readers.                                                                *)
SharedAccess == Access!SharedSpec

(* After a shutdown every worker leaves its loop, also the ones that wait  *)
(* for the mutex, the semaphore or a signal that never comes.              *)
ShutdownDrains == shutdown ~> (At({"exited"}) = Threads)

-----------------------------------------------------------------------------
(* What the repository says of the lock and the code does not do           *)

(* "multiple readers [...] only supporting one writer at a time"           *)
(* (README.md:14): nobody reads the table while a thread writes it.        *)
WriterIsAlone == At({"writing"}) # {} => At({"reading"}) = {}

(* "If this reader is the last, decrement and send the signal."            *)
(* (s_worker.c:434): a writer that waits for the readers gets the signal,  *)
(* so it does not wait for ever.                                           *)
LastReaderWakesWriter ==
  \A t \in Threads : (pc[t] = "w_wait") ~> (pc[t] # "w_wait")
=============================================================================
