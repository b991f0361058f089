-------------------------- MODULE ServerLifeProofs --------------------------
(***************************************************************************)
(* ServerLife for every number of workers and connections: its type        *)
(* invariant, that the tables outlive the workers, and that the mutex of   *)
(* the users table is kept for good only by a worker of a server that      *)
(* stops.                                                                  *)
(*                                                                         *)
(* TablesOutliveWorkers and the bound of the keys need to know how far the *)
(* main thread is when they are in question (ClosedLate, KeysArePosted).   *)
(***************************************************************************)
EXTENDS ServerLife, FiniteSetTheorems, TLAPS

Freeing == {"destroyUsers", "freeTables"}

AllEnded == \A w \in Workers : worker[w] = "ended"

(* No key is in the port before ThreadShutDown posts them.                 *)
KeysArePosted ==
  /\ keys <= posted \/ listener \in {"setUpWait", "over"}
  /\ posted = 0 \/ listener \in {"post", "wait", "over"} \cup Freeing

(* The port is closed by ThreadShutDown, and the tables freed after it.    *)
ClosedLate ==
  /\ port = "closed" => listener \in Freeing \cup {"over"} /\ AllEnded
  /\ tables = "freed" \/ listener \in Freeing => port = "closed"

(* A worker that has a user in its hands has a client's.                   *)
ServesAClient ==
  \A w \in Workers : worker[w] \in Holding => serves[w] \in Clients

(* The inductive invariant.                                                *)
IInv ==
  /\ TypeOK /\ KeysArePosted /\ ClosedLate /\ ServesAClient
  /\ LockIsLostOnlyAtStop

-----------------------------------------------------------------------------
(* The number of workers is a number, and there are no more keys than that *)
(* after ThreadSetUpFails has posted one for each thread there is.         *)
LEMMA WorkersCounted ==
  /\ Cardinality(Workers) \in Nat
  /\ Cardinality({w \in Workers : worker[w] # "none"})
       \in 0 .. Cardinality(Workers)
<1>1. IsFiniteSet(Workers) /\ Cardinality(Workers) \in Nat
  BY LifeAssumption, FS_CardinalityType
<1> DEFINE S == {w \in Workers : worker[w] # "none"}
<1>2. S \in SUBSET Workers
  OBVIOUS
<1> HIDE DEF S
<1>3. IsFiniteSet(S) /\ Cardinality(S) <= Cardinality(Workers)
  BY <1>1, <1>2, FS_Subset
<1>4. Cardinality(S) \in Nat
  BY <1>3, FS_CardinalityType
<1> QED BY <1>1, <1>3, <1>4 DEF S

(* The initial state satisfies the invariant.                              *)
LEMMA InitIInv == Init => IInv
<1> SUFFICES ASSUME Init PROVE IInv
  OBVIOUS
<1> USE LifeAssumption DEF Init
<1>1. shutdownEvent \in BOOLEAN /\ acceptEvent \in BOOLEAN
  OBVIOUS
<1>2. /\ worker \in [Workers -> WorkerPlaces] /\ listener \in ListenerPlaces
      /\ serves \in [Workers -> Clients \cup {None}]
      /\ conn \in [Clients -> {"away"}]
  BY DEF WorkerPlaces, ListenerPlaces, Holding
<1>3. KeysArePosted /\ keys \in 0 .. Cardinality(Workers)
      /\ posted \in 0 .. Cardinality(Workers)
  BY WorkersCounted DEF KeysArePosted
<1>4. TypeOK
  BY <1>1, <1>2, <1>3 DEF TypeOK
<1>5. ClosedLate /\ ServesAClient /\ LockIsLostOnlyAtStop
  BY DEF ClosedLate, ServesAClient, LockIsLostOnlyAtStop, Holding, Freeing
<1> QED BY <1>3, <1>4, <1>5 DEF IInv

-----------------------------------------------------------------------------
(* No step of the main thread breaks the invariant.                        *)
LEMMA ListenerIInv ==
  ASSUME IInv, Running, ListenerSteps \/ ListenerFaults
  PROVE  IInv'
<1> USE LifeAssumption
    DEF IInv, TypeOK, KeysArePosted, ClosedLate, ServesAClient,
        LockIsLostOnlyAtStop, WorkerPlaces, ListenerPlaces, Holding, Freeing,
        AllEnded, Running, stopVars, acceptVars, poolVars, portVars, lockVars,
        clientVars, mainVars, ListenerGoes, WorkerGoes, WorkerLets,
        WorkerRearms, LockIsFree
<1>0. Cardinality(Workers) \in Nat
  BY WorkersCounted
<1>1. CASE IOCPSetUp
  BY <1>0, <1>1 DEF IOCPSetUp
<1>2. CASE ThreadSetUp
  BY <1>0, <1>2 DEF ThreadSetUp
<1>3. CASE ThreadsAreSetUp
  BY <1>0, <1>3 DEF ThreadsAreSetUp
<1>4. CASE ThreadSetUpReturns
  BY <1>0, <1>4 DEF ThreadSetUpReturns, Returns
<1>5. CASE CreateUsers
  BY <1>0, <1>5 DEF CreateUsers
<1>6. CASE ListenLoop
  BY <1>0, <1>6 DEF ListenLoop
<1>7. CASE NetAccept
  BY <1>0, <1>7 DEF NetAccept
<1>8. CASE NetAccepts
  <2>1. PICK c \in Clients :
          accepted' = c /\ conn' = [conn EXCEPT ![c] = "accepted"]
    BY <1>8 DEF NetAccepts
  <2>2. conn' \in [Clients -> {"away", "backlog", "reset", "lost", "accepted",
                              "armed", "ready", "served", "idle"}]
    BY <2>1
  <2>3. /\ acceptEvent' \in BOOLEAN /\ listener' = "createUser"
        /\ UNCHANGED <<process, stopVars, seenState, poolVars, portVars,
                       tables, lockVars, negotiated>>
    BY <1>8 DEF NetAccepts
  <2>4. TypeOK'
    BY <2>1, <2>2, <2>3, <1>0
  <2>5. KeysArePosted' /\ ClosedLate'
    BY <2>3, <1>8 DEF NetAccepts, AcceptSignalled
  <2>6. ServesAClient' /\ LockIsLostOnlyAtStop'
    BY <2>3
  <2> QED BY <2>4, <2>5, <2>6
<1>9. CASE NetAcceptRetries
  BY <1>0, <1>9 DEF NetAcceptRetries, AcceptSignalled
<1>10. CASE NetAcceptStops
  BY <1>0, <1>10 DEF NetAcceptStops
<1>11. CASE CreateUser
  BY <1>0, <1>11 DEF CreateUser
<1>12. CASE NewMutexWait
  BY <1>0, <1>12 DEF NewMutexWait
<1>13. CASE NewMutexInterrupted
  BY <1>0, <1>13 DEF NewMutexInterrupted
<1>14. CASE HashTableNewEntry
  BY <1>0, <1>14 DEF HashTableNewEntry
<1>15. CASE FirstReceive
  <2>1. conn' \in [Clients -> {"away", "backlog", "reset", "lost", "accepted",
                              "armed", "ready", "served", "idle"}]
    BY <1>15 DEF FirstReceive
  <2> QED BY <2>1, <1>0, <1>15 DEF FirstReceive
<1>16. CASE ServerShutDown
  BY <1>0, <1>16 DEF ServerShutDown
<1>17. CASE ThreadShutDownPosts
  BY <1>0, <1>17 DEF ThreadShutDownPosts
<1>18. CASE ThreadShutDown
  BY <1>0, <1>18 DEF ThreadShutDown
<1>19. CASE DestroyUsers
  BY <1>0, <1>19 DEF DestroyUsers
<1>20. CASE FreeTables
  BY <1>0, <1>20 DEF FreeTables, Returns
<1>21. CASE StartFails
  BY <1>0, <1>21 DEF StartFails, Returns
<1>22. CASE ThreadSetUpFails
  <2>1. keys = 0 /\ posted = 0
    BY <1>0, <1>22 DEF ThreadSetUpFails
  <2>2. keys' \in 0 .. Cardinality(Workers)
    BY <2>1, WorkersCounted, <1>22 DEF ThreadSetUpFails
  <2> QED BY <2>2, <1>0, <1>22 DEF ThreadSetUpFails
<1>23. CASE CreateUsersFails
  BY <1>0, <1>23 DEF CreateUsersFails
<1>24. CASE NetAcceptFails
  BY <1>0, <1>24 DEF NetAcceptFails
<1>25. CASE ListenFails
  BY <1>0, <1>25 DEF ListenFails
<1>26. CASE HashTableNewEntryFails
  BY <1>0, <1>26 DEF HashTableNewEntryFails
<1> QED
  BY <1>1, <1>2, <1>3, <1>4, <1>5, <1>6, <1>7, <1>8, <1>9, <1>10, <1>11,
     <1>12, <1>13, <1>14, <1>15, <1>16, <1>17, <1>18, <1>19, <1>20, <1>21,
     <1>22, <1>23, <1>24, <1>25, <1>26
  DEF ListenerSteps, ListenerFaults

(* Nor does a step of a worker.                                            *)
LEMMA WorkerIInv ==
  ASSUME IInv, NEW w \in Workers, WorkerSteps(w) \/ WorkerFaults(w)
  PROVE  IInv'
<1> USE LifeAssumption
    DEF IInv, TypeOK, KeysArePosted, ClosedLate, ServesAClient,
        LockIsLostOnlyAtStop, WorkerPlaces, ListenerPlaces, Holding, Freeing,
        AllEnded, Running, stopVars, acceptVars, poolVars, portVars, lockVars,
        clientVars, mainVars, ListenerGoes, WorkerGoes, WorkerLets,
        WorkerRearms, LockIsFree
<1>0. Cardinality(Workers) \in Nat
  BY WorkersCounted
<1>1. CASE WorkerLoop(w)
  BY <1>0, <1>1 DEF WorkerLoop
<1>2. CASE TakeShutdown(w)
  BY <1>0, <1>2 DEF TakeShutdown
<1>3. ASSUME NEW c \in Clients, TakeReceive(w, c) PROVE IInv'
  BY <1>0, <1>3 DEF TakeReceive
<1>4. CASE Serve(w)
  BY <1>0, <1>4 DEF Serve
<1>5. CASE CheckforUser(w)
  BY <1>0, <1>5 DEF CheckforUser
<1>6. CASE SetNegotiated(w)
  BY <1>0, <1>6 DEF SetNegotiated
<1>7. CASE HandleClientShutdown(w)
  BY <1>0, <1>7 DEF HandleClientShutdown, ShutsDown
<1>8. CASE NewUsersWait(w)
  BY <1>0, <1>8 DEF NewUsersWait
<1>9. CASE LeaveNewUsers(w)
  BY <1>0, <1>9 DEF LeaveNewUsers
<1>10. CASE RemoveNewUser(w)
  BY <1>0, <1>10 DEF RemoveNewUser
<1>11. CASE LoginInterrupted(w)
  BY <1>0, <1>11 DEF LoginInterrupted
<1>12. CASE RemoveInterrupted(w)
  BY <1>0, <1>12 DEF RemoveInterrupted
<1>13. CASE ClientShutdown(w)
  BY <1>0, <1>13 DEF ClientShutdown
<1>14. CASE ClientLeaves(w)
  BY <1>0, <1>14 DEF ClientLeaves, ClientLeavesTable
<1>15. CASE ClientShutdownInterrupted(w)
  BY <1>0, <1>15 DEF ClientShutdownInterrupted
<1>16. CASE HandleLogout(w)
  BY <1>0, <1>16 DEF HandleLogout
<1>17. CASE LogoutLeaves(w)
  BY <1>0, <1>17 DEF LogoutLeaves
<1>18. CASE LogoutInterrupted(w)
  BY <1>0, <1>18 DEF LogoutInterrupted
<1>19. CASE LogoutBroadcast(w)
  BY <1>0, <1>19 DEF LogoutBroadcast
<1>20. CASE LogoutBroadcastInterrupted(w)
  BY <1>0, <1>20 DEF LogoutBroadcastInterrupted, BroadcastStops
<1>21. CASE ServeInterrupted(w)
  BY <1>0, <1>21 DEF ServeInterrupted
<1>22. CASE WorkerStops(w)
  BY <1>0, <1>22 DEF WorkerStops
<1>23. CASE WorkerSignals(w)
  BY <1>0, <1>23 DEF WorkerSignals
<1>24. CASE ServeFails(w)
  BY <1>0, <1>24 DEF ServeFails
<1>25. CASE RearmStops(w)
  BY <1>0, <1>25 DEF RearmStops, ShutsDown
<1>26. CASE LogoutBroadcastFails(w)
  BY <1>0, <1>26 DEF LogoutBroadcastFails, BroadcastStops
<1> QED
  BY <1>1, <1>2, <1>3, <1>4, <1>5, <1>6, <1>7, <1>8, <1>9, <1>10, <1>11,
     <1>12, <1>13, <1>14, <1>15, <1>16, <1>17, <1>18, <1>19, <1>20, <1>21,
     <1>22, <1>23, <1>24, <1>25, <1>26
  DEF WorkerSteps, WorkerFaults

(* Nor does the console, a client, or the end of a send.                   *)
LEMMA OutsideIInv ==
  ASSUME IInv, Console \/ Network
  PROVE  IInv'
<1> USE LifeAssumption
    DEF IInv, TypeOK, KeysArePosted, ClosedLate, ServesAClient,
        LockIsLostOnlyAtStop, WorkerPlaces, ListenerPlaces, Holding, Freeing,
        AllEnded, Running, stopVars, acceptVars, poolVars, portVars, lockVars,
        clientVars, mainVars, ListenerGoes, WorkerGoes, WorkerLets,
        WorkerRearms, LockIsFree
<1>0. Cardinality(Workers) \in Nat
  BY WorkersCounted
<1>1. CASE GracefulShutdown
  <2>1. TypeOK'
    <3>1. CASE /\ serverState' = "STOP"
               /\ ctrl' = "stopFirst"
               /\ UNCHANGED shutdownEvent
      BY <3>1, <1>1 DEF GracefulShutdown
    <3>2. CASE /\ shutdownEvent' = TRUE
               /\ ctrl' = "eventFirst"
               /\ UNCHANGED serverState
      BY <3>2, <1>1 DEF GracefulShutdown
    <3> QED BY <3>1, <3>2, <1>1 DEF GracefulShutdown
  <2> QED BY <2>1, <1>1 DEF GracefulShutdown
<1>2. CASE GracefulShutdownEnds
  <2>1. TypeOK'
    <3>1. CASE /\ shutdownEvent' = TRUE
               /\ ctrl' = "event"
               /\ UNCHANGED serverState
      BY <3>1, <1>2 DEF GracefulShutdownEnds
    <3>2. CASE /\ serverState' = "STOP"
               /\ ctrl' = "closed"
               /\ UNCHANGED shutdownEvent
      BY <3>2, <1>2 DEF GracefulShutdownEnds
    <3> QED BY <3>1, <3>2, <1>2 DEF GracefulShutdownEnds
  <2> QED BY <2>1, <1>2 DEF GracefulShutdownEnds
<1>3. CASE ConsoleKills
  BY <1>0, <1>3 DEF ConsoleKills
<1>4. ASSUME NEW c \in Clients, Connects(c) PROVE IInv'
  BY <1>0, <1>4 DEF Connects
<1>5. ASSUME NEW c \in Clients, GivesUp(c) PROVE IInv'
  BY <1>0, <1>5 DEF GivesUp
<1>6. ASSUME NEW c \in Clients, Arrives(c) PROVE IInv'
  BY <1>0, <1>6 DEF Arrives
<1>7. ASSUME NEW w \in Workers, NEW v \in Workers, TakeSend(w, v) PROVE IInv'
  BY <1>0, <1>7 DEF TakeSend
<1> QED
  BY <1>1, <1>2, <1>3, <1>4, <1>5, <1>6, <1>7
  DEF Console, Network

(* Together: an inductive invariant.                                       *)
LEMMA NextIInv == IInv /\ [Next]_vars => IInv'
<1> SUFFICES ASSUME IInv, [Next]_vars PROVE IInv'
  OBVIOUS
<1>1. CASE Next
  <2>1. CASE ListenerSteps \/ ListenerFaults
    BY <1>1, <2>1, ListenerIInv DEF Next
  <2>2. CASE \E w \in Workers : WorkerSteps(w) \/ WorkerFaults(w)
    BY <2>2, WorkerIInv
  <2>3. CASE Console \/ Network
    BY <2>3, OutsideIInv
  <2> QED BY <1>1, <2>1, <2>2, <2>3 DEF Next
<1>2. CASE UNCHANGED vars
  BY <1>2 DEF vars, stopVars, acceptVars, poolVars, portVars, lockVars,
              clientVars, IInv, TypeOK, KeysArePosted, ClosedLate,
              ServesAClient, LockIsLostOnlyAtStop, AllEnded
<1> QED BY <1>1, <1>2

(* Every reachable state satisfies the invariant.                          *)
THEOREM Invariant == Spec => []IInv
<1>1. Init => IInv
  BY InitIInv
<1>2. IInv /\ [Next]_vars => IInv'
  BY NextIInv
<1> QED BY <1>1, <1>2, PTL DEF Spec

-----------------------------------------------------------------------------
(* Every variable of the listener and of the pool keeps its type, and the  *)
(* port never has more keys than there are workers.                        *)
THEOREM TypeCorrect == Spec => []TypeOK
<1>1. IInv => TypeOK
  BY DEF IInv
<1> QED BY Invariant, <1>1, PTL

(* ServerShutDown closes the port and frees the tables when no worker is   *)
(* left, whichever way the workers left their loops.                       *)
THEOREM TablesAreFreedLast == Spec => []TablesOutliveWorkers
<1>1. IInv => TablesOutliveWorkers
  BY DEF IInv, ClosedLate, AllEnded, TablesOutliveWorkers
<1> QED BY Invariant, <1>1, PTL

(* USERS_WRITE_MUTEX stays with a worker that is done with the users table *)
(* only when g_hShutdownEvent is signalled and g_bServerState is STOP.     *)
THEOREM MutexIsLostAtStop == Spec => []LockIsLostOnlyAtStop
<1>1. IInv => LockIsLostOnlyAtStop
  BY DEF IInv
<1> QED BY Invariant, <1>1, PTL

=============================================================================
