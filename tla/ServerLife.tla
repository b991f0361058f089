----------------------------- MODULE ServerLife -----------------------------
(***************************************************************************)
(* The server from wmain to its return: the listener (wmain, ThreadSetUp,  *)
(* ServerListen, NetAccept, ServerShutDown), the pool of worker threads it *)
(* starts and ends through the completion port (WorkerThread), and the     *)
(* console's handler (GracefulShutdown).  They share g_bServerState,       *)
(* g_hShutdownEvent, the two tables of users and their locks.              *)
(*                                                                         *)
(* UsersLock has the steps of the lock on the users table, UserIO those of *)
(* a user's sends and receives, and UserTables what the two tables hold    *)
(* and which user a removal frees.  Here a worker is inside one of them,   *)
(* or waits for one, and what matters is which waits a shutdown ends.  One *)
(* worker at a time has a client here: what a second one does with the     *)
(* same user, and any use of a user that was freed, is in UserTables.      *)
(***************************************************************************)
EXTENDS Integers, FiniteSets

CONSTANTS
  Workers,   \* the worker threads
  Clients,   \* connections that may be made, a bound of the model
  None       \* no worker, no client

ASSUME LifeAssumption ==
  /\ IsFiniteSet(Workers) /\ Workers # {}
  /\ None \notin Workers \cup Clients

VARIABLES
  process,       \* running, returned, crashed, or killed by the console
  listener,      \* where the main thread is
  serverState,   \* g_bServerState
  shutdownEvent, \* g_hShutdownEvent is signalled
  ctrl,          \* where the console's handler is
  seenState,     \* bServerState of NetAccept: the value it was given
  acceptEvent,   \* wsaAcceptSocket is signalled
  accepted,      \* the client of the listener's pUser
  worker,        \* where each worker is
  serves,        \* the client whose completion each worker has
  keys,          \* IOCP_SHUTDOWN completions in the port
  posted,        \* how many of them the listener has posted
  port,          \* the completion port: none, open, closed
  tables,        \* pUsers: none, there, null (CreateUsers failed), freed
  newMutex,      \* who owns NEW_USERS_MUTEX
  writeMutex,    \* who owns USERS_WRITE_MUTEX across a wait
  conn,          \* each client's connection and the receive on it
  negotiated     \* clients whose m_wNegotiatedState is NEGOTIATED

stopVars == <<serverState, shutdownEvent, ctrl>>
acceptVars == <<seenState, acceptEvent, accepted>>
poolVars == <<worker, serves>>
portVars == <<keys, posted, port>>
lockVars == <<newMutex, writeMutex>>
clientVars == <<conn, negotiated>>
vars == <<process, listener, stopVars, acceptVars, poolVars, portVars,
          tables, lockVars, clientVars>>

(* Where a worker has a user in its hands.                                 *)
Holding == {"serve", "login", "named", "moving", "remove", "removing",
            "destroy", "sendDone", "leave", "logoutSend", "logout"}

WorkerPlaces == Holding \cup
                {"none", "loop", "take", "broadcast", "logoutBroadcast",
                 "fail", "signal", "ended"}
ListenerPlaces == {"start", "threads", "setUpWait", "createUsers", "loop",
                   "call", "accept", "createUser", "newMutex", "newEntry",
                   "associate", "shutDown", "post", "wait", "destroyUsers",
                   "freeTables", "over"}

TypeOK ==
  /\ process \in {"running", "returned", "crashed", "killed"}
  /\ listener \in ListenerPlaces
  /\ serverState \in {"CONTINUE", "STOP"} /\ seenState \in {"CONTINUE", "STOP"}
  /\ shutdownEvent \in BOOLEAN /\ acceptEvent \in BOOLEAN
  /\ ctrl \in {"none", "stop", "event", "stopFirst", "eventFirst", "closed"}
  /\ accepted \in Clients \cup {None}
  /\ worker \in [Workers -> WorkerPlaces]
  /\ serves \in [Workers -> Clients \cup {None}]
  /\ keys \in 0 .. Cardinality(Workers) /\ posted \in 0 .. Cardinality(Workers)
  /\ port \in {"none", "open", "closed"}
  /\ tables \in {"none", "there", "null", "freed"}
  /\ newMutex \in Workers \cup {"listener", None}
  /\ writeMutex \in Workers \cup {None}
  /\ conn \in [Clients -> {"away", "backlog", "reset", "lost", "accepted",
                           "armed", "ready", "served", "idle"}]
  /\ negotiated \subseteq Clients

Init ==
  /\ process = "running" /\ listener = "start"
  /\ serverState = "CONTINUE" /\ shutdownEvent = FALSE /\ ctrl = "none"
  /\ seenState = "CONTINUE" /\ acceptEvent = FALSE /\ accepted = None
  /\ worker = [w \in Workers |-> "none"] /\ serves = [w \in Workers |-> None]
  /\ keys = 0 /\ posted = 0 /\ port = "none"
  /\ tables = "none"
  /\ newMutex = None /\ writeMutex = None
  /\ conn = [c \in Clients |-> "away"]
  /\ negotiated = {}

Running == process = "running"

-----------------------------------------------------------------------------
(* The console.  Ctrl+C, Ctrl+Break, a logoff and a shutdown set the state *)
(* first; closing the console sets the event first, and Windows ends the   *)
(* process when the handler has returned.                                  *)

GracefulShutdown ==
  /\ ctrl = "none"
  /\ \/ serverState' = "STOP" /\ ctrl' = "stopFirst" /\ UNCHANGED shutdownEvent
     \/ shutdownEvent' = TRUE /\ ctrl' = "eventFirst" /\ UNCHANGED serverState
  /\ UNCHANGED <<process, listener, acceptVars, poolVars, portVars, tables,
                 lockVars, clientVars>>

GracefulShutdownEnds ==
  /\ \/ ctrl = "stopFirst" /\ shutdownEvent' = TRUE /\ ctrl' = "event"
        /\ UNCHANGED serverState
     \/ ctrl = "eventFirst" /\ serverState' = "STOP" /\ ctrl' = "closed"
        /\ UNCHANGED shutdownEvent
  /\ UNCHANGED <<process, listener, acceptVars, poolVars, portVars, tables,
                 lockVars, clientVars>>

ConsoleKills ==
  /\ ctrl = "closed" /\ process' = "killed"
  /\ UNCHANGED <<listener, stopVars, acceptVars, poolVars, portVars, tables,
                 lockVars, clientVars>>

-----------------------------------------------------------------------------
(* The clients and the network.                                            *)

(* The event of NetAccept is signalled; nothing in NetAccept resets it.    *)
Connects(c) ==
  /\ conn[c] = "away" /\ port = "open"
  /\ conn' = [conn EXCEPT ![c] = "backlog"]
  /\ acceptEvent' = (acceptEvent \/ listener = "accept")
  /\ UNCHANGED <<process, listener, stopVars, seenState, accepted, poolVars,
                 portVars, tables, lockVars, negotiated>>

GivesUp(c) ==
  /\ conn[c] = "backlog"
  /\ conn' = [conn EXCEPT ![c] = "reset"]
  /\ UNCHANGED <<process, listener, stopVars, acceptVars, poolVars, portVars,
                 tables, lockVars, negotiated>>

(* A receive completes: a packet, the end of the stream, or an error.      *)
Arrives(c) ==
  /\ conn[c] = "armed"
  /\ conn' = [conn EXCEPT ![c] = "ready"]
  /\ UNCHANGED <<process, listener, stopVars, acceptVars, poolVars, portVars,
                 tables, lockVars, negotiated>>

-----------------------------------------------------------------------------
(* wmain, up to ServerListen.                                              *)

ListenerGoes(from, to) == listener = from /\ listener' = to

Returns ==
  /\ listener' = "over" /\ process' = "returned"

(* CommandLineArgs and IOCPSetUp: the mutexes, the socket and the port.    *)
IOCPSetUp ==
  /\ ListenerGoes("start", "threads") /\ port' = "open"
  /\ UNCHANGED <<process, stopVars, acceptVars, poolVars, keys, posted, tables,
                 lockVars, clientVars>>

(* A wrong argument, no Winsock, no socket, or no port.                    *)
StartFails ==
  /\ listener = "start" /\ Returns
  /\ UNCHANGED <<stopVars, acceptVars, poolVars, portVars, tables, lockVars,
                 clientVars>>

ThreadSetUp ==
  /\ listener = "threads"
  /\ \E w \in Workers :
       worker[w] = "none" /\ worker' = [worker EXCEPT ![w] = "loop"]
  /\ UNCHANGED <<process, listener, stopVars, acceptVars, serves, portVars,
                 tables, lockVars, clientVars>>

ThreadsAreSetUp ==
  /\ ListenerGoes("threads", "createUsers")
  /\ \A w \in Workers : worker[w] # "none"
  /\ UNCHANGED <<process, stopVars, acceptVars, poolVars, portVars, tables,
                 lockVars, clientVars>>

(* CreateThread fails: a key for each thread there is.  The state is set   *)
(* to STOP and the event is not signalled.                                 *)
ThreadSetUpFails ==
  /\ ListenerGoes("threads", "setUpWait")
  /\ serverState' = "STOP"
  /\ \E w \in Workers : worker[w] = "none"
  /\ keys' = keys + Cardinality({w \in Workers : worker[w] # "none"})
  /\ UNCHANGED <<process, shutdownEvent, ctrl, acceptVars, poolVars, posted,
                 port, tables, lockVars, clientVars>>

ThreadSetUpReturns ==
  /\ listener = "setUpWait" /\ Returns
  /\ \A w \in Workers : worker[w] \in {"none", "ended"}
  /\ UNCHANGED <<stopVars, acceptVars, poolVars, portVars, tables, lockVars,
                 clientVars>>

CreateUsers ==
  /\ ListenerGoes("createUsers", "loop") /\ tables' = "there"
  /\ UNCHANGED <<process, stopVars, acceptVars, poolVars, portVars, lockVars,
                 clientVars>>

(* ServerShutDown is given the NULL that CreateUsers returned.             *)
CreateUsersFails ==
  /\ ListenerGoes("createUsers", "shutDown") /\ tables' = "null"
  /\ UNCHANGED <<process, stopVars, acceptVars, poolVars, portVars, lockVars,
                 clientVars>>

-----------------------------------------------------------------------------
(* ServerListen.                                                           *)

ListenLoop ==
  /\ listener = "loop"
  /\ listener' = IF serverState = "CONTINUE" THEN "call" ELSE "shutDown"
  /\ UNCHANGED <<process, stopVars, acceptVars, poolVars, portVars, tables,
                 lockVars, clientVars>>

(* NetAccept: its bServerState is the value g_bServerState has now.  The   *)
(* event is new, and signalled at once if a connection is waiting.         *)
NetAccept ==
  /\ ListenerGoes("call", "accept")
  /\ seenState' = serverState
  /\ acceptEvent' = \E c \in Clients : conn[c] \in {"backlog", "reset"}
  /\ UNCHANGED <<process, stopVars, accepted, poolVars, portVars, tables,
                 lockVars, clientVars>>

(* WaitForMultipleObjects reports the accept event, the first of the two.  *)
AcceptSignalled ==
  listener = "accept" /\ seenState = "CONTINUE" /\ acceptEvent

NetAccepts ==
  /\ AcceptSignalled
  /\ \E c \in Clients :
       /\ conn[c] = "backlog"
       /\ accepted' = c /\ conn' = [conn EXCEPT ![c] = "accepted"]
  /\ listener' = "createUser" /\ acceptEvent' = FALSE
  /\ UNCHANGED <<process, stopVars, seenState, poolVars, portVars, tables,
                 lockVars, negotiated>>

(* WSAAccept fails with an error that does not stop the server: the loop   *)
(* waits again for an event that is still signalled.  When no connection   *)
(* is left it fails with WSAEWOULDBLOCK, for ever: a step without change.  *)
NetAcceptRetries ==
  /\ AcceptSignalled
  /\ \E c \in Clients :
       conn[c] = "reset" /\ conn' = [conn EXCEPT ![c] = "lost"]
  /\ UNCHANGED <<process, listener, stopVars, acceptVars, poolVars, portVars,
                 tables, lockVars, negotiated>>

(* The event was not signalled and g_hShutdownEvent is, or the state was   *)
(* STOP when NetAccept was called.                                         *)
NetAcceptStops ==
  /\ ListenerGoes("accept", "shutDown")
  /\ \/ ~acceptEvent /\ shutdownEvent
     \/ seenState = "STOP"
  /\ UNCHANGED <<process, stopVars, acceptVars, poolVars, portVars, tables,
                 lockVars, clientVars>>

(* No event, a failed wait, or an error of WSAAccept that stops it.        *)
NetAcceptFails ==
  /\ ListenerGoes("accept", "shutDown")
  /\ UNCHANGED <<process, stopVars, acceptVars, poolVars, portVars, tables,
                 lockVars, clientVars>>

CreateUser ==
  /\ ListenerGoes("createUser", "newMutex")
  /\ UNCHANGED <<process, stopVars, acceptVars, poolVars, portVars, tables,
                 lockVars, clientVars>>

(* A failure anywhere in the loop shuts the server down.  The socket or    *)
(* the user that is not yet in the table is not freed.                     *)
ListenFails ==
  /\ listener \in {"createUser", "associate"}
  /\ listener' = "shutDown"
  /\ UNCHANGED <<process, stopVars, acceptVars, poolVars, portVars, tables,
                 lockVars, clientVars>>

NewMutexWait ==
  /\ ListenerGoes("newMutex", "newEntry")
  /\ newMutex = None /\ newMutex' = "listener"
  /\ UNCHANGED <<process, stopVars, acceptVars, poolVars, portVars, tables,
                 writeMutex, clientVars>>

NewMutexInterrupted ==
  /\ ListenerGoes("newMutex", "shutDown")
  /\ newMutex # None /\ shutdownEvent
  /\ UNCHANGED <<process, stopVars, acceptVars, poolVars, portVars, tables,
                 lockVars, clientVars>>

(* The user is in the table, or only counted if its slot was ever taken:   *)
(* the result is the same, and the table is in UserTables.                 *)
HashTableNewEntry ==
  /\ ListenerGoes("newEntry", "associate") /\ newMutex' = None
  /\ UNCHANGED <<process, stopVars, acceptVars, poolVars, portVars, tables,
                 writeMutex, clientVars>>

(* The user is freed, and its connection with it.                          *)
HashTableNewEntryFails ==
  /\ ListenerGoes("newEntry", "shutDown") /\ newMutex' = None
  /\ UNCHANGED <<process, stopVars, acceptVars, poolVars, portVars, tables,
                 writeMutex, clientVars>>

(* The socket is given to the port and the first receive starts.           *)
FirstReceive ==
  /\ ListenerGoes("associate", "loop")
  /\ conn' = [conn EXCEPT ![accepted] = "armed"] /\ accepted' = None
  /\ UNCHANGED <<process, stopVars, seenState, acceptEvent, poolVars, portVars,
                 tables, lockVars, negotiated>>

-----------------------------------------------------------------------------
(* ServerShutDown.                                                         *)

ServerShutDown ==
  /\ ListenerGoes("shutDown", "post") /\ serverState' = "STOP"
  /\ UNCHANGED <<process, shutdownEvent, ctrl, acceptVars, poolVars, portVars,
                 tables, lockVars, clientVars>>

(* Seeded fault: the last thread gets no key.                              *)
ThreadShutDownPostsOneLess ==
  /\ listener = "post"
  /\ IF posted + 1 < Cardinality(Workers)
       THEN keys' = keys + 1 /\ posted' = posted + 1 /\ UNCHANGED listener
       ELSE listener' = "wait" /\ UNCHANGED <<keys, posted>>
  /\ UNCHANGED <<process, stopVars, acceptVars, poolVars, port, tables,
                 lockVars, clientVars>>

(* Seeded fault: the counter goes up to the number of threads.             *)
ThreadShutDownPostsOneMore ==
  /\ listener = "post"
  /\ IF posted <= Cardinality(Workers)
       THEN keys' = keys + 1 /\ posted' = posted + 1 /\ UNCHANGED listener
       ELSE listener' = "wait" /\ UNCHANGED <<keys, posted>>
  /\ UNCHANGED <<process, stopVars, acceptVars, poolVars, port, tables,
                 lockVars, clientVars>>

(* A key for each thread of the pool, whether or not it still runs.        *)
ThreadShutDownPosts ==
  /\ listener = "post"
  /\ IF posted < Cardinality(Workers)
       THEN keys' = keys + 1 /\ posted' = posted + 1 /\ UNCHANGED listener
       ELSE listener' = "wait" /\ UNCHANGED <<keys, posted>>
  /\ UNCHANGED <<process, stopVars, acceptVars, poolVars, port, tables,
                 lockVars, clientVars>>

(* Seeded fault: the wait is for any of the threads.                       *)
ThreadShutDownForAny ==
  /\ ListenerGoes("wait", "destroyUsers")
  /\ \E w \in Workers : worker[w] = "ended"
  /\ port' = "closed"
  /\ UNCHANGED <<process, stopVars, acceptVars, poolVars, keys, posted, tables,
                 lockVars, clientVars>>

(* All the threads have ended, and ServerShutDown closes the port.         *)
ThreadShutDown ==
  /\ ListenerGoes("wait", "destroyUsers")
  /\ \A w \in Workers : worker[w] = "ended"
  /\ port' = "closed"
  /\ UNCHANGED <<process, stopVars, acceptVars, poolVars, keys, posted, tables,
                 lockVars, clientVars>>

(* HashTableDestroy of both tables.  pUsers is dereferenced, NULL or not.  *)
DestroyUsers ==
  /\ ListenerGoes("destroyUsers", "freeTables")
  /\ process' = IF tables = "null" THEN "crashed" ELSE process
  /\ UNCHANGED <<stopVars, acceptVars, poolVars, portVars, tables, lockVars,
                 clientVars>>

(* NetCleanup, the USERS structure, and wmain returns.                     *)
FreeTables ==
  /\ listener = "freeTables" /\ tables' = "freed" /\ Returns
  /\ UNCHANGED <<stopVars, acceptVars, poolVars, portVars, lockVars,
                 clientVars>>

-----------------------------------------------------------------------------
(* WorkerThread: the loop and the completions.                             *)

(* What a worker leaves alone that has a client.                           *)
mainVars == <<process, listener, stopVars, acceptVars, portVars, tables>>

WorkerGoes(w, from, to) ==
  /\ worker[w] = from
  /\ worker' = [worker EXCEPT ![w] = to]

(* The worker has done with the client, for which no receive goes on.      *)
WorkerLets(w, from, to) ==
  /\ WorkerGoes(w, from, to)
  /\ serves' = [serves EXCEPT ![w] = None]
  /\ conn' = [conn EXCEPT ![serves[w]] = "idle"]

(* The worker has done with the client, whose next receive was started by  *)
(* it or by the one that sees the answer's send complete.                  *)
WorkerRearms(w, from) ==
  /\ WorkerGoes(w, from, "loop")
  /\ serves' = [serves EXCEPT ![w] = None]
  /\ conn' = [conn EXCEPT ![serves[w]] = "armed"]

WorkerLoop(w) ==
  /\ WorkerGoes(w, "loop",
                 IF serverState = "CONTINUE" THEN "take" ELSE "ended")
  /\ UNCHANGED <<mainVars, serves, lockVars, clientVars>>

TakeShutdown(w) ==
  /\ WorkerGoes(w, "take", "ended")
  /\ keys > 0 /\ keys' = keys - 1
  /\ UNCHANGED <<process, listener, stopVars, acceptVars, serves, posted, port,
                 tables, lockVars, clientVars>>

TakeReceive(w, c) ==
  /\ WorkerGoes(w, "take", "serve")
  /\ conn[c] = "ready" /\ conn' = [conn EXCEPT ![c] = "served"]
  /\ serves' = [serves EXCEPT ![w] = c]
  /\ UNCHANGED <<mainVars, lockVars, negotiated>>

(* The last send to a user that is about to be removed completes or fails: *)
(* the worker that waits for SEND_DONE_EVENT goes on.                      *)
TakeSend(w, v) ==
  /\ worker[w] = "take" /\ worker[v] \in {"sendDone", "logoutSend"}
  /\ worker' = [worker EXCEPT
       ![w] = "loop",
       ![v] = IF worker[v] = "sendDone" THEN "leave" ELSE "logout"]
  /\ UNCHANGED <<mainVars, serves, lockVars, clientVars>>

(* The lock on the users table is held across a wait by nobody else: the   *)
(* other holders let it go in a few steps.  A worker that has ended with   *)
(* it has left it abandoned, and a wait for it fails.                      *)
LockIsFree(w) == writeMutex \in {w, None}

(* A packet is handled.                                                    *)
Serve(w) ==
  /\ LockIsFree(w) /\ WorkerRearms(w, "serve")
  /\ UNCHANGED <<mainVars, lockVars, negotiated>>

(* HandleClientRegistration and CheckforUser: a name that is not taken     *)
(* enters the users table, or is only counted; the lock is released.       *)
CheckforUser(w) ==
  /\ LockIsFree(w) /\ serves[w] \notin negotiated
  /\ WorkerGoes(w, "serve", "login")
  /\ UNCHANGED <<mainVars, serves, lockVars, clientVars>>

(* The user is NEGOTIATED; the wait for NEW_USERS_MUTEX is next.           *)
SetNegotiated(w) ==
  /\ WorkerGoes(w, "login", "named")
  /\ negotiated' = negotiated \cup {serves[w]}
  /\ UNCHANGED <<mainVars, serves, lockVars, conn>>

(* SRV_SHUTDOWN_ERR from a handler, as for a name that is taken.           *)
ServeFails(w) ==
  /\ WorkerLets(w, "serve", "fail")
  /\ UNCHANGED <<mainVars, lockVars, negotiated>>

(* By the state of the user.  A completion of a send to a NEGOTIATED user, *)
(* or a receive of one that is claimed already, lets the user go.          *)
ShutsDown(w) ==
  \/ /\ serves[w] \notin negotiated /\ WorkerGoes(w, "serve", "remove")
     /\ UNCHANGED <<serves, conn>>
  \/ /\ serves[w] \in negotiated /\ WorkerGoes(w, "serve", "destroy")
     /\ UNCHANGED <<serves, conn>>
  \/ serves[w] \in negotiated /\ WorkerLets(w, "serve", "loop")

(* The client is gone, or a handler has returned CLIENT_REMOVE_ERR.        *)
HandleClientShutdown(w) ==
  /\ ShutsDown(w)
  /\ UNCHANGED <<mainVars, lockVars, negotiated>>

(* A receive that cannot be started, after a packet or a send: the state   *)
(* is STOP and the event is not signalled.                                 *)
RearmStops(w) ==
  /\ serverState' = "STOP" /\ ShutsDown(w)
  /\ UNCHANGED <<process, listener, shutdownEvent, ctrl, acceptVars, portVars,
                 tables, lockVars, negotiated>>

-----------------------------------------------------------------------------
(* Waits for NEW_USERS_MUTEX: a login leaves the table of new users, and   *)
(* so does a client that is removed before it has logged in.               *)

NewUsersWait(w) ==
  /\ newMutex = None /\ newMutex' = w
  /\ \/ WorkerGoes(w, "named", "moving")
     \/ WorkerGoes(w, "remove", "removing")
  /\ UNCHANGED <<mainVars, serves, writeMutex, clientVars>>

(* Whether there was an entry is not looked at.  LoginBroadcast, which     *)
(* follows, takes no lock.                                                 *)
LeaveNewUsers(w) ==
  /\ WorkerRearms(w, "moving") /\ newMutex' = None
  /\ UNCHANGED <<mainVars, writeMutex, negotiated>>

(* The user of the entry is freed and the others are told; or there is no  *)
(* entry, the client's user is freed, and WorkerThread returns ERR_GENERIC.*)
RemoveNewUser(w) ==
  /\ \E to \in {"broadcast", "ended"} : WorkerLets(w, "removing", to)
  /\ newMutex' = None
  /\ UNCHANGED <<mainVars, writeMutex, negotiated>>

(* The login is cut off between the two tables, and the handler returns    *)
(* SRV_SHUTDOWN_ERR.                                                       *)
LoginInterrupted(w) ==
  /\ newMutex # None /\ shutdownEvent
  /\ WorkerLets(w, "named", "fail")
  /\ UNCHANGED <<mainVars, lockVars, negotiated>>

(* WorkerThread returns ERR_GENERIC without telling the others.            *)
RemoveInterrupted(w) ==
  /\ newMutex # None /\ shutdownEvent
  /\ WorkerLets(w, "remove", "ended")
  /\ UNCHANGED <<mainVars, lockVars, negotiated>>

-----------------------------------------------------------------------------
(* ClientShutdown, HandleLogout and LogoutBroadcast.                       *)

(* UsersTableWriter; then, with the lock held, a wait for SEND_DONE_EVENT  *)
(* if a send is going on.                                                  *)
ClientShutdown(w) ==
  /\ LockIsFree(w) /\ writeMutex' = w
  /\ \E to \in {"sendDone", "leave"} : WorkerGoes(w, "destroy", to)
  /\ UNCHANGED <<mainVars, serves, newMutex, clientVars>>

(* HashTableDestroyEntry: the user of the entry it finds by the name, this *)
(* client's or another's, is freed; or it finds none, and this client's    *)
(* user is freed and the state set.  The others are told in either case.   *)
ClientLeavesTable(w) ==
  /\ WorkerLets(w, "leave", "broadcast")
  /\ serverState' \in {serverState, "STOP"}
  /\ UNCHANGED <<process, listener, shutdownEvent, ctrl, acceptVars, portVars,
                 tables, newMutex, negotiated>>

(* Seeded fault: the mutex is not released.                                *)
ClientLeavesLocked(w) == ClientLeavesTable(w) /\ UNCHANGED writeMutex

ClientLeaves(w) == ClientLeavesTable(w) /\ writeMutex' = None

(* Either wait is interrupted: HandleClientShutdown sets the state and     *)
(* broadcasts all the same.  USERS_WRITE_MUTEX is not released.            *)
ClientShutdownInterrupted(w) ==
  /\ shutdownEvent
  /\ \/ WorkerLets(w, "sendDone", "broadcast")
     \/ ~LockIsFree(w) /\ WorkerLets(w, "destroy", "broadcast")
  /\ serverState' = "STOP"
  /\ UNCHANGED <<process, listener, shutdownEvent, ctrl, acceptVars, portVars,
                 tables, lockVars, negotiated>>

(* The acknowledgement is sent, and waited for without the lock.           *)
HandleLogout(w) ==
  /\ serves[w] \in negotiated
  /\ \E to \in {"logoutSend", "logout"} : WorkerGoes(w, "serve", to)
  /\ UNCHANGED <<mainVars, serves, lockVars, clientVars>>

(* UsersTableWriter and HashTableDestroyEntry, as in ClientLeaves; with no *)
(* entry SRV_SHUTDOWN_ERR is returned.                                     *)
LogoutLeaves(w) ==
  /\ LockIsFree(w) /\ writeMutex' = None
  /\ \E to \in {"logoutBroadcast", "fail"} : WorkerLets(w, "logout", to)
  /\ UNCHANGED <<mainVars, newMutex, negotiated>>

LogoutInterrupted(w) ==
  /\ shutdownEvent
  /\ \/ WorkerLets(w, "logoutSend", "fail")
     \/ ~LockIsFree(w) /\ WorkerLets(w, "logout", "fail")
  /\ UNCHANGED <<mainVars, lockVars, negotiated>>

LogoutBroadcast(w) ==
  /\ LockIsFree(w)
  /\ \E from \in {"broadcast", "logoutBroadcast"} : WorkerGoes(w, from, "loop")
  /\ UNCHANGED <<mainVars, serves, lockVars, clientVars>>

(* SRV_SHUTDOWN_ERR: WorkerThread returns ERR_GENERIC after a removal, and *)
(* stops the server after a logout.                                        *)
BroadcastStops(w) ==
  /\ \/ WorkerGoes(w, "broadcast", "ended")
     \/ WorkerGoes(w, "logoutBroadcast", "fail")
  /\ UNCHANGED <<mainVars, serves, lockVars, clientVars>>

LogoutBroadcastInterrupted(w) ==
  ~LockIsFree(w) /\ shutdownEvent /\ BroadcastStops(w)

(* A message to another user cannot be queued.                             *)
LogoutBroadcastFails(w) == LockIsFree(w) /\ BroadcastStops(w)

(* A handler that waits for the lock on the users table.                   *)
ServeInterrupted(w) ==
  /\ ~LockIsFree(w) /\ shutdownEvent
  /\ WorkerLets(w, "serve", "fail")
  /\ UNCHANGED <<mainVars, lockVars, negotiated>>

(* WorkerThread on SRV_SHUTDOWN_ERR.                                       *)
WorkerStops(w) ==
  /\ WorkerGoes(w, "fail", "signal") /\ serverState' = "STOP"
  /\ UNCHANGED <<process, listener, shutdownEvent, ctrl, acceptVars, serves,
                 portVars, tables, lockVars, clientVars>>

WorkerSignals(w) ==
  /\ WorkerGoes(w, "signal", "loop") /\ shutdownEvent' = TRUE
  /\ UNCHANGED <<process, listener, serverState, ctrl, acceptVars, serves,
                 portVars, tables, lockVars, clientVars>>

-----------------------------------------------------------------------------
ListenerSteps ==
  \/ IOCPSetUp \/ ThreadSetUp \/ ThreadsAreSetUp \/ ThreadSetUpReturns
  \/ CreateUsers \/ ListenLoop \/ NetAccept \/ NetAccepts \/ NetAcceptRetries
  \/ NetAcceptStops \/ CreateUser \/ NewMutexWait \/ NewMutexInterrupted
  \/ HashTableNewEntry \/ FirstReceive \/ ServerShutDown
  \/ ThreadShutDownPosts \/ ThreadShutDown \/ DestroyUsers \/ FreeTables

ListenerFaults ==
  \/ StartFails \/ ThreadSetUpFails \/ CreateUsersFails \/ NetAcceptFails
  \/ ListenFails \/ HashTableNewEntryFails

WorkerSteps(w) ==
  \/ WorkerLoop(w) \/ TakeShutdown(w) \/ \E c \in Clients : TakeReceive(w, c)
  \/ Serve(w) \/ CheckforUser(w) \/ SetNegotiated(w)
  \/ HandleClientShutdown(w)
  \/ NewUsersWait(w) \/ LeaveNewUsers(w) \/ RemoveNewUser(w)
  \/ LoginInterrupted(w) \/ RemoveInterrupted(w)
  \/ ClientShutdown(w) \/ ClientLeaves(w) \/ ClientShutdownInterrupted(w)
  \/ HandleLogout(w) \/ LogoutLeaves(w) \/ LogoutInterrupted(w)
  \/ LogoutBroadcast(w) \/ LogoutBroadcastInterrupted(w)
  \/ ServeInterrupted(w) \/ WorkerStops(w) \/ WorkerSignals(w)

WorkerFaults(w) == ServeFails(w) \/ RearmStops(w) \/ LogoutBroadcastFails(w)

Console == GracefulShutdown \/ GracefulShutdownEnds \/ ConsoleKills

Network ==
  \/ \E c \in Clients : Connects(c) \/ GivesUp(c) \/ Arrives(c)
  \/ \E w, v \in Workers : TakeSend(w, v)

Next ==
  /\ Running
  /\ \/ ListenerSteps \/ ListenerFaults \/ Console \/ Network
     \/ \E w \in Workers : WorkerSteps(w) \/ WorkerFaults(w)

Spec == Init /\ [][Next]_vars

(* Windows schedules every thread, and ends a process whose console was    *)
(* closed.  Nothing is assumed of the clients, of the user, of failures,   *)
(* or of sends: a peer may never read.  A handler whose waits are never    *)
(* satisfied stays in them.                                                *)
FairSpec ==
  /\ Spec
  /\ WF_vars(Running /\ ListenerSteps)
  /\ WF_vars(Running /\ (GracefulShutdownEnds \/ ConsoleKills))
  /\ \A w \in Workers : WF_vars(Running /\ WorkerSteps(w))

-----------------------------------------------------------------------------
(* When ServerShutDown closes the port and frees the tables, no worker is  *)
(* inside the port or has a user in its hands, whichever way it left its   *)
(* loop: by a key, by the state, or with ERR_GENERIC.                      *)
TablesOutliveWorkers ==
  (port = "closed" \/ tables = "freed") =>
    \A w \in Workers : worker[w] = "ended"

(* A worker that keeps USERS_WRITE_MUTEX after its work in the users table *)
(* is done, as ClientShutdown does when its wait is interrupted, does so   *)
(* only when g_hShutdownEvent is signalled and g_bServerState is STOP: the *)
(* others, who will never get it, have an event to wake them and a loop    *)
(* that ends.                                                              *)
LockIsLostOnlyAtStop ==
  writeMutex # None /\ worker[writeMutex] \notin {"sendDone", "leave"} =>
    shutdownEvent /\ serverState = "STOP"

(* NetAccept waits for connections, of which there is none, with an event  *)
(* that is signalled.                                                      *)
Spinning ==
  /\ AcceptSignalled
  /\ \A c \in Clients : conn[c] \notin {"backlog", "reset"}

(* Once g_hShutdownEvent is signalled, by the console or by a worker, the  *)
(* listener and every worker leave whatever they wait for and the process  *)
(* ends, unless the listener spins in NetAccept.                           *)
ShutdownEnds ==
  shutdownEvent ~> (process # "running" \/ Spinning)

(* networking.h of the parameter hShutdown: "Handle to an event that       *)
(* signals when to stop accepting connections".                            *)
EventStopsAccepting ==
  shutdownEvent ~> ~(Running /\ listener = "accept")

(* g_bServerState alone, as a worker and ThreadSetUp set it, ends the      *)
(* server.  Refuted: NetAccept has a copy and nobody signals the event.    *)
StateStopsServer ==
  (serverState = "STOP") ~> (process # "running" \/ Spinning)

(* The server never dereferences the tables it could not create.  Refuted  *)
(* by ServerShutDown after CreateUsers failed.                             *)
NeverCrashes == process # "crashed"
=============================================================================
