---------------------------- MODULE UserTables -----------------------------
(* The two hash tables of the server and the life of a user in them: the   *)
(* listener accepts a connection and puts a new user, under its socket, in *)
(* m_pNewUsersTable; the worker that handles the login puts the user,      *)
(* under its name, in m_pUsersHTable and takes it out of the first; a      *)
(* logout or a lost connection takes it out of the table it is in and      *)
(* frees it; the listener frees what is left when the server stops.        *)
(*                                                                         *)
(* A completion of a user is handled by a worker thread, and one that      *)
(* comes while a worker is busy with that user by another ("second").  A   *)
(* client sends a packet only after the answer to its last one.  A section *)
(* under a lock is one action: how readers and writers of the users table  *)
(* really meet is module UsersLock, and a wait for the new users mutex may *)
(* be cut short by the end of the server while another thread may have it. *)
(* How messages are queued, sent and received is module UserIO.  Here the  *)
(* send and the receive of a user are followed until its login is          *)
(* complete; a user that is logged in has a receive posted until it        *)
(* leaves, and its sends end at any time.                                  *)
EXTENDS HashTable, FiniteSets

CONSTANTS
  Users,      \* the USER structures, one per accepted connection
  Names,      \* names the clients log in with
  Sockets,    \* socket handles, each a key of the new users table
  MaxClients, \* m_dwMaxClients
  MaxLate     \* workers waiting for a completion when the server stops

ASSUME UserTablesAssumption ==
  /\ Names \cup Sockets \cup {<<>>} \subseteq Keys
  /\ \A s, t \in Sockets : Len(s) = Len(t)
  /\ MaxClients \in Nat \ {0}
  /\ MaxClients < WORD_RANGE
  /\ MaxLate \in Nat
  /\ NoUser \notin Users

VARIABLES
  users,     \* m_pUsersHTable
  newUsers,  \* m_pNewUsersTable
  state,     \* per user: "none", "new" (UN_NEGOTIATED), "negotiated", "freed"
  socket,    \* per user: m_ClientSocket
  name,      \* per user: the name of its login packet
  at,        \* per user and worker: where the handler of a completion is
  receiving, \* users with a receive posted (m_plRecvOccuring)
  sending,   \* users not logged in with a send under way (m_plSendOccuring)
  freed,     \* users given to UserFreeFunction
  broken,    \* freed memory, or a table without slots, has been used:
             \* nothing is claimed any more
  listener,  \* "accepting", "joining", "stopped"
  running,   \* g_bServerState = CONTINUE
  shutdown,  \* g_hShutdownEvent is set
  late       \* completions taken by workers after g_bServerState was STOP

tables == <<users, newUsers>>
identity == <<state, socket, name>>
server == <<listener, running, shutdown>>
traffic == <<receiving, sending>>
memory == <<freed, broken>>
vars == <<tables, identity, at, traffic, memory, server, late>>

Workers == {"first", "second"}

(* Where a worker is with a user; at "done" and "refused" the user is      *)
(* handled no more.                                                        *)
BusyAt == {"naming", "copying", "lockNew", "leaving", "lockLost"}
Locations == {"idle", "done", "refused"} \cup BusyAt

TableOK(table, keys) ==
  /\ table.size \in 0 .. (WORD_RANGE - 1)
  /\ \A e \in Entries(table) : e.key \in keys /\ e.data \in Users

TypeOK ==
  /\ TableOK(users, Names) /\ TableOK(newUsers, Sockets)
  /\ state \in [Users -> {"none", "new", "negotiated", "freed"}]
  /\ socket \in [Users -> Sockets \cup {<<>>}]
  /\ name \in [Users -> Names \cup {<<>>}]
  /\ at \in [Users -> [Workers -> Locations]]
  /\ receiving \subseteq Users /\ sending \subseteq Users /\ freed \subseteq Users
  /\ broken \in BOOLEAN /\ running \in BOOLEAN /\ shutdown \in BOOLEAN
  /\ listener \in {"accepting", "joining", "stopped"}
  /\ late \in 0 .. MaxLate

(* CreateUsers: both tables are made for the number of clients.            *)
Init ==
  /\ users = HashTableInit(MaxClients)
  /\ newUsers = HashTableInit(MaxClients)
  /\ state = [u \in Users |-> "none"]
  /\ socket = [u \in Users |-> <<>>]
  /\ name = [u \in Users |-> <<>>]
  /\ at = [u \in Users |-> [w \in Workers |-> "idle"]]
  /\ receiving = {} /\ sending = {} /\ freed = {} /\ broken = FALSE
  /\ listener = "accepting" /\ running = TRUE /\ shutdown = FALSE /\ late = 0

Busy(u, w) == at[u][w] \in BusyAt

Moved(u, w, place) == [at EXCEPT ![u][w] = place]

(* SRV_SHUTDOWN_ERR as WorkerThread takes it after a packet.               *)
StopServer == running' = FALSE /\ shutdown' = TRUE

(* UserFreeFunction(gone) by worker w of user u closes the socket and      *)
(* zeroes the memory it gives back.  Memory is misused when                *)
(* it was already freed, or when a worker is still handling that user, or  *)
(* will be, because a receive or a send of it has yet to complete.         *)
FreeUser(gone, u, w) ==
  /\ freed' = freed \cup {gone}
  /\ state' = [state EXCEPT ![gone] = "freed"]
  /\ socket' = [socket EXCEPT ![gone] = <<>>]
  /\ name' = [name EXCEPT ![gone] = <<>>]
  /\ broken' = \/ gone \in freed \cup receiving' \cup sending
               \/ \E other \in Workers : <<gone, other>> # <<u, w>> /\ Busy(gone, other)

(* The table has lost its slots, and the insertion goes on without.        *)
Crash(inserted) == broken' = (inserted.table.slots = NoSlots)

LoggingIn(u) == state[u] = "new" \/ at[u]["first"] \in {"copying", "lockNew"}

(* A message is queued for every user of S, and one of them is being sent. *)
QueueFor(S) == sending' = sending \cup {u \in S : LoggingIn(u)}

(* The completion of a send posts a receive if there is none.  The receive *)
(* that brought a logout or a failure is counted as under way for ever.    *)
PostReceive(u) ==
  receiving' = IF \E w \in Workers : at[u][w] \in {"lockLost", "done"}
               THEN receiving ELSE receiving \cup {u}

----------------------------------------------------------------------------
(* The listener (ServerListen).                                            *)

(* NetAccept returned a connection.  A user is created for a socket no     *)
(* live user has, put in the table under the mutex, and its first receive  *)
(* posted.  If either fails the server ends; otherwise the loop goes on    *)
(* while it runs.                                                          *)
Accept(u, s, prime, posted) ==
  LET inserted == HashTableNewEntry(newUsers, u, s, prime)
      stored == inserted.ret = SUCCESS
      accepted == stored /\ posted
  IN  /\ listener = "accepting"
      /\ state[u] = "none"
      /\ \A v \in Users : socket[v] # s
      /\ newUsers' = inserted.table
      /\ state' = [state EXCEPT ![u] = IF stored THEN "new" ELSE "freed"]
      /\ socket' = IF stored THEN [socket EXCEPT ![u] = s] ELSE socket
      /\ receiving' = IF accepted THEN receiving \cup {u} ELSE receiving
      /\ freed' = IF stored THEN freed ELSE freed \cup {u}
      /\ listener' = IF accepted /\ running THEN "accepting" ELSE "joining"
      /\ running' = (running /\ accepted)
      /\ Crash(inserted)
      /\ UNCHANGED <<users, name, at, sending, shutdown>>

(* The shutdown event ends NetAccept, or the wait for a held mutex;        *)
(* ServerShutDown sets the state and asks the workers to end.              *)
ListenerStops ==
  /\ listener = "accepting" /\ shutdown
  /\ listener' = "joining" /\ running' = FALSE
  /\ UNCHANGED <<tables, identity, at, traffic, memory, shutdown>>

(* Every worker has ended: HashTableDestroy frees the users of both        *)
(* tables, in this order.                                                  *)
DestroyTables ==
  LET first == StoredUsers(users)
      second == StoredUsers(newUsers)
  IN  /\ listener = "joining"
      /\ \A u \in Users, w \in Workers : ~Busy(u, w)
      /\ listener' = "stopped"
      /\ freed' = freed \cup first \cup second
      /\ broken' = (first \cap (freed \cup second) # {} \/ second \cap freed # {})
      /\ UNCHANGED <<tables, identity, at, traffic, running, shutdown>>

(* Ctrl+C, or another console event.                                       *)
GracefulShutdown ==
  /\ running \/ ~shutdown
  /\ StopServer
  /\ UNCHANGED <<tables, identity, at, traffic, memory, listener>>

----------------------------------------------------------------------------
(* Login: HandleClientRegistration and CheckforUser.                       *)

(* A packet of u, or its failed receive, is handled by worker w.           *)
Completes(u, phase, w) ==
  /\ u \in receiving /\ state[u] = phase /\ at[u][w] = "idle"
  /\ receiving' = receiving \ {u}

BothIdle(u) == \A w \in Workers : at[u][w] = "idle"

(* Seeded fault: room for one user too many.                               *)
RoomForOneMore == users.size <= MaxClients

(* The test of m_wSize against m_dwMaxClients.                             *)
HasRoom == users.size < MaxClients

(* The packet is not a login, or the server is full: the user is told so   *)
(* and stays new.  A login to a full server is announced all the same.     *)
Reject(u) ==
  /\ Completes(u, "new", "first") /\ BothIdle(u)
  /\ \/ QueueFor({u})
     \/ ~HasRoom /\ QueueFor({u} \cup StoredUsers(users))
  /\ UNCHANGED <<tables, identity, at, memory, server>>

(* The name enters the table and the write mutex is released.  Any error   *)
(* stops the server, a taken name with it.                                 *)
CheckforUser(u, n, prime) ==
  LET inserted == HashTableNewEntry(users, u, n, prime)
      accepted == inserted.ret = SUCCESS
  IN  /\ Completes(u, "new", "first") /\ BothIdle(u)
      /\ HasRoom
      /\ users' = inserted.table
      /\ name' = [name EXCEPT ![u] = n]
      /\ at' = Moved(u, "first", IF accepted THEN "naming" ELSE "refused")
      /\ running' = (running /\ accepted)
      /\ shutdown' = (shutdown \/ ~accepted)
      /\ Crash(inserted)
      /\ UNCHANGED <<newUsers, state, socket, sending, freed, listener>>

(* The user becomes negotiated after the write mutex is released, and only *)
(* then is its name copied.                                                *)
SetNegotiated(u) ==
  /\ at[u]["first"] = "naming"
  /\ state' = [state EXCEPT ![u] = "negotiated"]
  /\ at' = Moved(u, "first", "copying")
  /\ UNCHANGED <<tables, socket, name, traffic, memory, server>>

CopyName(u) ==
  /\ at[u]["first"] = "copying"
  /\ at' = Moved(u, "first", "lockNew")
  /\ UNCHANGED <<tables, identity, traffic, memory, server>>

(* m_caUsername and its length; with length 0 a lookup takes the first     *)
(* entry of the slot of the empty name.                                    *)
Username(u) == IF at[u]["first"] \in {"naming", "copying"} THEN <<>> ELSE name[u]

(* Seeded fault: the login leaves the user among the new ones.             *)
StayNew(u) == UNCHANGED newUsers

LeaveNew(u) == newUsers' = HashTableDestroyEntry(newUsers, socket[u])

(* The user leaves the new users table, its login is acknowledged and      *)
(* announced to every other user; it is logged in.                         *)
RemoveNew(u) ==
  /\ at[u]["first"] = "lockNew"
  /\ LeaveNew(u)
  /\ at' = Moved(u, "first", "idle")
  /\ sending' = (sending \ {u}) \cup {v \in StoredUsers(users) \ {u} : LoggingIn(v)}
  /\ PostReceive(u)
  /\ UNCHANGED <<users, identity, memory, server>>

(* Another thread may have the new users mutex: the listener, or a worker  *)
(* that waits for it now.                                                  *)
NewMutexTaken(u, w) ==
  \/ listener = "accepting"
  \/ \E v \in Users, other \in Workers :
       <<v, other>> # <<u, w>> /\ at[v][other] \in {"lockNew", "lockLost"}

(* A wait for that mutex, by a login or for a lost new user, ended by the  *)
(* shutdown event: the handler gives up.                                   *)
LockNewAborted(u, w) ==
  /\ at[u][w] \in {"lockNew", "lockLost"} /\ shutdown /\ NewMutexTaken(u, w)
  /\ at' = Moved(u, w, "done")
  /\ running' = FALSE
  /\ UNCHANGED <<tables, identity, traffic, memory, listener, shutdown>>

----------------------------------------------------------------------------
(* Packets of a negotiated user.  A chat or a broadcast is a message to    *)
(* each user found and an answer to the sender, after which its receive is *)
(* posted again.                                                           *)

Asks(u) == u \in receiving /\ state[u] = "negotiated" /\ BothIdle(u)

HandleClientMessage(u, n) ==
  /\ Asks(u)
  /\ QueueFor({HashTableReturnEntry(users, n)} \ {NoUser})
  /\ UNCHANGED <<tables, identity, at, receiving, memory, server>>

HandleBroadcast(u) ==
  /\ Asks(u)
  /\ QueueFor(StoredUsers(users))
  /\ UNCHANGED <<tables, identity, at, receiving, memory, server>>

(* An empty list is taken for an error that stops the server; any other    *)
(* changes nothing here.                                                   *)
HandleList(u) ==
  /\ Asks(u)
  /\ StoredUsers(users) = {}
  /\ receiving' = receiving \ {u}
  /\ at' = Moved(u, "first", "done")
  /\ StopServer
  /\ UNCHANGED <<tables, identity, sending, memory, listener>>

(* The acknowledgement is queued and the end of the sends waited for.      *)
HandleLogout(u) ==
  /\ Asks(u)
  /\ receiving' = receiving \ {u}
  /\ at' = Moved(u, "first", "leaving")
  /\ UNCHANGED <<tables, identity, sending, memory, server>>

(* The entry of that name is removed and its user freed, and the others    *)
(* are told; without one, the user itself is freed and the server stops.   *)
LogoutRemove(u) ==
  LET found == HashTableReturnEntry(users, Username(u)) IN
  /\ at[u]["first"] = "leaving"
  /\ users' = HashTableDestroyEntry(users, Username(u))
  /\ at' = Moved(u, "first", "done")
  /\ UNCHANGED receiving
  /\ \/ /\ found # NoUser /\ FreeUser(found, u, "first")
        /\ QueueFor(StoredUsers(users')) /\ UNCHANGED <<running, shutdown>>
     \/ /\ found = NoUser /\ FreeUser(u, u, "first")
        /\ StopServer /\ UNCHANGED sending
  /\ UNCHANGED <<newUsers, listener>>

(* The wait for the sends ended by the shutdown event.                     *)
LogoutAborted(u) ==
  /\ at[u]["first"] = "leaving" /\ shutdown
  /\ at' = Moved(u, "first", "done")
  /\ running' = FALSE
  /\ UNCHANGED <<tables, identity, traffic, memory, listener, shutdown>>

----------------------------------------------------------------------------
(* Completions of sends, and lost connections (HandleClientShutdown).      *)

SendCompletes(u) ==
  /\ u \in sending
  /\ sending' = sending \ {u}
  /\ PostReceive(u)
  /\ UNCHANGED <<tables, identity, at, memory, server>>

(* The failed send of a negotiated user only ends the send; that of a new  *)
(* one is handled as the loss of a new user.                               *)
SendFails(u) ==
  /\ u \in sending
  /\ sending' = sending \ {u}
  /\ \/ state[u] = "negotiated" /\ UNCHANGED at
     \/ /\ state[u] = "new"
        /\ \E w \in Workers : at[u][w] = "idle" /\ at' = Moved(u, w, "lockLost")
  /\ UNCHANGED <<tables, identity, receiving, memory, server>>

LoseNew(u, w) ==
  /\ Completes(u, "new", w)
  /\ at' = Moved(u, w, "lockLost")
  /\ UNCHANGED <<tables, identity, sending, memory, server>>

(* The entry of the socket is removed, its user freed and the others told; *)
(* without one, the user itself is freed and the worker ends.              *)
RemoveLost(u, w) ==
  LET found == HashTableReturnEntry(newUsers, socket[u]) IN
  /\ at[u][w] = "lockLost"
  /\ newUsers' = HashTableDestroyEntry(newUsers, socket[u])
  /\ at' = Moved(u, w, "done")
  /\ UNCHANGED receiving
  /\ \/ found # NoUser /\ FreeUser(found, u, w) /\ QueueFor(StoredUsers(users))
     \/ found = NoUser /\ FreeUser(u, u, w) /\ UNCHANGED sending
  /\ UNCHANGED <<users, server>>

(* The user to be freed: the one that was looked up, or the one that left. *)
Leaver(u, found) == IF found = NoUser THEN u ELSE found

(* ClientShutdown: the sends have ended, the entry of the name is removed  *)
(* and its user freed; without one, the user itself is freed and the       *)
(* server state set, but not the event.  The others are told either way.   *)
LoseNegotiated(u, w) ==
  LET found == HashTableReturnEntry(users, Username(u)) IN
  /\ Completes(u, "negotiated", w) /\ u \notin sending
  /\ users' = HashTableDestroyEntry(users, Username(u))
  /\ at' = Moved(u, w, "done")
  /\ FreeUser(Leaver(u, found), u, w)
  /\ running' = (running /\ found # NoUser)
  /\ QueueFor(StoredUsers(users'))
  /\ UNCHANGED <<newUsers, listener, shutdown>>

(* The shutdown event ends a wait for the users table, or for the sends of *)
(* a lost user, before the handler has changed anything.  The loss of a    *)
(* user is announced even then, if that wait is not ended too.             *)
WaitAborted(u, w) ==
  /\ shutdown
  /\ \/ /\ Completes(u, "negotiated", w)
        /\ UNCHANGED sending \/ QueueFor(StoredUsers(users))
     \/ /\ w = "first" /\ Completes(u, "new", w) /\ BothIdle(u)
        /\ UNCHANGED sending
  /\ at' = Moved(u, w, "done")
  /\ running' = FALSE
  /\ UNCHANGED <<tables, identity, memory, listener, shutdown>>

----------------------------------------------------------------------------

(* Seeded fault: one worker waits once more after STOP.                    *)
WaitsOnceMore == running \/ late <= MaxLate

(* A worker looks at g_bServerState before it waits for a completion:      *)
(* after STOP only the workers that were waiting take one more.            *)
Waits == running \/ late < MaxLate

(* A worker takes a completion from the port.                              *)
TakeCompletion(u) ==
  /\ Waits
  /\ late' = IF running THEN late ELSE late + 1
  /\ \/ Reject(u)
     \/ \E n \in Names, prime \in NextPrime(users.capacity) : CheckforUser(u, n, prime)
     \/ \E n \in Names : HandleClientMessage(u, n)
     \/ HandleBroadcast(u)
     \/ HandleList(u)
     \/ HandleLogout(u)
     \/ SendCompletes(u)
     \/ SendFails(u)
     \/ \E w \in Workers :
          LoseNew(u, w) \/ LoseNegotiated(u, w) \/ WaitAborted(u, w)

(* A worker goes on with the completion it has.                            *)
GoOn(u) ==
  /\ UNCHANGED late
  /\ \/ SetNegotiated(u)
     \/ CopyName(u)
     \/ RemoveNew(u)
     \/ LogoutRemove(u)
     \/ LogoutAborted(u)
     \/ \E w \in Workers :
          LockNewAborted(u, w) \/ RemoveLost(u, w)

Listen ==
  /\ UNCHANGED late
  /\ \/ \E u \in Users, s \in Sockets, prime \in NextPrime(newUsers.capacity),
          posted \in BOOLEAN : Accept(u, s, prime, posted)
     \/ ListenerStops
     \/ DestroyTables
     \/ GracefulShutdown

Next ==
  /\ ~broken
  /\ \/ Listen
     \/ listener # "stopped" /\ \E u \in Users : TakeCompletion(u) \/ GoOn(u)

Spec == Init /\ [][Next]_vars

----------------------------------------------------------------------------
(* Properties.                                                             *)

(* The guard on m_dwMaxClients is stricter than the load factor: the users *)
(* table never grows.  No rehash of the other table meets a key it         *)
(* refuses, which would free its array and leave the table without one.    *)
TablesKeepTheirSlots ==
  /\ users.capacity = HashTableInit(MaxClients).capacity
  /\ \A table \in {users, newUsers} :
       table.capacity > 0 /\ DOMAIN table.slots = 0 .. (table.capacity - 1)

(* m_wSize counts entries that were never inserted, and is set back by a   *)
(* rehash.  It is never below the number of entries, so the list of        *)
(* CreateList, whose buffer it sizes, has room for every name.             *)
SizeCoversEntries ==
  \A table \in {users, newUsers} : Cardinality(Entries(table)) <= table.size

(* Every entry is found under its own key, in whatever slot a rehash has   *)
(* put it: the user a logout, a lost connection or a chat looks up by that *)
(* key is the one stored.                                                  *)
EntriesAreFound ==
  \A table \in {users, newUsers} : \A e \in Entries(table) :
    HashTableReturnEntry(table, e.key) = e.data

(* While the server runs and no freed memory has been used, a table holds  *)
(* a freed user only if two workers handled that user (OnlyThread):        *)
(* whoever frees a user alone has taken it out of the one table it was in. *)
(* The end of the server cuts logins short and leaves users in both.       *)
StoredUsersAreLive ==
  running /\ ~broken =>
    \A u \in (StoredUsers(users) \cup StoredUsers(newUsers)) \cap freed :
      at[u]["second"] = "done"

(* A user is in both tables only while its login is moving it from one to  *)
(* the other, or after the end of the server cut that login short.         *)
InBothWhileMoving ==
  \A u \in StoredUsers(users) \cap StoredUsers(newUsers) :
    at[u]["first"] \in {"naming", "copying", "lockNew"} \/ shutdown

(* No more users are logged in than the server was started for, stored or  *)
(* not.                                                                    *)
ClientsWithinLimit ==
  broken \/ Cardinality({u \in Users \ freed : state[u] = "negotiated"}) <= MaxClients

(* s_worker.c:1209, on the loss of a user that is not negotiated: "This    *)
(* will be the only thread, user removed from new users hash table."       *)
OnlyThread ==
  \A u \in Users, w, other \in Workers :
    at[u][w] = "lockLost" /\ w # other => ~Busy(u, other)

(* IsPrime never turns down a prime, whatever its five bases: from any     *)
(* capacity of up to fifty slots that a server may start with, NextPrime   *)
(* finds a larger one and never skips a prime on the way.                  *)
Prime(w) == w > 1 /\ \A d \in 2 .. (w - 1) : w % d # 0
PrimesAreFound ==
  (\A u \in Users : state[u] = "none") =>
    \A w \in 1 .. 50 :
      /\ NextPrime(w) # {}
      /\ \A c \in NextPrime(w) : c > w /\ \A p \in (w + 1) .. (c - 1) : ~Prime(p)
=============================================================================
