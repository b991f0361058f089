# A verification development of ChatRoomWin

The chat room is a Windows server on an I/O completion port and two clients, one
for the command line and one with a window. This directory holds TLA+ models of
its concurrent parts, the TLC configurations that check them on small instances,
and machine-checked proofs of what the checks show in the small. Paths such as
`s_worker.c:1097` are under `src/chat_solution/server_application/` unless they
name another directory.

It covers the server from its start to its end (the listener, the pool, the lock of
the users table, the overlapped sends and receives of one user, its send queue and
the bytes of its packets, the hash tables and the life of the users in them) and the
threads of both clients. What is left is in the plan at the end.

## 1. Inventory

| Component | State it keeps | Operations | Talks to |
|---|---|---|---|
| Users table lock (`s_worker.c`) | `USERS_WRITE_MUTEX`, `USERS_READ_SEMAPHORE`, `m_plReaderCount`, `READERS_DONE_EVENT` of `USERS` | `UsersTableReaderStart`, `UsersTableReaderFinish`, `UsersTableWriter` and the release in its callers | every handler; `g_hShutdownEvent` |
| I/O of a user (`s_worker.c`, `s_message.c`) | of `USER`: send queue, `SEND_MUTEX`, `SEND_DONE_EVENT`, `m_plSendOccuring`, `m_plRecvOccuring`, `m_plBeingDestroyed`, the receive buffer | `ManageMsgQueueAdd`, `WorkerSendOP`, `ManageSendQueue`, `CheckSendQueue`, `WorkerRecvOP`, `WorkerPartialRecv`, `WorkerPartialSend`, `HandleClientShutdown`, `ClientShutdown` | the kernel, through the completion port; handlers of other users |
| Handlers (`s_worker.c`) | the users table and the table of new users; `m_wNegotiatedState`, the name | registration, message, list, broadcast, logout, and the broadcasts of a login and a logout | the lock, the table, the I/O of any user |
| Send queue (`Queue.c`) | linked nodes, a 16-bit size | push, pop, peek, pop and remove, destroy | I/O of a user |
| Hash table (`hashtable/`) | buckets that are linked lists, size, capacity | new, return, destroy entry, rehash at the load factor, destroy | handlers, listener |
| Linked list (`linkedlist/`) | a circular list, pointer to the tail, size | insert, remove, return, find, destroy | hash table |
| Listener and pool (`s_listen.c`) | listening socket, worker handles, table of new users | `ServerListen`, `CreateUser`, `ThreadSetUp`, `ThreadShutDown`, `ServerShutDown` | workers, through the port |
| Start and stop (`s_main.c`) | `g_bServerState`, `g_hShutdownEvent` | argument checks, `GracefulShutdown`, `CustomWaitForSingleObject` | everything that waits |
| Networking (`networking/`) | none | wrappers of Winsock, `NetAccept` | listener, clients |
| Message construction (`s_message.c`, `Messages.c`) | the three buffers of a `MSGHOLDER`, byte counts | `CreateMsg`, `AddMsgToQueue`, `ResetChatRecv`, byte order | send queue, I/O of a user |
| Command line client (`client_cli/`) | events between two threads, the socket | registration, `UserListen`, `ListenForChats`, packet send and receive | the server |
| Client with a window (`client_gui/`) | the same, the input box, `g_hInputReadyEvent`, the window | the same, `WndProc`, `InputBoxSubclassProc`, `GetAndAssign` | the server; its threads through the window's messages |
| Unit tests | none | tests of the list and the table | read as documentation |

How they interact. The worker threads all wait on one completion port. A
completion names a `USER` and an operation. A received packet runs a handler,
which takes the lock of the users table as a reader or as a writer and adds
messages to the send queues of one or several users; the first message added to
an idle queue is sent at once, and each completed send sends the next. A receive
is not armed again by the handler but by the completion of a send, normally that
of the answer. A completion without bytes means that the operation failed: of a
receive, it destroys the user under the write lock; of a send, it only ends the
sending.

What is hard here:

* every handler and completion of one user can run on several threads at once,
  with ownership passed around by three interlocked counters, one mutex and one
  event, none of them updated together;
* the reader/writer lock is built of a mutex, a semaphore, a counter and an
  auto-reset event, with several instructions between the decision and the deed;
* every wait may end because the server stops, and each early return must give
  back exactly what the thread holds;
* a send or receive can complete in part, fail later, or fail at once, and each
  of the three is handled in another place;
* a packet is three buffers whose addresses and lengths are computed anew after each
  part, in bytes, characters and 16-bit words;
* liveness: an answer must be on its way or a client is never heard again, and a
  shutdown must end every wait of every thread.

What makes each component correct: the lock admits many readers or one writer
and lets everyone through in the end; a user has one sender, one receiver and
one destroyer, and its stream is the messages in order; the handlers keep the two
tables and the state of each user in agreement, and never touch a freed user;
queue, list and table behave like a sequence and a map up to their size limits;
the listener and the pool start, stop and free everything once; the client's two
threads agree on whose turn it is.

## 2. Modules

| Module | What it is |
|---|---|
| `UsersAccess` | abstract: what a lock promises a table. `SharedSpec` and the stronger `ExclusiveSpec` |
| `UsersLock` | the lock as the code builds it; implements `UsersAccess!SharedSpec` |
| `UsersLockProofs` | the theorems about `UsersLock` |
| `MCUsersLock` | instances of `UsersLock` for TLC |
| `ClientStream` | abstract: what a client may see of the bytes sent to it |
| `UserIO` | sends, receives and the end of one user; implements `ClientStream!FairSpec` |
| `UserIOProofs` | theorems about `UserIO` whatever fails: the receive buffer, the one destroyer |
| `UserIOStreamProofs` | theorems about `UserIO` as long as no send fails and the connection lives: sends, event, queue, and that it implements `ClientStream!Spec` |
| `MCUserIO` | instances of `UserIO` for TLC |
| `HashTable` | the operations of the hash table over the lists, as operators |
| `UserTables` | the two tables and the life of users in them: listener, handlers, lost connections, end of the server; uses `HashTable` |
| `UserTablesProofs` | theorems about `UserTables`, and what the operators of `HashTable` do to a table that is in order |
| `MCUserTables` | instances of `UserTables` for TLC |
| `ClientSession` | the two threads of the command line client, their events and their socket |
| `ClientSessionProofs` | the theorems about `ClientSession` |
| `MsgQueue` | the send queue as linked nodes, as operators |
| `PacketParts` | packets that move in parts, byte by byte, both ways; uses `MsgQueue` |
| `PacketPartsProofs` | theorems about `PacketParts`, and what the operators of `MsgQueue` do to a list of nodes |
| `MCPacketParts` | instances of `PacketParts` for TLC |
| `GuiClient` | the three threads of the client with a window |
| `GuiClientProofs` | the theorems about `GuiClient` |
| `ServerLife` | the server from `wmain` to its return: listener, pool and shutdown |
| `ServerLifeProofs` | the theorems about `ServerLife` |

Operators marked `seeded fault` are variants of the definition that follows them,
with a plausible mistake in it. Each property of a passing run fails with one of
them in place of that definition, which shows that the property depends on the code.

### UsersLock

`Threads` are the workers and `MaxReaders` is `m_dwMaxClients`, with which the
semaphore is created. The variables are the four objects and the shutdown event;
`pc` is the place of a thread in one of the three functions. One action is one
kernel call or one interlocked instruction:

* `UsersTableReaderStart` is `ReaderStartLock`, `ReaderStartSemaphore`,
  `ReaderStartIncrement`, `ReaderStartReset`, `ReaderStartUnlock`;
* `UsersTableReaderFinish` is `ReaderFinishRelease`, `ReaderFinishCompare` (the
  compare-exchange), then `ReaderFinishSignal` or `ReaderFinishDecrement`;
* `UsersTableWriter` is `WriterLock`, `WriterCheck`, `WriterWait`; the release by
  `CheckforUser`, `HandleLogout` and `ClientShutdown` is `WriterRelease`, after
  which a logout or a removal goes on as a reader (`LogoutBroadcast`);
* `CustomWaitForSingleObject` is the second half of every wait:
  `WaitInterrupted` returns for the shutdown event when the object itself is not
  signalled (`WaitForMultipleObjects` prefers the lower index) and gives back the
  mutex where the code does. `Exit` is the packet `ThreadShutDown` posts.
* `ClientShutdownInterrupted` is the one return that does not: `ClientShutdown` waits
  for `SEND_DONE_EVENT` with the mutex in its hands and leaves it there when a shutdown
  ends that wait (`s_worker.c:1135-1141`). `leaked` says so: the mutex is still owned
  after its owner's last release. The owner passes its own mutex again (`CanLock`,
  `Release`), and when it has ended, Windows reports the next wait as abandoned: an
  error to the code, which thereby owns the mutex (`WaitAbandoned`).

`MutexExact` says where this can happen and what it can do: only in a server that stops,
and nobody writes the table from then on.

Not here: calls that fail only on an invalid handle; `LoginBroadcast`, which
walks the table without the lock.

### UserIO

One registered user. A message is its number in the order of acceptance and is
`MsgSize` units long, the first `HeaderSize` of them its header and two more for each of
the `LenOne` characters of its first body; a completion moves some of the units. `inflight` and
`recvs` are what the kernel works on, `completions` is the port, `wire` is what
left the server, and `requests` is what the client has still to send.

* `ManageMsgQueueAdd`: `AddPush` (mutex, push), then `AddDefers`, or `AddClaims`
  (the compare-exchange), `AddReset` (event, unlock), `AddSends` or
  `AddSendFails`;
* `WorkerSendOP`: `SendPartial`, `SendPartialFails`, `SendWhole` after the peek
  without the mutex; `Rest` is what `WorkerPartialSend` asks for, which inside the first
  body is too little, or less than nothing (`Wraps`), because `s_worker.c:205` takes
  bytes from characters; `ManageSendQueue` is `SendPop` and then `SendDecrement` and
  `SendSet`, or `SendNext` / `SendNextFails` (`CheckSendQueue`); `Rearm`,
  `RecvPosted`, `RecvPostFails` arm the receive; `SendGivesUp` and `QueueIsEmpty`
  are the error returns;
* `WorkerRecvOP`: `RecvPartial`, `RecvPartialFails`, `RecvWhole`, then a handler,
  of which `Answer` keeps the number of messages for this user (one, or two when
  the user is among the addressees) and `NoAnswer` the early return of
  `SendOtherClientMessage`; messages from other users' handlers are `Broadcast`;
* `HandleClientShutdown` and `ClientShutdown`: `EndSend`, `EndSendSet`, `EndRecv`,
  `CloseCheck`, `CloseWait`, `CloseFree`.

After `CLIENT_REMOVE_ERR` from `CheckSendQueue`, `WorkerThread` reads the kind of
operation from a message that was freed; `SendGivesUp` lets it find either kind.
A behaviour ends when the user is freed or the server stops.

Not here: a user that is not registered, the logout packet, which frees the user
without claiming it, the bytes inside a packet (`PacketParts`), failed allocations,
and what threads do with a freed user. The lock that `ClientShutdown` takes first is
`UsersLock`; here only the wait inside it counts. A receive is taken to fail at
once only on a lost connection.

`torn` is a history variable: it is set when `WorkerPartialSend` computes a rest inside a
first body, and never else. What goes wrong then is not only the bytes
(`PacketPartsPartialSend`). A rest of length zero completes without bytes, which
`WorkerThread` takes for a failed send: the message stays in the queue, nobody sends it,
and no completion arms the receive. So the properties about the order and the liveness of
the stream hold until `torn`, and `ClientStream` has the same variable: it promises
nothing of what follows a `Tear`.

Two things the module shows without a run of their own. After a send that failed at
once (`AddSendFails`) `m_plSendOccuring` stays 1 and `SEND_DONE_EVENT` reset: later
messages are queued for a sender that does not exist, although `s_message.c:152`
says that "another function is handling the sending of the queue", and a thread
that then destroys the user waits in `CloseWait` until the server stops, with the
write mutex of the users table in its hands. And every path that returns
`CLIENT_REMOVE_ERR` for a receive or a partial send also stops the server, although
`s_worker.c:1300` calls it an "error that requires client shutdown but not server
shutdown".

### HashTable and UserTables

A table is a record: `capacity`, `size` (`m_wSize`) and `slots`, which maps each
index to the sequence of entries there. Each function of `hashtable.c` is an operator
that returns the table and, where the code has one, the result code; a rehash takes
the next capacity as a parameter, since `NextPrime` is a set: `IsPrime` draws random
bases, so a composite number may pass it. A key is the sequence of its characters
and `Hash` a constant, so that a configuration can make keys collide. Two things of
the code matter to everything above it and are modelled as they are: an entry whose
slot already has a list is counted and not inserted (`hashtable.c:323`), and a
lookup takes the first stored key that begins with the one it looks for.

In `UserTables`, `users` and `newUsers` are the two tables; `state` is
`m_wNegotiatedState` and whether the memory was freed; `at` says where each of up to
two workers is with a user. `receiving` and `sending` are completions to come.

* the listener is `Accept` (`CreateUser`, the insertion, the first receive),
  `ListenerStops` and `DestroyTables` (`ServerShutDown` after all workers ended);
* a login is `Reject`, or `CheckforUser` (the insertion under the write lock), then
  `SetNegotiated`, `CopyName`, and `RemoveNew` under the mutex of new users;
* `HandleClientMessage`, `HandleBroadcast`, `HandleList`, `HandleLogout` are the
  packets of a negotiated user; `LogoutRemove` is the second half of a logout;
* `HandleClientShutdown` is `SendFails`, `LoseNew` and `RemoveLost`, and
  `LoseNegotiated` with `ClientShutdown`;
* `LockNewAborted`, `LogoutAborted`, `WaitAborted` are the waits that the shutdown
  event ends. `TakeCompletion` is the head of the loop of `WorkerThread`.

Once freed memory is used, or a table whose slots a failed rehash has freed (`Crash`),
a behaviour ends (`broken`). The first is that `UserFreeFunction` runs twice
for a user, or while a worker is in a handler of that user, or while an operation of
it is still to complete. Such behaviours exist: a name that is looked up may be the
beginning of another's (`LogoutRemove`), a login that was cut short leaves its user
in both tables (`DestroyTables`), and those `OnlyThread` describes. A section under
a lock is one step, which `UsersLock` shows is more than the code guarantees; so is
the unlocked walk of `LoginBroadcast`. That a send fails at once, and what becomes of
the packets of a user that is logged in, is `UserIO`. `CheckforUser` stops the server
for a taken name, as the code does: its answer for `DUPLICATE_KEY`, the packet of
README.md:75, comes after the return for every result but `SUCCESS`.

Not here: a login with an empty name, failed allocations, keys beyond `KEY_LENGTH`,
insertion in the middle of a list (`linkedlist/linkedlist.c:117` leaves out the node
it goes in front of; the server never asks for it).

### ClientSession

`pc` has the two threads: `"user"` is the main thread in `UserListen` and then
`wmain`, `"listener"` is `ListenForChats`. `signalled` holds the manual-reset
events (`READ_EVENT`, `ULISTEN_WAIT_FINISHED`, `ULISTEN_WAITING`, the shutdown
event) and `mutex` is `SOCKET_MUTEX`. A wait on several handles is one action that
prefers the lower index as `WaitForMultipleObjects` does; setting and resetting an
event is an action of its own. A packet is a unit of header and up to `BodyUnits`
units of body; `net` and `sock` are units on the way and in the receive buffer.
`Reenable` is how Winsock raises `FD_READ`: once, and not again before the next
receive, which raises it at once if it leaves data behind.

* `ListenForChats` is `ListenerLoop`, `ListenerWaitIdle`, `ListenerWaitRead`,
  `ListenerResetRead`, `ListenerWaitSocket`, the receive, `ListenerRelease`,
  `ListenerResetAgain`, `ListenerPrint`, and `ListenerFail`, `ListenerFailSignal`;
* `UserListen` is `UserLoop`, `UserSetWaiting` and one of `UserCommand`, `UserHelp`,
  `UserConsoleEnds`; the four commands share `UserWaitMutex` to `UserRelease` and
  differ in what they make of an error (`leaves`); a broadcast is a message here;
* `HandleSrvReturn` is `UserAnswerLoop` and `UserReceived`; `BlockingRecv` before
  each receive is `UserWaitRecv` or `UserTimeout` and the reset after it;
* `RecvHeader`, `RecvBody`, `SocketPeek`, `RecvNothing` are the receives of either
  thread (`ClientRecvPacket`, `ListenThreadRecvPacket`);
* `GracefulShutdown` is `CtrlStop` and `CtrlSignal`, on a thread of its own.

`torn` is a history variable: a packet was given up between two of its parts.
A chat whose body comes in two segments (`RecvBody`)
ends the user's request without its answer, because `HandleMsg` takes `E_UNEXPECTED`
for success, although `client_cli/c_user_input.c:106` keeps the mutex locked to
receive that answer; this is why the properties about answers have `~torn`.
External: the server, which answers each request once, in order, and sends chats
whenever it likes; the network. A failure packet ends a request as its answer
does and is not told from it.

Not here: the registration (`GuiClient` has that of the other client), a header that
comes in parts and the offsets into a partial body (`PacketParts`), a connection that ends (`FD_CLOSE` is not asked for, so no event
tells the client), and what the listener does with the arguments that `wmain`
frees: `MainJoins` ends the wait for the listener as soon as the shutdown event
is set, which `UserLeaveSignal` has done just before, although `c_main.c:264` says
that the main thread waits for its child.

### MsgQueue and PacketParts

A queue is a record of `head`, `tail`, `size` and the nodes, a function from
addresses to records of `data`, `prev` and `next`; messages enter at the head and the
oldest is the tail. Each function of `Queue.c` is an operator; `FreshAddress` is the
allocator. `size` counts modulo `WORD_RANGE`, 65536 in the code.

`PacketParts` is one connection used in one way. `toClient`: `ManageMsgQueueAdd`
queues the next message and starts a send if none goes on, `SendCompletes` moves any
number of bytes and runs `WorkerSendOP` (the rest by `WorkerPartialSend`, or
`ManageSendQueue`), `UserFree` ends the user; the client is `ClientRecvPacket` with
`RecvHeader` and `RecvBody`, whose `SocketPeek` may find that the rest is late.
`toServer`: the client's `SendPacket`, which sends once and does not look at how much
went, and `WorkerRecvOP` with `WorkerPartialRecv`. The data is bytes and each buffer
has its address and length, since what could go wrong is arithmetic: all reads and
writes go through `Gather` and `Scatter`, over the places three `WSABUF`s name, and
memory that was not written is zero. The characters of a message are numbers with
two different bytes, no two alike, so that any misplaced byte shows.

`excuses` is a history variable: it names what happened that the code does not
survive, and each property says which of these it excepts. There are six:
`bodyOneCut` (a send that stopped inside the first body, `s_worker.c:205`),
`headerSplit` (a header the server got in parts, `s_worker.c:118`), `lateSplit` (a
break in the second body at a client, `c_messages.c:418`), `torn` (a packet given up
because its rest was late), `shortSend` (a blocking send that sent less) and
`wrapped` (a message more than the size of the queue counts). Without one of them
every packet arrives as it was given, wherever it is cut. A behaviour ends at the
first wrong byte.

Not here: failed allocations, `QueuePop`, and the threads (`UserIO`, `ClientSession`).

### GuiClient

Three threads. The window's is `wpc`: `InitInstance`, then whatever messages come:
`Enter` (`InputBoxSubclassProc`, or the button), `CloseWindow` and `HandleDestroy`, and
`PollsShutdown`, the look `WndProc` takes at the shutdown event with each message. The
client's is `cpc`: `Connect`, the loop of `HandleRegistration` (`Register`,
`RegisterAccepted`, `RegisterRejected`, `RegisterFails`), `StartListener`, and
`UserListen` with the four commands, which differ in `Release`. `GetAndAssign` is
`WaitInput`, `ReadBox`, `ClearBox`, `ResetInput`, and `InputFails`; `HandleSrvReturn` is
`AnswerLoop` and the action of its name; `BlockingRecv` is `RecvWait` and `RecvReset`;
the end of `InitializeClient` is `WakeListener`, `Join`, `NetCleanup`,
`ClientShutdown`, `Exit`. The listener is `lpc`, as in `ClientSession`.

`SendMessageReturns` is a guard: what the client's threads show, and what they read
from and write to the input box, are messages that the window's thread must take. A
message box of the client's thread (`boxConnect`, `boxTimeout`, `boxReject`) waits for
the user in `Dismiss`. A packet is one unit: one that is given up in its middle leaves
a `garbage` packet behind. `args` is `pListenerArgs`; once it is freed the listener may
fail or crash (`ListenerUsesFreed`), and if the handle it would release was in it, it
leaves with `SOCKET_MUTEX`: the exception (`ListenerKeeps`) in what `TypeOK` says of the
mutex. `line`, `taken` and `racing` follow what was typed.

Not here: a text longer than the buffer of `GetAndAssign` (1023 characters), whose rest
the read leaves in the box and the clearing removes; the connection dialog, the texts, fonts and colours, `GetAndAppend` (unused),
the scrolling, and `pThreadConnInfo`, which `wWinMain` frees at its end while the
client's thread may still use it (the process ends there) and which is not initialised
if `NetSetUp` fails (`client_gui.c:102-104`). A line is shown in one step, so that a
chat may not come between the parts of an echo (`c_user_input.c:291-294`) as it may
in the code.

### ServerLife

`listener` is the main thread in `wmain`, `ThreadSetUp`, `ServerListen` and
`ServerShutDown`; `worker` is each thread of the pool in `WorkerThread`; `ctrl` is the
handler of the console. `serverState` and `shutdownEvent` are set apart, by different
threads, and sometimes only one of them; `seenState` is the parameter of `NetAccept`, a
copy. `keys` are the shutdown completions at the port.

* `wmain`: `IOCPSetUp`, `StartFails`, `ThreadSetUp` (one thread each),
  `ThreadsAreSetUp`, `ThreadSetUpFails`, `ThreadSetUpReturns`;
* `ServerListen`: `CreateUsers`, `ListenLoop`, `NetAccept`, and `NetAccepts`,
  `NetAcceptRetries`, `NetAcceptStops` or `NetAcceptFails`; then `CreateUser`,
  `NewMutexWait`, `HashTableNewEntry`, `FirstReceive` and their failures;
* `ServerShutDown`: the state, `ThreadShutDownPosts` (one key each), `ThreadShutDown`,
  `DestroyUsers`, `FreeTables`;
* `WorkerThread`: `WorkerLoop`, `TakeShutdown`, `TakeReceive`, then one of `Serve`,
  `CheckforUser`, `HandleLogout`, `HandleClientShutdown`, `RearmStops`, `ServeFails`; the
  waits inside them that a shutdown can meet, for `NEW_USERS_MUTEX`, for the lock, for
  `SEND_DONE_EVENT` without the lock (`HandleLogout`) and with it (`ClientShutdown`), with
  one action for each way out.

A completion is of a receive, or of the send a worker waits for (`TakeSend`): the
other sends are `UserIO`. The lock is one mutex here, held across a wait only by
`ClientShutdown`; `UsersLock` has the rest. What the tables hold is not here: which user a
removal finds by its name, whether it finds one, whether an insertion only counted, which
users are freed and by whom is `UserTables`, where two workers may have the same user. Here
each removal has its two ends, an entry and none (`RemoveNewUser`, `ClientLeaves`,
`LogoutLeaves`), since they lead to different waits. `negotiated` is what
`HandleClientShutdown` chooses by.

Not here: failures of `PostQueuedCompletionStatus` and of waits on valid handles, a
failed `HashTableNewEntry` of a login, which is `ServeFails`, the `OVERLAPPED` on the
stack of `ServerListen` (`s_listen.c:435`), and what `ServerListen` returns.

## 3. Runs

Passing:

| Run | Instance | What it shows |
|---|---|---|
| `UsersLock` | 4 threads, 2 readers at once, fair; 86,680 states | the mutex, the count and the semaphore agree with where the threads are, and a mutex that is kept is kept in a server that stops; an unwaiting writer is alone; nobody joins a writer; refinement of `SharedSpec`; a shutdown drains the pool |
| `UserIOLive` | 3 threads, 2 packets or a packet and a message from outside, headers of 2 units, a first body of 1 character, fair; 374,346 states | until a send stops inside a first body: event and counter agree, nothing stranded, never deaf, every packet arrives; refinement of `ClientStream!FairSpec`, which needs one sender and the right message booked |
| `ClientSession` | 1 chat, 1 request, bodies in 2 parts, fair; 200,396 states | the mutex is with who uses the socket; answers stay with the asker and no chat is lost unless a packet is torn; commands and the listener end |
| `UserTables` | 3 users, 3 names, 3 sockets, `MaxClients` 2, no late worker; 2,261,789 states | the types; no freed user stays in a table while the server runs unless two workers handled it; a user is in both tables only while it moves; never more clients than the server was started for |
| `UserTablesReuse` | 4 users, 3 names, 2 sockets, `MaxClients` 2, 1 late worker; 1,528,968 states | a table that grows keeps its array, and every entry is found under its key |
| `UserIOFaults` | 2 threads, a packet and a message or 4 messages, lost connection, 1 failed send, symmetry; 735,157 states | never a second receive into the buffer; one destroyer |
| `PacketParts` | 5 messages, bodies of 2 and 1, 0 and 0, 1 and 0, 0 and 1 characters, both ways, a queue of 4 values; 144,124 states | what was sent is the packets, what was read is what was given, but for six named events; the queue is a doubly linked list of what is to be sent |
| `GuiClient` | 2 texts typed, 1 chat, one rejection or one torn packet, a console, fair; 636,057 states | types, and the owner of the mutex in both directions; what is typed is taken once; an echo means an acknowledgement; a client that stops ends its threads |
| `ServerLife` | 2 workers, 2 connections, any failure anywhere, fair; 508,940 states | no worker is left when the port and the tables go; the mutex of the users table is kept for good only in a server that stops and whose event is signalled; a signalled shutdown ends the process unless `NetAccept` spins |

Why the bounds are enough. Three roles meet at each hazard of the lock: a thread
that leaves, one that comes in, and a writer; the fourth thread and a maximum of
two make the semaphore run out while the mutex is held. On a live connection at
most one send and one receive are in the kernel, so of the threads at work on a
user one is sending, one is handling a packet and one adds a message for another
client: three workers are the smallest instance with all of them at once, and
four messages make a queue of more than two. A message is four units in `UserIOLive`: two of
header and a first body of one character, so that what is left after the first unit is
computed right, after the second is one unit short, and after the third is zero. In
`UserIOFaults` it is one unit of header and two characters, the least for a length below
zero. `Split`
bounds which messages may be sent in parts (received packets always may): the
second one in `UserIOLive`, which a handler may send or the queue, the first one
in `UserIOFaults`. In `UserIOFaults` four messages are what it takes for two sends
to overlap after a failed one, which is how `QueueIsEmpty` is reached. The
symmetric run checks no liveness. In `ClientSession` the hazards need one chat and
one request that meet: the chat before, between and after the parts of the answer,
with a body that is whole or torn, the user at the prompt, waiting or leaving, and a
Ctrl+C anywhere. After a request the threads are back where they started; the only
thing a finished request can leave behind is what `AskerGetsAnswerUnlessTorn` says it
does not.

In `PacketParts` the five messages are the shapes of a header with two bodies, alone,
with the first only, with the second only, and one more than `WORD_RANGE - 1`, so that
the size wraps; a cut at each byte of each shape happens, in sends and in receives, and
lengths beyond one byte add nothing to the offsets. In `GuiClient` two texts are what it
takes for one to be typed while the other is read, one answers a rejection and one is a
command; one chat meets the command's answer. In `ServerLife` two workers are the one
that waits with the lock or the mutex in its hands and the one that waits for it, or the
one that could take the completion the other waits for; two connections make a client
that logs in while another is accepted, leaves, or is reset before it is accepted.

In `UserTables` the tables have two slots (`MIN_CAPACITY` is 2 in place of 7), so that
two entries collide and a third user makes a table count to its limits. Of the three
names one begins with another in the same slot and the third is alone in its slot;
the empty name, which a user has until its own is copied, shares the slot of the first
two. Three users at once are one that logs in, one that is logged in and one that
waits or leaves. The table of new users reaches its load factor of 1.5 only with a
fourth insertion, hence four users in `UserTablesReuse`, on two handles of which one is
used again; at the new capacity of three the handles no longer collide. `MaxLate` bounds
the workers that were waiting for a completion when the server stopped: each takes
one more. A second worker of a user is the most there can be, one for a receive and one
for a send. Users are symmetric and
no liveness is checked.

Refuted, each against a sentence of the repository:

| Run | The sentence | What happens |
|---|---|---|
| `UsersLockWriterIsAlone` | README.md:14, `s_worker.c:73`: one writer at a time, no more readers | a reader sets the count to 0 and is preempted before `SetEvent`; another reader comes in and a writer waits; the late signal lets the writer in |
| `PacketPartsPartialSend` | `s_shared.h:240-242`: the server handles partial sends | a send stops inside the first body, and its rest is as long as its characters and not as its bytes |
| `ServerLifeAccept` | `networking.h:214`: the handle is an event that signals when to stop accepting | a connection is gone before `WSAAccept`, the accept event stays signalled, and the wait never looks at the second handle |

Refuted in the same way, stated in the modules and not among the runs. To see one, put
the property in place of those of the configuration that is named, with its constants:

| Property | Where | The sentence, or what one may expect | What happens |
|---|---|---|---|
| `LastReaderWakesWriter` | `UsersLock`, `UsersLock.cfg` | `s_worker.c:434`: the last reader sends the signal | two readers both see the count 2 and both decrement; the waiting writer holds the mutex for ever |
| `WaitEndsWithSends` | `UserIO`, `UserIOFaults.cfg` | `s_worker.c:1132`: waiting for `m_plSendOccuring` to go to zero | the wait falls between the claim of a send and the reset of the event |
| `LostClientIsDestroyed` | `UserIO`, `UserIOFaults.cfg` with `FairSpec`, no symmetry | `s_worker.c:1173`: at least one receive will come through | the connection is lost while the answer is being sent and no receive is armed |
| `OnlyThread` | `UserTables`, `UserTables.cfg` | `s_worker.c:1209`: this will be the only thread | a login has put its user in the users table; another worker sends to it, the send fails, and its completion destroys the user while the login goes on |
| `ArrivedIsPrinted` | `ClientSession`, `ClientSession.cfg` with 2 chats, no request | `client_cli/c_srv_listen.c:63`: while the client is running it listens and prints | two chats arrive together; the receive of the first signals the event for the second and the listener resets it |
| `PartialReceiveIsWhole` | `PacketParts`, `PacketParts.cfg` | `s_shared.h:240-242`: the server handles partial receives | the lengths are read through a pointer that the first part of the header moved |
| `WaitsForListener` | `GuiClient`, `GuiClient.cfg` | `client_gui/c_main.c:316`: wait for the child thread | the wait also ends by the shutdown event, which has just been set |
| `DestroyedWindowQuits` | `GuiClient`, `GuiClient.cfg` | `client_gui/client_gui.c:287`: post a quit message | the shutdown event is looked at first, and the message loop goes on without a window |
| `NameIsWhole` | `GuiClient`, `GuiClient.cfg` | the name that is typed is sent | each retry is two characters shorter than the rejected name |
| `StateStopsServer` | `ServerLife`, `ServerLife.cfg` | a server whose state is `STOP` ends | a receive that cannot be armed sets the state alone, and `NetAccept` has a copy |
| `NeverCrashes` | `ServerLife`, `ServerLife.cfg` | the server ends in order | `CreateUsers` fails and `ServerShutDown` dereferences its result |

`OneSender`, `BookedMessageWasSent`, `SizeCoversEntries` and `PrimesAreFound` hold and are
not among the runs: the first two are proved and follow from the refinement, the others
say little of the server.

Fairness. `UsersLock!FairSpec` and `UserIO!FairSpec` give each worker weak
fairness for its own steps: the scheduler runs every thread that can run, and a
handler's visit to the table is a bounded piece of code. The kernel completes
what it was given, and completions at the port are taken while some worker is
idle. No fairness is assumed of clients, of other users' handlers, of the
shutdown, of the loss of a connection, nor strong fairness for a mutex, which
Windows does not promise. `ClientSession!FairSpec` lets both threads and the control
handler run and what was sent arrive; a timeout is a step of the user's thread, since
time passes. The user may stay at the prompt for ever, and the server silent.

`GuiClient!FairSpec` lets the client's thread and the listener run and the user dismiss a
message box that is before him; a window whose creation or destruction began is made or
destroyed, but no message has to come to it, the server owes no answer and nobody has
to type. A wait for an answer ends by its timeout. `ServerLife!FairSpec` lets the
listener, each worker and the console's handler run; nothing is assumed of clients,
of failures or of the completion of a send, whose peer may never read: that is why a
shutdown must end the wait for it.

`UserTables` and `PacketParts` claim safety only and have none.

`CHECK_DEADLOCK FALSE` everywhere: all workers have exited, or the client has
nothing left to send and the user is idle, freed or the server stopped.

## 4. Proofs

`UsersLockProofs` proves, for every finite set of threads and every positive
maximum of readers (`ThreadsAssumption`, `MaxReadersAssumption`), the invariants
`TypeOK`, `MutexExact`, `CountExact`, `SemaphoreExact`, the action properties
`UnwaitingWriterIsAlone` and `NoReaderJoinsWriter`, and `LockRefinesAccess`: the
lock implements `UsersAccess!SharedSpec`.

The argument. `IInv` joins the four invariants and `KeeperLeaves`. That the mutex, once kept,
never lets a writer in needs to know that its keeper only has the broadcast of the
departure before it, and ends (`KeeperLeaves`), and that whoever inherits it ends or does
the same. None is inductive alone: that the
counter stays a natural number needs the count to be exact when a reader takes
itself off; that the count is exact needs the compare-exchange and the decrement
to be the last step of a thread still in `Counted`; that the semaphore stays in
its range needs `SemaphoreExact`, and that an exact semaphore has room for one
more unit needs the reader that gives it back. Each step moves one thread
between locations, and three lemmas (`MoveCardinality`, `MoveCounted`,
`MoveAdmitted`) say what that does to the number of threads in a set of locations.
For the refinement, `writer` is the thread at `writing`, unique because only the
owner of the mutex is there, and `readers` the threads at `reading`; a step of the
code is a step of `SharedSpec` or leaves both alone. `WriterIsAlone`, which the
run refutes, is exactly what `ExclusiveSpec` has and `SharedSpec` has not.

`ServerLifeProofs` proves, for every finite set of workers that is not empty and any set
of connections (`LifeAssumption`), `TypeOK`, `TablesOutliveWorkers` and
`LockIsLostOnlyAtStop` of `ServerLife`. `TypeOK` needs `KeysArePosted`: no key is in the
port before `ThreadSetUpFails` or `ThreadShutDown` posts them. `TablesOutliveWorkers`
follows from `ClosedLate`: after `ThreadShutDown` the listener is at `destroyUsers` or
later, every worker has ended, and an ended worker takes no step. `LockIsLostOnlyAtStop` is
inductive with the types: the only step that leaves `leave` or `sendDone` with the mutex is
`ClientShutdownInterrupted`, which sees the event and sets the state, and neither is ever
taken back. The module has one step for each action, with steps below it where more than
one leaf is needed.

`UserIOProofs` proves, for every set of threads and every number of messages, with
failing sends, lost connections and the end of the server, `OneReceiver` and
`OneCloser`. Both are sums: the receives in the kernel, at the port and in threads are
at most `m_plRecvOccuring` (`ReceiveOnce`), the threads in `ClientShutdown` at most
`DESTROYING` (`CloseOnce`). A step of one thread changes the number of threads at a set
of places by its leaving and entering (`AtMoves`), and a completion the number of
those at the port (`ArrivedAdd`, `ArrivedTake`), so that most steps are an addition.
The part that is not obvious is that the ranges do not run out: `Budget` counts every
message that was pushed or may still come, where a packet that has arrived whole and
that no thread has taken (`Due`) may become two, and that a packet is whole at most once
needs `ReceiveOnce`.

`UserIOStreamProofs` proves the rest, `TypeOK`, `OneSender`, `BookedMessageWasSent`,
`DoneMeansNotSending`, `NothingStranded`, `NeverDeaf` and the refinement of
`ClientStream!Spec`, until `torn` and under `Faultless`: no send fails at once and the connection is not
lost (`NeverDeaf` also wants no failing sends to others, `~PeerFaults`). That is not
convenience: with the constants of `UserIOFaults` TLC violates each of the first six,
because `WorkerSendOP` books a completion on the head of the queue, whichever
message was sent (the case of `AddSendFails` above). `SendOnce` counts the sends like the
receives, now exactly; `SetWhenNeeded` ties the event to the counter but for the two
places between their updates; `Streamed` says, for each place where the one send
may be, how far the stream is ahead of what is booked (`Out`), and that the message
it is of is the oldest; `Hears` finds, when no receive is armed, the send or the thread
that will lead to one. The refinement takes the number of messages pushed for
`accepted` and `wire` for the stream: `AddPush` is `Accept`, `SendCompletes`
is `Transmit`, a rest computed in a first body is `Tear` and what is sent after it
`TransmitTorn`; every other step leaves all three alone. The theorem is `SendsWholeStream`
without its fairness.

`ClientSessionProofs` proves `TypeOK`, `SocketOwner`, `AskerGetsAnswerUnlessTorn` and
`NoChatIsLost` for every number of chats and requests and every length of a body. The
last two look at the socket and the network as one stream. `Aligned` says that it is
what is left of the packet a thread is in, then whole packets, so that the next header
a thread reads is one; `OneAnswer`, that there is at most one answer in it, and none
unless the user's thread is at a place where it waits for one with the mutex: the
listener, which needs the mutex to read, cannot meet it. This part holds while the
client works and nothing is torn; after that, only `Basic`.

`GuiClientProofs` proves `TypeOK`, with `Owners`, who has the mutex where, `EchoMeansAcked` and the action property
`TypedIsTakenOnce`, for every number of texts and chats and every length of a name.
`EchoInv` follows the acknowledgement from the receive to the echo, where the one
packet of no kind a receive may succeed with comes from a torn one (`GarbageIn`).
`TextKept` says that what was taken and what is still unread in the box are together in
the order of typing, and that nothing is missing but what was typed between the read
and the clearing.

`UserTablesProofs` proves, for every hash function, limit, set of users, names and
sockets (`HashTableAssumption`, `UserTablesAssumption`), and whatever `NextPrime`
returns, `TypeOK`, `ClientsWithinLimit`, `InBothWhileMoving`, `StoredUsersAreLive` and
`EntriesAreFound`, and, under one hypothesis about `NextPrime`, `TablesKeepTheirSlots`. Two
layers:

* The hash table. A table is `WellFormed` when it has a slot for every index, at most
  one entry in each, and each entry in the slot of its key: no more is needed, because
  the code never inserts into a list that is not empty. `NewEntry` and `LookupAndRemove`
  say what an insertion, a lookup and a removal do to such a table, `ReHash` that a
  rehash gives one back, without an entry that was not there, or loses the slots.
  The loops of a rehash are recursive functions, and the library's induction theorems
  cannot be instantiated here; `InductionOnNat` gets induction for a set of numbers from
  `NatLessThanWellFounded` and `WFMin`, which take no operator; `FlattenSteps` and
  `InsertSteps` use it to say what each round of `FlattenSeq` and `HashTableListToTable` does.
  A rehash gives up, and leaves the table without an array, when there is no larger prime or
  an entry is refused. The second cannot happen to keys of one length, such as the socket
  handles: the list of a table comes in the order of its slots (`FlattenInOrder`), so it has
  no key twice (`ListHasKeysOnce`), and an entry is refused only for one it begins with
  (`RefusedForDuplicate`, `NoneIsRefused`, `ReHashKeepsSlots`). The first is the hypothesis of
  `SlotsAreKept`, `GrowsToPrimes`: from every capacity that may still grow, `NextPrime` does
  not return 0. It is Bertrand's postulate with the fact that `IsPrime` turns down no
  prime, and TLC finds it true from the capacities up to fifty (`PrimesAreFound`); it is a fact of
  arithmetic and says nothing of the server.
* The server. `ServerInv` has `TypeOK`, `TablesOK`, `InBothWhileMoving` and, until memory
  is misused, `Sound`. None of the properties is inductive. That a user who leaves is the
  one found in its table needs `KeysAreSockets` and `KeysAreNames`, every live user is
  stored under what it has now, and `SocketsDiffer`; that it is not in the other table as
  well needs `UsersAreIn` and `NewAreNew`, which tie membership to the negotiated state
  and to the worker's place; that no worker finds it freed meanwhile needs `FreedIsIdle`
  and `BusyState`. `Limit` says that `m_wSize` counts at least the users that were let in
  (`LetIn`), which is what makes the test of `CheckforUser` a limit: the count may be
  higher than the entries, so a removal must not take it below them. It is also why the
  users table is always below its load factor (`UsersTableNeverGrows`). Most steps move
  one worker and leave the rest alone (`MoveStep`, with the moves allowed in `LegalMove`);
  those that free a user share `FreeStep`.

`PacketPartsProofs` proves `TypeOK`, `QueueIsList`, `StreamIsPackets` and `PacketsAreRead`
of `PacketParts`, for every range of the size of a queue above one, either way of the connection and every list of messages
within the bounds of that module (`PacketPartsAssumption`: up to seven messages with
bodies of up to three characters, so that each character has bytes of its own). In
layers again:

* The queue. `IsList` says that the nodes at some addresses are a list with given data;
  other nodes may exist, because a size that came to zero by counting beyond its range
  leaves nodes behind. `PushList` and `PopList` say what the operations do to such a
  list, and `FollowList`, by the same induction on numbers as in `UserTablesProofs`, that
  following the links of a list with no other nodes finds it in both directions, from
  which come `WellLinked`, the data in order (`WholeListIsWellLinked`) and that a destroy
  frees all of it (`DestroyList`). These five hold for lists of any length the size can count.
* The connection. `TypeInv` strengthens `TypeOK` by what each difference of lengths
  needs to be a natural number: a `MSGHOLDER` keeps the length it was made with; a
  client whose buffers are for bodies counts to the length in its header, and that
  header cannot change under it, since its buffer is empty (`BodyInv`); a receive never
  brings more than the buffers have room for (`ScatterType`, `MovedType`). `QueueIsList`
  counts the messages sent, and is not inductive: `Waiting` finds one number, such that
  the messages up to it were sent whole, the others are the list, and the one after it is
  the message that is being sent. So the tail of the queue, on which `WorkerSendOP` books
  a send, is the message that was sent: here, where the server takes whole turns.
  `UserIO` has the interleavings.
* What is sent. `Place` says where a byte of a packet lies in the three memories of a
  message, and `Names`, that three buffers name the places of a part of it.
  `RestBufs` gives the three forms the buffers have while a packet moves (in the header,
  in the first body, in the second): `WorkerPartialSend` leads from one of them to another,
  except when the send stops inside the first body, the break the run
  `PacketPartsPartialSend` is about. `WiredInv` then says that the first messages were sent
  whole, that what the connection carries ends with the sent part of the next one, and that
  the buffers of that one name the rest; those behind it are untouched. It needs `QueueInv` for which message a completion is booked on.
  `SentInv` keeps what `WiredInv` says of the connection after the user is freed. For the
  other way, `RequestInv`: a client sends its next request only after the answer to the last,
  and what the server read right holds the last byte of that request (`TakenLast`), so all of
  it was on the connection (`AllHadCome`): a short send leaves a client without an answer, not
  a hole in the stream.
* What is read. `CameInv` says, while none of the breaks has come, that each packet handled was
  read as it was given, and that there is a number `p` such that `p` bytes of the next one
  were read and lie where they belong (`Holds`), with the buffers at the rest of it (`Reads`).
  Scattering bytes into buffers puts each in its place and spares the others (`ScatterHolds`,
  which rests on `PlaceOnce`: no two bytes have one place). The client and the server
  go through different code, the one in two phases that count the bodies alone, the other in
  one that counts the packet: both are `Reads`. When a receive completes the packet, the
  memories are those of the message, and their conversion to the order of the host gives
  its characters. With `AskedInv` (a request that was not short is wholly on the
  connection) and `WiredInv`, nothing that was accepted is unread once all was read.

Every invariant and every action property of a passing run is a theorem,
`TablesKeepTheirSlots` under its hypothesis. Only model-checked are the liveness properties
(`ShutdownDrains`, `EveryRequestArrives`, the fairness part of `SendsWholeStream`,
`ListenerEnds`, `CommandEnds`, `ThreadsEnd`, `ShutdownEnds`), since the prover does not treat
fairness and `ENABLED`. The hypothesis, `GrowsToPrimes`, is not proved: that is number theory.

## 5. Plan

`GrowsToPrimes` for the capacities a `WORD` can hold: a list of primes, each less than twice
the one before, with a proof that `IsPrime` accepts each. Every step of it is a computation
that the provers do not do.

## 6. Not modelled

* The walk of `LoginBroadcast` over the users table without the lock: the tables are
  read and written in one step each, and a model of the nodes under a walk would be
  one of freed memory.
* Failed allocations after the start, and failures of calls on valid handles.
* The windows: dialog, drawing, fonts, colours, scrolling; console output; the texts of
  messages; which arguments are valid.
* `NetSetUp`, `NetListen` and `NetConnect`: sequences of Winsock calls, each of which
  works or ends the sequence.
* The unit tests, which are read as documentation of what list and table promise, the
  functions nothing calls (`QueuePop`, `GetAndAppend`), and the
  generated project files.
