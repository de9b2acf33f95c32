# A verification project for the client-server chat room

The program is a chat server and a chat client for Windows, written in C++ in
header files (`src/server`, `src/client`).  Up to eight clients log in under a
name, chat, whisper, list each other, leave, and offer each other files; the
person at the server's console takes part under a name too and ends the session
with `/end`.  The files themselves travel between the two parties directly.

This directory holds TLA+ modules that model the server, the client, their
composition and the transfer of a file, the TLC configurations that check them on
small instances, and theorems that TLAPS checks for every value of the constants.  `PROJECT.json` maps each definition to
the lines it was translated from.

## 1. The system

| component | state | operations | talks to |
|---|---|---|---|
| thread pool (`ThreadPool.h`, the same in both programs) | workers, task queue, `stop`, one condition variable | `pushTask`, `getTask` (the workers' loop), destructor | everything that runs |
| `User` (`User.h`) | username, socket, key, `isTransfering`, promise and future of the transfer decision | setters, `signalStartOfTransfer`, `signalEndOfTransfer`, `wait_completeTransfer`, `setTransferDecision`, `awaitDecision` | shared by the threads of both parties of a transfer |
| `Server` (`Server.h`) | `users` under `usersMutex`, the sockets | add, remove, find, broadcast, send, receive, key exchange, accept | all threads |
| chat room: accepting | the acceptor's stack | `getConnections`: select, accept, key exchange, register, ask for a name, push the handler | pool, registry |
| chat room: relay | one stack per handler, `shouldQuit` | `handleClient`, `sendMessageLoop`, the commands, broadcasts | registry, users |
| chat room: negotiation | the two Users' flags and the recipient's promise | `fileTransfer` | two Users, two sockets |
| chat room: start and shutdown | `shouldQuit`, `shutdownCondition` | `run_chat_room`, `/end`, destructors | pool, main thread |
| client chat room (`ClientChatRoom.h`) | four flags, two condition variables, two threads | `login`, send loop, receive loop, transfer hand-over | server, file transfer |
| client connection (`Client.h`) | socket, keys | connect, key exchange, send, receive | server |
| file transfer (`FileTransfer.h`, two copies of the same code) | sockets, keys, buffers | `upload`, `download`, `saveFile` | the other party |
| utilities (`Util.h`, two copies) | none | parsing, integer conversion, libsodium | all |

How they interact: every thread is a task of the pool.  Task one is the
acceptor; task two reads the host's keyboard; each client that logged in gets a
task that lasts until the client leaves.  All of them share the vector of users
under one mutex, but reach into the `User` objects through raw pointers outside
it.  A file transfer is negotiated in the *uploader's* thread: it raises a flag on
both Users, asks the recipient, and sleeps on the recipient's future; the
recipient's *own* thread sees its flag, turns the next line it reads into the
decision and parks until the flag is lowered.  In the client two threads share
the connection: one reads the keyboard and sends, the other receives and prints.
During a transfer they swap roles, the first taking the user's line for an answer,
the second the server's next message for a verdict, and one of the two leads the
transfer while the other waits for it to end.

What is hard here, and hardly reached by a test:

* a name is checked, answered and set in three steps, and a User is registered
  before it has a name;
* every look-up returns a raw pointer or a socket handle that is used after the
  mutex is released, while `/quit` destroys Users and lets handles be reused;
* broadcasts run by index over a vector others erase from;
* the two threads of a negotiation share flags and a one-shot promise, several
  negotiations can overlap on one recipient, and any step of them can throw;
* `/end` reaches threads blocked in `recv` only by making their clients hang up;
* `recv` knows no packet boundaries, neither in the chat nor in a transfer, whose
  two ends count headers differently (one before every `send`, one before every
  `recv`);
* the client's threads agree by four flags that are set outside the mutexes their
  waits use;
* a file's size crosses the network as a signed 32-bit integer, and whatever cannot
  be decrypted is an empty vector that somebody indexes or converts;
* the pool is bounded, and a client occupies a worker for its whole stay.

What makes each component correct: the pool loses no task and no wake-up, runs
each task once, and its destructor reaches every worker; the registry never
holds a destroyed User, a User twice, two Users with one name or a User whose
socket leads elsewhere; only the owner's `/quit` removes a User; broadcasts
arrive everywhere and in one order; whatever happens in a negotiation, both
flags are lowered, the future serves one uploader, and no consent is left
over; each line is dealt with to the end; `/end` ends everything.  The client: it
never answers for its user, its threads never read one socket at once nor sleep
until the other wakes them up, what it sends is what the server expects of a client,
and it closes the connection when it has to.  The transfer: nobody keeps anything but
the file that was offered, nobody is told of a success that was none, and without
trouble on the way the file arrives.  Section 3 says which of these the code keeps
only with exceptions.

## 2. The modules

| module | models | extends |
|---|---|---|
| `TaskPool` | what a pool promises: FIFO start, at most Size at a time, none after closing | |
| `ThreadPool` | `ThreadPool.h` at the grain of its lock, wait and notify operations | |
| `ThreadPoolProofs` | its theorems, and that it implements `TaskPool` | `ThreadPool` |
| `User` | the members of a `User` and its member functions | |
| `Server` | registry, sockets, delivery, encryption by effect | `User` |
| `Threads` | program counters, locals, initial state, the type invariant | `Server` |
| `Peers` | the participants as the server sees them, with the client's `login` | `Threads` |
| `Login` | `getConnections` | `Threads` |
| `Broadcast` | what the broadcasts promise: one message at a time, to everybody once, in a room nobody enters or leaves meanwhile | |
| `Relay` | `handleClient`, `sendMessageLoop`, commands, broadcasts | `Threads` |
| `Transfer` | `fileTransfer` | `Relay` |
| `ChatRoom` | the composition, shutdown, what the run time does, all properties; refines `TaskPool` and `Broadcast` | the above |
| `ChatRoomTypes` | what each step of `ChatRoom` keeps well typed, and what it leaves alone | `ChatRoom` |
| `ChatRoomProofs` | the inductive invariant and the theorems about the registry | `ChatRoomTypes` |
| `TransferProofs` | the theorems about the transfer flags, the future, the decision and the approvals | `ChatRoomProofs` |
| `RelayProofs` | the theorems about broadcasts and goodbyes, that the broadcasts implement `Broadcast` and the server's tasks `TaskPool` | `TransferProofs` |
| `ClientChatRoom` | the client after its login: two loops, two transfer functions, the main thread | `Peers` |
| `ChatSystem` | server and clients together, with the properties of both | `ChatRoom`, `ClientChatRoom` |
| `ChatSystemProofs` | that the whole program implements `ChatRoom`, and the theorems about the client's threads | `ChatSystem`, `RelayProofs` |
| `Util` | integer conversions and the parsing of commands | |
| `UtilProofs` | that the conversions are inverse to each other | `Util` |
| `FileDelivery` | what a file transfer promises its two ends | |
| `FileTransfer` | `upload` and `download` over a byte stream; refines `FileDelivery` | `Util` |
| `FileTransferProofs` | that it does, and the theorems about terminated processes and fair weather | `FileTransfer`, `UtilProofs` |
| `MCThreadPool`, `MCChatRoom`, `MCChatSystem`, `MCFileTransfer` | the instances for TLC | |

### How state and actions correspond to the code

Threads are named by the participant they serve (`Users`), plus `Acceptor` and
`Main`.  `pc[t]` is where a thread is; `msg[t]`, `target[t]` and `idx[t]` are the
locals that survive from one step to the next: the line in hand, the pointer or
handle looked up, and the index of the broadcast loop.  Each action is one
critical section, one blocking call, or one access to something other threads
touch without a lock; a broadcast is one action per entry, with `usersMutex`
held from its first to its last step, because another thread can act in between
on everything except the vector.

* `users`, `usersMutex`: the vector and its mutex.  Functions that lock, act and
  unlock are one action guarded by `Unlocked`.
* `freed`: Users destroyed by `erase` or by a failed key exchange.  The model
  keeps the last contents of their members: that is what a thread reads through
  a stale pointer if it survives; `UseAfterFree` is the other outcome.
* `sock`, `peer`: a User keeps its socket handle as a number; `peer` says whom
  the open handle leads to now.  `closesocket` frees a handle and `accept` may
  return it again.
* `inbox`, `outbox`: bytes under way.  A `recv` takes the first k packets, for
  any k there are: only k = 1 can be decrypted, several packets at once come out
  empty (`Opened`), as does a packet sealed with another client's key.
* `isTransfering`, `decision`, `futureTaken`: a User's flag, promise and future.
  `get()` moves the future out before it blocks, hence `AwaitDecision` and
  `Decided` are two steps and a second `get()` throws.
* `taskQueue`, `StartTask`: the pool as `TaskPool` has it; that `ThreadPool.h` is
  such a pool is the theorem `ThreadPoolProofs!Refines`, and that the server stays
  within the pool's contract is `RunsOnPool`, the theorem `ThreadsOnPool`.
* `crashed`: the process has been terminated: an exception no one catches
  (`LoginLost`, the host's case of `DecideThrows`), a use of a destroyed User
  (`UseAfterFree`), or `"..." + GetLastError()` (`BadErrorText`).  The last two
  are undefined behaviour: the step may also go on.

The client (`ClientChatRoom`): `at[c][t]` is where thread `t` ("send", "recv" or
"main") of client `c` is, and each action is one access to a flag, one call on the
socket, or one operation on a mutex or condition variable.

* A mutex is held by whoever is at a place inside its section (`InTransfer`,
  `InCompletion`).  A wait tests its flag at `check`, gives up the mutex when it
  falls asleep, and comes back through `woken`, where it needs the mutex again.
  Between the test and the sleep the thread is at `blocking`: a notification that
  comes then, from a thread that set the flag without the mutex, is lost.
* Threads in `Restless` may wake up by themselves, as the standard allows; in the
  runs with a client both of its threads may, so that no property relies on a
  wait that returns only when notified.
* `line` and `message` are the locals of the two loops, `heard` counts what has
  been taken from `outbox`.  `typed` bounds the keyboard.
* `answer` and `mishap` are observations: what the user's line said when it was
  taken for an answer, and that something came too early, too late or together
  with something else, or that a transfer began with a flag left over from the one
  before, so that the threads are out of step with the server.
* `uploadFile` and `downloadFile` are `FetchInfo` (the peer's key and address) and
  `TransferReturns`; what lies between is `FileTransfer`.

`ChatSystem` puts these threads in the place of `Peers`: `ServerProgram` is the
`Next` of `ChatRoom` without the clients' steps, and `PeersSuffice` says that the
system's steps are steps of `ChatRoom`, so that every safety property of the server
holds with the real clients too; for any number of them this is the theorem
`SystemImplements`.

The transfer (`FileTransfer`): `pc["up"]` is in `upload` and `pc["down"]` in
`download`, on two machines.  The stream is a sequence of units, and `recv` takes any
number of them up to the size it asks for.  A key, a header or a size opens only if
exactly its units have been read at once; the file opens if its units arrived in
order without anything between them.  `link` is the connection (which may be made
while nobody accepts it yet), `open` who has not closed it, `want` and `got` the
downloader's size and buffer, `left` what the uploader has not sent.  `Die` is an
index into an empty vector (`recvHeader`) or an encryption with an empty key.
`Told` maps a `TransferStatus` to what the two users are told.

`Util` computes with bytes of `Base` values; 256 in the program, 2 for TLC, where a
word has 16 values and the largest file is a byte longer than a word can count.

### Abstractions

* Text: a line is a record of its kind, the name in it and a number that makes
  it unique; rosters, formats, logging and colours are left out.  Lines whose
  only effect is a message on the console are left out.
* The test of `inFileTransfer` that follows a `recv` is part of the receiving
  step: nothing the thread does lies between them.  The sends of
  `sendTransferInfo` are one step, as are the two tests of the catch block.
* The key exchange succeeds, fails as a whole, or never ends: `send_pk` stores the
  `SOCKET_ERROR` of a client that has gone in a `size_t` and counts it as bytes sent, so
  that its loop goes on (`Server.h:290-297`).  Hence nothing obliges `HandshakeFails` to
  happen.  `accept` does not fail.  A packet arrives whole or not at all.
* The race on the `std::string` username between `setUsername` and the look-ups
  is modelled as an atomic write; a torn string is not represented.
* A host's own part in a file transfer (`uploadFile`, `downloadFile`) is the place
  "stream" of the server's thread, which may leave it or stay there for ever;
  `FileTransfer` has its inside, with the same code in both programs.
* The host's answer is a yes if its line contains a "y" (`ChatRoom.h:308`), whatever
  the line would be otherwise; such a line is of kind "yes" here.
* Lines have one kind each.  The program looks for commands anywhere in a message,
  so the models assume that chat lines and names do not contain any (a chat line
  with `/end` in it closes all other clients, a name with `/quit` in it removes its
  owner).
* The client's answer `$No` is a chat line to the server, which takes anything but
  `$Yes` for a no.
* The packets of `sendTransferInfo` are one message; that a client reads them in
  parts, or something else in their place, shows in `FileTransfer` as `keys` that
  are missing or differ.
* Memory suffices for a file that can be announced (`Resize` throws for the 4 GB
  buffer of `Misread` alone).  Contents are given by their length.
* A client connects at most once; `out` clients need not connect.

## 3. What is checked

Every instance bounds what participants do, not what the server does: `Quota`
is how many lines a participant sends, `Says` which ones it chooses from,
`Handles` the values `accept` may return, `PoolSize` the number of workers,
`MayDrop` whose connection may break, `Late` who is not yet connected at the
start, `MainAt` where the main thread is then.  Loops of the server are bounded
by these alone.  `CHECK_DEADLOCK` is off because the system may stop: people
fall silent, quotas are used up, and the process may terminate.

`MCLogin` starts from the program's own initial state.  The other server runs
start from `ServingInit`, the state in which everybody has logged in, the
handlers wait in `recv` and nobody has said anything; it is reachable from the
initial state by logging everybody in (the answers having been read), and starting
there leaves TLC the depth for what the run is about.

| run | instance | checks | shows |
|---|---|---|---|
| `pool` | 3 workers, 4 tasks, tasks push tasks, one never returns | `TypeOK`, `EachTaskInOnePlace`, `NoLostWakeup`, `DestructorReachesAll`, `ImplementsTaskPool`, `EventuallyStarted`, `DestructorReturns` | more tasks than workers, sleeping and busy workers at once, the destructor at any point; progress without relying on spurious wake-ups |
| `login` | 2 clients, 2 handles, 3 workers | `TypeOK`, `RegistryConsistent`, `UniqueNames`, `GoodbyeIsTrue`, `OnlyOwnQuitRemoves`, `RunsOnPool` | a contested name, a handle reused after `/quit`, a broken connection at any point, a second client that finds no worker |
| `chat` | 4 participants, broadcasts by three, commands by the fourth | `SameOrder` | one order for everybody |
| `serve` | all commands but uploads, `/end` | `NobodyMissed`, `ImplementsBroadcast`, `LinesAreHandled`, `EndStopsThreads` | broadcasts and goodbyes against `/quit`, and progress, as far as the server is concerned: `EndStopsThreads` has a proviso on the clients |
| `upload` | 2 clients and the host upload to each other; the recipient may agree, refuse, upload, leave | `NoFlagLeftBehind`, `OneWaiter`, `InfoAfterApproval` | overlapping negotiations on the client and on the host, every failure path, 5 million states |
| `in_turn` | one client uploads twice, to a client or to the host | `RecipientParked`, `DecisionHandedOver`, `ImplementsBroadcast`, `AnsweredUploadsEnd` | no consent is left over for the second upload, the recipient's thread stays off the socket, broadcasts pass over the two alone, an answered negotiation ends |
| `file` | files that are absent, empty, small, and larger than an `int32_t` or a word counts; units of 2 or 3 parts; the connection may break | `FileTransferTypeOK`, `CrashHasACause`, `FairWeather`, `UploadEnds`, `ImplementsFileDelivery` | every split of the stream; both time-outs; who is told what, of the file as it is on the uploader's disk |
| `client` | one client with its three threads, the whole server, a host who uploads, answers or ends; the user types one line | `ClientTypeOK`, `AnswerNeedsLine`, `OneReader`, `InfoIsFetched`, `NoCircularWait`, `PeersSuffice`, `ClientCloses`, `KeyboardComesBack`, `EndReachesAll` | both directions of a transfer, refusal, `/quit` and `/end` in the middle of one, spurious wake-ups |

Why these bounds: two clients and a host give each kind of pair (two clients,
client and host) and a third party to interfere; two uploads overlap on one
recipient or follow one another, and a third one runs the other way; two handles
and two clients suffice for a handle to be reused while its former owner is still remembered;
order needs two senders and two listeners.  Clients share nothing with each other
but the server, so one of them, with the host as the other party of its transfers,
meets every order of its own threads' steps; one line each for user and host keeps
the instance to 370,000 states, and section 3's last list says what a second line
adds.  Units of two and three parts can be split and be mistaken for each other, and
a header that is shorter than a size can be read in its place.

### Fairness

`Fairness` asks for weak fairness of every thread, of the pool starting a task
when it has a worker (this is what `pool` shows of `ThreadPool.h`), and of a
client hearing the answer to its name.  This is what an operating system's scheduler
and TCP give.  Mutex acquisition is among the threads' steps, so weak fairness is
less than a fair mutex: a thread that waits for `usersMutex` is not assumed to get
it as long as others take it again and again, which finite quotas prevent.  No
spurious wake-up is assumed.  What the code does not oblige to end has no fairness:

* the host's own `uploadFile` or `downloadFile` (place "stream"): the hash loop may
  spin (`FileTransfer.h:172`), the Save-as loop waits for the keyboard
  (`Server.h:177-204`).  `AnsweredUploadsEnd` therefore ends at "stream" or in the loop,
  and `LinesAreHandled` is not about `/upload`;
* a failing `send_pk` (`HandshakeFails`);
* people: nobody has to connect, choose a name, speak, answer or leave;
* a client's hanging up.  A client that has been sent `/end` may never know: `recv` may
  return it together with another packet, which decrypts to "" (`Client.h:266-290`), or
  its one notification comes before its main thread waits.  `EndStopsThreads` and
  `EndCloses` say this as a proviso: *if* in the end no client lingers (`Lingers`: it has
  said `/quit` or been sent `/end` and has not hung up, or is silent in its login), every
  thread of the server returns.  `EndReachesAll`, in `client`, puts the client program in
  the place of the proviso: in a session without transfers the threads return unless there
  was a `mishap`, that is, one of the two accidents.

`SystemFairness` asks for weak fairness of the client's three threads alone, not of
the server, the user or the transfer (`EndReachesAll` has the server's `Fairness` as its
premise);
`Fairness` in `FileTransfer` asks it of both ends, the 30 seconds of `select`
included, and not of the break.  `KeyboardComesBack` and `ClientCloses` are qualified
by `mishap`: a notification that falls between a test and a wait is lost, and no
fairness brings it back.

### Disagreements with what the program says of itself

Each is a run that must fail, with the line quoted in `PROJECT.json`.

| run | what happens |
|---|---|
| `end` | `/end` passes over two clients in a negotiation; nothing ends their threads, and the server never closes |
| `quit_read_as_answer` | `/quit` while being asked about an upload is taken for a refusal; the client stays registered for good |
| `answer` | the user types a line that says no, and the server is told `$Yes`: `decided` is set first, and the other thread may act on it before `fileTransfer` is taken back |
| `missed` | the receiving thread sets `decided` and notifies under another mutex, after the sending thread has tested the flag and before it sleeps; the notification is lost, and both sleep for good |

`EndStopsThreads` and `AnsweredUploadsEnd` appear among the passing runs: they
hold there because `serve` has neither uploads nor logins (a client
in a negotiation is passed over by `/end`, one that enters after the broadcast and
before `shouldQuit` is set is not told either), and because the uploads of `in_turn` do
not cross.  `NobodyMissed` needs that everybody is logged in and nobody uploads, as in
`serve`, or the condition of its theorem (section 4).  Two clients that upload to each other wait for ever, each thread asleep on a
decision that only the other could read (`AnsweredUploadsEnd` without the bound).
`OneReader`, `AnswerNeedsLine`, `InfoIsFetched` and `NoCircularWait` are qualified by
`mishap` as well: what a leftover flag or a lost notification does to them is in the
list below and in the run `missed`.  `ImplementsFileDelivery` is
qualified by the size: `FileDelivery` has one exception, a file of a word (4 GB) or more,
of which a beginning arrives and is confirmed as a success.  `InfoIsFetched` is also
qualified by the connection: when it breaks in the middle of a transfer, with data still
unread, the transfer gives up and the receiving thread reads what it left.

Not a run, because the documents promise little or nothing about it.

In the server: after its `/quit` a thread goes on to `recvMessage(*user)` with the User
that `removeUser` has destroyed, although the name was copied "to avoid referencing a
nullptr when the User obj is removed" (`ChatRoom.h:246`; `UseAfterFree` is the outcome
that ends the process); `notify_one` after `/end` may come between the main thread's test and
its wait, and main() sleeps for ever; between the two look-ups of a whisper the
addressee may leave and a newcomer get its handle, and the whisper; a chat line
that was under way when the flag was raised decides about a transfer its sender has
not been asked about yet; a whisper to nobody is answered in plain text, which the
client cannot open; with overlapping uploads to one
recipient, the recipient's second line can be set as a decision after the first
uploader has reset the pair, and the next uploader reads it as consent to a file
the recipient never saw (this is why `DecisionHandedOver` and `RecipientParked`
are checked where uploads to one recipient take turns); a client that breaks its
connection during the login dialogue terminates the server, and one that breaks it during the
key exchange may keep the acceptor in `send_pk` for ever; a silent one keeps
everybody else out; a failed key exchange leaks a handle; a client that
disconnects without `/quit`, or whose `/quit` was taken for an answer, keeps its
name, and a second upload to it waits for ever.  `/whisper` without a recipient
whispers to oneself, since the search for the missing space starts again at 0
(`MissingParts` in `MCFileTransfer`).

In the client: a refusal may leave `transferComplete` set, because the two threads
reset the flags in either order; with a second line, the next `y` then does not wait
for the transfer and both threads read from the socket.  A `decided` left over in
the same way answers the next request at once.  An upload typed while a request
comes in makes both threads wait for a decision, the receiving thread for one that the
sending thread should take from the keyboard, the sending thread for one that the
receiving thread should read from the socket; `NoCircularWait` leaves out that state.
A verdict that arrives before the
flag is raised (`CC:117`) is printed and lost, and the upload waits.  Approval and
key that arrive in one packet are lost together.  After a download `fileTransfer`
may still be set, and the next message from the server is taken for a verdict.

In a transfer: whenever the stream is cut where the code does not expect it, a
header becomes part of the file or a piece of the file is read as a header, and the
process is terminated or the hash differs; `recvHeader` decrypts and indexes before
it looks at the result of `recv`, so a broken connection terminates it too; the
downloader spins for ever when the uploader closes before the hash; an empty file is
a failure for the downloader, after which the uploader finds the connection closed
and may be terminated; a file of 2 GB or
more throws, one of 4 GB or more is cut to what the 32 low bits of its size say and
reported as a success; the host's `str != "y" || str != "Y"` (`Server.h:192`) is
always true, so a file that cannot be saved is never tried again.

## 4. What is proved

For every value of the constants, from the assumptions named beside them: special
values differ from the ordinary ones, workers and clients are finite in number
(`WorkersAssumption`, `OwnerAssumption`, `TasksAssumption`; `UsersAssumption`,
`NamesAssumption`, `ServerAssumption`, `ChatRoomAssumption`), what a client's user
may type is among the lines the server was given to expect
(`ClientChatRoomAssumption`, `SystemAssumption`), a byte has at least two values
(`BaseAssumption`), and the parts of a transfer have sizes, a header being shorter
than a size (`FileTransferAssumption`).  The second column names the property of
section 3 that the theorem states.

| theorem | property | says |
|---|---|---|
| `ThreadPoolProofs!TypeCorrect` | `TypeOK` | the pool is well typed |
| `OnePlace` | `EachTaskInOnePlace` | a pushed task is in exactly one of queue, worker, done |
| `WakeupsKept` | `NoLostWakeup` | whoever sleeps will be called when there is work |
| `DestructorCorrect` | `DestructorReachesAll` | `notify_all` reaches every sleeper |
| `Refines` | `ImplementsTaskPool` | the pool implements `TaskPool` |
| `ChatRoomProofs!Invariance` | | the inductive invariant `IInv` of the chat room |
| `ChatRoomProofs!TypeCorrect` | `TypeOK` | the chat room is well typed |
| `RegistryCorrect` | `RegistryConsistent` | nobody twice, nobody destroyed, sockets lead to their owners |
| `NamesUnique` | `UniqueNames` | no two registered Users have one name |
| `OwnQuitOnly` | `OnlyOwnQuitRemoves` | removals are the owner's |
| `FlagsTakenBack` | `NoFlagLeftBehind` | a flag that is up will be lowered |
| `OneWaits` | `OneWaiter` | a future is taken exactly while one thread waits for it |
| `RecipientWaits` | `RecipientParked` | the recipient's thread keeps off its socket, if uploads to it take turns |
| `DecisionRead` | `DecisionHandedOver` | no consent is left over, if uploads take turns |
| `ApprovalsFirst` | `InfoAfterApproval` | nothing about a peer comes before its approval |
| `OneOrder` | `SameOrder` | everybody sees the same order |
| `GoodbyesAreTrue` | `GoodbyeIsTrue` | who is said to have left has left |
| `ThreadsOnPool` | `RunsOnPool` | the server implements `TaskPool` as well |
| `NobodyPassedOver` | `NobodyMissed` | broadcasts skip nobody, if nothing disturbs them |
| `BroadcastsTakeTurns` | `ImplementsBroadcast` | the broadcasts implement `Broadcast` |
| `SystemInvariance` | | the inductive invariant `SystemInv` of server and clients |
| `ClientTypeCorrect` | `ClientTypeOK` | the client's threads are well typed |
| `PeersAreEnough` | `PeersSuffice` | a step of the whole program is one of the server's specification |
| `SystemImplements` | | `SystemSpec => Spec` |
| `ServerKept` | | ten of the properties above, for the whole program |
| `ServerKeptApart` | | the three conditional ones, for the whole program |
| `NeverBothWait` | `NoCircularWait` | the client's two threads do not both sleep, one for the other's word, without a mishap; both waiting for a decision is excepted (section 3) |
| `OneThreadReads` | `OneReader` | they do not read one socket at once, without a mishap |
| `AnswersAreTyped` | `AnswerNeedsLine` | no answer without a line, without a mishap |
| `InfoReachesTransfer` | `InfoIsFetched` | what is sent for a transfer is read by the transfer, without a mishap |
| `FileTransferProofs!TypeCorrect` | `FileTransferTypeOK` | a transfer is well typed |
| `FileTransferProofs!Refines` | `ImplementsFileDelivery` | it implements `FileDelivery`: a success is the whole file, or its size is a word or more |
| `NoCrash` | `CrashHasACause` | nobody is terminated without trouble |
| `BothAreTold` | | without trouble, what an end that has finished was told is true, and the file is there |
| `IntegersSurvive` | | the integer conversions are inverse to each other |

*The pool.*  `TypeOK` and `EachTaskInOnePlace` are inductive as they stand.
`NoLostWakeup` counts: for each kind of step a lemma says what it does to the
queue, to the running workers and to the notifications owed.  `DestructorReachesAll`
is not inductive: it needs that nobody can fall asleep once `stop` is set, and
that whoever owes a `notify_one` is inside a task.  The refinement maps `Take` to
`Start`, `Finish` to `Return`, `Push` to `Submit`, `SetStop` to `Close`, and every
other step to a stutter; when a task starts, fewer tasks are in progress than there
are workers, because `running` maps the busy workers onto the tasks in progress.

*The registry.*  None of the three properties is inductive.  A name that is set must
still be free, although it was checked two steps before: `NameIsFree` says so, and
holds because the acceptor alone sets names and is busy with one client.  For that
client's `addUser` not to enter it twice, `Newcomer` and `Outsiders` say that a
client has no task, no entry and no destroyed User before it has connected, and
`WaitingTasks` that the pool's queue holds each handler once.  A `/quit` must remove
the User of the thread that handles it: `removeUser` searches by socket handle,
which may have a new owner, so `Served` says that a thread whose handle still
leads to its own client has a registered User.  A thread that goes on after its
`/quit` has lost its handle for good; it may then read what its successor's client
sends, but cannot open it, since packets are sealed per client, and thus never sees
a `/quit` again.  Together with `TypeOK`, and that only broadcasts are in the
broadcast loop, this is `IInv`.  TLC finds no violation of `IInv` on the instance
of `login`.  The proof treats the steps in three groups: those that touch none of
the state concerned (`Bystands`), those of a handler, which leave every other
thread's place and locals alone (`Keeps`), and the acceptor's, `/quit` and the
start of a task, one lemma each.

*The negotiation.*  Given `IInv`, `NoFlagLeftBehind` is inductive: a thread that has
raised a flag stays between `markThem` and `unmarkSelf` until it has lowered it,
through every exception, and no other thread's step moves it.  `OneWaiter` counts;
`OneAtATime` says the same without counting (a future is taken exactly while some
thread waits, and no two do), and is inductive together with `HasRecipient`, since
a second `get()` throws instead of waiting.  Both hold however uploads overlap.  The
other two do not: section 3 says how overlapping uploads take down each other's flags
and leave a consent behind.  They are therefore proved of the behaviours in which
uploads to one recipient do not overlap (`RecipientsApart`), which is a condition
on when people say `/upload`, not on the server.  The invariant then follows one
decision from hand to hand: who is about to decide has been asked, is marked and has
not decided (`FlagUp`, `Deciding`); who is looked up has nothing left over (`Clean`);
from the decision to the end of the transfer the recipient is parked, and a
transfer fails only if the recipient's User is destroyed (`ParkedUntil`); what was
decided has somebody who will read it (`Kept`).

*The approvals.*  `InfoAfterApproval` is not inductive.  `PeersOwn` ties handles to
clients: an open handle belongs to the client it leads to, so that what a thread sends
to its own User reaches that User's client or nobody, although handles are used again.
`Silent` says that before its login has returned a client has sent nothing but names,
has agreed to nothing, and has nothing of a transfer in its queue; otherwise the
`recv` of `login`, which may take several messages at once, could take an approval and
leave what follows it.  `Awaited` says that who is about to be sent the data has an
approval of that very upload for which nothing has come yet, unless its connection is
gone.  For each step `Posted` says what it adds to a client's queue and `Told` how a
thread comes from one verdict to the next; `LetterInv` is the invariant.

*The order of messages.*  Every step but those of a broadcast leaves what people were
sent alone, or adds something that is not a chat line or takes from the front
(`Elsewhere`).  For the steps of a broadcast, `InLoop` says that its thread holds
`usersMutex` and is at an entry, `Numbered` and `Aired` that a line that waits, or
is in its handler's hands, is newer than whatever of the same sender has been
delivered, and `OnAir` that the message in the loop is the last everywhere it has
come, and has come only to entries the index has passed.  So a second delivery, or a
delivery in another order, would need a second thread in the loop or a second turn of
one entry.

*Goodbyes.*  Nobody can *send* a line that reads as a goodbye, so one that is about
to be sent comes from the catch block; when it was formed the name was no longer
registered (`GoodbyeInv`).  What remains is that the client cannot return to the
registry (`OutForGood`): the acceptor enters only Users whose thread has not
started.

*The server's tasks.*  Each step of the server is a `Submit`, a `Start`, a `Return`, the
`Close`, or leaves the abstract pool's variables as they are.  `Submit` wants a fresh
task: the handler that is pushed belongs to the acceptor's `Newcomer`, which has no
thread and is not queued.

*Nobody is passed over.*  A message in the loop comes from a registered User, since a
thread that has lost its User cannot open anything (`Heard`); while the mutex is held
`/quit` cannot erase, so that entries keep their index; and what has become of the
message at the entries the index has passed does not change (`Catered`, `Remains`).
Two things can change it, and `Undisturbed`, a condition on the steps taken while a
broadcast is in its loop, excludes them: a client that comes to the end of its login
may have taken the message for the answer to its name, and is then in without having
it; and once the last upload has ended, nothing shows why the loop passed two people
over, as the program means it to.  Without the condition TLC refutes the property.

*The abstract broadcast.*  `NobodyMissed` speaks of what has become of a message, and
needs a condition because that can be hidden by what happens next; `Broadcast` speaks
of the step at which somebody is told or passed over, and needs none.  What is on the air is the message of the thread that holds
`usersMutex`, and who has been dealt with are the entries its index has passed.  To begin
the loop is `Start`, an entry is `Tell` or `Pass`, to leave the loop is `Stop`;
`addUser` and `removeUser` are `Enter` and `Leave`, what is said to single people is
`Aside`, a client's read during its login is `Forget`, and the rest changes at most
who is busy or gone (`Change`).  The mapping rests on `Held`: the mutex is held across
steps only by a thread that is in the loop.  That nobody is dealt with twice is
`IsInjective(users)`; that who is passed over has sent the message itself, not just
somebody with the same socket and name, needs `Heard` (the sender is registered) and
`UniqueNames`.  That `Start` finds a message nobody has yet is `Aired` for chat
messages and `/end`; for goodbyes it is `Bidden`: whose goodbye anybody has is still
saying it or has returned, and a thread that has returned has returned for good
(`DoneForGood`).

*The whole program.*  `SystemSpec => Spec` is a refinement without a mapping, since
`ChatSystem` has the variables of `ChatRoom`.  The steps of the server are the same; a
step of a client must be one of `Peers`, or leave the server's variables alone.  Two
kinds of step need an invariant: sending a line needs a client that is in, hence has
not said `/quit` (`SaysNoMore`) and has typed what it sends (`SendsTyped`); hanging
up needs a reason (`HasReason`: `shouldQuit`, and every place that leads to it or
follows it, comes with a `/quit` that was sent or an `/end` that was received, as
`EndHeard` says), and no thread runs before the login is over (`BeforeStart`,
`AfterLogin`).  The properties of the threads themselves come from more parts.
`HandedOver`: as long as the receiving thread waits for a transfer's end, the verdict is still in
`decided`, or the sender has taken it, or the transfer is over.  `StillServed` says the
same of an answer the user has given to a request.  That is not yet a wake-up, since the
verdict may be there while its owner sleeps: `Woken` says that, unless a notification fell
between a test and a sleep, whoever was to be woken by a verdict or an answer is not
asleep, and `Ahead` that a sender which is done with its upload before the receiving
thread begins to wait has left `transferComplete` set, so that the wait does not
sleep.  From these three `NeverBothWait` follows.  `UploadAlone` and `MarksInTime`: from an upload's first flag to its
end the receiving thread is in no transfer of its own, and from the verdict on it
waits.  `Answered`: the flag that makes a line an answer is raised by a request, and
the line that is taken for one is recorded before `decided` is set.  `Woken`, `Ahead`
and the last three are qualified by `mishap`, as the properties are.  Each of the parts was checked by
TLC on the instance of `client` before it was proved.

*The data of a transfer.*  `InfoIsFetched` joins the two halves.  From the server's side
comes `InfoAfterApproval`: data for an upload are owed from its approval on, until they
come (`Owed`).  On the client's side, `Collects` says of the messages a client has taken
so far that they leave something owed for one upload at most, and that, if they do, the
receiving thread has that approval in its hands and will not receive again before the
data have been read (`Owing`): it is about to hand it to the sending thread, or waits
for the end of the transfer that the sending thread leads, or leads it itself.
`Raised` says that the flag that makes it look at a verdict is up while the sending thread waits
for one.  So the next thing taken for data is that upload's, whatever other uploads the
server is negotiating.  A step of a client in which nothing is received keeps all that
(`Steady`); each of the steps that receive is a case of its own.

*The transfer.*  `FileTransferTypeOK` needs `InPlace`: the buffer stays empty until the
size is known, and nothing is sent of a file that cannot be read or whose size comes
out negative.  For the refinement, `Outcome` follows the
verdict backwards: who returns SUCCESS has accepted, who accepts has all that was
announced (`offered`), and a SUCCESS on its way to the uploader was sent by a
downloader who has returned it.  What was announced is the file itself unless its size
is a word or more: `Weighed` says that a hash is sent, and accepted, only for a file that
exists and whose size did not come out negative, and `OfferedIs` that such a size is
that of the file or at least `Limit`.  The proofs of `NoCrash` and `BothAreTold` need the stream itself.
`UpStream` and `DownStream` are what each end sends over a whole transfer; as long as
there has been no trouble, what is on the wire is the window between what
one end has sent and the other has read (`InStep`), both given by their places alone,
and the places are those of `Good`.  A read then finds exactly the units it asks for,
whatever the sizes of a key, a header, a size, a hash and the file are.  `Trouble`
never ends (`TroubleStays`), so the invariant is `~Trouble => Good`.  `BothAreTold` is
the safety half of `FairWeather`: an end that has finished has been told the truth.
That both finish needs fairness.

*Integers.*  Division by a power of `Base` is not linear arithmetic, so that the solver
gets it as facts about products: `DivMod` and `DivModUnique` characterise quotient and
remainder, from which `DivDiv`, `DigitsOf` and `FromDigits` give the four digits of a
word and the word of four digits, in either byte order, and `SignedIs` the signed
reading of them.

Only model-checked:

* liveness, since fairness and ENABLED are out of the prover's reach:
  `EventuallyStarted`, `DestructorReturns`, `LinesAreHandled`, `EndStopsThreads`,
  `EndReachesAll`, `AnsweredUploadsEnd`, `UploadEnds`, `ClientCloses`, `KeyboardComesBack`, and of
  `FairWeather` that the two ends finish;
* what recursive functions compute, since that takes induction over data: the laws
  of the parsing functions (`PartsOfACommand`, `MissingParts`) are evaluated by TLC over
  every small input, as assumptions of `MCFileTransfer`, and so is `RoundTrips`, which
  `IntegersSurvive` states for every `Base`.

No invariant and no action property of the passing runs is only model-checked.

## 5. What is not modelled, and the plan

1. A second real client on the other side of a transfer, in `ChatSystem` (TLC first).
2. The client that takes a broadcast for the answer to its login, in `ChatSystem`.
3. The exact condition under which overlapping uploads to one recipient do no harm,
   in the place of `RecipientsApart`.

Left out for good: socket set-up, `/sys` (runs an operating system command), the
dialogue before the threads start, libsodium (external: only that a packet opens
for the holder of its key is used), texts and colours, `getFileSize` (a text for the
screen), and the functions of `Util.h` nobody calls (`checkSum`, `strToBin_IP`,
`binToStr_IP`).
