------------------------------ MODULE ChatRoom ------------------------------
(***************************************************************************)
(* The server: the threads of Login.tla, Relay.tla and Transfer.tla on the *)
(* thread pool, the clients of Peers.tla, the shutdown by /end, and what   *)
(* the run time does when the code leaves the language.                    *)
(***************************************************************************)
EXTENDS Peers, Login, Transfer

(* The thread pool, as TaskPool.tla has it: pushed tasks start in order. *)

Busy == { t \in Threads : pc[t] \notin Outside }

StartAnyTask ==
    /\ taskQueue # <<>>
    /\ pc[Main] \notin {"joining", "closed"}
    /\ Goto(Head(taskQueue), IF Head(taskQueue) = Acceptor THEN "test" ELSE "loop")
    /\ taskQueue' = Tail(taskQueue)
    /\ UNCHANGED <<userVars, serverVars, locals, shouldQuit, crashed, sent>>

StartTask ==
    /\ taskQueue # <<>>
    /\ pc[Main] \notin {"joining", "closed"}
    /\ Cardinality(Busy) < PoolSize
    /\ Goto(Head(taskQueue), IF Head(taskQueue) = Acceptor THEN "test" ELSE "loop")
    /\ taskQueue' = Tail(taskQueue)
    /\ UNCHANGED <<userVars, serverVars, locals, shouldQuit, crashed, sent>>

-----------------------------------------------------------------------------
(* /end and the main thread. *)

RaiseShouldQuit ==
    /\ pc[Host] = "ending"
    /\ shouldQuit' = TRUE
    /\ Goto(Host, "notify")
    /\ UNCHANGED <<userVars, serverVars, locals, taskQueue, crashed, sent>>

(* shutdownCondition.notify_one, without shutdownMutex *)
NotifyMain ==
    /\ pc[Host] = "notify"
    /\ pc' = [pc EXCEPT ![Host] = "loop",
                        ![Main] = IF @ = "asleep" THEN "check" ELSE @]
    /\ msg' = [msg EXCEPT ![Host] = NoPacket]
    /\ target' = [target EXCEPT ![Host] = Nobody]
    /\ idx' = [idx EXCEPT ![Host] = 0]
    /\ UNCHANGED <<userVars, serverVars, control, sent>>

(* the predicate of shutdownCondition.wait, then the wait itself *)
MainChecks ==
    /\ pc[Main] = "check"
    /\ Moves(Main, IF shouldQuit THEN "joining" ELSE "blocking")

MainBlocks ==
    /\ pc[Main] = "blocking"
    /\ Moves(Main, "asleep")

SpuriousWakeup ==
    /\ pc[Main] = "asleep"
    /\ Main \in Restless
    /\ Moves(Main, "check")

(* ~ChatRoom: ~ThreadPool joins the workers, then ~Server *)
MainJoins ==
    /\ pc[Main] = "joining"
    /\ Busy = {}
    /\ Moves(Main, "closed")

(* the Users thread t dereferences in its next step *)
Dereferenced(t) ==
    (IF pc[t] \in {"recv", "decide", "parked", "dispatch", "scan", "send"}
        /\ msg[t].kind # "left" THEN {t} ELSE {})
    \cup (IF pc[t] \in (Uploading \cup {"whisper"}) \ {"markSelf", "await", "report"}
          THEN {target[t]} ELSE {})

(* a destroyed User is used, and the process does not survive it *)
UseAfterFree(t) ==
    /\ Dereferenced(t) \cap freed # {}
    /\ crashed' = TRUE
    /\ UNCHANGED <<userVars, serverVars, pc, locals, taskQueue, shouldQuit, sent>>

(* "[-] Error: " + GetLastError() points past the literal *)
BadErrorText(t) ==
    /\ pc[t] = "report"
    /\ crashed' = TRUE
    /\ UNCHANGED <<userVars, serverVars, pc, locals, taskQueue, shouldQuit, sent>>

-----------------------------------------------------------------------------

ClientStep(c) == Connect(c) \/ TryName(c) \/ HearAnswer(c) \/ HangUp(c) \/ Break(c)

AcceptorStep ==
    \/ AcceptorTest \/ SelectTimesOut \/ Accept \/ ExchangeKeys \/ HandshakeFails
    \/ AddUser \/ ReceiveName \/ LoginLost \/ CheckName \/ AnswerName \/ SetName
    \/ PushHandler

LoopStep(t) ==
    \/ TestQuit(t) \/ Receive(t) \/ ReceiveThrows(t) \/ Decide(t) \/ DecideThrows(t)
    \/ wait_completeTransfer(t) \/ Catch(t)

CommandStep(t) ==
    \/ Quit(t) \/ ListUsers(t) \/ ListCommands(t) \/ WhisperSocket(t) \/ WhisperUser(t)
    \/ Utter(t)

BroadcastStep(t) == BeginBroadcast(t) \/ Scan(t) \/ SendOne(t) \/ EndBroadcast(t)

TransferStep(t) ==
    \/ LookUp(t) \/ MarkThem(t) \/ MarkSelf(t) \/ AwaitDecision(t) \/ AwaitThrows(t)
    \/ Decided(t) \/ SendInfo(t) \/ Resume(t) \/ UnmarkThem(t) \/ UnmarkSelf(t)

HandlerStep(t) == LoopStep(t) \/ CommandStep(t) \/ BroadcastStep(t) \/ TransferStep(t)

HostStep == RaiseShouldQuit \/ NotifyMain

MainStep == MainChecks \/ MainBlocks \/ MainJoins

Next ==
    /\ ~crashed
    /\ \/ \E c \in Clients : ClientStep(c)
       \/ \E u \in Users : Say(u) \/ HandlerStep(u) \/ UseAfterFree(u) \/ BadErrorText(u)
       \/ StartTask \/ AcceptorStep \/ HostStep \/ MainStep \/ SpuriousWakeup

Spec == Init /\ [][Next]_vars

(* The scheduler runs every thread that can run, the pool starts a task    *)
(* when it has a worker, and a client hears the answer to its name.        *)
(* Nobody has to connect, speak, answer, leave, or hang up when told to,   *)
(* uploadFile and downloadFile of the host need not return, and send_pk    *)
(* never does when the client has gone: it does not test for SOCKET_ERROR. *)
Fairness ==
    /\ WF_vars(~crashed /\ StartTask)
    /\ WF_vars(~crashed /\ AcceptorStep /\ ~HandshakeFails)
    /\ WF_vars(~crashed /\ MainStep)
    /\ WF_vars(~crashed /\ HostStep)
    /\ \A u \in Users : WF_vars(~crashed /\ HandlerStep(u) /\ pc[u] # "stream")
    /\ \A c \in Clients : WF_vars(~crashed /\ HearAnswer(c))

FairSpec == Spec /\ Fairness
-----------------------------------------------------------------------------
(* Correctness of the registry. *)

(* The registry holds nobody twice and no destroyed User, and the socket   *)
(* of every User in it is open and leads to that User's own client:        *)
(* handles are closed only together with the entry (removeUser), so the    *)
(* reuse of a handle cannot make a broadcast reach the wrong client.       *)
RegistryConsistent ==
    /\ IsInjective(users)
    /\ Registered \cap freed = {}
    /\ \A u \in Registered : peer[sock[u]] = u

(* No two registered Users ever have the same name, although the name is   *)
(* checked in one critical section and set later outside of any, and       *)
(* although a User is registered before it has a name of its own           *)
(* (getConnections).                                                       *)
UniqueNames == \A u, v \in Registered : username[u] = username[v] => u = v

(* Who is told that a client has left is told the truth: when the message  *)
(* "Has Left The Chat" is on its way or has arrived, the User is no longer *)
(* registered (the catch block of handleClient).                           *)
GoodbyeIsTrue ==
    \A c \in Clients :
        \/ msg[c].kind = "left"
        \/ \E u \in Users : \E i \in DOMAIN outbox[u] :
              outbox[u][i].kind = "left" /\ outbox[u][i].from = c
        => c \notin Registered

(* A User leaves the registry only by the /quit that its own thread        *)
(* handles, never by another's (removeUser matches by socket).             *)
OnlyOwnQuitRemoves ==
    [][\A u \in Registered : u \notin Registered' => Handling(u, "quit")]_vars

-----------------------------------------------------------------------------
(* Correctness of the broadcast. *)

Chats(u) == { i \in DOMAIN outbox[u] : outbox[u][i].kind = "chat" }

(* Any two people who both see two chat messages see them in the same      *)
(* order, and nobody sees one twice: broadcastMessageExceptSender keeps    *)
(* usersMutex over its whole loop.                                         *)
SameOrder ==
    \A u, v \in Users : \A i, j \in Chats(u) : \A k, l \in Chats(v) :
        i < j /\ outbox[u][i] = outbox[v][k] /\ outbox[u][j] = outbox[v][l] => k < l

(* A chat message or /end passes nobody over: at every point of the loop   *)
(* each earlier entry has it, or is the sender's, or takes part in a       *)
(* transfer, or is a client that is gone.  The loop runs by index, so an   *)
(* erase during the loop would make it skip (broadcastMessageExceptSender, *)
(* removeUser).  It holds while no login and no transfer ends during the   *)
(* loop: a client that logs in takes the message for the answer to its     *)
(* name (login), and the end of a transfer hides whom the loop passed over.*)
NobodyMissed ==
    \A t \in Users :
        pc[t] \in {"scan", "send"} /\ msg[t].kind \in {"chat", "end"} =>
            \A i \in 1..(idx[t] - 1) :
                LET u == users[i] IN
                \/ u = t
                \/ Notice(t) \in ToSet(outbox[u])
                \/ \E v \in Users : pc[v] \in Uploading
                \/ u # Host /\ client[u] # "in"

Announcements == { m \in Message : m.kind \in {"chat", "end", "left"} }
Transferring == { u \in Users : isTransfering[u] }
Disconnected == { c \in Clients : client[c] = "closed" }
Airing == IF Unlocked THEN {} ELSE {Notice(usersMutex)}
DealtWith == IF Unlocked THEN {} ELSE { users[i] : i \in 1..(idx[usersMutex] - 1) }

(* The broadcasts of all threads implement the abstract one: a chat        *)
(* message, /end or a goodbye is on the air from the first entry of the    *)
(* loop to the last, one at a time, and no second time; meanwhile nobody   *)
(* enters or leaves the registry, each User in it is dealt with once, and  *)
(* one is passed over only if it takes part in a transfer at that moment   *)
(* or has sent the message itself (broadcastMessage,                       *)
(* broadcastMessageExceptSender).                                          *)
Room == INSTANCE Broadcast WITH
    People <- Users,
    Public <- Announcements,
    members <- Registered,
    busy <- Transferring,
    gone <- Disconnected,
    air <- Airing,
    told <- DealtWith,
    heard <- outbox

ImplementsBroadcast == Room!Spec

-----------------------------------------------------------------------------
(* Correctness of the negotiation. *)

Flagging(t, u) ==
    \/ u = target[t] /\ pc[t] \in Negotiating
    \/ u = t /\ pc[t] \in Uploading \ {"markThem", "markSelf"}

(* No flag is left behind: while a User is marked as transferring, some    *)
(* thread is in a fileTransfer that will clear the mark, whatever way the  *)
(* negotiation goes, the exceptions included.  A mark left behind would    *)
(* cut the User off from every broadcast and park its thread for ever.     *)
NoFlagLeftBehind ==
    \A u \in Users : isTransfering[u] => \E t \in Users : Flagging(t, u)

(* However many uploads to one recipient overlap, its future serves one    *)
(* uploader at a time: it is taken exactly while one thread waits on it,   *)
(* so every other uploader is turned away at once, and the next upload     *)
(* finds a fresh pair (awaitDecision, resetTransfer).                      *)
OneWaiter ==
    \A u \in Users \ freed :
        LET W == { t \in Users : pc[t] = "await" /\ target[t] = u }
        IN  Cardinality(W) = IF futureTaken[u] THEN 1 ELSE 0

(* As long as uploads to the same recipient do not overlap, a decision     *)
(* that has been set is always about to be read, so that none is left over *)
(* for the next transfer (setTransferDecision, awaitDecision).             *)
DecisionHandedOver ==
    \A u \in Users \ freed :
        decision[u] # "none" => \E t \in Users : target[t] = u /\
                                    pc[t] \in {"markSelf", "request", "get", "await"}

(* While the verdict and the connection data go out, the recipient's own   *)
(* thread is parked and reads nothing from the recipient's socket, as long *)
(* as uploads to the same recipient do not overlap (wait_completeTransfer).*)
RecipientParked ==
    \A t \in Users :
        pc[t] \in {"approved1", "approved2", "info", "stream"} => pc[target[t]] = "parked"

(* In the first n of the messages in box an upload of u has been approved, *)
(* and what the two clients need for it has not come.                      *)
Owed(box, u, n) ==
    \E i \in 1..n :
        /\ box[i].kind = "approved" /\ box[i].from = u
        /\ \A j \in (i + 1)..n : box[j].kind = "info" => box[j].from # u

(* Keys and address of the peer come to a client only after the approval   *)
(* of the same upload, and once for each approval, however many uploads of *)
(* different people overlap, and although clients come and go and their    *)
(* handles are used again (fileTransfer, sendTransferInfo).                *)
InfoAfterApproval ==
    \A c \in Clients, u \in Users : \A j \in DOMAIN outbox[c] :
        outbox[c][j].kind = "info" /\ outbox[c][j].from = u => Owed(outbox[c], u, j - 1)

-----------------------------------------------------------------------------
(* Progress. *)

(* Whatever a client or the host says is dealt with to the end, and the    *)
(* thread that did returns to its loop: every critical section is left,    *)
(* every broadcast comes to its end (handleIncomingMessages,               *)
(* handleOutgoingMessages).  An upload may wait for ever.                  *)
LinesAreHandled ==
    \A t \in Users :
        pc[t] = "dispatch" /\ msg[t].kind # "upload"
            ~> pc[t] \in {"loop", "recv", "done"} \/ crashed

(* When the recipient of an upload has said something, the negotiation     *)
(* comes to its end: the uploader's thread is back in its loop, or, when   *)
(* the host is a party, in the host's own uploadFile or downloadFile, which*)
(* need not return (fileTransfer, awaitDecision).  Uploads that cross or   *)
(* overlap are not in the instance: each may wait for the other's line.    *)
AnsweredUploadsEnd ==
    \A t \in Users :
        pc[t] = "await" /\ inbox[target[t]] # <<>>
            ~> pc[t] \in {"loop", "stream"} \/ crashed

(* A thread of the server waits for client c, and it is c's turn: to hang  *)
(* up after its /quit or the /end it was sent, or to give its name.  A     *)
(* client need not: it is silent, or recv returned /end together with      *)
(* another packet, or its one notification was lost (recvMessage of        *)
(* Client.h, signalShutdown of ClientChatRoom.h).                          *)
Lingers(c) ==
    \/ client[c] \in {"naming", "asking", "leaving"}
    \/ client[c] = "in" /\ \E i \in DOMAIN outbox[c] : outbox[c][i].kind = "end"

(* Once the host has said /end every thread of the pool returns, provided  *)
(* that every client acts when it is its turn: a thread that is blocked in *)
(* recv returns when its client has hung up, the acceptor when its select  *)
(* times out (getConnections, handleClient, sendMessageLoop).  In the      *)
(* instance nobody logs in and nobody is in a transfer while /end is sent: *)
(* such a client is not told at all (EndCloses).                           *)
EndStopsThreads ==
    <>[](\A c \in Clients : ~Lingers(c)) => (shouldQuit ~> Busy = {} \/ crashed)

(* "/end: Close the server": and then main() returns (run_chat_room), with *)
(* the same proviso.                                                       *)
EndCloses ==
    <>[](\A c \in Clients : ~Lingers(c)) => (shouldQuit ~> pc[Main] = "closed" \/ crashed)

-----------------------------------------------------------------------------
(* What the documentation says and the code does not do. *)

(* "/quit: Leave the chatroom": a client that said /quit, and whose thread *)
(* has ended, is no longer registered.                                     *)
QuitLeaves ==
    \A c \in Clients :
        client[c] = "closed" /\ pc[c] = "done" /\ ~shouldQuit => c \notin Registered

-----------------------------------------------------------------------------
(* The thread pool. *)

(* The server's threads run on the pool within its contract: a task is     *)
(* pushed once, tasks start in the order of the pushes, at most            *)
(* THREAD_COUNT at a time, and none after the destructor has begun.        *)
Pool == INSTANCE TaskPool WITH
    Tasks <- Threads,
    Size <- PoolSize,
    pending <- taskQueue,
    active <- Busy,
    finished <- { t \in Threads : pc[t] = "done" },
    closing <- pc[Main] \in {"joining", "closed"}

RunsOnPool == [][Pool!Next]_(Pool!vars)

=============================================================================
