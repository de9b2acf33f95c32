--------------------------- MODULE ClientChatRoom ---------------------------
(***************************************************************************)
(* ClientChatRoom.h: the client program, from the end of its login() on.   *)
(* "send" reads the keyboard (sendMessageLoop), "recv" the socket          *)
(* (recvMessageLoop), and "main" waits to close the connection             *)
(* (run_chat_room).  The first two share four flags, two mutexes and two   *)
(* condition variables to agree on who does what during a file transfer.   *)
(*                                                                         *)
(* A step is one access to a flag, one call on the socket, or one          *)
(* operation on a mutex or a condition variable.  A wait tests its flag    *)
(* and only then falls asleep; notify_one wakes one thread that is asleep  *)
(* and does nothing for one that is about to be.  What a transfer itself   *)
(* does is in FileTransfer.tla; here it returns.                           *)
(***************************************************************************)
EXTENDS Peers

CONSTANTS
    Types,  \* Types[c]: the lines the user of c may type
    Lines   \* Lines[c]: how many of them at most

(* yes: does the line contain a "y"; a "local" line is dealt with by the   *)
(* client alone                                                            *)
Typed == [kind : {"chat", "quit", "users", "commands", "whisper", "upload", "local"},
          arg : Names, yes : BOOLEAN]

ASSUME ClientChatRoomAssumption ==
    /\ Types \in [Clients -> SUBSET Typed]
    /\ Lines \in [Clients -> Nat]

VARIABLES
    at,       \* at[c][t]: where thread t of client c is
    flag,     \* flag[c]: shouldQuit, fileTransfer, transferComplete, decided
    line,     \* line[c]: what sendMessageLoop is dealing with
    message,  \* message[c]: the kind of what recvMessageLoop is dealing with
    heard,    \* heard[c]: how many messages of outbox[c] have been received
    typed,    \* typed[c]: how many lines the user has typed
    answer,   \* answer[c]: what the line said that was taken for the answer
    mishap    \* mishap[c]: something has come too early, too late or in one piece,
              \* or a flag is left over from an earlier transfer

clientVars == <<at, flag, line, message, heard, typed, answer, mishap>>
serving == <<userVars, registryVars, socketVars, pc, locals, control, outbox>>
socketState == <<client, inbox, sent>>

SendPC == {"off", "loop", "getline", "dispatch", "signal", "notify", "lock", "check",
           "blocking", "asleep", "woken", "choose", "fetch", "stream", "unmark", "complete",
           "wake", "decide", "refuse", "tell", "twait", "tblocking", "tasleep", "reset",
           "clear", "done"}
RecvPC == {"off", "loop", "recv", "test", "handle", "signal", "notify", "lock", "check",
           "blocking", "asleep", "woken", "choose", "yes", "no", "first", "fetch", "stream",
           "complete", "wake", "tlock", "tmark", "tell", "tcheck", "twait", "tblocking",
           "tasleep", "done"}
QuitPC == {"login", "check", "blocking", "asleep", "close", "join", "done"}

NoLine == [kind |-> "local", arg |-> HostName, yes |-> FALSE]

ClientTypeOK ==
    /\ at \in [Clients -> [{"send", "recv", "main"} -> SendPC \cup RecvPC \cup QuitPC]]
    /\ \A c \in Clients : at[c]["send"] \in SendPC /\ at[c]["recv"] \in RecvPC
                          /\ at[c]["main"] \in QuitPC
    /\ flag \in [Clients -> [{"shouldQuit", "fileTransfer", "transferComplete", "decided"}
                               -> BOOLEAN]]
    /\ line \in [Clients -> Typed]
    /\ message \in [Clients -> Notices]
    /\ heard \in [Clients -> Nat]
    /\ typed \in [Clients -> Nat]
    /\ answer \in [Clients -> {"none", "yes", "no"}]
    /\ mishap \in [Clients -> BOOLEAN]
    /\ \A c \in Clients : heard[c] <= Len(outbox[c]) /\ typed[c] <= Lines[c]

(* login() has just returned in every client that is in *)
ClientInit ==
    /\ at = [c \in Clients |-> [send |-> "off", recv |-> "off", main |-> "login"]]
    /\ flag = [c \in Clients |-> [shouldQuit |-> FALSE, fileTransfer |-> FALSE,
                                  transferComplete |-> FALSE, decided |-> FALSE]]
    /\ line = [c \in Clients |-> NoLine]
    /\ message = [c \in Clients |-> "garbled"]
    /\ heard = [c \in Clients |-> 0]
    /\ typed = [c \in Clients |-> 0]
    /\ answer = [c \in Clients |-> "none"]
    /\ mishap = [c \in Clients |-> FALSE]

-----------------------------------------------------------------------------
(* Threads, flags, mutexes and condition variables. *)

Other(t) == IF t = "send" THEN "recv" ELSE "send"

At(c, t, l) == at[c][t] = l

Jump(c, t, l) == at' = [at EXCEPT ![c][t] = l]

Store(c, f, v) == flag' = [flag EXCEPT ![c][f] = v]

(* the thread goes on after an access to a flag, or after none *)
Local(c) == UNCHANGED <<serving, socketState, line, message, heard, typed, answer, mishap>>

Proceed(c, t, l) == Jump(c, t, l) /\ UNCHANGED flag /\ Local(c)

(* transfer_mutex *)
InTransfer == {"check", "blocking", "choose", "fetch", "stream", "unmark", "complete",
               "wake", "yes", "no", "first"}

Waiting == {"check", "blocking", "asleep", "woken"}

(* transfer_complete_mutex *)
InCompletion == {"tmark", "tcheck", "tblocking"}
InCompletionRecv == InCompletion \cup {"tell"}

TransferMutexFree(c, t) == at[c][Other(t)] \notin InTransfer

CompleteMutexFree(c, t) ==
    at[c][Other(t)] \notin (IF t = "send" THEN InCompletionRecv ELSE InCompletion)

(* notify_one: thread t goes to l, and one of those asleep at s, if any,   *)
(* to w; a thread at b has found its flag unset and will miss it           *)
notify_one(c, t, l, s, w, b) ==
    LET sleepers == { u \in {"send", "recv"} : At(c, u, s) } IN
    /\ \/ \E u \in sleepers : at' = [at EXCEPT ![c][t] = l, ![c][u] = w]
       \/ sleepers = {} /\ Jump(c, t, l)
    /\ mishap' = [mishap EXCEPT ![c] = @ \/ (sleepers = {} /\ At(c, Other(t), b))]
    /\ UNCHANGED <<serving, socketState, flag, line, message, heard, typed, answer>>

(* sendMessage, to the server; it throws on a closed socket *)
CanSend(c) == client[c] \in {"in", "leaving"}

(* one recv of k messages: only a single one can be opened *)
receive(c, k) ==
    /\ k \in 1..(Len(outbox[c]) - heard[c])
    /\ heard' = [heard EXCEPT ![c] = @ + k]
    /\ mishap' = [mishap EXCEPT ![c] = @ \/ k > 1]

Next1(c) == outbox[c][heard[c] + 1].kind

-----------------------------------------------------------------------------
(* run_chat_room *)

(* the two tasks are pushed on the client's own pool *)
StartThreads(c) ==
    /\ At(c, "main", "login") /\ client[c] = "in"
    /\ at' = [at EXCEPT ![c] = [send |-> "loop", recv |-> "loop", main |-> "check"]]
    /\ UNCHANGED flag /\ Local(c)

(* without looking at the flag *)
MainClosesAnyway(c) ==
    /\ At(c, "main", "check")
    /\ Proceed(c, "main", "close")

MainTests(c) ==
    /\ At(c, "main", "check")
    /\ Proceed(c, "main", IF flag[c].shouldQuit THEN "close" ELSE "blocking")

MainSleeps(c) ==
    /\ At(c, "main", "blocking")
    /\ Proceed(c, "main", "asleep")

closeClient(c) ==
    /\ At(c, "main", "close")
    /\ client' = [client EXCEPT ![c] = "closed"]
    /\ Jump(c, "main", "join")
    /\ UNCHANGED <<serving, inbox, sent, flag, line, message, heard, typed, answer, mishap>>

(* ~ThreadPool *)
JoinThreads(c) ==
    /\ At(c, "main", "join")
    /\ At(c, "send", "done") /\ At(c, "recv", "done")
    /\ Proceed(c, "main", "done")

(* signalShutdown, by either thread: the flag, then the notification *)
Signal(c, t) ==
    /\ At(c, t, "signal")
    /\ Store(c, "shouldQuit", TRUE)
    /\ Jump(c, t, "notify") /\ Local(c)

(* without notify_one *)
NotifyNobody(c, t) ==
    /\ At(c, t, "notify")
    /\ Proceed(c, t, "loop")

NotifyQuit(c, t) ==
    /\ At(c, t, "notify")
    /\ at' = [at EXCEPT ![c][t] = "loop",
                        ![c]["main"] = IF @ = "asleep" THEN "check" ELSE @]
    /\ mishap' = [mishap EXCEPT ![c] = @ \/ At(c, "main", "blocking")]
    /\ UNCHANGED <<serving, socketState, flag, line, message, heard, typed, answer>>

-----------------------------------------------------------------------------
(* The two waits, and the end of a transfer, in either thread. *)

(* the mutex, the flag fileTransfer, and the name or the question *)
LockTransfer(c, t) ==
    /\ At(c, t, "lock")
    /\ TransferMutexFree(c, t)
    /\ Store(c, "fileTransfer", TRUE)
    /\ answer' = IF t = "recv" THEN [answer EXCEPT ![c] = "none"] ELSE answer
    /\ mishap' = [mishap EXCEPT ![c] = @ \/ flag[c].decided \/ flag[c].transferComplete]
    /\ Jump(c, t, "check")
    /\ UNCHANGED <<serving, socketState, line, message, heard, typed>>

(* a wait that does not test its flag again when it wakes up *)
AwaitDecidedOnce(c, t) ==
    /\ At(c, t, "check") \/ (At(c, t, "woken") /\ TransferMutexFree(c, t))
    /\ IF flag[c].decided \/ At(c, t, "woken")
       THEN Store(c, "decided", FALSE) /\ Jump(c, t, "choose")
       ELSE Jump(c, t, "blocking") /\ UNCHANGED flag
    /\ Local(c)

(* wait(lock, decided); decided = false *)
AwaitDecided(c, t) ==
    /\ At(c, t, "check") \/ (At(c, t, "woken") /\ TransferMutexFree(c, t))
    /\ IF flag[c].decided
       THEN Store(c, "decided", FALSE) /\ Jump(c, t, "choose")
       ELSE Jump(c, t, "blocking") /\ UNCHANGED flag
    /\ Local(c)

(* no wait at all *)
AwaitNothing(c, t) ==
    /\ At(c, t, "tcheck") \/ (At(c, t, "twait") /\ CompleteMutexFree(c, t))
    /\ Proceed(c, t, IF t = "recv" THEN "loop" ELSE "reset")

(* wait(lock, transferComplete); recvMessageLoop then resets the flag *)
AwaitComplete(c, t) ==
    /\ At(c, t, "tcheck") \/ (At(c, t, "twait") /\ CompleteMutexFree(c, t))
    /\ IF flag[c].transferComplete
       THEN IF t = "recv" THEN Store(c, "transferComplete", FALSE) /\ Jump(c, t, "loop")
                          ELSE Jump(c, t, "reset") /\ UNCHANGED flag
       ELSE Jump(c, t, "tblocking") /\ UNCHANGED flag
    /\ Local(c)

FallAsleep(c, t) ==
    \/ At(c, t, "blocking") /\ Proceed(c, t, "asleep")
    \/ At(c, t, "tblocking") /\ Proceed(c, t, "tasleep")

WakesAlone(c, t) ==
    /\ t \in Restless
    /\ \/ At(c, t, "asleep") /\ Proceed(c, t, IF t = "main" THEN "check" ELSE "woken")
       \/ At(c, t, "tasleep") /\ Proceed(c, t, "twait")

Choose(c, t) ==
    /\ At(c, t, "choose")
    /\ Proceed(c, t, CASE t = "send" -> IF flag[c].fileTransfer THEN "fetch" ELSE "complete"
                       [] t = "recv" -> IF flag[c].fileTransfer THEN "yes" ELSE "no")

(* uploadFile and downloadFile read what the server sends about the peer;  *)
(* out of step with the server they take something else for it             *)
FetchInfo(c, t) ==
    /\ At(c, t, "fetch")
    /\ \/ /\ \E k \in 1..(Len(outbox[c]) - heard[c]) :
                /\ heard' = [heard EXCEPT ![c] = @ + k]
                /\ IF Next1(c) = "info" THEN k = 1 /\ UNCHANGED mishap
                                        ELSE mishap' = [mishap EXCEPT ![c] = TRUE]
          /\ Jump(c, t, "stream")
       \/ client[c] = "closed" /\ Jump(c, t, "stream") /\ UNCHANGED <<heard, mishap>>
    /\ UNCHANGED <<serving, socketState, flag, line, message, typed, answer>>

(* either thread takes the flag back itself *)
TransferUnmarks(c, t) ==
    /\ At(c, t, "stream")
    /\ Proceed(c, t, "unmark")

(* upload or download returns or throws, and is reported on the screen *)
TransferReturns(c, t) ==
    /\ At(c, t, "stream")
    /\ Proceed(c, t, IF t = "send" THEN "unmark" ELSE "complete")

Unmark(c) ==
    /\ At(c, "send", "unmark")
    /\ Store(c, "fileTransfer", FALSE)
    /\ Jump(c, "send", "complete") /\ Local(c)

Complete(c, t) ==
    /\ At(c, t, "complete")
    /\ Store(c, "transferComplete", TRUE)
    /\ Jump(c, t, "wake") /\ Local(c)

(* without notify_one *)
WakeNobody(c, t) ==
    /\ At(c, t, "wake")
    /\ Proceed(c, t, "loop")

WakeOther(c, t) ==
    /\ At(c, t, "wake")
    /\ notify_one(c, t, "loop", "tasleep", "twait", "tblocking")

(* transfer_condition.notify_one, in either loop *)
TellDecision(c, t) ==
    /\ At(c, t, "tell")
    /\ notify_one(c, t, CASE t = "recv" -> "tcheck"
                          [] t = "send" -> IF line[c].yes THEN "twait" ELSE "reset",
                  "asleep", "woken", "blocking")

-----------------------------------------------------------------------------
(* sendMessageLoop and handleOutgoingMessage *)

SendTestsQuit(c) ==
    /\ At(c, "send", "loop")
    /\ Jump(c, "send", IF flag[c].shouldQuit THEN "done" ELSE "getline")
    /\ line' = [line EXCEPT ![c] = NoLine]
    /\ UNCHANGED <<serving, socketState, flag, message, heard, typed, answer, mishap>>

(* getline returns, and the line is for the server or decides *)
Type(c) ==
    /\ At(c, "send", "getline")
    /\ typed[c] < Lines[c]
    /\ typed' = [typed EXCEPT ![c] = @ + 1]
    /\ \E s \in Types[c] :
          /\ line' = [line EXCEPT ![c] = s]
          /\ answer' = IF flag[c].fileTransfer
                       THEN [answer EXCEPT ![c] = IF s.yes THEN "yes" ELSE "no"] ELSE answer
    /\ Jump(c, "send", IF flag[c].fileTransfer THEN "decide" ELSE "dispatch")
    /\ UNCHANGED <<serving, socketState, flag, message, heard, mishap>>

Decides(c) ==
    /\ At(c, "send", "decide")
    /\ Store(c, "decided", TRUE)
    /\ Jump(c, "send", IF line[c].yes THEN "tell" ELSE "refuse") /\ Local(c)

Refuse(c) ==
    /\ At(c, "send", "refuse")
    /\ Store(c, "fileTransfer", FALSE)
    /\ Jump(c, "send", "tell") /\ Local(c)

ResetFlags(c) ==
    \/ /\ At(c, "send", "reset")
       /\ Store(c, "transferComplete", FALSE)
       /\ Jump(c, "send", "clear") /\ Local(c)
    \/ /\ At(c, "send", "clear")
       /\ Store(c, "fileTransfer", FALSE)
       /\ Jump(c, "send", "loop") /\ Local(c)

(* /sys, an unknown command, an upload without an extension *)
HandleLocally(c) ==
    /\ At(c, "send", "dispatch")
    /\ line[c].kind = "local" \/ ~CanSend(c)
    /\ Proceed(c, "send", "loop")

SendLine(c) ==
    /\ At(c, "send", "dispatch")
    /\ line[c].kind # "local"
    /\ CanSend(c)
    /\ Put(c, [kind |-> line[c].kind, arg |-> line[c].arg])
    /\ client' = IF line[c].kind = "quit" THEN [client EXCEPT ![c] = "leaving"] ELSE client
    /\ Jump(c, "send", CASE line[c].kind = "quit" -> "signal"
                         [] line[c].kind = "upload" -> "lock"
                         [] OTHER -> "loop")
    /\ UNCHANGED <<serving, flag, line, message, heard, typed, answer, mishap>>

-----------------------------------------------------------------------------
(* recvMessageLoop and handleIncomingMessage *)

RecvTestsQuit(c) ==
    /\ At(c, "recv", "loop")
    /\ Jump(c, "recv", IF flag[c].shouldQuit THEN "done" ELSE "recv")
    /\ message' = [message EXCEPT ![c] = "garbled"]
    /\ UNCHANGED <<serving, socketState, flag, line, heard, typed, answer, mishap>>

(* recvMessage returns "" for what it cannot open, and on a closed socket *)
ReceiveMessage(c) ==
    /\ At(c, "recv", "recv")
    /\ \/ /\ \E k \in 1..(Len(outbox[c]) - heard[c]) :
                /\ receive(c, k)
                /\ message' = [message EXCEPT ![c] = IF k = 1 THEN Next1(c) ELSE "garbled"]
          /\ Jump(c, "recv", IF message'[c] \in {"garbled", "unfound"} THEN "loop" ELSE "test")
       \/ /\ client[c] = "closed" /\ Jump(c, "recv", "loop")
          /\ UNCHANGED <<heard, mishap, message>>
    /\ UNCHANGED <<serving, socketState, flag, line, typed, answer>>

(* an approval that comes before the sending thread has raised the flag is *)
(* only printed                                                            *)
TestTransfer(c) ==
    /\ At(c, "recv", "test")
    /\ Jump(c, "recv", IF flag[c].fileTransfer THEN "tlock" ELSE "handle")
    /\ mishap' = [mishap EXCEPT ![c] = @ \/ (message[c] = "approved" /\ ~flag[c].fileTransfer)]
    /\ UNCHANGED <<serving, socketState, flag, line, message, heard, typed, answer>>

Handle(c) ==
    /\ At(c, "recv", "handle")
    /\ Proceed(c, "recv", CASE flag[c].shouldQuit -> "loop"
                            [] message[c] = "end" -> "signal"
                            [] message[c] = "request" -> "lock"
                            [] OTHER -> "loop")

(* without setting decided *)
RecvDecidesNothing(c) ==
    /\ At(c, "recv", "tlock")
    /\ CompleteMutexFree(c, "recv")
    /\ Proceed(c, "recv", "tmark")

(* during a transfer any message decides: the mutex and the flag, ... *)
RecvDecides(c) ==
    /\ At(c, "recv", "tlock")
    /\ CompleteMutexFree(c, "recv")
    /\ Store(c, "decided", TRUE)
    /\ Jump(c, "recv", "tmark")
    /\ mishap' = [mishap EXCEPT ![c] = @ \/ at[c]["send"] \notin Waiting]
    /\ UNCHANGED <<serving, socketState, line, message, heard, typed, answer>>

(* ... and whether it is the approval *)
RecvMarks(c) ==
    /\ At(c, "recv", "tmark")
    /\ Store(c, "fileTransfer", message[c] = "approved")
    /\ Jump(c, "recv", "tell") /\ Local(c)

(* "$Yes" or "$No"; on a closed socket the exception ends the thread *)
SendAnswer(c) ==
    /\ at[c]["recv"] \in {"yes", "no"}
    /\ \/ /\ CanSend(c)
          /\ Put(c, [kind |-> IF At(c, "recv", "yes") THEN "yes" ELSE "chat",
                     arg |-> HostName])
          /\ Jump(c, "recv", IF At(c, "recv", "yes") THEN "first" ELSE "complete")
       \/ ~CanSend(c) /\ Jump(c, "recv", "done") /\ UNCHANGED <<inbox, sent>>
    /\ UNCHANGED <<serving, client, flag, line, message, heard, typed, answer, mishap>>

(* and downloadFile is never called *)
ReceiveFirstOnly(c) ==
    /\ At(c, "recv", "first")
    /\ \/ \E k \in 1..(Len(outbox[c]) - heard[c]) : receive(c, k)
       \/ client[c] = "closed" /\ UNCHANGED <<heard, mishap>>
    /\ Jump(c, "recv", "complete")
    /\ UNCHANGED <<serving, socketState, flag, line, message, typed, answer>>

(* the message after "$Yes" is printed, whatever it is *)
ReceiveFirst(c) ==
    /\ At(c, "recv", "first")
    /\ \/ \E k \in 1..(Len(outbox[c]) - heard[c]) : receive(c, k)
       \/ client[c] = "closed" /\ UNCHANGED <<heard, mishap>>
    /\ Jump(c, "recv", "fetch")
    /\ UNCHANGED <<serving, socketState, flag, line, message, typed, answer>>

-----------------------------------------------------------------------------

EitherThread(c, t) ==
    \/ Signal(c, t) \/ NotifyQuit(c, t) \/ LockTransfer(c, t) \/ AwaitDecided(c, t)
    \/ AwaitComplete(c, t) \/ FallAsleep(c, t) \/ Choose(c, t) \/ FetchInfo(c, t)
    \/ Complete(c, t) \/ WakeOther(c, t) \/ TellDecision(c, t)

SendThread(c) ==
    \/ EitherThread(c, "send") \/ Unmark(c) \/ SendTestsQuit(c) \/ Decides(c) \/ Refuse(c)
    \/ ResetFlags(c) \/ HandleLocally(c) \/ SendLine(c)

RecvThread(c) ==
    \/ EitherThread(c, "recv") \/ RecvTestsQuit(c) \/ ReceiveMessage(c) \/ TestTransfer(c)
    \/ Handle(c) \/ RecvDecides(c) \/ RecvMarks(c) \/ SendAnswer(c) \/ ReceiveFirst(c)

QuitThread(c) ==
    \/ StartThreads(c) \/ MainTests(c) \/ MainSleeps(c) \/ closeClient(c) \/ JoinThreads(c)

ClientProgram(c) ==
    \/ SendThread(c) \/ RecvThread(c) \/ QuitThread(c) \/ Type(c)
    \/ \E t \in {"send", "recv"} : TransferReturns(c, t)
    \/ \E t \in {"send", "recv", "main"} : WakesAlone(c, t)

=============================================================================
