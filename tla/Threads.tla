------------------------------- MODULE Threads ------------------------------
(***************************************************************************)
(* The threads of the server: main(), the thread of getConnections, one    *)
(* thread per client for handleClient and the host's for sendMessageLoop.  *)
(* A thread is named by the participant it serves.  Each step of the       *)
(* modules that extend this one is a critical section, a blocking call, or *)
(* one access to state that other threads use outside a lock.              *)
(***************************************************************************)
EXTENDS Server

CONSTANTS
    Acceptor,  \* the thread of getConnections
    Main,      \* the thread of main()
    PoolSize,  \* THREAD_COUNT
    Says,      \* Says[u]: the lines u may send or type, and the names u tries
    Quota,     \* Quota[u]: how many of them u sends at most
    MayDrop,   \* the clients whose connection may break
    Restless   \* the threads whose waits may end by themselves

Line == [kind : Kinds \ {"garbled", "left"}, arg : Names]

ASSUME ChatRoomAssumption ==
    /\ Acceptor # Main /\ {Acceptor, Main} \cap (Users \cup {Nobody}) = {}
    /\ PoolSize \in Nat
    /\ Says \in [Users -> SUBSET Line]
    /\ Quota \in [Users -> Nat]
    /\ MayDrop \subseteq Clients
    /\ \A s \in Says[Host] : s.kind \notin {"quit", "name"}
    /\ \A c \in Clients : \A s \in Says[c] : s.kind # "end"

VARIABLES
    pc,          \* pc[t]: where thread t is
    msg,         \* msg[t]: the packet thread t is handling
    target,      \* target[t]: the User or the socket thread t has looked up
    idx,         \* idx[t]: the loop variable of a broadcast
    taskQueue,   \* the thread pool's queue
    shouldQuit,  \* the flag /end raises
    crashed,     \* the process has been terminated by the run time
    sent         \* sent[u]: how many lines u has sent

locals == <<msg, target, idx>>
control == <<taskQueue, shouldQuit, crashed>>
vars == <<userVars, serverVars, pc, locals, control, sent>>

Threads == Users \cup {Acceptor}

Outside == {"idle", "done"}
AcceptorPC == {"test", "select", "handshake", "add", "login", "exists", "taken",
               "valid", "setname", "push"}
Saying == {"reply", "unfound", "whisper", "invalid", "request", "approved1", "approved2",
           "denied1", "denied2", "failed1", "failed2"}
Negotiating == {"markSelf", "request", "get", "await", "approved1", "approved2", "info",
                "stream", "denied1", "denied2", "failed1", "failed2", "report",
                "unmarkThem"}
Uploading == Negotiating \cup {"markThem", "unmarkSelf"}
HandlerPC == {"loop", "recv", "decide", "parked", "dispatch", "scan", "send", "find",
              "catch", "ending", "notify"} \cup Saying \cup Uploading
MainPC == {"check", "blocking", "asleep", "joining", "closed"}

PcTypeOK ==
    /\ pc \in [Threads \cup {Main} -> Outside \cup AcceptorPC \cup HandlerPC \cup MainPC]
    /\ pc[Acceptor] \in Outside \cup AcceptorPC
    /\ \A u \in Users : pc[u] \in Outside \cup HandlerPC
    /\ pc[Main] \in MainPC

StackTypeOK ==
    /\ msg \in [Threads -> Packet]
    /\ target \in [Threads -> Users \cup Handles \cup {Listen, Nobody}]
    /\ idx \in [Threads -> Nat]

TypeOK ==
    /\ UserTypeOK
    /\ ServerTypeOK
    /\ PcTypeOK
    /\ StackTypeOK
    /\ taskQueue \in Seq(Threads)
    /\ shouldQuit \in BOOLEAN
    /\ crashed \in BOOLEAN
    /\ sent \in [Users -> Nat]

(* run_chat_room has added the host and pushed the first two tasks *)
Init ==
    /\ UserInit
    /\ ServerInit
    /\ pc = [t \in Threads \cup {Main} |-> IF t = Main THEN "check" ELSE "idle"]
    /\ msg = [t \in Threads |-> NoPacket]
    /\ target = [t \in Threads |-> Nobody]
    /\ idx = [t \in Threads |-> 0]
    /\ taskQueue = <<Acceptor, Host>>
    /\ shouldQuit = FALSE
    /\ crashed = FALSE
    /\ sent = [u \in Users |-> 0]

Goto(t, l) == pc' = [pc EXCEPT ![t] = l]

(* thread t goes on and changes nothing else *)
Moves(t, l) == Goto(t, l) /\ UNCHANGED <<userVars, serverVars, locals, control, sent>>

(* the handler returns to its loop: what it held on its stack is gone *)
BackToLoop(t) ==
    /\ Goto(t, "loop")
    /\ msg' = [msg EXCEPT ![t] = NoPacket]
    /\ target' = [target EXCEPT ![t] = Nobody]
    /\ idx' = [idx EXCEPT ![t] = 0]

=============================================================================
