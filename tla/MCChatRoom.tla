----------------------------- MODULE MCChatRoom -----------------------------
(* Instances of ChatRoom.  In ServingInit the server has started, every    *)
(* client but those in Late has logged in under a name of its own, nobody  *)
(* has said anything since, and the main thread is at MainAt.              *)
EXTENDS ChatRoom, TLC

CONSTANTS
    host, a, b, d,
    h1, h2, h3,
    hostName, aName, bName, dName,
    MainAt,
    Late

MainOnly == {Main}

NameOf(u) == CASE u = a -> aName [] u = b -> bName [] u = d -> dName [] u = host -> hostName
HandleOf(u) == CASE u = a -> h1 [] u = b -> h2 [] u = d -> h3 [] u = host -> Listen

ServingInit ==
    /\ username = [u \in Users |-> IF u \in Late THEN Anon ELSE NameOf(u)]
    /\ isTransfering = [u \in Users |-> FALSE]
    /\ decision = [u \in Users |-> "none"]
    /\ futureTaken = [u \in Users |-> FALSE]
    /\ users = SelectSeq(<<host, a, b, d>>, LAMBDA u : u \in Users \ Late)
    /\ freed = {}
    /\ usersMutex = Nobody
    /\ sock = [u \in Users |-> IF u \in Late THEN Nobody ELSE HandleOf(u)]
    /\ peer = [h \in Handles \cup {Listen, Nobody} |->
                 IF \E u \in Users \ Late : HandleOf(u) = h
                 THEN CHOOSE u \in Users \ Late : HandleOf(u) = h ELSE Nobody]
    /\ client = [u \in Clients |-> IF u \in Late THEN "out" ELSE "in"]
    /\ inbox = [u \in Users |-> <<>>]
    /\ outbox = [u \in Users |-> <<>>]
    /\ pc = [t \in Threads \cup {Main} |->
               CASE t = Main -> MainAt [] t = Acceptor -> "select"
                 [] t \in Late -> "idle" [] OTHER -> "recv"]
    /\ msg = [t \in Threads |-> NoPacket]
    /\ target = [t \in Threads |-> Nobody]
    /\ idx = [t \in Threads |-> 0]
    /\ taskQueue = <<>>
    /\ shouldQuit = FALSE
    /\ crashed = FALSE
    /\ sent = [u \in Users |-> 0]

ServingSpec == ServingInit /\ [][Next]_vars
ServingFairSpec == ServingSpec /\ Fairness

-----------------------------------------------------------------------------
(* What is said. *)

One(kind) == [kind |-> kind, arg |-> hostName]
To(kind, n) == [kind |-> kind, arg |-> n]

TwoClients == {a, b}
ThreeClients == {a, b, d}
ThreeHandles == {h1, h2, h3}
FourNames == {hostName, aName, bName, dName}

(* MCChat: two clients and the host chat, a third client asks and listens *)
ChatSays ==
    [u \in Users |-> IF u = a THEN {One("users"), One("commands")} ELSE {One("chat")}]
ChatQuota == [u \in Users |-> IF u = b THEN 2 ELSE 1]

(* MCLogin: a name is contested, who is in may leave, the host may speak   *)
LoginSays ==
    [u \in Users |-> CASE u = a -> {To("name", aName), One("quit")}
                       [] u = b -> {To("name", aName), To("name", bName), One("quit")}
                       [] OTHER -> {One("chat")}]
LoginQuota == [u \in Users |-> IF u = Host THEN 1 ELSE 2]
TwoHandles == {h1, h2}
HandleSymmetry == Permutations(TwoHandles)
OnlyB == {b}

(* MCUpload: uploads to b and to the host overlap and follow one another; *)
(* b may agree, leave, or upload itself                                    *)
Uploads(V) == {To("upload", NameOf(v)) : v \in V}
UploadSays ==
    [u \in Users |->
       CASE u = a -> Uploads({b, Host})
         [] u = b -> {One("yes"), One("quit")} \cup Uploads({Host})
         [] OTHER -> {One("yes")} \cup Uploads({b})]
UploadQuota == [u \in Users |-> IF u = b THEN 2 ELSE 1]

(* MCInTurn: a uploads to b or to the host, and then once more *)
InTurnSays ==
    [u \in Users |->
       CASE u = a -> Uploads({b, Host})
         [] u = b -> {One("yes"), One("chat")}
         [] OTHER -> {One("yes")}]
InTurnQuota == [u \in Users |-> IF u = a THEN 2 ELSE 1]

(* MCEndUpload: the host ends the session while a uploads to b *)
EndUploadSays ==
    [u \in Users |->
       CASE u = a -> Uploads({b})
         [] u = b -> {One("yes")}
         [] OTHER -> {One("end")}]

(* MCServe: the commands that are not uploads *)
ServeSays ==
    [u \in Users |->
       CASE u = a -> {One("quit")}
         [] u = b -> {To("whisper", aName), One("chat")}
         [] OTHER -> {One("users"), One("end")}]

OneEach == [u \in Users |-> 1]

=============================================================================
