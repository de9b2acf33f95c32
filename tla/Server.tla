------------------------------- MODULE Server -------------------------------
(***************************************************************************)
(* Server.h: the registry of users under usersMutex, the sockets, and what *)
(* travels over them.                                                      *)
(*                                                                         *)
(* A socket is a handle of the operating system: closesocket gives it back *)
(* and a later accept may return it again.  A User keeps its handle in a   *)
(* member that nobody clears.  Encryption is modelled by what it does: a   *)
(* packet is opened only by the client whose key it was sealed with, and   *)
(* two packets that arrive in one recv cannot be opened at all.            *)
(*                                                                         *)
(* A User that was erased from the vector has been destroyed; the model    *)
(* keeps its name in freed, and the last contents of its members, which is *)
(* what a thread reads through a stale pointer when it does not crash.     *)
(***************************************************************************)
EXTENDS User, SequencesExt

CONSTANTS
    Handles,  \* the values accept can return
    Listen,   \* listeningSocket, the handle of the host's User
    Nobody    \* no user, no client, no thread

ASSUME ServerAssumption ==
    /\ Listen \notin Handles
    /\ Nobody \notin Users
    /\ (Handles \cup {Listen}) \cap (Users \cup {Nobody}) = {}

VARIABLES
    users,       \* the vector of registered Users
    freed,       \* the Users that have been destroyed
    usersMutex,  \* the thread that holds it across steps, or Nobody
    sock,        \* sock[u]: the member sock
    peer,        \* peer[h]: whom the open handle h is connected to
    client,      \* client[c]: how far client c is
    inbox,       \* inbox[u]: what u has sent or typed and nobody has read
    outbox       \* outbox[u]: what was delivered to u, or shown to the host

registryVars == <<users, freed, usersMutex>>
socketVars == <<sock, peer>>
serverVars == <<registryVars, socketVars, client, inbox, outbox>>

Kinds == {"name", "chat", "quit", "users", "commands", "whisper", "upload",
          "yes", "end", "garbled", "left"}
Packet == [kind : Kinds, arg : Names \cup {Blank}, n : Nat]
NoPacket == [kind |-> "garbled", arg |-> Blank, n |-> 0]

Notices == {"valid", "taken", "chat", "end", "left", "roster", "commands", "whisper",
            "unfound", "invalid", "request", "approved", "denied", "failed", "info",
            "garbled"}
Message == [kind : Notices, from : Users, n : Nat]

ClientState == {"out", "dialing", "naming", "asking", "in", "leaving", "closed"}

ServerTypeOK ==
    /\ users \in Seq(Users)
    /\ freed \subseteq Users
    /\ usersMutex \in Users \cup {Nobody}
    /\ sock \in [Users -> Handles \cup {Listen, Nobody}]
    /\ peer \in [Handles \cup {Listen, Nobody} -> Users \cup {Nobody}]
    /\ client \in [Clients -> ClientState]
    /\ inbox \in [Users -> Seq(Packet)]
    /\ outbox \in [Users -> Seq(Message)]

(* the host's User has been added, the threads are about to start *)
ServerInit ==
    /\ users = <<Host>>
    /\ freed = {}
    /\ usersMutex = Nobody
    /\ sock = [u \in Users |-> IF u = Host THEN Listen ELSE Nobody]
    /\ peer = [h \in Handles \cup {Listen, Nobody} |-> IF h = Listen THEN Host ELSE Nobody]
    /\ client = [c \in Clients |-> "out"]
    /\ inbox = [u \in Users |-> <<>>]
    /\ outbox = [u \in Users |-> <<>>]

Registered == ToSet(users)
Unlocked == usersMutex = Nobody

(* the loops over users stop at the first match *)
FirstOf(I) == IF I = {} THEN Nobody ELSE users[Min(I)]

findUserByUsername(n) == FirstOf({i \in DOMAIN users : username[users[i]] = n})
userExists(n) == findUserByUsername(n) # Nobody
findSocketByUsername(n) ==
    IF userExists(n) THEN sock[findUserByUsername(n)] ELSE Nobody
findUserBySocket(h) == FirstOf({i \in DOMAIN users : sock[users[i]] = h})

addSocket(u) == Unlocked /\ users' = Append(users, sock[u])

addUser(u) == Unlocked /\ users' = Append(users, u)

(* without the lock_guard *)
removeUserUnlocked(u) ==
    LET I == {i \in DOMAIN users : sock[users[i]] = sock[u]}
    IN  /\ users' = IF I = {} THEN users ELSE RemoveAt(users, Min(I))
        /\ freed' = freed \cup ({FirstOf(I)} \ {Nobody})
        /\ peer' = IF I = {} THEN peer ELSE [peer EXCEPT ![sock[u]] = Nobody]

(* closesocket without the erase *)
removeSocket(u) ==
    /\ Unlocked
    /\ peer' = [peer EXCEPT ![sock[u]] = Nobody]
    /\ UNCHANGED <<users, freed>>

(* find the first User with this User's socket, close the socket, erase it *)
removeUser(u) ==
    LET I == {i \in DOMAIN users : sock[users[i]] = sock[u]}
    IN  /\ Unlocked
        /\ users' = IF I = {} THEN users ELSE RemoveAt(users, Min(I))
        /\ freed' = freed \cup ({FirstOf(I)} \ {Nobody})
        /\ peer' = IF I = {} THEN peer ELSE [peer EXCEPT ![sock[u]] = Nobody]

(* the first half of getConnection: accept, and the User's constructor *)
accept(c, h) ==
    /\ peer[h] = Nobody
    /\ sock' = [sock EXCEPT ![c] = h]
    /\ peer' = [peer EXCEPT ![h] = c]

(* operator==: the same socket and the same username *)
Same(u, v) == sock[u] = sock[v] /\ username[u] = username[v]

(* without encryption anybody's packet would be understood *)
OpenedUnsealed(u, c, k) == IF k = 1 THEN Head(inbox[c]) ELSE NoPacket

(* what one recv on the connection of c makes of k packets: the packet, if *)
(* it is one and sealed with the key of u                                  *)
Opened(u, c, k) == IF k = 1 /\ c = u THEN Head(inbox[c]) ELSE NoPacket

(* the participant that a packet on u's socket gets to *)
Reached(u) ==
    LET c == peer[sock[u]] IN IF c \in Clients /\ client[c] = "closed" THEN Nobody ELSE c

(* sendMessage(m, u): send fails without notice on a closed socket, and a  *)
(* client that does not hold u's key cannot open what it gets              *)
sendMessage(u, m) ==
    LET c == Reached(u)
        got == IF c = u THEN m ELSE [m EXCEPT !.kind = "garbled"]
    IN  outbox' = IF c = Nobody THEN outbox ELSE [outbox EXCEPT ![c] = Append(@, got)]

(* sendTransferInfo: the keys, the port and the address, as one message to *)
(* each of the two; nothing can be sent on the listening socket            *)
sendTransferInfo(u, v) ==
    LET got(c) == [kind |-> IF c \in {u, v} THEN "info" ELSE "garbled", from |-> u, n |-> 0]
    IN  outbox' = [c \in Users |->
                     IF c \in {Reached(u), Reached(v)} \ {Host, Nobody}
                     THEN Append(outbox[c], got(c)) ELSE outbox[c]]

=============================================================================
