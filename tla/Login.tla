-------------------------------- MODULE Login -------------------------------
(***************************************************************************)
(* getConnections: one client at a time, from the pending connection to    *)
(* the task that will serve it.                                            *)
(***************************************************************************)
EXTENDS Threads

AcceptorTest ==
    /\ pc[Acceptor] = "test"
    /\ Moves(Acceptor, IF shouldQuit THEN "done" ELSE "select")

SelectTimesOut ==
    /\ pc[Acceptor] = "select"
    /\ \A c \in Clients : client[c] # "dialing"
    /\ Moves(Acceptor, "test")

Accept ==
    /\ pc[Acceptor] = "select"
    /\ \E c \in Clients, h \in Handles :
          /\ client[c] = "dialing"
          /\ accept(c, h)
          /\ target' = [target EXCEPT ![Acceptor] = c]
    /\ Goto(Acceptor, "handshake")
    /\ UNCHANGED <<userVars, registryVars, client, inbox, outbox, msg, idx, control, sent>>

(* send_pk, receive_pk *)
ExchangeKeys ==
    /\ pc[Acceptor] = "handshake"
    /\ client[target[Acceptor]] = "dialing"
    /\ client' = [client EXCEPT ![target[Acceptor]] = "naming"]
    /\ Goto(Acceptor, "add")
    /\ UNCHANGED <<userVars, registryVars, socketVars, inbox, outbox, locals, control, sent>>

(* getConnection returns nullptr: the User is destroyed, its socket stays  *)
(* open.  It need not come to that: send_pk does not test for SOCKET_ERROR *)
(* and goes on for ever when its send fails (Fairness of ChatRoom.tla).    *)
HandshakeFails ==
    /\ pc[Acceptor] = "handshake"
    /\ client[target[Acceptor]] = "closed"
    /\ freed' = freed \cup {target[Acceptor]}
    /\ target' = [target EXCEPT ![Acceptor] = Nobody]
    /\ Goto(Acceptor, "test")
    /\ UNCHANGED <<userVars, users, usersMutex, socketVars, client, inbox, outbox, msg,
                   idx, control, sent>>

AddUser ==
    /\ pc[Acceptor] = "add"
    /\ addUser(target[Acceptor])
    /\ Goto(Acceptor, "login")
    /\ UNCHANGED <<userVars, freed, usersMutex, socketVars, client, inbox, outbox, locals,
                   control, sent>>

ReceiveName ==
    /\ pc[Acceptor] = "login"
    /\ LET c == target[Acceptor] IN
       \E k \in 1..Len(inbox[c]) :
          /\ msg' = [msg EXCEPT ![Acceptor] = Opened(c, c, k)]
          /\ inbox' = [inbox EXCEPT ![c] = SubSeq(@, k + 1, Len(@))]
    /\ Goto(Acceptor, "exists")
    /\ UNCHANGED <<userVars, registryVars, socketVars, client, outbox, target, idx,
                   control, sent>>

(* recvMessage throws and nothing in this thread catches: std::terminate *)
LoginLost ==
    /\ pc[Acceptor] = "login"
    /\ client[target[Acceptor]] = "closed"
    /\ inbox[target[Acceptor]] = <<>>
    /\ crashed' = TRUE
    /\ UNCHANGED <<userVars, serverVars, pc, locals, taskQueue, shouldQuit, sent>>

CheckName ==
    /\ pc[Acceptor] = "exists"
    /\ Unlocked
    /\ Moves(Acceptor, IF userExists(msg[Acceptor].arg) THEN "taken" ELSE "valid")

(* a name that is taken is refused and set all the same *)
AnswerNameAnyway ==
    /\ pc[Acceptor] \in {"taken", "valid"}
    /\ sendMessage(target[Acceptor], [kind |-> pc[Acceptor], from |-> Host, n |-> 0])
    /\ Goto(Acceptor, "setname")
    /\ UNCHANGED <<userVars, registryVars, socketVars, client, inbox, locals, control, sent>>

AnswerName ==
    /\ pc[Acceptor] \in {"taken", "valid"}
    /\ sendMessage(target[Acceptor], [kind |-> pc[Acceptor], from |-> Host, n |-> 0])
    /\ Goto(Acceptor, IF pc[Acceptor] = "taken" THEN "login" ELSE "setname")
    /\ UNCHANGED <<userVars, registryVars, socketVars, client, inbox, locals, control, sent>>

SetName ==
    /\ pc[Acceptor] = "setname"
    /\ setUsername(target[Acceptor], msg[Acceptor].arg)
    /\ Goto(Acceptor, "push")
    /\ UNCHANGED <<isTransfering, decision, futureTaken, serverVars, locals, control, sent>>

PushHandler ==
    /\ pc[Acceptor] = "push"
    /\ taskQueue' = Append(taskQueue, target[Acceptor])
    /\ msg' = [msg EXCEPT ![Acceptor] = NoPacket]
    /\ target' = [target EXCEPT ![Acceptor] = Nobody]
    /\ Goto(Acceptor, "test")
    /\ UNCHANGED <<userVars, serverVars, idx, shouldQuit, crashed, sent>>

=============================================================================
