--------------------------- MODULE ChatRoomProofs ---------------------------
(* The inductive invariant of ChatRoom, and what it says about the         *)
(* registry: for any set of clients, any number of socket handles, any     *)
(* names, any lines and any size of the thread pool.                       *)
EXTENDS ChatRoomTypes

(* Queued tasks differ, and none has started.                              *)
WaitingTasks ==
    /\ \A i, j \in DOMAIN taskQueue : taskQueue[i] = taskQueue[j] => i = j
    /\ \A i \in DOMAIN taskQueue : pc[taskQueue[i]] = "idle"

(* A User that no handler has served and nobody has destroyed.             *)
Fresh(c) ==
    /\ pc[c] = "idle"
    /\ c \notin ToSet(taskQueue)
    /\ c \notin freed

(* A client that is not connected has no User anywhere yet.                *)
Outsiders ==
    \A c \in Clients : client[c] \in {"out", "dialing"} =>
        /\ Fresh(c) /\ c \notin Registered /\ username[c] = Anon

(* The client that getConnections is busy with: its socket is its own, it  *)
(* is in the registry from addUser on, and its handler has not been        *)
(* pushed.                                                                 *)
Newcomer ==
    pc[Acceptor] \in AcceptorPC \ {"test", "select"} =>
        LET c == target[Acceptor] IN
        /\ c \in Clients /\ Fresh(c) /\ peer[sock[c]] = c
        /\ pc[Acceptor] # "handshake" => client[c] \notin {"out", "dialing"}
        /\ IF pc[Acceptor] \in {"handshake", "add"}
           THEN c \notin Registered /\ username[c] = Anon
           ELSE c \in Registered

(* A handler whose socket still leads to its own client belongs to a       *)
(* registered User, and so does one that handles a /quit: a User removed   *)
(* before has lost its handle for good.                                    *)
Served ==
    \A u \in Users :
        /\ (pc[u] # "idle" \/ u \in ToSet(taskQueue)) /\ peer[sock[u]] = u => u \in Registered
        /\ Handling(u, "quit") => u \in Registered

(* The only registered User without a name is the one logging in.          *)
Nameless ==
    \A u \in Registered : username[u] = Anon =>
        /\ u = target[Acceptor]
        /\ pc[Acceptor] \in {"login", "exists", "taken", "valid", "setname"}

(* From the check to the setting the name stays free.                      *)
NameIsFree ==
    pc[Acceptor] \in {"valid", "setname"} =>
        \A u \in Registered : username[u] # msg[Acceptor].arg

(* The life of a User from the queue to its end.                           *)
Lifecycle == WaitingTasks /\ Outsiders /\ Newcomer /\ Served

(* Names in the registry.                                                  *)
NameInv == Nameless /\ NameIsFree /\ UniqueNames

(* The inductive invariant.                                                *)
IInv == TypeOK /\ BroadcastsOnly /\ Lifecycle /\ RegistryConsistent /\ NameInv
-----------------------------------------------------------------------------
(* What the steps do to the invariant.                                     *)

(* Steps of clients and of the main thread keep the invariant.             *)
LEMMA BystandersInv ==
    ASSUME IInv, TypeOK', Bystands
    PROVE  IInv'
<1> USE NamesApart DEF Bystands, IInv
<1>1. BroadcastsOnly'  BY DEF BroadcastsOnly
<1>2. WaitingTasks'
  <2>1. \A i \in DOMAIN taskQueue : taskQueue[i] \in Threads
    BY DEF TypeOK
  <2>2. QED  BY <2>1 DEF WaitingTasks, Lifecycle
<1>3. Outsiders'  BY DEF Outsiders, Fresh, Registered, Lifecycle
<1>4. Newcomer'  BY DEF Newcomer, Fresh, Registered, Lifecycle
<1>5. Served'  BY DEF Served, Registered, Handling, Lifecycle
<1>6. RegistryConsistent'  BY DEF RegistryConsistent, Registered
<1>7. NameInv'  BY DEF NameInv, Nameless, NameIsFree, UniqueNames, Registered
<1>8. QED  BY <1>1, <1>2, <1>3, <1>4, <1>5, <1>6, <1>7 DEF Lifecycle

(* Steps of a handler other than /quit keep the invariant.                 *)
LEMMA KeepsInv ==
    ASSUME IInv, TypeOK', NEW t \in Users, Keeps(t), UNCHANGED <<users, freed, peer>>
    PROVE  IInv'
<1> USE NamesApart DEF Keeps, IInv
<1>0. t # Acceptor /\ t \in Threads /\ pc[t] # "idle"
  BY DEF Outside
<1>1. BroadcastsOnly'  BY DEF BroadcastsOnly
<1>2. WaitingTasks'
  <2>1. \A i \in DOMAIN taskQueue : taskQueue[i] \in Threads
    BY DEF TypeOK
  <2>2. QED  BY <1>0, <2>1 DEF WaitingTasks, Lifecycle
<1>3. Outsiders'  BY <1>0 DEF Outsiders, Fresh, Registered, Lifecycle
<1>4. Newcomer'  BY <1>0 DEF Newcomer, Fresh, Registered, Lifecycle
<1>5. Served'  BY <1>0 DEF Served, Registered, Handling, Lifecycle
<1>6. RegistryConsistent'  BY DEF RegistryConsistent, Registered
<1>7. NameInv'  BY <1>0 DEF NameInv, Nameless, NameIsFree, UniqueNames, Registered
<1>8. QED  BY <1>1, <1>2, <1>3, <1>4, <1>5, <1>6, <1>7 DEF Lifecycle

(* What erasing one element of a sequence leaves (vector::erase in         *)
(* removeUser).                                                            *)
LEMMA RemoveAtIs ==
    ASSUME NEW S, NEW s \in Seq(S), NEW k \in 1..Len(s)
    PROVE  LET r == RemoveAt(s, k) IN
           /\ r \in Seq(S)
           /\ Len(r) = Len(s) - 1
           /\ \A i \in 1..(Len(s) - 1) : r[i] = IF i < k THEN s[i] ELSE s[i + 1]
<1> DEFINE p == SubSeq(s, 1, k - 1)
           q == SubSeq(s, k + 1, Len(s))
<1>1. p \in Seq(S) /\ Len(p) = k - 1 /\ \A i \in 1..(k - 1) : p[i] = s[i]
  OBVIOUS
<1>2. q \in Seq(S) /\ Len(q) = Len(s) - k /\ \A i \in 1..(Len(s) - k) : q[i] = s[i + k]
  OBVIOUS
<1> HIDE DEF p, q
<1>3. RemoveAt(s, k) = p \o q  BY DEF RemoveAt, p, q
<1>4. QED  BY <1>1, <1>2, <1>3

(* removeUser of a registered User removes that User and nobody else:      *)
(* sockets of registered Users differ.                                     *)
LEMMA RemovesOwn ==
    ASSUME TypeOK, RegistryConsistent, NEW u \in Registered, removeUser(u)
    PROVE  /\ Registered' = Registered \ {u}
           /\ freed' = freed \cup {u}
           /\ peer' = [peer EXCEPT ![sock[u]] = Nobody]
           /\ IsInjective(users)'
<1> DEFINE I == {i \in DOMAIN users : sock[users[i]] = sock[u]}
           k == Min(I)
<1>1. users \in Seq(Users) /\ DOMAIN users = 1..Len(users)
  BY DEF TypeOK, ServerTypeOK
<1>2. \A i \in DOMAIN users : users[i] \in Registered /\ users[i] \in Users
  BY <1>1 DEF Registered, ToSet
<1>3. PICK j \in DOMAIN users : users[j] = u
  BY DEF Registered, ToSet
<1>4. I = {j}
  BY <1>2, <1>3 DEF RegistryConsistent, IsInjective
<1>5. /\ users' = RemoveAt(users, k)
      /\ freed' = freed \cup ({FirstOf(I)} \ {Nobody})
      /\ peer' = [peer EXCEPT ![sock[u]] = Nobody]
  BY <1>4 DEF removeUser
<1>6. k = j /\ FirstOf(I) = u
  <2> HIDE DEF I
  <2>1. Min(I) \in I /\ FirstOf(I) = users[Min(I)]
    BY <1>1, <1>3, <1>4, FirstOfIsIn
  <2>2. QED  BY <1>3, <1>4, <2>1
<1> HIDE DEF I, k
<1>7. /\ users' \in Seq(Users) /\ Len(users') = Len(users) - 1
      /\ \A i \in 1..(Len(users) - 1) : users'[i] = IF i < j THEN users[i] ELSE users[i + 1]
  BY <1>1, <1>3, <1>5, <1>6, RemoveAtIs
<1>8. DOMAIN users' = 1..(Len(users) - 1)
  BY <1>1, <1>7
<1>9. IsInjective(users)'
  BY <1>1, <1>3, <1>7, <1>8 DEF IsInjective, RegistryConsistent
<1>10. Registered' = Registered \ {u}
  <2>1. ASSUME NEW v \in Registered' PROVE v \in Registered \ {u}
    <3>1. PICK i \in DOMAIN users' : users'[i] = v  BY <2>1 DEF Registered, ToSet
    <3>2. PICK m \in DOMAIN users : m # j /\ users[m] = v
      BY <1>1, <1>3, <1>7, <1>8, <3>1
    <3>3. QED  BY <1>2, <1>3, <3>2 DEF IsInjective, RegistryConsistent
  <2>2. ASSUME NEW v \in Registered, v # u PROVE v \in Registered'
    <3>1. PICK m \in DOMAIN users : users[m] = v  BY <2>2 DEF Registered, ToSet
    <3>2. m # j  BY <1>3, <2>2, <3>1
    <3>3. CASE m < j
      <4>1. m \in DOMAIN users' /\ users'[m] = v
        BY <1>1, <1>3, <1>7, <1>8, <3>1, <3>3
      <4>2. QED  BY <4>1 DEF Registered, ToSet
    <3>4. CASE m > j
      <4>1. m - 1 \in DOMAIN users' /\ users'[m - 1] = v
        BY <1>1, <1>3, <1>7, <1>8, <3>1, <3>4
      <4>2. QED  BY <4>1 DEF Registered, ToSet
    <3>5. QED  BY <1>1, <1>3, <3>1, <3>2, <3>3, <3>4
  <2>3. QED  BY <2>1, <2>2
<1>11. u \in Users /\ u # Nobody
  BY <1>2, <1>3, NamesApart
<1>12. QED  BY <1>5, <1>6, <1>9, <1>10, <1>11

(* What push_back of a new element adds (addUser, pushTask).               *)
LEMMA AppendIs ==
    ASSUME NEW S, NEW s \in Seq(S), NEW x \in S, x \notin ToSet(s), IsInjective(s)
    PROVE  ToSet(Append(s, x)) = ToSet(s) \cup {x} /\ IsInjective(Append(s, x))
<1> DEFINE r == Append(s, x)
<1>1. DOMAIN s = 1..Len(s) /\ Len(s) \in Nat
  OBVIOUS
<1>2. DOMAIN r = 1..(Len(s) + 1) /\ r[Len(s) + 1] = x /\ \A i \in 1..Len(s) : r[i] = s[i]
  OBVIOUS
<1> HIDE DEF r
<1>3. \A i \in 1..Len(s) : s[i] # x
  BY <1>1 DEF ToSet
<1>4. ToSet(r) = ToSet(s) \cup {x}
  BY <1>1, <1>2 DEF ToSet
<1>5. IsInjective(r)
  BY <1>1, <1>2, <1>3 DEF IsInjective
<1>6. QED  BY <1>4, <1>5 DEF r

(* When userExists says no, no registered User has the name.               *)
LEMMA UnknownName ==
    ASSUME TypeOK, NEW n, ~userExists(n)
    PROVE  \A u \in Registered : username[u] # n
<1> DEFINE I == {i \in DOMAIN users : username[users[i]] = n}
<1>1. users \in Seq(Users) /\ I \in SUBSET DOMAIN users
  BY DEF TypeOK, ServerTypeOK
<1>2. FirstOf(I) = Nobody
  BY DEF userExists, findUserByUsername
<1> HIDE DEF I
<1>3. I = {}
  BY <1>1, <1>2, FirstOfIsIn, NamesApart
<1>4. QED  BY <1>3 DEF I, Registered, ToSet

(* /quit keeps the invariant and removes exactly the User that said it.    *)
LEMMA QuitInv ==
    ASSUME IInv, TypeOK', NEW t \in Users, Keeps(t), Quit(t)
    PROVE  IInv' /\ Registered' = Registered \ {t}
<1> USE NamesApart DEF IInv
<1>1. t # Acceptor /\ t \in Threads /\ pc[t] = "dispatch" /\ t \in Registered
  BY DEF Quit, Handling, Lifecycle, Served
<1>2. /\ Registered' = Registered \ {t}
      /\ freed' = freed \cup {t}
      /\ peer' = [peer EXCEPT ![sock[t]] = Nobody]
      /\ IsInjective(users)'
  BY <1>1, RemovesOwn DEF Quit
<1>3. pc'[t] = "loop" /\ UNCHANGED <<username, sock, client, taskQueue>>
      /\ \A v \in Threads \ {t} : pc'[v] = pc[v] /\ msg'[v] = msg[v] /\ target'[v] = target[v]
  BY <1>1 DEF Quit, Keeps, BackToLoop, Goto, TypeOK, PcTypeOK
<1>4. ASSUME NEW u \in Registered'
      PROVE  peer'[sock'[u]] = u
  <2>1. u \in Registered /\ u # t  BY <1>2
  <2>2. peer[sock[u]] = u /\ peer[sock[t]] = t  BY <1>1, <2>1 DEF RegistryConsistent
  <2>3. sock[u] # sock[t]  BY <2>1, <2>2
  <2>4. sock[t] \in DOMAIN peer  BY DEF TypeOK, ServerTypeOK
  <2>5. QED  BY <1>2, <1>3, <2>2, <2>3, <2>4
<1>5. BroadcastsOnly'  BY <1>1, <1>3 DEF BroadcastsOnly
<1>6. WaitingTasks'
  <2>1. \A i \in DOMAIN taskQueue : taskQueue[i] \in Threads
    BY DEF TypeOK
  <2>2. QED  BY <1>1, <1>3, <2>1 DEF WaitingTasks, Lifecycle
<1>7. Outsiders'  BY <1>1, <1>2, <1>3 DEF Outsiders, Fresh, Lifecycle
<1>8. Newcomer'
  <2>1. ASSUME pc[Acceptor] \in AcceptorPC \ {"test", "select"}
        PROVE  peer'[sock[target[Acceptor]]] = target[Acceptor] /\ target[Acceptor] # t
    BY <1>1, <1>2, <2>1 DEF Newcomer, Fresh, Lifecycle, RegistryConsistent, TypeOK,
         ServerTypeOK
  <2>2. QED  BY <1>1, <1>2, <1>3, <2>1 DEF Newcomer, Fresh, Lifecycle
<1>9. Served'
  <2>1. \A u \in Users : peer'[sock[u]] = u => peer[sock[u]] = u /\ u # t
    BY <1>2, <1>1 DEF TypeOK, ServerTypeOK
  <2>2. QED  BY <1>1, <1>2, <1>3, <2>1 DEF Served, Handling, Lifecycle
<1>10. RegistryConsistent'
  BY <1>1, <1>2, <1>3, <1>4 DEF RegistryConsistent
<1>11. NameInv'
  BY <1>1, <1>2, <1>3 DEF NameInv, Nameless, NameIsFree, UniqueNames
<1>12. QED
  BY <1>2, <1>5, <1>6, <1>7, <1>8, <1>9, <1>10, <1>11 DEF Lifecycle

(* Starting a task keeps the invariant.                                    *)
LEMMA StartInv ==
    ASSUME IInv, TypeOK', StartTask
    PROVE  IInv'
<1> USE NamesApart DEF IInv
<1> DEFINE t == Head(taskQueue)
<1>1. /\ taskQueue \in Seq(Threads) /\ taskQueue # <<>> /\ t = taskQueue[1]
      /\ taskQueue' = Tail(taskQueue)
      /\ DOMAIN taskQueue = 1..Len(taskQueue)
      /\ DOMAIN taskQueue' = 1..(Len(taskQueue) - 1)
      /\ \A i \in DOMAIN taskQueue' : taskQueue'[i] = taskQueue[i + 1]
  BY DEF StartTask, TypeOK
<1>2. t \in ToSet(taskQueue) /\ t \in Threads
  BY <1>1 DEF ToSet
<1>3. /\ pc[t] = "idle"
      /\ \A i \in DOMAIN taskQueue' : taskQueue'[i] # t /\ taskQueue'[i] \in ToSet(taskQueue)
  BY <1>1 DEF WaitingTasks, Lifecycle, ToSet
<1>4. t \notin ToSet(taskQueue') /\ ToSet(taskQueue') \subseteq ToSet(taskQueue)
  BY <1>3 DEF ToSet
<1>5. /\ UNCHANGED <<userVars, serverVars, locals>>
      /\ \A v \in Threads \ {t} : pc'[v] = pc[v]
      /\ pc'[t] = IF t = Acceptor THEN "test" ELSE "loop"
  BY <1>2 DEF StartTask, Goto, TypeOK, PcTypeOK
<1>6. UNCHANGED <<username, users, freed, sock, peer, client, msg, target>>
  BY <1>5 DEF userVars, serverVars, registryVars, socketVars, locals
<1> HIDE DEF t
<1>7. BroadcastsOnly'  BY <1>5, <1>6 DEF BroadcastsOnly
<1>8. WaitingTasks'
  <2>1. \A i, j \in DOMAIN taskQueue' : taskQueue'[i] = taskQueue'[j] => i = j
    BY <1>1 DEF WaitingTasks, Lifecycle
  <2>2. \A i \in DOMAIN taskQueue' : taskQueue'[i] \in Threads /\ pc[taskQueue'[i]] = "idle"
    BY <1>1 DEF WaitingTasks, Lifecycle
  <2>3. QED  BY <1>3, <1>5, <2>1, <2>2 DEF WaitingTasks
<1>9. Outsiders'
  BY <1>2, <1>4, <1>5, <1>6 DEF Outsiders, Fresh, Lifecycle, Registered
<1>10. Newcomer'
  BY <1>2, <1>3, <1>4, <1>5, <1>6 DEF Newcomer, Fresh, Lifecycle, Registered,
       AcceptorPC
<1>11. Served'
  BY <1>2, <1>3, <1>4, <1>5, <1>6 DEF Served, Handling, Lifecycle, Registered
<1>12. RegistryConsistent'  BY <1>6 DEF RegistryConsistent, Registered
<1>13. NameInv'
  BY <1>3, <1>5, <1>6 DEF NameInv, Nameless, NameIsFree, UniqueNames, Registered
<1>14. QED
  BY <1>7, <1>8, <1>9, <1>10, <1>11, <1>12, <1>13 DEF Lifecycle

(* A step of the acceptor moves no handler and adds no task by itself.     *)
LEMMA AcceptorMoves ==
    ASSUME IInv, NEW l \in AcceptorPC \cup {"done"}, pc[Acceptor] \in AcceptorPC,
           Goto(Acceptor, l), \A v \in Users : msg'[v] = msg[v]
    PROVE  /\ pc'[Acceptor] = l
           /\ \A v \in Users : pc'[v] = pc[v] /\ (Handling(v, "quit")' <=> Handling(v, "quit"))
           /\ BroadcastsOnly'
           /\ UNCHANGED taskQueue => WaitingTasks'
<1> USE NamesApart DEF IInv, Lifecycle
<1>1. pc'[Acceptor] = l /\ \A v \in Threads \ {Acceptor} : pc'[v] = pc[v]
  BY DEF Goto, TypeOK, PcTypeOK
<1>2. \A v \in Users : pc'[v] = pc[v] /\ (Handling(v, "quit")' <=> Handling(v, "quit"))
  BY <1>1 DEF Handling
<1>3. BroadcastsOnly'
  BY <1>2 DEF BroadcastsOnly
<1>4. ASSUME UNCHANGED taskQueue PROVE WaitingTasks'
  <2>1. \A i \in DOMAIN taskQueue : taskQueue[i] \in Threads  BY DEF TypeOK
  <2>2. pc[Acceptor] # "idle"  BY DEF AcceptorPC
  <2>3. QED  BY <1>1, <1>4, <2>1, <2>2 DEF WaitingTasks
<1>5. QED  BY <1>1, <1>2, <1>3, <1>4

(* Every step of getConnections keeps the invariant; the name that was     *)
(* free when it was checked is still free when it is set, because only     *)
(* this thread sets names.                                                 *)
LEMMA AcceptorInv ==
    ASSUME IInv, TypeOK', AcceptorStep
    PROVE  IInv'
<1> USE NamesApart DEF userVars, serverVars, registryVars, socketVars, locals,
         control, Lifecycle, NameInv, IInv
<1>0. pc[Acceptor] \in AcceptorPC
  BY DEF AcceptorStep, AcceptorTest, SelectTimesOut, Accept, ExchangeKeys,
       HandshakeFails,
         AddUser, ReceiveName, LoginLost, CheckName, AnswerName, SetName,
         PushHandler, AcceptorPC
<1>1. CASE AcceptorTest \/ SelectTimesOut
  <2>1. PICK l \in {"done", "test", "select"} : Goto(Acceptor, l)
    BY <1>1 DEF AcceptorTest, SelectTimesOut, Moves
  <2>2. UNCHANGED <<userVars, serverVars, locals, control, sent>>
    BY <1>1 DEF AcceptorTest, SelectTimesOut, Moves
  <2>3. pc'[Acceptor] = l /\ BroadcastsOnly' /\ WaitingTasks'
        /\ \A v \in Users : pc'[v] = pc[v] /\ (Handling(v, "quit")' <=> Handling(v, "quit"))
    BY <1>0, <2>1, <2>2, AcceptorMoves DEF AcceptorPC
  <2>4. Outsiders' /\ Newcomer' /\ Served' /\ RegistryConsistent'
    BY <2>2, <2>3 DEF Outsiders, Newcomer, Served, Fresh, RegistryConsistent,
         Registered, AcceptorPC
  <2>5. NameInv'
    BY <1>1, <2>2, <2>3 DEF AcceptorTest, SelectTimesOut, Nameless, NameIsFree,
         UniqueNames, Registered
  <2>6. QED  BY <2>3, <2>4, <2>5
<1>2. CASE Accept
  <2>1. PICK c \in Clients, h \in Handles :
            client[c] = "dialing" /\ accept(c, h) /\ target' = [target EXCEPT ![Acceptor] = c]
    BY <1>2 DEF Accept
  <2>2. pc'[Acceptor] = "handshake" /\ BroadcastsOnly' /\ WaitingTasks'
        /\ \A v \in Users : pc'[v] = pc[v] /\ (Handling(v, "quit")' <=> Handling(v, "quit"))
    BY <1>0, <1>2, AcceptorMoves DEF Accept, AcceptorPC
  <2>3. UNCHANGED <<username, users, freed, client, msg, taskQueue>> /\ target'[Acceptor] = c
    BY <1>2, <2>1 DEF Accept, TypeOK, StackTypeOK
  <2>4. Fresh(c) /\ c \notin Registered /\ username[c] = Anon
    BY <2>1 DEF Outsiders
  <2>5. /\ sock' = [sock EXCEPT ![c] = h] /\ peer' = [peer EXCEPT ![h] = c] /\ peer[h] = Nobody
        /\ c \in DOMAIN sock /\ h \in DOMAIN peer
    BY <2>1 DEF accept, TypeOK, ServerTypeOK
  <2>6. peer'[sock'[c]] = c
    BY <2>5
  <2>7. ASSUME NEW u \in Users \ {c}
        PROVE  peer[sock[u]] = u <=> peer'[sock'[u]] = u
    <3>1. sock'[u] = sock[u]  BY <2>5
    <3>2. CASE sock[u] = h  BY <2>5, <3>1, <3>2
    <3>3. CASE sock[u] # h  BY <2>5, <3>1, <3>3
    <3>4. QED  BY <3>2, <3>3
  <2>8. Outsiders'  BY <2>2, <2>3 DEF Outsiders, Fresh, Registered
  <2>9. Newcomer'  BY <2>1, <2>2, <2>3, <2>4, <2>6 DEF Newcomer, Fresh, Registered
  <2>10. Served'  BY <2>2, <2>3, <2>4, <2>7 DEF Served, Fresh, Registered
  <2>11. RegistryConsistent'
    <3>1. Registered \subseteq Users \ {c}
      BY <2>4 DEF Registered, ToSet, TypeOK, ServerTypeOK
    <3>2. QED  BY <2>3, <2>7, <3>1 DEF RegistryConsistent, Registered
  <2>12. NameInv'
    BY <1>2, <2>2, <2>3 DEF Accept, Nameless, NameIsFree, UniqueNames, Registered
  <2>13. QED  BY <2>2, <2>8, <2>9, <2>10, <2>11, <2>12
<1>3. CASE ExchangeKeys
  <2>1. pc'[Acceptor] = "add" /\ BroadcastsOnly' /\ WaitingTasks'
        /\ \A v \in Users : pc'[v] = pc[v] /\ (Handling(v, "quit")' <=> Handling(v, "quit"))
    BY <1>0, <1>3, AcceptorMoves DEF ExchangeKeys, AcceptorPC
  <2>2. UNCHANGED <<username, users, freed, sock, peer, msg, target, taskQueue>>
        /\ client' = [client EXCEPT ![target[Acceptor]] = "naming"]
    BY <1>3 DEF ExchangeKeys
  <2>3. target[Acceptor] \in Clients
    BY <1>3 DEF ExchangeKeys, Newcomer, AcceptorPC
  <2>4. \A c \in Clients : client'[c] \in {"out", "dialing"} =>
            client[c] \in {"out", "dialing"} /\ c # target[Acceptor]
    BY <2>2, <2>3 DEF TypeOK, ServerTypeOK
  <2>5. Outsiders'  BY <2>1, <2>2, <2>4 DEF Outsiders, Fresh, Registered
  <2>6. Newcomer'
    BY <1>3, <2>1, <2>2, <2>3, <2>4 DEF ExchangeKeys, Newcomer, Fresh, Registered,
         AcceptorPC
  <2>7. Served' /\ RegistryConsistent'
    BY <2>1, <2>2 DEF Served, RegistryConsistent, Registered
  <2>8. NameInv'
    BY <1>3, <2>1, <2>2 DEF ExchangeKeys, Nameless, NameIsFree, UniqueNames,
         Registered
  <2>9. QED  BY <2>1, <2>5, <2>6, <2>7, <2>8
<1>4. CASE HandshakeFails
  <2>1. pc'[Acceptor] = "test" /\ BroadcastsOnly' /\ WaitingTasks'
        /\ \A v \in Users : pc'[v] = pc[v] /\ (Handling(v, "quit")' <=> Handling(v, "quit"))
    BY <1>0, <1>4, AcceptorMoves DEF HandshakeFails, AcceptorPC
  <2>2. UNCHANGED <<username, users, sock, peer, client, msg, taskQueue>>
        /\ freed' = freed \cup {target[Acceptor]}
    BY <1>4 DEF HandshakeFails
  <2>3. target[Acceptor] \in Clients /\ target[Acceptor] \notin Registered
        /\ client[target[Acceptor]] = "closed"
    BY <1>4 DEF HandshakeFails, Newcomer, AcceptorPC
  <2>4. Outsiders'  BY <2>1, <2>2, <2>3 DEF Outsiders, Fresh, Registered
  <2>5. Newcomer'  BY <2>1 DEF Newcomer
  <2>6. Served' /\ RegistryConsistent'
    BY <2>1, <2>2, <2>3 DEF Served, RegistryConsistent, Registered
  <2>7. NameInv'
    BY <1>4, <2>1, <2>2 DEF HandshakeFails, Nameless, NameIsFree, UniqueNames,
         Registered
  <2>8. QED  BY <2>1, <2>4, <2>5, <2>6, <2>7
<1>5. CASE AddUser
  <2> DEFINE c == target[Acceptor]
  <2>1. pc'[Acceptor] = "login" /\ BroadcastsOnly' /\ WaitingTasks'
        /\ \A v \in Users : pc'[v] = pc[v] /\ (Handling(v, "quit")' <=> Handling(v, "quit"))
    BY <1>0, <1>5, AcceptorMoves DEF AddUser, AcceptorPC
  <2>2. UNCHANGED <<username, freed, sock, peer, client, msg, target, taskQueue>>
        /\ users' = Append(users, c)
    BY <1>5 DEF AddUser, addUser
  <2>3. /\ c \in Clients /\ Fresh(c) /\ peer[sock[c]] = c
        /\ c \notin Registered /\ username[c] = Anon
        /\ client[c] \notin {"out", "dialing"}
    BY <1>5 DEF AddUser, Newcomer, AcceptorPC
  <2> HIDE DEF c
  <2>4. users \in Seq(Users) /\ c \in Users  BY <2>3 DEF TypeOK, ServerTypeOK
  <2>5. Registered' = Registered \cup {c} /\ IsInjective(users)'
    BY <2>2, <2>3, <2>4, AppendIs DEF Registered, RegistryConsistent
  <2>6. Outsiders'  BY <2>1, <2>2, <2>3, <2>5 DEF Outsiders, Fresh
  <2>7. Newcomer'  BY <2>1, <2>2, <2>3, <2>5 DEF Newcomer, Fresh, c
  <2>8. Served'  BY <2>1, <2>2, <2>5 DEF Served
  <2>9. RegistryConsistent'  BY <2>2, <2>3, <2>5 DEF RegistryConsistent, Fresh
  <2>10. NameInv'
    BY <1>5, <2>1, <2>2, <2>3, <2>5 DEF AddUser, Nameless, NameIsFree, UniqueNames, c
  <2>11. QED  BY <2>1, <2>6, <2>7, <2>8, <2>9, <2>10
<1>6. CASE ReceiveName \/ LoginLost \/ CheckName \/ AnswerName
  <2>1. /\ UNCHANGED <<username, users, freed, sock, peer, client, target, taskQueue>>
        /\ \A v \in Users : msg'[v] = msg[v]
    BY <1>6 DEF ReceiveName, LoginLost, CheckName, AnswerName, Moves, TypeOK,
         StackTypeOK
  <2>2. PICK l \in {"login", "exists", "taken", "valid", "setname"} : Goto(Acceptor, l)
    BY <1>6 DEF ReceiveName, LoginLost, CheckName, AnswerName, Moves, Goto, TypeOK,
         PcTypeOK
  <2>3. pc'[Acceptor] = l /\ BroadcastsOnly' /\ WaitingTasks'
        /\ \A v \in Users : pc'[v] = pc[v] /\ (Handling(v, "quit")' <=> Handling(v, "quit"))
    BY <1>0, <2>1, <2>2, AcceptorMoves DEF AcceptorPC
  <2>4. pc[Acceptor] \in {"login", "exists", "taken", "valid"}
    BY <1>6 DEF ReceiveName, LoginLost, CheckName, AnswerName
  <2>5. Outsiders' /\ Served' /\ RegistryConsistent'
    BY <2>1, <2>3 DEF Outsiders, Served, RegistryConsistent, Fresh, Registered
  <2>6. Newcomer'
    BY <2>1, <2>3, <2>4 DEF Newcomer, Fresh, Registered, AcceptorPC
  <2>7. Nameless' /\ UniqueNames'
    BY <2>1, <2>3, <2>4 DEF Nameless, UniqueNames, Registered
  <2>8. NameIsFree'
    <3>1. CASE l \in {"login", "exists", "taken"}  BY <2>3, <3>1 DEF NameIsFree
    <3>2. CASE pc[Acceptor] = "valid" /\ UNCHANGED msg
      BY <2>1, <3>2 DEF NameIsFree, Registered
    <3>3. CASE CheckName /\ l = "valid"
      <4>1. ~userExists(msg[Acceptor].arg) /\ UNCHANGED msg
        BY <2>3, <3>3, <1>0 DEF CheckName, Moves, Goto, TypeOK, PcTypeOK
      <4>2. \A u \in Registered : username[u] # msg[Acceptor].arg
        BY <4>1, UnknownName
      <4>3. QED  BY <2>1, <4>1, <4>2 DEF NameIsFree, Registered
    <3>4. QED
      BY <1>6, <2>2, <2>3, <3>1, <3>2, <3>3
         DEF ReceiveName, LoginLost, CheckName, AnswerName, Moves, Goto, TypeOK,
         PcTypeOK
  <2>9. QED  BY <2>3, <2>5, <2>6, <2>7, <2>8
<1>7. CASE SetName
  <2> DEFINE c == target[Acceptor]
  <2>1. pc'[Acceptor] = "push" /\ BroadcastsOnly' /\ WaitingTasks'
        /\ \A v \in Users : pc'[v] = pc[v] /\ (Handling(v, "quit")' <=> Handling(v, "quit"))
    BY <1>0, <1>7, AcceptorMoves DEF SetName, AcceptorPC
  <2>2. UNCHANGED <<users, freed, sock, peer, client, msg, target, taskQueue>>
        /\ username' = [username EXCEPT ![c] = msg[Acceptor].arg]
    BY <1>7 DEF SetName, setUsername
  <2>3. c \in Clients /\ Fresh(c) /\ peer[sock[c]] = c /\ c \in Registered
        /\ client[c] \notin {"out", "dialing"}
    BY <1>7 DEF SetName, Newcomer, AcceptorPC
  <2>4. \A u \in Registered : username[u] # msg[Acceptor].arg
    BY <1>7 DEF SetName, NameIsFree
  <2>5. msg[Acceptor].arg # Anon
    BY NamesAssumption DEF TypeOK, StackTypeOK, Packet
  <2>6. /\ username'[c] = msg[Acceptor].arg
        /\ \A u \in Users \ {c} : username'[u] = username[u]
    BY <2>2, <2>3 DEF TypeOK, UserTypeOK
  <2>7. Registered \subseteq Users
    BY DEF Registered, ToSet, TypeOK, ServerTypeOK
  <2> HIDE DEF c
  <2>8. Outsiders'  BY <2>1, <2>2, <2>3, <2>6 DEF Outsiders, Fresh, Registered
  <2>9. Newcomer'  BY <2>1, <2>2, <2>3 DEF Newcomer, Fresh, Registered, c
  <2>10. Served' /\ RegistryConsistent'
    BY <2>1, <2>2 DEF Served, RegistryConsistent, Registered
  <2>11. NameInv'
    BY <2>1, <2>2, <2>3, <2>4, <2>5, <2>6, <2>7 DEF Nameless, NameIsFree,
         UniqueNames, Registered, c
  <2>12. QED  BY <2>1, <2>8, <2>9, <2>10, <2>11
<1>8. CASE PushHandler
  <2> DEFINE c == target[Acceptor]
  <2>1. pc'[Acceptor] = "test" /\ BroadcastsOnly'
        /\ \A v \in Users : pc'[v] = pc[v] /\ (Handling(v, "quit")' <=> Handling(v, "quit"))
    BY <1>0, <1>8, AcceptorMoves DEF PushHandler, AcceptorPC, TypeOK, StackTypeOK
  <2>2. UNCHANGED <<username, users, freed, sock, peer, client>>
        /\ taskQueue' = Append(taskQueue, c)
    BY <1>8 DEF PushHandler
  <2>3. c \in Clients /\ Fresh(c) /\ peer[sock[c]] = c /\ c \in Registered
        /\ client[c] \notin {"out", "dialing"}
    BY <1>8 DEF PushHandler, Newcomer, AcceptorPC
  <2> HIDE DEF c
  <2>4. /\ ToSet(taskQueue') = ToSet(taskQueue) \cup {c}
        /\ \A i, j \in DOMAIN taskQueue' : taskQueue'[i] = taskQueue'[j] => i = j
    <3>1. IsInjective(taskQueue)  BY DEF IsInjective, WaitingTasks
    <3>2. QED  BY <2>2, <2>3, <3>1, AppendIs DEF TypeOK, Fresh, IsInjective
  <2>5. WaitingTasks'
    <3>1. \A v \in ToSet(taskQueue') : v \in Threads /\ pc[v] = "idle"
      <4>1. \A v \in ToSet(taskQueue) : v \in Threads /\ pc[v] = "idle"
        BY DEF WaitingTasks, ToSet, TypeOK
      <4>2. QED  BY <2>3, <2>4, <4>1 DEF Fresh
    <3>2. \A v \in ToSet(taskQueue') : pc'[v] = "idle"
      BY <1>0, <2>1, <3>1 DEF Threads, AcceptorPC
    <3>3. QED  BY <2>4, <3>2 DEF WaitingTasks, ToSet
  <2>6. Outsiders'  BY <2>1, <2>2, <2>3, <2>4 DEF Outsiders, Fresh, Registered
  <2>7. Newcomer'  BY <2>1 DEF Newcomer
  <2>8. Served' /\ RegistryConsistent'
    BY <2>1, <2>2, <2>3, <2>4 DEF Served, RegistryConsistent, Registered
  <2>9. NameInv'
    BY <1>8, <2>1, <2>2 DEF PushHandler, Nameless, NameIsFree, UniqueNames, Registered
  <2>10. QED  BY <2>1, <2>5, <2>6, <2>7, <2>8, <2>9
<1>9. QED  BY <1>1, <1>2, <1>3, <1>4, <1>5, <1>6, <1>7, <1>8 DEF AcceptorStep

(* The acceptor removes nobody from the registry.                          *)
LEMMA AcceptorKeepsUsers ==
    ASSUME IInv, AcceptorStep
    PROVE  \A u \in Registered : u \in Registered'
<1>1. CASE AddUser
  <2> DEFINE c == target[Acceptor]
  <2>1. c \in Users /\ c \notin Registered /\ users' = Append(users, c)
    BY <1>1, NamesApart DEF AddUser, addUser, IInv, Lifecycle, Newcomer, AcceptorPC
  <2> HIDE DEF c
  <2>2. Registered' = Registered \cup {c}
    BY <2>1, AppendIs DEF Registered, IInv, TypeOK, ServerTypeOK, RegistryConsistent
  <2>3. QED  BY <2>2
<1>2. CASE ~AddUser
  <2>1. UNCHANGED users
    BY <1>2 DEF AcceptorStep, AcceptorTest, SelectTimesOut, Accept, ExchangeKeys,
         HandshakeFails,
         ReceiveName, LoginLost, CheckName, AnswerName, SetName, PushHandler, Moves,
         serverVars, registryVars
  <2>2. QED  BY <2>1 DEF Registered
<1>3. QED  BY <1>1, <1>2
-----------------------------------------------------------------------------
(* The invariant holds, and what follows from it.                          *)

(* When the threads start, the invariant holds.                            *)
LEMMA InitInv == Init => IInv
<1> SUFFICES ASSUME Init PROVE IInv
  OBVIOUS
<1> USE NamesApart DEF Init, UserInit, ServerInit
<1>1. ToSet(taskQueue) = {Acceptor, Host} /\ taskQueue \in Seq(Threads)
      /\ DOMAIN taskQueue = {1, 2} /\ taskQueue[1] = Acceptor /\ taskQueue[2] = Host
  BY DEF ToSet
<1>2. Registered = {Host} /\ users \in Seq(Users) /\ DOMAIN users = {1} /\ users[1] = Host
  BY DEF Registered, ToSet
<1>3. sock[Host] = Listen /\ peer[Listen] = Host /\ username[Host] = HostName
  OBVIOUS
<1>4. TypeOK
  <2>1. UserTypeOK
    BY NamesAssumption DEF UserTypeOK, Usernames
  <2>2. ServerTypeOK
    BY <1>2, ServerAssumption DEF ServerTypeOK, ClientState
  <2>3. PcTypeOK
    BY DEF PcTypeOK, Outside, MainPC
  <2>4. StackTypeOK
    BY NoPacketType DEF StackTypeOK
  <2>5. QED  BY <1>1, <2>1, <2>2, <2>3, <2>4 DEF TypeOK
<1>5. \A t \in Threads : pc[t] = "idle"
  OBVIOUS
<1>6. BroadcastsOnly  BY <1>5 DEF BroadcastsOnly
<1>7. WaitingTasks  BY <1>1, <1>5 DEF WaitingTasks
<1>8. Outsiders  BY <1>1, <1>2, <1>5 DEF Outsiders, Fresh
<1>9. Newcomer  BY <1>5 DEF Newcomer, AcceptorPC
<1>10. Served
  <2>1. \A u \in Clients : peer[sock[u]] # u
    BY ServerAssumption
  <2>2. QED  BY <1>2, <1>5, <2>1 DEF Served, Handling, Users
<1>11. RegistryConsistent  BY <1>2, <1>3 DEF RegistryConsistent, IsInjective
<1>12. NameInv
  BY <1>2, <1>3, <1>5, NamesAssumption DEF NameInv, Nameless, NameIsFree, UniqueNames
<1>13. QED
  BY <1>4, <1>6, <1>7, <1>8, <1>9, <1>10, <1>11, <1>12 DEF IInv, Lifecycle

(* The steps of the system, grouped as the proofs treat them.              *)
LEMMA NextCases ==
    ASSUME Next
    PROVE  \/ \E u \in Users : Say(u) \/ (u \in Clients /\ ClientStep(u))
           \/ \E t \in Users : HandlerStep(t)
           \/ MainStep \/ SpuriousWakeup \/ (\E u \in Users : UseAfterFree(u) \/ BadErrorText(u))
           \/ HostStep \/ StartTask \/ AcceptorStep
<1>1. CASE \E c \in Clients : ClientStep(c)
  <2>1. PICK c \in Clients : ClientStep(c)  BY <1>1
  <2>2. c \in Users  BY NamesApart
  <2>3. QED  BY <2>1, <2>2
<1>2. CASE \E u \in Users : Say(u) \/ HandlerStep(u) \/ UseAfterFree(u) \/ BadErrorText(u)
  <2>1. PICK u \in Users : Say(u) \/ HandlerStep(u) \/ UseAfterFree(u) \/ BadErrorText(u)
    BY <1>2
  <2>2. CASE Say(u)
    <3>1. \E v \in Users : Say(v) \/ (v \in Clients /\ ClientStep(v))  BY <2>2
    <3>2. QED  BY <3>1
  <2>3. CASE HandlerStep(u)  BY <2>3
  <2>4. CASE UseAfterFree(u) \/ BadErrorText(u)  BY <2>4
  <2>5. QED  BY <2>1, <2>2, <2>3, <2>4
<1>3. CASE StartTask \/ AcceptorStep \/ HostStep \/ MainStep \/ SpuriousWakeup
  BY <1>3
<1>4. QED  BY <1>1, <1>2, <1>3 DEF Next

(* Every step of a handler is well typed.                                  *)
LEMMA HandlerType ==
    ASSUME TypeOK, BroadcastsOnly, NEW t \in Users, HandlerStep(t)
    PROVE  TypeOK'
BY LoopType, CommandType, BroadcastType, TransferType DEF HandlerStep

(* Every step is well typed.                                               *)
LEMMA NextType ==
    ASSUME IInv, Next
    PROVE  TypeOK'
<1>1. TypeOK /\ BroadcastsOnly /\ AcceptorHasClient
  BY DEF IInv, Lifecycle, Newcomer, AcceptorHasClient
<1>2. QED
  BY <1>1, NextCases, HandlerType, ClientType, CrashType, StartType, AcceptorType,
       HostType, MainType

(* Every step keeps the invariant.                                         *)
LEMMA NextInv ==
    ASSUME IInv, Next
    PROVE  IInv'
<1>1. TypeOK'
  BY NextType
<1>2. ASSUME NEW t \in Users, HandlerStep(t)  PROVE IInv'
  BY <1>1, <1>2, HandlerKeeps, KeepsInv, QuitInv DEF IInv
<1>3. ASSUME NEW u \in Users, Say(u) \/ (u \in Clients /\ ClientStep(u))  PROVE IInv'
  BY <1>1, <1>3, ClientBystands, BystandersInv DEF IInv
<1>4. ASSUME MainStep \/ SpuriousWakeup \/ (\E u \in Users : UseAfterFree(u) \/ BadErrorText(u))
      PROVE  IInv'
  BY <1>1, <1>4, MainBystands, BystandersInv DEF IInv
<1>5. CASE HostStep
  BY <1>1, <1>5, HostKeeps, KeepsInv, NamesApart DEF IInv
<1>6. CASE StartTask
  BY <1>1, <1>6, StartInv
<1>7. CASE AcceptorStep
  BY <1>1, <1>7, AcceptorInv
<1>8. QED
  BY <1>2, <1>3, <1>4, <1>5, <1>6, <1>7, NextCases

(* A stuttering step keeps the invariant.                                  *)
LEMMA StutterInv ==
    ASSUME IInv, UNCHANGED vars
    PROVE  IInv'
<1>1. TypeOK'
  BY UserFrame, ServerFrame, StackFrame DEF IInv, TypeOK, PcTypeOK, vars, control
<1>2. Bystands
  BY DEF Bystands, vars, userVars, serverVars, registryVars, socketVars, locals,
       control
<1>3. QED  BY <1>1, <1>2, BystandersInv

(* The inductive invariant holds in every reachable state, for any         *)
(* clients, handles, names, pool size, lines and quotas.                   *)
THEOREM Invariance == Spec => []IInv
<1>1. Init => IInv
  BY InitInv
<1>2. IInv /\ [Next]_vars => IInv'
  BY NextInv, StutterInv
<1>3. QED
  BY <1>1, <1>2, PTL DEF Spec

(* Every reachable state of the chat room is well typed.                   *)
THEOREM TypeCorrect == Spec => []TypeOK
BY Invariance, PTL DEF IInv

(* The registry never holds a User twice or a destroyed one, and the       *)
(* socket of every User in it leads to that User's own client, although    *)
(* handles are reused (getConnection, removeUser).                         *)
THEOREM RegistryCorrect == Spec => []RegistryConsistent
BY Invariance, PTL DEF IInv

(* No two registered Users ever have the same name, although the check and *)
(* the setting of a name are separate steps (getConnections).              *)
THEOREM NamesUnique == Spec => []UniqueNames
<1>1. IInv => UniqueNames
  BY DEF IInv, NameInv
<1>2. QED  BY Invariance, <1>1, PTL

(* A User is only ever removed by the /quit that its own thread handles,   *)
(* although removeUser looks it up by a socket handle that may be reused.  *)
THEOREM OwnQuitOnly == Spec => OnlyOwnQuitRemoves
<1> DEFINE Own == \A u \in Registered : u \notin Registered' => Handling(u, "quit")
<1>1. ASSUME IInv, [Next]_vars  PROVE Own
  <2>1. CASE UNCHANGED vars
    BY <2>1 DEF vars, serverVars, registryVars, Registered
  <2>2. ASSUME NEW t \in Users, HandlerStep(t)  PROVE Own
    <3>1. CASE Quit(t)
      <4>1. Registered' = Registered \ {t}
        BY <1>1, <3>1, <2>2, QuitInv, HandlerKeeps, HandlerType DEF IInv
      <4>2. QED  BY <3>1, <4>1 DEF Quit
    <3>2. QED  BY <1>1, <2>2, <3>1, HandlerKeeps DEF IInv, Registered
  <2>3. ASSUME NEW u \in Users, Say(u) \/ (u \in Clients /\ ClientStep(u))  PROVE Own
    BY <1>1, <2>3, ClientBystands DEF IInv, Bystands, Registered
  <2>4. ASSUME MainStep \/ SpuriousWakeup \/ (\E u \in Users : UseAfterFree(u) \/ BadErrorText(u))
        PROVE  Own
    BY <1>1, <2>4, MainBystands DEF IInv, Bystands, Registered
  <2>5. CASE HostStep
    BY <1>1, <2>5, HostKeeps DEF IInv, Registered
  <2>6. CASE StartTask
    BY <2>6 DEF StartTask, serverVars, registryVars, Registered
  <2>7. CASE AcceptorStep
    BY <1>1, <2>7, AcceptorKeepsUsers
  <2>8. QED
    BY <1>1, <2>1, <2>2, <2>3, <2>4, <2>5, <2>6, <2>7, NextCases
<1>2. QED
  BY <1>1, Invariance, PTL DEF Spec, OnlyOwnQuitRemoves

=============================================================================
