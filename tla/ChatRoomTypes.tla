--------------------------- MODULE ChatRoomTypes ----------------------------
(* Lemmas about the steps of ChatRoom: that each keeps the state well      *)
(* typed, and what each leaves alone.                                      *)
EXTENDS ChatRoom, WellFoundedInduction, TLAPS

(* Clients and host are threads besides the acceptor, and the main thread  *)
(* and "nobody" are neither (run_chat_room).                               *)
LEMMA NamesApart ==
    /\ Users \subseteq Threads /\ Clients \subseteq Users /\ Host \in Users
    /\ Acceptor \in Threads /\ Acceptor \notin Users
    /\ Main \notin Threads /\ Nobody \notin Threads
    /\ Host \notin Clients
BY UsersAssumption, ServerAssumption, ChatRoomAssumption DEF Users, Threads

(* The empty message of recvMessage is a packet.                           *)
LEMMA NoPacketType == NoPacket \in Packet
BY DEF NoPacket, Packet, Kinds

(* Wherever getConnections uses a client it has one.                       *)
AcceptorHasClient ==
    pc[Acceptor] \in AcceptorPC \ {"test", "select"} => target[Acceptor] \in Clients

(* Only broadcasts are in the loop of broadcastMessageExceptSender.        *)
BroadcastsOnly ==
    \A t \in Users : pc[t] \in {"scan", "send"} => msg[t].kind \in Broadcasts

(* A step that leaves every User alone keeps their types.                  *)
LEMMA UserFrame == UserTypeOK /\ UNCHANGED userVars => UserTypeOK'
BY DEF UserTypeOK, userVars

(* A step that leaves the Server alone keeps its types.                    *)
LEMMA ServerFrame == ServerTypeOK /\ UNCHANGED serverVars => ServerTypeOK'
BY DEF ServerTypeOK, serverVars, registryVars, socketVars

(* A step that leaves the local variables of the threads alone keeps their *)
(* types.                                                                  *)
LEMMA StackFrame == StackTypeOK /\ UNCHANGED locals => StackTypeOK'
BY DEF StackTypeOK, locals

(* A thread of a User goes to a place of handleClient or sendMessageLoop.  *)
LEMMA HandlerGoes ==
    ASSUME PcTypeOK, NEW t \in Users, NEW l \in Outside \cup HandlerPC, Goto(t, l)
    PROVE  PcTypeOK'
<1> DEFINE labels == Outside \cup AcceptorPC \cup HandlerPC \cup MainPC
<1>1. pc \in [Threads \cup {Main} -> labels] /\ l \in labels /\ t \in Threads
  BY NamesApart DEF PcTypeOK
<1>2. pc' \in [Threads \cup {Main} -> labels]
  <2> HIDE DEF labels
  <2> QED BY <1>1 DEF Goto
<1>3. t # Acceptor /\ t # Main
  BY NamesApart
<1>4. QED
  BY <1>1, <1>2, <1>3, NamesApart DEF PcTypeOK, Goto

(* The end of a command resets the thread's locals (handleClient).         *)
LEMMA BackToLoopType ==
    ASSUME PcTypeOK, StackTypeOK, NEW t \in Users, BackToLoop(t)
    PROVE  PcTypeOK' /\ StackTypeOK'
<1>1. PcTypeOK'
  BY HandlerGoes DEF BackToLoop, HandlerPC
<1>2. StackTypeOK'
  BY NamesApart, NoPacketType DEF BackToLoop, StackTypeOK
<1>3. QED  BY <1>1, <1>2

(* The places of a handler.                                                *)
Labels ==
    {"idle", "done", "loop", "recv", "decide", "parked", "dispatch", "scan", "send",
     "find", "catch", "ending", "notify", "reply", "unfound", "whisper", "invalid",
     "markThem", "markSelf", "request", "get", "await", "approved1", "approved2",
     "info", "stream", "denied1", "denied2", "failed1", "failed2", "report",
     "unmarkThem", "unmarkSelf"}

(* The places of a handler, listed: the provers decide membership in an    *)
(* enumeration.                                                            *)
LEMMA LabelsType == Labels = Outside \cup HandlerPC
BY DEF Labels, HandlerPC, Outside, Uploading, Negotiating, Saying

(* A step of a handler that changes nothing but its place is well typed.   *)
LEMMA HandlerMoves ==
    ASSUME TypeOK, NEW t \in Users, NEW l \in Labels, Moves(t, l)
    PROVE  TypeOK'
BY UserFrame, ServerFrame, StackFrame, HandlerGoes, LabelsType DEF Moves, TypeOK,
     control

(* The loop of handleClient and sendMessageLoop is well typed: what it     *)
(* receives is a packet, and the rest of the inbox is packets.             *)
LEMMA LoopType ==
    ASSUME TypeOK, NEW t \in Users, LoopStep(t)
    PROVE  TypeOK'
<1> USE NamesApart
<1>1. CASE TestQuit(t) \/ ReceiveThrows(t)
  BY <1>1, HandlerMoves DEF TestQuit, ReceiveThrows, Labels
<1>2. CASE Receive(t)
  <2> DEFINE c == peer[sock[t]]
  <2>1. c \in Users /\ inbox[c] \in Seq(Packet)
    BY <1>2 DEF Receive, TypeOK, ServerTypeOK
  <2>2. PICK k \in 1..Len(inbox[c]) :
            /\ msg' = [msg EXCEPT ![t] = Opened(t, c, k)]
            /\ inbox' = [inbox EXCEPT ![c] = SubSeq(@, k + 1, Len(@))]
    BY <1>2 DEF Receive
  <2>3. Opened(t, c, k) \in Packet
    BY <2>1, <2>2, NoPacketType DEF Opened
  <2>4. SubSeq(inbox[c], k + 1, Len(inbox[c])) \in Seq(Packet)
    BY <2>1, <2>2
  <2> HIDE DEF c
  <2>5. StackTypeOK'
    BY <1>2, <2>2, <2>3 DEF Receive, TypeOK, StackTypeOK
  <2>6. ServerTypeOK'
    BY <1>2, <2>1, <2>2, <2>4 DEF Receive, TypeOK, ServerTypeOK, registryVars,
         socketVars
  <2>7. PcTypeOK'
    BY <1>2, HandlerGoes, LabelsType DEF Receive, TypeOK, Labels
  <2>8. QED
    BY <1>2, <2>5, <2>6, <2>7, UserFrame DEF Receive, TypeOK, control
<1>3. CASE Decide(t)
  <2>1. PcTypeOK' BY <1>3, HandlerGoes, LabelsType DEF Decide, TypeOK, Labels
  <2>2. UserTypeOK' BY <1>3 DEF Decide, setTransferDecision, TypeOK, UserTypeOK
  <2>3. QED
    BY <1>3, <2>1, <2>2, ServerFrame, StackFrame DEF Decide, TypeOK, control
<1>4. CASE DecideThrows(t)
  <2>1. PcTypeOK'
    BY <1>4, HandlerGoes, LabelsType DEF DecideThrows, TypeOK, Labels, PcTypeOK
  <2>2. QED
    BY <1>4, <2>1, UserFrame, ServerFrame, StackFrame DEF DecideThrows, TypeOK
<1>5. CASE wait_completeTransfer(t)
  BY <1>5, BackToLoopType, UserFrame, ServerFrame DEF wait_completeTransfer, TypeOK,
       control
<1>6. CASE Catch(t)
  <2>1. [NoPacket EXCEPT !.kind = "left"] \in Packet
    BY DEF NoPacket, Packet, Kinds
  <2>2. StackTypeOK'
    BY <1>6, <2>1, ZenonT(40) DEF Catch, TypeOK, StackTypeOK
  <2>3. PcTypeOK'
    BY <1>6, HandlerGoes, LabelsType DEF Catch, TypeOK, Labels
  <2>4. QED
    BY <1>6, <2>2, <2>3, UserFrame, ServerFrame DEF Catch, TypeOK, control
<1>7. QED  BY <1>1, <1>2, <1>3, <1>4, <1>5, <1>6 DEF LoopStep

(* A non-empty set of naturals holds its minimum.                          *)
LEMMA MinIsIn ==
    ASSUME NEW I \in SUBSET Nat, I # {}
    PROVE  Min(I) \in I /\ \A i \in I : Min(I) <= i
<1> DEFINE Less == OpToRel(<, Nat)
<1>1. IsWellFoundedOn(Less, Nat)
  BY NatLessThanWellFounded
<1>2. \A x, y \in Nat : <<y, x>> \in Less <=> y < x
  BY DEF OpToRel
<1> HIDE DEF Less
<1>3. PICK x \in I : \A y \in I : ~ (<<y, x>> \in Less)
  BY <1>1, WFMin
<1>4. \A y \in I : x =< y
  <2> TAKE y \in I
  <2>1. ~(y < x)  BY <1>2, <1>3
  <2> QED  BY <2>1
<1>5. QED  BY <1>4, Zenon DEF Min

(* The first entry for which a search of the registry stops is an entry    *)
(* (findUserByUsername, findUserBySocket, removeUser).                     *)
LEMMA FirstOfIsIn ==
    ASSUME users \in Seq(Users), NEW I \in SUBSET DOMAIN users, I # {}
    PROVE  /\ Min(I) \in I /\ Min(I) \in DOMAIN users
           /\ FirstOf(I) = users[Min(I)] /\ FirstOf(I) \in Users
<1>1. DOMAIN users = 1..Len(users)
  OBVIOUS
<1>2. I \in SUBSET Nat
  BY <1>1
<1>3. Min(I) \in I
  BY <1>2, MinIsIn
<1>4. QED  BY <1>3 DEF FirstOf

(* A search of the registry finds a User or nobody.                        *)
LEMMA FirstOfType ==
    ASSUME users \in Seq(Users), NEW I \in SUBSET DOMAIN users
    PROVE  FirstOf(I) \in Users \cup {Nobody}
BY FirstOfIsIn DEF FirstOf

(* What the three look-ups of the Server return.                           *)
LEMMA FindType ==
    ASSUME ServerTypeOK, NEW n
    PROVE  /\ findUserByUsername(n) \in Users \cup {Nobody}
           /\ findUserBySocket(n) \in Users \cup {Nobody}
           /\ findSocketByUsername(n) \in Handles \cup {Listen, Nobody}
<1>1. users \in Seq(Users) /\ sock \in [Users -> Handles \cup {Listen, Nobody}]
  BY DEF ServerTypeOK
<1>2. findUserByUsername(n) \in Users \cup {Nobody}
  <2> DEFINE I == {i \in DOMAIN users : username[users[i]] = n}
  <2>1. I \in SUBSET DOMAIN users  OBVIOUS
  <2> HIDE DEF I
  <2>2. FirstOf(I) \in Users \cup {Nobody}  BY <1>1, <2>1, FirstOfType
  <2>3. QED  BY <2>2 DEF findUserByUsername, I
<1>3. findUserBySocket(n) \in Users \cup {Nobody}
  <2> DEFINE I == {i \in DOMAIN users : sock[users[i]] = n}
  <2>1. I \in SUBSET DOMAIN users  OBVIOUS
  <2> HIDE DEF I
  <2>2. FirstOf(I) \in Users \cup {Nobody}  BY <1>1, <2>1, FirstOfType
  <2>3. QED  BY <2>2 DEF findUserBySocket, I
<1>4. QED
  BY <1>1, <1>2, <1>3 DEF findSocketByUsername, userExists

(* sendMessage leaves a message in an outbox, intact or garbled, or        *)
(* nowhere.                                                                *)
LEMMA SendType ==
    ASSUME ServerTypeOK, NEW u, NEW m \in Message, sendMessage(u, m)
    PROVE  outbox' \in [Users -> Seq(Message)]
<1>1. [m EXCEPT !.kind = "garbled"] \in Message
  BY DEF Message, Notices
<1> DEFINE c == Reached(u)
           got == IF c = u THEN m ELSE [m EXCEPT !.kind = "garbled"]
<1>2. got \in Message
  BY <1>1
<1>3. outbox' = IF c = Nobody THEN outbox ELSE [outbox EXCEPT ![c] = Append(@, got)]
  BY DEF sendMessage
<1> HIDE DEF c, got
<1>4. outbox \in [Users -> Seq(Message)]
  BY DEF ServerTypeOK
<1>5. CASE c \in Users
  <2>1. Append(outbox[c], got) \in Seq(Message)  BY <1>2, <1>4, <1>5
  <2>2. QED  BY <1>3, <1>4, <1>5, <2>1
<1>6. CASE c \notin Users
  BY <1>3, <1>4, <1>6
<1>7. QED  BY <1>5, <1>6

(* What fileTransfer, whisperCMD and listCMDS say, and where they go on.   *)
LEMMA UtteranceType ==
    ASSUME NEW t, pc[t] \in Saying
    PROVE  /\ Utterance(t).kind \in Notices
           /\ Utterance(t).next \in
                  {"loop", "get", "approved2", "info", "denied2", "unmarkThem", "failed2", "report"}
BY DEF Utterance, Saying, Notices

(* A step that only sends keeps the types of the Server.                   *)
LEMMA OnlySendsType ==
    ASSUME ServerTypeOK, outbox' \in [Users -> Seq(Message)],
           UNCHANGED <<registryVars, socketVars, client, inbox>>
    PROVE  ServerTypeOK'
BY DEF ServerTypeOK, registryVars, socketVars

(* removeUser keeps the types of the Server.                               *)
LEMMA RemoveType ==
    ASSUME ServerTypeOK, NEW u \in Users, removeUser(u)
    PROVE  users' \in Seq(Users) /\ freed' \subseteq Users
           /\ peer' \in [Handles \cup {Listen, Nobody} -> Users \cup {Nobody}]
<1> DEFINE I == {i \in DOMAIN users : sock[users[i]] = sock[u]}
<1>1. I \in SUBSET DOMAIN users  OBVIOUS
<1>2. /\ users' = IF I = {} THEN users ELSE RemoveAt(users, Min(I))
      /\ freed' = freed \cup ({FirstOf(I)} \ {Nobody})
      /\ peer' = IF I = {} THEN peer ELSE [peer EXCEPT ![sock[u]] = Nobody]
  BY DEF removeUser
<1>3. users \in Seq(Users)  BY DEF ServerTypeOK
<1> HIDE DEF I
<1>4. FirstOf(I) \in Users \cup {Nobody}
  BY <1>1, <1>3, FirstOfType
<1>5. users' \in Seq(Users)
  <2>1. CASE I = {}  BY <1>2, <1>3, <2>1
  <2>2. CASE I # {}
    <3>1. Min(I) \in 1..Len(users)  BY <1>1, <1>3, <2>2, FirstOfIsIn
    <3>2. /\ SubSeq(users, 1, Min(I) - 1) \in Seq(Users)
          /\ SubSeq(users, Min(I) + 1, Len(users)) \in Seq(Users)
      BY <1>3, <3>1
    <3>3. QED  BY <1>2, <2>2, <3>2 DEF RemoveAt
  <2>3. QED  BY <2>1, <2>2
<1>6. QED  BY <1>2, <1>4, <1>5 DEF ServerTypeOK

(* The commands of handleIncomingMessages and handleOutgoingMessages are   *)
(* well typed.                                                             *)
LEMMA CommandType ==
    ASSUME TypeOK, NEW t \in Users, CommandStep(t)
    PROVE  TypeOK'
<1> USE NamesApart
<1>1. CASE Quit(t)
  <2>1. ServerTypeOK'
    BY <1>1, RemoveType DEF Quit, TypeOK, ServerTypeOK
  <2>2. QED  BY <1>1, <2>1, BackToLoopType, UserFrame DEF Quit, TypeOK, control
<1>2. CASE ListUsers(t) \/ ListCommands(t)
  BY <1>2, HandlerMoves DEF ListUsers, ListCommands, Labels
<1>3. CASE WhisperSocket(t)
  <2>1. target' = [target EXCEPT ![t] = findSocketByUsername(msg[t].arg)]
        /\ findSocketByUsername(msg[t].arg) \in Handles \cup {Listen, Nobody}
    BY <1>3, FindType DEF WhisperSocket, TypeOK
  <2>2. StackTypeOK'
    BY <1>3, <2>1 DEF WhisperSocket, TypeOK, StackTypeOK
  <2>3. PcTypeOK'  BY <1>3, HandlerGoes, LabelsType DEF WhisperSocket, TypeOK, Labels
  <2>4. QED
    BY <1>3, <2>2, <2>3, UserFrame, ServerFrame DEF WhisperSocket, TypeOK, control
<1>4. CASE WhisperUser(t)
  <2>1. target' = [target EXCEPT ![t] = findUserBySocket(target[t])]
        /\ findUserBySocket(target[t]) \in Users \cup {Nobody}
    BY <1>4, FindType DEF WhisperUser, TypeOK
  <2>2. StackTypeOK'
    BY <1>4, <2>1 DEF WhisperUser, TypeOK, StackTypeOK
  <2>3. PcTypeOK'  BY <1>4, HandlerGoes, LabelsType DEF WhisperUser, TypeOK, Labels
  <2>4. QED
    BY <1>4, <2>2, <2>3, UserFrame, ServerFrame DEF WhisperUser, TypeOK, control
<1>5. CASE Utter(t)
  <2> DEFINE s == Utterance(t)
             m == [kind |-> s.kind, from |-> t, n |-> msg[t].n]
  <2>1. s.kind \in Notices
        /\ s.next \in
               {"loop", "get", "approved2", "info", "denied2", "unmarkThem", "failed2", "report"}
    BY <1>5, UtteranceType DEF Utter
  <2>2. /\ sendMessage(s.to, m)
        /\ IF s.next = "loop" THEN BackToLoop(t) ELSE Goto(t, s.next) /\ UNCHANGED locals
    BY <1>5 DEF Utter
  <2> HIDE DEF s
  <2>3. m \in Message
    BY <2>1 DEF Message, Packet, TypeOK, StackTypeOK
  <2>4. ServerTypeOK'
    <3> HIDE DEF m
    <3> QED  BY <1>5, <2>2, <2>3, SendType, OnlySendsType DEF Utter, TypeOK
  <2>5. PcTypeOK' /\ StackTypeOK'
    BY <2>1, <2>2, BackToLoopType, HandlerGoes, LabelsType, StackFrame DEF TypeOK,
         Labels
  <2>6. QED  BY <1>5, <2>4, <2>5, UserFrame DEF Utter, TypeOK, control
<1>6. QED  BY <1>1, <1>2, <1>3, <1>4, <1>5 DEF CommandStep

(* broadcastMessageExceptSender is well typed; that it only carries        *)
(* broadcasts is part of the invariant.                                    *)
LEMMA BroadcastType ==
    ASSUME TypeOK, BroadcastsOnly, NEW t \in Users, BroadcastStep(t)
    PROVE  TypeOK'
<1> USE NamesApart
<1>1. CASE BeginBroadcast(t)
  <2>1. PcTypeOK'  BY <1>1, HandlerGoes, LabelsType DEF BeginBroadcast, TypeOK, Labels
  <2>2. StackTypeOK'  BY <1>1 DEF BeginBroadcast, TypeOK, StackTypeOK
  <2>3. ServerTypeOK'  BY <1>1 DEF BeginBroadcast, TypeOK, ServerTypeOK, socketVars
  <2>4. QED  BY <1>1, <2>1, <2>2, <2>3, UserFrame DEF BeginBroadcast, TypeOK, control
<1>2. CASE Scan(t)
  <2>1. PcTypeOK'  BY <1>2, HandlerGoes, LabelsType DEF Scan, TypeOK, Labels, PcTypeOK
  <2>2. idx' \in [Threads -> Nat]
    <3>1. idx' = [idx EXCEPT ![t] = @ + 1] \/ idx' = idx  BY <1>2 DEF Scan
    <3>2. idx \in [Threads -> Nat] /\ idx[t] + 1 \in Nat
      BY DEF TypeOK, StackTypeOK
    <3>3. QED  BY <3>1, <3>2
  <2>3. StackTypeOK'  BY <1>2, <2>2 DEF Scan, TypeOK, StackTypeOK
  <2>4. QED  BY <1>2, <2>1, <2>3, UserFrame, ServerFrame DEF Scan, TypeOK, control
<1>3. CASE SendOne(t)
  <2>1. Notice(t) \in Message
    <3>1. msg[t].kind \in Broadcasts /\ msg[t].n \in Nat
      BY <1>3 DEF SendOne, BroadcastsOnly, TypeOK, StackTypeOK, Packet
    <3>2. QED  BY <3>1 DEF Notice, Message, Notices, Broadcasts
  <2>2. ServerTypeOK'
    BY <1>3, <2>1, SendType, OnlySendsType DEF SendOne, TypeOK
  <2>3. PcTypeOK'  BY <1>3, HandlerGoes, LabelsType DEF SendOne, TypeOK, Labels
  <2>4. StackTypeOK'  BY <1>3 DEF SendOne, TypeOK, StackTypeOK
  <2>5. QED  BY <1>3, <2>2, <2>3, <2>4, UserFrame DEF SendOne, TypeOK, control
<1>4. CASE EndBroadcast(t)
  <2>1. PcTypeOK' /\ StackTypeOK'
    BY <1>4, HandlerGoes, LabelsType, StackFrame, BackToLoopType DEF EndBroadcast,
         TypeOK, Labels
  <2>2. ServerTypeOK'  BY <1>4 DEF EndBroadcast, TypeOK, ServerTypeOK, socketVars
  <2>3. QED  BY <1>4, <2>1, <2>2, UserFrame DEF EndBroadcast, TypeOK, control
<1>5. QED  BY <1>1, <1>2, <1>3, <1>4 DEF BroadcastStep

(* fileTransfer is well typed.                                             *)
LEMMA TransferType ==
    ASSUME TypeOK, NEW t \in Users, TransferStep(t)
    PROVE  TypeOK'
<1> USE NamesApart
<1>1. CASE AwaitThrows(t) \/ Resume(t)
  BY <1>1, HandlerMoves DEF AwaitThrows, Resume, Labels
<1>2. CASE LookUp(t)
  <2>1. findUserByUsername(msg[t].arg) \in Users \cup {Nobody}
    BY FindType DEF TypeOK
  <2>2. StackTypeOK'  BY <1>2, <2>1 DEF LookUp, TypeOK, StackTypeOK
  <2>3. PcTypeOK'  BY <1>2, HandlerGoes, LabelsType DEF LookUp, TypeOK, Labels
  <2>4. QED  BY <1>2, <2>2, <2>3, UserFrame, ServerFrame DEF LookUp, TypeOK, control
<1>3. CASE MarkThem(t)
  <2>1. UserTypeOK'  BY <1>3 DEF MarkThem, signalStartOfTransfer, TypeOK, UserTypeOK
  <2>2. PcTypeOK'  BY <1>3, HandlerGoes, LabelsType DEF MarkThem, TypeOK, Labels
  <2>3. QED
    BY <1>3, <2>1, <2>2, StackFrame, ServerFrame DEF MarkThem, TypeOK, control
<1>4. CASE MarkSelf(t)
  <2>1. UserTypeOK'  BY <1>4 DEF MarkSelf, signalStartOfTransfer, TypeOK, UserTypeOK
  <2>2. PcTypeOK'  BY <1>4, HandlerGoes, LabelsType DEF MarkSelf, TypeOK, Labels
  <2>3. QED
    BY <1>4, <2>1, <2>2, StackFrame, ServerFrame DEF MarkSelf, TypeOK, control
<1>5. CASE AwaitDecision(t)
  <2>1. UserTypeOK'  BY <1>5 DEF AwaitDecision, takeFuture, TypeOK, UserTypeOK
  <2>2. PcTypeOK'  BY <1>5, HandlerGoes, LabelsType DEF AwaitDecision, TypeOK, Labels
  <2>3. QED
    BY <1>5, <2>1, <2>2, StackFrame, ServerFrame DEF AwaitDecision, TypeOK, control
<1>6. CASE Decided(t)
  <2>1. UserTypeOK'  BY <1>6 DEF Decided, resetTransfer, TypeOK, UserTypeOK
  <2>2. PcTypeOK'  BY <1>6, HandlerGoes, LabelsType DEF Decided, TypeOK, Labels
  <2>3. QED  BY <1>6, <2>1, <2>2, StackFrame, ServerFrame DEF Decided, TypeOK, control
<1>7. CASE SendInfo(t)
  <2>1. outbox' \in [Users -> Seq(Message)]
    <3> DEFINE got(c) == [kind |-> IF c \in {t, target[t]} THEN "info" ELSE "garbled",
                          from |-> t, n |-> 0]
               R == {Reached(t), Reached(target[t])} \ {Host, Nobody}
    <3>1. \A c : got(c) \in Message  BY DEF Message, Notices
    <3>2. outbox' = [c \in Users |-> IF c \in R THEN Append(outbox[c], got(c)) ELSE outbox[c]]
      BY <1>7 DEF SendInfo, sendTransferInfo
    <3>3. \A c \in Users : outbox[c] \in Seq(Message)  BY DEF TypeOK, ServerTypeOK
    <3> HIDE DEF got, R
    <3>4. \A c \in Users : Append(outbox[c], got(c)) \in Seq(Message)  BY <3>1, <3>3
    <3>5. QED  BY <3>2, <3>3, <3>4
  <2>2. ServerTypeOK'  BY <1>7, <2>1, OnlySendsType DEF SendInfo, TypeOK
  <2>3. PcTypeOK'  BY <1>7, HandlerGoes, LabelsType DEF SendInfo, TypeOK, Labels
  <2>4. QED  BY <1>7, <2>2, <2>3, UserFrame, StackFrame DEF SendInfo, TypeOK, control
<1>8. CASE UnmarkThem(t)
  <2>1. UserTypeOK'  BY <1>8 DEF UnmarkThem, signalEndOfTransfer, TypeOK, UserTypeOK
  <2>2. PcTypeOK'  BY <1>8, HandlerGoes, LabelsType DEF UnmarkThem, TypeOK, Labels
  <2>3. QED
    BY <1>8, <2>1, <2>2, StackFrame, ServerFrame DEF UnmarkThem, TypeOK, control
<1>9. CASE UnmarkSelf(t)
  <2>1. UserTypeOK'  BY <1>9 DEF UnmarkSelf, signalEndOfTransfer, TypeOK, UserTypeOK
  <2>2. QED
    BY <1>9, <2>1, BackToLoopType, ServerFrame DEF UnmarkSelf, TypeOK, control
<1>10. QED
  BY <1>1, <1>2, <1>3, <1>4, <1>5, <1>6, <1>7, <1>8, <1>9 DEF TransferStep

(* The acceptor goes to a place of getConnections.                         *)
LEMMA AcceptorGoes ==
    ASSUME PcTypeOK, NEW l \in {"done"} \cup AcceptorPC, Goto(Acceptor, l)
    PROVE  PcTypeOK'
<1> DEFINE labels == Outside \cup AcceptorPC \cup HandlerPC \cup MainPC
<1>1. pc \in [Threads \cup {Main} -> labels] /\ l \in labels
  BY DEF PcTypeOK, Outside
<1>2. pc' \in [Threads \cup {Main} -> labels]
  <2> HIDE DEF labels
  <2> QED BY <1>1 DEF Goto
<1>3. Acceptor # Main /\ Acceptor \notin Users
  BY NamesApart
<1>4. QED
  BY <1>1, <1>2, <1>3, NamesApart DEF PcTypeOK, Goto, Outside

(* getConnections is well typed, as long as it holds a client wherever it  *)
(* uses one.                                                               *)
LEMMA AcceptorType ==
    ASSUME TypeOK, AcceptorHasClient, AcceptorStep
    PROVE  TypeOK'
<1> USE NamesApart
<1>1. CASE AcceptorTest \/ SelectTimesOut \/ CheckName
  BY <1>1, AcceptorGoes, UserFrame, ServerFrame, StackFrame
     DEF AcceptorTest, SelectTimesOut, CheckName, Moves, TypeOK, AcceptorPC, control
<1>2. CASE Accept
  <2>1. PICK c \in Clients, h \in Handles :
            accept(c, h) /\ target' = [target EXCEPT ![Acceptor] = c]
    BY <1>2 DEF Accept
  <2>2. PcTypeOK'  BY <1>2, AcceptorGoes DEF Accept, TypeOK, AcceptorPC
  <2>3. StackTypeOK'  BY <1>2, <2>1 DEF Accept, TypeOK, StackTypeOK
  <2>4. ServerTypeOK'
    BY <1>2, <2>1 DEF Accept, accept, TypeOK, ServerTypeOK, registryVars
  <2>5. QED  BY <1>2, <2>2, <2>3, <2>4, UserFrame DEF Accept, TypeOK, control
<1>3. CASE ExchangeKeys
  <2>1. PcTypeOK'  BY <1>3, AcceptorGoes DEF ExchangeKeys, TypeOK, AcceptorPC
  <2>2. ServerTypeOK'
    BY <1>3 DEF ExchangeKeys, TypeOK, ServerTypeOK, ClientState, registryVars,
         socketVars
  <2>3. QED
    BY <1>3, <2>1, <2>2, UserFrame, StackFrame DEF ExchangeKeys, TypeOK, control
<1>4. CASE HandshakeFails
  <2>1. target[Acceptor] \in Clients
    BY <1>4 DEF HandshakeFails, AcceptorHasClient, AcceptorPC
  <2>2. PcTypeOK'  BY <1>4, AcceptorGoes DEF HandshakeFails, TypeOK, AcceptorPC
  <2>3. StackTypeOK'  BY <1>4 DEF HandshakeFails, TypeOK, StackTypeOK
  <2>4. ServerTypeOK'
    BY <1>4, <2>1 DEF HandshakeFails, TypeOK, ServerTypeOK, socketVars
  <2>5. QED  BY <1>4, <2>2, <2>3, <2>4, UserFrame DEF HandshakeFails, TypeOK, control
<1>5. CASE AddUser
  <2>1. target[Acceptor] \in Clients
    BY <1>5 DEF AddUser, AcceptorHasClient, AcceptorPC
  <2>2. PcTypeOK'  BY <1>5, AcceptorGoes DEF AddUser, TypeOK, AcceptorPC
  <2>3. users' \in Seq(Users)
    BY <1>5, <2>1 DEF AddUser, addUser, TypeOK, ServerTypeOK
  <2>4. ServerTypeOK'
    BY <1>5, <2>3 DEF AddUser, TypeOK, ServerTypeOK, socketVars
  <2>5. QED  BY <1>5, <2>2, <2>4, UserFrame, StackFrame DEF AddUser, TypeOK, control
<1>6. CASE ReceiveName
  <2> DEFINE c == target[Acceptor]
  <2>1. c \in Users /\ inbox[c] \in Seq(Packet)
    BY <1>6 DEF ReceiveName, AcceptorHasClient, AcceptorPC, TypeOK, ServerTypeOK
  <2>2. PICK k \in 1..Len(inbox[c]) :
            /\ msg' = [msg EXCEPT ![Acceptor] = Opened(c, c, k)]
            /\ inbox' = [inbox EXCEPT ![c] = SubSeq(@, k + 1, Len(@))]
    BY <1>6 DEF ReceiveName
  <2>3. Opened(c, c, k) \in Packet
    BY <2>1, <2>2, NoPacketType DEF Opened
  <2>4. SubSeq(inbox[c], k + 1, Len(inbox[c])) \in Seq(Packet)
    BY <2>1, <2>2
  <2> HIDE DEF c
  <2>5. StackTypeOK'
    BY <1>6, <2>2, <2>3 DEF ReceiveName, TypeOK, StackTypeOK
  <2>6. ServerTypeOK'
    BY <1>6, <2>1, <2>2, <2>4 DEF ReceiveName, TypeOK, ServerTypeOK, registryVars,
         socketVars
  <2>7. PcTypeOK'  BY <1>6, AcceptorGoes DEF ReceiveName, TypeOK, AcceptorPC
  <2>8. QED  BY <1>6, <2>5, <2>6, <2>7, UserFrame DEF ReceiveName, TypeOK, control
<1>7. CASE LoginLost
  BY <1>7, UserFrame, ServerFrame, StackFrame DEF LoginLost, TypeOK, PcTypeOK
<1>8. CASE AnswerName
  <2>1. [kind |-> pc[Acceptor], from |-> Host, n |-> 0] \in Message
    BY <1>8 DEF AnswerName, Message, Notices
  <2>2. ServerTypeOK'
    BY <1>8, <2>1, SendType, OnlySendsType DEF AnswerName, TypeOK
  <2>3. PcTypeOK'  BY <1>8, AcceptorGoes DEF AnswerName, TypeOK, AcceptorPC
  <2>4. QED
    BY <1>8, <2>2, <2>3, UserFrame, StackFrame DEF AnswerName, TypeOK, control
<1>9. CASE SetName
  <2>1. msg[Acceptor].arg \in Usernames
    BY DEF TypeOK, StackTypeOK, Packet, Usernames
  <2>2. UserTypeOK'  BY <1>9, <2>1 DEF SetName, setUsername, TypeOK, UserTypeOK
  <2>3. PcTypeOK'  BY <1>9, AcceptorGoes DEF SetName, TypeOK, AcceptorPC
  <2>4. QED  BY <1>9, <2>2, <2>3, ServerFrame, StackFrame DEF SetName, TypeOK, control
<1>10. CASE PushHandler
  <2>1. target[Acceptor] \in Clients
    BY <1>10 DEF PushHandler, AcceptorHasClient, AcceptorPC
  <2>2. PcTypeOK'  BY <1>10, AcceptorGoes DEF PushHandler, TypeOK, AcceptorPC
  <2>3. taskQueue' \in Seq(Threads)  BY <1>10, <2>1 DEF PushHandler, TypeOK
  <2>4. StackTypeOK'  BY <1>10, NoPacketType DEF PushHandler, TypeOK, StackTypeOK
  <2>5. QED
    BY <1>10, <2>2, <2>3, <2>4, UserFrame, ServerFrame DEF PushHandler, TypeOK
<1>11. QED
  BY <1>1, <1>2, <1>3, <1>4, <1>5, <1>6, <1>7, <1>8, <1>9, <1>10 DEF AcceptorStep

(* What clients and host do is well typed: their lines are packets.        *)
LEMMA ClientType ==
    ASSUME TypeOK, NEW u \in Users, Say(u) \/ (u \in Clients /\ ClientStep(u))
    PROVE  TypeOK'
<1> USE NamesApart
<1>1. ASSUME UNCHANGED <<userVars, registryVars, socketVars, pc, locals, control>>,
             client' \in [Clients -> ClientState], inbox' \in [Users -> Seq(Packet)],
             outbox' \in [Users -> Seq(Message)], sent' \in [Users -> Nat]
      PROVE  TypeOK'
  <2>1. ServerTypeOK'  BY <1>1 DEF TypeOK, ServerTypeOK, registryVars, socketVars
  <2>2. PcTypeOK'  BY <1>1 DEF TypeOK, PcTypeOK
  <2>3. QED  BY <1>1, <2>1, <2>2, UserFrame, StackFrame DEF TypeOK, control
<1>2. /\ client \in [Clients -> ClientState] /\ inbox \in [Users -> Seq(Packet)]
      /\ outbox \in [Users -> Seq(Message)] /\ sent \in [Users -> Nat]
  BY DEF TypeOK, ServerTypeOK
<1>3. ASSUME NEW s \in Says[u], Put(u, s)
      PROVE  inbox' \in [Users -> Seq(Packet)] /\ sent' \in [Users -> Nat]
  <2>1. s \in Line  BY ChatRoomAssumption
  <2>2. [kind |-> s.kind, arg |-> s.arg, n |-> sent[u] + 1] \in Packet
    BY <1>2, <2>1 DEF Line, Packet
  <2>3. QED  BY <1>2, <1>3, <2>2 DEF Put
<1>4. CASE Say(u)
  BY <1>1, <1>2, <1>3, <1>4 DEF Say, ClientState
<1>5. CASE u \in Clients /\ Connect(u)
  BY <1>1, <1>2, <1>5 DEF Connect, ClientState
<1>6. CASE u \in Clients /\ TryName(u)
  BY <1>1, <1>2, <1>3, <1>6 DEF TryName, ClientState
<1>7. CASE u \in Clients /\ HearAnswer(u)
  <2>1. PICK k \in 1..Len(outbox[u]) :
            outbox' = [outbox EXCEPT ![u] = SubSeq(@, k + 1, Len(@))]
    BY <1>7 DEF HearAnswer
  <2>2. outbox' \in [Users -> Seq(Message)]  BY <1>2, <2>1
  <2>3. client' \in [Clients -> ClientState]
    BY <1>2, <1>7 DEF HearAnswer, ClientState
  <2>4. QED  BY <1>1, <1>2, <1>7, <2>2, <2>3 DEF HearAnswer
<1>8. CASE u \in Clients /\ HangUp(u)
  BY <1>1, <1>2, <1>8 DEF HangUp, ClientState
<1>9. CASE u \in Clients /\ Break(u)
  <2>1. inbox' = inbox \/ inbox' = [inbox EXCEPT ![u] = <<>>]
    BY <1>9 DEF Break
  <2>2. inbox' \in [Users -> Seq(Packet)]
    <3>1. <<>> \in Seq(Packet)  OBVIOUS
    <3>2. QED  BY <1>2, <2>1, <3>1
  <2>3. client' \in [Clients -> ClientState]
    BY <1>2, <1>9 DEF Break, ClientState
  <2>4. QED  BY <1>1, <1>2, <1>9, <2>2, <2>3 DEF Break
<1>10. QED  BY <1>4, <1>5, <1>6, <1>7, <1>8, <1>9 DEF ClientStep

(* A task that a worker takes starts at its first statement                *)
(* (ThreadPool::getTask).                                                  *)
LEMMA StartType ==
    ASSUME TypeOK, StartTask
    PROVE  TypeOK'
<1> DEFINE t == Head(taskQueue)
<1>1. t \in Threads /\ Tail(taskQueue) \in Seq(Threads)
  BY DEF StartTask, TypeOK
<1>2. PcTypeOK'
  <2>1. CASE t = Acceptor
    BY <2>1, AcceptorGoes DEF StartTask, TypeOK, AcceptorPC
  <2>2. CASE t # Acceptor
    BY <1>1, <2>2, HandlerGoes, LabelsType DEF StartTask, TypeOK, Labels, Threads
  <2>3. QED  BY <2>1, <2>2
<1>3. QED  BY <1>1, <1>2, UserFrame, ServerFrame, StackFrame DEF StartTask, TypeOK

(* The main thread's wait and joins are well typed.                        *)
LEMMA MainType ==
    ASSUME TypeOK, MainStep \/ SpuriousWakeup
    PROVE  TypeOK'
<1>1. PICK l \in MainPC : Moves(Main, l)
  BY DEF MainStep, MainChecks, MainBlocks, MainJoins, SpuriousWakeup, MainPC
<1>2. PcTypeOK'
  BY <1>1, NamesApart DEF Moves, Goto, TypeOK, PcTypeOK
<1>3. QED
  BY <1>1, <1>2, UserFrame, ServerFrame, StackFrame DEF Moves, TypeOK, control

(* /end is well typed.                                                     *)
LEMMA HostType ==
    ASSUME TypeOK, HostStep
    PROVE  TypeOK'
<1> USE NamesApart
<1>1. CASE RaiseShouldQuit
  <2>1. PcTypeOK'
    BY <1>1, HandlerGoes, LabelsType DEF RaiseShouldQuit, TypeOK, Labels
  <2>2. QED
    BY <1>1, <2>1, UserFrame, ServerFrame, StackFrame DEF RaiseShouldQuit, TypeOK
<1>2. CASE NotifyMain
  <2>1. PcTypeOK'
    BY <1>2 DEF NotifyMain, TypeOK, PcTypeOK, Outside, HandlerPC, MainPC
  <2>2. StackTypeOK'  BY <1>2, NoPacketType DEF NotifyMain, TypeOK, StackTypeOK
  <2>3. QED
    BY <1>2, <2>1, <2>2, UserFrame, ServerFrame DEF NotifyMain, TypeOK, control
<1>3. QED  BY <1>1, <1>2 DEF HostStep

(* The end of the process is well typed.                                   *)
LEMMA CrashType ==
    ASSUME TypeOK, NEW u \in Users, UseAfterFree(u) \/ BadErrorText(u)
    PROVE  TypeOK'
BY UserFrame, ServerFrame, StackFrame DEF UseAfterFree, BadErrorText, TypeOK, PcTypeOK
-----------------------------------------------------------------------------
(* What a step leaves alone.                                               *)

(* A step of handler t: it is inside its task and stays there or ends, it  *)
(* touches no other thread's place and locals, no name, no handle and no   *)
(* task, it enters the broadcast loop only with a broadcast, and it        *)
(* handles /quit only if the packet came from its own client, whose key    *)
(* alone opens it.                                                         *)
Keeps(t) ==
    /\ pc[t] \notin Outside
    /\ pc'[t] # "idle"
    /\ \A v \in Threads \ {t} : pc'[v] = pc[v] /\ msg'[v] = msg[v] /\ target'[v] = target[v]
    /\ UNCHANGED <<username, sock, client, taskQueue>>
    /\ pc'[t] \in {"scan", "send"} =>
           UNCHANGED msg /\ (pc[t] \in {"scan", "send"} \/ msg[t].kind \in Broadcasts)
    /\ pc'[t] = "dispatch" => msg'[t].kind # "quit" \/ peer[sock[t]] = t

(* Going back to the loop touches nobody else.                             *)
LEMMA BackKeeps ==
    ASSUME TypeOK, NEW t \in Users, BackToLoop(t), pc[t] \notin Outside,
           UNCHANGED <<username, sock, client, taskQueue>>
    PROVE  Keeps(t)
BY NamesApart DEF Keeps, BackToLoop, Goto, TypeOK, PcTypeOK, StackTypeOK

(* Going on within a handler touches nobody else.                          *)
LEMMA GoesKeeps ==
    ASSUME TypeOK, NEW t \in Users, NEW l \in Labels \ {"idle"}, Goto(t, l),
           pc[t] \notin Outside,
           \A v \in Threads \ {t} : msg'[v] = msg[v] /\ target'[v] = target[v],
           UNCHANGED <<username, sock, client, taskQueue>>,
           l \in {"scan", "send"} =>
               UNCHANGED msg /\ (pc[t] \in {"scan", "send"} \/ msg[t].kind \in Broadcasts),
           l = "dispatch" => msg'[t].kind # "quit" \/ peer[sock[t]] = t
    PROVE  Keeps(t)
BY NamesApart DEF Keeps, Goto, TypeOK, PcTypeOK

(* The loop of a handler leaves the registry alone.                        *)
LEMMA LoopKeeps ==
    ASSUME TypeOK, NEW t \in Users, LoopStep(t)
    PROVE  Keeps(t) /\ UNCHANGED <<users, freed, peer>>
<1> USE NamesApart DEF userVars, serverVars, registryVars, socketVars, control,
         locals, Labels, Outside, Moves, TypeOK, StackTypeOK
<1>1. CASE TestQuit(t)  BY <1>1, GoesKeeps DEF TestQuit
<1>2. CASE Receive(t)
  <2>1. msg'[t].kind # "quit" \/ peer[sock[t]] = t
    BY <1>2 DEF Receive, Opened, NoPacket
  <2>2. QED  BY <1>2, <2>1, GoesKeeps DEF Receive
<1>3. CASE ReceiveThrows(t)  BY <1>3, GoesKeeps DEF ReceiveThrows
<1>4. CASE Decide(t)  BY <1>4, GoesKeeps DEF Decide
<1>5. CASE DecideThrows(t)  BY <1>5, GoesKeeps DEF DecideThrows, Keeps
<1>6. CASE wait_completeTransfer(t)  BY <1>6, BackKeeps DEF wait_completeTransfer
<1>7. CASE Catch(t)
  <2>1. msg'[t].kind # "quit" \/ Goto(t, "done")
    BY <1>7 DEF Catch, NoPacket
  <2>2. QED  BY <1>7, <2>1, GoesKeeps DEF Catch
<1>8. QED  BY <1>1, <1>2, <1>3, <1>4, <1>5, <1>6, <1>7 DEF LoopStep

(* Of the commands only /quit changes the registry.                        *)
LEMMA CommandKeeps ==
    ASSUME TypeOK, NEW t \in Users, CommandStep(t)
    PROVE  Keeps(t) /\ (Quit(t) \/ UNCHANGED <<users, freed, peer>>)
<1> USE NamesApart DEF userVars, serverVars, registryVars, socketVars, control,
         locals, Labels, Outside, Moves, TypeOK, StackTypeOK, Handling
<1>1. CASE Quit(t)  BY <1>1, BackKeeps DEF Quit
<1>2. CASE ListUsers(t)  BY <1>2, GoesKeeps DEF ListUsers
<1>3. CASE ListCommands(t)  BY <1>3, GoesKeeps DEF ListCommands
<1>4. CASE WhisperSocket(t)  BY <1>4, GoesKeeps DEF WhisperSocket
<1>5. CASE WhisperUser(t)  BY <1>5, GoesKeeps DEF WhisperUser
<1>6. CASE Utter(t)
  <2>1. Utterance(t).next \in
            {"loop", "get", "approved2", "info", "denied2", "unmarkThem", "failed2", "report"}
    BY <1>6, UtteranceType DEF Utter
  <2>3. pc[t] \notin Outside  BY <1>6 DEF Utter, Saying
  <2>2. CASE Utterance(t).next = "loop"
    BY <1>6, <2>1, <2>2, <2>3, BackKeeps DEF Utter
  <2>4. CASE Utterance(t).next # "loop"
    BY <1>6, <2>1, <2>4, <2>3, GoesKeeps DEF Utter
  <2>5. QED  BY <2>2, <2>4
<1>7. QED  BY <1>1, <1>2, <1>3, <1>4, <1>5, <1>6 DEF CommandStep

(* A broadcast leaves the registry alone.                                  *)
LEMMA BroadcastKeeps ==
    ASSUME TypeOK, NEW t \in Users, BroadcastStep(t)
    PROVE  Keeps(t) /\ UNCHANGED <<users, freed, peer>>
<1> USE NamesApart DEF userVars, serverVars, registryVars, socketVars, control,
         locals, Labels, Outside, Moves, TypeOK, StackTypeOK
<1>1. CASE BeginBroadcast(t)  BY <1>1, GoesKeeps DEF BeginBroadcast
<1>2. CASE Scan(t)
  <2>1. Goto(t, "scan") \/ Goto(t, "send")
    BY <1>2 DEF Scan, Goto, PcTypeOK
  <2>2. QED BY <1>2, <2>1, GoesKeeps DEF Scan
<1>3. CASE SendOne(t)  BY <1>3, GoesKeeps DEF SendOne
<1>4. CASE EndBroadcast(t)  BY <1>4, GoesKeeps, BackKeeps DEF EndBroadcast
<1>5. QED  BY <1>1, <1>2, <1>3, <1>4 DEF BroadcastStep

(* A transfer leaves the registry alone.                                   *)
LEMMA TransferKeeps ==
    ASSUME TypeOK, NEW t \in Users, TransferStep(t)
    PROVE  Keeps(t) /\ UNCHANGED <<users, freed, peer>>
<1> USE NamesApart DEF userVars, serverVars, registryVars, socketVars, control,
         locals, Labels, Outside, Moves, TypeOK, StackTypeOK, Handling
<1>1. CASE LookUp(t)  BY <1>1, GoesKeeps DEF LookUp
<1>2. CASE MarkThem(t)  BY <1>2, GoesKeeps DEF MarkThem
<1>3. CASE MarkSelf(t)  BY <1>3, GoesKeeps DEF MarkSelf
<1>4. CASE AwaitDecision(t)  BY <1>4, GoesKeeps DEF AwaitDecision
<1>5. CASE AwaitThrows(t)  BY <1>5, GoesKeeps DEF AwaitThrows
<1>6. CASE Decided(t)  BY <1>6, GoesKeeps DEF Decided
<1>7. CASE SendInfo(t)  BY <1>7, GoesKeeps DEF SendInfo
<1>8. CASE Resume(t)  BY <1>8, GoesKeeps DEF Resume
<1>9. CASE UnmarkThem(t)  BY <1>9, GoesKeeps DEF UnmarkThem
<1>10. CASE UnmarkSelf(t)  BY <1>10, BackKeeps DEF UnmarkSelf
<1>11. QED
  BY <1>1, <1>2, <1>3, <1>4, <1>5, <1>6, <1>7, <1>8, <1>9, <1>10 DEF TransferStep

(* No step of a handler but /quit changes the registry.                    *)
LEMMA HandlerKeeps ==
    ASSUME TypeOK, NEW t \in Users, HandlerStep(t)
    PROVE  Keeps(t) /\ (Quit(t) \/ UNCHANGED <<users, freed, peer>>)
BY LoopKeeps, CommandKeeps, BroadcastKeeps, TransferKeeps DEF HandlerStep

(* /end leaves the registry alone.                                         *)
LEMMA HostKeeps ==
    ASSUME TypeOK, HostStep
    PROVE  Keeps(Host) /\ UNCHANGED <<users, freed, peer>>
<1> USE NamesApart DEF userVars, serverVars, registryVars, socketVars, control,
         locals, Labels, Outside, TypeOK, StackTypeOK
<1>1. CASE RaiseShouldQuit  BY <1>1, GoesKeeps DEF RaiseShouldQuit
<1>2. CASE NotifyMain  BY <1>2 DEF NotifyMain, Keeps, PcTypeOK
<1>3. QED  BY <1>1, <1>2 DEF HostStep

(* A step that the invariant does not notice.                              *)
Bystands ==
    /\ UNCHANGED <<username, users, freed, sock, peer, msg, target, taskQueue>>
    /\ \A v \in Threads : pc'[v] = pc[v]
    /\ \A c \in Clients : client'[c] \in {"out", "dialing"} => client[c] \in {"out", "dialing"}

(* Nothing a client does changes the server's state, except what it puts   *)
(* into its own inbox and that it is no longer outside.                    *)
LEMMA ClientBystands ==
    ASSUME TypeOK, NEW u \in Users, Say(u) \/ (u \in Clients /\ ClientStep(u))
    PROVE  Bystands
<1> USE DEF userVars, registryVars, socketVars, control, locals, TypeOK,
         ServerTypeOK, Bystands
<1>1. CASE Say(u)  BY <1>1 DEF Say
<1>2. CASE u \in Clients /\ Connect(u)  BY <1>2 DEF Connect
<1>3. CASE u \in Clients /\ TryName(u)  BY <1>3 DEF TryName
<1>4. CASE u \in Clients /\ HearAnswer(u)  BY <1>4 DEF HearAnswer
<1>5. CASE u \in Clients /\ HangUp(u)  BY <1>5 DEF HangUp
<1>6. CASE u \in Clients /\ Break(u)  BY <1>6 DEF Break
<1>7. QED  BY <1>1, <1>2, <1>3, <1>4, <1>5, <1>6 DEF ClientStep

(* Neither does the main thread, nor the end of the process.               *)
LEMMA MainBystands ==
    ASSUME TypeOK,
           MainStep \/ SpuriousWakeup \/ (\E u \in Users : UseAfterFree(u) \/ BadErrorText(u))
    PROVE  Bystands
BY NamesApart DEF userVars, serverVars, registryVars, socketVars, control, locals,
     Bystands, Moves, Goto,
   MainStep, MainChecks, MainBlocks, MainJoins, SpuriousWakeup, UseAfterFree,
   BadErrorText, TypeOK, PcTypeOK

=============================================================================
