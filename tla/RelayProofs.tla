----------------------------- MODULE RelayProofs -----------------------------
(* The broadcasts: everybody sees chat messages in one order, who is said  *)
(* to have left has left, and nobody is passed over; and the threads keep  *)
(* to the contract of the pool.                                            *)
EXTENDS TransferProofs

-----------------------------------------------------------------------------
(* What a step does to broadcasts, outboxes and inboxes. *)

(* Thread t is in the loop of broadcastMessageExceptSender.                *)
OnTheAir(t) == pc[t] \in {"scan", "send"}

Stays(t) == pc'[t] = pc[t] /\ msg'[t] = msg[t] /\ idx'[t] = idx[t]

(* A step that is no part of a broadcast.                                  *)
OffAir ==
    /\ UNCHANGED usersMutex
    /\ Unlocked \/ UNCHANGED users
    /\ \A t \in Users : OnTheAir(t) \/ OnTheAir(t)' => Stays(t)

(* What u gets is no chat message, no /end and no goodbye; what it got     *)
(* before stays in its order, or the oldest of it has been read.           *)
Unaired(u) ==
    \E d \in Nat : \A i \in DOMAIN outbox'[u] :
        \/ i + d \in DOMAIN outbox[u] /\ outbox'[u][i] = outbox[u][i + d]
        \/ outbox'[u][i].kind \notin {"chat", "end", "left"}

(* u has sent something, its oldest packets have been read, or neither.    *)
Speaks(u) ==
    /\ sent'[u] \in Nat /\ sent[u] <= sent'[u]
    /\ \E d \in Nat : \A i \in DOMAIN inbox'[u] :
          \/ i + d \in DOMAIN inbox[u] /\ inbox'[u][i] = inbox[u][i + d]
          \/ /\ i = Len(inbox'[u]) /\ inbox'[u][i].kind # "left"
             /\ inbox'[u][i].n = sent'[u] /\ sent'[u] = sent[u] + 1

(* The handler of u has read u's next packet.                              *)
Hears(u) ==
    /\ pc[u] = "recv" /\ peer[sock[u]] = u
    /\ 1 \in DOMAIN inbox[u] /\ msg'[u] = inbox[u][1]
    /\ \A i \in DOMAIN inbox'[u] : i + 1 \in DOMAIN inbox[u] /\ inbox'[u][i] = inbox[u][i + 1]
    /\ UNCHANGED sent

(* What the handler of u has at hand.                                      *)
Minds(u) ==
    \/ msg'[u] = msg[u] /\ (pc'[u] = "dispatch" => pc[u] = "dispatch")
    \/ Hears(u)
    \/ msg'[u].n = 0 /\ msg'[u].kind = "garbled"
    \/ /\ msg'[u].n = 0 /\ msg'[u].kind = "left"
       /\ pc[u] = "catch" /\ pc'[u] = "dispatch"
       /\ shouldQuit \/ u \notin Registered
       /\ ~shouldQuit

Listens == \A u \in Users : Speaks(u) /\ Minds(u)

Elsewhere == OffAir /\ Listens /\ \A u \in Users : Unaired(u)

(* Who gets nothing and loses nothing.                                     *)
LEMMA SameUnaired ==
    ASSUME TypeOK, NEW u \in Users, outbox'[u] = outbox[u]
    PROVE  Unaired(u)
<1>1. \A i \in DOMAIN outbox'[u] : i + 0 \in DOMAIN outbox[u] /\ outbox'[u][i] = outbox[u][i + 0]
  BY DEF TypeOK, ServerTypeOK
<1>2. QED  BY <1>1 DEF Unaired

(* Who gets one message that is for nobody else.                           *)
LEMMA OneUnaired ==
    ASSUME TypeOK, NEW u \in Users, NEW m, m.kind \notin {"chat", "end", "left"},
           outbox'[u] = Append(outbox[u], m)
    PROVE  Unaired(u)
<1>1. outbox[u] \in Seq(Message)
  BY DEF TypeOK, ServerTypeOK
<1>2. \A i \in DOMAIN outbox'[u] : (i + 0 \in DOMAIN outbox[u] /\ outbox'[u][i] = outbox[u][i + 0])
                                   \/ outbox'[u][i] = m
  BY <1>1
<1>3. QED  BY <1>2 DEF Unaired

(* What sendMessage does to the outboxes: one message for whoever the      *)
(* socket leads to, if anybody.                                            *)
LEMMA SendIs ==
    ASSUME TypeOK, NEW u, NEW m \in Message, sendMessage(u, m)
    PROVE  \A v \in Users : \/ outbox'[v] = outbox[v]
                            \/ /\ v = Reached(u)
                               /\ \E g \in {m, [m EXCEPT !.kind = "garbled"]} :
                                     (v = u => g = m) /\ outbox'[v] = Append(outbox[v], g)
<1> DEFINE c == Reached(u)
           got == IF c = u THEN m ELSE [m EXCEPT !.kind = "garbled"]
<1>1. outbox' = IF c = Nobody THEN outbox ELSE [outbox EXCEPT ![c] = Append(@, got)]
  BY DEF sendMessage
<1>2. got \in {m, [m EXCEPT !.kind = "garbled"]} /\ (c = u => got = m)
  OBVIOUS
<1> HIDE DEF got
<1>3. outbox \in [Users -> Seq(Message)]
  BY DEF TypeOK, ServerTypeOK
<1> HIDE DEF c
<1>4. \A v \in Users : outbox'[v] = outbox[v] \/ (v = c /\ outbox'[v] = Append(outbox[v], got))
  BY <1>1, <1>3
<1>5. QED  BY <1>2, <1>4 DEF c

(* sendMessage of anything but a chat message, /end or a goodbye airs      *)
(* nothing.                                                                *)
LEMMA SendUnaired ==
    ASSUME TypeOK, NEW u, NEW m \in Message, sendMessage(u, m), m.kind \notin {"chat", "end", "left"}
    PROVE  \A v \in Users : Unaired(v)
<1>1. [m EXCEPT !.kind = "garbled"].kind = "garbled"
  BY DEF Message
<1>2. ASSUME NEW v \in Users  PROVE Unaired(v)
  <2>1. \/ outbox'[v] = outbox[v]
        \/ outbox'[v] = Append(outbox[v], m)
        \/ outbox'[v] = Append(outbox[v], [m EXCEPT !.kind = "garbled"])
    BY SendIs
  <2>2. QED  BY <1>1, <2>1, SameUnaired, OneUnaired
<1>3. QED  BY <1>2

(* Neither does sendTransferInfo.                                          *)
LEMMA InfoUnaired ==
    ASSUME TypeOK, NEW u, NEW w, sendTransferInfo(u, w)
    PROVE  \A v \in Users : Unaired(v)
<1> DEFINE R == {Reached(u), Reached(w)} \ {Host, Nobody}
           got(c) == [kind |-> IF c \in {u, w} THEN "info" ELSE "garbled", from |-> u, n |-> 0]
<1>1. outbox' = [c \in Users |-> IF c \in R THEN Append(outbox[c], got(c)) ELSE outbox[c]]
  BY DEF sendTransferInfo
<1>2. \A v : got(v).kind \in {"info", "garbled"}
  OBVIOUS
<1> HIDE DEF R, got
<1>3. ASSUME NEW v \in Users  PROVE Unaired(v)
  <2>1. outbox'[v] = outbox[v] \/ outbox'[v] = Append(outbox[v], got(v))
    BY <1>1
  <2>2. QED  BY <1>2, <2>1, SameUnaired, OneUnaired
<1>4. QED  BY <1>3

(* Who says nothing and whose packets nobody reads.                        *)
LEMMA QuietSpeaks ==
    ASSUME TypeOK, NEW u \in Users, sent'[u] = sent[u], inbox'[u] = inbox[u]
    PROVE  Speaks(u)
<1>1. inbox[u] \in Seq(Packet) /\ sent[u] \in Nat
  BY DEF TypeOK, ServerTypeOK
<1>2. \E d \in Nat : \A i \in DOMAIN inbox'[u] :
           i + d \in DOMAIN inbox[u] /\ inbox'[u][i] = inbox[u][i + d]
  <2>1. \A i \in DOMAIN inbox'[u] : i + 0 \in DOMAIN inbox[u] /\ inbox'[u][i] = inbox[u][i + 0]
    BY <1>1
  <2>2. QED  BY <2>1
<1>3. sent'[u] \in Nat /\ sent[u] <= sent'[u]
  BY <1>1
<1>4. QED  BY <1>2, <1>3 DEF Speaks

(* A recv takes the oldest packets.                                        *)
LEMMA ReadSpeaks ==
    ASSUME TypeOK, NEW u \in Users, UNCHANGED sent, NEW k \in 1..Len(inbox[u]),
           inbox'[u] = SubSeq(inbox[u], k + 1, Len(inbox[u]))
    PROVE  /\ Speaks(u)
           /\ \A i \in DOMAIN inbox'[u] : i + k \in DOMAIN inbox[u]
                                          /\ inbox'[u][i] = inbox[u][i + k]
<1>1. inbox[u] \in Seq(Packet) /\ sent[u] \in Nat
  BY DEF TypeOK, ServerTypeOK
<1>2. \A i \in DOMAIN inbox'[u] : i + k \in DOMAIN inbox[u] /\ inbox'[u][i] = inbox[u][i + k]
  BY <1>1
<1>3. QED  BY <1>1, <1>2 DEF Speaks

(* One packet more.                                                        *)
LEMMA PutSpeaks ==
    ASSUME TypeOK, NEW u \in Users, NEW s \in Says[u], Put(u, s)
    PROVE  \A v \in Users : Speaks(v)
<1>1. inbox \in [Users -> Seq(Packet)] /\ sent \in [Users -> Nat]
  BY DEF TypeOK, ServerTypeOK
<1> DEFINE p == [kind |-> s.kind, arg |-> s.arg, n |-> sent[u] + 1]
<1>2. p.kind # "left" /\ p.n = sent[u] + 1
  BY ChatRoomAssumption DEF Line
<1>3. inbox' = [inbox EXCEPT ![u] = Append(@, p)] /\ sent' = [sent EXCEPT ![u] = @ + 1]
  BY DEF Put
<1> HIDE DEF p
<1>4. \A v \in Users \ {u} : inbox'[v] = inbox[v] /\ sent'[v] = sent[v]
  BY <1>1, <1>3
<1>5. Speaks(u)
  <2>1. inbox'[u] = Append(inbox[u], p) /\ sent'[u] = sent[u] + 1 /\ sent[u] \in Nat
        /\ inbox[u] \in Seq(Packet)
    BY <1>1, <1>3
  <2>2. Len(inbox'[u]) = Len(inbox[u]) + 1 /\ DOMAIN inbox'[u] = 1..(Len(inbox[u]) + 1)
        /\ DOMAIN inbox[u] = 1..Len(inbox[u]) /\ Len(inbox[u]) \in Nat
        /\ inbox'[u][Len(inbox[u]) + 1] = p
        /\ \A i \in 1..Len(inbox[u]) : inbox'[u][i] = inbox[u][i]
    BY <2>1
  <2>3. \A i \in DOMAIN inbox'[u] :
          \/ i + 0 \in DOMAIN inbox[u] /\ inbox'[u][i] = inbox[u][i + 0]
          \/ i = Len(inbox'[u]) /\ inbox'[u][i] = p
    BY <2>2
  <2>4. \A i \in DOMAIN inbox'[u] :
          \/ i + 0 \in DOMAIN inbox[u] /\ inbox'[u][i] = inbox[u][i + 0]
          \/ /\ i = Len(inbox'[u]) /\ inbox'[u][i].kind # "left"
             /\ inbox'[u][i].n = sent'[u] /\ sent'[u] = sent[u] + 1
    BY <1>2, <2>1, <2>3
  <2>5. sent'[u] \in Nat /\ sent[u] <= sent'[u]
    BY <2>1
  <2>6. QED  BY <2>4, <2>5 DEF Speaks
<1>6. QED  BY <1>4, <1>5, QuietSpeaks
-----------------------------------------------------------------------------
(* Steps that are no part of a broadcast. *)

(* A step of the handler of t that sends nothing, reads nothing and is not *)
(* in a broadcast.                                                         *)
LEMMA HandlerElsewhere ==
    ASSUME TypeOK, NEW t \in Users, Keeps(t), ~OnTheAir(t), ~OnTheAir(t)',
           UNCHANGED usersMutex, Unlocked \/ UNCHANGED users,
           \A v \in Users \ {t} : idx'[v] = idx[v]
    PROVE  /\ OffAir
           /\ UNCHANGED <<inbox, sent>> /\ Minds(t) => Listens
           /\ UNCHANGED outbox => \A u \in Users : Unaired(u)
<1>1. \A v \in Users \ {t} : Stays(v)
  BY NamesApart DEF Keeps, Stays
<1>2. OffAir
  BY <1>1 DEF OffAir
<1>3. ASSUME UNCHANGED <<inbox, sent>>, Minds(t)  PROVE Listens
  <2>1. \A v \in Users : Minds(v)
    BY <1>1, <1>3 DEF Minds, Stays
  <2>2. \A v \in Users : Speaks(v)
    BY <1>3, QuietSpeaks
  <2>3. QED  BY <2>1, <2>2 DEF Listens
<1>4. ASSUME UNCHANGED outbox  PROVE \A u \in Users : Unaired(u)
  BY <1>4, SameUnaired
<1>5. QED  BY <1>2, <1>3, <1>4

(* Going back to the loop or on to anything but a dispatch is no reading.  *)
LEMMA GoesMinds ==
    ASSUME TypeOK, NEW t \in Users,
           BackToLoop(t) \/ (UNCHANGED msg /\ pc'[t] # "dispatch")
    PROVE  Minds(t)
BY NamesApart DEF Minds, BackToLoop, NoPacket, TypeOK, StackTypeOK

(* The loop of a handler is no broadcast, and it reads one packet at most. *)
LEMMA LoopElsewhere ==
    ASSUME TypeOK, NEW t \in Users, LoopStep(t)
    PROVE  Elsewhere
<1> USE NamesApart
<1>0. Keeps(t) /\ UNCHANGED users /\ t \in DOMAIN pc
  BY LoopKeeps DEF TypeOK, PcTypeOK
<1>1. UNCHANGED <<usersMutex, outbox>> /\ \A v \in Users \ {t} : idx'[v] = idx[v]
  BY DEF LoopStep, TestQuit, Receive, ReceiveThrows, Decide, DecideThrows,
     wait_completeTransfer, Catch, Moves, BackToLoop, serverVars, registryVars, locals,
     TypeOK, StackTypeOK
<1>2. ~OnTheAir(t) /\ ~OnTheAir(t)'
  BY <1>0 DEF LoopStep, TestQuit, Receive, ReceiveThrows, Decide, DecideThrows,
     wait_completeTransfer, Catch, Moves, BackToLoop, Goto, OnTheAir
<1>3. OffAir /\ (\A u \in Users : Unaired(u))
      /\ (UNCHANGED <<inbox, sent>> /\ Minds(t) => Listens)
  BY <1>0, <1>1, <1>2, HandlerElsewhere
<1>4. CASE TestQuit(t) \/ ReceiveThrows(t) \/ Decide(t) \/ DecideThrows(t)
           \/ wait_completeTransfer(t)
  <2>1. UNCHANGED <<inbox, sent>>
    BY <1>4 DEF TestQuit, ReceiveThrows, Decide, DecideThrows, wait_completeTransfer,
       Moves, serverVars
  <2>2. BackToLoop(t) \/ (UNCHANGED msg /\ pc'[t] # "dispatch")
    BY <1>0, <1>4 DEF TestQuit, ReceiveThrows, Decide, DecideThrows, wait_completeTransfer,
       Moves, locals, Goto
  <2>3. QED  BY <1>3, <2>1, <2>2, GoesMinds DEF Elsewhere
<1>5. CASE Catch(t)
  <2>1. UNCHANGED <<inbox, sent, shouldQuit>> /\ pc[t] = "catch"
    BY <1>5 DEF Catch, serverVars, control
  <2>2. CASE shouldQuit \/ userExists(username[t])
    BY <1>0, <1>3, <1>5, <2>1, <2>2, GoesMinds DEF Catch, Goto, Elsewhere
  <2>3. CASE ~shouldQuit /\ ~userExists(username[t])
    <3>1. t \notin Registered
      BY <2>3, UnknownName
    <3>2. pc'[t] = "dispatch" /\ msg'[t].n = 0 /\ msg'[t].kind = "left"
      BY <1>0, <1>5, <2>3 DEF Catch, Goto, NoPacket, TypeOK, StackTypeOK
    <3>3. Minds(t)
      BY <2>1, <2>3, <3>1, <3>2 DEF Minds
    <3>4. QED  BY <1>3, <2>1, <3>3 DEF Elsewhere
  <2>4. QED  BY <2>2, <2>3
<1>6. CASE Receive(t)
  <2> DEFINE c == peer[sock[t]]
  <2>1. PICK k \in 1..Len(inbox[c]) :
            /\ msg' = [msg EXCEPT ![t] = Opened(t, c, k)]
            /\ inbox' = [inbox EXCEPT ![c] = SubSeq(@, k + 1, Len(@))]
    BY <1>6 DEF Receive
  <2>2. c \in Users /\ pc[t] = "recv" /\ UNCHANGED sent
    BY <1>6 DEF Receive, TypeOK, ServerTypeOK
  <2>3. msg'[t] = Opened(t, c, k)
    BY <2>1 DEF TypeOK, StackTypeOK
  <2> HIDE DEF c
  <2>4. inbox'[c] = SubSeq(inbox[c], k + 1, Len(inbox[c]))
        /\ \A v \in Users \ {c} : inbox'[v] = inbox[v]
    BY <2>1, <2>2 DEF TypeOK, ServerTypeOK
  <2>5. \A v \in Users : Speaks(v)
    BY <2>2, <2>4, ReadSpeaks, QuietSpeaks
  <2>6. Minds(t)
    <3>1. CASE k = 1 /\ c = t
      <4>1. msg'[t] = inbox[t][1] /\ 1 \in DOMAIN inbox[t]
        BY <2>1, <2>2, <2>3, <3>1 DEF Opened, TypeOK, ServerTypeOK
      <4>2. \A i \in DOMAIN inbox'[t] : i + 1 \in DOMAIN inbox[t]
                                         /\ inbox'[t][i] = inbox[t][i + 1]
        BY <2>2, <2>4, <3>1, ReadSpeaks
      <4>3. Hears(t)
        BY <2>2, <3>1, <4>1, <4>2 DEF Hears, c
      <4>4. QED  BY <4>3 DEF Minds
    <3>2. CASE ~(k = 1 /\ c = t)
      BY <2>3, <3>2 DEF Opened, NoPacket, Minds
    <3>3. QED  BY <3>1, <3>2
  <2>7. \A v \in Users \ {t} : Minds(v)
    BY <1>0 DEF Keeps, Minds
  <2>8. QED  BY <1>3, <2>5, <2>6, <2>7 DEF Listens, Elsewhere
<1>7. QED  BY <1>4, <1>5, <1>6 DEF LoopStep

(* Commands are no broadcasts.                                             *)
LEMMA CommandElsewhere ==
    ASSUME TypeOK, NEW t \in Users, CommandStep(t)
    PROVE  Elsewhere
<1> USE NamesApart
<1>0. Keeps(t) /\ t \in DOMAIN pc
  BY CommandKeeps DEF TypeOK, PcTypeOK
<1>1. /\ UNCHANGED <<usersMutex, inbox, sent>> /\ (Unlocked \/ UNCHANGED users)
      /\ \A v \in Users \ {t} : idx'[v] = idx[v]
  BY DEF CommandStep, Quit, removeUser, ListUsers, ListCommands, WhisperSocket, WhisperUser,
     Utter, Moves, BackToLoop, serverVars, registryVars, locals, TypeOK, StackTypeOK
<1>2. CASE CommandStep(t) /\ ~Utter(t)
  <2>1. UNCHANGED outbox /\ ~OnTheAir(t) /\ ~OnTheAir(t)'
        /\ (BackToLoop(t) \/ (UNCHANGED msg /\ pc'[t] # "dispatch"))
    BY <1>0, <1>2 DEF CommandStep, Quit, ListUsers, ListCommands, WhisperSocket, WhisperUser,
       Handling, Moves, BackToLoop, Goto, serverVars, locals, OnTheAir
  <2>2. QED  BY <1>0, <1>1, <2>1, HandlerElsewhere, GoesMinds DEF Elsewhere
<1>3. CASE Utter(t)
  <2> DEFINE s == Utterance(t)
             m == [kind |-> s.kind, from |-> t, n |-> msg[t].n]
  <2>1. /\ s.kind \in Notices /\ s.kind \notin {"chat", "end", "left"}
        /\ s.next \in {"loop", "get", "approved2", "info", "denied2", "unmarkThem",
                       "failed2", "report"}
    BY <1>3 DEF Utter, Utterance, Saying, Notices
  <2>2. /\ sendMessage(s.to, m) /\ pc[t] \in Saying
        /\ IF s.next = "loop" THEN BackToLoop(t) ELSE Goto(t, s.next) /\ UNCHANGED locals
    BY <1>3 DEF Utter
  <2> HIDE DEF s
  <2>3. m \in Message /\ m.kind \notin {"chat", "end", "left"}
    BY <2>1 DEF Message, Packet, TypeOK, StackTypeOK
  <2>4. \A v \in Users : Unaired(v)
    <3> HIDE DEF m
    <3> QED  BY <2>2, <2>3, SendUnaired
  <2>5. ~OnTheAir(t) /\ ~OnTheAir(t)' /\ (BackToLoop(t) \/ (UNCHANGED msg /\ pc'[t] # "dispatch"))
    BY <1>0, <2>1, <2>2 DEF OnTheAir, Saying, BackToLoop, Goto, locals
  <2>6. QED  BY <1>0, <1>1, <2>4, <2>5, HandlerElsewhere, GoesMinds DEF Elsewhere
<1>4. QED  BY <1>2, <1>3

(* Transfers are no broadcasts.                                            *)
LEMMA TransferElsewhere ==
    ASSUME TypeOK, NEW t \in Users, TransferStep(t)
    PROVE  Elsewhere
<1> USE NamesApart
<1>0. Keeps(t) /\ UNCHANGED users /\ t \in DOMAIN pc
  BY TransferKeeps DEF TypeOK, PcTypeOK
<1>1. UNCHANGED <<usersMutex, inbox, sent>> /\ \A v \in Users \ {t} : idx'[v] = idx[v]
  BY DEF TransferStep, LookUp, MarkThem, MarkSelf, AwaitDecision, AwaitThrows, Decided,
     SendInfo, Resume, UnmarkThem, UnmarkSelf, Moves, BackToLoop, serverVars, registryVars,
     locals, TypeOK, StackTypeOK
<1>2. ~OnTheAir(t) /\ ~OnTheAir(t)' /\ (BackToLoop(t) \/ (UNCHANGED msg /\ pc'[t] # "dispatch"))
  BY <1>0 DEF TransferStep, LookUp, MarkThem, MarkSelf, AwaitDecision, AwaitThrows, Decided,
     SendInfo, Resume, UnmarkThem, UnmarkSelf, Handling, Moves, BackToLoop, Goto, locals,
     OnTheAir
<1>3. \A u \in Users : Unaired(u)
  <2>1. CASE SendInfo(t)
    BY <2>1, InfoUnaired DEF SendInfo
  <2>2. CASE ~SendInfo(t)
    <3>1. UNCHANGED outbox
      BY <2>2 DEF TransferStep, LookUp, MarkThem, MarkSelf, AwaitDecision, AwaitThrows,
         Decided, Resume, UnmarkThem, UnmarkSelf, Moves, serverVars
    <3>2. QED  BY <3>1, SameUnaired
  <2>3. QED  BY <2>1, <2>2
<1>4. QED  BY <1>0, <1>1, <1>2, <1>3, HandlerElsewhere, GoesMinds DEF Elsewhere

(* /end raises a flag and wakes the main thread.                           *)
LEMMA HostElsewhere ==
    ASSUME TypeOK, HostStep
    PROVE  Elsewhere
<1> USE NamesApart
<1>0. Keeps(Host) /\ UNCHANGED users /\ Host \in DOMAIN pc
  BY HostKeeps DEF TypeOK, PcTypeOK
<1>1. /\ UNCHANGED <<usersMutex, inbox, sent, outbox>>
      /\ \A v \in Users \ {Host} : idx'[v] = idx[v]
  BY DEF HostStep, RaiseShouldQuit, NotifyMain, serverVars, registryVars, locals, TypeOK,
     StackTypeOK
<1>2. ~OnTheAir(Host) /\ ~OnTheAir(Host)'
  BY <1>0 DEF HostStep, RaiseShouldQuit, NotifyMain, Goto, OnTheAir, TypeOK, PcTypeOK
<1>3. Minds(Host)
  BY <1>0 DEF HostStep, RaiseShouldQuit, NotifyMain, Goto, locals, NoPacket, TypeOK, PcTypeOK,
     StackTypeOK, Minds
<1>4. QED  BY <1>0, <1>1, <1>2, <1>3, HandlerElsewhere DEF Elsewhere

(* A step that moves no handler but one that starts.                       *)
LEMMA StillElsewhere ==
    ASSUME TypeOK, UNCHANGED usersMutex, Unlocked \/ UNCHANGED users,
           \A u \in Users : /\ msg'[u] = msg[u] /\ idx'[u] = idx[u]
                            /\ pc'[u] = pc[u] \/ (pc[u] = "idle" /\ pc'[u] = "loop")
    PROVE  OffAir /\ \A u \in Users : Minds(u)
BY DEF OffAir, OnTheAir, Stays, Minds

(* A task that starts is in no broadcast.                                  *)
LEMMA StartElsewhere ==
    ASSUME IInv, StartTask
    PROVE  Elsewhere
<1> USE NamesApart DEF IInv
<1> DEFINE t == Head(taskQueue)
<1>1. t \in Threads /\ pc[t] = "idle"
  BY DEF StartTask, TypeOK, Lifecycle, WaitingTasks
<1>2. /\ UNCHANGED <<usersMutex, users, inbox, sent, outbox, msg, idx>>
      /\ pc' = [pc EXCEPT ![t] = IF t = Acceptor THEN "test" ELSE "loop"]
  BY DEF StartTask, Goto, serverVars, registryVars, locals
<1> HIDE DEF t
<1>3. \A u \in Users : pc'[u] = pc[u] \/ (pc[u] = "idle" /\ pc'[u] = "loop")
  BY <1>1, <1>2 DEF TypeOK, PcTypeOK
<1>4. QED
  BY <1>2, <1>3, StillElsewhere, SameUnaired, QuietSpeaks DEF Listens, Elsewhere

(* getConnections is in no broadcast; it may read a name that nobody       *)
(* handles.                                                                *)
LEMMA AcceptorElsewhere ==
    ASSUME IInv, AcceptorStep
    PROVE  Elsewhere
<1> USE NamesApart DEF IInv
<1>1. \A u \in Users : msg'[u] = msg[u] /\ idx'[u] = idx[u] /\ pc'[u] = pc[u]
  BY DEF AcceptorStep, AcceptorTest, SelectTimesOut, Accept, ExchangeKeys,
     HandshakeFails, AddUser, ReceiveName, LoginLost, CheckName, AnswerName, SetName,
     PushHandler, Moves, Goto, locals, TypeOK, PcTypeOK, StackTypeOK
<1>2. UNCHANGED <<usersMutex, sent>> /\ (Unlocked \/ UNCHANGED users)
  BY DEF AcceptorStep, AcceptorTest, SelectTimesOut, Accept, ExchangeKeys,
     HandshakeFails, AddUser, addUser, ReceiveName, LoginLost, CheckName, AnswerName, SetName,
     PushHandler, Moves, serverVars, registryVars
<1>3. OffAir /\ \A u \in Users : Minds(u)
  BY <1>1, <1>2, StillElsewhere
<1>4. \A u \in Users : Speaks(u)
  <2>1. CASE ReceiveName
    <3> DEFINE c == target[Acceptor]
    <3>1. PICK k \in 1..Len(inbox[c]) :
             inbox' = [inbox EXCEPT ![c] = SubSeq(@, k + 1, Len(@))]
      BY <2>1 DEF ReceiveName
    <3>2. c \in Users
      BY <2>1 DEF ReceiveName, Lifecycle, Newcomer, AcceptorPC
    <3> HIDE DEF c
    <3>3. inbox'[c] = SubSeq(inbox[c], k + 1, Len(inbox[c]))
          /\ \A v \in Users \ {c} : inbox'[v] = inbox[v]
      BY <3>1, <3>2 DEF TypeOK, ServerTypeOK
    <3>4. QED  BY <1>2, <3>2, <3>3, ReadSpeaks, QuietSpeaks
  <2>2. CASE ~ReceiveName
    <3>1. UNCHANGED inbox
      BY <2>2 DEF AcceptorStep, AcceptorTest, SelectTimesOut, Accept, ExchangeKeys,
         HandshakeFails, AddUser, LoginLost, CheckName, AnswerName, SetName, PushHandler,
         Moves, serverVars
    <3>2. QED  BY <1>2, <3>1, QuietSpeaks
  <2>3. QED  BY <2>1, <2>2
<1>5. \A u \in Users : Unaired(u)
  <2>1. CASE AnswerName
    <3> DEFINE m == [kind |-> pc[Acceptor], from |-> Host, n |-> 0]
    <3>1. m \in Message /\ m.kind \notin {"chat", "end", "left"} /\ sendMessage(target[Acceptor], m)
      BY <2>1 DEF AnswerName, Message, Notices
    <3> HIDE DEF m
    <3>2. QED  BY <3>1, SendUnaired
  <2>2. CASE ~AnswerName
    <3>1. UNCHANGED outbox
      BY <2>2 DEF AcceptorStep, AcceptorTest, SelectTimesOut, Accept, ExchangeKeys,
         HandshakeFails, AddUser, LoginLost, CheckName, ReceiveName, SetName, PushHandler,
         Moves, serverVars
    <3>2. QED  BY <3>1, SameUnaired
  <2>3. QED  BY <2>1, <2>2
<1>6. QED  BY <1>3, <1>4, <1>5 DEF Listens, Elsewhere

(* What people type and hear is no broadcast.                              *)
LEMMA ClientElsewhere ==
    ASSUME TypeOK, NEW u \in Users, Say(u) \/ (u \in Clients /\ ClientStep(u))
    PROVE  Elsewhere
<1> USE NamesApart
<1>1. UNCHANGED <<pc, msg, idx, usersMutex, users>>
  BY DEF Say, ClientStep, Connect, TryName, HearAnswer, HangUp, Break, registryVars, locals
<1>2. OffAir /\ \A v \in Users : Minds(v)
  BY <1>1, StillElsewhere
<1>3. \A v \in Users : Speaks(v)
  <2>1. CASE \E s \in Says[u] : Put(u, s)
    BY <2>1, PutSpeaks
  <2>2. CASE u \in Clients /\ Break(u)
    <3>1. UNCHANGED sent /\ (inbox' = inbox \/ inbox' = [inbox EXCEPT ![u] = <<>>])
      BY <2>2 DEF Break
    <3>2. \A v \in Users : inbox'[v] = inbox[v] \/ inbox'[v] = <<>>
      BY <3>1 DEF TypeOK, ServerTypeOK
    <3>3. \A v \in Users : inbox'[v] = <<>> => Speaks(v)
      BY <3>1 DEF Speaks, TypeOK
    <3>4. QED  BY <3>1, <3>2, <3>3, QuietSpeaks
  <2>3. CASE u \in Clients /\ (Connect(u) \/ HearAnswer(u) \/ HangUp(u))
    BY <2>3, QuietSpeaks DEF Connect, HearAnswer, HangUp
  <2>4. QED  BY <2>1, <2>2, <2>3 DEF Say, ClientStep, TryName
<1>4. \A v \in Users : Unaired(v)
  <2>1. CASE u \in Clients /\ HearAnswer(u)
    <3>1. PICK k \in 1..Len(outbox[u]) :
             outbox' = [outbox EXCEPT ![u] = SubSeq(@, k + 1, Len(@))]
      BY <2>1 DEF HearAnswer
    <3>2. outbox'[u] = SubSeq(outbox[u], k + 1, Len(outbox[u])) /\ outbox[u] \in Seq(Message)
          /\ \A v \in Users \ {u} : outbox'[v] = outbox[v]
      BY <3>1 DEF TypeOK, ServerTypeOK
    <3>3. \A i \in DOMAIN outbox'[u] : i + k \in DOMAIN outbox[u]
                                       /\ outbox'[u][i] = outbox[u][i + k]
      BY <3>2
    <3>4. Unaired(u)
      BY <3>2, <3>3 DEF Unaired
    <3>5. QED  BY <3>2, <3>4, SameUnaired
  <2>2. CASE Say(u) \/ (u \in Clients /\ (Connect(u) \/ TryName(u) \/ HangUp(u) \/ Break(u)))
    <3>1. UNCHANGED outbox
      BY <2>2 DEF Say, Connect, TryName, HangUp, Break
    <3>2. QED  BY <3>1, SameUnaired
  <2>3. QED  BY <2>1, <2>2 DEF ClientStep
<1>5. QED  BY <1>2, <1>3, <1>4 DEF Listens, Elsewhere

(* Neither is what the main thread does, nor the end of the process.       *)
LEMMA MainElsewhere ==
    ASSUME TypeOK, \/ MainStep \/ SpuriousWakeup \/ UNCHANGED vars
                   \/ \E u \in Users : UseAfterFree(u) \/ BadErrorText(u)
    PROVE  Elsewhere
<1>1. /\ UNCHANGED <<msg, idx, usersMutex, users, inbox, sent, outbox>>
      /\ \A u \in Users : pc'[u] = pc[u]
  BY NamesApart DEF userVars, serverVars, registryVars, socketVars, control, locals, vars, Moves,
     Goto, MainStep, MainChecks, MainBlocks, MainJoins, SpuriousWakeup, UseAfterFree,
     BadErrorText, TypeOK, PcTypeOK
<1>2. QED
  BY <1>1, StillElsewhere, SameUnaired, QuietSpeaks DEF Listens, Elsewhere

(* Whatever is no step of a broadcast leaves broadcasts alone.             *)
LEMMA AirOrElsewhere ==
    ASSUME IInv, [Next]_vars
    PROVE  Elsewhere \/ \E t \in Users : BroadcastStep(t)
BY NextCases, LoopElsewhere, CommandElsewhere, TransferElsewhere, HostElsewhere,
   StartElsewhere, AcceptorElsewhere, ClientElsewhere, MainElsewhere DEF IInv, HandlerStep
-----------------------------------------------------------------------------
(* The steps of a broadcast. *)

(* Whoever is in the loop holds usersMutex and is at an entry of the       *)
(* registry or past the last.                                              *)
InLoop ==
    \A t \in Users : OnTheAir(t) =>
        /\ usersMutex = t
        /\ idx[t] \in 1..(Len(users) + 1)
        /\ pc[t] = "send" => idx[t] <= Len(users)

Begins(t) ==
    /\ pc[t] = "dispatch" /\ msg[t].kind \in Broadcasts
    /\ pc'[t] = "scan" /\ msg'[t] = msg[t] /\ idx'[t] = 1
    /\ Unlocked /\ usersMutex' = t
    /\ UNCHANGED outbox

Scans(t) ==
    /\ pc[t] = "scan" /\ msg'[t] = msg[t]
    /\ idx[t] <= Len(users)
    /\ \/ PassesOver(t, users[idx[t]]) /\ idx'[t] = idx[t] + 1 /\ pc'[t] = "scan"
       \/ idx'[t] = idx[t] /\ pc'[t] = "send"
    /\ UNCHANGED <<usersMutex, outbox>>

Airs(t, r) ==
    /\ pc[t] = "send" /\ pc'[t] = "scan" /\ msg'[t] = msg[t] /\ idx'[t] = idx[t] + 1
    /\ r = users[idx[t]] /\ r \in Registered /\ r \in Users
    /\ \/ outbox' = [outbox EXCEPT ![r] = Append(@, Notice(t))]
       \/ UNCHANGED outbox /\ r # Host /\ client[r] = "closed"
    /\ UNCHANGED usersMutex

Ends(t) ==
    /\ pc[t] = "scan" /\ ~OnTheAir(t)' /\ pc'[t] # "dispatch"
    /\ idx[t] > Len(users)
    /\ msg[t].kind = "left" => pc'[t] = "done"
    /\ usersMutex' = Nobody
    /\ UNCHANGED outbox

Alone(t) ==
    /\ UNCHANGED <<users, inbox, sent, isTransfering>>
    /\ \A v \in Users \ {t} : Stays(v)
    /\ Keeps(t)
    /\ Listens

(* A registered User gets what it is sent, unless its client is gone.      *)
LEMMA SendOneIs ==
    ASSUME IInv, InLoop, NEW t \in Users, SendOne(t)
    PROVE  Airs(t, users[idx[t]])
<1> USE NamesApart DEF IInv
<1> DEFINE r == users[idx[t]]
<1>1. pc[t] = "send" /\ idx[t] \in 1..Len(users) /\ users \in Seq(Users)
  BY DEF SendOne, InLoop, OnTheAir, TypeOK, ServerTypeOK
<1>2. r \in Registered /\ r \in Users
  BY <1>1 DEF Registered, ToSet
<1>3. peer[sock[r]] = r
  BY <1>2 DEF RegistryConsistent
<1> HIDE DEF r
<1>4. Reached(r) = IF r \in Clients /\ client[r] = "closed" THEN Nobody ELSE r
  BY <1>2, <1>3 DEF Reached
<1>5. sendMessage(r, Notice(t))
  BY DEF SendOne, r
<1>6. CASE r \in Clients /\ client[r] = "closed"
  <2>1. UNCHANGED outbox
    BY <1>4, <1>5, <1>6 DEF sendMessage
  <2>2. QED
    BY <1>1, <1>2, <1>6, <2>1 DEF Airs, SendOne, Goto, r, registryVars, TypeOK, PcTypeOK,
       StackTypeOK
<1>7. CASE ~(r \in Clients /\ client[r] = "closed")
  <2>1. Reached(r) = r /\ r # Nobody
    BY <1>2, <1>4, <1>7
  <2>2. outbox' = [outbox EXCEPT ![r] = Append(@, Notice(t))]
    BY <1>5, <2>1 DEF sendMessage
  <2>3. QED
    BY <1>1, <1>2, <2>2 DEF Airs, SendOne, Goto, r, registryVars, TypeOK, PcTypeOK,
       StackTypeOK
<1>8. QED  BY <1>6, <1>7

(* The steps of a broadcast, one by one.                                   *)
LEMMA BroadcastIs ==
    ASSUME IInv, InLoop, NEW t \in Users, BroadcastStep(t)
    PROVE  /\ Alone(t)
           /\ Begins(t) \/ Scans(t) \/ Ends(t) \/ \E r \in Users : Airs(t, r)
<1> USE NamesApart DEF IInv
<1>0. Keeps(t) /\ UNCHANGED users /\ t \in DOMAIN pc
  BY BroadcastKeeps DEF TypeOK, PcTypeOK
<1>1. Begins(t) \/ Scans(t) \/ Ends(t) \/ \E r \in Users : Airs(t, r)
  <2>1. CASE BeginBroadcast(t)
    BY <1>0, <2>1 DEF BeginBroadcast, Goto, Begins, TypeOK, StackTypeOK
  <2>2. CASE Scan(t)
    BY <1>0, <2>2 DEF Scan, Goto, Scans, serverVars, registryVars, TypeOK, StackTypeOK
  <2>3. CASE SendOne(t)
    BY <2>3, SendOneIs DEF Airs
  <2>4. CASE EndBroadcast(t)
    BY <1>0, <2>4 DEF EndBroadcast, BackToLoop, Goto, Ends, OnTheAir
  <2>5. QED  BY <2>1, <2>2, <2>3, <2>4 DEF BroadcastStep
<1>2. UNCHANGED <<inbox, sent, isTransfering>> /\ \A v \in Users \ {t} : idx'[v] = idx[v]
  BY DEF BroadcastStep, BeginBroadcast, Scan, SendOne, EndBroadcast, BackToLoop, serverVars,
     userVars, locals, TypeOK, StackTypeOK
<1>3. \A v \in Users \ {t} : Stays(v)
  BY <1>0, <1>2 DEF Keeps, Stays
<1>4. Minds(t)
  <2>1. CASE EndBroadcast(t) /\ msg[t].kind \notin {"left", "end"}
    BY <2>1, GoesMinds DEF EndBroadcast
  <2>2. CASE EndBroadcast(t) /\ msg[t].kind \in {"left", "end"}
    BY <1>0, <2>2 DEF EndBroadcast, Goto, locals, Minds
  <2>3. CASE Begins(t) \/ Scans(t) \/ \E r \in Users : Airs(t, r)
    BY <2>3 DEF Begins, Scans, Airs, Minds
  <2>4. QED
    <3>1. BeginBroadcast(t) \/ Scan(t) \/ SendOne(t) => Begins(t) \/ Scans(t) \/ \E r \in Users : Airs(t, r)
      BY <1>0, <1>1 DEF BeginBroadcast, Scan, SendOne, Ends, OnTheAir, Goto, TypeOK, PcTypeOK
    <3>2. QED  BY <2>1, <2>2, <2>3, <3>1 DEF BroadcastStep
<1>5. Listens
  BY <1>2, <1>3, <1>4, QuietSpeaks DEF Listens, Minds, Stays
<1>6. QED  BY <1>0, <1>1, <1>2, <1>3, <1>5 DEF Alone

(* The lock is kept over the whole loop.                                   *)
LEMMA LoopHeld ==
    ASSUME IInv, InLoop, [Next]_vars
    PROVE  InLoop'
<1> USE NamesApart DEF IInv
<1>1. users \in Seq(Users) /\ \A t \in Users : idx[t] \in Nat
  BY DEF TypeOK, ServerTypeOK, StackTypeOK
<1>2. CASE OffAir
  BY <1>2 DEF OffAir, InLoop, OnTheAir, Stays, Unlocked
<1>3. ASSUME NEW t \in Users, Alone(t)
      PROVE  /\ Begins(t) => InLoop'
             /\ Scans(t) => InLoop'
             /\ Ends(t) => InLoop'
             /\ \A r \in Users : Airs(t, r) => InLoop'
  <2>0. UNCHANGED users /\ \A v \in Users \ {t} : Stays(v)
    BY <1>3 DEF Alone
  <2>1. CASE Begins(t)
    BY <1>1, <2>0, <2>1 DEF Begins, InLoop, OnTheAir, Stays, Unlocked
  <2>2. CASE Scans(t)
    BY <1>1, <2>0, <2>2 DEF Scans, InLoop, OnTheAir, Stays
  <2>3. CASE Ends(t)
    BY <1>1, <2>0, <2>3 DEF Ends, InLoop, OnTheAir, Stays
  <2>4. CASE \E r \in Users : Airs(t, r)
    BY <1>1, <2>0, <2>4 DEF Airs, InLoop, OnTheAir, Stays
  <2>5. QED  BY <2>1, <2>2, <2>3, <2>4
<1>4. QED  BY <1>2, <1>3, AirOrElsewhere, BroadcastIs DEF Elsewhere

-----------------------------------------------------------------------------
(* One order for everybody. *)

(* What people say is numbered: a packet that waits is newer than the one  *)
(* its reader is handling.                                                 *)
Numbered ==
    \A u \in Users :
        /\ \A i, j \in DOMAIN inbox[u] : i < j => inbox[u][i].n < inbox[u][j].n
        /\ \A i \in DOMAIN inbox[u] : msg[u].n < inbox[u][i].n /\ inbox[u][i].n <= sent[u]
        /\ msg[u].n <= sent[u]

(* The order is that of chat messages and /end.                            *)
Aloud(u) == { i \in DOMAIN outbox[u] : outbox[u][i].kind \in {"chat", "end"} }

LineOrder ==
    \A u, v \in Users : \A i, j \in Aloud(u) : \A k, l \in Aloud(v) :
        i < j /\ outbox[u][i] = outbox[v][k] /\ outbox[u][j] = outbox[v][l] => k < l

(* One of these that somebody got is older than whatever its sender has    *)
(* yet to broadcast.                                                       *)
Old(m) ==
    /\ m.n <= sent[m.from]
    /\ \A j \in DOMAIN inbox[m.from] : m.n < inbox[m.from][j].n
    /\ pc[m.from] = "dispatch" /\ msg[m.from].kind \notin {"garbled", "left"}
         => m.n < msg[m.from].n

Aired == \A v \in Users : \A i \in Aloud(v) : Old(outbox[v][i])

(* The message that is being broadcast is the newest wherever it is, and   *)
(* only those before the index have it.                                    *)
Newest(t) ==
    \A v \in Users : \A i \in Aloud(v) : outbox[v][i] = Notice(t) =>
        /\ \A j \in Aloud(v) : j <= i
        /\ \E p \in 1..(idx[t] - 1) : users[p] = v

OnAir == \A t \in Users : OnTheAir(t) /\ Notice(t).kind \in {"chat", "end"} => Newest(t)

(* The invariant of the order.                                             *)
OrderInv == InLoop /\ Numbered /\ Aired /\ OnAir /\ LineOrder

(* Indices and elements of a sequence.                                     *)
LEMMA ElementsOf ==
    ASSUME NEW S, NEW s \in Seq(S)
    PROVE  DOMAIN s = 1..Len(s) /\ \A i \in DOMAIN s : i \in Nat /\ s[i] \in S
OBVIOUS

(* What waits and what was delivered is well typed.                        *)
LEMMA BoxTypes ==
    ASSUME TypeOK, NEW u \in Users
    PROVE  /\ sent[u] \in Nat /\ msg[u] \in Packet /\ msg[u].n \in Nat
           /\ inbox[u] \in Seq(Packet) /\ outbox[u] \in Seq(Message)
           /\ \A i \in DOMAIN inbox[u] : i \in Nat /\ inbox[u][i].n \in Nat
           /\ \A i \in DOMAIN outbox[u] : i \in Nat /\ outbox[u][i] \in Message
<1>1. /\ sent[u] \in Nat /\ msg[u] \in Packet
      /\ inbox[u] \in Seq(Packet) /\ outbox[u] \in Seq(Message)
  BY NamesApart DEF TypeOK, ServerTypeOK, StackTypeOK
<1>2. \A p \in Packet : p.n \in Nat
  BY DEF Packet
<1>3. QED  BY <1>1, <1>2, ElementsOf

(* Packets stay numbered.                                                  *)
LEMMA NumberedKept ==
    ASSUME TypeOK, TypeOK', Numbered, Listens
    PROVE  Numbered'
<1> SUFFICES ASSUME NEW u \in Users
             PROVE  (/\ \A i, j \in DOMAIN inbox[u] : i < j => inbox[u][i].n < inbox[u][j].n
                     /\ \A i \in DOMAIN inbox[u] : msg[u].n < inbox[u][i].n
                                                    /\ inbox[u][i].n <= sent[u]
                     /\ msg[u].n <= sent[u])'
  BY DEF Numbered
<1>1. /\ inbox[u] \in Seq(Packet) /\ inbox'[u] \in Seq(Packet)
      /\ \A i \in DOMAIN inbox[u] : inbox[u][i].n \in Nat
      /\ \A i \in DOMAIN inbox'[u] : inbox'[u][i].n \in Nat
      /\ msg[u].n \in Nat /\ msg'[u].n \in Nat /\ sent[u] \in Nat /\ sent'[u] \in Nat
  <2>1. /\ inbox'[u] \in Seq(Packet) /\ sent'[u] \in Nat /\ msg'[u] \in Packet
    BY NamesApart DEF TypeOK, ServerTypeOK, StackTypeOK
  <2>2. \A p \in Packet : p.n \in Nat
    BY DEF Packet
  <2>3. QED  BY <2>1, <2>2, BoxTypes, ElementsOf
<1>2. DOMAIN inbox[u] = 1..Len(inbox[u]) /\ DOMAIN inbox'[u] = 1..Len(inbox'[u])
  BY <1>1
<1>3. /\ \A i, j \in DOMAIN inbox[u] : i < j => inbox[u][i].n < inbox[u][j].n
      /\ \A i \in DOMAIN inbox[u] : msg[u].n < inbox[u][i].n /\ inbox[u][i].n <= sent[u]
      /\ msg[u].n <= sent[u]
  BY DEF Numbered
<1>4. sent[u] <= sent'[u]
  BY DEF Listens, Speaks
<1>5. PICK d \in Nat : \A i \in DOMAIN inbox'[u] :
          \/ i + d \in DOMAIN inbox[u] /\ inbox'[u][i] = inbox[u][i + d]
          \/ /\ i = Len(inbox'[u])
             /\ inbox'[u][i].n = sent'[u] /\ sent'[u] = sent[u] + 1
  BY DEF Listens, Speaks
<1>6. \A i, j \in DOMAIN inbox'[u] : i < j => inbox'[u][i].n < inbox'[u][j].n
  <2> SUFFICES ASSUME NEW i \in DOMAIN inbox'[u], NEW j \in DOMAIN inbox'[u], i < j
               PROVE  inbox'[u][i].n < inbox'[u][j].n
    OBVIOUS
  <2>1. i \in Nat /\ j \in Nat /\ i + d < j + d /\ i # Len(inbox'[u])
    BY <1>2, <1>1
  <2>2. i + d \in DOMAIN inbox[u] /\ inbox'[u][i] = inbox[u][i + d]
    BY <1>5, <2>1
  <2>3. CASE j + d \in DOMAIN inbox[u] /\ inbox'[u][j] = inbox[u][j + d]
    BY <1>3, <2>1, <2>2, <2>3
  <2>4. CASE inbox'[u][j].n = sent[u] + 1
    <3>1. inbox[u][i + d].n <= sent[u] /\ inbox[u][i + d].n \in Nat
      BY <1>1, <1>3, <2>2
    <3>2. QED  BY <1>1, <2>2, <2>4, <3>1
  <2>5. QED  BY <1>5, <2>3, <2>4
<1>7. \A i \in DOMAIN inbox'[u] : msg[u].n < inbox'[u][i].n /\ inbox'[u][i].n <= sent'[u]
  <2> SUFFICES ASSUME NEW i \in DOMAIN inbox'[u]
               PROVE  msg[u].n < inbox'[u][i].n /\ inbox'[u][i].n <= sent'[u]
    OBVIOUS
  <2>1. CASE i + d \in DOMAIN inbox[u] /\ inbox'[u][i] = inbox[u][i + d]
    <3>1. msg[u].n < inbox[u][i + d].n /\ inbox[u][i + d].n <= sent[u]
      BY <1>3, <2>1
    <3>2. inbox[u][i + d].n \in Nat
      BY <1>1, <2>1
    <3>3. QED  BY <1>1, <1>4, <2>1, <3>1, <3>2
  <2>2. CASE inbox'[u][i].n = sent'[u] /\ sent'[u] = sent[u] + 1
    BY <1>1, <1>3, <2>2
  <2>3. QED  BY <1>5, <2>1, <2>2
<1>8. CASE msg'[u].n = 0 \/ msg'[u] = msg[u]
  BY <1>1, <1>3, <1>4, <1>6, <1>7, <1>8
<1>9. CASE Hears(u)
  <2>1. 1 \in DOMAIN inbox[u] /\ msg'[u] = inbox[u][1] /\ sent'[u] = sent[u]
    BY <1>9 DEF Hears
  <2>2. \A i \in DOMAIN inbox'[u] : i + 1 \in DOMAIN inbox[u] /\ 1 < i + 1
                                    /\ inbox'[u][i] = inbox[u][i + 1]
    BY <1>2, <1>9 DEF Hears
  <2>3. \A i \in DOMAIN inbox'[u] : msg'[u].n < inbox'[u][i].n
    BY <1>3, <2>1, <2>2
  <2>4. QED  BY <1>3, <1>6, <1>7, <2>1, <2>3
<1>10. QED  BY <1>8, <1>9 DEF Listens, Minds

(* An old message stays old.                                               *)
LEMMA OldKept ==
    ASSUME TypeOK, TypeOK', Numbered, Listens, NEW m \in Message, Old(m)
    PROVE  Old(m)'
<1> DEFINE u == m.from
<1>1. u \in Users /\ m.n \in Nat
  BY DEF Message
<1> HIDE DEF u
<1>2. m.n <= sent[u] /\ \A j \in DOMAIN inbox[u] : m.n < inbox[u][j].n
  BY DEF Old, u
<1>3. /\ sent[u] \in Nat /\ sent'[u] \in Nat /\ sent[u] <= sent'[u]
      /\ \A i \in DOMAIN inbox'[u] : inbox'[u][i].n \in Nat
  <2>1. sent[u] <= sent'[u]
    BY <1>1 DEF Listens, Speaks
  <2>2. sent'[u] \in Nat /\ inbox'[u] \in Seq(Packet)
    BY <1>1 DEF TypeOK, ServerTypeOK
  <2>3. \A p \in Packet : p.n \in Nat
    BY DEF Packet
  <2>4. QED  BY <1>1, <2>1, <2>2, <2>3, BoxTypes, ElementsOf
<1>4. \A j \in DOMAIN inbox'[u] : m.n < inbox'[u][j].n
  BY <1>1, <1>2, <1>3 DEF Listens, Speaks
<1>5. pc'[u] = "dispatch" /\ msg'[u].kind \notin {"garbled", "left"} => m.n < msg'[u].n
  <2>1. CASE msg'[u] = msg[u] /\ (pc'[u] = "dispatch" => pc[u] = "dispatch")
    BY <2>1 DEF Old, u
  <2>2. CASE Hears(u)
    BY <1>2, <2>2 DEF Hears
  <2>3. QED  BY <1>1, <2>1, <2>2 DEF Listens, Minds
<1>6. QED  BY <1>1, <1>2, <1>3, <1>4, <1>5 DEF Old, u

(* Outside a broadcast the order of what people got stays, and the message *)
(* on the air stays the newest.                                            *)
LEMMA ElsewhereOrder ==
    ASSUME TypeOK, TypeOK', OrderInv, Elsewhere
    PROVE  Aired' /\ OnAir' /\ LineOrder'
<1>1. \A v \in Users : /\ outbox[v] \in Seq(Message) /\ outbox'[v] \in Seq(Message)
                       /\ \A i \in DOMAIN outbox[v] : i \in Nat /\ outbox[v][i] \in Message
                       /\ \A i \in DOMAIN outbox'[v] : i \in Nat
  <2>1. \A v \in Users : outbox'[v] \in Seq(Message)
    BY DEF TypeOK, ServerTypeOK
  <2>2. QED  BY <2>1, BoxTypes, ElementsOf
<1>2. ASSUME NEW v \in Users
      PROVE  \E d \in Nat : \A i \in Aloud(v)' :
                 i + d \in Aloud(v) /\ outbox'[v][i] = outbox[v][i + d]
  <2>1. PICK d \in Nat : \A i \in DOMAIN outbox'[v] :
            \/ i + d \in DOMAIN outbox[v] /\ outbox'[v][i] = outbox[v][i + d]
            \/ outbox'[v][i].kind \notin {"chat", "end", "left"}
    BY DEF Elsewhere, Unaired
  <2>2. \A i \in Aloud(v)' : i + d \in Aloud(v) /\ outbox'[v][i] = outbox[v][i + d]
    BY <2>1 DEF Aloud
  <2>3. QED  BY <2>2
<1>3. Aired'
  <2> SUFFICES ASSUME NEW v \in Users, NEW i \in Aloud(v)'  PROVE Old(outbox[v][i])'
    BY DEF Aired
  <2>1. PICK j \in Aloud(v) : outbox'[v][i] = outbox[v][j]
    BY <1>2
  <2>2. outbox[v][j] \in Message /\ Old(outbox[v][j])
    BY <1>1 DEF OrderInv, Aired, Aloud
  <2>3. \A m \in Message : Old(m) => Old(m)'
    BY OldKept DEF OrderInv, Elsewhere
  <2>4. QED  BY <2>1, <2>2, <2>3 DEF Old
<1>4. LineOrder'
  <2> SUFFICES ASSUME NEW u \in Users, NEW v \in Users,
                      NEW i \in Aloud(u)', NEW j \in Aloud(u)',
                      NEW k \in Aloud(v)', NEW l \in Aloud(v)',
                      i < j, outbox'[u][i] = outbox'[v][k], outbox'[u][j] = outbox'[v][l]
               PROVE  k < l
    BY DEF LineOrder
  <2>1. PICK d \in Nat : \A p \in Aloud(u)' :
             p + d \in Aloud(u) /\ outbox'[u][p] = outbox[u][p + d]
    BY <1>2
  <2>2. PICK e \in Nat : \A p \in Aloud(v)' :
             p + e \in Aloud(v) /\ outbox'[v][p] = outbox[v][p + e]
    BY <1>2
  <2>3. i \in Nat /\ j \in Nat /\ k \in Nat /\ l \in Nat
    BY <1>1 DEF Aloud
  <2>4. i + d < j + d
    BY <2>3
  <2>5. k + e < l + e
    BY <2>1, <2>2, <2>4 DEF OrderInv, LineOrder
  <2>6. QED  BY <2>3, <2>5
<1>5. OnAir'
  <2> SUFFICES ASSUME NEW t \in Users, OnTheAir(t)', Notice(t)'.kind \in {"chat", "end"}
               PROVE  Newest(t)'
    BY DEF OnAir
  <2>1. Stays(t) /\ OnTheAir(t)
    BY DEF Elsewhere, OffAir, OnTheAir, Stays
  <2>2. Notice(t)' = Notice(t) /\ UNCHANGED users /\ idx'[t] = idx[t]
    <3>1. usersMutex # Nobody
      BY <2>1, NamesApart DEF OrderInv, InLoop
    <3>2. QED  BY <2>1, <3>1 DEF Elsewhere, OffAir, Stays, Unlocked, Notice
  <2>3. Newest(t)
    BY <2>1, <2>2 DEF OrderInv, OnAir
  <2> SUFFICES ASSUME NEW v \in Users, NEW i \in Aloud(v)', outbox'[v][i] = Notice(t)
               PROVE  /\ \A j \in Aloud(v)' : j <= i
                      /\ \E p \in 1..(idx[t] - 1) : users[p] = v
    BY <2>2 DEF Newest
  <2>4. PICK d \in Nat : \A p \in Aloud(v)' :
             p + d \in Aloud(v) /\ outbox'[v][p] = outbox[v][p + d]
    BY <1>2
  <2>5. i \in Nat /\ \A j \in Aloud(v)' : j \in Nat
    BY <1>1 DEF Aloud
  <2>6. (\A j \in Aloud(v) : j <= i + d) /\ \E p \in 1..(idx[t] - 1) : users[p] = v
    BY <2>3, <2>4 DEF Newest
  <2>7. \A j \in Aloud(v)' : j <= i
    BY <2>4, <2>5, <2>6
  <2>8. QED  BY <2>6, <2>7
<1>6. QED  BY <1>3, <1>4, <1>5

(* A step of a broadcast that delivers nothing keeps the order.            *)
LEMMA SilentOrder ==
    ASSUME IInv, TypeOK', OrderInv, NEW t \in Users, Alone(t), UNCHANGED outbox,
           Begins(t) \/ Scans(t) \/ Ends(t) \/ \E r \in Users : Airs(t, r)
    PROVE  Aired' /\ OnAir' /\ LineOrder'
<1> USE NamesApart DEF IInv
<1>1. Aired'
  <2> SUFFICES ASSUME NEW v \in Users, NEW i \in Aloud(v)  PROVE Old(outbox[v][i])'
    BY DEF Aired, Aloud
  <2>1. outbox[v][i] \in Message /\ Old(outbox[v][i])
    BY BoxTypes DEF OrderInv, Aired, Aloud
  <2>2. \A m \in Message : Old(m) => Old(m)'
    BY OldKept DEF OrderInv, Alone
  <2>3. QED  BY <2>1, <2>2 DEF Old
<1>2. LineOrder'
  BY DEF OrderInv, LineOrder, Aloud
<1>3. OnAir'
  <2> SUFFICES ASSUME NEW v \in Users, OnTheAir(v)', Notice(v)'.kind \in {"chat", "end"}
               PROVE  Newest(v)'
    BY DEF OnAir
  <2>1. v = t
    <3> SUFFICES ASSUME v # t  PROVE FALSE
      OBVIOUS
    <3>1. OnTheAir(v)
      BY DEF Alone, Stays, OnTheAir
    <3>2. usersMutex = v
      BY <3>1 DEF OrderInv, InLoop
    <3>3. Unlocked \/ OnTheAir(t)
      BY DEF Begins, Scans, Ends, Airs, OnTheAir
    <3>4. QED  BY <3>2, <3>3 DEF OrderInv, InLoop, Unlocked
  <2>2. msg'[t] = msg[t] /\ Notice(t)' = Notice(t) /\ Notice(t).kind \in {"chat", "end"} /\ UNCHANGED users
    BY <2>1 DEF Begins, Scans, Ends, Airs, Alone, Notice
  <2>3. CASE Begins(t)
    <3>1. ASSUME NEW w \in Users, NEW i \in Aloud(w), outbox[w][i] = Notice(t)  PROVE FALSE
      <4>1. Old(Notice(t))
        BY <3>1 DEF OrderInv, Aired
      <4>2. msg[t].kind \notin {"garbled", "left"} /\ Notice(t).from = t /\ Notice(t).n = msg[t].n
        BY <2>2 DEF Notice
      <4>3. msg[t].n \in Nat /\ pc[t] = "dispatch"
        BY <2>3, BoxTypes DEF Begins
      <4>4. QED  BY <4>1, <4>2, <4>3 DEF Old
    <3>2. QED  BY <2>1, <2>2, <3>1 DEF Newest, Aloud
  <2>4. CASE Scans(t) \/ \E r \in Users : Airs(t, r)
    <3>1. OnTheAir(t) /\ idx[t] \in Nat /\ idx'[t] \in {idx[t], idx[t] + 1}
      BY <2>4 DEF Scans, Airs, OnTheAir, TypeOK, StackTypeOK
    <3>2. Newest(t)
      BY <2>2, <3>1 DEF OrderInv, OnAir
    <3>3. 1..(idx[t] - 1) \subseteq 1..(idx'[t] - 1)
      BY <3>1
    <3>4. QED  BY <2>1, <2>2, <3>2, <3>3 DEF Newest, Aloud
  <2>5. CASE Ends(t)
    BY <2>1, <2>5 DEF Ends
  <2>6. QED  BY <2>3, <2>4, <2>5
<1>4. QED  BY <1>1, <1>2, <1>3

(* A delivery of a broadcast keeps the order: the message is the newest    *)
(* wherever it is, and this User did not have it.                          *)
LEMMA DeliveryOrder ==
    ASSUME IInv, TypeOK', OrderInv, NEW t \in Users, NEW r \in Users, Alone(t), Airs(t, r),
           outbox' = [outbox EXCEPT ![r] = Append(@, Notice(t))]
    PROVE  Aired' /\ OnAir' /\ LineOrder'
<1> USE NamesApart DEF IInv
<1> DEFINE L == Len(outbox[r]) + 1
           m == Notice(t)
<1>1. /\ outbox'[r] = Append(outbox[r], m) /\ outbox[r] \in Seq(Message)
      /\ \A v \in Users \ {r} : outbox'[v] = outbox[v]
  BY BoxTypes DEF TypeOK, ServerTypeOK
<1>2. /\ DOMAIN outbox[r] = 1..Len(outbox[r]) /\ Len(outbox[r]) \in Nat
      /\ DOMAIN outbox'[r] = 1..L /\ outbox'[r][L] = m /\ L \in Nat
      /\ \A i \in DOMAIN outbox[r] : outbox'[r][i] = outbox[r][i] /\ i < L
  BY <1>1
<1>3. \A v \in Users : v # r => Aloud(v)' = Aloud(v)
  BY <1>1 DEF Aloud
<1> HIDE DEF L
<1>4. /\ \A i \in Aloud(r)' : \/ i \in Aloud(r) /\ outbox'[r][i] = outbox[r][i] /\ i < L
                              \/ i = L /\ outbox'[r][i] = m /\ m.kind \in {"chat", "end"}
      /\ L \notin Aloud(r)
      /\ \A i \in Aloud(r) : i \in Nat
  <2>1. \A i \in DOMAIN outbox'[r] : i \in DOMAIN outbox[r] \/ i = L
    BY <1>2 DEF L
  <2>2. QED  BY <1>2, <2>1 DEF Aloud
<1>5. msg'[t] = msg[t] /\ UNCHANGED <<users, sent, inbox>> /\ pc'[t] = "scan" /\ pc[t] = "send"
      /\ idx'[t] = idx[t] + 1 /\ idx[t] \in Nat
  BY DEF Airs, Alone, TypeOK, StackTypeOK
<1>6. \A v \in Users : OnTheAir(v) \/ OnTheAir(v)' => v = t
  BY <1>5 DEF Alone, Stays, OnTheAir, OrderInv, InLoop
<1>7. m.kind \in {"chat", "end"} => Newest(t)
  BY <1>5 DEF OrderInv, OnAir, OnTheAir
<1>8. ASSUME m.kind \in {"chat", "end"}
      PROVE  \A i \in Aloud(r) : outbox[r][i] # m
  <2> SUFFICES ASSUME NEW i \in Aloud(r), outbox[r][i] = m  PROVE FALSE
    OBVIOUS
  <2>1. PICK p \in 1..(idx[t] - 1) : users[p] = r
    BY <1>7, <1>8 DEF Newest
  <2>2. idx[t] \in DOMAIN users /\ p \in DOMAIN users /\ p # idx[t]
    <3>1. users \in Seq(Users) /\ DOMAIN users = 1..Len(users) /\ Len(users) \in Nat
      BY DEF TypeOK, ServerTypeOK
    <3>2. idx[t] \in 1..(Len(users) + 1) /\ idx[t] <= Len(users)
      BY <1>5 DEF OrderInv, InLoop, OnTheAir
    <3>3. QED  BY <2>1, <3>1, <3>2
  <2>3. QED  BY <2>1, <2>2 DEF Airs, RegistryConsistent, IsInjective
<1>9. Aired'
  <2> SUFFICES ASSUME NEW v \in Users, NEW i \in Aloud(v)'  PROVE Old(outbox[v][i])'
    BY DEF Aired
  <2>1. CASE i \in Aloud(v) /\ outbox'[v][i] = outbox[v][i]
    <3>1. outbox[v][i] \in Message /\ Old(outbox[v][i])
      BY <2>1, BoxTypes DEF OrderInv, Aired, Aloud
    <3>2. \A g \in Message : Old(g) => Old(g)'
      BY OldKept DEF OrderInv, Alone
    <3>3. QED  BY <2>1, <3>1, <3>2 DEF Old
  <2>2. CASE outbox'[v][i] = m
    <3>1. m.from = t /\ m.n = msg[t].n
      BY DEF Notice
    <3>2. /\ m.n <= sent[t]
          /\ \A j \in DOMAIN inbox[t] : m.n < inbox[t][j].n
      BY <3>1 DEF OrderInv, Numbered
    <3>3. QED  BY <1>5, <2>2, <3>1, <3>2 DEF Old
  <2>3. QED  BY <1>1, <1>3, <1>4, <2>1, <2>2
<1>10. OnAir'
  <2> SUFFICES ASSUME m.kind \in {"chat", "end"}  PROVE Newest(t)'
    BY <1>5, <1>6 DEF OnAir, Notice
  <2>1. Notice(t)' = m
    BY <1>5 DEF Notice
  <2>2. 1..(idx[t] - 1) \subseteq 1..(idx'[t] - 1)
    BY <1>5
  <2> SUFFICES ASSUME NEW v \in Users, NEW i \in Aloud(v)', outbox'[v][i] = m
               PROVE  /\ \A j \in Aloud(v)' : j <= i
                      /\ \E p \in 1..(idx'[t] - 1) : users[p] = v
    BY <1>5, <2>1 DEF Newest
  <2>3. CASE v = r
    <3>1. i = L
      BY <1>4, <1>8, <2>3
    <3>2. \A j \in Aloud(r)' : j <= L
      BY <1>2, <1>4
    <3>3. idx[t] \in 1..(idx'[t] - 1) /\ users[idx[t]] = r
      BY <1>5 DEF Airs, OrderInv, InLoop, OnTheAir
    <3>4. QED  BY <2>3, <3>1, <3>2, <3>3
  <2>4. CASE v # r
    BY <1>1, <1>3, <1>7, <2>2, <2>4 DEF Newest
  <2>5. QED  BY <2>3, <2>4
<1>11. LineOrder'
  <2> SUFFICES ASSUME NEW u \in Users, NEW v \in Users,
                      NEW i \in Aloud(u)', NEW j \in Aloud(u)',
                      NEW k \in Aloud(v)', NEW l \in Aloud(v)',
                      i < j, outbox'[u][i] = outbox'[v][k], outbox'[u][j] = outbox'[v][l]
               PROVE  k < l
    BY DEF LineOrder
  <2>1. \A w \in Users : \A q \in Aloud(w)' :
            \/ q \in Aloud(w) /\ outbox'[w][q] = outbox[w][q] /\ q \in Nat
            \/ w = r /\ q = L /\ outbox'[w][q] = m /\ m.kind \in {"chat", "end"}
    <3>1. \A w \in Users : \A q \in Aloud(w) : q \in Nat
      BY BoxTypes DEF Aloud
    <3>2. QED  BY <1>1, <1>3, <1>4, <3>1
  <2>2. CASE j \in Aloud(u) /\ l \in Aloud(v) /\ outbox'[u][j] = outbox[u][j]
             /\ outbox'[v][l] = outbox[v][l]
    <3>1. i \in Aloud(u) /\ outbox'[u][i] = outbox[u][i]
      <4>1. CASE u = r /\ i = L
        <5>1. j < L /\ j \in Nat
          BY <1>4, <2>2, <4>1
        <5>2. QED  BY <1>2, <4>1, <5>1
      <4>2. QED  BY <2>1, <4>1
    <3>2. CASE k \in Aloud(v) /\ outbox'[v][k] = outbox[v][k]
      BY <2>2, <3>1, <3>2 DEF OrderInv, LineOrder
    <3>3. CASE outbox'[v][k] = m /\ m.kind \in {"chat", "end"}
      <4>1. \A q \in Aloud(u) : q <= i
        BY <1>7, <3>1, <3>3 DEF Newest
      <4>2. i \in Nat /\ j \in Nat
        BY <2>2, <3>1, BoxTypes DEF Aloud
      <4>3. QED  BY <2>2, <4>1, <4>2
    <3>4. \/ k \in Aloud(v) /\ outbox'[v][k] = outbox[v][k]
          \/ outbox'[v][k] = m /\ m.kind \in {"chat", "end"}
      BY <2>1
    <3> HIDE DEF m
    <3>5. QED  BY <3>2, <3>3, <3>4
  <2>3. CASE outbox'[u][j] = m /\ m.kind \in {"chat", "end"}
    <3>1. i \in Aloud(u) /\ outbox'[u][i] = outbox[u][i] /\ outbox[u][i] # m
      <4>1. CASE i = L /\ u = r
        <5>1. j \in Nat /\ j <= L
          BY <1>2, <1>4, <4>1, <2>1
        <5>2. QED  BY <1>2, <4>1, <5>1
      <4>2. CASE i \in Aloud(u) /\ outbox'[u][i] = outbox[u][i] /\ i \in Nat
        <5>1. ASSUME outbox[u][i] = m  PROVE FALSE
          <6>1. \A q \in Aloud(u) : q <= i
            BY <1>7, <2>3, <4>2, <5>1 DEF Newest
          <6>2. j \notin Aloud(u) \/ ~(j \in Nat)
            BY <4>2, <6>1
          <6>3. u = r
            BY <2>1, <6>2
          <6>4. QED  BY <1>8, <2>3, <4>2, <5>1, <6>3
        <5>2. QED  BY <4>2, <5>1
      <4>3. QED  BY <2>1, <4>1, <4>2
    <3>2. k \in Aloud(v) /\ outbox'[v][k] = outbox[v][k] /\ k \in Nat
      BY <2>1, <3>1
    <3>3. CASE l = L /\ v = r
      BY <1>4, <3>2, <3>3
    <3>4. CASE l \in Aloud(v) /\ outbox'[v][l] = outbox[v][l] /\ l \in Nat
      <4>1. \A q \in Aloud(v) : q <= l
        BY <1>7, <2>3, <3>4 DEF Newest
      <4>2. k # l
        BY <3>1, <3>2, <2>3
      <4>3. QED  BY <3>2, <3>4, <4>1, <4>2
    <3>5. QED  BY <2>1, <3>3, <3>4
  <2>4. QED  BY <2>1, <2>2, <2>3
<1>12. QED  BY <1>9, <1>10, <1>11

(* Every step keeps the order.                                             *)
LEMMA OrderKept ==
    ASSUME IInv, IInv', OrderInv, [Next]_vars
    PROVE  OrderInv'
<1>1. InLoop'
  BY LoopHeld DEF OrderInv
<1>2. TypeOK /\ TypeOK'
  BY DEF IInv
<1>3. CASE Elsewhere
  BY <1>1, <1>2, <1>3, NumberedKept, ElsewhereOrder DEF Elsewhere, OrderInv
<1>4. ASSUME NEW t \in Users, BroadcastStep(t)  PROVE OrderInv'
  <2>1. Alone(t) /\ (Begins(t) \/ Scans(t) \/ Ends(t) \/ \E r \in Users : Airs(t, r))
    BY <1>4, BroadcastIs DEF OrderInv
  <2>2. Numbered'
    BY <1>2, <2>1, NumberedKept DEF Alone, OrderInv
  <2>3. Aired' /\ OnAir' /\ LineOrder'
    <3>1. CASE UNCHANGED outbox
      BY <1>2, <2>1, <3>1, SilentOrder
    <3>2. ASSUME NEW r \in Users, Airs(t, r),
                 outbox' = [outbox EXCEPT ![r] = Append(@, Notice(t))]
          PROVE  Aired' /\ OnAir' /\ LineOrder'
      BY <1>2, <2>1, <3>2, DeliveryOrder
    <3>3. QED  BY <2>1, <3>1, <3>2 DEF Begins, Scans, Ends, Airs
  <2>4. QED  BY <1>1, <2>2, <2>3 DEF OrderInv
<1>5. QED  BY <1>3, <1>4, AirOrElsewhere

(* In the beginning nobody has said anything.                              *)
LEMMA OrderInit == Init => OrderInv
<1> SUFFICES ASSUME Init  PROVE OrderInv
  OBVIOUS
<1>1. \A u \in Users : /\ pc[u] = "idle" /\ msg[u] = NoPacket /\ sent[u] = 0
                       /\ inbox[u] = <<>> /\ outbox[u] = <<>>
  BY NamesApart DEF Init, ServerInit
<1>2. QED
  BY <1>1 DEF OrderInv, InLoop, OnTheAir, Numbered, Aired, OnAir, LineOrder, Aloud, NoPacket

(* The lock is held over the whole loop, packets are numbered, and the     *)
(* message on the air is the newest one.                                   *)
LEMMA Ordered == Spec => [](IInv /\ OrderInv)
<1>1. IInv /\ OrderInv /\ [Next]_vars /\ IInv' => OrderInv'
  BY OrderKept
<1>2. QED  BY <1>1, OrderInit, Invariance, PTL DEF Spec

(* Any two people who both see two chat messages see them in the same      *)
(* order, and nobody sees one twice, although the deliveries of different  *)
(* broadcasts are separate steps (broadcastMessageExceptSender).           *)
THEOREM OneOrder == Spec => []SameOrder
<1>1. OrderInv => SameOrder
  BY DEF OrderInv, LineOrder, SameOrder, Aloud, Chats
<1>2. QED  BY <1>1, Ordered, PTL
-----------------------------------------------------------------------------
(* Who is said to have left has left. *)

(* c's thread is about to say goodbye, or somebody has been told.          *)
Said(c) ==
    \/ msg[c].kind = "left"
    \/ \E u \in Users : \E i \in DOMAIN outbox[u] :
          outbox[u][i].kind = "left" /\ outbox[u][i].from = c

(* Nobody can say "left" himself, and whose goodbye is said has had his    *)
(* thread and is out of the registry.                                      *)
GoodbyeInv ==
    /\ \A u \in Users : \A i \in DOMAIN inbox[u] : inbox[u][i].kind # "left"
    /\ \A c \in Clients : Said(c) => c \notin Registered /\ pc[c] # "idle"

(* The acceptor registers only a User whose thread has not started.        *)
LEMMA AcceptorAdds ==
    ASSUME IInv, AcceptorStep, NEW u \in Users, pc[u] # "idle"
    PROVE  pc'[u] = pc[u] /\ (u \notin Registered <=> u \notin Registered')
<1> USE NamesApart DEF IInv
<1>1. pc'[u] = pc[u]
  BY DEF AcceptorStep, AcceptorTest, SelectTimesOut, Accept, ExchangeKeys, HandshakeFails,
     AddUser, ReceiveName, LoginLost, CheckName, AnswerName, SetName, PushHandler, Moves, Goto,
     TypeOK, PcTypeOK
<1>2. CASE AddUser
  <2> DEFINE c == target[Acceptor]
  <2>1. c \in Users /\ c \notin Registered /\ users' = Append(users, c) /\ pc[c] = "idle"
    BY <1>2 DEF AddUser, addUser, Lifecycle, Newcomer, Fresh, AcceptorPC
  <2> HIDE DEF c
  <2>2. Registered' = Registered \cup {c}
    BY <2>1, AppendIs DEF Registered, TypeOK, ServerTypeOK, RegistryConsistent
  <2>3. QED  BY <1>1, <2>1, <2>2
<1>3. CASE ~AddUser
  <2>1. UNCHANGED users
    BY <1>3 DEF AcceptorStep, AcceptorTest, SelectTimesOut, Accept, ExchangeKeys,
         HandshakeFails, ReceiveName, LoginLost, CheckName, AnswerName, SetName, PushHandler,
         Moves, serverVars, registryVars
  <2>2. QED  BY <1>1, <2>1 DEF Registered
<1>4. QED  BY <1>2, <1>3

(* A thread that has started has started for good; who is out of the       *)
(* registry then stays out, and who is in it stays in unless he says /quit.*)
LEMMA OutForGood ==
    ASSUME IInv, [Next]_vars, NEW u \in Users, pc[u] # "idle"
    PROVE  /\ pc'[u] # "idle"
           /\ u \notin Registered => u \notin Registered'
           /\ u \in Registered /\ ~Handling(u, "quit") => u \in Registered'
<1> USE NamesApart DEF IInv
<1> DEFINE Holds == /\ pc'[u] # "idle"
                    /\ u \notin Registered => u \notin Registered'
                    /\ u \in Registered /\ ~Handling(u, "quit") => u \in Registered'
<1>1. CASE UNCHANGED vars
  BY <1>1 DEF vars, serverVars, registryVars, Registered
<1>2. ASSUME NEW t \in Users, HandlerStep(t)
      PROVE  Holds
  <2>1. pc'[u] # "idle"
    BY <1>2, HandlerKeeps DEF Keeps
  <2>2. CASE Quit(t)
    <3>1. Registered' = Registered \ {t}
      BY <1>2, <2>2, QuitInv, HandlerKeeps, HandlerType
    <3>2. QED  BY <2>1, <2>2, <3>1 DEF Quit
  <2>3. CASE UNCHANGED users
    BY <2>1, <2>3 DEF Registered
  <2>4. QED  BY <1>2, <2>2, <2>3, HandlerKeeps
<1>3. ASSUME Bystands
      PROVE  Holds
  BY <1>3 DEF Bystands, Registered
<1>4. CASE HostStep
  BY <1>4, HostKeeps DEF Keeps, Registered
<1>5. CASE StartTask
  BY <1>5 DEF StartTask, Goto, serverVars, registryVars, Registered, TypeOK, PcTypeOK
<1>6. CASE AcceptorStep
  BY <1>6, AcceptorAdds
<1>7. QED
  BY <1>1, <1>2, <1>3, <1>4, <1>5, <1>6, NextCases, ClientBystands, MainBystands

(* Every step keeps the goodbyes true.                                     *)
LEMMA GoodbyeKept ==
    ASSUME IInv, InLoop, GoodbyeInv, [Next]_vars
    PROVE  GoodbyeInv'
<1> USE NamesApart DEF IInv
<1>1. Listens
  BY AirOrElsewhere, BroadcastIs DEF Elsewhere, Alone
<1>2. ASSUME NEW u \in Users, NEW i \in DOMAIN inbox'[u]  PROVE inbox'[u][i].kind # "left"
  BY <1>1 DEF Listens, Speaks, GoodbyeInv
<1>3. ASSUME NEW c \in Clients, msg'[c].kind = "left"
      PROVE  Said(c) \/ (c \notin Registered /\ pc[c] # "idle")
  BY <1>1, <1>3 DEF Listens, Minds, Hears, GoodbyeInv, Said
<1>4. ASSUME NEW u \in Users, NEW i \in DOMAIN outbox'[u], outbox'[u][i].kind = "left",
             outbox'[u][i].from \in Clients
      PROVE  Said(outbox'[u][i].from)
  <2>1. CASE Elsewhere
    BY <1>4, <2>1 DEF Elsewhere, Unaired, Said
  <2>2. ASSUME NEW t \in Users, BroadcastStep(t)  PROVE Said(outbox'[u][i].from)
    <3>1. CASE UNCHANGED outbox
      BY <1>4, <3>1 DEF Said
    <3>2. CASE \E r \in Users : outbox' = [outbox EXCEPT ![r] = Append(@, Notice(t))]
      <4>1. PICK r \in Users : outbox' = [outbox EXCEPT ![r] = Append(@, Notice(t))]
        BY <3>2
      <4> DEFINE m == Notice(t)
      <4>2. m.from = t /\ (m.kind = "left" => msg[t].kind = "left")
        BY DEF Notice
      <4> HIDE DEF m
      <4>3. outbox[u] \in Seq(Message) /\ (outbox'[u] = outbox[u] \/ outbox'[u] = Append(outbox[u], m))
        BY <4>1 DEF TypeOK, ServerTypeOK, m
      <4>4. outbox'[u][i] = m \/ (i \in DOMAIN outbox[u] /\ outbox'[u][i] = outbox[u][i])
        BY <4>3
      <4>5. QED  BY <1>4, <4>2, <4>4 DEF Said
    <3>3. QED
      BY <2>2, <3>1, <3>2, BroadcastIs DEF Begins, Scans, Ends, Airs
  <2>3. QED  BY <2>1, <2>2, AirOrElsewhere
<1>5. ASSUME NEW c \in Clients, Said(c)'  PROVE c \notin Registered' /\ pc'[c] # "idle"
  <2>1. Said(c) \/ (c \notin Registered /\ pc[c] # "idle")
    BY <1>3, <1>4, <1>5 DEF Said
  <2>2. c \notin Registered /\ pc[c] # "idle"
    BY <2>1 DEF GoodbyeInv
  <2>3. QED  BY <2>2, OutForGood
<1>6. QED  BY <1>2, <1>5 DEF GoodbyeInv

(* When somebody is told, or is about to be told, that a client has left,  *)
(* the client is out of the registry (the catch block of handleClient asks *)
(* for the name and says goodbye in separate critical sections).           *)
THEOREM GoodbyesAreTrue == Spec => []GoodbyeIsTrue
<1>1. Init => GoodbyeInv
  BY NamesApart DEF Init, ServerInit, GoodbyeInv, Said, NoPacket
<1>2. IInv /\ OrderInv /\ GoodbyeInv /\ [Next]_vars => GoodbyeInv'
  BY GoodbyeKept DEF OrderInv
<1>3. IInv /\ OrderInv /\ GoodbyeInv => GoodbyeIsTrue
  BY DEF GoodbyeInv, GoodbyeIsTrue, Said
<1>4. QED  BY <1>1, <1>2, <1>3, Ordered, PTL DEF Spec
-----------------------------------------------------------------------------
(* The threads keep to the contract of the pool. *)

Closing == pc[Main] \in {"joining", "closed"}

(* A step of one running thread: it goes on, or it returns.                *)
LEMMA GoesOnOrReturns ==
    ASSUME TypeOK, NEW t \in Threads, pc[t] \notin Outside, pc'[t] # "idle",
           \A v \in Threads \ {t} : pc'[v] = pc[v],
           UNCHANGED taskQueue, Closing' = Closing
    PROVE  [Pool!Next]_(Pool!vars)
<1> USE DEF Busy, Outside
<1>1. CASE pc'[t] = "done"
  <2>1. t \in Busy /\ Busy' = Busy \ {t}
    BY <1>1
  <2>2. { v \in Threads : pc'[v] = "done" } = { v \in Threads : pc[v] = "done" } \cup {t}
    BY <1>1
  <2>3. Pool!Return(t)
    BY <2>1, <2>2 DEF Pool!Return, Closing
  <2>4. QED  BY <2>3 DEF Pool!Next
<1>2. CASE pc'[t] # "done"
  <2>1. Busy' = Busy
    BY <1>2
  <2>2. { v \in Threads : pc'[v] = "done" } = { v \in Threads : pc[v] = "done" }
    BY <1>2
  <2>3. QED  BY <2>1, <2>2 DEF Pool!vars, Closing
<1>3. QED  BY <1>1, <1>2

(* No thread of the pool tells the main thread that it may go.             *)
LEMMA HandlerLeavesMain ==
    ASSUME TypeOK, NEW t \in Users, HandlerStep(t)
    PROVE  pc'[Main] = pc[Main]
<1> USE NamesApart
<1>0. t # Main /\ Main \in DOMAIN pc
  BY DEF TypeOK, PcTypeOK
<1>1. CASE LoopStep(t)
  BY <1>0, <1>1 DEF LoopStep, TestQuit, Receive, ReceiveThrows, Decide, DecideThrows,
     wait_completeTransfer, Catch, Moves, BackToLoop, Goto
<1>2. CASE CommandStep(t)
  BY <1>0, <1>2 DEF CommandStep, Quit, ListUsers, ListCommands, WhisperSocket, WhisperUser,
     Utter, Moves, BackToLoop, Goto
<1>3. CASE BroadcastStep(t)
  BY <1>0, <1>3 DEF BroadcastStep, BeginBroadcast, Scan, SendOne, EndBroadcast, BackToLoop, Goto
<1>4. CASE TransferStep(t)
  BY <1>0, <1>4 DEF TransferStep, LookUp, MarkThem, MarkSelf, AwaitDecision, AwaitThrows,
     Decided, SendInfo, Resume, UnmarkThem, UnmarkSelf, Moves, BackToLoop, Goto
<1>5. QED  BY <1>1, <1>2, <1>3, <1>4 DEF HandlerStep


(* The pool starts the oldest task.                                        *)
LEMMA StartIsStart ==
    ASSUME IInv, StartTask
    PROVE  Pool!Start
<1> USE NamesApart DEF IInv
<1> DEFINE t == Head(taskQueue)
<1>1. taskQueue \in Seq(Threads) /\ taskQueue # <<>> /\ taskQueue' = Tail(taskQueue)
      /\ t = taskQueue[1] /\ 1 \in DOMAIN taskQueue /\ t \in Threads
  BY DEF StartTask, TypeOK
<1>2. pc[t] = "idle"
  BY <1>1 DEF Lifecycle, WaitingTasks
<1> HIDE DEF t
<1>3. pc'[t] \in {"test", "loop"} /\ \A v \in (Threads \cup {Main}) \ {t} : pc'[v] = pc[v]
  BY <1>1 DEF StartTask, Goto, TypeOK, PcTypeOK, t
<1>4. pc'[Main] = pc[Main] /\ ~Closing
  BY <1>1, <1>3 DEF StartTask, Closing
<1>5. Busy' = Busy \cup {t}
  BY <1>1, <1>2, <1>3 DEF Busy, Outside
<1>6. { v \in Threads : pc'[v] = "done" } = { v \in Threads : pc[v] = "done" }
  BY <1>1, <1>2, <1>3
<1>7. Pool!Cardinality(Busy) < PoolSize
  BY Zenon DEF StartTask, Pool!Cardinality, Cardinality, Pool!IsFiniteSet, IsFiniteSet
<1>8. Closing' = Closing
  BY <1>4 DEF Closing
<1>9. QED
  <2> USE DEF t
  <2>1. Busy' = Busy \cup {Head(taskQueue)}
    BY <1>5
  <2>2. QED  BY <1>1, <1>4, <1>6, <1>7, <1>8, <2>1 DEF Pool!Start, Closing

(* getConnections returns, pushes the handler of a new User, or goes on.   *)
LEMMA AcceptorInPool ==
    ASSUME IInv, AcceptorStep
    PROVE  [Pool!Next]_(Pool!vars)
<1> USE NamesApart DEF IInv
<1>1. /\ pc[Acceptor] \in AcceptorPC /\ Acceptor \in Threads
      /\ pc'[Acceptor] \in AcceptorPC \cup {"done"}
      /\ \A v \in (Threads \cup {Main}) \ {Acceptor} : pc'[v] = pc[v]
  BY ChatRoomAssumption DEF AcceptorStep, AcceptorTest, SelectTimesOut, Accept, ExchangeKeys, HandshakeFails,
     AddUser, ReceiveName, LoginLost, CheckName, AnswerName, SetName, PushHandler, Moves, Goto,
     TypeOK, PcTypeOK, AcceptorPC
<1>2. Closing' = Closing
  BY <1>1 DEF Closing
<1>3. CASE PushHandler
  <2> DEFINE c == target[Acceptor]
  <2>1. c \in Clients /\ Fresh(c)
    BY <1>3 DEF PushHandler, Lifecycle, Newcomer, AcceptorPC
  <2>2. c \in Threads /\ pc[c] = "idle" /\ c \notin ToSet(taskQueue)
    BY <2>1 DEF Fresh
  <2>3. taskQueue' = Append(taskQueue, c) /\ pc'[Acceptor] = "test"
    BY <1>1, <1>3 DEF PushHandler, Goto, TypeOK, PcTypeOK
  <2> HIDE DEF c
  <2>4. c \notin Pool!Waiting
    BY <2>2 DEF Pool!Waiting, ToSet
  <2>5. Busy' = Busy /\ c \notin Busy
    BY <1>1, <2>2, <2>3 DEF Busy, Outside, AcceptorPC
  <2>6. { v \in Threads : pc'[v] = "done" } = { v \in Threads : pc[v] = "done" }
    BY <1>1, <2>3 DEF AcceptorPC
  <2>7. Pool!Submit(c)
    BY <1>2, <2>2, <2>3, <2>4, <2>5, <2>6 DEF Pool!Submit, Closing
  <2>8. QED  BY <2>2, <2>7 DEF Pool!Next
<1>4. CASE ~PushHandler
  <2>1. UNCHANGED taskQueue
    BY <1>4 DEF AcceptorStep, AcceptorTest, SelectTimesOut, Accept, ExchangeKeys,
       HandshakeFails, AddUser, ReceiveName, LoginLost, CheckName, AnswerName, SetName, Moves,
       control
  <2>2. pc[Acceptor] \notin Outside /\ pc'[Acceptor] # "idle"
    BY <1>1 DEF Outside, AcceptorPC
  <2>3. QED  BY <1>1, <1>2, <2>1, <2>2, GoesOnOrReturns
<1>5. QED  BY <1>3, <1>4

(* A step in which no thread of the pool moves.                            *)
LEMMA NobodyRuns ==
    ASSUME UNCHANGED taskQueue, \A v \in Threads : pc'[v] = pc[v],
           Closing' = Closing \/ Closing'
    PROVE  [Pool!Next]_(Pool!vars)
<1>1. Busy' = Busy
  BY DEF Busy
<1>2. { v \in Threads : pc'[v] = "done" } = { v \in Threads : pc[v] = "done" }
  OBVIOUS
<1>3. CASE Closing'
  <2>1. Pool!Close
    BY <1>1, <1>2, <1>3 DEF Pool!Close, Closing
  <2>2. QED  BY <2>1 DEF Pool!Next
<1>4. CASE Closing' = Closing
  BY <1>1, <1>2, <1>4 DEF Pool!vars, Closing
<1>5. QED  BY <1>3, <1>4

(* Clients run no task; the main thread closes the pool before it joins.   *)
LEMMA OthersInPool ==
    ASSUME IInv, \/ \E u \in Users : Say(u) \/ (u \in Clients /\ ClientStep(u))
                 \/ MainStep \/ SpuriousWakeup \/ UNCHANGED vars
                 \/ \E u \in Users : UseAfterFree(u) \/ BadErrorText(u)
    PROVE  [Pool!Next]_(Pool!vars)
<1> USE NamesApart DEF IInv
<1>1. CASE \E u \in Users : Say(u) \/ (u \in Clients /\ ClientStep(u))
  <2>1. UNCHANGED <<pc, taskQueue>>
    BY <1>1 DEF Say, ClientStep, Connect, TryName, HearAnswer, HangUp, Break, control
  <2>2. QED  BY <2>1, NobodyRuns DEF Closing
<1>2. CASE UNCHANGED vars \/ \E u \in Users : UseAfterFree(u) \/ BadErrorText(u)
  <2>1. UNCHANGED <<pc, taskQueue>>
    BY <1>2 DEF UseAfterFree, BadErrorText, vars, control
  <2>2. QED  BY <2>1, NobodyRuns DEF Closing
<1>3. CASE MainStep \/ SpuriousWakeup
  <2>1. UNCHANGED taskQueue /\ \A v \in Threads : pc'[v] = pc[v]
    BY <1>3 DEF MainStep, MainChecks, MainBlocks, MainJoins, SpuriousWakeup, Moves, Goto,
       control, TypeOK, PcTypeOK
  <2>2. Closing' = Closing \/ Closing'
    BY <1>3 DEF MainStep, MainChecks, MainBlocks, MainJoins, SpuriousWakeup, Moves, Goto,
       Closing, TypeOK, PcTypeOK
  <2>3. QED  BY <2>1, <2>2, NobodyRuns
<1>4. QED  BY <1>1, <1>2, <1>3

(* The threads of the server use the pool as it is meant to be used: every *)
(* task is pushed at most once, tasks start in the order of the pushes, at *)
(* most THREAD_COUNT run at a time, and none starts once ~ThreadPool has   *)
(* begun (getConnections, run_chat_room).                                  *)
THEOREM ThreadsOnPool == Spec => RunsOnPool
<1>1. ASSUME IInv, [Next]_vars  PROVE [Pool!Next]_(Pool!vars)
  <2> USE NamesApart DEF IInv
  <2>1. ASSUME NEW t \in Users, HandlerStep(t)  PROVE [Pool!Next]_(Pool!vars)
    <3>1. Keeps(t) /\ pc'[Main] = pc[Main]
      BY <1>1, <2>1, HandlerKeeps, HandlerLeavesMain
    <3>2. Closing' = Closing
      BY <3>1 DEF Closing
    <3>3. QED  BY <1>1, <2>1, <3>1, <3>2, GoesOnOrReturns DEF Keeps
  <2>2. CASE HostStep
    <3>1. Keeps(Host)
      BY <1>1, <2>2, HostKeeps
    <3>2. Closing' = Closing
      BY <1>1, <2>2 DEF HostStep, RaiseShouldQuit, NotifyMain, Goto, Closing, TypeOK, PcTypeOK
    <3>3. QED  BY <1>1, <3>1, <3>2, GoesOnOrReturns DEF Keeps
  <2>3. CASE StartTask
    BY <1>1, <2>3, StartIsStart DEF Pool!Next
  <2>4. CASE AcceptorStep
    BY <1>1, <2>4, AcceptorInPool
  <2>5. QED  BY <1>1, <2>1, <2>2, <2>3, <2>4, OthersInPool, NextCases
<1>2. QED  BY <1>1, Invariance, PTL DEF Spec, RunsOnPool

-----------------------------------------------------------------------------
(* Nobody is passed over. *)

(* Whatever u has been sent is still there.                                *)
Remains(u) == ToSet(outbox[u]) \subseteq ToSet(outbox'[u])

(* A message more takes none away.                                         *)
LEMMA MoreRemains ==
    ASSUME TypeOK, NEW u \in Users, NEW m, outbox'[u] = Append(outbox[u], m)
    PROVE  Remains(u) /\ m \in ToSet(outbox'[u])
<1>1. outbox[u] \in Seq(Message) /\ Len(outbox[u]) \in Nat
  BY DEF TypeOK, ServerTypeOK
<1>2. /\ DOMAIN outbox'[u] = 1..(Len(outbox[u]) + 1) /\ DOMAIN outbox[u] = 1..Len(outbox[u])
      /\ \A i \in DOMAIN outbox[u] : outbox'[u][i] = outbox[u][i]
      /\ outbox'[u][Len(outbox[u]) + 1] = m
  BY <1>1
<1>3. \A i \in DOMAIN outbox[u] : i \in DOMAIN outbox'[u]
  BY <1>1, <1>2
<1>4. Len(outbox[u]) + 1 \in DOMAIN outbox'[u]
  BY <1>1, <1>2
<1>5. QED  BY <1>2, <1>3, <1>4 DEF Remains, ToSet

(* sendMessage takes nothing away.                                         *)
LEMMA SendRemains ==
    ASSUME TypeOK, NEW u, NEW m \in Message, sendMessage(u, m)
    PROVE  \A v \in Users : Remains(v)
<1> SUFFICES ASSUME NEW v \in Users  PROVE Remains(v)
  OBVIOUS
<1>1. outbox'[v] = outbox[v] \/ \E g : outbox'[v] = Append(outbox[v], g)
  BY SendIs
<1>2. QED  BY <1>1, MoreRemains DEF Remains

(* Neither does sendTransferInfo.                                          *)
LEMMA InfoRemains ==
    ASSUME TypeOK, NEW u, NEW w, sendTransferInfo(u, w)
    PROVE  \A v \in Users : Remains(v)
<1> SUFFICES ASSUME NEW v \in Users  PROVE Remains(v)
  OBVIOUS
<1>1. outbox'[v] = outbox[v] \/ \E g : outbox'[v] = Append(outbox[v], g)
  BY DEF sendTransferInfo
<1>2. QED  BY <1>1, MoreRemains DEF Remains

(* Nothing but the login of a client takes away what it has been sent.     *)
LEMMA SentRemains ==
    ASSUME IInv, InLoop, [Next]_vars, NEW u \in Users, u = Host \/ client[u] = "in"
    PROVE  Remains(u)
<1> USE NamesApart DEF IInv
<1>1. CASE UNCHANGED outbox
  BY <1>1 DEF Remains
<1>2. ASSUME NEW t \in Users, HandlerStep(t)  PROVE Remains(u)
  <2>1. CASE Utter(t)
    <3> DEFINE s == Utterance(t)
               m == [kind |-> s.kind, from |-> t, n |-> msg[t].n]
    <3>1. s.kind \in Notices /\ sendMessage(s.to, m)
      BY <2>1 DEF Utter, Utterance, Saying, Notices
    <3> HIDE DEF s
    <3>2. m \in Message
      BY <3>1 DEF Message, Packet, TypeOK, StackTypeOK
    <3> HIDE DEF m
    <3>3. QED  BY <3>1, <3>2, SendRemains
  <2>2. CASE BroadcastStep(t)
    <3>1. ASSUME NEW r \in Users, outbox' = [outbox EXCEPT ![r] = Append(@, Notice(t))]
          PROVE  Remains(u)
      <4> DEFINE m == Notice(t)
      <4> HIDE DEF m
      <4>1. outbox'[u] = outbox[u] \/ outbox'[u] = Append(outbox[u], m)
        BY <3>1 DEF TypeOK, ServerTypeOK, m
      <4>2. QED  BY <4>1, MoreRemains DEF Remains
    <3>2. QED  BY <1>1, <2>2, <3>1, BroadcastIs DEF Begins, Scans, Ends, Airs
  <2>3. CASE SendInfo(t)
    BY <2>3, InfoRemains DEF SendInfo
  <2>4. CASE LoopStep(t) \/ (CommandStep(t) /\ ~Utter(t)) \/ (TransferStep(t) /\ ~SendInfo(t))
    <3>1. UNCHANGED outbox
      BY <2>4 DEF LoopStep, TestQuit, Receive, ReceiveThrows, Decide, DecideThrows,
         wait_completeTransfer, Catch, CommandStep, Quit, ListUsers, ListCommands,
         WhisperSocket, WhisperUser, TransferStep, LookUp, MarkThem, MarkSelf, AwaitDecision,
         AwaitThrows, Decided, Resume, UnmarkThem, UnmarkSelf, Moves, serverVars
    <3>2. QED  BY <1>1, <3>1
  <2>5. QED  BY <1>2, <2>1, <2>2, <2>3, <2>4 DEF HandlerStep
<1>3. CASE AcceptorStep
  <2>1. CASE AnswerName
    <3> DEFINE m == [kind |-> pc[Acceptor], from |-> Host, n |-> 0]
    <3>1. m \in Message /\ sendMessage(target[Acceptor], m)
      BY <2>1 DEF AnswerName, Message, Notices
    <3> HIDE DEF m
    <3>2. QED  BY <3>1, SendRemains
  <2>2. CASE ~AnswerName
    <3>1. UNCHANGED outbox
      BY <1>3, <2>2 DEF AcceptorStep, AcceptorTest, SelectTimesOut, Accept, ExchangeKeys,
         HandshakeFails, AddUser, LoginLost, CheckName, ReceiveName, SetName, PushHandler,
         Moves, serverVars
    <3>2. QED  BY <1>1, <3>1
  <2>3. QED  BY <2>1, <2>2
<1>4. ASSUME NEW v \in Users, Say(v) \/ (v \in Clients /\ ClientStep(v))  PROVE Remains(u)
  <2>1. CASE v \in Clients /\ HearAnswer(v)
    <3>1. outbox'[u] = outbox[u]
      BY <2>1 DEF HearAnswer, TypeOK, ServerTypeOK
    <3>2. QED  BY <3>1 DEF Remains
  <2>2. CASE Say(v) \/ (v \in Clients /\ (Connect(v) \/ TryName(v) \/ HangUp(v) \/ Break(v)))
    <3>1. UNCHANGED outbox
      BY <2>2 DEF Say, Connect, TryName, HangUp, Break
    <3>2. QED  BY <1>1, <3>1
  <2>3. QED  BY <1>4, <2>1, <2>2 DEF ClientStep
<1>5. CASE \/ HostStep \/ StartTask \/ MainStep \/ SpuriousWakeup \/ UNCHANGED vars
           \/ \E v \in Users : UseAfterFree(v) \/ BadErrorText(v)
  <2>1. UNCHANGED outbox
    BY <1>5 DEF HostStep, RaiseShouldQuit, NotifyMain, StartTask, MainStep, MainChecks,
       MainBlocks, MainJoins, SpuriousWakeup, UseAfterFree, BadErrorText, Moves, vars, serverVars
  <2>2. QED  BY <1>1, <2>1
<1>6. QED  BY <1>2, <1>3, <1>4, <1>5, NextCases

(* Only a registered User's own line is broadcast: what anybody else sends *)
(* cannot be opened with the key of the thread.                            *)
Spoken == {"chat", "name", "yes", "end"}

Heard ==
    \A u \in Users :
        pc[u] \in {"dispatch", "scan", "send"} /\ msg[u].kind \in Spoken
            => u \in Registered

(* Every step keeps that.                                                  *)
LEMMA HeardKept ==
    ASSUME IInv, InLoop, Heard, [Next]_vars
    PROVE  Heard'
<1> USE NamesApart DEF IInv, Spoken
<1> SUFFICES ASSUME NEW u \in Users, pc'[u] \in {"dispatch", "scan", "send"},
                    msg'[u].kind \in Spoken
             PROVE  u \in Registered'
  BY DEF Heard
<1>1. u \in Registered /\ pc[u] # "idle" /\ ~Handling(u, "quit")
  <2>1. CASE pc[u] \in {"dispatch", "scan", "send"} /\ msg'[u] = msg[u]
    BY <2>1 DEF Heard, Handling
  <2>2. CASE Hears(u)
    BY <2>2 DEF Hears, Handling, Lifecycle, Served
  <2>3. CASE Elsewhere
    <3>1. OnTheAir(u) \/ OnTheAir(u)' => Stays(u)
      BY <2>3 DEF Elsewhere, OffAir
    <3>2. Minds(u)
      BY <2>3 DEF Elsewhere, Listens
    <3>3. QED  BY <2>1, <2>2, <3>1, <3>2 DEF OnTheAir, Stays, Minds
  <2>4. ASSUME NEW t \in Users, BroadcastStep(t)
        PROVE  u \in Registered /\ pc[u] # "idle" /\ ~Handling(u, "quit")
    <3>1. Alone(t) /\ (Begins(t) \/ Scans(t) \/ Ends(t) \/ \E r \in Users : Airs(t, r))
      BY <2>4, BroadcastIs
    <3>2. CASE u = t
      BY <2>1, <3>1, <3>2 DEF Begins, Scans, Ends, Airs, OnTheAir
    <3>3. CASE u # t
      BY <2>1, <3>1, <3>3 DEF Alone, Stays
    <3>4. QED  BY <3>2, <3>3
  <2>5. QED  BY <2>3, <2>4, AirOrElsewhere
<1>2. QED  BY <1>1, OutForGood


(* While a broadcast is in its loop, no client comes to the end of its     *)
(* login and the last upload does not end.  Both would hide what became of *)
(* the message: a client that logs in takes it for the answer to its name, *)
(* and nobody remembers a transfer that is over.                           *)
Undisturbed ==
    (\E t \in Users : OnTheAir(t)) =>
        /\ \A c \in Clients : client'[c] = "in" => client[c] = "in"
        /\ (\E v \in Users : pc[v] \in Uploading) => \E v \in Users : pc'[v] \in Uploading

(* What has become of the message of thread t for an entry u that the loop *)
(* has passed.                                                             *)
Catered(t, u) ==
    \/ u = t
    \/ Notice(t) \in ToSet(outbox[u])
    \/ \E v \in Users : pc[v] \in Uploading
    \/ u # Host /\ client[u] # "in"

(* Who has been served stays served until the broadcast is over.           *)
LEMMA StaysCatered ==
    ASSUME IInv, InLoop, [Next]_vars, Undisturbed, NEW t \in Users, NEW u \in Users,
           OnTheAir(t), Notice(t)' = Notice(t), Catered(t, u)
    PROVE  Catered(t, u)'
<1> USE NamesApart
<1>1. CASE Notice(t) \in ToSet(outbox[u]) /\ (u = Host \/ client[u] = "in")
  <2>1. Remains(u)
    BY <1>1, SentRemains
  <2>2. QED  BY <1>1, <2>1 DEF Remains, Catered
<1>2. CASE u # Host /\ client[u] # "in"
  <2>1. u \in Clients
    BY <1>2 DEF Users
  <2>2. client'[u] # "in"
    BY <1>2, <2>1 DEF Undisturbed
  <2>3. QED  BY <1>2, <2>2 DEF Catered
<1>3. CASE \E v \in Users : pc[v] \in Uploading
  <2>1. \E v \in Users : pc'[v] \in Uploading
    BY <1>3 DEF Undisturbed
  <2>2. QED  BY <2>1 DEF Catered
<1>4. CASE u = t
  BY <1>4 DEF Catered
<1>5. QED  BY <1>1, <1>2, <1>3, <1>4 DEF Catered

(* Whoever the loop passes in this step has been served.                   *)
LEMMA PassedIsServed ==
    ASSUME IInv, InLoop, NoFlagLeftBehind, Heard, NEW t \in Users, Alone(t),
           NEW u \in Registered, u = users[idx[t]],
           OnTheAir(t), msg[t].kind \in {"chat", "end"},
           \/ Scans(t) /\ idx'[t] = idx[t] + 1
           \/ \E r \in Users : Airs(t, r)
    PROVE  Catered(t, u)'
<1> USE NamesApart DEF IInv
<1>1. idx[t] \in Nat /\ users \in Seq(Users) /\ idx[t] \in 1..(Len(users) + 1)
  BY DEF InLoop, TypeOK, StackTypeOK, ServerTypeOK
<1>2. /\ UNCHANGED <<users, client>> /\ msg'[t] = msg[t] /\ idx'[t] = idx[t] + 1
      /\ \A v \in Users \ {t} : pc'[v] = pc[v]
  BY DEF Alone, Keeps, Scans, Airs, Stays
<1>3. CASE Scans(t)
  <2>1. PassesOver(t, u)
    BY <1>1, <1>2, <1>3 DEF Scans
  <2>2. CASE isTransfering[u]
    <3>1. u \in Users
      BY <1>1 DEF Registered, ToSet
    <3>2. \E v \in Users : pc[v] \in Uploading
      BY <2>2, <3>1 DEF NoFlagLeftBehind, Flagging, Uploading
    <3>3. pc[t] \notin Uploading
      BY DEF OnTheAir, Uploading, Negotiating
    <3>4. \E v \in Users : pc'[v] \in Uploading
      BY <1>2, <3>2, <3>3
    <3>5. QED  BY <3>4 DEF Catered
  <2>3. CASE Same(t, u)
    <3>1. t \in Registered
      BY DEF Heard, OnTheAir, Spoken
    <3>2. u = t
      BY <2>3, <3>1 DEF Same, NameInv, UniqueNames
    <3>3. QED  BY <3>2 DEF Catered
  <2>4. QED  BY <2>1, <2>2, <2>3 DEF PassesOver
<1>4. ASSUME NEW r \in Users, Airs(t, r)  PROVE Catered(t, u)'
  <2>1. u = r
    BY <1>4 DEF Airs
  <2>2. CASE outbox' = [outbox EXCEPT ![r] = Append(@, Notice(t))]
    <3>1. outbox'[r] = Append(outbox[r], Notice(t))
      BY <2>2 DEF TypeOK, ServerTypeOK
    <3>2. Notice(t) \in ToSet(outbox'[r])
      BY <3>1, MoreRemains
    <3>3. Notice(t)' = Notice(t)
      BY <1>2 DEF Notice
    <3>4. QED  BY <2>1, <3>2, <3>3 DEF Catered
  <2>3. CASE r # Host /\ client[r] = "closed"
    BY <1>2, <2>1, <2>3 DEF Catered
  <2>4. QED  BY <1>4, <2>2, <2>3 DEF Airs
<1>5. QED  BY <1>3, <1>4

(* Every step in which no login and no transfer ends keeps it.             *)
LEMMA MissedKept ==
    ASSUME IInv, InLoop, NoFlagLeftBehind, Heard, NobodyMissed, [Next]_vars, Undisturbed
    PROVE  NobodyMissed'
<1> USE NamesApart DEF IInv
<1> SUFFICES ASSUME NEW t \in Users, OnTheAir(t)', msg'[t].kind \in {"chat", "end"},
                    NEW i \in 1..(idx'[t] - 1)
             PROVE  Catered(t, users[i])'
  BY DEF NobodyMissed, OnTheAir, Catered
<1>0. users \in Seq(Users) /\ idx[t] \in Nat
  BY DEF TypeOK, StackTypeOK, ServerTypeOK
<1>1. ASSUME OnTheAir(t), msg'[t] = msg[t], UNCHANGED users, i \in 1..(idx[t] - 1)
      PROVE  Catered(t, users[i])'
  <2> DEFINE u == users[i]
  <2>1. u \in Users
    BY <1>0, <1>1 DEF InLoop
  <2>2. Catered(t, u)
    BY <1>1 DEF NobodyMissed, OnTheAir, Catered
  <2>3. Notice(t)' = Notice(t)
    BY <1>1 DEF Notice
  <2>4. ASSUME NEW v \in Users, Catered(t, v)  PROVE Catered(t, v)'
    BY <1>1, <2>3, <2>4, StaysCatered
  <2>5. PICK v \in Users : v = u
    BY <2>1
  <2>6. Catered(t, v)'
    BY <2>2, <2>4, <2>5
  <2>7. users'[i] = v
    BY <1>1, <2>5
  <2>8. QED  BY <2>6, <2>7 DEF Catered
<1>2. CASE Elsewhere
  <2>1. Stays(t) /\ OnTheAir(t)
    BY <1>2 DEF Elsewhere, OffAir, Stays, OnTheAir
  <2>2. UNCHANGED users
    BY <1>2, <2>1 DEF Elsewhere, OffAir, InLoop, Unlocked
  <2>3. QED  BY <1>1, <2>1, <2>2 DEF Stays
<1>3. ASSUME NEW w \in Users, BroadcastStep(w)  PROVE Catered(t, users[i])'
  <2>1. Alone(w) /\ (Begins(w) \/ Scans(w) \/ Ends(w) \/ \E r \in Users : Airs(w, r))
    BY <1>3, BroadcastIs
  <2>2. CASE w # t
    BY <1>1, <2>1, <2>2 DEF Alone, Stays, OnTheAir
  <2>3. CASE w = t
    <3>1. msg'[t] = msg[t] /\ UNCHANGED users /\ ~Ends(t)
      BY <2>1, <2>3 DEF Begins, Scans, Ends, Airs, Alone
    <3>2. CASE Begins(t)
      BY <3>2 DEF Begins
    <3>3. CASE (Scans(t) /\ idx'[t] = idx[t]) \/ i \in 1..(idx[t] - 1)
      <4>1. OnTheAir(t)
        BY <2>1, <2>3, <3>1, <3>2 DEF Begins, Scans, Airs, OnTheAir
      <4>2. QED  BY <1>1, <3>1, <3>3, <4>1
    <3>4. CASE (Scans(t) \/ \E r \in Users : Airs(t, r)) /\ idx'[t] = idx[t] + 1
               /\ i \notin 1..(idx[t] - 1)
      <4>1. OnTheAir(t) /\ i = idx[t]
        BY <1>0, <3>4 DEF Scans, Airs, OnTheAir
      <4>2. idx[t] \in DOMAIN users
        BY <1>0, <3>4, <4>1 DEF InLoop, Scans, Airs, OnTheAir
      <4>3. PICK u \in Registered : u = users[idx[t]]
        BY <1>0, <4>2 DEF Registered, ToSet
      <4>4. Catered(t, u)'
        BY <2>1, <2>3, <3>1, <3>4, <4>1, <4>3, PassedIsServed
      <4>5. users'[i] = u
        BY <3>1, <4>1, <4>3
      <4>6. QED  BY <4>4, <4>5 DEF Catered
    <3>5. QED
      BY <1>0, <2>1, <2>3, <3>1, <3>2, <3>3, <3>4 DEF Scans, Airs
  <2>4. QED  BY <2>2, <2>3
<1>4. QED  BY <1>2, <1>3, AirOrElsewhere

(* A chat message or /end passes nobody over who is in the registry: at    *)
(* every point of the loop each earlier entry has it, or is the sender's   *)
(* own, or takes part in a transfer, or its client is gone - as long as no *)
(* login and no transfer ends while a broadcast is in its loop             *)
(* (broadcastMessageExceptSender, removeUser).                             *)
THEOREM NobodyPassedOver == Spec /\ [][Undisturbed]_vars => []NobodyMissed
<1> DEFINE I == IInv /\ OrderInv /\ NoFlagLeftBehind
           J == Heard /\ NobodyMissed
<1>1. Init => J
  BY NamesApart DEF Init, Heard, NobodyMissed
<1>2. ASSUME I, J, [Next]_vars, [Undisturbed]_vars  PROVE J'
  <2>1. CASE UNCHANGED vars
    BY <1>2, <2>1 DEF vars, userVars, serverVars, registryVars, locals, Heard, NobodyMissed,
       Registered, Notice
  <2>2. CASE Undisturbed
    BY <1>2, <2>2, HeardKept, MissedKept DEF OrderInv
  <2>3. QED  BY <1>2, <2>1, <2>2
<1>3. Spec => []I
  BY Ordered, FlagsTakenBack, PTL
<1>4. QED  BY <1>1, <1>2, <1>3, PTL DEF Spec
-----------------------------------------------------------------------------
(* The broadcasts implement the abstract one. *)

(* Whoever holds usersMutex across steps is in the loop.                   *)
Held == Unlocked \/ (usersMutex \in Users /\ OnTheAir(usersMutex))

(* Every step keeps that.                                                  *)
LEMMA HeldKept ==
    ASSUME IInv, InLoop, Held, [Next]_vars
    PROVE  Held'
<1> USE NamesApart
<1>1. CASE Elsewhere
  BY <1>1 DEF Elsewhere, OffAir, Held, Unlocked, OnTheAir, Stays
<1>2. ASSUME NEW t \in Users, BroadcastStep(t)  PROVE Held'
  <2>1. Begins(t) \/ Scans(t) \/ Ends(t) \/ \E r \in Users : Airs(t, r)
    BY <1>2, BroadcastIs
  <2>2. OnTheAir(t) => usersMutex = t
    BY DEF InLoop
  <2>3. QED  BY <2>1, <2>2 DEF Begins, Scans, Ends, Airs, Held, Unlocked, OnTheAir
<1>3. QED  BY <1>1, <1>2, AirOrElsewhere

(* A thread that has returned has returned for good.                       *)
LEMMA DoneForGood ==
    ASSUME IInv, [Next]_vars, NEW u \in Users, pc[u] = "done"
    PROVE  pc'[u] = "done"
<1> USE NamesApart DEF IInv
<1>0. u \in Threads
  BY DEF Threads
<1>1. ASSUME NEW t \in Users, Keeps(t)  PROVE pc'[u] = "done"
  BY <1>0, <1>1 DEF Keeps, Outside
<1>2. CASE StartTask
  <2> DEFINE t == Head(taskQueue)
  <2>1. t \in Threads /\ pc[t] = "idle"
    BY <1>2 DEF StartTask, TypeOK, Lifecycle, WaitingTasks
  <2>2. pc' = [pc EXCEPT ![t] = IF t = Acceptor THEN "test" ELSE "loop"]
    BY <1>2 DEF StartTask, Goto
  <2> HIDE DEF t
  <2>3. QED  BY <2>1, <2>2 DEF TypeOK, PcTypeOK
<1>3. CASE AcceptorStep
  BY <1>3, AcceptorAdds
<1>4. CASE Bystands
  BY <1>0, <1>4 DEF Bystands
<1>5. CASE UNCHANGED vars
  BY <1>5 DEF vars
<1>6. QED
  BY <1>1, <1>2, <1>3, <1>4, <1>5, NextCases, HandlerKeeps, HostKeeps, ClientBystands,
     MainBystands

(* Whose goodbye has been heard by anybody is still saying it, or has      *)
(* returned.                                                               *)
Bidden ==
    \A c, u \in Users : \A i \in DOMAIN outbox[u] :
        outbox[u][i].kind = "left" /\ outbox[u][i].from = c =>
            pc[c] = "done" \/ (OnTheAir(c) /\ msg[c].kind = "left")

(* Every step keeps that.                                                  *)
LEMMA BiddenKept ==
    ASSUME IInv, InLoop, Bidden, [Next]_vars
    PROVE  Bidden'
<1> USE NamesApart DEF IInv
<1> DEFINE Over(c) == pc[c] = "done" \/ (OnTheAir(c) /\ msg[c].kind = "left")
<1>1. ASSUME NEW c \in Users, Over(c)  PROVE Over(c)'
  <2>1. CASE pc[c] = "done"
    BY <2>1, DoneForGood
  <2>2. CASE Elsewhere /\ OnTheAir(c) /\ msg[c].kind = "left"
    BY <2>2 DEF Elsewhere, OffAir, Stays, OnTheAir
  <2>3. ASSUME NEW t \in Users, BroadcastStep(t), OnTheAir(c), msg[c].kind = "left"
        PROVE  Over(c)'
    <3>1. Alone(t) /\ (Begins(t) \/ Scans(t) \/ Ends(t) \/ \E r \in Users : Airs(t, r))
      BY <2>3, BroadcastIs
    <3>2. CASE c # t
      BY <2>3, <3>1, <3>2 DEF Alone, Stays, OnTheAir
    <3>3. CASE c = t
      BY <2>3, <3>1, <3>3 DEF Begins, Scans, Ends, Airs, OnTheAir
    <3>4. QED  BY <3>2, <3>3
  <2>4. QED  BY <1>1, <2>1, <2>2, <2>3, AirOrElsewhere
<1>2. ASSUME NEW c \in Users, NEW u \in Users, NEW i \in DOMAIN outbox'[u],
             outbox'[u][i].kind = "left", outbox'[u][i].from = c
      PROVE  Over(c)'
  <2>1. ASSUME NEW j \in DOMAIN outbox[u], outbox'[u][i] = outbox[u][j]  PROVE Over(c)'
    <3>1. Over(c)
      BY <1>2, <2>1 DEF Bidden
    <3>2. QED  BY <1>1, <3>1
  <2>2. CASE Elsewhere
    <3>1. \E j \in DOMAIN outbox[u] : outbox'[u][i] = outbox[u][j]
      BY <1>2, <2>2 DEF Elsewhere, Unaired
    <3>2. QED  BY <2>1, <3>1
  <2>3. ASSUME NEW t \in Users, BroadcastStep(t)  PROVE Over(c)'
    <3>1. CASE UNCHANGED outbox
      BY <2>1, <3>1
    <3>2. ASSUME NEW r \in Users, Airs(t, r),
                 outbox' = [outbox EXCEPT ![r] = Append(@, Notice(t))]
          PROVE  Over(c)'
      <4> DEFINE m == Notice(t)
      <4>1. m.from = t /\ (m.kind = "left" => msg[t].kind = "left")
        BY DEF Notice
      <4> HIDE DEF m
      <4>2. outbox[u] \in Seq(Message) /\ (outbox'[u] = outbox[u] \/ outbox'[u] = Append(outbox[u], m))
        BY <3>2 DEF TypeOK, ServerTypeOK, m
      <4>3. outbox'[u][i] = m \/ (i \in DOMAIN outbox[u] /\ outbox'[u][i] = outbox[u][i])
        BY <4>2
      <4>4. CASE outbox'[u][i] = m
        BY <1>2, <3>2, <4>1, <4>4 DEF Airs, OnTheAir
      <4>5. QED  BY <2>1, <4>3, <4>4
    <3>3. QED
      BY <2>3, <3>1, <3>2, BroadcastIs DEF Begins, Scans, Ends, Airs
  <2>4. QED  BY <2>2, <2>3, AirOrElsewhere
<1>3. QED  BY <1>2 DEF Bidden

(* A step elsewhere leaves what is on the air, and who has been dealt      *)
(* with.                                                                   *)
LEMMA AirSame ==
    ASSUME InLoop, Held, OffAir
    PROVE  Airing' = Airing /\ DealtWith' = DealtWith
<1>1. CASE Unlocked
  BY <1>1 DEF OffAir, Unlocked, Airing, DealtWith
<1>2. CASE ~Unlocked
  <2> DEFINE t == usersMutex
  <2>1. t' = t /\ t \in Users /\ OnTheAir(t) /\ UNCHANGED users
    BY <1>2 DEF Held, OffAir
  <2>2. msg'[t] = msg[t] /\ idx'[t] = idx[t]
    BY <2>1 DEF OffAir, Stays
  <2>3. ~Unlocked'
    BY <1>2, <2>1 DEF Unlocked
  <2>4. QED  BY <1>2, <2>1, <2>2, <2>3 DEF Airing, DealtWith, Notice
<1>3. QED  BY <1>1, <1>2

(* Nobody enters, leaves or hears anything.                                *)
Hushed == UNCHANGED <<users, outbox>> /\ Disconnected \subseteq Disconnected'

LEMMA HushedIsChange ==
    ASSUME InLoop, Held, OffAir, Hushed
    PROVE  Room!Change
BY AirSame DEF Hushed, Room!Change, Transferring, Registered

(* Somebody hears something that is not for everybody.                     *)
LEMMA WordIsAside ==
    ASSUME TypeOK, TypeOK', InLoop, Held, OffAir, UNCHANGED <<users, isTransfering, client>>,
           \A u \in Users :
              \/ outbox'[u] = outbox[u]
              \/ \E m \in Message : m.kind \notin {"chat", "end", "left"}
                                    /\ outbox'[u] = Append(outbox[u], m)
    PROVE  Room!Aside
<1>1. Airing' = Airing /\ DealtWith' = DealtWith
  BY AirSame
<1>2. UNCHANGED <<Registered, Transferring, Disconnected>>
  BY DEF Registered, Transferring, Disconnected
<1>3. DOMAIN outbox' = Users
  BY DEF TypeOK, ServerTypeOK
<1>4. ASSUME NEW u \in Users, outbox'[u] # outbox[u]
      PROVE  /\ outbox'[u] # <<>>
             /\ outbox'[u] = Append(outbox[u], Last(outbox'[u]))
             /\ Last(outbox'[u]) \notin Announcements
  <2>1. PICK m \in Message : m.kind \notin {"chat", "end", "left"}
                             /\ outbox'[u] = Append(outbox[u], m)
    BY <1>4
  <2>2. outbox[u] \in Seq(Message)
    BY DEF TypeOK, ServerTypeOK
  <2>3. Last(outbox'[u]) = m /\ outbox'[u] # <<>>
    BY <2>1, <2>2 DEF Last
  <2>4. QED  BY <2>1, <2>3 DEF Announcements
<1>5. QED  BY <1>1, <1>2, <1>3, <1>4 DEF Room!Aside, Room!Last, Last

(* What sendMessage adds to an outbox.                                     *)
LEMMA SentIsWord ==
    ASSUME TypeOK, NEW u, NEW m \in Message, sendMessage(u, m), m.kind \notin {"chat", "end", "left"}
    PROVE  \A v \in Users :
              \/ outbox'[v] = outbox[v]
              \/ \E g \in Message : g.kind \notin {"chat", "end", "left"}
                                    /\ outbox'[v] = Append(outbox[v], g)
<1>1. \A g \in {m, [m EXCEPT !.kind = "garbled"]} :
         g \in Message /\ g.kind \notin {"chat", "end", "left"}
  BY DEF Message, Notices
<1>2. ASSUME NEW v \in Users, outbox'[v] # outbox[v]
      PROVE  \E g \in Message : g.kind \notin {"chat", "end", "left"}
                                /\ outbox'[v] = Append(outbox[v], g)
  <2>1. PICK g \in {m, [m EXCEPT !.kind = "garbled"]} : outbox'[v] = Append(outbox[v], g)
    BY <1>2, SendIs
  <2>2. QED  BY <1>1, <2>1
<1>3. QED  BY <1>2

(* A handler outside a broadcast.                                          *)
LEMMA HandlerInRoom ==
    ASSUME IInv, TypeOK', InLoop, Held, NEW t \in Users,
           LoopStep(t) \/ CommandStep(t) \/ TransferStep(t)
    PROVE  Room!Next
<1> USE NamesApart DEF IInv
<1>1. OffAir
  BY LoopElsewhere, CommandElsewhere, TransferElsewhere DEF Elsewhere
<1>2. Keeps(t)
  BY HandlerKeeps DEF HandlerStep
<1>3. CASE LoopStep(t)
  <2>1. UNCHANGED <<users, outbox, client>>
    BY <1>3 DEF LoopStep, TestQuit, Receive, ReceiveThrows, Decide, DecideThrows,
       wait_completeTransfer, Catch, Moves, serverVars, registryVars
  <2>2. Hushed  BY <2>1 DEF Hushed, Disconnected
  <2>3. QED  BY <1>1, <2>2, HushedIsChange DEF Room!Next
<1>4. CASE Quit(t)
  <2>1. Registered' = Registered \ {t} /\ Unlocked
    BY <1>2, <1>4, QuitInv DEF Quit, removeUser
  <2>2. UNCHANGED <<isTransfering, client, outbox>>
    BY <1>4 DEF Quit, userVars
  <2>3. Airing = {} /\ Airing' = Airing /\ DealtWith' = DealtWith
    BY <1>1, <2>1, AirSame DEF Airing
  <2>4. Room!Leave(t)
    BY <2>1, <2>2, <2>3 DEF Room!Leave, Transferring, Disconnected
  <2>5. QED  BY <2>4 DEF Room!Next
<1>5. CASE CommandStep(t) /\ ~Quit(t) /\ ~Utter(t)
  <2>1. UNCHANGED <<users, outbox, client>>
    BY <1>5 DEF CommandStep, ListUsers, ListCommands, WhisperSocket, WhisperUser, Moves,
       serverVars, registryVars
  <2>2. Hushed  BY <2>1 DEF Hushed, Disconnected
  <2>3. QED  BY <1>1, <2>2, HushedIsChange DEF Room!Next
<1>6. CASE Utter(t)
  <2> DEFINE s == Utterance(t)
             m == [kind |-> s.kind, from |-> t, n |-> msg[t].n]
  <2>1. s.kind \in Notices /\ s.kind \notin {"chat", "end", "left"}
    BY <1>6 DEF Utter, Utterance, Saying, Notices
  <2>2. sendMessage(s.to, m) /\ UNCHANGED <<users, isTransfering, client>>
    BY <1>6 DEF Utter, userVars, registryVars
  <2> HIDE DEF s
  <2>3. m \in Message /\ m.kind \notin {"chat", "end", "left"}
    BY <2>1 DEF Message, Packet, TypeOK, StackTypeOK
  <2> HIDE DEF m
  <2>4. Room!Aside
    BY <1>1, <2>2, <2>3, SentIsWord, WordIsAside
  <2>5. QED  BY <2>4 DEF Room!Next
<1>7. CASE SendInfo(t)
  <2>1. sendTransferInfo(t, target[t]) /\ UNCHANGED <<users, isTransfering, client>>
    BY <1>7 DEF SendInfo, userVars, registryVars
  <2>2. ASSUME NEW u \in Users, outbox'[u] # outbox[u]
        PROVE  \E m \in Message : m.kind \notin {"chat", "end", "left"}
                                  /\ outbox'[u] = Append(outbox[u], m)
    <3> DEFINE m == [kind |-> IF u \in {t, target[t]} THEN "info" ELSE "garbled",
                     from |-> t, n |-> 0]
    <3>1. outbox'[u] = Append(outbox[u], m)
      BY <2>1, <2>2 DEF sendTransferInfo
    <3>2. m \in Message /\ m.kind \notin {"chat", "end", "left"}
      BY DEF Message, Notices
    <3>3. QED  BY <3>1, <3>2
  <2>3. Room!Aside
    BY <1>1, <2>1, <2>2, WordIsAside
  <2>4. QED  BY <2>3 DEF Room!Next
<1>8. CASE TransferStep(t) /\ ~SendInfo(t)
  <2>1. UNCHANGED <<users, outbox, client>>
    BY <1>8 DEF TransferStep, LookUp, MarkThem, MarkSelf, AwaitDecision, AwaitThrows,
       Decided, Resume, UnmarkThem, UnmarkSelf, Moves, serverVars, registryVars
  <2>2. Hushed  BY <2>1 DEF Hushed, Disconnected
  <2>3. QED  BY <1>1, <2>2, HushedIsChange DEF Room!Next
<1>9. QED  BY <1>3, <1>4, <1>5, <1>6, <1>7, <1>8 DEF CommandStep

(* The acceptor: it adds Users, and answers them alone.                    *)
LEMMA AcceptorInRoom ==
    ASSUME IInv, TypeOK', InLoop, Held, AcceptorStep
    PROVE  Room!Next
<1> USE NamesApart DEF IInv
<1>1. OffAir
  BY AcceptorElsewhere DEF Elsewhere
<1>2. CASE AddUser
  <2> DEFINE c == target[Acceptor]
  <2>1. c \in Users /\ c \notin Registered /\ users' = Append(users, c) /\ Unlocked
    BY <1>2 DEF AddUser, addUser, Lifecycle, Newcomer, Fresh, AcceptorPC
  <2>2. UNCHANGED <<isTransfering, client, outbox>>
    BY <1>2 DEF AddUser, userVars
  <2> HIDE DEF c
  <2>3. Registered' = Registered \cup {c}
    BY <2>1, AppendIs DEF Registered, TypeOK, ServerTypeOK, RegistryConsistent
  <2>4. Airing = {} /\ Airing' = Airing /\ DealtWith' = DealtWith
    BY <1>1, <2>1, AirSame DEF Airing
  <2>5. Room!Enter(c)
    BY <2>1, <2>2, <2>3, <2>4 DEF Room!Enter, Transferring, Disconnected
  <2>6. QED  BY <2>1, <2>5 DEF Room!Next
<1>3. CASE AnswerName
  <2> DEFINE m == [kind |-> pc[Acceptor], from |-> Host, n |-> 0]
  <2>1. m \in Message /\ m.kind \notin {"chat", "end", "left"} /\ sendMessage(target[Acceptor], m)
    BY <1>3 DEF AnswerName, Message, Notices
  <2>2. UNCHANGED <<users, isTransfering, client>>
    BY <1>3 DEF AnswerName, userVars, registryVars
  <2> HIDE DEF m
  <2>3. Room!Aside
    BY <1>1, <2>1, <2>2, SentIsWord, WordIsAside
  <2>4. QED  BY <2>3 DEF Room!Next
<1>4. CASE ~AddUser /\ ~AnswerName
  <2>1. UNCHANGED <<users, outbox>>
    BY <1>4 DEF AcceptorStep, AcceptorTest, SelectTimesOut, Accept, ExchangeKeys,
       HandshakeFails, ReceiveName, LoginLost, CheckName, SetName, PushHandler, Moves,
       serverVars, registryVars
  <2>2. \A c \in Clients : client[c] = "closed" => client'[c] = "closed"
    BY <1>4 DEF AcceptorStep, AcceptorTest, SelectTimesOut, Accept, ExchangeKeys,
       HandshakeFails, ReceiveName, LoginLost, CheckName, SetName, PushHandler, Moves,
       serverVars, TypeOK, ServerTypeOK
  <2>3. Hushed  BY <2>1, <2>2 DEF Hushed, Disconnected
  <2>4. QED  BY <1>1, <2>3, HushedIsChange DEF Room!Next
<1>5. QED  BY <1>2, <1>3, <1>4

(* The clients, the host at the console, and the rest of the process.      *)
LEMMA OthersInRoom ==
    ASSUME IInv, InLoop, Held,
           \/ \E u \in Users : Say(u) \/ (u \in Clients /\ ClientStep(u))
           \/ MainStep \/ SpuriousWakeup \/ HostStep \/ StartTask
           \/ \E u \in Users : UseAfterFree(u) \/ BadErrorText(u)
    PROVE  Room!Next
<1> USE NamesApart DEF IInv
<1>1. OffAir
  BY ClientElsewhere, MainElsewhere, HostElsewhere, StartElsewhere DEF Elsewhere
<1>2. ASSUME NEW c \in Clients, HearAnswer(c)  PROVE Room!Next
  <2>1. PICK k \in 1..Len(outbox[c]) :
           /\ outbox' = [outbox EXCEPT ![c] = SubSeq(@, k + 1, Len(@))]
           /\ client' = [client EXCEPT ![c] = IF k = 1 /\ Head(outbox[c]).kind = "valid"
                                              THEN "in" ELSE "naming"]
    BY <1>2 DEF HearAnswer
  <2>2. client[c] = "asking" /\ UNCHANGED <<users, isTransfering>>
    BY <1>2 DEF HearAnswer, registryVars, userVars
  <2>3. UNCHANGED <<Registered, Transferring, Disconnected>>
    BY <2>1, <2>2 DEF Registered, Transferring, Disconnected, TypeOK, ServerTypeOK
  <2>4. Airing' = Airing /\ DealtWith' = DealtWith
    BY <1>1, AirSame
  <2>5. Room!Forget(c)
    BY <2>1, <2>3, <2>4 DEF Room!Forget
  <2>6. QED  BY <2>5 DEF Room!Next
<1>3. ASSUME NEW c \in Clients, Connect(c) \/ TryName(c) \/ HangUp(c) \/ Break(c)
      PROVE  Hushed
  BY <1>3 DEF Connect, TryName, HangUp, Break, registryVars, Hushed, Disconnected, TypeOK,
     ServerTypeOK
<1>4. ASSUME NEW u \in Users, Say(u)  PROVE Hushed
  <2>1. UNCHANGED <<users, outbox>>
        /\ (client' = client \/ client' = [client EXCEPT ![u] = "leaving"])
    BY <1>4 DEF Say, registryVars
  <2>2. u \in Clients => client[u] # "closed"
    BY <1>4 DEF Say
  <2>3. \A c \in Clients : client[c] = "closed" => client'[c] = "closed"
    BY <2>1, <2>2 DEF TypeOK, ServerTypeOK
  <2>4. QED  BY <2>1, <2>3 DEF Hushed, Disconnected
<1>5. CASE MainStep \/ SpuriousWakeup \/ HostStep \/ StartTask
           \/ \E u \in Users : UseAfterFree(u) \/ BadErrorText(u)
  <2>1. UNCHANGED <<users, outbox, client>>
    BY <1>5 DEF MainStep, MainChecks, MainBlocks, MainJoins, SpuriousWakeup, HostStep,
       RaiseShouldQuit, NotifyMain, StartTask, UseAfterFree, BadErrorText, Moves, serverVars,
       registryVars
  <2>2. Hushed  BY <2>1 DEF Hushed, Disconnected
  <2>3. QED  BY <1>1, <2>2, HushedIsChange DEF Room!Next
<1>6. QED
  BY <1>1, <1>2, <1>3, <1>4, <1>5, HushedIsChange DEF ClientStep, Room!Next

(* A broadcast: to begin is to start, one entry is to tell or to pass      *)
(* over, to end is to stop.                                                *)
LEMMA BroadcastInRoom ==
    ASSUME IInv, OrderInv, Heard, Bidden, NEW t \in Users, BroadcastStep(t)
    PROVE  [Room!Next]_(Room!vars)
<1> USE NamesApart DEF IInv
<1>1. Alone(t) /\ (Begins(t) \/ Scans(t) \/ Ends(t) \/ \E r \in Users : Airs(t, r))
  BY BroadcastIs DEF OrderInv
<1>2. UNCHANGED <<users, isTransfering, client>>
  BY <1>1 DEF Alone, Keeps
<1>3. UNCHANGED <<Registered, Transferring, Disconnected>>
  BY <1>2 DEF Registered, Transferring, Disconnected
<1>4. users \in Seq(Users) /\ DOMAIN users = 1..Len(users) /\ Len(users) \in Nat
      /\ idx[t] \in Nat
  BY DEF TypeOK, ServerTypeOK, StackTypeOK
<1> DEFINE m == Notice(t)
<1>5. CASE Begins(t)
  <2>1. Unlocked /\ usersMutex' = t /\ idx'[t] = 1 /\ msg'[t] = msg[t] /\ UNCHANGED outbox
        /\ pc[t] = "dispatch" /\ msg[t].kind \in Broadcasts
    BY <1>5 DEF Begins
  <2>2. Airing = {} /\ Airing' = {m} /\ DealtWith = {} /\ DealtWith' = {}
    BY <1>4, <2>1 DEF Airing, DealtWith, Unlocked, Notice
  <2>3. ASSUME m \in Announcements, NEW u \in Users, NEW i \in DOMAIN outbox[u], outbox[u][i] = m
        PROVE  FALSE
    <3>1. m.from = t /\ m.n = msg[t].n /\ m.kind \in {"chat", "end", "left"}
      BY <2>3 DEF Notice, Announcements
    <3>2. CASE m.kind = "left"
      <4>1. msg[t].kind = "left"
        BY <3>2 DEF Notice
      <4>2. pc[t] = "done" \/ OnTheAir(t)
        BY <2>3, <3>1, <3>2 DEF Bidden
      <4>3. QED  BY <2>1, <4>2 DEF OnTheAir
    <3>3. CASE m.kind \in {"chat", "end"}
      <4>1. msg[t].kind \notin {"garbled", "left"}
        BY <3>3 DEF Notice
      <4>2. Old(m)
        BY <2>3, <3>3 DEF OrderInv, Aired, Aloud
      <4>3. msg[t].n < msg[t].n /\ msg[t].n \in Nat
        BY <2>1, <3>1, <4>1, <4>2, BoxTypes DEF Old
      <4>4. QED  BY <4>3
    <3>4. QED  BY <3>1, <3>2, <3>3
  <2>4. m \in Announcements => \A u \in Users : m \notin Room!ToSet(outbox[u])
    BY <2>3 DEF Room!ToSet
  <2> HIDE DEF m
  <2>5. Room!Start
    BY <1>3, <2>1, <2>2, <2>4 DEF Room!Start
  <2>6. QED  BY <2>5 DEF Room!Next
<1>6. ASSUME OnTheAir(t)
      PROVE  /\ usersMutex = t /\ ~Unlocked /\ Airing = {m}
             /\ idx[t] \in 1..(Len(users) + 1)
             /\ DealtWith = {users[i] : i \in 1..(idx[t] - 1)}
             /\ pc[t] = "send" => idx[t] <= Len(users)
  BY <1>6 DEF OrderInv, InLoop, Unlocked, Airing, DealtWith
<1>7. ASSUME OnTheAir(t), usersMutex' = usersMutex, msg'[t] = msg[t]
      PROVE  Airing' = Airing /\ DealtWith' = {users[i] : i \in 1..(idx'[t] - 1)}
  BY <1>2, <1>6, <1>7 DEF Unlocked, Airing, DealtWith, Notice
<1>8. ASSUME OnTheAir(t), idx[t] <= Len(users), idx'[t] = idx[t] + 1, msg'[t] = msg[t],
             usersMutex' = usersMutex
      PROVE  /\ users[idx[t]] \in Registered /\ users[idx[t]] \in Users
             /\ users[idx[t]] \notin DealtWith
             /\ DealtWith' = DealtWith \cup {users[idx[t]]}
  <2>1. idx[t] \in DOMAIN users /\ 1..(idx'[t] - 1) = 1..(idx[t] - 1) \cup {idx[t]}
    BY <1>4, <1>6, <1>8
  <2>2. users[idx[t]] \in Registered /\ users[idx[t]] \in Users
    BY <1>4, <2>1 DEF Registered, ToSet
  <2>3. \A i \in 1..(idx[t] - 1) : i \in DOMAIN users /\ i # idx[t]
    BY <1>4, <1>8
  <2>4. users[idx[t]] \notin DealtWith
    BY <1>6, <1>8, <2>1, <2>3 DEF RegistryConsistent, IsInjective
  <2>5. QED  BY <1>6, <1>7, <1>8, <2>1, <2>2, <2>4
<1>9. CASE Scans(t)
  <2>1. OnTheAir(t) /\ msg'[t] = msg[t] /\ idx[t] <= Len(users) /\ UNCHANGED <<usersMutex, outbox>>
    BY <1>9 DEF Scans, OnTheAir
  <2>2. CASE idx'[t] = idx[t]
    <3>1. Airing' = Airing /\ DealtWith' = DealtWith
      BY <1>6, <1>7, <2>1, <2>2
    <3>2. QED  BY <1>3, <2>1, <3>1 DEF Room!vars
  <2>3. CASE PassesOver(t, users[idx[t]]) /\ idx'[t] = idx[t] + 1
    <3> DEFINE u == users[idx[t]]
    <3>1. u \in Registered /\ u \in Users /\ u \notin DealtWith /\ DealtWith' = DealtWith \cup {u}
      BY <1>8, <2>1, <2>3
    <3>2. Airing = {m} /\ Airing' = Airing
      BY <1>6, <1>7, <2>1
    <3>3. ASSUME m \in Announcements, ~isTransfering[u]  PROVE u = m.from
      <4>1. m.from = t /\ m.kind \in {"chat", "end", "left"}
        BY <3>3 DEF Notice, Announcements
      <4>2. msg[t].kind # "left" /\ Same(t, u)
        BY <2>3, <3>3 DEF PassesOver
      <4>3. msg[t].kind \in Spoken
        BY <4>1, <4>2 DEF Notice, Spoken
      <4>4. t \in Registered
        BY <2>1, <4>3 DEF Heard, OnTheAir
      <4>5. QED  BY <3>1, <4>1, <4>2, <4>4 DEF Same, NameInv, UniqueNames
    <3>4. m \in Announcements => u \in Transferring \/ u = m.from
      BY <3>1, <3>3 DEF Transferring
    <3> HIDE DEF u, m
    <3>5. Room!Pass(u)
      BY <1>3, <2>1, <3>1, <3>2, <3>4 DEF Room!Pass
    <3>6. QED  BY <3>1, <3>5 DEF Room!Next
  <2>4. QED  BY <1>9, <2>2, <2>3 DEF Scans
<1>10. ASSUME NEW r \in Users, Airs(t, r)  PROVE Room!Next
  <2>1. OnTheAir(t) /\ pc[t] = "send" /\ msg'[t] = msg[t] /\ idx'[t] = idx[t] + 1
        /\ UNCHANGED usersMutex /\ r = users[idx[t]]
    BY <1>10 DEF Airs, OnTheAir
  <2>2. r \in Registered /\ r \notin DealtWith /\ DealtWith' = DealtWith \cup {r}
    BY <1>6, <1>8, <2>1
  <2>3. Airing = {m} /\ Airing' = Airing
    BY <1>6, <1>7, <2>1
  <2>4. outbox' = [outbox EXCEPT ![r] = Append(@, m)] \/ (r \in Disconnected /\ UNCHANGED outbox)
    BY <1>10 DEF Airs, Disconnected, Users
  <2> HIDE DEF m
  <2>5. Room!Tell(r)
    BY <1>3, <2>2, <2>3, <2>4 DEF Room!Tell
  <2>6. QED  BY <2>5 DEF Room!Next
<1>11. CASE Ends(t)
  <2>1. OnTheAir(t) /\ idx[t] > Len(users) /\ usersMutex' = Nobody /\ UNCHANGED outbox
    BY <1>11 DEF Ends, OnTheAir
  <2>2. Airing = {m} /\ 1..(idx[t] - 1) = DOMAIN users
    BY <1>4, <1>6, <2>1
  <2>3. DealtWith = Registered
    BY <1>6, <2>1, <2>2 DEF Registered, ToSet
  <2>4. Airing' = {} /\ DealtWith' = {}
    BY <2>1 DEF Airing, DealtWith, Unlocked
  <2> HIDE DEF m
  <2>5. Room!Stop
    BY <1>3, <2>1, <2>2, <2>3, <2>4 DEF Room!Stop
  <2>6. QED  BY <2>5 DEF Room!Next
<1>12. QED  BY <1>1, <1>5, <1>9, <1>10, <1>11

(* The broadcasts of all threads are those of one announcer who says one   *)
(* thing at a time, to everybody, and nothing twice: what is on the air is *)
(* the message of the thread that holds usersMutex                         *)
(* (broadcastMessage, broadcastMessageExceptSender).                       *)
THEOREM BroadcastsTakeTurns == Spec => ImplementsBroadcast
<1> DEFINE I == IInv /\ OrderInv
           J == Heard /\ Held /\ Bidden
<1>1. Init => Room!Init
  <2>1. ASSUME Init  PROVE Room!Init
    <3>1. users = <<Host>> /\ Unlocked /\ outbox = [u \in Users |-> <<>>]
          /\ \A u \in Users : ~isTransfering[u]
      BY <2>1 DEF Init, ServerInit, UserInit, Unlocked
    <3>2. Registered = {Host} /\ Transferring = {}
      BY <3>1 DEF Registered, ToSet, Transferring
    <3>3. Disconnected = {}
      BY <2>1 DEF Init, ServerInit, Disconnected
    <3>4. QED  BY <3>1, <3>2, <3>3, NamesApart DEF Room!Init, Airing, DealtWith
  <2>2. QED  BY <2>1
<1>2. Init => J
  BY NamesApart DEF Init, ServerInit, Heard, Held, Bidden, Unlocked
<1>3. ASSUME I, J, [Next]_vars  PROVE J'
  BY <1>3, HeardKept, HeldKept, BiddenKept DEF OrderInv
<1>4. ASSUME I, I', J, [Next]_vars  PROVE [Room!Next]_(Room!vars)
  <2>1. CASE UNCHANGED vars
    BY <1>4, <2>1, MainElsewhere, AirSame DEF IInv, OrderInv, Elsewhere, vars, userVars,
       serverVars, registryVars, Room!vars, Registered, Transferring, Disconnected
  <2>2. ASSUME NEW t \in Users, HandlerStep(t)  PROVE [Room!Next]_(Room!vars)
    BY <1>4, <2>2, HandlerInRoom, BroadcastInRoom DEF HandlerStep, IInv, OrderInv
  <2>3. CASE AcceptorStep
    BY <1>4, <2>3, AcceptorInRoom DEF IInv, OrderInv
  <2>4. QED
    BY <1>4, <2>1, <2>2, <2>3, OthersInRoom, NextCases DEF OrderInv
<1>5. Spec => []I
  BY Ordered, PTL
<1>6. QED  BY <1>1, <1>2, <1>3, <1>4, <1>5, PTL DEF Spec, ImplementsBroadcast, Room!Spec

=============================================================================
