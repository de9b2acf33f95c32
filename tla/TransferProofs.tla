--------------------------- MODULE TransferProofs ---------------------------
(* The negotiation of a transfer, for any number of users: no flag is left *)
(* behind and a future serves one uploader at a time, however uploads      *)
(* overlap, and nothing about a peer reaches a client before its approval; *)
(* a recipient waits for the end of its transfer and its decision is read, *)
(* as long as uploads to one recipient do not overlap.                     *)
EXTENDS ChatRoomProofs, FiniteSetTheorems

(* When no flag changes and whoever is in a transfer stays in it, no flag  *)
(* is left behind.                                                         *)
LEMMA FlagsStay ==
    ASSUME NoFlagLeftBehind, UNCHANGED isTransfering,
           \A t, u \in Users : Flagging(t, u) => Flagging(t, u)'
    PROVE  NoFlagLeftBehind'
BY DEF NoFlagLeftBehind

(* A step of one handler leaves every other handler's transfer as it is.   *)
LEMMA OthersStay ==
    ASSUME TypeOK, NEW t \in Users, Keeps(t)
    PROVE  /\ \A v \in Users \ {t}, u \in Users : Flagging(v, u) => Flagging(v, u)'
           /\ pc[t] \notin Uploading => \A u \in Users : ~Flagging(t, u)
BY NamesApart DEF Keeps, Flagging, Uploading

(* A step of a handler that is in no transfer leaves no flag behind.       *)
LEMMA IdleFlags ==
    ASSUME TypeOK, NoFlagLeftBehind, NEW t \in Users, Keeps(t), pc[t] \notin Uploading,
           UNCHANGED isTransfering
    PROVE  NoFlagLeftBehind'
BY OthersStay, FlagsStay

(* A step within a transfer that changes no flag leaves none behind.       *)
LEMMA MovingFlags ==
    ASSUME TypeOK, NoFlagLeftBehind, NEW t \in Users, Keeps(t), pc[t] \in Negotiating,
           pc'[t] \in Negotiating, pc[t] # "markSelf", pc'[t] # "markSelf",
           target'[t] = target[t],
           UNCHANGED isTransfering
    PROVE  NoFlagLeftBehind'
<1>1. \A u \in Users : Flagging(t, u) => Flagging(t, u)'
  BY DEF Flagging, Uploading, Negotiating
<1>2. QED  BY <1>1, OthersStay, FlagsStay

(* The loop of a handler leaves no flag behind.                            *)
LEMMA LoopFlags ==
    ASSUME TypeOK, NoFlagLeftBehind, NEW t \in Users, LoopStep(t)
    PROVE  NoFlagLeftBehind'
<1>1. pc[t] \notin Uploading /\ UNCHANGED isTransfering
  BY DEF LoopStep, TestQuit, Receive, ReceiveThrows, Decide, DecideThrows,
       wait_completeTransfer,
         Catch, Moves, userVars, Uploading, Negotiating
<1>2. QED  BY <1>1, LoopKeeps, IdleFlags

(* A broadcast leaves no flag behind.                                      *)
LEMMA BroadcastFlags ==
    ASSUME TypeOK, NoFlagLeftBehind, NEW t \in Users, BroadcastStep(t)
    PROVE  NoFlagLeftBehind'
<1>1. pc[t] \notin Uploading /\ UNCHANGED isTransfering
  BY DEF BroadcastStep, BeginBroadcast, Scan, SendOne, EndBroadcast, userVars,
       Uploading, Negotiating
<1>2. QED  BY <1>1, BroadcastKeeps, IdleFlags

(* A command leaves no flag behind, nor do the messages of a transfer.     *)
LEMMA CommandFlags ==
    ASSUME TypeOK, NoFlagLeftBehind, NEW t \in Users, CommandStep(t)
    PROVE  NoFlagLeftBehind'
<1>1. UNCHANGED isTransfering
  BY DEF CommandStep, Quit, ListUsers, ListCommands, WhisperSocket, WhisperUser,
       Utter, Moves, userVars
<1>2. CASE pc[t] \notin Uploading
  BY <1>1, <1>2, CommandKeeps, IdleFlags
<1>3. CASE pc[t] \in Uploading
  <2>1. Utter(t) /\ pc[t] \in Saying
    BY <1>3 DEF CommandStep, Quit, ListUsers, ListCommands, WhisperSocket,
         WhisperUser, Utter,
                Handling, Uploading, Negotiating
  <2>2. pc[t] \in Negotiating /\ pc[t] # "markSelf"
        /\ Utterance(t).next \in Negotiating \ {"markSelf", "loop"}
    BY <1>3, <2>1 DEF Utterance, Saying, Uploading, Negotiating
  <2>3. CASE Utterance(t).next = "loop"  BY <2>2, <2>3
  <2>4. CASE Utterance(t).next # "loop"
    <3>1. Goto(t, Utterance(t).next) /\ UNCHANGED locals
      BY <2>1, <2>4 DEF Utter
    <3>2. pc'[t] = Utterance(t).next /\ target'[t] = target[t]
      BY <3>1, NamesApart DEF Goto, locals, TypeOK, PcTypeOK
    <3>3. QED  BY <1>1, <2>2, <3>2, CommandKeeps, MovingFlags
  <2>5. QED  BY <2>3, <2>4
<1>4. QED  BY <1>2, <1>3

(* fileTransfer takes back every flag it raises, whichever way it goes.    *)
LEMMA TransferFlags ==
    ASSUME TypeOK, NoFlagLeftBehind, NEW t \in Users, TransferStep(t)
    PROVE  NoFlagLeftBehind'
<1> USE NamesApart
<1>0. Keeps(t) /\ isTransfering \in [Users -> BOOLEAN] /\ t \in DOMAIN pc /\ t \in DOMAIN target
  BY TransferKeeps DEF TypeOK, UserTypeOK, PcTypeOK, StackTypeOK
<1>1. CASE LookUp(t)
  BY <1>0, <1>1, IdleFlags DEF LookUp, Handling, userVars, Uploading, Negotiating
<1>2. CASE MarkThem(t)
  <2>1. pc[t] = "markThem" /\ pc'[t] = "markSelf" /\ target'[t] = target[t]
        /\ isTransfering' = [isTransfering EXCEPT ![target[t]] = TRUE]
    BY <1>0, <1>2 DEF MarkThem, signalStartOfTransfer, Goto, locals
  <2>2. \A u \in Users : ~Flagging(t, u)
    BY <2>1 DEF Flagging, Negotiating
  <2>3. target[t] \in Users => Flagging(t, target[t])'
    BY <2>1 DEF Flagging, Negotiating
  <2>4. QED  BY <1>0, <2>1, <2>2, <2>3, OthersStay DEF NoFlagLeftBehind
<1>3. CASE MarkSelf(t)
  <2>1. pc[t] = "markSelf" /\ pc'[t] = "request" /\ target'[t] = target[t]
        /\ isTransfering' = [isTransfering EXCEPT ![t] = TRUE]
    BY <1>0, <1>3 DEF MarkSelf, signalStartOfTransfer, Goto, locals
  <2>2. \A u \in Users : Flagging(t, u) => Flagging(t, u)'
    BY <2>1 DEF Flagging, Negotiating, Uploading
  <2>3. Flagging(t, t)'
    BY <2>1 DEF Flagging, Negotiating, Uploading
  <2>4. QED  BY <1>0, <2>1, <2>2, <2>3, OthersStay DEF NoFlagLeftBehind
<1>4. CASE AwaitDecision(t) \/ AwaitThrows(t) \/ Decided(t) \/ SendInfo(t) \/ Resume(t)
  <2>1. pc[t] \in Negotiating \ {"markSelf"} /\ pc'[t] \in Negotiating \ {"markSelf"}
        /\ target'[t] = target[t] /\ UNCHANGED isTransfering
    BY <1>0, <1>4 DEF AwaitDecision, AwaitThrows, Decided, SendInfo, Resume, Goto,
         Moves, locals,
                      userVars, Negotiating
  <2>2. QED  BY <1>0, <2>1, MovingFlags
<1>5. CASE UnmarkThem(t)
  <2>1. pc[t] = "unmarkThem" /\ pc'[t] = "unmarkSelf" /\ target'[t] = target[t]
        /\ isTransfering' = [isTransfering EXCEPT ![target[t]] = FALSE]
    BY <1>0, <1>5 DEF UnmarkThem, signalEndOfTransfer, Goto, locals
  <2>2. \A u \in Users : u # target[t] /\ Flagging(t, u) => Flagging(t, u)'
    BY <2>1 DEF Flagging, Uploading
  <2>3. QED  BY <1>0, <2>1, <2>2, OthersStay DEF NoFlagLeftBehind
<1>6. CASE UnmarkSelf(t)
  <2>1. pc[t] = "unmarkSelf" /\ isTransfering' = [isTransfering EXCEPT ![t] = FALSE]
    BY <1>6 DEF UnmarkSelf, signalEndOfTransfer
  <2>2. \A u \in Users : Flagging(t, u) => u = t
    BY <2>1 DEF Flagging, Negotiating
  <2>3. QED  BY <1>0, <2>1, <2>2, OthersStay DEF NoFlagLeftBehind
<1>7. QED  BY <1>1, <1>2, <1>3, <1>4, <1>5, <1>6 DEF TransferStep

(* A step that changes no flag, place or recipient leaves no flag behind.  *)
LEMMA SameFlags ==
    ASSUME NoFlagLeftBehind, UNCHANGED isTransfering,
           \A v \in Users : pc'[v] = pc[v] /\ target'[v] = target[v]
    PROVE  NoFlagLeftBehind'
BY FlagsStay DEF Flagging

(* A User marked as transferring is always in some thread's fileTransfer   *)
(* that has yet to clear the mark, for any number of overlapping uploads,  *)
(* exceptions and users that leave (fileTransfer, signalEndOfTransfer).    *)
THEOREM FlagsTakenBack == Spec => []NoFlagLeftBehind
<1>1. Init => NoFlagLeftBehind
  BY DEF Init, UserInit, NoFlagLeftBehind
<1>2. ASSUME IInv, NoFlagLeftBehind, [Next]_vars
      PROVE  NoFlagLeftBehind'
  <2> USE NamesApart DEF IInv
  <2>1. CASE UNCHANGED vars
    BY <1>2, <2>1, SameFlags DEF vars, userVars, locals
  <2>2. ASSUME NEW t \in Users, HandlerStep(t)  PROVE NoFlagLeftBehind'
    BY <1>2, <2>2, LoopFlags, CommandFlags, BroadcastFlags,
         TransferFlags DEF HandlerStep
  <2>3. ASSUME NEW u \in Users, Say(u) \/ (u \in Clients /\ ClientStep(u))
        PROVE  NoFlagLeftBehind'
    <3>1. UNCHANGED <<isTransfering, pc, target>>
      BY <2>3 DEF Say, ClientStep, Connect, TryName, HearAnswer, HangUp, Break,
           userVars, locals
    <3>2. QED  BY <1>2, <3>1, SameFlags
  <2>4. ASSUME MainStep \/ SpuriousWakeup \/ (\E u \in Users : UseAfterFree(u) \/ BadErrorText(u))
        PROVE  NoFlagLeftBehind'
    <3>1. UNCHANGED isTransfering
      BY <2>4 DEF MainStep, MainChecks, MainBlocks, MainJoins, SpuriousWakeup,
           UseAfterFree,
                  BadErrorText, Moves, userVars
    <3>2. QED  BY <1>2, <2>4, <3>1, MainBystands, SameFlags DEF Bystands
  <2>5. CASE HostStep
    <3>1. pc[Host] \notin Uploading /\ UNCHANGED isTransfering
      BY <2>5 DEF HostStep, RaiseShouldQuit, NotifyMain, userVars, Uploading,
           Negotiating
    <3>2. QED  BY <1>2, <2>5, <3>1, HostKeeps, IdleFlags
  <2>6. CASE StartTask
    <3> DEFINE t == Head(taskQueue)
    <3>1. t \in Threads /\ pc[t] = "idle"
      BY <1>2, <2>6 DEF StartTask, TypeOK, Lifecycle, WaitingTasks
    <3>2. UNCHANGED <<isTransfering, target>> /\ \A v \in Users \ {t} : pc'[v] = pc[v]
      BY <1>2, <2>6 DEF StartTask, Goto, userVars, locals, TypeOK, PcTypeOK
    <3> HIDE DEF t
    <3>3. \A u \in Users : ~Flagging(t, u)
      BY <3>1 DEF Flagging, Uploading, Negotiating
    <3>4. \A v \in Users \ {t}, u \in Users : Flagging(v, u) => Flagging(v, u)'
      BY <3>2 DEF Flagging
    <3>5. QED  BY <1>2, <3>2, <3>3, <3>4, FlagsStay
  <2>7. CASE AcceptorStep
    <3>1. UNCHANGED isTransfering /\ \A v \in Users : pc'[v] = pc[v] /\ target'[v] = target[v]
      BY <1>2, <2>7 DEF AcceptorStep, AcceptorTest, SelectTimesOut, Accept,
           ExchangeKeys,
         HandshakeFails, AddUser, ReceiveName, LoginLost, CheckName, AnswerName,
         SetName,
         PushHandler, Moves, Goto, userVars, locals, TypeOK, PcTypeOK, StackTypeOK
    <3>2. QED  BY <1>2, <3>1, SameFlags
  <2>8. QED
    BY <1>2, <2>1, <2>2, <2>3, <2>4, <2>5, <2>6, <2>7, NextCases
<1>3. QED
  BY <1>1, <1>2, Invariance, PTL DEF Spec

-----------------------------------------------------------------------------
(* The recipient's decision and the uploader's future. *)

(* The places where a thread takes part in a transfer or decides one.      *)
Involved == Uploading \cup {"decide", "parked"}

(* A step that is no part of any transfer.                                 *)
Quiet ==
    /\ \A v \in Users : pc[v] \in Involved \/ pc'[v] \in Involved =>
           pc'[v] = pc[v] /\ target'[v] = target[v]
    /\ UNCHANGED <<isTransfering, decision, futureTaken>>
    /\ freed \subseteq freed'

(* Commands and broadcasts are no part of a transfer.                      *)
LEMMA CommandQuiet ==
    ASSUME TypeOK, NEW t \in Users, CommandStep(t) \/ BroadcastStep(t), pc[t] \notin Uploading
    PROVE  Quiet
<1>0. Keeps(t) /\ t \in DOMAIN pc
  BY CommandKeeps, BroadcastKeeps, NamesApart DEF TypeOK, PcTypeOK
<1>1. UNCHANGED <<isTransfering, decision, futureTaken>>
  BY DEF CommandStep, Quit, ListUsers, ListCommands, WhisperSocket, WhisperUser, Utter,
     BroadcastStep, BeginBroadcast, Scan, SendOne, EndBroadcast, Moves, userVars
<1>2. freed \subseteq freed'
  BY DEF CommandStep, Quit, removeUser, ListUsers, ListCommands, WhisperSocket, WhisperUser,
     Utter, BroadcastStep, BeginBroadcast, Scan, SendOne, EndBroadcast, Moves, serverVars,
     registryVars
<1>3. pc[t] \notin Involved /\ pc'[t] \notin Involved
  <2> USE <1>0 DEF Involved, Uploading, Negotiating, Handling, Goto, Moves, BackToLoop
  <2>1. CASE Utter(t)
    <3>1. pc[t] \in {"reply", "unfound", "whisper", "invalid"} /\ Utterance(t).next = "loop"
      BY <2>1 DEF Utter, Saying, Utterance
    <3>2. QED  BY <2>1, <3>1 DEF Utter
  <2>2. CASE CommandStep(t) /\ ~Utter(t)
    BY <2>2 DEF CommandStep, Quit, ListUsers, ListCommands, WhisperSocket, WhisperUser
  <2>3. CASE BroadcastStep(t)
    BY <2>3 DEF BroadcastStep, BeginBroadcast, Scan, SendOne, EndBroadcast
  <2>4. QED  BY <2>1, <2>2, <2>3
<1>4. QED  BY <1>0, <1>1, <1>2, <1>3, NamesApart DEF Quiet, Keeps

(* The loop of a handler is no part of a transfer but where it decides.    *)
LEMMA LoopQuiet ==
    ASSUME TypeOK, NEW t \in Users,
           \/ TestQuit(t) \/ ReceiveThrows(t) \/ Catch(t)
           \/ Receive(t) /\ ~isTransfering[t]
    PROVE  Quiet
<1>0. Keeps(t) /\ t \in DOMAIN pc /\ UNCHANGED freed
  BY LoopKeeps, NamesApart DEF TypeOK, PcTypeOK, LoopStep
<1>1. UNCHANGED <<isTransfering, decision, futureTaken>>
  BY DEF TestQuit, ReceiveThrows, Catch, Receive, Moves, userVars
<1>2. pc[t] \notin Involved /\ pc'[t] \notin Involved
  BY <1>0 DEF Involved, Uploading, Negotiating, TestQuit, ReceiveThrows, Catch, Receive, Moves,
     Goto
<1>3. QED  BY <1>0, <1>1, <1>2, NamesApart DEF Quiet, Keeps

(* Whatever other threads and the clients do is no part of a transfer.     *)
LEMMA OthersQuiet ==
    ASSUME IInv,
           \/ \E u \in Users : Say(u) \/ (u \in Clients /\ ClientStep(u))
           \/ MainStep \/ SpuriousWakeup \/ (\E u \in Users : UseAfterFree(u) \/ BadErrorText(u))
           \/ HostStep \/ StartTask \/ AcceptorStep \/ UNCHANGED vars
    PROVE  Quiet
<1> USE NamesApart DEF Involved, Uploading, Negotiating
<1>0. TypeOK /\ Lifecycle
  BY DEF IInv
<1>1. CASE \E u \in Users : Say(u) \/ (u \in Clients /\ ClientStep(u))
  <2>1. UNCHANGED <<isTransfering, decision, futureTaken>>
    BY <1>1 DEF Say, ClientStep, Connect, TryName, HearAnswer, HangUp, Break, userVars
  <2>2. QED  BY <1>0, <1>1, <2>1, ClientBystands DEF Bystands, Quiet
<1>2. CASE MainStep \/ SpuriousWakeup \/ (\E u \in Users : UseAfterFree(u) \/ BadErrorText(u))
  <2>1. UNCHANGED <<isTransfering, decision, futureTaken>>
    BY <1>2 DEF MainStep, MainChecks, MainBlocks, MainJoins, SpuriousWakeup, UseAfterFree,
       BadErrorText, Moves, userVars
  <2>2. QED  BY <1>0, <1>2, <2>1, MainBystands DEF Bystands, Quiet
<1>3. CASE HostStep
  <2>1. /\ pc[Host] \notin Involved /\ pc'[Host] \notin Involved
        /\ UNCHANGED <<isTransfering, decision, futureTaken>>
    BY <1>0, <1>3 DEF HostStep, RaiseShouldQuit, NotifyMain, Goto, userVars, TypeOK, PcTypeOK
  <2>2. QED  BY <1>0, <1>3, <2>1, HostKeeps DEF Quiet, Keeps
<1>4. CASE StartTask
  <2> DEFINE t == Head(taskQueue)
  <2>1. t \in Threads /\ pc[t] = "idle"
    BY <1>0, <1>4 DEF StartTask, TypeOK, Lifecycle, WaitingTasks
  <2>2. /\ UNCHANGED <<isTransfering, decision, futureTaken, target, freed>>
        /\ \A v \in Users \ {t} : pc'[v] = pc[v]
        /\ pc'[t] \in {"test", "loop"}
    BY <1>0, <1>4, <2>1 DEF StartTask, Goto, userVars, serverVars, registryVars, locals,
       TypeOK, PcTypeOK
  <2> HIDE DEF t
  <2>3. QED  BY <2>1, <2>2 DEF Quiet
<1>5. CASE AcceptorStep
  <2>1. /\ UNCHANGED <<isTransfering, decision, futureTaken>>
        /\ \A v \in Users : pc'[v] = pc[v] /\ target'[v] = target[v]
    BY <1>0, <1>5 DEF AcceptorStep, AcceptorTest, SelectTimesOut, Accept, ExchangeKeys,
       HandshakeFails, AddUser, ReceiveName, LoginLost, CheckName, AnswerName, SetName,
       PushHandler, Moves, Goto, userVars, locals, TypeOK, PcTypeOK, StackTypeOK
  <2>2. freed \subseteq freed'
    BY <1>5 DEF AcceptorStep, AcceptorTest, SelectTimesOut, Accept, ExchangeKeys,
       HandshakeFails, AddUser, ReceiveName, LoginLost, CheckName, AnswerName, SetName,
       PushHandler, Moves, serverVars, registryVars
  <2>3. QED  BY <2>1, <2>2 DEF Quiet
<1>6. CASE UNCHANGED vars
  BY <1>6 DEF vars, userVars, serverVars, registryVars, locals, Quiet
<1>7. QED  BY <1>1, <1>2, <1>3, <1>4, <1>5, <1>6

(* Who takes part in a transfer has a recipient, another User.             *)
HasRecipient == \A t \in Users : pc[t] \in Uploading => target[t] \in Users \ {t}

Waits(t, u) == pc[t] = "await" /\ target[t] = u

(* A future is taken exactly while one thread waits for it.                *)
OneAtATime ==
    \A u \in Users \ freed :
        /\ futureTaken[u] <=> \E t \in Users : Waits(t, u)
        /\ \A t, v \in Users : Waits(t, u) /\ Waits(v, u) => t = v

(* From its mark to the end of its transfer, t has u as its recipient.     *)
Toward(t, u) == pc[t] \in Negotiating /\ target[t] = u

(* It has asked u, or is about to, and has no decision yet.                *)
Open(t, u) == pc[t] \in {"markSelf", "request", "get", "await"} /\ target[t] = u

(* Uploads to one recipient do not overlap.                                *)
RecipientsApart ==
    \A t, v \in Users :
        /\ pc[t] \in Negotiating \cup {"markThem"} /\ pc[v] \in Negotiating \cup {"markThem"}
        /\ target[t] = target[v]
        => t = v

(* A recipient that decides or has decided is marked.                      *)
FlagUp ==
    \A t, u \in Users : Toward(t, u) /\ pc[u] \in {"decide", "parked"} => isTransfering[u]

(* Whoever is about to decide has been asked and has not decided.          *)
Deciding ==
    \A u \in Users \ freed :
        pc[u] = "decide" => decision[u] = "none" /\ \E t \in Users : Open(t, u)

(* Whoever is looked up has no decision left over.                         *)
Clean ==
    \A t \in Users :
        pc[t] = "markThem" => decision[target[t]] = "none" /\ pc[target[t]] # "decide"

(* From its decision to the end of the transfer the recipient is parked,   *)
(* and a transfer fails only if its recipient is gone.                     *)
ParkedUntil ==
    \A t \in Users :
        /\ Open(t, target[t]) /\ decision[target[t]] # "none" => pc[target[t]] = "parked"
        /\ pc[t] \in {"approved1", "approved2", "info", "stream", "denied1", "denied2"}
               => pc[target[t]] = "parked"
        /\ pc[t] \in {"failed1", "failed2", "report"} => target[t] \in freed
        /\ pc[t] = "unmarkThem" => pc[target[t]] = "parked" \/ target[t] \in freed

(* A decision that has been set is about to be read.                       *)
Kept ==
    \A u \in Users \ freed : decision[u] # "none" => \E t \in Users : Open(t, u)

HandInv == FlagUp /\ Deciding /\ Clean /\ ParkedUntil /\ Kept

(* What a step must show.                                                  *)
HandSound ==
    /\ HasRecipient' /\ OneAtATime'
    /\ HandInv /\ RecipientsApart /\ RecipientsApart' => HandInv'

(* What is no part of a transfer disturbs none.                            *)
LEMMA QuietSound ==
    ASSUME HasRecipient, OneAtATime, Quiet
    PROVE  HandSound
<1> USE DEF Quiet, Involved, Uploading, Negotiating
<1>1. HasRecipient'
  BY DEF HasRecipient
<1>2. \A t, u : t \in Users => (Waits(t, u)' <=> Waits(t, u))
  BY DEF Waits
<1>3. OneAtATime'
  BY <1>2 DEF OneAtATime
<1>4. \A t, u \in Users : (Toward(t, u)' <=> Toward(t, u)) /\ (Open(t, u)' <=> Open(t, u))
  BY DEF Toward, Open
<1>5. ASSUME HandInv  PROVE HandInv'
  <2>1. FlagUp' /\ Deciding' /\ Kept'
    BY <1>4, <1>5 DEF HandInv, FlagUp, Deciding, Kept
  <2>2. Clean'
    BY <1>5 DEF HandInv, Clean, HasRecipient
  <2>3. ParkedUntil'
    BY <1>5 DEF HandInv, ParkedUntil, HasRecipient, Open
  <2>4. QED  BY <2>1, <2>2, <2>3 DEF HandInv
<1>6. QED  BY <1>1, <1>3, <1>5 DEF HandSound

(* Thread t goes to l in its transfer, and nobody else moves.              *)
Goes(t, l) ==
    /\ pc'[t] = l /\ target'[t] = target[t] /\ freed' = freed
    /\ \A v \in Users \ {t} : pc'[v] = pc[v] /\ target'[v] = target[v]

(* How a step of a thread moves it, when it keeps its locals.              *)
LEMMA GoesIs ==
    ASSUME TypeOK, NEW t \in Users, NEW l, Goto(t, l), UNCHANGED <<target, freed>>
    PROVE  Goes(t, l)
BY NamesApart DEF Goes, Goto, TypeOK, PcTypeOK

(* The recipient's thread in its loop.                                     *)
LEMMA DecidingSound ==
    ASSUME TypeOK, HasRecipient, OneAtATime, NoFlagLeftBehind, NEW t \in Users,
           \/ Receive(t) /\ isTransfering[t]
           \/ Decide(t) \/ DecideThrows(t) \/ wait_completeTransfer(t)
    PROVE  HandSound
<1> USE DEF Uploading, Negotiating
<1>0. /\ decision \in [Users -> {"none", "yes", "no"}] /\ isTransfering \in [Users -> BOOLEAN]
      /\ t \in DOMAIN pc /\ UNCHANGED <<isTransfering, futureTaken, freed>>
      /\ \A v \in Users \ {t} : pc'[v] = pc[v] /\ target'[v] = target[v]
  <2>1. LoopStep(t)
    BY DEF LoopStep
  <2>2. UNCHANGED <<isTransfering, futureTaken>>
    BY DEF Receive, Decide, DecideThrows, wait_completeTransfer, userVars
  <2>3. QED  BY <2>1, <2>2, LoopKeeps, NamesApart DEF Keeps, TypeOK, PcTypeOK, UserTypeOK
<1>1. pc[t] \in {"recv", "decide", "parked"} /\ pc'[t] \in {"decide", "parked", "catch", "loop"}
  <2> USE <1>0 DEF Goto
  <2>1. CASE Receive(t) /\ isTransfering[t]      BY <2>1 DEF Receive
  <2>2. CASE Decide(t)                 BY <2>2 DEF Decide
  <2>3. CASE DecideThrows(t) /\ t = Host  BY <2>3 DEF DecideThrows
  <2>4. CASE DecideThrows(t) /\ t # Host  BY <2>4 DEF DecideThrows
  <2>5. CASE wait_completeTransfer(t)  BY <2>5 DEF wait_completeTransfer, BackToLoop
  <2>6. QED  BY <2>1, <2>2, <2>3, <2>4, <2>5
<1>2. HasRecipient'
  BY <1>0, <1>1 DEF HasRecipient
<1>3. \A v, u : v \in Users => (Waits(v, u)' <=> Waits(v, u))
  BY <1>0, <1>1 DEF Waits
<1>4. OneAtATime'
  BY <1>0, <1>3 DEF OneAtATime
<1>5. \A v, u \in Users : (Toward(v, u)' <=> Toward(v, u)) /\ (Open(v, u)' <=> Open(v, u))
  BY <1>0, <1>1 DEF Toward, Open
<1>6. ASSUME HandInv, RecipientsApart, RecipientsApart'  PROVE HandInv'
  <2> USE DEF HandInv
  <2>1. CASE Receive(t) /\ isTransfering[t]
    <3>1. pc[t] = "recv" /\ pc'[t] = "decide" /\ UNCHANGED decision
      BY <1>0, <2>1 DEF Receive, Goto, userVars
    <3>2. PICK v \in Users : Toward(v, t)
      BY <2>1, <3>1 DEF NoFlagLeftBehind, Flagging, Toward
    <3>3. t \notin freed => Open(v, t)
      BY <1>6, <3>1, <3>2 DEF Toward, Open, ParkedUntil
    <3>4. FlagUp'
      BY <1>0, <1>5, <1>6, <2>1, <3>1 DEF FlagUp
    <3>5. t \notin freed => decision[t] = "none"
      BY <1>0, <1>6, <3>1, <3>2, <3>3 DEF ParkedUntil, Open
    <3>6. Deciding' /\ Kept'
      BY <1>0, <1>5, <1>6, <3>1, <3>3, <3>5 DEF Deciding, Kept
    <3>7. Clean'
      <4>1. \A w \in Users : pc[w] = "markThem" => target[w] # t
        BY <1>6, <3>2 DEF RecipientsApart, Toward
      <4>2. QED  BY <1>0, <1>6, <3>1, <4>1 DEF Clean, HasRecipient
    <3>8. ParkedUntil'
      BY <1>0, <1>6, <3>1 DEF ParkedUntil, HasRecipient, Open
    <3>9. QED  BY <3>4, <3>6, <3>7, <3>8
  <2>2. CASE Decide(t)
    <3>1. PICK y \in {"yes", "no"} : /\ pc[t] = "decide" /\ pc'[t] = "parked"
                                     /\ decision' = [decision EXCEPT ![t] = y]
      BY <1>0, <2>2 DEF Decide, setTransferDecision, Goto
    <3>2. decision'[t] = y /\ \A u \in Users \ {t} : decision'[u] = decision[u]
      BY <1>0, <3>1
    <3>3. FlagUp'
      BY <1>0, <1>5, <1>6, <3>1 DEF FlagUp
    <3>4. Deciding' /\ Kept'
      BY <1>0, <1>5, <1>6, <3>1, <3>2 DEF Deciding, Kept
    <3>5. Clean'
      BY <1>0, <1>6, <3>1, <3>2 DEF Clean, HasRecipient
    <3>6. ParkedUntil'
      BY <1>0, <1>6, <3>1, <3>2 DEF ParkedUntil, HasRecipient, Open
    <3>7. QED  BY <3>3, <3>4, <3>5, <3>6
  <2>3. CASE DecideThrows(t)
    <3>1. pc[t] = "decide" /\ pc'[t] \in {"decide", "catch"} /\ UNCHANGED decision
      BY <1>0, <2>3 DEF DecideThrows, Goto, userVars
    <3>2. QED
      BY <1>0, <1>5, <1>6, <3>1 DEF FlagUp, Deciding, Kept, Clean, ParkedUntil, HasRecipient, Open
  <2>4. CASE wait_completeTransfer(t)
    <3>1. pc[t] = "parked" /\ pc'[t] = "loop" /\ ~isTransfering[t] /\ UNCHANGED decision
      BY <1>0, <2>4 DEF wait_completeTransfer, BackToLoop, Goto, userVars
    <3>2. \A v \in Users : ~Toward(v, t)
      BY <1>6, <3>1 DEF FlagUp
    <3>3. FlagUp' /\ Deciding' /\ Kept' /\ Clean'
      BY <1>0, <1>5, <1>6, <3>1 DEF FlagUp, Deciding, Kept, Clean, HasRecipient
    <3>4. ParkedUntil'
      BY <1>0, <1>6, <3>1, <3>2 DEF ParkedUntil, HasRecipient, Open, Toward
    <3>5. QED  BY <3>3, <3>4
  <2>5. QED  BY <2>1, <2>2, <2>3, <2>4
<1>7. QED  BY <1>2, <1>4, <1>6 DEF HandSound

(* A step within a transfer that changes no flag, decision or future.      *)
LEMMA PassingSound ==
    ASSUME TypeOK, HasRecipient, OneAtATime, NEW t \in Users, NEW l, Goes(t, l),
           UNCHANGED <<isTransfering, decision, futureTaken>>,
           \/ pc[t] = "request" /\ l = "get"
           \/ pc[t] \in {"approved1", "approved2", "info", "denied1"}
              /\ l \in {"approved2", "info", "stream", "denied2"}
           \/ pc[t] \in {"info", "stream", "denied2", "report"} /\ l = "unmarkThem"
           \/ pc[t] \in {"failed1", "failed2"} /\ l \in {"failed2", "report"}
    PROVE  HandSound
<1> USE DEF Goes, Uploading, Negotiating
<1>1. HasRecipient'
  BY DEF HasRecipient
<1>2. \A v, u : v \in Users => (Waits(v, u)' <=> Waits(v, u))
  BY DEF Waits
<1>3. OneAtATime'
  BY <1>2 DEF OneAtATime
<1>4. \A v, u \in Users : (Toward(v, u)' <=> Toward(v, u)) /\ (Open(v, u)' <=> Open(v, u))
  BY DEF Toward, Open
<1>5. ASSUME HandInv  PROVE HandInv'
  <2>1. FlagUp' /\ Deciding' /\ Kept' /\ Clean'
    BY <1>4, <1>5 DEF HandInv, FlagUp, Deciding, Kept, Clean, HasRecipient
  <2>2. ParkedUntil'
    BY <1>5 DEF HandInv, ParkedUntil, HasRecipient, Open
  <2>3. QED  BY <2>1, <2>2 DEF HandInv
<1>6. QED  BY <1>1, <1>3, <1>5 DEF HandSound

(* fileTransfer looks its recipient up.                                    *)
LEMMA LookUpSound ==
    ASSUME IInv, HasRecipient, OneAtATime, NEW t \in Users, LookUp(t)
    PROVE  HandSound
<1> USE DEF Uploading, Negotiating
<1> DEFINE r == findUserByUsername(msg[t].arg)
<1>0. /\ TypeOK /\ users \in Seq(Users) /\ pc[t] = "dispatch"
      /\ UNCHANGED <<isTransfering, decision, futureTaken, freed>>
  BY DEF LookUp, Handling, IInv, TypeOK, ServerTypeOK, userVars, serverVars, registryVars
<1>1. \A v \in Users \ {t} : pc'[v] = pc[v] /\ target'[v] = target[v]
  <2>1. TransferStep(t)
    BY DEF TransferStep
  <2>2. QED  BY <1>0, <2>1, TransferKeeps, NamesApart DEF Keeps
<1>2. CASE r = Nobody \/ Same(r, t)
  <2>1. pc'[t] = "invalid"
    BY <1>0, <1>2, NamesApart DEF LookUp, Goto, TypeOK, PcTypeOK
  <2>2. QED  BY <1>0, <1>1, <2>1, QuietSound DEF Quiet, Involved
<1>3. CASE ~(r = Nobody \/ Same(r, t))
  <2>1. pc'[t] = "markThem" /\ target'[t] = r
    BY <1>0, <1>3, NamesApart DEF LookUp, Goto, TypeOK, PcTypeOK, StackTypeOK
  <2>2. r \in Registered /\ r \in Users /\ r \notin freed /\ r # t
    <3> DEFINE I == {i \in DOMAIN users : username[users[i]] = msg[t].arg}
    <3>1. r = FirstOf(I) /\ I # {} /\ I \in SUBSET DOMAIN users
      BY <1>3 DEF findUserByUsername, FirstOf
    <3> HIDE DEF I
    <3>2. r \in Users /\ r \in Registered
      BY <1>0, <3>1, FirstOfIsIn DEF Registered, ToSet
    <3>3. QED  BY <1>3, <3>2 DEF IInv, RegistryConsistent, Same
  <2> HIDE DEF r
  <2>3. HasRecipient'
    BY <1>0, <1>1, <2>1, <2>2 DEF HasRecipient
  <2>4. \A v, u : v \in Users => (Waits(v, u)' <=> Waits(v, u))
    BY <1>0, <1>1, <2>1 DEF Waits
  <2>5. OneAtATime'
    BY <1>0, <2>4 DEF OneAtATime
  <2>6. \A v, u \in Users : (Toward(v, u)' <=> Toward(v, u)) /\ (Open(v, u)' <=> Open(v, u))
    BY <1>0, <1>1, <2>1 DEF Toward, Open
  <2>7. ASSUME HandInv, RecipientsApart'  PROVE HandInv'
    <3> USE <2>7 DEF HandInv
    <3>1. FlagUp' /\ Deciding' /\ Kept'
      BY <1>0, <1>1, <2>1, <2>6 DEF FlagUp, Deciding, Kept
    <3>2. \A v \in Users : ~Open(v, r)
      BY <1>0, <1>1, <2>1 DEF RecipientsApart, Open
    <3>3. decision[r] = "none" /\ pc[r] # "decide"
      BY <2>2, <3>2 DEF Deciding, Kept
    <3>4. Clean'
      BY <1>0, <1>1, <2>1, <2>2, <3>3 DEF Clean, HasRecipient
    <3>5. ParkedUntil'
      BY <1>0, <1>1, <2>1 DEF ParkedUntil, HasRecipient, Open
    <3>6. QED  BY <3>1, <3>4, <3>5
  <2>8. QED  BY <2>3, <2>5, <2>7 DEF HandSound
<1>4. QED  BY <1>2, <1>3

(* The marks and what takes them back.                                     *)
LEMMA MarkingSound ==
    ASSUME TypeOK, HasRecipient, OneAtATime, NEW t \in Users,
           MarkThem(t) \/ MarkSelf(t) \/ UnmarkThem(t) \/ UnmarkSelf(t)
    PROVE  HandSound
<1> USE DEF Uploading, Negotiating
<1> DEFINE r == target[t]
<1>0. /\ isTransfering \in [Users -> BOOLEAN] /\ t \in DOMAIN pc
      /\ UNCHANGED <<decision, futureTaken, freed>>
      /\ \A v \in Users \ {t} : pc'[v] = pc[v] /\ target'[v] = target[v]
  <2>1. TransferStep(t)
    BY DEF TransferStep
  <2>2. UNCHANGED <<decision, futureTaken>>
    BY DEF MarkThem, MarkSelf, UnmarkThem, UnmarkSelf
  <2>3. QED
    BY <2>1, <2>2, TransferKeeps, NamesApart DEF Keeps, TypeOK, PcTypeOK, UserTypeOK
<1>1. /\ pc[t] \in {"markThem", "markSelf", "unmarkThem", "unmarkSelf"}
      /\ r \in Users \ {t}
  BY DEF MarkThem, MarkSelf, UnmarkThem, UnmarkSelf, HasRecipient
<1>2. \/ pc'[t] \in {"markSelf", "request", "unmarkSelf"} /\ target'[t] = r
      \/ pc'[t] = "loop"
  BY <1>0 DEF MarkThem, MarkSelf, UnmarkThem, UnmarkSelf, Goto, BackToLoop, locals
<1>3. HasRecipient'
  BY <1>0, <1>1, <1>2 DEF HasRecipient
<1>4. \A v, u : v \in Users => (Waits(v, u)' <=> Waits(v, u))
  BY <1>0, <1>1, <1>2 DEF Waits
<1>5. OneAtATime'
  BY <1>0, <1>4 DEF OneAtATime
<1>6. ASSUME HandInv, RecipientsApart  PROVE HandInv'
  <2> USE <1>6 DEF HandInv
  <2>1. CASE MarkThem(t)
    <3>1. /\ pc[t] = "markThem" /\ pc'[t] = "markSelf" /\ target'[t] = r
          /\ isTransfering' = [isTransfering EXCEPT ![r] = TRUE]
      BY <1>0, <2>1 DEF MarkThem, Goto, locals, signalStartOfTransfer
    <3> HIDE DEF r
    <3>2. isTransfering'[r] /\ \A u \in Users \ {r} : isTransfering'[u] = isTransfering[u]
      BY <1>0, <1>1, <3>1
    <3>3. /\ \A v, u \in Users : Toward(v, u)' => Toward(v, u) \/ u = r
          /\ \A v, u \in Users : Open(v, u) => Open(v, u)'
      BY <1>0, <3>1 DEF Toward, Open
    <3>4. FlagUp' /\ Deciding' /\ Kept'
      BY <1>0, <3>1, <3>2, <3>3 DEF FlagUp, Deciding, Kept
    <3>5. Clean' /\ ParkedUntil'
      BY <1>0, <1>1, <3>1 DEF Clean, ParkedUntil, HasRecipient, Open, r
    <3>6. QED  BY <3>4, <3>5
  <2>2. CASE MarkSelf(t)
    <3>1. /\ pc[t] = "markSelf" /\ pc'[t] = "request" /\ target'[t] = r
          /\ isTransfering' = [isTransfering EXCEPT ![t] = TRUE]
      BY <1>0, <2>2 DEF MarkSelf, Goto, locals, signalStartOfTransfer
    <3> HIDE DEF r
    <3>2. \A u \in Users \ {t} : isTransfering'[u] = isTransfering[u]
      BY <1>0, <3>1
    <3>3. \A v, u \in Users : (Toward(v, u)' <=> Toward(v, u)) /\ (Open(v, u) <=> Open(v, u)')
      BY <1>0, <3>1 DEF Toward, Open, r
    <3>4. FlagUp' /\ Deciding' /\ Kept'
      BY <1>0, <3>1, <3>2, <3>3 DEF FlagUp, Deciding, Kept
    <3>5. Clean' /\ ParkedUntil'
      BY <1>0, <1>1, <3>1 DEF Clean, ParkedUntil, HasRecipient, Open, r
    <3>6. QED  BY <3>4, <3>5
  <2>3. CASE UnmarkThem(t)
    <3>1. /\ pc[t] = "unmarkThem" /\ pc'[t] = "unmarkSelf" /\ target'[t] = r
          /\ isTransfering' = [isTransfering EXCEPT ![r] = FALSE]
      BY <1>0, <2>3 DEF UnmarkThem, Goto, locals, signalEndOfTransfer
    <3>0. \A v \in Users : Toward(v, r) => v = t
      BY <3>1 DEF RecipientsApart, Toward
    <3> HIDE DEF r
    <3>2. \A u \in Users \ {r} : isTransfering'[u] = isTransfering[u]
      BY <1>0, <3>1
    <3>3. /\ \A v, u \in Users : Toward(v, u)' => Toward(v, u) /\ v # t
          /\ \A v, u \in Users : Open(v, u) <=> Open(v, u)'
      BY <1>0, <3>1 DEF Toward, Open
    <3>4. FlagUp' /\ Deciding' /\ Kept'
      BY <1>0, <3>0, <3>1, <3>2, <3>3 DEF FlagUp, Deciding, Kept
    <3>5. Clean' /\ ParkedUntil'
      BY <1>0, <1>1, <3>1 DEF Clean, ParkedUntil, HasRecipient, Open, r
    <3>6. QED  BY <3>4, <3>5
  <2>4. CASE UnmarkSelf(t)
    <3>1. /\ pc[t] = "unmarkSelf" /\ pc'[t] = "loop"
          /\ isTransfering' = [isTransfering EXCEPT ![t] = FALSE]
      BY <1>0, <2>4 DEF UnmarkSelf, Goto, BackToLoop, signalEndOfTransfer
    <3>2. \A u \in Users \ {t} : isTransfering'[u] = isTransfering[u]
      BY <1>0, <3>1
    <3>3. \A v, u \in Users : (Toward(v, u)' <=> Toward(v, u)) /\ (Open(v, u) <=> Open(v, u)')
      BY <1>0, <3>1 DEF Toward, Open
    <3>4. FlagUp' /\ Deciding' /\ Kept'
      BY <1>0, <3>1, <3>2, <3>3 DEF FlagUp, Deciding, Kept
    <3>5. Clean' /\ ParkedUntil'
      BY <1>0, <3>1 DEF Clean, ParkedUntil, HasRecipient, Open
    <3>6. QED  BY <3>4, <3>5
  <2>5. QED  BY <2>1, <2>2, <2>3, <2>4
<1>7. QED  BY <1>3, <1>5, <1>6 DEF HandSound

(* awaitDecision: the future is taken, then the decision, or get() throws. *)
LEMMA AwaitSound ==
    ASSUME TypeOK, HasRecipient, OneAtATime, NEW t \in Users,
           AwaitDecision(t) \/ AwaitThrows(t) \/ Decided(t)
    PROVE  HandSound
<1> USE DEF Uploading, Negotiating
<1>1. PICK r \in Users : r = target[t] /\ r # t
  BY DEF AwaitDecision, AwaitThrows, Decided, HasRecipient
<1>2. /\ decision \in [Users -> {"none", "yes", "no"}] /\ futureTaken \in [Users -> BOOLEAN]
      /\ t \in DOMAIN pc /\ UNCHANGED <<isTransfering, freed>> /\ target'[t] = r
      /\ \A v \in Users \ {t} : pc'[v] = pc[v] /\ target'[v] = target[v]
  <2>1. TransferStep(t)
    BY DEF TransferStep
  <2>2. UNCHANGED <<isTransfering, target>>
    BY DEF AwaitDecision, AwaitThrows, Decided, Moves, userVars, locals
  <2>3. QED
    BY <1>1, <2>1, <2>2, TransferKeeps, NamesApart DEF Keeps, TypeOK, PcTypeOK, UserTypeOK
<1>3. pc[t] \in {"get", "await"}
  BY DEF AwaitDecision, AwaitThrows, Decided
<1>4. pc'[t] \in {"await", "failed1", "approved1", "denied1"}
  BY <1>2 DEF AwaitDecision, AwaitThrows, Decided, Goto, Moves
<1>5. HasRecipient'
  BY <1>2, <1>1, <1>4, <1>3 DEF HasRecipient
<1>6. \A v, u : v \in Users /\ v # t => (Waits(v, u)' <=> Waits(v, u))
  BY <1>2 DEF Waits
<1>7. \A u \in Users : u # r => ~Waits(t, u) /\ ~Waits(t, u)'
  BY <1>2, <1>1 DEF Waits
<1>8. \A v, u \in Users : v # t => /\ Toward(v, u)' <=> Toward(v, u)
                                   /\ Open(v, u)' <=> Open(v, u)
  BY <1>2 DEF Toward, Open
<1>9. \A u \in Users : u # r => ~Toward(t, u)' /\ ~Open(t, u) /\ ~Open(t, u)'
  BY <1>2, <1>1 DEF Toward, Open
<1>10. Toward(t, r)
  BY <1>1, <1>3 DEF Toward
<1>11. CASE AwaitDecision(t)
  <2>1. /\ pc[t] = "get" /\ pc'[t] = "await" /\ UNCHANGED decision
        /\ ~futureTaken[r] /\ futureTaken' = [futureTaken EXCEPT ![r] = TRUE]
    BY <1>2, <1>1, <1>11 DEF AwaitDecision, takeFuture, Goto
  <2>2. Open(t, r)' /\ Open(t, r) /\ Waits(t, r)'
    BY <1>2, <1>1, <2>1 DEF Open, Waits
  <2>3. futureTaken'[r] /\ \A u \in Users \ {r} : futureTaken'[u] = futureTaken[u]
    BY <1>2, <1>1, <2>1
  <2>4. OneAtATime'
    BY <1>2, <1>1, <1>6, <1>7, <2>1, <2>2, <2>3 DEF OneAtATime
  <2>5. ASSUME HandInv  PROVE HandInv'
    <3> USE <2>5 DEF HandInv
    <3>1. FlagUp' /\ Deciding' /\ Kept'
      BY <1>2, <1>8, <1>9, <1>10, <2>1, <2>2 DEF FlagUp, Deciding, Kept
    <3>2. Clean'
      BY <1>2, <1>1, <2>1 DEF Clean, HasRecipient
    <3>3. ParkedUntil'
      BY <1>2, <1>1, <2>1 DEF ParkedUntil, HasRecipient, Open
    <3>4. QED  BY <3>1, <3>2, <3>3
  <2>6. QED  BY <1>5, <2>4, <2>5 DEF HandSound
<1>12. CASE AwaitThrows(t)
  <2>1. /\ pc'[t] = "failed1" /\ UNCHANGED <<decision, futureTaken>>
        /\ \/ pc[t] = "get" /\ futureTaken[r]
           \/ pc[t] = "await" /\ r \in freed
    BY <1>2, <1>1, <1>12 DEF AwaitThrows, Moves, Goto, userVars
  <2>2. ~Open(t, r)' /\ ~Waits(t, r)' /\ (Waits(t, r) => r \in freed)
    BY <1>2, <1>1, <2>1 DEF Open, Waits
  <2>3. OneAtATime'
    BY <1>2, <1>1, <1>6, <1>7, <2>1, <2>2 DEF OneAtATime
  <2>4. ASSUME HandInv, RecipientsApart  PROVE HandInv'
    <3> USE <2>4 DEF HandInv
    <3>0. r \in freed
      <4>1. CASE pc[t] = "get" /\ futureTaken[r] /\ r \notin freed
        <5>1. PICK v \in Users : Waits(v, r)
          BY <1>1, <4>1 DEF OneAtATime
        <5>2. QED  BY <1>1, <4>1, <5>1 DEF RecipientsApart, Waits
      <4>2. QED  BY <2>1, <4>1
    <3>1. FlagUp' /\ Deciding' /\ Kept'
      BY <1>2, <1>8, <1>9, <1>10, <2>1, <2>2, <3>0 DEF FlagUp, Deciding, Kept
    <3>2. Clean'
      BY <1>2, <1>1, <2>1 DEF Clean, HasRecipient
    <3>3. ParkedUntil'
      BY <1>2, <1>1, <2>1, <3>0 DEF ParkedUntil, HasRecipient, Open
    <3>4. QED  BY <3>1, <3>2, <3>3
  <2>5. QED  BY <1>5, <2>3, <2>4 DEF HandSound
<1>13. CASE Decided(t)
  <2>1. /\ pc[t] = "await" /\ pc'[t] \in {"approved1", "denied1"} /\ decision[r] # "none"
        /\ decision' = [decision EXCEPT ![r] = "none"]
        /\ futureTaken' = [futureTaken EXCEPT ![r] = FALSE]
    BY <1>2, <1>1, <1>13 DEF Decided, resetTransfer, Goto
  <2>2. Open(t, r) /\ ~Open(t, r)' /\ Waits(t, r) /\ ~Waits(t, r)'
    BY <1>2, <1>1, <2>1 DEF Open, Waits
  <2>3. /\ decision'[r] = "none" /\ ~futureTaken'[r]
        /\ \A u \in Users \ {r} : decision'[u] = decision[u] /\ futureTaken'[u] = futureTaken[u]
    BY <1>2, <1>1, <2>1
  <2>4. OneAtATime'
    BY <1>2, <1>1, <1>6, <1>7, <2>2, <2>3 DEF OneAtATime
  <2>5. ASSUME HandInv  PROVE HandInv'
    <3> USE <2>5 DEF HandInv
    <3>1. pc[r] = "parked"
      BY <1>1, <2>1, <2>2 DEF ParkedUntil
    <3>2. FlagUp' /\ Deciding' /\ Kept'
      BY <1>2, <1>8, <1>9, <1>10, <2>1, <2>3, <3>1 DEF FlagUp, Deciding, Kept
    <3>3. Clean'
      BY <1>2, <1>1, <2>1, <2>3 DEF Clean, HasRecipient
    <3>4. ParkedUntil'
      BY <1>2, <1>1, <2>1, <2>3, <3>1 DEF ParkedUntil, HasRecipient, Open
    <3>5. QED  BY <3>2, <3>3, <3>4
  <2>6. QED  BY <1>5, <2>4, <2>5 DEF HandSound
<1>14. QED  BY <1>11, <1>12, <1>13

(* Every step keeps the invariant of the transfers.                        *)
LEMMA TransferSound ==
    ASSUME IInv, NoFlagLeftBehind, HasRecipient, OneAtATime, [Next]_vars
    PROVE  HandSound
<1>0. TypeOK
  BY DEF IInv
<1>1. ASSUME NEW t \in Users, HandlerStep(t)  PROVE HandSound
  <2>1. CASE LoopStep(t)
    <3>1. CASE TestQuit(t) \/ ReceiveThrows(t) \/ Catch(t) \/ (Receive(t) /\ ~isTransfering[t])
      BY <1>0, <3>1, LoopQuiet, QuietSound
    <3>2. CASE (Receive(t) /\ isTransfering[t]) \/ Decide(t) \/ DecideThrows(t)
               \/ wait_completeTransfer(t)
      BY <1>0, <3>2, DecidingSound
    <3>3. QED  BY <2>1, <3>1, <3>2 DEF LoopStep
  <2>2. CASE (CommandStep(t) \/ BroadcastStep(t)) /\ pc[t] \notin Uploading
    BY <1>0, <2>2, CommandQuiet, QuietSound
  <2>3. CASE (CommandStep(t) \/ BroadcastStep(t)) /\ pc[t] \in Uploading
    <3>1. Utter(t) /\ pc[t] \in Saying
      BY <2>3 DEF CommandStep, Quit, ListUsers, ListCommands, WhisperSocket, WhisperUser,
         BroadcastStep, BeginBroadcast, Scan, SendOne, EndBroadcast, Handling, Utter,
         Uploading, Negotiating
    <3>2. pc[t] \in {"request", "approved1", "approved2", "denied1", "denied2", "failed1",
                     "failed2"}
      BY <2>3, <3>1 DEF Saying, Uploading, Negotiating
    <3>3. /\ Utterance(t).next # "loop"
          /\ \/ pc[t] = "request" /\ Utterance(t).next = "get"
             \/ /\ pc[t] \in {"approved1", "approved2", "info", "denied1"}
                /\ Utterance(t).next \in {"approved2", "info", "stream", "denied2"}
             \/ pc[t] \in {"info", "stream", "denied2", "report"}
                /\ Utterance(t).next = "unmarkThem"
             \/ pc[t] \in {"failed1", "failed2"} /\ Utterance(t).next \in {"failed2", "report"}
      BY <3>2 DEF Utterance
    <3>4. /\ Goto(t, Utterance(t).next) /\ UNCHANGED <<target, freed>>
          /\ UNCHANGED <<isTransfering, decision, futureTaken>>
      BY <3>1, <3>3 DEF Utter, locals, userVars, registryVars
    <3>5. Goes(t, Utterance(t).next)
      BY <1>0, <3>4, GoesIs
    <3> HIDE DEF Utterance
    <3>6. QED  BY <1>0, <3>3, <3>4, <3>5, PassingSound
  <2>4. CASE TransferStep(t)
    <3>1. CASE LookUp(t)
      BY <3>1, LookUpSound
    <3>2. CASE MarkThem(t) \/ MarkSelf(t) \/ UnmarkThem(t) \/ UnmarkSelf(t)
      BY <1>0, <3>2, MarkingSound
    <3>3. CASE AwaitDecision(t) \/ AwaitThrows(t) \/ Decided(t)
      BY <1>0, <3>3, AwaitSound
    <3>4. CASE SendInfo(t) \/ Resume(t)
      <4>1. PICK l \in {"stream", "unmarkThem"} :
              /\ Goto(t, l) /\ UNCHANGED <<target, freed, isTransfering, decision, futureTaken>>
              /\ \/ pc[t] = "info"
                 \/ pc[t] \in {"stream", "report"} /\ l = "unmarkThem"
        BY <3>4 DEF SendInfo, Resume, Moves, locals, userVars, serverVars, registryVars
      <4>2. Goes(t, l)
        BY <1>0, <4>1, GoesIs
      <4>3. QED  BY <1>0, <4>1, <4>2, PassingSound
    <3>5. QED  BY <2>4, <3>1, <3>2, <3>3, <3>4 DEF TransferStep
  <2>5. QED  BY <1>1, <2>1, <2>2, <2>3, <2>4 DEF HandlerStep
<1>2. CASE \/ \E u \in Users : Say(u) \/ (u \in Clients /\ ClientStep(u))
           \/ MainStep \/ SpuriousWakeup \/ (\E u \in Users : UseAfterFree(u) \/ BadErrorText(u))
           \/ HostStep \/ StartTask \/ AcceptorStep \/ UNCHANGED vars
  BY <1>2, OthersQuiet, QuietSound
<1>3. QED  BY <1>1, <1>2, NextCases

(* In the beginning nobody transfers anything.                             *)
LEMMA HandInit == Init => HasRecipient /\ OneAtATime /\ HandInv
<1> SUFFICES ASSUME Init  PROVE HasRecipient /\ OneAtATime /\ HandInv
  OBVIOUS
<1>1. \A t \in Users : pc[t] = "idle" /\ decision[t] = "none" /\ ~futureTaken[t]
  BY NamesApart DEF Init, UserInit
<1>2. QED
  BY <1>1 DEF HasRecipient, OneAtATime, Waits, HandInv, FlagUp, Deciding, Clean, ParkedUntil,
     Kept, Toward, Open, Uploading, Negotiating

(* Every uploader has another User as its recipient, and a future is taken *)
(* exactly while one thread waits for it.                                  *)
LEMMA HandsApart == Spec => [](IInv /\ NoFlagLeftBehind /\ HasRecipient /\ OneAtATime)
<1>1. IInv /\ NoFlagLeftBehind /\ HasRecipient /\ OneAtATime /\ [Next]_vars
        => (HasRecipient /\ OneAtATime)'
  BY TransferSound DEF HandSound
<1>2. Init => HasRecipient /\ OneAtATime
  BY HandInit
<1>3. QED  BY <1>1, <1>2, Invariance, FlagsTakenBack, PTL DEF Spec

(* However many uploads to one recipient overlap, its future serves one    *)
(* uploader at a time (awaitDecision, resetTransfer).                      *)
THEOREM OneWaits == Spec => []OneWaiter
<1>1. OneAtATime => OneWaiter
  <2> SUFFICES ASSUME OneAtATime, NEW u \in Users \ freed
               PROVE  LET W == { t \in Users : pc[t] = "await" /\ target[t] = u }
                      IN  Cardinality(W) = IF futureTaken[u] THEN 1 ELSE 0
    BY DEF OneWaiter
  <2> DEFINE W == { t \in Users : pc[t] = "await" /\ target[t] = u }
  <2>1. CASE futureTaken[u]
    <3>1. PICK t \in Users : Waits(t, u)
      BY <2>1 DEF OneAtATime
    <3>2. W = {t}
      BY <3>1 DEF OneAtATime, Waits
    <3>3. QED  BY <2>1, <3>2, FS_Singleton
  <2>2. CASE ~futureTaken[u]
    <3>1. W = {}
      BY <2>2 DEF OneAtATime, Waits
    <3>2. QED  BY <2>2, <3>1, FS_EmptySet
  <2>3. QED  BY <2>1, <2>2
<1>2. QED  BY <1>1, HandsApart, PTL

(* The invariant of the negotiation, as long as uploads to one recipient   *)
(* do not overlap.                                                         *)
LEMMA HandsHold == Spec /\ []RecipientsApart => []HandInv
<1>1. Init => HandInv
  BY HandInit
<1>2. /\ IInv /\ NoFlagLeftBehind /\ HasRecipient /\ OneAtATime /\ [Next]_vars
      /\ HandInv /\ RecipientsApart /\ RecipientsApart'
      => HandInv'
  BY TransferSound DEF HandSound
<1>3. QED  BY <1>1, <1>2, HandsApart, PTL DEF Spec

(* As long as uploads to one recipient do not overlap, the recipient's own *)
(* thread is parked while the verdict and the connection data go out       *)
(* (wait_completeTransfer), whatever else the recipient or others do.      *)
THEOREM RecipientWaits == Spec /\ []RecipientsApart => []RecipientParked
<1>1. HandInv => RecipientParked
  BY DEF HandInv, ParkedUntil, RecipientParked
<1>2. QED  BY <1>1, HandsHold, PTL

(* As long as uploads to one recipient do not overlap, a decision that has *)
(* been set is about to be read and none is left over for the next         *)
(* transfer (setTransferDecision, awaitDecision).                          *)
THEOREM DecisionRead == Spec /\ []RecipientsApart => []DecisionHandedOver
<1>1. HandInv => DecisionHandedOver
  BY DEF HandInv, Kept, Open, DecisionHandedOver
<1>2. QED  BY <1>1, HandsHold, PTL

-----------------------------------------------------------------------------
(* What sendMessage does to anybody's messages.                            *)
LEMMA SendGives ==
    ASSUME TypeOK, NEW u, NEW m, sendMessage(u, m), NEW v \in Users
    PROVE  outbox'[v] = IF v # Reached(u) THEN outbox[v]
                        ELSE Append(outbox[v], IF v = u THEN m ELSE [m EXCEPT !.kind = "garbled"])
<1> DEFINE c == Reached(u)
           got == IF c = u THEN m ELSE [m EXCEPT !.kind = "garbled"]
<1>1. outbox' = IF c = Nobody THEN outbox ELSE [outbox EXCEPT ![c] = Append(@, got)]
  BY DEF sendMessage
<1>2. outbox \in [Users -> Seq(Message)] /\ v # Nobody
  BY NamesApart DEF TypeOK, ServerTypeOK
<1> HIDE DEF c, got
<1>3. outbox'[v] = IF v = c THEN Append(outbox[v], got) ELSE outbox[v]
  BY <1>1, <1>2
<1>4. QED  BY <1>3 DEF c, got

-----------------------------------------------------------------------------
(* The connections and their handles. *)

(* An open handle is that of the client it leads to, and a client that has *)
(* not been accepted has none.                                             *)
PeersOwn ==
    /\ peer[Nobody] = Nobody /\ sock[Host] = Listen /\ peer[Listen] \notin Clients
    /\ \A h \in Handles : peer[h] \in Clients => sock[peer[h]] = h
    /\ \A c \in Clients :
          /\ client[c] \in {"out", "dialing"}
          /\ pc[Acceptor] = "handshake" => c # target[Acceptor]
          => sock[c] = Nobody

(* login() of the client has not returned.                                 *)
Early(c) == client[c] \notin {"in", "leaving", "closed"}

(* Whom a message on anybody's socket gets to has a connection of its own. *)
LEMMA ReachedOwn ==
    ASSUME TypeOK, PeersOwn, NEW x \in Users, Reached(x) \in Clients
    PROVE  Reached(Reached(x)) = Reached(x)
<1> DEFINE c == Reached(x)
<1>1. c = peer[sock[x]] /\ c \in Clients /\ client[c] # "closed"
  BY NamesApart DEF Reached
<1>2. sock[x] \in Handles \cup {Listen, Nobody}
  BY DEF TypeOK, ServerTypeOK
<1>3. sock[x] \in Handles
  BY <1>1, <1>2, NamesApart DEF PeersOwn
<1>4. sock[c] = sock[x]
  BY <1>1, <1>3 DEF PeersOwn
<1> HIDE DEF c
<1>5. Reached(c) = c
  BY <1>1, <1>4 DEF Reached
<1>6. QED  BY <1>5 DEF c

(* What a step leaves of the handles.                                      *)
HandlesStay ==
    /\ PeersOwn'
    /\ \A c \in Clients : ~Early(c) => ~Early(c)' /\ (Reached(c)' = c => Reached(c) = c)

(* A step that accepts nobody.                                             *)
LEMMA SocksStay ==
    ASSUME TypeOK, PeersOwn, UNCHANGED sock,
           peer' = peer \/ (\E u \in Users : peer' = [peer EXCEPT ![sock[u]] = Nobody]),
           (pc'[Acceptor] = pc[Acceptor] /\ target'[Acceptor] = target[Acceptor])
               \/ pc[Acceptor] # "handshake",
           \A c \in Clients :
              /\ client'[c] \in {"out", "dialing"} => client[c] \in {"out", "dialing"}
              /\ ~Early(c) => ~Early(c)' /\ (client'[c] # "closed" => client[c] # "closed")
    PROVE  HandlesStay
<1> USE NamesApart DEF Early
<1>1. /\ sock \in [Users -> Handles \cup {Listen, Nobody}]
      /\ peer \in [Handles \cup {Listen, Nobody} -> Users \cup {Nobody}]
  BY DEF TypeOK, ServerTypeOK
<1>2. \A h \in Handles \cup {Listen, Nobody} : peer'[h] = peer[h] \/ peer'[h] = Nobody
  BY <1>1
<1>3. PeersOwn'
  BY <1>1, <1>2 DEF PeersOwn
<1>4. ASSUME NEW c \in Clients, ~Early(c), Reached(c)' = c
      PROVE  Reached(c) = c
  <2>1. sock'[c] = sock[c] /\ sock[c] \in Handles \cup {Listen, Nobody}
    BY <1>1
  <2>2. peer'[sock[c]] = c /\ client'[c] # "closed"
    BY <1>4, <2>1 DEF Reached
  <2>3. peer[sock[c]] = c /\ client[c] # "closed"
    BY <1>2, <1>4, <2>1, <2>2
  <2>4. QED  BY <2>3 DEF Reached
<1>5. QED  BY <1>3, <1>4 DEF HandlesStay

(* Nobody takes the handle of another, and who was let in is not let in    *)
(* again.                                                                  *)
LEMMA HandlesKept ==
    ASSUME IInv, PeersOwn, [Next]_vars
    PROVE  HandlesStay
<1> USE NamesApart
<1>0. /\ TypeOK /\ Lifecycle
      /\ sock \in [Users -> Handles \cup {Listen, Nobody}]
      /\ peer \in [Handles \cup {Listen, Nobody} -> Users \cup {Nobody}]
      /\ client \in [Clients -> ClientState]
      /\ target \in [Threads -> Users \cup Handles \cup {Listen, Nobody}]
  BY DEF IInv, TypeOK, ServerTypeOK, StackTypeOK
<1>1. CASE \E u \in Users : Say(u) \/ (u \in Clients /\ ClientStep(u))
  <2>1. /\ UNCHANGED <<sock, peer>> /\ pc'[Acceptor] = pc[Acceptor]
        /\ target'[Acceptor] = target[Acceptor]
        /\ \A c \in Clients :
              client'[c] \in {"out", "dialing"} => client[c] \in {"out", "dialing"}
    BY <1>0, <1>1, ClientBystands DEF Bystands
  <2>2. \A c \in Clients :
            ~Early(c) => ~Early(c)' /\ (client'[c] # "closed" => client[c] # "closed")
    BY <1>0, <1>1 DEF Say, ClientStep, Connect, TryName, HearAnswer, HangUp, Break, Early
  <2>3. QED  BY <1>0, <2>1, <2>2, SocksStay
<1>2. CASE \E t \in Users : HandlerStep(t)
  <2>1. PICK t \in Users : HandlerStep(t)
    BY <1>2
  <2>2. /\ UNCHANGED <<sock, client>> /\ pc'[Acceptor] = pc[Acceptor]
        /\ target'[Acceptor] = target[Acceptor] /\ (Quit(t) \/ UNCHANGED peer)
    BY <1>0, <2>1, HandlerKeeps DEF Keeps
  <2>3. Quit(t) => peer' = peer \/ peer' = [peer EXCEPT ![sock[t]] = Nobody]
    BY DEF Quit, removeUser
  <2>4. QED  BY <1>0, <2>2, <2>3, SocksStay DEF Early
<1>3. CASE MainStep \/ SpuriousWakeup \/ (\E u \in Users : UseAfterFree(u) \/ BadErrorText(u))
  <2>1. UNCHANGED <<sock, peer, client, target>> /\ pc'[Acceptor] = pc[Acceptor]
    <3>1. Bystands
      BY <1>0, <1>3, MainBystands
    <3>2. UNCHANGED client
      BY <1>3 DEF MainStep, MainChecks, MainBlocks, MainJoins, SpuriousWakeup, UseAfterFree,
         BadErrorText, Moves, serverVars
    <3>3. QED  BY <3>1, <3>2 DEF Bystands
  <2>2. QED  BY <1>0, <2>1, SocksStay DEF Early
<1>4. CASE HostStep
  <2>1. UNCHANGED <<sock, client, peer>> /\ pc'[Acceptor] = pc[Acceptor]
        /\ target'[Acceptor] = target[Acceptor]
    BY <1>0, <1>4, HostKeeps DEF Keeps
  <2>2. QED  BY <1>0, <2>1, SocksStay DEF Early
<1>5. CASE StartTask
  <2> DEFINE t == Head(taskQueue)
  <2>1. t \in Threads /\ pc[t] = "idle"
    BY <1>0, <1>5 DEF StartTask, TypeOK, Lifecycle, WaitingTasks
  <2>2. /\ UNCHANGED <<sock, peer, client, target>>
        /\ \A v \in Threads \ {t} : pc'[v] = pc[v]
    BY <1>0, <1>5, <2>1 DEF StartTask, Goto, serverVars, socketVars, locals, TypeOK, PcTypeOK
  <2> HIDE DEF t
  <2>3. QED  BY <1>0, <2>1, <2>2, SocksStay DEF Early
<1>6. CASE AcceptorStep
  <2>1. CASE Accept
    <3>1. PICK c \in Clients, h \in Handles :
            /\ client[c] = "dialing" /\ peer[h] = Nobody
            /\ sock' = [sock EXCEPT ![c] = h] /\ peer' = [peer EXCEPT ![h] = c]
            /\ target' = [target EXCEPT ![Acceptor] = c]
            /\ pc[Acceptor] = "select" /\ client' = client
      BY <2>1 DEF Accept, accept
    <3>2. sock[c] = Nobody
      BY <3>1 DEF PeersOwn
    <3>3. /\ sock'[c] = h /\ peer'[h] = c /\ target'[Acceptor] = c
          /\ \A u \in Users \ {c} : sock'[u] = sock[u]
          /\ \A g \in (Handles \cup {Listen, Nobody}) \ {h} : peer'[g] = peer[g]
      BY <1>0, <3>1
    <3>4. h \notin {Listen, Nobody}
      BY ServerAssumption
    <3>5. PeersOwn'
      <4>1. peer'[Nobody] = Nobody /\ sock'[Host] = Listen /\ peer'[Listen] \notin Clients
        BY <3>3, <3>4 DEF PeersOwn
      <4>2. ASSUME NEW g \in Handles, peer'[g] \in Clients  PROVE sock'[peer'[g]] = g
        <5>1. CASE g = h   BY <3>3, <5>1
        <5>2. CASE g # h
          <6>1. peer[g] \in Clients /\ sock[peer[g]] = g /\ peer'[g] = peer[g]
            BY <3>3, <4>2, <5>2 DEF PeersOwn
          <6>2. peer[g] # c
            BY <3>2, <6>1, ServerAssumption
          <6>3. QED  BY <3>3, <6>1, <6>2
        <5>3. QED  BY <5>1, <5>2
      <4>3. ASSUME NEW d \in Clients, client'[d] \in {"out", "dialing"},
                   pc'[Acceptor] = "handshake" => d # target'[Acceptor]
            PROVE  sock'[d] = Nobody
        <5>1. pc'[Acceptor] = "handshake"
          BY <1>0, <2>1 DEF Accept, Goto, TypeOK, PcTypeOK
        <5>2. QED  BY <3>1, <3>3, <4>3, <5>1 DEF PeersOwn
      <4>4. QED  BY <4>1, <4>2, <4>3 DEF PeersOwn
    <3>6. ASSUME NEW d \in Clients, ~Early(d)
          PROVE  ~Early(d)' /\ (Reached(d)' = d => Reached(d) = d)
      <4>1. d # c /\ client'[d] = client[d] /\ sock'[d] = sock[d]
        BY <3>1, <3>3, <3>6 DEF Early
      <4>2. sock[d] \in Handles \cup {Listen, Nobody}
        BY <1>0
      <4>3. peer'[sock[d]] = d => peer[sock[d]] = d
        BY <3>3, <4>1, <4>2
      <4>4. QED  BY <3>6, <4>1, <4>3 DEF Early, Reached
    <3>7. QED  BY <3>5, <3>6 DEF HandlesStay
  <2>2. CASE ExchangeKeys \/ HandshakeFails
    <3> DEFINE c == target[Acceptor]
    <3>1. /\ pc[Acceptor] = "handshake" /\ c \in Clients /\ UNCHANGED <<sock, peer>>
          /\ pc'[Acceptor] # "handshake"
      BY <1>0, <2>2 DEF ExchangeKeys, HandshakeFails, Goto, socketVars, Lifecycle, Newcomer,
         AcceptorPC, TypeOK, PcTypeOK
    <3>2. /\ client'[c] \notin {"out", "dialing"}
          /\ \A d \in Clients \ {c} : client'[d] = client[d]
          /\ Early(c) \/ client'[c] = client[c]
      BY <1>0, <2>2, <3>1 DEF ExchangeKeys, HandshakeFails, Early
    <3> HIDE DEF c
    <3>3. PeersOwn'
      BY <3>1, <3>2 DEF PeersOwn, c
    <3>4. QED  BY <3>1, <3>2, <3>3 DEF HandlesStay, Early, Reached
  <2>3. CASE ~Accept /\ ~ExchangeKeys /\ ~HandshakeFails
    <3>1. pc[Acceptor] # "handshake" /\ UNCHANGED <<sock, peer, client>>
      BY <1>6, <2>3 DEF AcceptorStep, AcceptorTest, SelectTimesOut, AddUser, ReceiveName,
         LoginLost, CheckName, AnswerName, SetName, PushHandler, Moves, serverVars, socketVars
    <3>2. QED  BY <1>0, <3>1, SocksStay DEF Early
  <2>4. QED  BY <1>6, <2>1, <2>2, <2>3
<1>7. CASE UNCHANGED vars
  <2>1. UNCHANGED <<sock, peer, client, pc, target>>
    BY <1>7 DEF vars, serverVars, socketVars, locals
  <2>2. QED  BY <1>0, <2>1, SocksStay DEF Early
<1>8. QED  BY <1>1, <1>2, <1>3, <1>4, <1>5, <1>6, <1>7, NextCases

-----------------------------------------------------------------------------
(* Approvals and what follows them. *)

Verdicts == {"approved1", "approved2", "info"}

(* u is about to tell c that its upload is approved; and to send c what it *)
(* needs to know about the peer.                                           *)
Approves(u, c) ==
    \/ pc[u] = "approved1" /\ c = u
    \/ pc[u] = "approved2" /\ c = target[u]

Informs(u, c) == pc[u] = "info" /\ c \in {u, target[u]}

(* What a step does to the messages of client c.                           *)
Posted(c) ==
    \/ outbox'[c] = outbox[c]
    \/ HearAnswer(c)
    \/ \E m \in Message :
          /\ outbox'[c] = Append(outbox[c], m)
          /\ \/ m.kind \notin {"approved", "info"}
             \/ \E u \in Users : m.from = u /\ m.kind = "approved" /\ Approves(u, c)
             \/ \E u \in Users : /\ m.from = u /\ m.kind = "info" /\ Informs(u, c)
                                 /\ Reached(c) = c /\ pc'[u] \notin Verdicts

(* How a step comes to an approval, or from one to the next: by a decision *)
(* or by telling somebody.                                                 *)
Told ==
    \A u \in Users : pc'[u] \in Verdicts =>
        /\ target'[u] = target[u]
        /\ \/ pc'[u] = pc[u]
           \/ pc'[u] = "approved1" /\ decision[target[u]] = "yes"
           \/ /\ \/ pc[u] = "approved1" /\ pc'[u] = "approved2"
                 \/ pc[u] = "approved2" /\ pc'[u] = "info"
              /\ \A c \in Clients : Approves(u, c) =>
                    \/ Reached(c) # c
                    \/ \E m \in Message : /\ m.kind = "approved" /\ m.from = u
                                          /\ outbox'[c] = Append(outbox[c], m)

(* A message that is neither is neither when it cannot be opened.          *)
LEMMA OthersPosted ==
    ASSUME TypeOK, NEW u, NEW m \in Message, m.kind \notin {"approved", "info"},
           sendMessage(u, m), NEW c \in Clients
    PROVE  Posted(c)
<1>1. [m EXCEPT !.kind = "garbled"] \in Message /\ [m EXCEPT !.kind = "garbled"].kind = "garbled"
  BY DEF Message, Notices
<1>2. \/ outbox'[c] = outbox[c]
      \/ outbox'[c] = Append(outbox[c], m)
      \/ outbox'[c] = Append(outbox[c], [m EXCEPT !.kind = "garbled"])
  BY SendGives, NamesApart
<1> DEFINE g == [m EXCEPT !.kind = "garbled"]
<1> HIDE DEF g
<1>3. QED  BY <1>1, <1>2 DEF Posted, g

(* The calls of sendMessage outside a broadcast.                           *)
LEMMA UtterPosted ==
    ASSUME TypeOK, NEW t \in Users, Utter(t)
    PROVE  Told /\ \A c \in Clients : Posted(c)
<1> USE NamesApart
<1> DEFINE s == Utterance(t)
           m == [kind |-> s.kind, from |-> t, n |-> msg[t].n]
<1>0. t \in DOMAIN pc /\ t \in DOMAIN target /\ msg[t] \in Packet
  BY DEF TypeOK, PcTypeOK, StackTypeOK
<1>1. /\ s.kind \in Notices
      /\ s.next \in {"loop", "get", "approved2", "info", "denied2", "unmarkThem", "failed2",
                     "report"}
      /\ s.kind # "info"
      /\ s.next \in Verdicts <=> s.kind = "approved"
      /\ s.kind = "approved" =>
            \/ pc[t] = "approved1" /\ s.to = t /\ s.next = "approved2"
            \/ pc[t] = "approved2" /\ s.to = target[t] /\ s.next = "info"
  <2>1. CASE pc[t] = "approved1"
    BY <2>1 DEF Utterance, Notices, Verdicts
  <2>2. CASE pc[t] = "approved2"
    BY <2>2 DEF Utterance, Notices, Verdicts
  <2>3. CASE pc[t] = "reply"
    BY <2>3 DEF Utterance, Notices, Verdicts
  <2>4. CASE pc[t] \in {"unfound", "whisper", "invalid"}
    BY <2>4 DEF Utterance, Notices, Verdicts
  <2>5. CASE pc[t] \in {"request", "denied1", "denied2", "failed1", "failed2"}
    BY <2>5 DEF Utterance, Notices, Verdicts
  <2>6. pc[t] \in Saying
    BY DEF Utter
  <2> HIDE DEF s
  <2>7. QED  BY <2>1, <2>2, <2>3, <2>4, <2>5, <2>6 DEF Saying
<1>2. /\ sendMessage(s.to, m)
      /\ IF s.next = "loop" THEN BackToLoop(t) ELSE Goto(t, s.next) /\ UNCHANGED locals
  BY DEF Utter
<1> HIDE DEF s
<1>3. m \in Message /\ m.kind = s.kind /\ m.from = t
  BY <1>0, <1>1 DEF Message, Packet
<1>4. /\ pc'[t] = s.next /\ (s.next # "loop" => target'[t] = target[t])
      /\ \A v \in Users \ {t} : pc'[v] = pc[v] /\ target'[v] = target[v]
  BY <1>0, <1>2 DEF BackToLoop, Goto, locals, TypeOK, PcTypeOK, StackTypeOK
<1>5. ASSUME NEW v \in Users
      PROVE  outbox'[v] = IF v # Reached(s.to) THEN outbox[v]
                          ELSE Append(outbox[v], IF v = s.to THEN m ELSE [m EXCEPT !.kind = "garbled"])
  <2> HIDE DEF m
  <2> QED  BY <1>2, SendGives
<1>6. [m EXCEPT !.kind = "garbled"] \in Message /\ [m EXCEPT !.kind = "garbled"].kind = "garbled"
  BY <1>3 DEF Message, Notices
<1> DEFINE g == [m EXCEPT !.kind = "garbled"]
<1> HIDE DEF m, g
<1>7. ASSUME NEW c \in Clients  PROVE Posted(c)
  <2>1. \/ outbox'[c] = outbox[c]
        \/ outbox'[c] = Append(outbox[c], g)
        \/ c = s.to /\ outbox'[c] = Append(outbox[c], m)
    BY <1>5 DEF g
  <2>2. g \in Message /\ g.kind = "garbled"
    BY <1>6 DEF g
  <2>3. CASE outbox'[c] = outbox[c] \/ outbox'[c] = Append(outbox[c], g)
    BY <2>2, <2>3 DEF Posted
  <2>4. CASE c = s.to /\ outbox'[c] = Append(outbox[c], m)
    <3>1. m.kind = "approved" => Approves(t, c)
      BY <1>1, <1>3, <2>4 DEF Approves
    <3>2. QED  BY <1>1, <1>3, <2>4, <3>1 DEF Posted
  <2>5. QED  BY <2>1, <2>3, <2>4
<1>8. ASSUME s.kind = "approved"
      PROVE  \A c \in Clients : Approves(t, c) =>
                    \/ Reached(c) # c
                    \/ \E w \in Message : /\ w.kind = "approved" /\ w.from = t
                                          /\ outbox'[c] = Append(outbox[c], w)
  <2>1. SUFFICES ASSUME NEW c \in Clients, Approves(t, c), Reached(c) = c
                 PROVE  outbox'[c] = Append(outbox[c], m)
    BY <1>3, <1>8
  <2>2. c = s.to
    BY <1>1, <1>8, <2>1 DEF Approves
  <2>3. QED  BY <1>5, <2>1, <2>2
<1>9. Told
  <2>1. ASSUME NEW u \in Users \ {t}, pc'[u] \in Verdicts  PROVE pc'[u] = pc[u] /\ target'[u] = target[u]
    BY <1>4
  <2>2. ASSUME pc'[t] \in Verdicts
        PROVE  /\ target'[t] = target[t] /\ s.kind = "approved"
               /\ \/ pc[t] = "approved1" /\ pc'[t] = "approved2"
                  \/ pc[t] = "approved2" /\ pc'[t] = "info"
    BY <1>1, <1>4, <2>2 DEF Verdicts
  <2>3. ASSUME NEW u \in Users, pc'[u] \in Verdicts
        PROVE  /\ target'[u] = target[u]
               /\ \/ pc'[u] = pc[u]
                  \/ /\ \/ pc[u] = "approved1" /\ pc'[u] = "approved2"
                        \/ pc[u] = "approved2" /\ pc'[u] = "info"
                     /\ \A c \in Clients : Approves(u, c) =>
                           \/ Reached(c) # c
                           \/ \E w \in Message : /\ w.kind = "approved" /\ w.from = u
                                                 /\ outbox'[c] = Append(outbox[c], w)
    <3>1. CASE u = t
      BY <1>8, <2>2, <2>3, <3>1
    <3>2. CASE u # t
      BY <2>1, <2>3, <3>2
    <3>3. QED  BY <3>1, <3>2
  <2>4. QED
    BY <2>3, Zenon DEF Told
<1>10. QED  BY <1>7, <1>9

(* sendTransferInfo.                                                       *)
LEMMA InfoPosted ==
    ASSUME TypeOK, PeersOwn, HasRecipient, NEW t \in Users, SendInfo(t)
    PROVE  Told /\ \A c \in Clients : Posted(c)
<1> USE NamesApart
<1>1. /\ pc[t] = "info" /\ UNCHANGED target
      /\ \A v \in Users \ {t} : pc'[v] = pc[v]
      /\ pc'[t] \in {"stream", "unmarkThem"}
  BY DEF SendInfo, Goto, locals, TypeOK, PcTypeOK
<1>2. Told
  BY <1>1 DEF Told, Verdicts
<1>3. ASSUME NEW c \in Clients  PROVE Posted(c)
  <2> DEFINE m == [kind |-> IF c \in {t, target[t]} THEN "info" ELSE "garbled", from |-> t, n |-> 0]
  <2>1. outbox'[c] = IF c \in {Reached(t), Reached(target[t])} \ {Host, Nobody}
                     THEN Append(outbox[c], m) ELSE outbox[c]
    BY DEF SendInfo, sendTransferInfo
  <2>2. m \in Message /\ m.from = t
        /\ m.kind = IF c \in {t, target[t]} THEN "info" ELSE "garbled"
    BY DEF Message, Notices
  <2> HIDE DEF m
  <2>3. CASE outbox'[c] = outbox[c]
    BY <2>3 DEF Posted
  <2>4. CASE outbox'[c] = Append(outbox[c], m) /\ c \notin {t, target[t]}
    BY <2>2, <2>4 DEF Posted
  <2>5. CASE /\ outbox'[c] = Append(outbox[c], m) /\ c \in {t, target[t]}
             /\ c \in {Reached(t), Reached(target[t])}
    <3>1. t \in Users /\ target[t] \in Users
      BY <1>1 DEF HasRecipient, Uploading, Negotiating
    <3>2. Reached(c) = c
      BY <2>5, <3>1, ReachedOwn
    <3>3. QED  BY <1>1, <2>2, <2>5, <3>2 DEF Posted, Informs, Verdicts
  <2>6. QED  BY <2>1, <2>3, <2>4, <2>5
<1>4. QED  BY <1>2, <1>3

(* Every step, as far as approvals go.                                     *)
LEMMA StepPosted ==
    ASSUME IInv, PeersOwn, HasRecipient, [Next]_vars
    PROVE  Told /\ \A c \in Clients : Posted(c)
<1> USE NamesApart
<1>0. TypeOK /\ BroadcastsOnly
  BY DEF IInv
<1>1. ASSUME Quiet  PROVE Told
  BY <1>1 DEF Quiet, Told, Involved, Uploading, Negotiating, Verdicts
<1>2. CASE \/ \E u \in Users : Say(u) \/ (u \in Clients /\ ClientStep(u))
           \/ MainStep \/ SpuriousWakeup \/ (\E u \in Users : UseAfterFree(u) \/ BadErrorText(u))
           \/ HostStep \/ StartTask \/ AcceptorStep \/ UNCHANGED vars
  <2>1. Told
    BY <1>1, <1>2, OthersQuiet
  <2>2. ASSUME NEW c \in Clients  PROVE Posted(c)
    <3>1. CASE UNCHANGED outbox
      BY <3>1 DEF Posted
    <3>2. CASE AcceptorStep
      <4>1. CASE AnswerName
        <5> DEFINE m == [kind |-> pc[Acceptor], from |-> Host, n |-> 0]
        <5>1. m \in Message /\ m.kind \notin {"approved", "info"} /\ sendMessage(target[Acceptor], m)
          BY <4>1 DEF AnswerName, Message, Notices
        <5> HIDE DEF m
        <5>2. QED  BY <1>0, <5>1, OthersPosted
      <4>2. CASE ~AnswerName
        BY <3>1, <3>2, <4>2 DEF AcceptorStep, AcceptorTest, SelectTimesOut, Accept, ExchangeKeys,
           HandshakeFails, AddUser, ReceiveName, LoginLost, CheckName, SetName, PushHandler,
           Moves, serverVars
      <4>3. QED  BY <4>1, <4>2
    <3>3. ASSUME NEW u \in Clients, HearAnswer(u)  PROVE Posted(c)
      <4>1. CASE u = c  BY <3>3, <4>1 DEF Posted
      <4>2. CASE u # c
        <5>1. outbox'[c] = outbox[c]
          BY <1>0, <3>3, <4>2 DEF HearAnswer, TypeOK, ServerTypeOK
        <5>2. QED  BY <5>1 DEF Posted
      <4>3. QED  BY <4>1, <4>2
    <3>4. CASE \E u \in Users : Say(u) \/ (u \in Clients /\ ClientStep(u))
      BY <3>1, <3>3, <3>4 DEF Say, ClientStep, Connect, TryName, HangUp, Break
    <3>5. CASE \/ MainStep \/ SpuriousWakeup \/ HostStep \/ StartTask \/ UNCHANGED vars
               \/ \E u \in Users : UseAfterFree(u) \/ BadErrorText(u)
      BY <3>1, <3>5 DEF MainStep, MainChecks, MainBlocks, MainJoins, SpuriousWakeup,
         HostStep, RaiseShouldQuit, NotifyMain, StartTask, UseAfterFree, BadErrorText, Moves,
         serverVars, vars
    <3>6. QED  BY <1>2, <3>2, <3>4, <3>5
  <2>3. QED  BY <2>1, <2>2
<1>3. ASSUME NEW t \in Users, HandlerStep(t)
      PROVE  Told /\ \A c \in Clients : Posted(c)
  <2>0. Keeps(t) /\ t \in DOMAIN pc /\ pc[t] \in Outside \cup HandlerPC
    BY <1>0, <1>3, HandlerKeeps DEF TypeOK, PcTypeOK
  <2>1. CASE UNCHANGED outbox /\ (pc'[t] \notin Verdicts \/ Decided(t))
    <3>1. Decided(t) => /\ UNCHANGED target /\ pc'[t] \in {"approved1", "denied1"}
                        /\ pc'[t] = "approved1" => decision[target[t]] = "yes"
      BY <2>0 DEF Decided, Goto, locals
    <3>2. Told
      BY <2>0, <2>1, <3>1 DEF Told, Keeps, Verdicts
    <3>3. QED  BY <2>1, <3>2 DEF Posted
  <2>2. CASE LoopStep(t)
    BY <2>0, <2>1, <2>2 DEF LoopStep, TestQuit, Receive, ReceiveThrows, Decide, DecideThrows,
       wait_completeTransfer, Catch, Moves, Goto, BackToLoop, serverVars, Verdicts
  <2>3. CASE CommandStep(t) /\ ~Utter(t)
    BY <2>0, <2>1, <2>3 DEF CommandStep, Quit, ListUsers, ListCommands, WhisperSocket,
       WhisperUser, Moves, Goto, BackToLoop, serverVars, Verdicts
  <2>4. CASE Utter(t)
    BY <1>0, <2>4, UtterPosted
  <2>5. CASE SendOne(t)
    <3> DEFINE m == Notice(t)
    <3>1. msg[t].kind \in Broadcasts /\ msg[t] \in Packet /\ sendMessage(users[idx[t]], m)
          /\ pc'[t] = "scan"
      BY <1>0, <2>0, <2>5 DEF SendOne, Goto, BroadcastsOnly, TypeOK, StackTypeOK
    <3>2. m \in Message /\ m.kind \notin {"approved", "info"}
      BY <3>1 DEF Notice, Message, Notices, Broadcasts, Packet
    <3> HIDE DEF m
    <3>3. \A c \in Clients : Posted(c)
      BY <1>0, <3>1, <3>2, OthersPosted
    <3>4. Told
      BY <2>0, <3>1 DEF Told, Keeps, Verdicts
    <3>5. QED  BY <3>3, <3>4
  <2>6. CASE BroadcastStep(t) /\ ~SendOne(t)
    BY <2>0, <2>1, <2>6 DEF BroadcastStep, BeginBroadcast, Scan, EndBroadcast, Goto, BackToLoop,
       Verdicts, serverVars
  <2>7. CASE SendInfo(t)
    BY <1>0, <2>7, InfoPosted
  <2>8. CASE TransferStep(t) /\ ~SendInfo(t)
    BY <2>0, <2>1, <2>8 DEF TransferStep, LookUp, MarkThem, MarkSelf, AwaitDecision, AwaitThrows,
       Decided, Resume, UnmarkThem, UnmarkSelf, Moves, Goto, BackToLoop, serverVars, Verdicts
  <2>9. QED  BY <1>3, <2>2, <2>3, <2>4, <2>5, <2>6, <2>7, <2>8 DEF HandlerStep
<1>4. QED  BY <1>2, <1>3, NextCases

-----------------------------------------------------------------------------
(* Who has not logged in takes part in no upload. *)

(* Until its login() returns all that a client sends is names, its own     *)
(* thread neither uploads nor agrees to anything, and nothing is approved. *)
Silent(c) ==
    Early(c) =>
        /\ \A i \in DOMAIN inbox[c] : inbox[c][i].kind = "name"
        /\ msg[c].kind \in {"name", "garbled", "left"}
        /\ decision[c] # "yes"
        /\ pc[c] \notin Uploading
        /\ \A u \in Users : target[u] = c => pc[u] \notin Verdicts
        /\ \A i \in DOMAIN outbox[c] : outbox[c][i].kind \notin {"approved", "info"}

(* What is left of a queue after a recv was in it before.                  *)
LEMMA RestIs ==
    ASSUME NEW S, NEW s \in Seq(S), NEW k \in 1..Len(s)
    PROVE  /\ SubSeq(s, k + 1, Len(s)) \in Seq(S)
           /\ \A i \in DOMAIN SubSeq(s, k + 1, Len(s)) :
                 i + k \in DOMAIN s /\ SubSeq(s, k + 1, Len(s))[i] = s[i + k]
OBVIOUS

(* What a client sends before its login() returns.                         *)
LEMMA NamesOnly ==
    ASSUME IInv, [Next]_vars, NEW c \in Clients, Early(c), Early(c)',
           \A i \in DOMAIN inbox[c] : inbox[c][i].kind = "name"
    PROVE  \A i \in DOMAIN inbox'[c] : inbox'[c][i].kind = "name"
<1> USE NamesApart
<1>0. /\ TypeOK /\ inbox \in [Users -> Seq(Packet)] /\ inbox[c] \in Seq(Packet)
      /\ sent \in [Users -> Nat] /\ Lifecycle
  BY DEF IInv, TypeOK, ServerTypeOK
<1>1. CASE inbox'[c] = inbox[c]
  BY <1>1
<1>2. ASSUME NEW k \in 1..Len(inbox[c]), inbox'[c] = SubSeq(inbox[c], k + 1, Len(inbox[c]))
      PROVE  \A i \in DOMAIN inbox'[c] : inbox'[c][i].kind = "name"
  BY <1>0, <1>2, RestIs
<1>3. ASSUME NEW u \in Users, Say(u) \/ (u \in Clients /\ ClientStep(u))
      PROVE  \A i \in DOMAIN inbox'[c] : inbox'[c][i].kind = "name"
  <2>1. CASE Say(u)
    <3>1. u # c
      BY <2>1 DEF Say, Early
    <3>2. inbox'[c] = inbox[c]
      BY <1>0, <2>1, <3>1 DEF Say, Put
    <3>3. QED  BY <1>1, <3>2
  <2>2. CASE TryName(u)
    <3>1. PICK s \in Says[u] :
            s.kind = "name" /\ inbox' = [inbox EXCEPT ![u] =
                                  Append(@, [kind |-> s.kind, arg |-> s.arg, n |-> sent[u] + 1])]
      BY <2>2 DEF TryName, Put
    <3> DEFINE p == [kind |-> s.kind, arg |-> s.arg, n |-> sent[u] + 1]
    <3>2. p.kind = "name" /\ inbox' = [inbox EXCEPT ![u] = Append(@, p)]
      BY <3>1
    <3> HIDE DEF p
    <3>3. CASE u # c
      BY <1>0, <1>1, <3>2, <3>3
    <3>4. CASE u = c
      <4>1. inbox'[c] = Append(inbox[c], p)
        BY <1>0, <3>2, <3>4
      <4>2. QED  BY <1>0, <3>2, <4>1
    <3>5. QED  BY <3>3, <3>4
  <2>3. CASE Break(u)
    <3>1. u # c
      BY <1>0, <2>3 DEF Break, Early, TypeOK, ServerTypeOK
    <3>2. inbox'[c] = inbox[c]
      BY <1>0, <2>3, <3>1 DEF Break
    <3>3. QED  BY <1>1, <3>2
  <2>4. CASE Connect(u) \/ HearAnswer(u) \/ HangUp(u)
    BY <1>1, <2>4 DEF Connect, HearAnswer, HangUp
  <2>5. QED  BY <1>3, <2>1, <2>2, <2>3, <2>4 DEF ClientStep
<1>4. CASE AcceptorStep
  <2>1. CASE ReceiveName
    <3>1. PICK k \in 1..Len(inbox[target[Acceptor]]) :
            inbox' = [inbox EXCEPT ![target[Acceptor]] = SubSeq(@, k + 1, Len(@))]
      BY <2>1 DEF ReceiveName
    <3>2. QED  BY <1>0, <1>1, <1>2, <3>1
  <2>2. CASE ~ReceiveName
    BY <1>1, <1>4, <2>2 DEF AcceptorStep, AcceptorTest, SelectTimesOut, Accept, ExchangeKeys,
       HandshakeFails, AddUser, LoginLost, CheckName, AnswerName, SetName, PushHandler, Moves,
       serverVars
  <2>3. QED  BY <2>1, <2>2
<1>5. ASSUME NEW t \in Users, HandlerStep(t)
      PROVE  \A i \in DOMAIN inbox'[c] : inbox'[c][i].kind = "name"
  <2>1. CASE Receive(t)
    <3> DEFINE d == peer[sock[t]]
    <3>1. PICK k \in 1..Len(inbox[d]) :
            inbox' = [inbox EXCEPT ![d] = SubSeq(@, k + 1, Len(@))]
      BY <2>1 DEF Receive
    <3> HIDE DEF d
    <3>2. QED  BY <1>0, <1>1, <1>2, <3>1
  <2>2. CASE LoopStep(t) /\ ~Receive(t)
    BY <1>1, <2>2 DEF LoopStep, TestQuit, ReceiveThrows, Decide, DecideThrows,
       wait_completeTransfer, Catch, Moves, serverVars
  <2>3. CASE CommandStep(t)
    BY <1>1, <2>3 DEF CommandStep, Quit, ListUsers, ListCommands, WhisperSocket, WhisperUser,
       Utter, Moves, serverVars
  <2>4. CASE BroadcastStep(t)
    BY <1>1, <2>4 DEF BroadcastStep, BeginBroadcast, Scan, SendOne, EndBroadcast, serverVars
  <2>5. CASE TransferStep(t)
    BY <1>1, <2>5 DEF TransferStep, LookUp, MarkThem, MarkSelf, AwaitDecision, AwaitThrows,
       Decided, SendInfo, Resume, UnmarkThem, UnmarkSelf, Moves, serverVars
  <2>6. QED  BY <1>5, <2>1, <2>2, <2>3, <2>4, <2>5 DEF HandlerStep
<1>6. CASE \/ MainStep \/ SpuriousWakeup \/ (\E u \in Users : UseAfterFree(u) \/ BadErrorText(u))
           \/ HostStep \/ StartTask \/ UNCHANGED vars
  BY <1>1, <1>6 DEF MainStep, MainChecks, MainBlocks, MainJoins, SpuriousWakeup, HostStep,
     RaiseShouldQuit, NotifyMain, StartTask, UseAfterFree, BadErrorText, Moves, serverVars, vars
<1>7. QED  BY <1>3, <1>4, <1>5, <1>6, NextCases

(* What the thread that serves t is about: what it has just read, until it *)
(* is through with it.                                                     *)
LEMMA OwnStep ==
    ASSUME TypeOK, NEW t \in Users, HandlerStep(t)
    PROVE  /\ \/ msg'[t] = msg[t] \/ msg'[t].kind \in {"garbled", "left"}
              \/ inbox[t] # <<>> /\ msg'[t] = Head(inbox[t])
           /\ pc'[t] \in Uploading => pc[t] \in Uploading \/ msg[t].kind = "upload"
           /\ \A u \in Users : \/ decision'[u] \in {decision[u], "none", "no"}
                               \/ u = t /\ msg[t].kind = "yes"
<1> USE NamesApart DEF TypeOK, UserTypeOK, PcTypeOK, StackTypeOK, Goto, Moves, locals, userVars,
         BackToLoop, NoPacket
<1>1. CASE LoopStep(t)
  <2>1. CASE Receive(t)
    <3> DEFINE c == peer[sock[t]]
    <3>1. PICK k \in 1..Len(inbox[c]) : msg'[t] = Opened(t, c, k)
      BY <2>1 DEF Receive
    <3>2. pc'[t] \in {"decide", "dispatch"} /\ UNCHANGED decision
      BY <2>1 DEF Receive
    <3>3. msg'[t] = NoPacket \/ (c = t /\ inbox[t] # <<>> /\ msg'[t] = Head(inbox[t]))
      BY <3>1 DEF Opened
    <3>4. QED  BY <3>2, <3>3 DEF Uploading, Negotiating
  <2>2. CASE Decide(t)
    BY <2>2 DEF Decide, setTransferDecision, Uploading, Negotiating
  <2>3. CASE TestQuit(t) \/ ReceiveThrows(t) \/ DecideThrows(t) \/ wait_completeTransfer(t)
    BY <2>3 DEF TestQuit, ReceiveThrows, DecideThrows, wait_completeTransfer, Uploading, Negotiating
  <2>4. CASE Catch(t)
    BY <2>4 DEF Catch, Uploading, Negotiating
  <2>5. QED  BY <1>1, <2>1, <2>2, <2>3, <2>4 DEF LoopStep
<1>2. CASE CommandStep(t)
  <2>1. CASE Utter(t)
    <3>1. Utterance(t).next \in Uploading => pc[t] \in Uploading
      BY <2>1 DEF Utter, Saying, Utterance, Uploading, Negotiating
    <3> DEFINE l == Utterance(t).next
    <3>2. /\ IF l = "loop" THEN BackToLoop(t) ELSE Goto(t, l) /\ UNCHANGED locals
          /\ UNCHANGED userVars
      BY <2>1 DEF Utter
    <3> HIDE DEF l
    <3>3. QED  BY <3>1, <3>2 DEF l, Uploading, Negotiating
  <2>2. CASE ~Utter(t)
    BY <1>2, <2>2 DEF CommandStep, Quit, ListUsers, ListCommands, WhisperSocket, WhisperUser,
       Uploading, Negotiating
  <2>3. QED  BY <2>1, <2>2
<1>3. CASE BroadcastStep(t)
  BY <1>3 DEF BroadcastStep, BeginBroadcast, Scan, SendOne, EndBroadcast, Uploading, Negotiating
<1>4. CASE TransferStep(t)
  <2>1. CASE LookUp(t)
    BY <2>1 DEF LookUp, Handling
  <2>2. CASE Decided(t)
    BY <2>2 DEF Decided, resetTransfer, Uploading, Negotiating
  <2>3. CASE ~LookUp(t) /\ ~Decided(t)
    BY <1>4, <2>3 DEF TransferStep, MarkThem, MarkSelf, AwaitDecision, AwaitThrows, SendInfo, Resume,
       UnmarkThem, UnmarkSelf, Uploading, Negotiating
  <2>4. QED  BY <2>1, <2>2, <2>3
<1>5. QED  BY <1>1, <1>2, <1>3, <1>4 DEF HandlerStep

(* What the others leave alone of it.                                      *)
LEMMA OthersStep ==
    ASSUME IInv, [Next]_vars, NEW c \in Clients, ~HandlerStep(c)
    PROVE  /\ msg'[c] = msg[c]
           /\ pc'[c] \in Uploading => pc'[c] = pc[c]
           /\ decision'[c] \in {decision[c], "none", "no"}
<1> USE NamesApart
<1>0. TypeOK /\ Lifecycle
  BY DEF IInv
<1>1. CASE \E t \in Users : HandlerStep(t)
  <2>1. PICK t \in Users : HandlerStep(t)
    BY <1>1
  <2>2. QED  BY <1>0, <2>1, HandlerKeeps, OwnStep DEF Keeps
<1>2. CASE \/ \E u \in Users : Say(u) \/ (u \in Clients /\ ClientStep(u))
           \/ MainStep \/ SpuriousWakeup \/ (\E u \in Users : UseAfterFree(u) \/ BadErrorText(u))
           \/ HostStep \/ StartTask \/ AcceptorStep \/ UNCHANGED vars
  <2>1. (pc'[c] \in Uploading => pc'[c] = pc[c]) /\ decision' = decision
    BY <1>2, OthersQuiet DEF Quiet, Involved
  <2>2. msg'[c] = msg[c]
    <3>1. CASE \E u \in Users : Say(u) \/ (u \in Clients /\ ClientStep(u))
      BY <1>0, <3>1, ClientBystands DEF Bystands
    <3>2. CASE MainStep \/ SpuriousWakeup \/ (\E u \in Users : UseAfterFree(u) \/ BadErrorText(u))
      BY <1>0, <3>2, MainBystands DEF Bystands
    <3>3. CASE HostStep
      BY <1>0, <3>3, HostKeeps DEF Keeps
    <3>4. CASE StartTask \/ UNCHANGED vars
      BY <3>4 DEF StartTask, locals, vars
    <3>5. CASE AcceptorStep
      BY <1>0, <3>5 DEF AcceptorStep, AcceptorTest, SelectTimesOut, Accept, ExchangeKeys,
         HandshakeFails, AddUser, ReceiveName, LoginLost, CheckName, AnswerName, SetName,
         PushHandler, Moves, locals, TypeOK, StackTypeOK
    <3>6. QED  BY <1>2, <3>1, <3>2, <3>3, <3>4, <3>5
  <2>3. QED  BY <2>1, <2>2
<1>3. QED  BY <1>1, <1>2, NextCases

(* A client that has not logged in stays out of every upload.              *)
LEMMA SilenceKept ==
    ASSUME IInv, PeersOwn, HasRecipient, [Next]_vars, HandlesStay, Told,
           NEW c \in Clients, Posted(c), Silent(c)
    PROVE  Silent(c)'
<1> USE NamesApart
<1> SUFFICES ASSUME Early(c)'  PROVE Silent(c)'
  BY DEF Silent
<1>0. /\ Early(c) /\ TypeOK /\ TypeOK'
      /\ inbox[c] \in Seq(Packet) /\ outbox[c] \in Seq(Message)
  BY NextType, StutterInv DEF HandlesStay, IInv, TypeOK, ServerTypeOK
<1>1. /\ \A i \in DOMAIN inbox[c] : inbox[c][i].kind = "name"
      /\ msg[c].kind \in {"name", "garbled", "left"}
      /\ decision[c] # "yes"
      /\ pc[c] \notin Uploading
      /\ \A u \in Users : target[u] = c => pc[u] \notin Verdicts
      /\ \A i \in DOMAIN outbox[c] : outbox[c][i].kind \notin {"approved", "info"}
  BY <1>0 DEF Silent
<1>2. \A i \in DOMAIN inbox'[c] : inbox'[c][i].kind = "name"
  BY <1>0, <1>1, NamesOnly
<1>3. inbox[c] # <<>> => Head(inbox[c]).kind = "name"
  BY <1>0, <1>1
<1>4. /\ msg'[c].kind \in {"name", "garbled", "left"}
      /\ decision'[c] # "yes"
      /\ pc'[c] \notin Uploading
  <2>1. CASE HandlerStep(c)
    BY <1>0, <1>1, <1>3, <2>1, OwnStep
  <2>2. CASE ~HandlerStep(c)
    BY <1>1, <2>2, OthersStep
  <2>3. QED  BY <2>1, <2>2
<1>5. ASSUME NEW u \in Users, target'[u] = c  PROVE pc'[u] \notin Verdicts
  BY <1>1, <1>5 DEF Told, Verdicts
<1>6. \A i \in DOMAIN outbox'[c] : outbox'[c][i].kind \notin {"approved", "info"}
  <2>1. CASE outbox'[c] = outbox[c]
    BY <1>1, <2>1
  <2>2. CASE HearAnswer(c)
    <3>1. PICK k \in 1..Len(outbox[c]) : outbox'[c] = SubSeq(outbox[c], k + 1, Len(outbox[c]))
      BY <1>0, <2>2 DEF HearAnswer, TypeOK, ServerTypeOK
    <3>2. QED  BY <1>0, <1>1, <3>1, RestIs
  <2>3. ASSUME NEW m \in Message, outbox'[c] = Append(outbox[c], m),
               m.kind \notin {"approved", "info"}
        PROVE  \A i \in DOMAIN outbox'[c] : outbox'[c][i].kind \notin {"approved", "info"}
    BY <1>0, <1>1, <2>3
  <2>4. ASSUME NEW u \in Users  PROVE ~Approves(u, c) /\ ~Informs(u, c)
    BY <1>1 DEF Approves, Informs, Verdicts, Uploading, Negotiating
  <2>5. QED  BY <2>1, <2>2, <2>3, <2>4 DEF Posted
<1>7. QED  BY <1>2, <1>4, <1>5, <1>6 DEF Silent

-----------------------------------------------------------------------------
(* What is owed. *)

(* It does not depend on what comes later.                                 *)
LEMMA OwedSame ==
    ASSUME NEW s, NEW t, NEW u, NEW n \in Nat, \A i \in 1..n : s[i] = t[i]
    PROVE  Owed(s, u, n) <=> Owed(t, u, n)
BY DEF Owed

(* One more message.                                                       *)
LEMMA OwedNext ==
    ASSUME NEW s, NEW u, NEW n \in Nat
    PROVE  Owed(s, u, n + 1) <=>
              \/ s[n + 1].kind = "approved" /\ s[n + 1].from = u
              \/ Owed(s, u, n) /\ ~(s[n + 1].kind = "info" /\ s[n + 1].from = u)
<1>1. ASSUME s[n + 1].kind = "approved", s[n + 1].from = u  PROVE Owed(s, u, n + 1)
  <2>1. n + 1 \in 1..(n + 1) /\ ((n + 1) + 1)..(n + 1) = {}
    OBVIOUS
  <2>2. QED  BY <1>1, <2>1 DEF Owed
<1>2. ASSUME Owed(s, u, n), ~(s[n + 1].kind = "info" /\ s[n + 1].from = u)
      PROVE  Owed(s, u, n + 1)
  <2>1. PICK i \in 1..n : /\ s[i].kind = "approved" /\ s[i].from = u
                          /\ \A j \in (i + 1)..n : s[j].kind = "info" => s[j].from # u
    BY <1>2 DEF Owed
  <2>2. i \in 1..(n + 1) /\ \A j \in (i + 1)..(n + 1) : j \in (i + 1)..n \/ j = n + 1
    OBVIOUS
  <2>3. \A j \in (i + 1)..(n + 1) : s[j].kind = "info" => s[j].from # u
    BY <1>2, <2>1, <2>2
  <2>4. QED  BY <2>1, <2>2, <2>3 DEF Owed
<1>3. ASSUME Owed(s, u, n + 1), ~(s[n + 1].kind = "approved" /\ s[n + 1].from = u)
      PROVE  Owed(s, u, n) /\ ~(s[n + 1].kind = "info" /\ s[n + 1].from = u)
  <2>1. PICK i \in 1..(n + 1) :
            /\ s[i].kind = "approved" /\ s[i].from = u
            /\ \A j \in (i + 1)..(n + 1) : s[j].kind = "info" => s[j].from # u
    BY <1>3 DEF Owed
  <2>2. i # n + 1
    BY <1>3, <2>1
  <2>3. i \in 1..n /\ n + 1 \in (i + 1)..(n + 1) /\ (i + 1)..n \subseteq (i + 1)..(n + 1)
    BY <2>2
  <2>4. QED  BY <2>1, <2>3 DEF Owed
<1>4. s[n + 1].kind = "approved" => s[n + 1].kind # "info"
  OBVIOUS
<1>5. QED  BY <1>1, <1>2, <1>3, <1>4

(* Who is about to be informed has been told of the approval, if its       *)
(* connection still stands.                                                *)
Awaited(c) ==
    \A u \in Users :
        \/ c = u /\ pc[u] \in {"approved2", "info"}
        \/ c = target[u] /\ pc[u] = "info"
        => Reached(c) # c \/ Owed(outbox[c], u, Len(outbox[c]))

(* It stays so.                                                            *)
LEMMA AwaitedKept ==
    ASSUME IInv, HandlesStay, Told, NEW c \in Clients, Posted(c), Silent(c), Awaited(c)
    PROVE  Awaited(c)'
<1> SUFFICES ASSUME NEW u \in Users, Reached(c)' = c,
                    \/ c = u /\ pc'[u] \in {"approved2", "info"}
                    \/ c = target'[u] /\ pc'[u] = "info"
             PROVE  Owed(outbox'[c], u, Len(outbox'[c]))
  BY DEF Awaited
<1> DEFINE n == Len(outbox[c])
<1>0. outbox[c] \in Seq(Message) /\ n \in Nat
  BY NamesApart DEF IInv, TypeOK, ServerTypeOK
<1>1. /\ pc'[u] \in Verdicts /\ target'[u] = target[u] /\ c \in {u, target[u]}
      /\ \/ pc'[u] = pc[u]
         \/ /\ \/ pc[u] = "approved1" /\ pc'[u] = "approved2"
               \/ pc[u] = "approved2" /\ pc'[u] = "info"
            /\ Approves(u, c) =>
                    \/ Reached(c) # c
                    \/ \E m \in Message : /\ m.kind = "approved" /\ m.from = u
                                          /\ outbox'[c] = Append(outbox[c], m)
  BY DEF Told, Verdicts
<1>2. ~Early(c) /\ Reached(c) = c
  <2>1. ~Early(c)
    BY <1>1 DEF Silent, Verdicts, Uploading, Negotiating
  <2>2. QED  BY <2>1 DEF HandlesStay
<1>3. ASSUME NEW m, outbox'[c] = Append(outbox[c], m)
      PROVE  /\ Len(outbox'[c]) = n + 1 /\ outbox'[c][n + 1] = m
             /\ Owed(outbox'[c], u, n) <=> Owed(outbox[c], u, n)
  <2>1. Len(outbox'[c]) = n + 1 /\ outbox'[c][n + 1] = m /\ \A i \in 1..n : outbox'[c][i] = outbox[c][i]
    BY <1>0, <1>3
  <2>2. QED  BY <1>0, <2>1, OwedSame
<1>4. ASSUME NEW m \in Message, m.kind = "approved", m.from = u, outbox'[c] = Append(outbox[c], m)
      PROVE  Owed(outbox'[c], u, Len(outbox'[c]))
  BY <1>0, <1>3, <1>4, OwedNext
<1>5. ASSUME Owed(outbox[c], u, n)  PROVE Owed(outbox'[c], u, Len(outbox'[c]))
  <2>1. ~HearAnswer(c)
    BY <1>2 DEF HearAnswer, Early
  <2>2. CASE outbox'[c] = outbox[c]
    BY <1>5, <2>2
  <2>3. ASSUME NEW m \in Message, outbox'[c] = Append(outbox[c], m),
               ~(m.kind = "info" /\ m.from = u)
        PROVE  Owed(outbox'[c], u, Len(outbox'[c]))
    <3>1. /\ Len(outbox'[c]) = n + 1 /\ outbox'[c][n + 1] = m
          /\ Owed(outbox'[c], u, n)
      BY <1>3, <1>5, <2>3
    <3> HIDE DEF n
    <3>2. Owed(outbox'[c], u, n + 1)
      BY <1>0, <2>3, <3>1, OwedNext
    <3>3. QED  BY <3>1, <3>2
  <2>4. QED  BY <1>1, <2>1, <2>2, <2>3 DEF Posted
<1>6. CASE Approves(u, c) /\ pc'[u] # pc[u]
  BY <1>1, <1>2, <1>4, <1>6
<1>7. CASE ~(Approves(u, c) /\ pc'[u] # pc[u])
  <2>1. \/ c = u /\ pc[u] \in {"approved2", "info"}
        \/ c = target[u] /\ pc[u] = "info"
    BY <1>1, <1>7 DEF Approves
  <2>2. QED  BY <1>2, <1>5, <2>1 DEF Awaited
<1>8. QED  BY <1>6, <1>7

(* Nothing about a peer comes without an approval.                         *)
LEMMA ApprovalFirst ==
    ASSUME IInv, InfoAfterApproval,
           \A c \in Clients : Posted(c) /\ Silent(c) /\ Awaited(c)
    PROVE  InfoAfterApproval'
<1> SUFFICES ASSUME NEW c \in Clients, NEW u \in Users, NEW j \in DOMAIN outbox'[c],
                    outbox'[c][j].kind = "info", outbox'[c][j].from = u
             PROVE  Owed(outbox'[c], u, j - 1)
  BY DEF InfoAfterApproval
<1> DEFINE n == Len(outbox[c])
<1>0. outbox[c] \in Seq(Message) /\ n \in Nat
  BY NamesApart DEF IInv, TypeOK, ServerTypeOK
<1>1. CASE outbox'[c] = outbox[c]
  BY <1>1 DEF InfoAfterApproval
<1>2. CASE HearAnswer(c)
  <2>1. PICK k \in 1..n : outbox'[c] = SubSeq(outbox[c], k + 1, n)
    BY <1>0, <1>2, NamesApart DEF HearAnswer, IInv, TypeOK, ServerTypeOK
  <2>2. \A i \in DOMAIN outbox[c] : outbox[c][i].kind # "info"
    <3>1. Early(c) /\ Silent(c)
      BY <1>2 DEF Early, HearAnswer
    <3>2. QED  BY <3>1 DEF Silent
  <2>3. QED  BY <1>0, <2>1, <2>2, RestIs
<1>3. ASSUME NEW m \in Message, outbox'[c] = Append(outbox[c], m),
             m.kind = "info" /\ m.from = u => Informs(u, c) /\ Reached(c) = c
      PROVE  Owed(outbox'[c], u, j - 1)
  <2>1. j \in 1..(n + 1) /\ outbox'[c][n + 1] = m /\ \A i \in 1..n : outbox'[c][i] = outbox[c][i]
    BY <1>0, <1>3
  <2>2. /\ j - 1 \in Nat /\ \A i \in 1..(j - 1) : outbox'[c][i] = outbox[c][i]
    BY <1>0, <2>1
  <2>3. Owed(outbox[c], u, j - 1)
    <3>1. CASE j = n + 1
      <4>1. pc[u] = "info" /\ c \in {u, target[u]} /\ Reached(c) = c
        BY <1>3, <2>1, <3>1 DEF Informs
      <4>2. Owed(outbox[c], u, n)
        BY <4>1 DEF Awaited
      <4>3. j - 1 = n
        BY <1>0, <3>1
      <4>4. QED  BY <4>2, <4>3
    <3>2. CASE j # n + 1
      <4>1. j \in DOMAIN outbox[c] /\ outbox'[c][j] = outbox[c][j]
        BY <1>0, <2>1, <3>2
      <4>2. QED  BY <4>1 DEF InfoAfterApproval
    <3>3. QED  BY <3>1, <3>2
  <2>4. QED  BY <2>2, <2>3, OwedSame
<1>4. QED  BY <1>1, <1>2, <1>3 DEF Posted

(* What keeps the approvals before what follows them.                      *)
LetterInv ==
    PeersOwn /\ InfoAfterApproval /\ \A c \in Clients : Silent(c) /\ Awaited(c)

(* Every step keeps it.                                                    *)
LEMMA LetterKept ==
    ASSUME IInv, HasRecipient, LetterInv, [Next]_vars
    PROVE  LetterInv'
<1>1. HandlesStay
  BY HandlesKept DEF LetterInv
<1>2. Told /\ \A c \in Clients : Posted(c)
  BY StepPosted DEF LetterInv
<1>3. InfoAfterApproval'
  BY <1>2, ApprovalFirst DEF LetterInv
<1>4. ASSUME NEW c \in Clients  PROVE Silent(c)' /\ Awaited(c)'
  BY <1>1, <1>2, SilenceKept, AwaitedKept DEF LetterInv
<1>5. QED  BY <1>1, <1>3, <1>4 DEF LetterInv, HandlesStay

(* In the beginning nobody is connected.                                   *)
LEMMA LetterInit == Init => LetterInv
<1> SUFFICES ASSUME Init  PROVE LetterInv
  OBVIOUS
<1> USE NamesApart DEF Init, UserInit, ServerInit
<1>1. PeersOwn
  BY ServerAssumption DEF PeersOwn
<1>2. InfoAfterApproval
  BY DEF InfoAfterApproval
<1>3. ASSUME NEW c \in Clients  PROVE Silent(c) /\ Awaited(c)
  <2>1. /\ inbox[c] = <<>> /\ outbox[c] = <<>> /\ msg[c].kind = "garbled" /\ decision[c] = "none"
        /\ \A u \in Users : pc[u] = "idle"
    BY DEF NoPacket
  <2>2. QED  BY <2>1 DEF Silent, Awaited, Verdicts, Uploading, Negotiating
<1>4. QED  BY <1>1, <1>2, <1>3 DEF LetterInv

(* It holds in every reachable state.                                     *)
LEMMA Letters == Spec => []LetterInv
<1>1. IInv /\ HasRecipient /\ LetterInv /\ [Next]_vars => LetterInv'
  BY LetterKept
<1>2. QED  BY <1>1, LetterInit, HandsApart, PTL DEF Spec

(* Keys and address of the peer come to a client only after the approval   *)
(* of the same upload, and once for each approval, in any interleaving of  *)
(* uploads and although handles are used again (fileTransfer,              *)
(* sendTransferInfo).                                                      *)
THEOREM ApprovalsFirst == Spec => []InfoAfterApproval
<1>1. LetterInv => InfoAfterApproval
  BY DEF LetterInv
<1>2. QED  BY <1>1, Letters, PTL

=============================================================================
