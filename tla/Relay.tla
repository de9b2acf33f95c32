-------------------------------- MODULE Relay -------------------------------
(***************************************************************************)
(* handleClient and sendMessageLoop: read a line, take it for a decision   *)
(* if the reader is in a transfer, and otherwise do what it says; the      *)
(* commands, and the broadcasts under usersMutex.                          *)
(***************************************************************************)
EXTENDS Threads

TestQuit(t) ==
    /\ pc[t] = "loop"
    /\ Moves(t, IF shouldQuit THEN "done" ELSE "recv")

(* One recv, or one getline of the host, and the test of inFileTransfer    *)
(* that follows it.  A recv takes all that has arrived.  After the thread  *)
(* has removed its own User the socket is whatever the handle is now.      *)
Receive(t) ==
    /\ pc[t] = "recv"
    /\ LET c == peer[sock[t]] IN
       /\ c # Nobody
       /\ \E k \in 1..Len(inbox[c]) :
             /\ t = Host => k = 1
             /\ msg' = [msg EXCEPT ![t] = Opened(t, c, k)]
             /\ inbox' = [inbox EXCEPT ![c] = SubSeq(@, k + 1, Len(@))]
    /\ Goto(t, IF isTransfering[t] THEN "decide" ELSE "dispatch")
    /\ UNCHANGED <<userVars, registryVars, socketVars, client, outbox, target, idx,
                   control, sent>>

(* the connection is closed or broken: recvMessage throws *)
ReceiveThrows(t) ==
    /\ pc[t] = "recv"
    /\ t # Host
    /\ LET c == peer[sock[t]] IN
       c \in Clients => client[c] = "closed" /\ inbox[c] = <<>>
    /\ Moves(t, "catch")

Decide(t) ==
    /\ pc[t] = "decide"
    /\ setTransferDecision(t, IF msg[t].kind = "yes" THEN "yes" ELSE "no")
    /\ Goto(t, "parked")
    /\ UNCHANGED <<username, isTransfering, futureTaken, serverVars, locals, control, sent>>

(* promise_already_satisfied: caught in handleClient, by no one in the host's thread *)
DecideThrows(t) ==
    /\ pc[t] = "decide"
    /\ decision[t] # "none"
    /\ IF t = Host THEN crashed' = TRUE /\ UNCHANGED pc
                   ELSE Goto(t, "catch") /\ UNCHANGED crashed
    /\ UNCHANGED <<userVars, serverVars, locals, taskQueue, shouldQuit, sent>>

(* a wait without its predicate *)
wait_once(t) ==
    /\ pc[t] = "parked"
    /\ BackToLoop(t)
    /\ UNCHANGED <<userVars, serverVars, control, sent>>

wait_completeTransfer(t) ==
    /\ pc[t] = "parked"
    /\ ~isTransfering[t]
    /\ BackToLoop(t)
    /\ UNCHANGED <<userVars, serverVars, control, sent>>

CatchAll(t) ==
    /\ pc[t] = "catch"
    /\ Goto(t, IF shouldQuit THEN "done" ELSE "dispatch")
    /\ msg' = [msg EXCEPT ![t] = [NoPacket EXCEPT !.kind = "left"]]
    /\ UNCHANGED <<userVars, serverVars, target, idx, control, sent>>

(* the handler of handleClient: say goodbye, unless the server is closing  *)
(* or the User is still registered                                         *)
Catch(t) ==
    /\ pc[t] = "catch"
    /\ shouldQuit \/ Unlocked
    /\ IF shouldQuit \/ userExists(username[t])
       THEN Goto(t, "done") /\ UNCHANGED msg
       ELSE /\ Goto(t, "dispatch")
            /\ msg' = [msg EXCEPT ![t] = [NoPacket EXCEPT !.kind = "left"]]
    /\ UNCHANGED <<userVars, serverVars, target, idx, control, sent>>

-----------------------------------------------------------------------------
(* handleIncomingMessages and handleOutgoingMessages, by kind of line. *)

Handling(t, kind) == pc[t] = "dispatch" /\ msg[t].kind = kind

Quit(t) ==
    /\ Handling(t, "quit")
    /\ removeUser(t)
    /\ BackToLoop(t)
    /\ UNCHANGED <<userVars, usersMutex, sock, client, inbox, outbox, control, sent>>

(* getUsers_str; the roster's text is left out *)
ListUsers(t) ==
    /\ Handling(t, "users")
    /\ Unlocked
    /\ Moves(t, "reply")

ListCommands(t) ==
    /\ Handling(t, "commands")
    /\ Moves(t, "reply")

(* findUserBySocket(findSocketByUsername(recipient)), two critical sections *)
WhisperSocket(t) ==
    /\ Handling(t, "whisper")
    /\ Unlocked
    /\ target' = [target EXCEPT ![t] = findSocketByUsername(msg[t].arg)]
    /\ Goto(t, "find")
    /\ UNCHANGED <<userVars, serverVars, msg, idx, control, sent>>

WhisperUser(t) ==
    /\ pc[t] = "find"
    /\ Unlocked
    /\ target' = [target EXCEPT ![t] = findUserBySocket(target[t])]
    /\ Goto(t, IF target'[t] = Nobody THEN "unfound" ELSE "whisper")
    /\ UNCHANGED <<userVars, serverVars, msg, idx, control, sent>>

-----------------------------------------------------------------------------
(* broadcastMessageExceptSender, and broadcastMessage for "left": the loop *)
(* runs under usersMutex, the flags are read outside their mutexes.        *)

Broadcasts == {"name", "chat", "yes", "garbled", "end", "left"}

(* without the lock_guard *)
BeginUnlocked(t) ==
    /\ pc[t] = "dispatch"
    /\ msg[t].kind \in Broadcasts
    /\ idx' = [idx EXCEPT ![t] = 1]
    /\ Goto(t, "scan")
    /\ UNCHANGED <<userVars, serverVars, msg, target, control, sent>>

BeginBroadcast(t) ==
    /\ pc[t] = "dispatch"
    /\ msg[t].kind \in Broadcasts
    /\ Unlocked
    /\ usersMutex' = t
    /\ idx' = [idx EXCEPT ![t] = 1]
    /\ Goto(t, "scan")
    /\ UNCHANGED <<userVars, users, freed, socketVars, client, inbox, outbox, msg, target,
                   control, sent>>

PassesOver(t, u) == isTransfering[u] \/ (msg[t].kind # "left" /\ Same(t, u))

Scan(t) ==
    /\ pc[t] = "scan"
    /\ idx[t] <= Len(users)
    /\ IF PassesOver(t, users[idx[t]])
       THEN idx' = [idx EXCEPT ![t] = @ + 1] /\ UNCHANGED pc
       ELSE Goto(t, "send") /\ UNCHANGED idx
    /\ UNCHANGED <<userVars, serverVars, msg, target, control, sent>>

Notice(t) ==
    [kind |-> IF msg[t].kind \in {"name", "yes"} THEN "chat" ELSE msg[t].kind,
     from |-> t, n |-> msg[t].n]

SendOne(t) ==
    /\ pc[t] = "send"
    /\ sendMessage(users[idx[t]], Notice(t))
    /\ idx' = [idx EXCEPT ![t] = @ + 1]
    /\ Goto(t, "scan")
    /\ UNCHANGED <<userVars, registryVars, socketVars, client, inbox, msg, target,
                   control, sent>>

(* the loop ends before the last entry *)
EndBeforeLast(t) ==
    /\ pc[t] = "scan"
    /\ idx[t] >= Len(users)
    /\ usersMutex' = Nobody
    /\ IF msg[t].kind \in {"left", "end"}
       THEN /\ Goto(t, IF msg[t].kind = "left" THEN "done" ELSE "ending")
            /\ UNCHANGED locals
       ELSE BackToLoop(t)
    /\ UNCHANGED <<userVars, users, freed, socketVars, client, inbox, outbox, control, sent>>

(* the mutex is not released *)
EndLocked(t) ==
    /\ pc[t] = "scan"
    /\ idx[t] > Len(users)
    /\ IF msg[t].kind \in {"left", "end"}
       THEN /\ Goto(t, IF msg[t].kind = "left" THEN "done" ELSE "ending")
            /\ UNCHANGED locals
       ELSE BackToLoop(t)
    /\ UNCHANGED <<userVars, serverVars, control, sent>>

EndBroadcast(t) ==
    /\ pc[t] = "scan"
    /\ idx[t] > Len(users)
    /\ usersMutex' = Nobody
    /\ IF msg[t].kind \in {"left", "end"}
       THEN /\ Goto(t, IF msg[t].kind = "left" THEN "done" ELSE "ending")
            /\ UNCHANGED locals
       ELSE BackToLoop(t)
    /\ UNCHANGED <<userVars, users, freed, socketVars, client, inbox, outbox, control, sent>>

-----------------------------------------------------------------------------
(* The calls of sendMessage outside a broadcast: to whom, what, and what   *)
(* comes next.  Both error messages of a failed transfer go to the         *)
(* recipient.  The answer to a whisper that finds no one is sent as plain  *)
(* text, which the client cannot open.                                     *)

Utterance(t) ==
    CASE pc[t] = "reply"     -> [to |-> t, kind |-> IF msg[t].kind = "users" THEN "roster"
                                                    ELSE "commands", next |-> "loop"]
      [] pc[t] = "unfound"   -> [to |-> t, kind |-> "unfound", next |-> "loop"]
      [] pc[t] = "whisper"   -> [to |-> target[t], kind |-> "whisper", next |-> "loop"]
      [] pc[t] = "invalid"   -> [to |-> t, kind |-> "invalid", next |-> "loop"]
      [] pc[t] = "request"   -> [to |-> target[t], kind |-> "request", next |-> "get"]
      [] pc[t] = "approved1" -> [to |-> t, kind |-> "approved", next |-> "approved2"]
      [] pc[t] = "approved2" -> [to |-> target[t], kind |-> "approved", next |-> "info"]
      [] pc[t] = "denied1"   -> [to |-> t, kind |-> "denied", next |-> "denied2"]
      [] pc[t] = "denied2"   -> [to |-> target[t], kind |-> "denied", next |-> "unmarkThem"]
      [] pc[t] = "failed1"   -> [to |-> target[t], kind |-> "failed", next |-> "failed2"]
      [] pc[t] = "failed2"   -> [to |-> target[t], kind |-> "failed", next |-> "report"]

Utter(t) ==
    /\ pc[t] \in Saying
    /\ LET s == Utterance(t) IN
       /\ sendMessage(s.to, [kind |-> s.kind, from |-> t, n |-> msg[t].n])
       /\ IF s.next = "loop" THEN BackToLoop(t) ELSE Goto(t, s.next) /\ UNCHANGED locals
    /\ UNCHANGED <<userVars, registryVars, socketVars, client, inbox, control, sent>>

=============================================================================
