------------------------------ MODULE Transfer ------------------------------
(***************************************************************************)
(* fileTransfer, in the uploader's thread: look the recipient up, mark     *)
(* both as transferring, ask, wait for the decision, pass it on with what  *)
(* the two clients need to connect to each other, and take the marks away. *)
(* Its calls of sendMessage are among the utterances of Relay.tla.         *)
(***************************************************************************)
EXTENDS Relay

LookUp(t) ==
    /\ Handling(t, "upload")
    /\ Unlocked
    /\ LET r == findUserByUsername(msg[t].arg) IN
       IF r = Nobody \/ Same(r, t)
       THEN Goto(t, "invalid") /\ UNCHANGED target
       ELSE Goto(t, "markThem") /\ target' = [target EXCEPT ![t] = r]
    /\ UNCHANGED <<userVars, serverVars, msg, idx, control, sent>>

MarkNobody(t) ==
    /\ pc[t] = "markThem"
    /\ Moves(t, "markSelf")

MarkThem(t) ==
    /\ pc[t] = "markThem"
    /\ signalStartOfTransfer(target[t])
    /\ Goto(t, "markSelf")
    /\ UNCHANGED <<username, decision, futureTaken, serverVars, locals, control, sent>>

MarkSelf(t) ==
    /\ pc[t] = "markSelf"
    /\ signalStartOfTransfer(t)
    /\ Goto(t, "request")
    /\ UNCHANGED <<username, decision, futureTaken, serverVars, locals, control, sent>>

(* awaitDecision: get() blocks on the future it has moved out *)
AwaitDecision(t) ==
    /\ pc[t] = "get"
    /\ takeFuture(target[t])
    /\ Goto(t, "await")
    /\ UNCHANGED <<username, isTransfering, decision, serverVars, locals, control, sent>>

(* the catch block returns and leaves the marks *)
AwaitGivesUp(t) ==
    /\ \/ pc[t] = "get" /\ futureTaken[target[t]]
       \/ pc[t] = "await" /\ decision[target[t]] = "none" /\ target[t] \in freed
    /\ BackToLoop(t)
    /\ UNCHANGED <<userVars, serverVars, control, sent>>

(* get() throws: no_state if another thread has taken the future,          *)
(* broken_promise if the User is destroyed before the decision             *)
AwaitThrows(t) ==
    /\ \/ pc[t] = "get" /\ futureTaken[target[t]]
       \/ pc[t] = "await" /\ decision[target[t]] = "none" /\ target[t] \in freed
    /\ Moves(t, "failed1")

(* without resetTransfer *)
DecidedOnce(t) ==
    /\ pc[t] = "await"
    /\ decision[target[t]] # "none"
    /\ Moves(t, IF decision[target[t]] = "yes" THEN "approved1" ELSE "denied1")

(* without a word to the uploader *)
DecidedSilently(t) ==
    /\ pc[t] = "await"
    /\ decision[target[t]] # "none"
    /\ resetTransfer(target[t])
    /\ Goto(t, IF decision[target[t]] = "yes" THEN "approved2" ELSE "denied1")
    /\ UNCHANGED <<username, isTransfering, serverVars, locals, control, sent>>

Decided(t) ==
    /\ pc[t] = "await"
    /\ decision[target[t]] # "none"
    /\ resetTransfer(target[t])
    /\ Goto(t, IF decision[target[t]] = "yes" THEN "approved1" ELSE "denied1")
    /\ UNCHANGED <<username, isTransfering, serverVars, locals, control, sent>>

(* then, if the server is a party, its own uploadFile or downloadFile *)
SendInfo(t) ==
    /\ pc[t] = "info"
    /\ sendTransferInfo(t, target[t])
    /\ Goto(t, IF Host \in {t, target[t]} THEN "stream" ELSE "unmarkThem")
    /\ UNCHANGED <<userVars, registryVars, socketVars, client, inbox, locals, control, sent>>

(* uploadFile or downloadFile of the server returns, or the error is printed *)
Resume(t) ==
    /\ pc[t] \in {"stream", "report"}
    /\ Moves(t, "unmarkThem")

UnmarkThem(t) ==
    /\ pc[t] = "unmarkThem"
    /\ signalEndOfTransfer(target[t])
    /\ Goto(t, "unmarkSelf")
    /\ UNCHANGED <<username, decision, futureTaken, serverVars, locals, control, sent>>

UnmarkSelf(t) ==
    /\ pc[t] = "unmarkSelf"
    /\ signalEndOfTransfer(t)
    /\ BackToLoop(t)
    /\ UNCHANGED <<username, decision, futureTaken, serverVars, control, sent>>

=============================================================================
