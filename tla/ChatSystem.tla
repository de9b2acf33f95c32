------------------------------ MODULE ChatSystem ----------------------------
(***************************************************************************)
(* The whole program: the server of ChatRoom.tla, and in place of what     *)
(* Peers.tla lets a client do the threads of ClientChatRoom.tla.  login()  *)
(* is that of Peers.tla.                                                   *)
(***************************************************************************)
EXTENDS ChatRoom, ClientChatRoom

(* what a client's threads send is among the lines that are considered *)
ASSUME SystemAssumption ==
    \A c \in Clients :
        /\ \A s \in Types[c] : s.kind # "local" => [kind |-> s.kind, arg |-> s.arg] \in Says[c]
        /\ \A kind \in {"yes", "chat"} : [kind |-> kind, arg |-> HostName] \in Says[c]

ServerProgram ==
    \/ \E u \in Users : HandlerStep(u) \/ UseAfterFree(u) \/ BadErrorText(u)
    \/ Say(Host)
    \/ StartTask \/ AcceptorStep \/ HostStep \/ MainStep \/ SpuriousWakeup

LoggingIn(c) == Connect(c) \/ TryName(c) \/ HearAnswer(c) \/ Break(c)

SystemNext ==
    /\ ~crashed
    /\ \/ (ServerProgram \/ \E c \in Clients : LoggingIn(c)) /\ UNCHANGED clientVars
       \/ \E c \in Clients : ClientProgram(c)

systemVars == <<vars, clientVars>>

SystemInit == Init /\ ClientInit

SystemSpec == SystemInit /\ [][SystemNext]_systemVars

(* The clients' schedulers run every thread that can run.  Nobody has to   *)
(* type, and no transfer has to come to its end.                           *)
SystemFairness ==
    \A c \in Clients :
        /\ WF_systemVars(~crashed /\ SendThread(c))
        /\ WF_systemVars(~crashed /\ RecvThread(c))
        /\ WF_systemVars(~crashed /\ QuitThread(c))

-----------------------------------------------------------------------------
(* Correctness. *)

(* Whatever the threads of the clients do, all that the server sees of     *)
(* them is what Peers.tla allows: the detailed client implements the one   *)
(* that ChatRoom.tla was checked with (run_chat_room, sendMessageLoop,     *)
(* recvMessageLoop).                                                       *)
PeersSuffice == [][Next]_vars

(* The server is never answered on behalf of a user who has typed nothing  *)
(* since the request came, unless a flag was left over or something has    *)
(* come too early or too late (receive_fileTransfer).                      *)
AnswerNeedsLine ==
    \A c \in Clients :
        at[c]["recv"] \in {"yes", "no"} => answer[c] # "none" \/ mishap[c]

(* While uploadFile reads what the server sends about the peer, the other  *)
(* thread does not read from the same socket, with the same exceptions     *)
(* (recvMessageLoop).                                                      *)
OneReader ==
    \A c \in Clients : At(c, "send", "fetch") => ~At(c, "recv", "recv") \/ mishap[c]

(* What the server sends about the peer is read by the transfer that needs *)
(* it, and never printed, with the same exceptions and while the           *)
(* connection stands (uploadFile, downloadFile).                           *)
InfoIsFetched ==
    \A c \in Clients : message[c] = "info" => mishap[c] \/ client[c] = "closed"

(* The two threads do not sleep at the same time, one until the other has  *)
(* told it something, while that one waits for it: whoever waits for a     *)
(* verdict or for the end of a transfer has the other thread awake and on  *)
(* its way to notify it.  Not so when a notification fell between a test   *)
(* and the sleep after it (UploadGoesOn), or a flag was left over          *)
(* (mishap).  One case is not excluded: an /upload that is typed while a   *)
(* request comes in leaves both asleep until there is a decision, which    *)
(* only they could take or receive (send_fileTransfer,                     *)
(* receive_fileTransfer, recvMessageLoop).                                 *)
NoCircularWait ==
    \A c \in Clients :
        /\ {at[c]["send"], at[c]["recv"]} \subseteq {"asleep", "tasleep"}
        /\ ~(At(c, "send", "asleep") /\ At(c, "recv", "asleep"))
        => mishap[c]

-----------------------------------------------------------------------------
(* Progress. *)

(* When the client has decided to quit, the connection is closed, unless   *)
(* the one notification came before the main thread waited for it          *)
(* (signalShutdown, run_chat_room).                                        *)
ClientCloses ==
    \A c \in Clients : flag[c].shouldQuit ~> client[c] = "closed" \/ mishap[c] \/ crashed

(* When a download or a refusal is over, the thread that reads the         *)
(* keyboard goes on, unless something has come too early or too late       *)
(* (receive_fileTransfer, sendMessageLoop).                                *)
KeyboardComesBack ==
    \A c \in Clients :
        At(c, "recv", "wake")
            ~> at[c]["send"] \notin {"twait", "tblocking", "tasleep"} \/ mishap[c] \/ crashed

(* In a session without transfers, once the host has said /end the         *)
(* clients' own threads hang up and every thread of the server's pool      *)
(* returns, unless /end has come in one piece with another packet or the   *)
(* one notification was lost: the client program meets the proviso of      *)
(* EndStopsThreads (recvMessageLoop, signalShutdown, handleClient).        *)
(* Nobody logs in while /end is sent, as there.                            *)
EndReachesAll ==
    Fairness /\ [](Transferring = {})
        => (shouldQuit ~> Busy = {} \/ (\E c \in Clients : mishap[c]) \/ crashed)

-----------------------------------------------------------------------------
(* What the documentation says and the code does not do. *)

(* "[*] Accept Transfer (y/n)", "Transfer approved" (sendMessageLoop): the *)
(* server is told yes only if the line that was taken for the answer says  *)
(* yes, and no only if it says no.                                         *)
AnswerIsTheUsers ==
    \A c \in Clients :
        /\ At(c, "recv", "yes") => answer[c] # "no"
        /\ At(c, "recv", "no") => answer[c] # "yes"

(* "wait till transfer is complete" (recvMessageLoop): while the end of an *)
(* upload is waited for, the upload goes on.  It does not when the verdict *)
(* was notified before the sending thread slept.                           *)
UploadGoesOn ==
    \A c \in Clients : At(c, "recv", "tasleep") => ~At(c, "send", "asleep")

=============================================================================
