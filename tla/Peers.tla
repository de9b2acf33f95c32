-------------------------------- MODULE Peers -------------------------------
(***************************************************************************)
(* The clients, as far as their packets go: login() of ClientChatRoom.h    *)
(* decides when a client tries a name and when it believes to be logged    *)
(* in, and it hangs up after /quit and after it has read /end.  What a     *)
(* client sends once it is in is up to the person at its keyboard, and so  *)
(* is what the host types; ClientChatRoom.tla has the threads in between.  *)
(***************************************************************************)
EXTENDS Threads

Put(u, s) ==
    /\ sent[u] < Quota[u]
    /\ sent' = [sent EXCEPT ![u] = @ + 1]
    /\ inbox' = [inbox EXCEPT ![u] =
                   Append(@, [kind |-> s.kind, arg |-> s.arg, n |-> sent[u] + 1])]

Connect(c) ==
    /\ client[c] = "out"
    /\ client' = [client EXCEPT ![c] = "dialing"]
    /\ UNCHANGED <<userVars, registryVars, socketVars, inbox, outbox, pc, locals,
                   control, sent>>

(* login(): send a name and wait for the answer *)
TryName(c) ==
    /\ client[c] = "naming"
    /\ \E s \in Says[c] : s.kind = "name" /\ Put(c, s)
    /\ client' = [client EXCEPT ![c] = "asking"]
    /\ UNCHANGED <<userVars, registryVars, socketVars, outbox, pc, locals, control>>

(* login(): whatever one recv returns is taken for the answer *)
HearAnswer(c) ==
    /\ client[c] = "asking"
    /\ \E k \in 1..Len(outbox[c]) :
          /\ outbox' = [outbox EXCEPT ![c] = SubSeq(@, k + 1, Len(@))]
          /\ client' = [client EXCEPT ![c] =
                          IF k = 1 /\ Head(outbox[c]).kind = "valid" THEN "in" ELSE "naming"]
    /\ UNCHANGED <<userVars, registryVars, socketVars, inbox, pc, locals, control, sent>>

(* a line of a client, or of the host; after /quit the client's receive    *)
(* thread may still send the answer to a request                           *)
Say(u) ==
    /\ u \in Clients => client[u] \in {"in", "leaving"}
    /\ \E s \in Says[u] :
          /\ s.kind # "name"
          /\ u \in Clients /\ client[u] = "leaving" => s.kind \in {"yes", "chat"}
          /\ Put(u, s)
          /\ client' = IF s.kind = "quit" THEN [client EXCEPT ![u] = "leaving"] ELSE client
    /\ UNCHANGED <<userVars, registryVars, socketVars, outbox, pc, locals, control>>

(* closeClient, after /quit or after the client has read "/end" *)
HangUp(c) ==
    /\ \/ client[c] = "leaving"
       \/ client[c] = "in" /\ \E i \in DOMAIN outbox[c] : outbox[c][i].kind = "end"
    /\ client' = [client EXCEPT ![c] = "closed"]
    /\ UNCHANGED <<userVars, registryVars, socketVars, inbox, outbox, pc, locals,
                   control, sent>>

(* the connection breaks; what was under way may be lost with it *)
Break(c) ==
    /\ c \in MayDrop
    /\ sock[c] # Nobody
    /\ \/ client[c] # "closed" /\ UNCHANGED inbox
       \/ inbox[c] # <<>> /\ inbox' = [inbox EXCEPT ![c] = <<>>]
    /\ client' = [client EXCEPT ![c] = "closed"]
    /\ UNCHANGED <<userVars, registryVars, socketVars, outbox, pc, locals, control, sent>>

=============================================================================
