-------------------------- MODULE ChatSystemProofs --------------------------
(* The whole program: its clients do to the server only what Peers.tla     *)
(* lets them do, so that what is proved of the server holds of the whole   *)
(* program; and what the two threads of a client never do to each other,   *)
(* nor to what the server sends them about a peer.                         *)
EXTENDS ChatSystem, RelayProofs

-----------------------------------------------------------------------------
(* What a step does to the places and the flags of a client. *)

(* The places and the flags, as ClientTypeOK has them.                     *)
Places(t) == IF t = "send" THEN SendPC ELSE IF t = "recv" THEN RecvPC ELSE QuitPC
ClientThreads == {"send", "recv", "main"}
Flags == {"shouldQuit", "fileTransfer", "transferComplete", "decided"}

PlacesOK ==
    /\ at \in [Clients -> [ClientThreads -> SendPC \cup RecvPC \cup QuitPC]]
    /\ \A c \in Clients : at[c]["send"] \in SendPC /\ at[c]["recv"] \in RecvPC
                          /\ at[c]["main"] \in QuitPC

FlagsOK == flag \in [Clients -> [Flags -> BOOLEAN]]

(* A jump moves one thread of one client.                                  *)
LEMMA JumpIs ==
    ASSUME PlacesOK, NEW c \in Clients, NEW t \in ClientThreads, NEW l \in Places(t),
           Jump(c, t, l)
    PROVE  /\ PlacesOK'
           /\ at'[c][t] = l
           /\ \A u \in ClientThreads \ {t} : at'[c][u] = at[c][u]
           /\ \A d \in Clients \ {c} : at'[d] = at[d]
<1> DEFINE PCs == SendPC \cup RecvPC \cup QuitPC
           A == [at[c] EXCEPT ![t] = l]
<1>1. l \in PCs
  BY DEF Places
<1>2. at \in [Clients -> [ClientThreads -> PCs]]
  BY DEF PlacesOK
<1>3. at' = [at EXCEPT ![c] = A]
  BY DEF Jump
<1> HIDE DEF PCs
<1>4. A \in [ClientThreads -> PCs] /\ A[t] = l /\ \A u \in ClientThreads \ {t} : A[u] = at[c][u]
  BY <1>1, <1>2
<1> HIDE DEF A
<1>5. at' \in [Clients -> [ClientThreads -> PCs]] /\ at'[c] = A
      /\ \A d \in Clients \ {c} : at'[d] = at[d]
  BY <1>2, <1>3, <1>4
<1>6. at'[c]["send"] \in SendPC /\ at'[c]["recv"] \in RecvPC /\ at'[c]["main"] \in QuitPC
  BY <1>4, <1>5 DEF PlacesOK, Places, ClientThreads
<1>7. \A d \in Clients : at'[d]["send"] \in SendPC /\ at'[d]["recv"] \in RecvPC
                         /\ at'[d]["main"] \in QuitPC
  BY <1>5, <1>6 DEF PlacesOK
<1>8. PlacesOK'
  BY <1>5, <1>7 DEF PlacesOK, PCs
<1>9. QED  BY <1>4, <1>5, <1>8

(* A store changes one flag of one client.                                 *)
LEMMA StoreIs ==
    ASSUME FlagsOK, NEW c \in Clients, NEW f \in Flags, NEW v \in BOOLEAN, Store(c, f, v)
    PROVE  /\ FlagsOK'
           /\ flag'[c][f] = v
           /\ \A g \in Flags \ {f} : flag'[c][g] = flag[c][g]
           /\ \A d \in Clients \ {c} : flag'[d] = flag[d]
<1> DEFINE A == [flag[c] EXCEPT ![f] = v]
<1>1. flag \in [Clients -> [Flags -> BOOLEAN]] /\ flag' = [flag EXCEPT ![c] = A]
  BY DEF FlagsOK, Store
<1>2. A \in [Flags -> BOOLEAN] /\ A[f] = v /\ \A g \in Flags \ {f} : A[g] = flag[c][g]
  BY <1>1
<1> HIDE DEF A
<1>3. QED  BY <1>1, <1>2 DEF FlagsOK
-----------------------------------------------------------------------------
(* The invariant of a client. *)

(* Before its login() returns a client has no threads and has read nothing *)
(* that the model still keeps.                                             *)
BeforeStart(c) ==
    At(c, "main", "login") =>
        /\ At(c, "send", "off") /\ At(c, "recv", "off")
        /\ heard[c] = 0 /\ message[c] = "garbled" /\ ~flag[c].shouldQuit

(* Its threads run only once it is in.                                     *)
AfterLogin(c) == ~At(c, "main", "login") => client[c] \in {"in", "leaving", "closed"}

(* The server has said /end.                                               *)
EndCame(c) == \E i \in DOMAIN outbox[c] : outbox[c][i].kind = "end"

(* A client that has heard /end was sent it.                               *)
EndHeard(c) == message[c] = "end" => EndCame(c)

(* Who has said /quit sends no line any more.                              *)
SaysNoMore(c) ==
    /\ client[c] = "leaving" =>
           \/ at[c]["send"] \in {"signal", "notify", "done"}
           \/ At(c, "send", "loop") /\ flag[c].shouldQuit
    /\ At(c, "send", "notify") => flag[c].shouldQuit

(* A client gives up only after /quit or /end.                             *)
GivesUp(c) ==
    \/ flag[c].shouldQuit \/ At(c, "main", "close")
    \/ at[c]["send"] \in {"signal", "notify"} \/ at[c]["recv"] \in {"signal", "notify"}

(* And then it is not simply in.                                           *)
HasReason(c) == GivesUp(c) => client[c] # "in" \/ EndCame(c)

(* What is sent has been typed.                                            *)
SendsTyped(c) == At(c, "send", "dispatch") => line[c] \in Types[c]

(* recvMessageLoop has passed a verdict on, and waits for the transfer.    *)
Completing == {"tmark", "tell", "tcheck", "twait", "tblocking", "tasleep"}

(* sendMessageLoop has taken a verdict.                                    *)
Sharing == {"choose", "fetch", "stream", "unmark", "complete"}

(* A verdict that was passed on is still there, or it has been taken, or   *)
(* the transfer it was about is over; and one that sendMessageLoop has set *)
(* itself is still there.                                                  *)
HandedOver(c) ==
    at[c]["recv"] \in Completing =>
        /\ flag[c].decided \/ flag[c].transferComplete \/ at[c]["send"] \in Sharing
        /\ at[c]["send"] \in {"refuse", "tell", "twait", "tblocking", "tasleep", "reset"}
               => flag[c].decided

(* An upload begins with clean flags while the other thread has no         *)
(* transfer of its own, and from the verdict on the other thread waits.    *)
UploadAlone(c) ==
    ~mishap[c] /\ at[c]["send"] \in Waiting \cup Sharing =>
        /\ ~flag[c].transferComplete
        /\ at[c]["recv"] \notin {"choose", "yes", "no", "first", "fetch", "stream", "complete", "wake"}
        /\ flag[c].decided \/ at[c]["send"] \in Sharing => at[c]["recv"] \in Completing

(* A verdict is stored as one only while the upload it is about goes on.   *)
MarksInTime(c) ==
    ~mishap[c] /\ At(c, "recv", "tmark") /\ flag[c].fileTransfer =>
        at[c]["send"] \in Waiting \cup (Sharing \ {"complete"})

(* A line that was taken for an answer is one, since the request.          *)
Answered(c) ==
    ~mishap[c] =>
        /\ at[c]["recv"] \in {"handle", "lock"} /\ flag[c].fileTransfer =>
               at[c]["send"] \in Waiting
        /\ At(c, "send", "decide") =>
               flag[c].fileTransfer /\ at[c]["recv"] \notin {"handle", "lock"}
               /\ answer[c] # "none"
        /\ \/ at[c]["recv"] \in {"choose", "yes", "no"}
           \/ at[c]["recv"] \in Waiting /\ flag[c].decided
           => answer[c] # "none"

(* sendMessageLoop has taken a line for the answer to a request.           *)
Replying == {"refuse", "tell", "twait", "tblocking", "tasleep"}

(* An answer that was given is still there, or it has been taken, or the   *)
(* download it was about is over.                                          *)
StillServed(c) ==
    at[c]["send"] \in Replying =>
        \/ flag[c].decided \/ flag[c].transferComplete
        \/ at[c]["recv"] \in {"choose", "yes", "no", "first", "fetch", "stream", "complete", "done"}

(* Who was to be woken by a verdict does not sleep.                        *)
Woken(c) ==
    ~mishap[c] =>
        /\ at[c]["recv"] \in {"tcheck", "twait", "tblocking", "tasleep"} =>
               at[c]["send"] \notin {"blocking", "asleep"}
        /\ at[c]["send"] \in Replying /\ at[c]["recv"] \in Waiting => flag[c].decided
        /\ at[c]["send"] \in {"twait", "tblocking", "tasleep"} =>
               at[c]["recv"] \notin {"blocking", "asleep"}

(* When sendMessageLoop is done with an upload before recvMessageLoop has  *)
(* begun to wait for it, the end of it is marked; and when it answers in   *)
(* the meantime it does not find the other thread asleep.                  *)
Ahead(c) ==
    ~mishap[c] /\ at[c]["recv"] \in Completing /\ at[c]["send"] \notin Waiting \cup Sharing =>
        /\ At(c, "recv", "tmark") =>
               /\ flag[c].transferComplete
               /\ at[c]["send"] \notin Replying \cup {"decide", "reset", "clear"}
        /\ At(c, "send", "wake") => flag[c].transferComplete
        /\ \/ at[c]["send"] \in Replying \cup {"decide"}
           \/ flag[c].fileTransfer /\ at[c]["send"] \notin {"wake", "clear"}
           => flag[c].transferComplete /\ at[c]["recv"] \notin {"tblocking", "tasleep"}

(* The invariant of client c.                                              *)
ClientInv(c) ==
    /\ BeforeStart(c) /\ AfterLogin(c) /\ EndHeard(c) /\ SaysNoMore(c) /\ HasReason(c)
    /\ SendsTyped(c) /\ HandedOver(c) /\ UploadAlone(c) /\ MarksInTime(c) /\ Answered(c)
    /\ StillServed(c) /\ Woken(c) /\ Ahead(c)

-----------------------------------------------------------------------------
(* Steps of a client. *)

(* What is not shared by two threads of one client has its type.           *)
RestOK ==
    /\ line \in [Clients -> Typed]
    /\ message \in [Clients -> Notices]
    /\ heard \in [Clients -> Nat]
    /\ typed \in [Clients -> Nat]
    /\ answer \in [Clients -> {"none", "yes", "no"}]
    /\ mishap \in [Clients -> BOOLEAN]
    /\ \A c \in Clients : heard[c] <= Len(outbox[c]) /\ typed[c] <= Lines[c]

(* The type invariant of the clients in three parts.                       *)
LEMMA ClientTypeIs == ClientTypeOK <=> PlacesOK /\ FlagsOK /\ RestOK
BY DEF ClientTypeOK, PlacesOK, FlagsOK, RestOK, ClientThreads, Flags

(* A step leaves client d and its threads alone.                           *)
Untouched(d) ==
    /\ at'[d] = at[d] /\ flag'[d] = flag[d] /\ line'[d] = line[d]
    /\ message'[d] = message[d] /\ heard'[d] = heard[d] /\ typed'[d] = typed[d]
    /\ answer'[d] = answer[d] /\ mishap'[d] = mishap[d]
    /\ client'[d] = client[d]

(* All but the places and the flags of c stays as it is.                   *)
Calm(c) ==
    /\ line'[c] = line[c] /\ message'[c] = message[c] /\ heard'[c] = heard[c]
    /\ typed'[c] = typed[c] /\ answer'[c] = answer[c] /\ mishap'[c] = mishap[c]
    /\ client'[c] = client[c] /\ outbox' = outbox

(* Thread t of client c has gone to l, and nothing else has changed.       *)
Moved(c, t, l) ==
    /\ ClientTypeOK'
    /\ at'[c][t] = l /\ \A u \in ClientThreads \ {t} : at'[c][u] = at[c][u]
    /\ flag' = flag /\ Calm(c)
    /\ \A d \in Clients \ {c} : Untouched(d)

(* It has also stored v in flag f.                                         *)
Stored(c, t, l, f, v) ==
    /\ ClientTypeOK'
    /\ at'[c][t] = l /\ \A u \in ClientThreads \ {t} : at'[c][u] = at[c][u]
    /\ flag'[c][f] = v /\ \A g \in Flags \ {f} : flag'[c][g] = flag[c][g]
    /\ Calm(c)
    /\ \A d \in Clients \ {c} : Untouched(d)

(* What a step does that only moves a thread.                              *)
LEMMA ProceedIs ==
    ASSUME ClientTypeOK, NEW c \in Clients, NEW t \in ClientThreads, NEW l \in Places(t),
           Proceed(c, t, l)
    PROVE  Moved(c, t, l)
<1>1. PlacesOK /\ FlagsOK /\ RestOK
  BY ClientTypeIs
<1>2. /\ UNCHANGED <<flag, line, message, heard, typed, answer, mishap, client, outbox>>
      /\ Jump(c, t, l)
  BY DEF Proceed, Local, serving, socketState
<1>3. FlagsOK' /\ RestOK'
  BY <1>1, <1>2 DEF FlagsOK, RestOK
<1>4. PlacesOK' /\ at'[c][t] = l /\ (\A u \in ClientThreads \ {t} : at'[c][u] = at[c][u])
      /\ \A d \in Clients \ {c} : at'[d] = at[d]
  BY <1>1, <1>2, JumpIs
<1>5. ClientTypeOK'
  BY <1>3, <1>4 DEF ClientTypeOK, PlacesOK, FlagsOK, RestOK, ClientThreads, Flags
<1>6. QED  BY <1>2, <1>4, <1>5 DEF Calm, Untouched, Moved

(* What a step does that stores a flag and moves a thread.                 *)
LEMMA StoreJumpIs ==
    ASSUME ClientTypeOK, NEW c \in Clients, NEW t \in ClientThreads, NEW l \in Places(t),
           NEW f \in Flags, NEW v \in BOOLEAN,
           Store(c, f, v), Jump(c, t, l), Local(c)
    PROVE  Stored(c, t, l, f, v)
<1>1. PlacesOK /\ FlagsOK /\ RestOK
  BY ClientTypeIs
<1>2. UNCHANGED <<line, message, heard, typed, answer, mishap, client, outbox>>
  BY DEF Local, serving, socketState
<1>3. RestOK'
  BY <1>1, <1>2 DEF RestOK
<1>4. PlacesOK' /\ at'[c][t] = l /\ (\A u \in ClientThreads \ {t} : at'[c][u] = at[c][u])
      /\ \A d \in Clients \ {c} : at'[d] = at[d]
  BY <1>1, JumpIs
<1>5. FlagsOK' /\ flag'[c][f] = v /\ (\A g \in Flags \ {f} : flag'[c][g] = flag[c][g])
      /\ \A d \in Clients \ {c} : flag'[d] = flag[d]
  BY <1>1, StoreIs
<1>6. ClientTypeOK'
  BY <1>3, <1>4, <1>5 DEF ClientTypeOK, PlacesOK, FlagsOK, RestOK, ClientThreads, Flags
<1>7. QED  BY <1>2, <1>4, <1>5, <1>6 DEF Calm, Untouched, Stored

(* recvMessageLoop has an approval in its hands that has not led to the    *)
(* reading of what follows it, or downloadFile is about to read.           *)
Owing(c) ==
    \/ At(c, "recv", "fetch")
    \/ message[c] = "approved" /\ at[c]["recv"] \in {"test", "tlock"}
    \/ /\ message[c] = "approved" /\ at[c]["recv"] \in Completing
       /\ \/ at[c]["send"] \in Waiting /\ flag[c].decided
          \/ at[c]["send"] \in {"choose", "fetch"}

(* The flag stands while the verdict is waited for, until a verdict takes  *)
(* it back.                                                                *)
Raised(c) ==
    at[c]["send"] \in Waiting \cup {"choose"} =>
        \/ flag[c].fileTransfer
        \/ at[c]["recv"] \in Completing \ {"tmark"} /\ message[c] # "approved"

(* A step in which c receives nothing loses nothing that it is to read.    *)
Steady(c) ==
    /\ heard'[c] = heard[c] /\ message'[c] \in {message[c], "garbled"}
    /\ client[c] = "closed" => client'[c] = "closed"
    /\ ~mishap'[c] => ~mishap[c]
    /\ ~mishap'[c] /\ Raised(c) => Raised(c)' /\ (Owing(c) => Owing(c)')

(* What a step of client c does to the invariants of the clients.          *)
Sound(c) ==
    /\ ClientTypeOK' /\ ClientInv(c)' /\ outbox' = outbox
    /\ \A d \in Clients \ {c} : Untouched(d)

(* Both threads: the steps that move a thread or store a flag.             *)
LEMMA EitherSound ==
    ASSUME ClientTypeOK, NEW c \in Clients, ClientInv(c), NEW t \in {"send", "recv"},
           \/ Signal(c, t) \/ AwaitDecided(c, t) \/ AwaitComplete(c, t)
           \/ FallAsleep(c, t) \/ Choose(c, t) \/ Complete(c, t) \/ TransferReturns(c, t)
           \/ WakesAlone(c, t)
    PROVE  Sound(c) /\ Steady(c)
<1> USE DEF ClientInv, Calm, At, BeforeStart, AfterLogin, EndHeard, SaysNoMore,
            HasReason, GivesUp, EndCame, SendsTyped, HandedOver, UploadAlone,
            MarksInTime, Answered, StillServed, Woken, Ahead, Completing, Sharing, Waiting,
            Replying, Flags, ClientThreads,
            Sound, Steady, Owing, Raised
<1>0. /\ at[c]["send"] \in SendPC /\ at[c]["recv"] \in RecvPC
      /\ \A f \in Flags : flag[c][f] \in BOOLEAN
  BY DEF ClientTypeOK
<1>1. ASSUME NEW l \in {"check", "blocking", "asleep", "woken", "choose", "complete", "twait",
                        "tblocking", "tasleep", "loop", "notify", "wake"}
      PROVE  l \in Places(t)
  BY <1>1 DEF Places, SendPC, RecvPC
<1>2. CASE Signal(c, t)
  <2>1. Stored(c, t, "notify", "shouldQuit", TRUE) /\ At(c, t, "signal")
    BY <1>1, <1>2, StoreJumpIs DEF Signal
  <2>2. QED  BY <2>1 DEF Stored
<1>3. CASE AwaitDecided(c, t)
  <2>1. CASE flag[c].decided
    <3>1. Stored(c, t, "choose", "decided", FALSE) /\ at[c][t] \in {"check", "woken"}
      BY <1>1, <1>3, <2>1, StoreJumpIs DEF AwaitDecided
    <3>2. CASE t = "send"  BY <1>0, <2>1, <3>1, <3>2 DEF Stored
    <3>3. CASE t = "recv"  BY <1>0, <2>1, <3>1, <3>3 DEF Stored
    <3>4. QED  BY <3>2, <3>3
  <2>2. CASE ~flag[c].decided
    <3>1. Moved(c, t, "blocking") /\ at[c][t] \in {"check", "woken"}
      BY <1>1, <1>3, <2>2, ProceedIs DEF AwaitDecided, Proceed
    <3>2. CASE t = "send"  BY <1>0, <2>2, <3>1, <3>2 DEF Moved
    <3>3. CASE t = "recv"  BY <1>0, <2>2, <3>1, <3>3 DEF Moved
    <3>4. QED  BY <3>2, <3>3
  <2>3. QED  BY <2>1, <2>2
<1>4. CASE AwaitComplete(c, t)
  <2>0. at[c][t] \in {"tcheck", "twait"}
    BY <1>4 DEF AwaitComplete
  <2>1. CASE t = "recv" /\ flag[c].transferComplete
    <3>1. Stored(c, t, "loop", "transferComplete", FALSE)
      BY <1>1, <1>4, <2>1, StoreJumpIs DEF AwaitComplete
    <3>2. QED  BY <1>0, <2>0, <2>1, <3>1 DEF Stored
  <2>2. CASE t = "send" /\ flag[c].transferComplete
    <3>1. Moved(c, t, "reset")
      BY <1>4, <2>2, ProceedIs DEF AwaitComplete, Proceed, Places, SendPC
    <3>2. QED  BY <1>0, <2>0, <2>2, <3>1 DEF Moved, SendPC
  <2>3. CASE ~flag[c].transferComplete
    <3>1. Moved(c, t, "tblocking")
      BY <1>1, <1>4, <2>3, ProceedIs DEF AwaitComplete, Proceed
    <3>2. CASE t = "send"  BY <1>0, <2>0, <2>3, <3>1, <3>2 DEF Moved, SendPC
    <3>3. CASE t = "recv"  BY <1>0, <2>0, <2>3, <3>1, <3>3 DEF Moved
    <3>4. QED  BY <3>2, <3>3
  <2>4. QED  BY <2>1, <2>2, <2>3
<1>5. CASE FallAsleep(c, t)
  <2>1. \/ At(c, t, "blocking") /\ Moved(c, t, "asleep")
        \/ At(c, t, "tblocking") /\ Moved(c, t, "tasleep")
    BY <1>1, <1>5, ProceedIs DEF FallAsleep
  <2>2. CASE t = "send"  BY <2>1, <2>2 DEF Moved
  <2>3. CASE t = "recv"  BY <2>1, <2>3 DEF Moved
  <2>4. QED  BY <2>2, <2>3
<1>6. CASE Choose(c, t)
  <2>0. At(c, t, "choose")
    BY <1>6 DEF Choose
  <2>1. CASE t = "send" /\ flag[c].fileTransfer
    <3>1. Moved(c, t, "fetch")
      BY <1>6, <2>1, ProceedIs DEF Choose, Places, SendPC
    <3>2. QED  BY <2>0, <2>1, <3>1 DEF Moved
  <2>2. CASE t = "send" /\ ~flag[c].fileTransfer
    <3>1. Moved(c, t, "complete")
      BY <1>6, <2>2, ProceedIs DEF Choose, Places, SendPC
    <3>2. QED  BY <2>0, <2>2, <3>1 DEF Moved
  <2>3. CASE t = "recv"
    <3>1. PICK l \in {"yes", "no"} : Moved(c, t, l)
      BY <1>6, <2>3, ProceedIs, Zenon DEF Choose, Places, RecvPC
    <3>2. QED  BY <2>0, <2>3, <3>1 DEF Moved
  <2>4. QED  BY <2>1, <2>2, <2>3
<1>7. CASE Complete(c, t)
  <2>1. Stored(c, t, "wake", "transferComplete", TRUE) /\ At(c, t, "complete")
    BY <1>1, <1>7, StoreJumpIs DEF Complete
  <2>2. QED  BY <2>1 DEF Stored
<1>8. CASE TransferReturns(c, t)
  BY <1>1, <1>8, ProceedIs DEF TransferReturns, Places, SendPC, Moved
<1>9. CASE WakesAlone(c, t)
  <2>1. \/ At(c, t, "asleep") /\ Moved(c, t, "woken")
        \/ At(c, t, "tasleep") /\ Moved(c, t, "twait")
    BY <1>1, <1>9, ProceedIs DEF WakesAlone
  <2>2. QED  BY <2>1 DEF Moved
<1>10. QED
  BY <1>2, <1>3, <1>4, <1>5, <1>6, <1>7, <1>8, <1>9

(* Once something has gone wrong it has gone wrong.                        *)
LEMMA MishapIs ==
    ASSUME RestOK, NEW c \in Clients, NEW P, mishap' = [mishap EXCEPT ![c] = @ \/ P]
    PROVE  /\ mishap' \in [Clients -> BOOLEAN]
           /\ \A d \in Clients \ {c} : mishap'[d] = mishap[d]
           /\ ~mishap'[c] => ~mishap[c] /\ ~P
<1>1. mishap \in [Clients -> BOOLEAN]
  BY DEF RestOK
<1>2. mishap'[c] = (mishap[c] \/ P) /\ \A d \in Clients \ {c} : mishap'[d] = mishap[d]
  BY <1>1, Zenon
<1>3. mishap' \in [Clients -> BOOLEAN]
  BY <1>1, Zenon
<1>4. QED  BY <1>2, <1>3, Zenon

(* A notification moves the thread that sends it, and the other one if it  *)
(* sleeps on the condition.                                                *)
LEMMA NotifyIs ==
    ASSUME ClientTypeOK, NEW c \in Clients, NEW t \in {"send", "recv"},
           NEW l \in Places(t), NEW s, NEW w, NEW b, ~At(c, t, s), w \in Places(Other(t)),
           notify_one(c, t, l, s, w, b)
    PROVE  /\ ClientTypeOK'
           /\ at'[c][t] = l /\ at'[c]["main"] = at[c]["main"]
           /\ at'[c][Other(t)] = IF At(c, Other(t), s) THEN w ELSE at[c][Other(t)]
           /\ ~mishap'[c] => ~mishap[c] /\ ~(At(c, Other(t), b) /\ ~At(c, Other(t), s))
           /\ flag' = flag /\ outbox' = outbox
           /\ \A d \in Clients \ {c} : Untouched(d)
           /\ line'[c] = line[c] /\ message'[c] = message[c] /\ heard'[c] = heard[c]
           /\ answer'[c] = answer[c] /\ client'[c] = client[c]
<1> DEFINE sleepers == { u \in {"send", "recv"} : At(c, u, s) }
           o == Other(t)
<1>1. o \in {"send", "recv"} /\ o # t /\ \A u \in {"send", "recv"} : u = t \/ u = o
  BY DEF Other
<1>2. sleepers = IF At(c, o, s) THEN {o} ELSE {}
  BY <1>1
<1>3. /\ \/ \E u \in sleepers : at' = [at EXCEPT ![c][t] = l, ![c][u] = w]
         \/ sleepers = {} /\ Jump(c, t, l)
      /\ mishap' = [mishap EXCEPT ![c] = @ \/ (sleepers = {} /\ At(c, o, b))]
      /\ UNCHANGED <<serving, socketState, flag, line, message, heard, typed, answer>>
  BY DEF notify_one
<1>4. PlacesOK /\ FlagsOK /\ RestOK
  BY ClientTypeIs
<1>5. /\ PlacesOK' /\ at'[c][t] = l /\ at'[c]["main"] = at[c]["main"]
      /\ at'[c][o] = IF At(c, o, s) THEN w ELSE at[c][o]
      /\ \A d \in Clients \ {c} : at'[d] = at[d]
  <2>1. CASE At(c, o, s)
    <3>1. at' = [at EXCEPT ![c][t] = l, ![c][o] = w]
      BY <1>2, <1>3, <2>1
    <3> DEFINE PCs == SendPC \cup RecvPC \cup QuitPC
               A == [at[c] EXCEPT ![t] = l, ![o] = w]
    <3>2. at \in [Clients -> [ClientThreads -> PCs]] /\ l \in PCs /\ w \in PCs
      BY <1>4 DEF PlacesOK, Places
    <3>3. at' = [at EXCEPT ![c] = A]
      BY <3>1, <3>2
    <3> HIDE DEF PCs, o
    <3>4. /\ A \in [ClientThreads -> PCs] /\ A[t] = l /\ A[o] = w
          /\ A["main"] = at[c]["main"]
      BY <1>1, <3>2 DEF ClientThreads
    <3> HIDE DEF A
    <3>5. at' \in [Clients -> [ClientThreads -> PCs]] /\ at'[c] = A
          /\ \A d \in Clients \ {c} : at'[d] = at[d]
      BY <3>2, <3>3, <3>4
    <3>6. at'[c]["send"] \in SendPC /\ at'[c]["recv"] \in RecvPC /\ at'[c]["main"] \in QuitPC
      BY <1>1, <1>4, <3>4, <3>5 DEF PlacesOK, Places, ClientThreads, o
    <3>7. PlacesOK'
      BY <1>4, <3>5, <3>6 DEF PlacesOK, PCs
    <3>8. QED  BY <2>1, <3>4, <3>5, <3>7
  <2>2. CASE ~At(c, o, s)
    <3>1. Jump(c, t, l)
      BY <1>2, <1>3, <2>2
    <3>2. QED  BY <1>1, <1>4, <2>2, <3>1, JumpIs DEF ClientThreads
  <2>3. QED  BY <2>1, <2>2
<1>6. /\ mishap' \in [Clients -> BOOLEAN] /\ \A d \in Clients \ {c} : mishap'[d] = mishap[d]
      /\ ~mishap'[c] => ~mishap[c] /\ ~(sleepers = {} /\ At(c, o, b))
  BY <1>3, <1>4, MishapIs
<1>7. /\ UNCHANGED <<flag, line, message, heard, typed, answer, client, outbox>>
  BY <1>3 DEF serving, socketState
<1>8. FlagsOK' /\ RestOK'
  BY <1>4, <1>6, <1>7 DEF FlagsOK, RestOK
<1>9. ClientTypeOK'
  BY <1>5, <1>8 DEF ClientTypeOK, PlacesOK, FlagsOK, RestOK, ClientThreads, Flags
<1>10. ~mishap'[c] => ~mishap[c] /\ ~(At(c, o, b) /\ ~At(c, o, s))
  <2> HIDE DEF o
  <2> QED BY <1>2, <1>6
<1>11. \A d \in Clients \ {c} : Untouched(d)
  BY <1>5, <1>6, <1>7 DEF Untouched
<1>12. QED  BY <1>5, <1>7, <1>9, <1>10, <1>11

(* Both threads: what they do to one another.                              *)
LEMMA BothSound ==
    ASSUME ClientTypeOK, NEW c \in Clients, ClientInv(c), NEW t \in {"send", "recv"},
           \/ NotifyQuit(c, t) \/ LockTransfer(c, t) \/ FetchInfo(c, t)
           \/ WakeOther(c, t) \/ TellDecision(c, t)
    PROVE  Sound(c) /\ (Steady(c) \/ FetchInfo(c, t))
<1> USE DEF ClientInv, Calm, At, BeforeStart, AfterLogin, EndHeard, SaysNoMore,
            HasReason, GivesUp, EndCame, SendsTyped, HandedOver, UploadAlone,
            MarksInTime, Answered, StillServed, Woken, Ahead, Completing, Sharing, Waiting,
            Replying, Flags, ClientThreads,
            Sound, Steady, Owing, Raised
<1>0. PlacesOK /\ FlagsOK /\ RestOK /\ at[c]["send"] \in SendPC /\ at[c]["recv"] \in RecvPC
      /\ at[c]["main"] \in QuitPC
  BY ClientTypeIs DEF ClientTypeOK
<1>1. CASE NotifyQuit(c, t)
  <2>1. /\ at[c][t] = "notify"
        /\ at' = [at EXCEPT ![c][t] = "loop", ![c]["main"] = IF @ = "asleep" THEN "check" ELSE @]
        /\ mishap' = [mishap EXCEPT ![c] = @ \/ At(c, "main", "blocking")]
        /\ UNCHANGED <<flag, line, message, heard, typed, answer, client, outbox>>
    BY <1>1 DEF NotifyQuit, serving, socketState
  <2> DEFINE PCs == SendPC \cup RecvPC \cup QuitPC
             m == IF at[c]["main"] = "asleep" THEN "check" ELSE at[c]["main"]
             A == [at[c] EXCEPT ![t] = "loop", !["main"] = m]
  <2>2. at \in [Clients -> [{"send", "recv", "main"} -> PCs]] /\ "loop" \in PCs /\ m \in PCs
        /\ m \in QuitPC
    BY <1>0 DEF PlacesOK, SendPC, QuitPC
  <2>3. at' = [at EXCEPT ![c] = A]
    BY <2>1, <2>2
  <2> HIDE DEF PCs
  <2>4. /\ A \in [{"send", "recv", "main"} -> PCs] /\ A[t] = "loop" /\ A["main"] = m
        /\ \A u \in {"send", "recv"} \ {t} : A[u] = at[c][u]
    BY <2>2
  <2> HIDE DEF A
  <2>5. /\ at' \in [Clients -> [{"send", "recv", "main"} -> PCs]] /\ at'[c] = A
        /\ \A d \in Clients \ {c} : at'[d] = at[d]
    BY <2>2, <2>3, <2>4
  <2>6. at'[c]["send"] \in SendPC /\ at'[c]["recv"] \in RecvPC /\ at'[c]["main"] \in QuitPC
    BY <1>0, <2>2, <2>4, <2>5 DEF SendPC, RecvPC
  <2>7. PlacesOK'
    BY <1>0, <2>5, <2>6 DEF PlacesOK, PCs
  <2>8. /\ mishap' \in [Clients -> BOOLEAN] /\ \A d \in Clients \ {c} : mishap'[d] = mishap[d]
        /\ ~mishap'[c] => ~mishap[c]
    BY <1>0, <2>1, MishapIs
  <2>9. FlagsOK' /\ RestOK'
    BY <1>0, <2>1, <2>8 DEF FlagsOK, RestOK
  <2>10. ClientTypeOK'
    BY <2>7, <2>9 DEF ClientTypeOK, PlacesOK, FlagsOK, RestOK
  <2>11. \A d \in Clients \ {c} : Untouched(d)
    BY <2>1, <2>5, <2>8 DEF Untouched
  <2>12. ClientInv(c)' /\ Steady(c)
    BY <2>1, <2>4, <2>5, <2>8
  <2>13. QED  BY <2>1, <2>10, <2>11, <2>12
<1>2. CASE LockTransfer(c, t)
  <2>1. /\ at[c][t] = "lock" /\ Store(c, "fileTransfer", TRUE) /\ Jump(c, t, "check")
        /\ at[c][Other(t)] \notin InTransfer
        /\ answer' = IF t = "recv" THEN [answer EXCEPT ![c] = "none"] ELSE answer
        /\ mishap' = [mishap EXCEPT ![c] = @ \/ (flag[c].decided \/ flag[c].transferComplete)]
        /\ UNCHANGED <<line, message, heard, typed, client, outbox>>
    BY <1>2, Zenon DEF LockTransfer, serving, socketState, TransferMutexFree
  <2>2. /\ PlacesOK' /\ at'[c][t] = "check" /\ \A u \in ClientThreads \ {t} : at'[c][u] = at[c][u]
        /\ \A d \in Clients \ {c} : at'[d] = at[d]
    <3>1. "check" \in Places(t)  BY DEF Places, SendPC, RecvPC
    <3>2. QED  BY <1>0, <2>1, <3>1, JumpIs
  <2>3. /\ FlagsOK' /\ flag'[c].fileTransfer = TRUE
        /\ \A g \in Flags \ {"fileTransfer"} : flag'[c][g] = flag[c][g]
        /\ \A d \in Clients \ {c} : flag'[d] = flag[d]
    BY <1>0, <2>1, StoreIs
  <2>4. /\ mishap' \in [Clients -> BOOLEAN] /\ \A d \in Clients \ {c} : mishap'[d] = mishap[d]
        /\ ~mishap'[c] => ~mishap[c] /\ ~(flag[c].decided \/ flag[c].transferComplete)
    BY <1>0, <2>1, MishapIs
  <2>5. RestOK'
    BY <1>0, <2>1, <2>4 DEF RestOK
  <2>6. ClientTypeOK'
    BY <2>2, <2>3, <2>5 DEF ClientTypeOK, PlacesOK, FlagsOK, RestOK
  <2>7. \A d \in Clients \ {c} : Untouched(d)
    BY <1>0, <2>1, <2>2, <2>3, <2>4 DEF Untouched, RestOK
  <2>8. CASE t = "send"
    BY <2>1, <2>2, <2>3, <2>4, <2>6, <2>7, <2>8 DEF InTransfer, Other
  <2>9. CASE t = "recv"
    <3>1. answer'[c] = "none"
      BY <1>0, <2>1, <2>9 DEF RestOK
    <3>2. QED
      BY <2>1, <2>2, <2>3, <2>4, <2>6, <2>7, <2>9, <3>1 DEF InTransfer, Other
  <2>10. QED  BY <2>8, <2>9
<1>3. CASE FetchInfo(c, t)
  <2>1. /\ at[c][t] = "fetch" /\ Jump(c, t, "stream")
        /\ UNCHANGED <<flag, line, message, typed, answer, client, outbox>>
    BY <1>3 DEF FetchInfo, serving, socketState
  <2>2. /\ heard' \in [Clients -> Nat] /\ heard'[c] <= Len(outbox[c])
        /\ \A d \in Clients \ {c} : heard'[d] = heard[d]
    <3>1. heard \in [Clients -> Nat] /\ heard[c] <= Len(outbox[c])
      BY <1>0 DEF RestOK
    <3>2. CASE heard' = heard
      BY <3>1, <3>2
    <3>3. CASE \E k \in 1..(Len(outbox[c]) - heard[c]) : heard' = [heard EXCEPT ![c] = @ + k]
      BY <3>1, <3>3
    <3>4. QED  BY <1>3, <3>2, <3>3 DEF FetchInfo
  <2>3. /\ mishap' \in [Clients -> BOOLEAN] /\ \A d \in Clients \ {c} : mishap'[d] = mishap[d]
        /\ ~mishap'[c] => ~mishap[c]
    <3>1. mishap' = mishap \/ mishap' = [mishap EXCEPT ![c] = TRUE]
      BY <1>3, Zenon DEF FetchInfo
    <3>2. mishap \in [Clients -> BOOLEAN]
      BY <1>0 DEF RestOK
    <3>3. QED  BY <3>1, <3>2
  <2>4. /\ PlacesOK' /\ at'[c][t] = "stream" /\ \A u \in ClientThreads \ {t} : at'[c][u] = at[c][u]
        /\ \A d \in Clients \ {c} : at'[d] = at[d]
    <3>1. "stream" \in Places(t)  BY DEF Places, SendPC, RecvPC
    <3>2. QED  BY <1>0, <2>1, <3>1, JumpIs
  <2>5. FlagsOK' /\ RestOK'
    BY <1>0, <2>1, <2>2, <2>3 DEF FlagsOK, RestOK
  <2>6. ClientTypeOK'
    BY <2>4, <2>5 DEF ClientTypeOK, PlacesOK, FlagsOK, RestOK
  <2>7. \A d \in Clients \ {c} : Untouched(d)
    BY <2>1, <2>2, <2>3, <2>4 DEF Untouched
  <2>8. at[c]["main"] # "login"
    BY <2>1
  <2>9. ClientInv(c)'
    BY <2>1, <2>3, <2>4, <2>8
  <2>10. QED  BY <1>3, <2>1, <2>6, <2>7, <2>9
<1>4. CASE WakeOther(c, t)
  <2>1. /\ at[c][t] = "wake" /\ notify_one(c, t, "loop", "tasleep", "twait", "tblocking")
        /\ "loop" \in Places(t) /\ "twait" \in Places(Other(t)) /\ Other(t) \in {"send", "recv"}
        /\ Other(t) # t
    BY <1>4 DEF WakeOther, Places, SendPC, RecvPC, Other
  <2>2. /\ ClientTypeOK'
        /\ at'[c][t] = "loop" /\ at'[c]["main"] = at[c]["main"]
        /\ at'[c][Other(t)] = IF At(c, Other(t), "tasleep") THEN "twait" ELSE at[c][Other(t)]
        /\ ~mishap'[c] => ~mishap[c] /\ ~At(c, Other(t), "tblocking")
        /\ flag' = flag /\ outbox' = outbox
        /\ \A d \in Clients \ {c} : Untouched(d)
        /\ line'[c] = line[c] /\ message'[c] = message[c] /\ heard'[c] = heard[c]
        /\ answer'[c] = answer[c] /\ client'[c] = client[c]
    BY <2>1, NotifyIs
  <2>3. CASE t = "send"  BY <2>1, <2>2, <2>3 DEF Other
  <2>4. CASE t = "recv"  BY <2>1, <2>2, <2>4 DEF Other
  <2>5. QED  BY <2>3, <2>4
<1>5. CASE TellDecision(c, t)
  <2>1. PICK l \in {"tcheck", "twait", "reset"} :
          /\ at[c][t] = "tell" /\ notify_one(c, t, l, "asleep", "woken", "blocking")
          /\ l \in Places(t) /\ IF t = "recv" THEN l = "tcheck" ELSE l \in {"twait", "reset"}
    <3>1. CASE t = "recv"
      BY <1>5, <3>1 DEF TellDecision, Places, RecvPC
    <3>2. CASE t = "send" /\ line[c].yes
      BY <1>5, <3>2 DEF TellDecision, Places, SendPC
    <3>3. CASE t = "send" /\ ~line[c].yes
      BY <1>5, <3>3 DEF TellDecision, Places, SendPC
    <3>4. QED  BY <3>1, <3>2, <3>3
  <2>2. "woken" \in Places(Other(t)) /\ Other(t) \in {"send", "recv"} /\ Other(t) # t
    BY DEF Places, SendPC, RecvPC, Other
  <2>3. /\ ClientTypeOK'
        /\ at'[c][t] = l /\ at'[c]["main"] = at[c]["main"]
        /\ at'[c][Other(t)] = IF At(c, Other(t), "asleep") THEN "woken" ELSE at[c][Other(t)]
        /\ ~mishap'[c] => ~mishap[c] /\ ~At(c, Other(t), "blocking")
        /\ flag' = flag /\ outbox' = outbox
        /\ \A d \in Clients \ {c} : Untouched(d)
        /\ line'[c] = line[c] /\ message'[c] = message[c] /\ heard'[c] = heard[c]
        /\ answer'[c] = answer[c] /\ client'[c] = client[c]
    BY <2>1, <2>2, NotifyIs
  <2>4. CASE t = "send"  BY <1>0, <2>1, <2>2, <2>3, <2>4 DEF Other
  <2>5. CASE t = "recv"  BY <1>0, <2>1, <2>2, <2>3, <2>5 DEF Other
  <2>6. QED  BY <2>4, <2>5
<1>6. QED  BY <1>1, <1>2, <1>3, <1>4, <1>5

(* sendMessageLoop.                                                        *)
LEMMA SendSound ==
    ASSUME ClientTypeOK, ServerTypeOK, NEW c \in Clients, ClientInv(c),
           \/ Unmark(c) \/ SendTestsQuit(c) \/ Decides(c) \/ Refuse(c) \/ ResetFlags(c)
           \/ HandleLocally(c) \/ SendLine(c) \/ Type(c)
    PROVE  Sound(c) /\ Steady(c)
<1> USE DEF ClientInv, Calm, At, BeforeStart, AfterLogin, EndHeard, SaysNoMore,
            HasReason, GivesUp, EndCame, SendsTyped, HandedOver, UploadAlone,
            MarksInTime, Answered, StillServed, Woken, Ahead, Completing, Sharing, Waiting,
            Replying, Flags, ClientThreads,
            Sound, Steady, Owing, Raised
<1>0. PlacesOK /\ FlagsOK /\ RestOK /\ at[c]["send"] \in SendPC /\ at[c]["recv"] \in RecvPC
      /\ at[c]["main"] \in QuitPC
  BY ClientTypeIs DEF ClientTypeOK
<1>1. SendPC = Places("send")
  BY DEF Places
<1>2. CASE Unmark(c)
  <2>1. Stored(c, "send", "complete", "fileTransfer", FALSE) /\ at[c]["send"] = "unmark"
    BY <1>1, <1>2, StoreJumpIs DEF Unmark, SendPC
  <2>2. QED  BY <2>1 DEF Stored
<1>3. CASE Decides(c)
  <2>1. PICK l \in {"tell", "refuse"} :
            Stored(c, "send", l, "decided", TRUE) /\ at[c]["send"] = "decide"
    <3>1. CASE line[c].yes
      BY <1>1, <1>3, <3>1, StoreJumpIs DEF Decides, SendPC
    <3>2. CASE ~line[c].yes
      BY <1>1, <1>3, <3>2, StoreJumpIs DEF Decides, SendPC
    <3>3. QED  BY <3>1, <3>2
  <2>2. QED  BY <2>1 DEF Stored
<1>4. CASE Refuse(c)
  <2>1. Stored(c, "send", "tell", "fileTransfer", FALSE) /\ at[c]["send"] = "refuse"
    BY <1>1, <1>4, StoreJumpIs DEF Refuse, SendPC
  <2>2. QED  BY <2>1 DEF Stored
<1>5. CASE ResetFlags(c)
  <2>1. \/ Stored(c, "send", "clear", "transferComplete", FALSE) /\ at[c]["send"] = "reset"
        \/ Stored(c, "send", "loop", "fileTransfer", FALSE) /\ at[c]["send"] = "clear"
    BY <1>1, <1>5, StoreJumpIs DEF ResetFlags, SendPC
  <2>2. QED  BY <2>1 DEF Stored
<1>6. CASE HandleLocally(c)
  <2>1. Moved(c, "send", "loop") /\ at[c]["send"] = "dispatch" /\ client[c] # "leaving"
    BY <1>1, <1>6, ProceedIs DEF HandleLocally, SendPC
  <2>2. QED  BY <2>1 DEF Moved
<1>7. CASE SendTestsQuit(c)
  <2>1. PICK l \in {"done", "getline"} :
          /\ at[c]["send"] = "loop" /\ Jump(c, "send", l)
          /\ l = "getline" => ~flag[c].shouldQuit
    <3>1. CASE flag[c].shouldQuit  BY <1>7, <3>1 DEF SendTestsQuit
    <3>2. CASE ~flag[c].shouldQuit  BY <1>7, <3>2 DEF SendTestsQuit
    <3>3. QED  BY <3>1, <3>2
  <2>2. /\ line' = [line EXCEPT ![c] = NoLine]
        /\ UNCHANGED <<flag, message, heard, typed, answer, mishap, client, outbox>>
    BY <1>7 DEF SendTestsQuit, serving, socketState
  <2>3. NoLine \in Typed
    BY NamesAssumption DEF NoLine, Typed
  <2>4. FlagsOK' /\ RestOK' /\ \A d \in Clients \ {c} : line'[d] = line[d]
    BY <1>0, <2>2, <2>3 DEF FlagsOK, RestOK
  <2>5. /\ PlacesOK' /\ at'[c]["send"] = l
        /\ at'[c]["recv"] = at[c]["recv"] /\ at'[c]["main"] = at[c]["main"]
        /\ \A d \in Clients \ {c} : at'[d] = at[d]
    BY <1>0, <1>1, <2>1, JumpIs DEF SendPC
  <2>6. ClientTypeOK'
    BY <2>4, <2>5 DEF ClientTypeOK, PlacesOK, FlagsOK, RestOK
  <2>7. \A d \in Clients \ {c} : Untouched(d)
    BY <2>2, <2>4, <2>5 DEF Untouched
  <2>8. ClientInv(c)' /\ Steady(c)
    BY <2>1, <2>2, <2>5
  <2>9. QED  BY <2>2, <2>6, <2>7, <2>8
<1>8. CASE SendLine(c)
  <2>1. PICK l \in {"signal", "lock", "loop"} :
          /\ at[c]["send"] = "dispatch" /\ Jump(c, "send", l)
          /\ IF line[c].kind = "quit"
             THEN l = "signal" /\ client' = [client EXCEPT ![c] = "leaving"]
             ELSE l # "signal" /\ client' = client
    BY <1>8 DEF SendLine
  <2>2. /\ UNCHANGED <<flag, line, message, heard, typed, answer, mishap, outbox>>
        /\ client[c] \notin {"leaving", "closed"}
    BY <1>8, <2>1 DEF SendLine, serving, CanSend
  <2>3. FlagsOK' /\ RestOK'
    BY <1>0, <2>2 DEF FlagsOK, RestOK
  <2>4. /\ PlacesOK' /\ at'[c]["send"] = l
        /\ at'[c]["recv"] = at[c]["recv"] /\ at'[c]["main"] = at[c]["main"]
        /\ \A d \in Clients \ {c} : at'[d] = at[d]
    BY <1>0, <1>1, <2>1, JumpIs DEF SendPC
  <2>5. ClientTypeOK'
    BY <2>3, <2>4 DEF ClientTypeOK, PlacesOK, FlagsOK, RestOK
  <2>6. /\ \A d \in Clients \ {c} : client'[d] = client[d]
        /\ client'[c] = IF l = "signal" THEN "leaving" ELSE client[c]
    BY <2>1 DEF ServerTypeOK
  <2>7. \A d \in Clients \ {c} : Untouched(d)
    BY <2>2, <2>4, <2>6 DEF Untouched
  <2>8. ClientInv(c)' /\ Steady(c)
    BY <2>1, <2>2, <2>4, <2>6
  <2>9. QED  BY <2>2, <2>5, <2>7, <2>8
<1>9. CASE Type(c)
  <2>1. PICK s \in Types[c] :
          /\ at[c]["send"] = "getline" /\ typed[c] < Lines[c]
          /\ typed' = [typed EXCEPT ![c] = @ + 1]
          /\ line' = [line EXCEPT ![c] = s]
          /\ answer' = IF flag[c].fileTransfer
                       THEN [answer EXCEPT ![c] = IF s.yes THEN "yes" ELSE "no"] ELSE answer
          /\ Jump(c, "send", IF flag[c].fileTransfer THEN "decide" ELSE "dispatch")
          /\ UNCHANGED <<flag, message, heard, mishap, client, outbox>>
    BY <1>9, Zenon DEF Type, serving, socketState
  <2>2. s \in Typed /\ Lines[c] \in Nat
    BY <2>1, ClientChatRoomAssumption
  <2>3. PICK l \in {"decide", "dispatch"}, r \in {"yes", "no"} :
          /\ Jump(c, "send", l) /\ (l = "decide" <=> flag[c].fileTransfer)
          /\ answer' = IF l = "decide" THEN [answer EXCEPT ![c] = r] ELSE answer
    <3>1. CASE flag[c].fileTransfer /\ s.yes
      <4>1. Jump(c, "send", "decide") /\ answer' = [answer EXCEPT ![c] = "yes"]
        BY <2>1, <3>1
      <4>2. QED  BY <3>1, <4>1
    <3>2. CASE flag[c].fileTransfer /\ ~s.yes
      <4>1. Jump(c, "send", "decide") /\ answer' = [answer EXCEPT ![c] = "no"]
        BY <2>1, <3>2
      <4>2. QED  BY <3>2, <4>1
    <3>3. CASE ~flag[c].fileTransfer
      <4>1. Jump(c, "send", "dispatch") /\ answer' = answer
        BY <2>1, <3>3
      <4>2. QED  BY <3>3, <4>1
    <3>4. QED  BY <3>1, <3>2, <3>3
  <2>4. /\ FlagsOK' /\ RestOK'
        /\ \A d \in Clients \ {c} : line'[d] = line[d] /\ typed'[d] = typed[d] /\ answer'[d] = answer[d]
        /\ line'[c] = s /\ answer'[c] = IF l = "decide" THEN r ELSE answer[c]
    <3>1. FlagsOK'
      BY <1>0, <2>1 DEF FlagsOK
    <3>2. line' \in [Clients -> Typed] /\ line'[c] = s /\ \A d \in Clients \ {c} : line'[d] = line[d]
      BY <1>0, <2>1, <2>2 DEF RestOK
    <3>3. /\ answer' \in [Clients -> {"none", "yes", "no"}]
          /\ answer'[c] = IF l = "decide" THEN r ELSE answer[c]
          /\ \A d \in Clients \ {c} : answer'[d] = answer[d]
      BY <1>0, <2>3 DEF RestOK
    <3>4. /\ typed' \in [Clients -> Nat] /\ typed'[c] <= Lines[c]
          /\ \A d \in Clients \ {c} : typed'[d] = typed[d]
      BY <1>0, <2>1, <2>2 DEF RestOK
    <3>5. RestOK'
      BY <1>0, <2>1, <3>2, <3>3, <3>4 DEF RestOK
    <3>6. QED  BY <3>1, <3>2, <3>3, <3>4, <3>5
  <2>5. /\ PlacesOK' /\ at'[c]["send"] = l
        /\ at'[c]["recv"] = at[c]["recv"] /\ at'[c]["main"] = at[c]["main"]
        /\ \A d \in Clients \ {c} : at'[d] = at[d]
    BY <1>0, <1>1, <2>3, JumpIs DEF SendPC
  <2>6. ClientTypeOK'
    BY <2>4, <2>5 DEF ClientTypeOK, PlacesOK, FlagsOK, RestOK
  <2>7. \A d \in Clients \ {c} : Untouched(d)
    BY <2>1, <2>4, <2>5 DEF Untouched
  <2>8. ClientInv(c)' /\ Steady(c)
    BY <2>1, <2>3, <2>4, <2>5
  <2>9. QED  BY <2>1, <2>6, <2>7, <2>8
<1>10. QED  BY <1>2, <1>3, <1>4, <1>5, <1>6, <1>7, <1>8, <1>9

(* What one recv returns has been sent.                                    *)
LEMMA ReceiveIs ==
    ASSUME RestOK, ServerTypeOK, NEW c \in Clients,
           NEW k \in 1..(Len(outbox[c]) - heard[c]), heard' = [heard EXCEPT ![c] = @ + k]
    PROVE  /\ heard' \in [Clients -> Nat] /\ heard'[c] <= Len(outbox[c])
           /\ \A d \in Clients \ {c} : heard'[d] = heard[d]
           /\ heard[c] + 1 \in DOMAIN outbox[c] /\ Next1(c) \in Notices
<1>1. heard \in [Clients -> Nat] /\ heard[c] \in Nat /\ c \in Users
  BY NamesApart DEF RestOK
<1>2. outbox[c] \in Seq(Message)
  BY <1>1 DEF ServerTypeOK
<1>3. heard' \in [Clients -> Nat] /\ heard'[c] = heard[c] + k
      /\ \A d \in Clients \ {c} : heard'[d] = heard[d]
  BY <1>1, <1>2
<1>4. heard[c] + 1 \in DOMAIN outbox[c]
  BY <1>1, <1>2
<1>5. outbox[c][heard[c] + 1] \in Message
  BY <1>2, <1>4
<1>6. QED  BY <1>1, <1>2, <1>3, <1>4, <1>5 DEF Next1, Message

(* recvMessageLoop.                                                        *)
LEMMA RecvSound ==
    ASSUME ClientTypeOK, ServerTypeOK, NEW c \in Clients, ClientInv(c),
           \/ RecvTestsQuit(c) \/ ReceiveMessage(c) \/ TestTransfer(c) \/ Handle(c)
           \/ RecvDecides(c) \/ RecvMarks(c) \/ SendAnswer(c) \/ ReceiveFirst(c)
    PROVE  Sound(c) /\ (Steady(c) \/ ReceiveMessage(c) \/ ReceiveFirst(c))
<1> USE DEF ClientInv, Calm, At, BeforeStart, AfterLogin, EndHeard, SaysNoMore,
            HasReason, GivesUp, EndCame, SendsTyped, HandedOver, UploadAlone,
            MarksInTime, Answered, StillServed, Woken, Ahead, Completing, Sharing, Waiting,
            Replying, Flags, ClientThreads,
            Sound, Steady, Owing, Raised
<1>0. PlacesOK /\ FlagsOK /\ RestOK /\ at[c]["send"] \in SendPC /\ at[c]["recv"] \in RecvPC
      /\ at[c]["main"] \in QuitPC
  BY ClientTypeIs DEF ClientTypeOK
<1>1. RecvPC = Places("recv")
  BY DEF Places
<1>2. CASE RecvTestsQuit(c)
  <2>1. PICK l \in {"done", "recv"} : at[c]["recv"] = "loop" /\ Jump(c, "recv", l)
    <3>1. CASE flag[c].shouldQuit  BY <1>2, <3>1 DEF RecvTestsQuit
    <3>2. CASE ~flag[c].shouldQuit  BY <1>2, <3>2 DEF RecvTestsQuit
    <3>3. QED  BY <3>1, <3>2
  <2>2. /\ message' = [message EXCEPT ![c] = "garbled"]
        /\ UNCHANGED <<flag, line, heard, typed, answer, mishap, client, outbox>>
    BY <1>2 DEF RecvTestsQuit, serving, socketState
  <2>3. FlagsOK' /\ RestOK' /\ message'[c] = "garbled"
        /\ \A d \in Clients \ {c} : message'[d] = message[d]
    BY <1>0, <2>2 DEF FlagsOK, RestOK, Notices
  <2>4. /\ PlacesOK' /\ at'[c]["recv"] = l
        /\ at'[c]["send"] = at[c]["send"] /\ at'[c]["main"] = at[c]["main"]
        /\ \A d \in Clients \ {c} : at'[d] = at[d]
    BY <1>0, <1>1, <2>1, JumpIs DEF RecvPC
  <2>5. ClientTypeOK'
    BY <2>3, <2>4 DEF ClientTypeOK, PlacesOK, FlagsOK, RestOK
  <2>6. \A d \in Clients \ {c} : Untouched(d)
    BY <2>2, <2>3, <2>4 DEF Untouched
  <2>7. ClientInv(c)' /\ Steady(c)
    BY <2>1, <2>2, <2>3, <2>4
  <2>8. QED  BY <2>2, <2>5, <2>6, <2>7
<1>3. CASE ReceiveMessage(c)
  <2>1. at[c]["recv"] = "recv"
        /\ UNCHANGED <<flag, line, typed, answer, client, outbox>>
    BY <1>3 DEF ReceiveMessage, serving, socketState
  <2>2. /\ heard' \in [Clients -> Nat] /\ heard'[c] <= Len(outbox[c])
        /\ \A d \in Clients \ {c} : heard'[d] = heard[d]
        /\ message' \in [Clients -> Notices]
        /\ \A d \in Clients \ {c} : message'[d] = message[d]
        /\ message'[c] = "end" => message[c] = "end" \/ EndCame(c)
        /\ mishap' \in [Clients -> BOOLEAN] /\ \A d \in Clients \ {c} : mishap'[d] = mishap[d]
        /\ ~mishap'[c] => ~mishap[c]
    <3>1. CASE UNCHANGED <<heard, mishap, message>>
      BY <1>0, <3>1 DEF RestOK
    <3>2. ASSUME NEW k \in 1..(Len(outbox[c]) - heard[c]), receive(c, k),
                 message' = [message EXCEPT ![c] = IF k = 1 THEN Next1(c) ELSE "garbled"]
          PROVE  <2>2!:
      <4>1. /\ heard' = [heard EXCEPT ![c] = @ + k]
            /\ mishap' = [mishap EXCEPT ![c] = @ \/ k > 1]
        BY <3>2 DEF receive
      <4>2. /\ heard' \in [Clients -> Nat] /\ heard'[c] <= Len(outbox[c])
            /\ \A d \in Clients \ {c} : heard'[d] = heard[d]
            /\ heard[c] + 1 \in DOMAIN outbox[c] /\ Next1(c) \in Notices
        BY <1>0, <4>1, ReceiveIs
      <4>3. /\ mishap' \in [Clients -> BOOLEAN] /\ \A d \in Clients \ {c} : mishap'[d] = mishap[d]
            /\ ~mishap'[c] => ~mishap[c]
        BY <1>0, <4>1, MishapIs
      <4>4. PICK m \in Notices : /\ message' = [message EXCEPT ![c] = m]
                                 /\ m = "end" => Next1(c) = "end"
        BY <3>2, <4>2 DEF Notices
      <4>5. message' \in [Clients -> Notices] /\ message'[c] = m
            /\ \A d \in Clients \ {c} : message'[d] = message[d]
        BY <1>0, <4>4 DEF RestOK
      <4>6. m = "end" => EndCame(c)
        BY <4>2, <4>4 DEF Next1
      <4> HIDE DEF EndCame
      <4>7. QED  BY <4>2, <4>3, <4>5, <4>6
    <3>3. QED  BY <1>3, <3>1, <3>2 DEF ReceiveMessage
  <2>3. PICK l \in {"loop", "test"} : Jump(c, "recv", l)
    BY <1>3 DEF ReceiveMessage
  <2>4. /\ PlacesOK' /\ at'[c]["recv"] = l
        /\ at'[c]["send"] = at[c]["send"] /\ at'[c]["main"] = at[c]["main"]
        /\ \A d \in Clients \ {c} : at'[d] = at[d]
    BY <1>0, <1>1, <2>3, JumpIs DEF RecvPC
  <2>5. FlagsOK' /\ RestOK'
    BY <1>0, <2>1, <2>2 DEF FlagsOK, RestOK
  <2>6. ClientTypeOK'
    BY <2>4, <2>5 DEF ClientTypeOK, PlacesOK, FlagsOK, RestOK
  <2>7. \A d \in Clients \ {c} : Untouched(d)
    BY <2>1, <2>2, <2>4 DEF Untouched
  <2>8. at[c]["main"] # "login"
    BY <2>1
  <2>9. ClientInv(c)'
    <3>1. EndCame(c)' <=> EndCame(c)  BY <2>1
    <3> HIDE DEF EndCame
    <3>2. QED  BY <2>1, <2>2, <2>4, <2>8, <3>1
  <2>10. QED  BY <1>3, <2>1, <2>6, <2>7, <2>9
<1>4. CASE TestTransfer(c)
  <2>1. PICK l \in {"tlock", "handle"} :
          /\ at[c]["recv"] = "test" /\ Jump(c, "recv", l)
          /\ l = "handle" => ~flag[c].fileTransfer
    <3>1. CASE flag[c].fileTransfer  BY <1>4, <3>1 DEF TestTransfer
    <3>2. CASE ~flag[c].fileTransfer  BY <1>4, <3>2 DEF TestTransfer
    <3>3. QED  BY <3>1, <3>2
  <2>2. UNCHANGED <<flag, line, message, heard, typed, answer, client, outbox>>
    BY <1>4 DEF TestTransfer, serving, socketState
  <2>3. /\ mishap' \in [Clients -> BOOLEAN] /\ \A d \in Clients \ {c} : mishap'[d] = mishap[d]
        /\ ~mishap'[c] => ~mishap[c] /\ ~(message[c] = "approved" /\ ~flag[c].fileTransfer)
    BY <1>0, <1>4, MishapIs DEF TestTransfer
  <2>4. FlagsOK' /\ RestOK'
    BY <1>0, <2>2, <2>3 DEF FlagsOK, RestOK
  <2>5. /\ PlacesOK' /\ at'[c]["recv"] = l
        /\ at'[c]["send"] = at[c]["send"] /\ at'[c]["main"] = at[c]["main"]
        /\ \A d \in Clients \ {c} : at'[d] = at[d]
    BY <1>0, <1>1, <2>1, JumpIs DEF RecvPC
  <2>6. ClientTypeOK'
    BY <2>4, <2>5 DEF ClientTypeOK, PlacesOK, FlagsOK, RestOK
  <2>7. \A d \in Clients \ {c} : Untouched(d)
    BY <2>2, <2>3, <2>5 DEF Untouched
  <2>8. ClientInv(c)' /\ Steady(c)
    BY <2>1, <2>2, <2>3, <2>5
  <2>9. QED  BY <2>2, <2>6, <2>7, <2>8
<1>5. CASE Handle(c)
  <2>1. PICK l \in {"loop", "signal", "lock"} :
          /\ at[c]["recv"] = "handle" /\ Proceed(c, "recv", l)
          /\ l = "signal" => message[c] = "end"
    <3>1. CASE flag[c].shouldQuit
      BY <1>5, <3>1 DEF Handle
    <3>2. CASE ~flag[c].shouldQuit /\ message[c] = "end"
      BY <1>5, <3>2 DEF Handle
    <3>3. CASE ~flag[c].shouldQuit /\ message[c] = "request"
      BY <1>5, <3>3 DEF Handle
    <3>4. CASE ~flag[c].shouldQuit /\ message[c] # "request" /\ message[c] # "end"
      BY <1>5, <3>4 DEF Handle
    <3>5. QED  BY <3>1, <3>2, <3>3, <3>4
  <2>2. Moved(c, "recv", l)
    BY <1>1, <2>1, ProceedIs DEF RecvPC
  <2>3. QED  BY <2>1, <2>2 DEF Moved
<1>6. CASE RecvDecides(c)
  <2>1. /\ at[c]["recv"] = "tlock" /\ Store(c, "decided", TRUE) /\ Jump(c, "recv", "tmark")
        /\ mishap' = [mishap EXCEPT ![c] = @ \/ at[c]["send"] \notin Waiting]
        /\ UNCHANGED <<line, message, heard, typed, answer, client, outbox>>
    BY <1>6 DEF RecvDecides, serving, socketState
  <2>2. /\ mishap' \in [Clients -> BOOLEAN] /\ \A d \in Clients \ {c} : mishap'[d] = mishap[d]
        /\ ~mishap'[c] => ~mishap[c] /\ at[c]["send"] \in Waiting
    <3> HIDE DEF Waiting
    <3> QED BY <1>0, <2>1, MishapIs
  <2>3. /\ PlacesOK' /\ at'[c]["recv"] = "tmark"
        /\ at'[c]["send"] = at[c]["send"] /\ at'[c]["main"] = at[c]["main"]
        /\ \A d \in Clients \ {c} : at'[d] = at[d]
    BY <1>0, <1>1, <2>1, JumpIs DEF RecvPC
  <2>4. /\ FlagsOK' /\ flag'[c].decided = TRUE
        /\ \A g \in Flags \ {"decided"} : flag'[c][g] = flag[c][g]
        /\ \A d \in Clients \ {c} : flag'[d] = flag[d]
    BY <1>0, <2>1, StoreIs
  <2>5. RestOK'
    BY <1>0, <2>1, <2>2 DEF RestOK
  <2>6. ClientTypeOK'
    BY <2>3, <2>4, <2>5 DEF ClientTypeOK, PlacesOK, FlagsOK, RestOK
  <2>7. \A d \in Clients \ {c} : Untouched(d)
    BY <2>1, <2>2, <2>3, <2>4 DEF Untouched
  <2>8. Steady(c)
    BY <2>1, <2>2, <2>3, <2>4
  <2> HIDE DEF Steady, Owing, Raised
  <2>9. ClientInv(c)'
    BY <2>1, <2>2, <2>3, <2>4
  <2>10. QED  BY <2>1, <2>6, <2>7, <2>8, <2>9
<1>7. CASE RecvMarks(c)
  <2>1. PICK v \in BOOLEAN :
          /\ at[c]["recv"] = "tmark" /\ v = (message[c] = "approved")
          /\ Store(c, "fileTransfer", v) /\ Jump(c, "recv", "tell") /\ Local(c)
    BY <1>7 DEF RecvMarks
  <2>2. Stored(c, "recv", "tell", "fileTransfer", v)
    BY <1>1, <2>1, StoreJumpIs DEF RecvPC
  <2>3. /\ ClientTypeOK' /\ outbox' = outbox /\ client'[c] = client[c]
        /\ at'[c]["recv"] = "tell" /\ flag'[c].fileTransfer = v
        /\ \A u \in ClientThreads \ {"recv"} : at'[c][u] = at[c][u]
        /\ \A g \in Flags \ {"fileTransfer"} : flag'[c][g] = flag[c][g]
        /\ line'[c] = line[c] /\ message'[c] = message[c] /\ heard'[c] = heard[c]
        /\ answer'[c] = answer[c] /\ mishap'[c] = mishap[c]
        /\ \A d \in Clients \ {c} : Untouched(d)
    BY <2>2 DEF Stored
  <2>4. Steady(c)
    <3> HIDE DEF StillServed, Woken, Ahead
    <3> QED  BY <2>1, <2>3
  <2> HIDE DEF Steady, Owing, Raised
  <2>5. ClientInv(c)'
    <3>1. HandedOver(c)' /\ UploadAlone(c)' /\ MarksInTime(c)'
      BY <2>1, <2>3
    <3>2. Answered(c)' /\ StillServed(c)' /\ Woken(c)' /\ Ahead(c)'
      BY <2>1, <2>3
    <3>3. BeforeStart(c)' /\ AfterLogin(c)' /\ EndHeard(c)' /\ SaysNoMore(c)' /\ HasReason(c)'
          /\ SendsTyped(c)'
      BY <2>1, <2>3
    <3> HIDE DEF HandedOver, UploadAlone, MarksInTime, Answered, StillServed, Woken, Ahead, BeforeStart, AfterLogin,
                 EndHeard, SaysNoMore, HasReason, SendsTyped
    <3>4. QED  BY <3>1, <3>2, <3>3
  <2>6. QED  BY <2>3, <2>4, <2>5
<1>8. CASE SendAnswer(c)
  <2>1. PICK l \in {"first", "complete", "done"} :
          at[c]["recv"] \in {"yes", "no"} /\ Jump(c, "recv", l)
    BY <1>8 DEF SendAnswer
  <2>2. UNCHANGED <<flag, line, message, heard, typed, answer, mishap, client, outbox>>
    BY <1>8 DEF SendAnswer, serving
  <2>3. FlagsOK' /\ RestOK'
    BY <1>0, <2>2 DEF FlagsOK, RestOK
  <2>4. /\ PlacesOK' /\ at'[c]["recv"] = l
        /\ at'[c]["send"] = at[c]["send"] /\ at'[c]["main"] = at[c]["main"]
        /\ \A d \in Clients \ {c} : at'[d] = at[d]
    BY <1>0, <1>1, <2>1, JumpIs DEF RecvPC
  <2>5. ClientTypeOK'
    BY <2>3, <2>4 DEF ClientTypeOK, PlacesOK, FlagsOK, RestOK
  <2>6. \A d \in Clients \ {c} : Untouched(d)
    BY <2>2, <2>4 DEF Untouched
  <2>7. ClientInv(c)' /\ Steady(c)
    BY <2>1, <2>2, <2>4
  <2>8. QED  BY <2>2, <2>5, <2>6, <2>7
<1>9. CASE ReceiveFirst(c)
  <2>1. /\ at[c]["recv"] = "first" /\ Jump(c, "recv", "fetch")
        /\ UNCHANGED <<flag, line, message, typed, answer, client, outbox>>
    BY <1>9 DEF ReceiveFirst, serving, socketState
  <2>2. /\ heard' \in [Clients -> Nat] /\ heard'[c] <= Len(outbox[c])
        /\ \A d \in Clients \ {c} : heard'[d] = heard[d]
        /\ mishap' \in [Clients -> BOOLEAN] /\ \A d \in Clients \ {c} : mishap'[d] = mishap[d]
        /\ ~mishap'[c] => ~mishap[c]
    <3>1. CASE UNCHANGED <<heard, mishap>>
      BY <1>0, <3>1 DEF RestOK
    <3>2. ASSUME NEW k \in 1..(Len(outbox[c]) - heard[c]), receive(c, k)
          PROVE  <2>2!:
      <4>1. /\ heard' = [heard EXCEPT ![c] = @ + k]
            /\ mishap' = [mishap EXCEPT ![c] = @ \/ k > 1]
        BY <3>2 DEF receive
      <4>2. /\ heard' \in [Clients -> Nat] /\ heard'[c] <= Len(outbox[c])
            /\ \A d \in Clients \ {c} : heard'[d] = heard[d]
        BY <1>0, <4>1, ReceiveIs
      <4>3. /\ mishap' \in [Clients -> BOOLEAN] /\ \A d \in Clients \ {c} : mishap'[d] = mishap[d]
            /\ ~mishap'[c] => ~mishap[c]
        BY <1>0, <4>1, MishapIs
      <4>4. QED  BY <4>2, <4>3
    <3>3. QED  BY <1>9, <3>1, <3>2 DEF ReceiveFirst
  <2>3. FlagsOK' /\ RestOK'
    BY <1>0, <2>1, <2>2 DEF FlagsOK, RestOK
  <2>4. /\ PlacesOK' /\ at'[c]["recv"] = "fetch"
        /\ at'[c]["send"] = at[c]["send"] /\ at'[c]["main"] = at[c]["main"]
        /\ \A d \in Clients \ {c} : at'[d] = at[d]
    BY <1>0, <1>1, <2>1, JumpIs DEF RecvPC
  <2>5. ClientTypeOK'
    BY <2>3, <2>4 DEF ClientTypeOK, PlacesOK, FlagsOK, RestOK
  <2>6. \A d \in Clients \ {c} : Untouched(d)
    BY <2>1, <2>2, <2>4 DEF Untouched
  <2>7. at[c]["main"] # "login"
    BY <2>1
  <2>8. ClientInv(c)'
    BY <2>1, <2>2, <2>4, <2>7
  <2>9. QED  BY <1>9, <2>1, <2>5, <2>6, <2>8
<1>10. QED  BY <1>2, <1>3, <1>4, <1>5, <1>6, <1>7, <1>8, <1>9

(* run_chat_room.                                                          *)
LEMMA QuitSound ==
    ASSUME ClientTypeOK, ServerTypeOK, NEW c \in Clients, ClientInv(c),
           \/ StartThreads(c) \/ MainTests(c) \/ MainSleeps(c) \/ closeClient(c)
           \/ JoinThreads(c) \/ WakesAlone(c, "main")
    PROVE  Sound(c) /\ Steady(c)
<1> USE DEF ClientInv, Calm, At, BeforeStart, AfterLogin, EndHeard, SaysNoMore,
            HasReason, GivesUp, EndCame, SendsTyped, HandedOver, UploadAlone,
            MarksInTime, Answered, StillServed, Woken, Ahead, Completing, Sharing, Waiting,
            Replying, Flags, ClientThreads,
            Sound, Steady, Owing, Raised
<1>0. PlacesOK /\ FlagsOK /\ RestOK /\ at[c]["send"] \in SendPC /\ at[c]["recv"] \in RecvPC
      /\ at[c]["main"] \in QuitPC
  BY ClientTypeIs DEF ClientTypeOK
<1>1. QuitPC = Places("main")
  BY DEF Places
<1>2. CASE StartThreads(c)
  <2> DEFINE A == [send |-> "loop", recv |-> "loop", main |-> "check"]
             PCs == SendPC \cup RecvPC \cup QuitPC
  <2>1. /\ at[c]["main"] = "login" /\ client[c] = "in" /\ at' = [at EXCEPT ![c] = A]
        /\ UNCHANGED <<flag, line, message, heard, typed, answer, mishap, client, outbox>>
    BY <1>2 DEF StartThreads, Local, serving, socketState
  <2>2. /\ A \in [{"send", "recv", "main"} -> PCs]
        /\ A["send"] = "loop" /\ A["recv"] = "loop" /\ A["main"] = "check"
        /\ A["send"] \in SendPC /\ A["recv"] \in RecvPC /\ A["main"] \in QuitPC
    BY DEF SendPC, RecvPC, QuitPC
  <2> HIDE DEF A, PCs
  <2>3. /\ at' \in [Clients -> [{"send", "recv", "main"} -> PCs]] /\ at'[c] = A
        /\ \A d \in Clients \ {c} : at'[d] = at[d]
    BY <1>0, <2>1, <2>2 DEF PlacesOK, PCs
  <2>4. PlacesOK'
    BY <1>0, <2>2, <2>3 DEF PlacesOK, PCs
  <2>5. ClientTypeOK'
    BY <1>0, <2>1, <2>4 DEF ClientTypeOK, PlacesOK, FlagsOK, RestOK
  <2>6. \A d \in Clients \ {c} : Untouched(d)
    BY <2>1, <2>3 DEF Untouched
  <2>7. ClientInv(c)' /\ Steady(c)
    BY <2>1, <2>2, <2>3
  <2>8. QED  BY <2>1, <2>5, <2>6, <2>7
<1>3. CASE MainTests(c)
  <2>1. PICK l \in {"close", "blocking"} :
          /\ at[c]["main"] = "check" /\ Proceed(c, "main", l)
          /\ l = "close" => flag[c].shouldQuit
    <3>1. CASE flag[c].shouldQuit  BY <1>3, <3>1 DEF MainTests
    <3>2. CASE ~flag[c].shouldQuit  BY <1>3, <3>2 DEF MainTests
    <3>3. QED  BY <3>1, <3>2
  <2>2. Moved(c, "main", l)
    BY <1>1, <2>1, ProceedIs DEF QuitPC
  <2>3. QED  BY <2>1, <2>2 DEF Moved
<1>4. CASE MainSleeps(c) \/ JoinThreads(c) \/ WakesAlone(c, "main")
  <2>1. PICK l \in {"asleep", "check", "done"} :
          at[c]["main"] \in {"blocking", "join", "asleep"} /\ Proceed(c, "main", l)
    <3>1. CASE MainSleeps(c)  BY <3>1 DEF MainSleeps
    <3>2. CASE JoinThreads(c)  BY <3>2 DEF JoinThreads
    <3>3. CASE WakesAlone(c, "main")  BY <1>0, <3>3 DEF WakesAlone, QuitPC
    <3>4. QED  BY <1>4, <3>1, <3>2, <3>3
  <2>2. Moved(c, "main", l)
    BY <1>1, <2>1, ProceedIs DEF QuitPC
  <2>3. QED  BY <2>1, <2>2 DEF Moved
<1>5. CASE closeClient(c)
  <2>1. /\ at[c]["main"] = "close" /\ Jump(c, "main", "join")
        /\ client' = [client EXCEPT ![c] = "closed"]
        /\ UNCHANGED <<flag, line, message, heard, typed, answer, mishap, outbox>>
    BY <1>5 DEF closeClient, serving
  <2>2. client'[c] = "closed" /\ \A d \in Clients \ {c} : client'[d] = client[d]
    BY <2>1 DEF ServerTypeOK
  <2>3. /\ PlacesOK' /\ at'[c]["main"] = "join"
        /\ at'[c]["send"] = at[c]["send"] /\ at'[c]["recv"] = at[c]["recv"]
        /\ \A d \in Clients \ {c} : at'[d] = at[d]
    BY <1>0, <1>1, <2>1, JumpIs DEF QuitPC
  <2>4. ClientTypeOK'
    BY <1>0, <2>1, <2>3 DEF ClientTypeOK, PlacesOK, FlagsOK, RestOK
  <2>5. \A d \in Clients \ {c} : Untouched(d)
    BY <2>1, <2>2, <2>3 DEF Untouched
  <2>6. ClientInv(c)' /\ Steady(c)
    BY <2>1, <2>2, <2>3
  <2>7. QED  BY <2>1, <2>4, <2>5, <2>6
<1>6. QED  BY <1>2, <1>3, <1>4, <1>5

(* Client c receives something, in either thread.                          *)
Receives(c) ==
    ReceiveMessage(c) \/ ReceiveFirst(c) \/ \E t \in {"send", "recv"} : FetchInfo(c, t)

(* Any step of client c.                                                   *)
LEMMA StepSound ==
    ASSUME ClientTypeOK, ServerTypeOK, NEW c \in Clients, ClientInv(c), ClientProgram(c)
    PROVE  Sound(c) /\ (Steady(c) \/ Receives(c))
<1> USE DEF Receives
<1>1. CASE SendThread(c)
  BY <1>1, EitherSound, BothSound, SendSound DEF SendThread, EitherThread
<1>2. CASE RecvThread(c)
  BY <1>2, EitherSound, BothSound, RecvSound DEF RecvThread, EitherThread
<1>3. CASE QuitThread(c)
  BY <1>3, QuitSound DEF QuitThread
<1>4. CASE Type(c)
  BY <1>4, SendSound
<1>5. CASE \E t \in {"send", "recv"} : TransferReturns(c, t)
  BY <1>5, EitherSound
<1>6. CASE \E t \in {"send", "recv", "main"} : WakesAlone(c, t)
  BY <1>6, EitherSound, QuitSound
<1>7. QED
  BY <1>1, <1>2, <1>3, <1>4, <1>5, <1>6 DEF ClientProgram

(* A step of one client keeps the invariants of all.                       *)
LEMMA ClientSound ==
    ASSUME ClientTypeOK, ServerTypeOK, \A d \in Clients : ClientInv(d),
           NEW c \in Clients, ClientProgram(c)
    PROVE  ClientTypeOK' /\ \A d \in Clients : ClientInv(d)'
<1>1. Sound(c)
  BY StepSound
<1>2. ASSUME NEW d \in Clients \ {c}  PROVE ClientInv(d)'
  <2>1. Untouched(d) /\ outbox' = outbox /\ ClientInv(d)
    BY <1>1, <1>2 DEF Sound
  <2>2. QED
    BY <2>1 DEF Untouched, ClientInv, At, BeforeStart, AfterLogin, EndHeard, SaysNoMore,
         HasReason, GivesUp, EndCame, SendsTyped, HandedOver, UploadAlone, MarksInTime,
         Answered, StillServed, Woken, Ahead
<1>3. QED  BY <1>1, <1>2 DEF Sound

-----------------------------------------------------------------------------
(* Steps of the server, as a client sees them. *)

(* What has been delivered to u stays where it is.                         *)
Extends(u) ==
    /\ Len(outbox[u]) <= Len(outbox'[u])
    /\ \A i \in DOMAIN outbox[u] : i \in DOMAIN outbox'[u] /\ outbox'[u][i] = outbox[u][i]

(* sendMessage only adds to what a participant gets.                       *)
LEMMA SendExtends ==
    ASSUME ServerTypeOK, NEW u, NEW m, sendMessage(u, m), NEW v \in Users
    PROVE  Extends(v)
<1> DEFINE c == Reached(u)
           got == IF c = u THEN m ELSE [m EXCEPT !.kind = "garbled"]
<1>1. outbox' = IF c = Nobody THEN outbox ELSE [outbox EXCEPT ![c] = Append(@, got)]
  BY DEF sendMessage
<1> HIDE DEF c, got
<1>2. outbox \in [Users -> Seq(Message)]
  BY DEF ServerTypeOK
<1>3. outbox'[v] = outbox[v] \/ outbox'[v] = Append(outbox[v], got)
  BY <1>1, <1>2
<1>4. outbox[v] \in Seq(Message)
  BY <1>2
<1>5. QED  BY <1>3, <1>4 DEF Extends

(* sendTransferInfo only adds to what the participants get.                *)
LEMMA InfoExtends ==
    ASSUME ServerTypeOK, NEW u, NEW w, sendTransferInfo(u, w), NEW v \in Users
    PROVE  Extends(v)
<1> DEFINE R == {Reached(u), Reached(w)} \ {Host, Nobody}
           got(c) == [kind |-> IF c \in {u, w} THEN "info" ELSE "garbled", from |-> u, n |-> 0]
<1>1. outbox' = [c \in Users |-> IF c \in R THEN Append(outbox[c], got(c)) ELSE outbox[c]]
  BY DEF sendTransferInfo
<1> HIDE DEF R, got
<1>2. outbox'[v] = outbox[v] \/ outbox'[v] = Append(outbox[v], got(v))
  BY <1>1
<1>3. outbox[v] \in Seq(Message)
  BY DEF ServerTypeOK
<1>4. QED  BY <1>2, <1>3 DEF Extends

(* What client c can tell of a step: a connection that is there stays as   *)
(* it is or is lost, nobody says /quit for it, and what has been delivered *)
(* since it was let in stays delivered.                                    *)
Seen(c) ==
    /\ client[c] \in {"in", "leaving", "closed"} => client'[c] \in {client[c], "closed"}
    /\ client'[c] = "leaving" => client[c] = "leaving"
    /\ client[c] # "asking" => Extends(c)

(* A step that changes neither the connections nor what is delivered.      *)
LEMMA NothingSeen ==
    ASSUME UNCHANGED <<client, outbox>>, NEW c \in Clients
    PROVE  Seen(c)
BY DEF Seen, Extends

(* Handlers, and the host's commands, deliver and do nothing else to a     *)
(* connection.                                                             *)
LEMMA HandlerSeen ==
    ASSUME TypeOK, NEW t \in Users, HandlerStep(t), NEW c \in Clients
    PROVE  Seen(c)
<1>1. UNCHANGED client
  BY HandlerKeeps DEF Keeps
<1>2. Extends(c)
  <2>1. CASE UNCHANGED outbox
    BY <2>1 DEF Extends
  <2>2. CASE \E u, m : sendMessage(u, m)
    BY <2>2, SendExtends, NamesApart DEF TypeOK
  <2>3. CASE \E u, v : sendTransferInfo(u, v)
    BY <2>3, InfoExtends, NamesApart DEF TypeOK
  <2>4. CASE LoopStep(t)
    BY <2>1, <2>4 DEF LoopStep, TestQuit, Receive, ReceiveThrows, Decide, DecideThrows,
         wait_completeTransfer, Catch, Moves, serverVars
  <2>5. CASE CommandStep(t)
    <3>1. Utter(t) => \E u, m : sendMessage(u, m)
      BY DEF Utter
    <3>2. QED
      BY <2>1, <2>2, <2>5, <3>1 DEF CommandStep, Quit, ListUsers, ListCommands,
           WhisperSocket, WhisperUser, Moves, serverVars
  <2>6. CASE BroadcastStep(t)
    <3>1. SendOne(t) => \E u, m : sendMessage(u, m)
      BY DEF SendOne
    <3>2. QED
      BY <2>1, <2>2, <2>6, <3>1 DEF BroadcastStep, BeginBroadcast, Scan, EndBroadcast,
           serverVars
  <2>7. CASE TransferStep(t)
    <3>1. SendInfo(t) => \E u, v : sendTransferInfo(u, v)
      BY DEF SendInfo
    <3>2. QED
      BY <2>1, <2>3, <2>7, <3>1 DEF TransferStep, LookUp, MarkThem, MarkSelf,
           AwaitDecision, AwaitThrows, Decided, Resume, UnmarkThem, UnmarkSelf, Moves,
           serverVars
  <2>8. QED  BY <2>4, <2>5, <2>6, <2>7 DEF HandlerStep
<1>3. QED  BY <1>1, <1>2 DEF Seen, TypeOK, ServerTypeOK

(* getConnections lets a client that waits try a name, and answers.        *)
LEMMA AcceptorSeen ==
    ASSUME TypeOK, AcceptorStep, NEW c \in Clients
    PROVE  Seen(c)
<1>1. CASE ExchangeKeys
  <2>1. /\ client[target[Acceptor]] = "dialing" /\ UNCHANGED outbox
        /\ client' = [client EXCEPT ![target[Acceptor]] = "naming"]
    BY <1>1 DEF ExchangeKeys
  <2>2. QED  BY <2>1 DEF Seen, Extends, TypeOK, ServerTypeOK
<1>2. CASE AnswerName
  <2>1. UNCHANGED client /\ \E u, m : sendMessage(u, m)
    BY <1>2 DEF AnswerName
  <2>2. Extends(c)
    BY <2>1, SendExtends, NamesApart DEF TypeOK
  <2>3. QED  BY <2>1, <2>2 DEF Seen
<1>3. CASE ~ExchangeKeys /\ ~AnswerName
  <2>1. UNCHANGED <<client, outbox>>
    BY <1>3 DEF AcceptorStep, AcceptorTest, SelectTimesOut, Accept, HandshakeFails, AddUser,
         ReceiveName, LoginLost, CheckName, SetName, PushHandler, Moves, serverVars
  <2>2. QED  BY <2>1, NothingSeen
<1>4. QED  BY <1>1, <1>2, <1>3

(* The login of a client is over before it counts as in.                   *)
LEMMA LoginSeen ==
    ASSUME TypeOK, NEW d \in Clients, LoggingIn(d), NEW c \in Clients
    PROVE  Seen(c)
<1> USE DEF TypeOK, ServerTypeOK
<1>1. CASE Connect(d) \/ TryName(d) \/ Break(d)
  BY <1>1 DEF Connect, TryName, Break, Seen, Extends
<1>2. CASE HearAnswer(d)
  <2>1. PICK k \in 1..Len(outbox[d]) :
          /\ client[d] = "asking"
          /\ outbox' = [outbox EXCEPT ![d] = SubSeq(@, k + 1, Len(@))]
          /\ client' = [client EXCEPT ![d] =
                          IF k = 1 /\ Head(outbox[d]).kind = "valid" THEN "in" ELSE "naming"]
    BY <1>2 DEF HearAnswer
  <2>2. CASE c = d   BY <2>1, <2>2 DEF Seen
  <2>3. CASE c # d   BY <2>1, <2>3, NamesApart DEF Seen, Extends
  <2>4. QED  BY <2>2, <2>3
<1>3. QED  BY <1>1, <1>2 DEF LoggingIn

(* Whatever else the server does is not seen by any client.                *)
LEMMA ServerSeen ==
    ASSUME TypeOK, ServerProgram, NEW c \in Clients
    PROVE  Seen(c)
<1>1. CASE \E u \in Users : HandlerStep(u)
  BY <1>1, HandlerSeen
<1>2. CASE AcceptorStep
  BY <1>2, AcceptorSeen
<1>3. CASE Say(Host)
  <2>1. PICK s \in Says[Host] :
          client' = IF s.kind = "quit" THEN [client EXCEPT ![Host] = "leaving"] ELSE client
    BY <1>3 DEF Say
  <2>2. s.kind # "quit"
    BY ChatRoomAssumption
  <2>3. UNCHANGED <<client, outbox>>
    BY <1>3, <2>1, <2>2 DEF Say
  <2>4. QED  BY <2>3, NothingSeen
<1>4. CASE StartTask \/ HostStep \/ MainStep \/ SpuriousWakeup
           \/ \E u \in Users : UseAfterFree(u) \/ BadErrorText(u)
  <2>1. UNCHANGED <<client, outbox>>
    BY <1>4 DEF StartTask, HostStep, RaiseShouldQuit, NotifyMain, MainStep, MainChecks,
         MainBlocks, MainJoins, SpuriousWakeup, UseAfterFree, BadErrorText, Moves, serverVars
  <2>2. QED  BY <2>1, NothingSeen
<1>5. QED  BY <1>1, <1>2, <1>3, <1>4 DEF ServerProgram

(* A step that every client sees in this way keeps their invariants.       *)
LEMMA SeenSound ==
    ASSUME ClientTypeOK, \A d \in Clients : ClientInv(d) /\ Seen(d), UNCHANGED clientVars
    PROVE  ClientTypeOK' /\ \A d \in Clients : ClientInv(d)'
<1>0. UNCHANGED <<at, flag, line, message, heard, typed, answer, mishap>>
  BY DEF clientVars
<1>1. ASSUME NEW d \in Clients  PROVE heard[d] = 0 \/ Extends(d)
  BY DEF ClientInv, BeforeStart, AfterLogin, At, Seen
<1>2. ClientTypeOK'
  <2>1. \A d \in Clients : heard[d] \in Nat /\ heard[d] <= Len(outbox[d])
    BY DEF ClientTypeOK
  <2>2. \A d \in Clients : heard[d] <= Len(outbox'[d])
    BY <1>1, <2>1 DEF Extends
  <2>3. QED  BY <1>0, <2>2 DEF ClientTypeOK
<1>3. ASSUME NEW d \in Clients  PROVE ClientInv(d)'
  <2>1. EndCame(d) => EndCame(d)' \/ At(d, "main", "login")
    BY DEF ClientInv, AfterLogin, EndCame, Seen, Extends
  <2> HIDE DEF EndCame
  <2>2. BeforeStart(d)' /\ AfterLogin(d)' /\ SaysNoMore(d)'
    BY <1>0 DEF ClientInv, BeforeStart, AfterLogin, SaysNoMore, At, Seen
  <2>3. EndHeard(d)' /\ HasReason(d)'
    BY <1>0, <2>1 DEF ClientInv, BeforeStart, AfterLogin, EndHeard, HasReason, GivesUp, At, Seen
  <2>4. SendsTyped(d)' /\ HandedOver(d)' /\ UploadAlone(d)' /\ MarksInTime(d)' /\ Answered(d)'
        /\ StillServed(d)' /\ Woken(d)' /\ Ahead(d)'
    BY <1>0 DEF ClientInv, SendsTyped, HandedOver, UploadAlone, MarksInTime, Answered,
         StillServed, Woken, Ahead, At
  <2>5. QED  BY <2>2, <2>3, <2>4 DEF ClientInv
<1>4. QED  BY <1>2, <1>3

-----------------------------------------------------------------------------
(* Steps of a client, as the server sees them. *)

(* What a client's thread sends is a line that Peers.tla lets it say.      *)
LEMMA SendingIsSaying ==
    ASSUME ClientTypeOK, NEW c \in Clients, ClientInv(c), SendLine(c) \/ SendAnswer(c)
    PROVE  Say(c) \/ UNCHANGED vars
<1>1. CASE SendLine(c)
  <2> DEFINE s == [kind |-> line[c].kind, arg |-> line[c].arg]
  <2>1. /\ at[c]["send"] = "dispatch" /\ line[c].kind # "local" /\ client[c] \in {"in", "leaving"}
        /\ Put(c, [kind |-> line[c].kind, arg |-> line[c].arg])
        /\ client' = IF line[c].kind = "quit" THEN [client EXCEPT ![c] = "leaving"] ELSE client
        /\ UNCHANGED serving
    BY <1>1 DEF SendLine, At, CanSend
  <2>2. client[c] = "in" /\ line[c] \in Types[c]
    BY <2>1 DEF ClientInv, SaysNoMore, SendsTyped, At
  <2>3. s \in Says[c] /\ s.kind = line[c].kind /\ s.kind # "name"
    BY <2>1, <2>2, SystemAssumption, ClientChatRoomAssumption DEF Typed
  <2>4. Put(c, s) /\ client' = IF s.kind = "quit" THEN [client EXCEPT ![c] = "leaving"] ELSE client
    BY <2>1
  <2> HIDE DEF s
  <2>5. QED  BY <2>1, <2>2, <2>3, <2>4 DEF Say, serving
<1>2. CASE SendAnswer(c)
  <2>1. CASE CanSend(c)
    <3> DEFINE s == [kind |-> IF At(c, "recv", "yes") THEN "yes" ELSE "chat", arg |-> HostName]
    <3>1. client[c] \in {"in", "leaving"} /\ Put(c, s) /\ UNCHANGED <<serving, client>>
      BY <1>2, <2>1 DEF SendAnswer, CanSend
    <3>2. s \in Says[c] /\ s.kind \in {"yes", "chat"}
      BY SystemAssumption
    <3> HIDE DEF s
    <3>3. QED  BY <3>1, <3>2 DEF Say, serving
  <2>2. CASE ~CanSend(c)
    <3>1. UNCHANGED <<serving, client, inbox, sent>>
      BY <1>2, <2>2 DEF SendAnswer
    <3>2. QED  BY <3>1 DEF serving, vars, serverVars
  <2>3. QED  BY <2>1, <2>2
<1>3. QED  BY <1>1, <1>2

(* closeClient comes after /quit, after "/end" has been read, or when the  *)
(* connection is lost.                                                     *)
LEMMA ClosingIsHangingUp ==
    ASSUME ServerTypeOK, NEW c \in Clients, ClientInv(c), closeClient(c)
    PROVE  HangUp(c) \/ UNCHANGED vars
<1>1. /\ at[c]["main"] = "close" /\ client' = [client EXCEPT ![c] = "closed"]
      /\ UNCHANGED <<serving, inbox, sent>>
  BY DEF closeClient, At
<1>2. client[c] \in {"in", "leaving", "closed"} /\ (client[c] = "in" => EndCame(c))
  BY <1>1 DEF ClientInv, AfterLogin, HasReason, GivesUp, At
<1>3. CASE client[c] = "closed"
  <2>1. client' = client
    BY <1>1, <1>3 DEF ServerTypeOK
  <2>2. QED  BY <1>1, <2>1 DEF serving, vars, serverVars
<1>4. CASE client[c] # "closed"
  BY <1>1, <1>2, <1>4 DEF HangUp, EndCame, serving
<1>5. QED  BY <1>3, <1>4

(* A step of a client's threads is a step of Peers.tla, or the server      *)
(* notices nothing of it.                                                  *)
LEMMA ClientSimulated ==
    ASSUME ClientTypeOK, ServerTypeOK, NEW c \in Clients, ClientInv(c), ClientProgram(c)
    PROVE  Say(c) \/ HangUp(c) \/ UNCHANGED vars
<1>1. CASE UNCHANGED <<serving, socketState>>
  BY <1>1 DEF serving, socketState, vars, serverVars
<1>2. ASSUME NEW t, EitherThread(c, t) \/ TransferReturns(c, t) \/ WakesAlone(c, t)
      PROVE  UNCHANGED <<serving, socketState>>
  BY <1>2 DEF EitherThread, Signal, NotifyQuit, LockTransfer, AwaitDecided, AwaitComplete,
       FallAsleep, Choose, FetchInfo, Complete, WakeOther, TellDecision, notify_one,
       TransferReturns, WakesAlone, Proceed, Local
<1>3. ASSUME Unmark(c) \/ SendTestsQuit(c) \/ Decides(c) \/ Refuse(c) \/ ResetFlags(c)
             \/ HandleLocally(c) \/ Type(c)
      PROVE  UNCHANGED <<serving, socketState>>
  BY <1>3 DEF Unmark, SendTestsQuit, Decides, Refuse, ResetFlags, HandleLocally, Type, Proceed,
       Local
<1>4. ASSUME RecvTestsQuit(c) \/ ReceiveMessage(c) \/ TestTransfer(c) \/ Handle(c)
             \/ RecvDecides(c) \/ RecvMarks(c) \/ ReceiveFirst(c)
      PROVE  UNCHANGED <<serving, socketState>>
  BY <1>4 DEF RecvTestsQuit, ReceiveMessage, TestTransfer, Handle, RecvDecides, RecvMarks,
       ReceiveFirst, Proceed, Local
<1>5. ASSUME StartThreads(c) \/ MainTests(c) \/ MainSleeps(c) \/ JoinThreads(c)
      PROVE  UNCHANGED <<serving, socketState>>
  BY <1>5 DEF StartThreads, MainTests, MainSleeps, JoinThreads, Proceed, Local
<1>6. CASE SendLine(c) \/ SendAnswer(c)
  BY <1>6, SendingIsSaying
<1>7. CASE closeClient(c)
  BY <1>7, ClosingIsHangingUp
<1>8. QED
  BY <1>1, <1>2, <1>3, <1>4, <1>5, <1>6, <1>7 DEF ClientProgram, SendThread, RecvThread,
     QuitThread

(* Every step of the whole program is one of the server with the clients   *)
(* of Peers.tla, or the server notices nothing of it.                      *)
LEMMA StepSimulated ==
    ASSUME TypeOK, ClientTypeOK, \A d \in Clients : ClientInv(d), SystemNext
    PROVE  Next \/ UNCHANGED vars
<1>0. ~crashed /\ ServerTypeOK
  BY DEF SystemNext, TypeOK
<1>1. ASSUME NEW c \in Clients, ClientProgram(c)  PROVE Next \/ UNCHANGED vars
  <2>1. Say(c) \/ HangUp(c) \/ UNCHANGED vars
    BY <1>0, <1>1, ClientSimulated
  <2>2. QED  BY <1>0, <2>1, NamesApart DEF Next, ClientStep
<1>2. ASSUME NEW c \in Clients, LoggingIn(c)  PROVE Next
  BY <1>0, <1>2 DEF LoggingIn, Next, ClientStep
<1>3. ServerProgram => Next
  BY <1>0, NamesApart DEF ServerProgram, Next
<1>4. QED  BY <1>1, <1>2, <1>3 DEF SystemNext

-----------------------------------------------------------------------------
(* The whole program. *)

(* The inductive invariant: that of the server, and that of every client.  *)
SystemInv == IInv /\ ClientTypeOK /\ \A c \in Clients : ClientInv(c)

(* The program starts in it: no client has started, nothing has been sent. *)
LEMMA SystemInitInv == SystemInit => SystemInv
<1> SUFFICES ASSUME SystemInit  PROVE SystemInv
  OBVIOUS
<1>1. IInv /\ ServerTypeOK
  BY InitInv DEF SystemInit, IInv, TypeOK
<1>2. ClientTypeOK
  <2>1. NoLine \in Typed /\ "garbled" \in Notices
    BY NamesAssumption DEF NoLine, Typed, Notices
  <2>2. \A c \in Clients : Len(outbox[c]) \in Nat /\ Lines[c] \in Nat
    BY <1>1, NamesApart, ClientChatRoomAssumption DEF ServerTypeOK
  <2> DEFINE A == [send |-> "off", recv |-> "off", main |-> "login"]
             F == [shouldQuit |-> FALSE, fileTransfer |-> FALSE,
                   transferComplete |-> FALSE, decided |-> FALSE]
             PCs == SendPC \cup RecvPC \cup QuitPC
  <2>3. at = [c \in Clients |-> A] /\ flag = [c \in Clients |-> F]
    BY DEF SystemInit, ClientInit
  <2>4. /\ A \in [ClientThreads -> PCs]
        /\ A["send"] \in SendPC /\ A["recv"] \in RecvPC /\ A["main"] \in QuitPC
    <3>1. "off" \in SendPC /\ "off" \in RecvPC /\ "login" \in QuitPC
      BY DEF SendPC, RecvPC, QuitPC
    <3>2. QED  BY <3>1 DEF ClientThreads
  <2>5. F \in [Flags -> BOOLEAN]
    <3>1. DOMAIN F = Flags /\ \A g \in Flags : F[g] = FALSE
      BY DEF Flags
    <3>2. F = [g \in DOMAIN F |-> F[g]]
      OBVIOUS
    <3> HIDE DEF F
    <3>3. QED  BY <3>1, <3>2
  <2> HIDE DEF A, F, PCs
  <2>6. PlacesOK /\ FlagsOK
    BY <2>3, <2>4, <2>5 DEF PlacesOK, FlagsOK, PCs
  <2>7. RestOK
    BY <2>1, <2>2 DEF SystemInit, ClientInit, RestOK
  <2>8. QED  BY <2>6, <2>7, ClientTypeIs
<1>3. ASSUME NEW c \in Clients  PROVE ClientInv(c)
  <2>1. /\ at[c]["main"] = "login" /\ at[c]["send"] = "off" /\ at[c]["recv"] = "off"
        /\ heard[c] = 0 /\ message[c] = "garbled" /\ ~flag[c].shouldQuit
        /\ client[c] = "out"
    BY DEF SystemInit, ClientInit, Init, ServerInit
  <2>2. QED
    BY <2>1 DEF ClientInv, At, BeforeStart, AfterLogin, EndHeard, SaysNoMore, HasReason,
       GivesUp, SendsTyped, HandedOver, UploadAlone, MarksInTime, Answered, StillServed,
       Woken, Ahead, Completing, Sharing, Waiting, Replying
<1>4. QED  BY <1>1, <1>2, <1>3 DEF SystemInv

(* Every step keeps it.                                                    *)
LEMMA SystemNextInv ==
    ASSUME SystemInv, [SystemNext]_systemVars
    PROVE  SystemInv' /\ [Next]_vars
<1>0. IInv /\ TypeOK /\ ServerTypeOK /\ ClientTypeOK /\ \A c \in Clients : ClientInv(c)
  BY DEF SystemInv, IInv, TypeOK
<1>1. [Next]_vars
  BY <1>0, StepSimulated DEF systemVars
<1>2. IInv'
  BY <1>0, <1>1, NextInv, StutterInv
<1>3. ClientTypeOK' /\ \A c \in Clients : ClientInv(c)'
  <2>1. ASSUME NEW c \in Clients, ClientProgram(c)
        PROVE  ClientTypeOK' /\ \A d \in Clients : ClientInv(d)'
    BY <1>0, <2>1, ClientSound
  <2>2. CASE (ServerProgram \/ \E c \in Clients : LoggingIn(c)) /\ UNCHANGED clientVars
    BY <1>0, <2>2, ServerSeen, LoginSeen, SeenSound
  <2>3. CASE UNCHANGED systemVars
    <3>1. UNCHANGED clientVars /\ UNCHANGED <<client, outbox>>
      BY <2>3 DEF systemVars, vars, serverVars
    <3>2. QED  BY <1>0, <3>1, NothingSeen, SeenSound
  <2>4. QED  BY <2>1, <2>2, <2>3 DEF SystemNext
<1>4. QED  BY <1>1, <1>2, <1>3 DEF SystemInv

(* It holds in every reachable state of the whole program, for any number  *)
(* of clients, any lines and any schedule of the clients' threads.         *)
THEOREM SystemInvariance == SystemSpec => []SystemInv
<1>1. SystemInit => SystemInv
  BY SystemInitInv
<1>2. SystemInv /\ [SystemNext]_systemVars => SystemInv'
  BY SystemNextInv
<1>3. QED  BY <1>1, <1>2, PTL DEF SystemSpec

(* Every reachable state of a client is well typed.                        *)
THEOREM ClientTypeCorrect == SystemSpec => []ClientTypeOK
<1>1. SystemInv => ClientTypeOK
  BY DEF SystemInv
<1>2. QED  BY <1>1, SystemInvariance, PTL

(* Whatever the threads of the clients do, the server sees only what       *)
(* Peers.tla lets a client do (run_chat_room, sendMessageLoop,             *)
(* recvMessageLoop).                                                       *)
THEOREM PeersAreEnough == SystemSpec => PeersSuffice
<1>1. SystemInv /\ [SystemNext]_systemVars => [Next]_vars
  BY SystemNextInv
<1>2. QED  BY <1>1, SystemInvariance, PTL DEF SystemSpec, PeersSuffice

(* So the whole program implements the server's specification, and what is *)
(* proved of the server holds of the whole program.                        *)
THEOREM SystemImplements == SystemSpec => Spec
<1>1. SystemInit => Init
  BY DEF SystemInit
<1>2. QED  BY <1>1, PeersAreEnough, PTL DEF SystemSpec, Spec, PeersSuffice

(* The registry, the names, the removals, the order of the messages, the   *)
(* goodbyes, the flags, the futures, the approvals, the broadcasts and the *)
(* pool of the server are right when the clients are the real ones.        *)
THEOREM ServerKept ==
    SystemSpec => /\ []RegistryConsistent
                  /\ []UniqueNames
                  /\ OnlyOwnQuitRemoves
                  /\ []SameOrder
                  /\ []GoodbyeIsTrue
                  /\ []NoFlagLeftBehind
                  /\ []OneWaiter
                  /\ []InfoAfterApproval
                  /\ ImplementsBroadcast
                  /\ RunsOnPool
BY SystemImplements, RegistryCorrect, NamesUnique, OwnQuitOnly, OneOrder, GoodbyesAreTrue,
   FlagsTakenBack, OneWaits, ApprovalsFirst, BroadcastsTakeTurns, ThreadsOnPool, PTL

(* So is what the server promises only while nothing gets in its way: with *)
(* the real clients too, as long as uploads to one recipient do not        *)
(* overlap, the recipient is parked while it is answered and its decision  *)
(* is read, and as long as no login and no transfer ends during a          *)
(* broadcast, nobody is missed.                                            *)
THEOREM ServerKeptApart ==
    /\ SystemSpec /\ []RecipientsApart => []RecipientParked /\ []DecisionHandedOver
    /\ SystemSpec /\ [][Undisturbed]_vars => []NobodyMissed
BY SystemImplements, RecipientWaits, DecisionRead, NobodyPassedOver, PTL

(* Unless a notification was lost or a flag left over, the two threads of  *)
(* a client do not sleep at the same time, except when both wait for a     *)
(* decision (send_fileTransfer, receive_fileTransfer, recvMessageLoop).    *)
THEOREM NeverBothWait == SystemSpec => []NoCircularWait
<1>1. SystemInv => NoCircularWait
  <2> SUFFICES ASSUME SystemInv, NEW c \in Clients, ~mishap[c],
                      at[c]["send"] \in {"asleep", "tasleep"},
                      at[c]["recv"] \in {"asleep", "tasleep"}
               PROVE  at[c]["send"] = "asleep" /\ at[c]["recv"] = "asleep"
    BY DEF NoCircularWait, At
  <2>1. Woken(c) /\ Ahead(c)
    BY DEF SystemInv, ClientInv
  <2>2. ~(at[c]["send"] = "asleep" /\ at[c]["recv"] = "tasleep")
    BY <2>1 DEF Woken
  <2>3. ~(at[c]["send"] = "tasleep" /\ at[c]["recv"] = "asleep")
    BY <2>1 DEF Woken
  <2>4. ~(at[c]["send"] = "tasleep" /\ at[c]["recv"] = "tasleep")
    BY <2>1 DEF Ahead, Waiting, Sharing, Completing, Replying
  <2>5. QED  BY <2>2, <2>3, <2>4
<1>2. QED  BY <1>1, SystemInvariance, PTL

(* While uploadFile reads what the server sends about the peer the other   *)
(* thread does not read from the same socket, unless a mishap has happened *)
(* (uploadFile, recvMessageLoop).                                          *)
THEOREM OneThreadReads == SystemSpec => []OneReader
<1>1. SystemInv => OneReader
  <2> SUFFICES ASSUME SystemInv, NEW c \in Clients,
                      At(c, "send", "fetch"), At(c, "recv", "recv")
               PROVE  mishap[c]
    BY DEF OneReader
  <2>1. UploadAlone(c)
    BY DEF SystemInv, ClientInv
  <2>2. QED  BY <2>1 DEF UploadAlone, At, Completing, Sharing
<1>2. QED  BY <1>1, SystemInvariance, PTL

(* The server is answered only after the user has typed something since    *)
(* the request came, unless a mishap has happened (receive_fileTransfer).  *)
THEOREM AnswersAreTyped == SystemSpec => []AnswerNeedsLine
<1>1. SystemInv => AnswerNeedsLine
  <2> SUFFICES ASSUME SystemInv, NEW c \in Clients, at[c]["recv"] \in {"yes", "no"},
                      ~mishap[c]
               PROVE  answer[c] # "none"
    BY DEF AnswerNeedsLine
  <2>1. Answered(c)
    BY DEF SystemInv, ClientInv
  <2>2. QED  BY <2>1 DEF Answered, At
<1>2. QED  BY <1>1, SystemInvariance, PTL

-----------------------------------------------------------------------------
(* What the server sends about the peer, in the hands of a client. *)

(* What is owed to a client is owed for one upload, and is about to be     *)
(* read by the thread that needs it.                                       *)
Collects(c) ==
    ~mishap[c] /\ client[c] # "closed" =>
        /\ message[c] # "info"
        /\ \A u, w \in Users :
              Owed(outbox[c], u, heard[c]) /\ Owed(outbox[c], w, heard[c]) => u = w
        /\ \A u \in Users : Owed(outbox[c], u, heard[c]) => Owing(c)
        /\ Raised(c)

(* When nothing is received it stays so.                                   *)
LEMMA SteadyCollects ==
    ASSUME NEW c \in Clients, Collects(c), Steady(c), heard[c] \in Nat,
           \A i \in 1..heard[c] : outbox'[c][i] = outbox[c][i]
    PROVE  Collects(c)'
<1> DEFINE n == heard[c]
<1>1. ASSUME NEW u \in Users  PROVE Owed(outbox'[c], u, n) <=> Owed(outbox[c], u, n)
  BY OwedSame
<1>2. heard'[c] = n
  BY DEF Steady
<1> HIDE DEF n
<1>3. ASSUME ~mishap'[c], client'[c] # "closed"
      PROVE  /\ ~mishap[c] /\ client[c] # "closed" /\ message'[c] # "info"
             /\ Raised(c)' /\ (Owing(c) => Owing(c)')
  BY <1>3 DEF Steady, Collects
<1>4. ASSUME ~mishap'[c], client'[c] # "closed"
      PROVE  /\ \A u, w \in Users :
                   Owed(outbox'[c], u, heard'[c]) /\ Owed(outbox'[c], w, heard'[c]) => u = w
             /\ \A u \in Users : Owed(outbox'[c], u, heard'[c]) => Owing(c)'
  BY <1>1, <1>2, <1>3, <1>4 DEF Collects, n
<1>5. QED  BY <1>3, <1>4 DEF Collects

(* The next message, when there is one: who is told something about a peer *)
(* has been told of the approval.                                          *)
LEMMA NextOwed ==
    ASSUME ClientTypeOK, ServerTypeOK, InfoAfterApproval, NEW c \in Clients,
           1 \in 1..(Len(outbox[c]) - heard[c])
    PROVE  /\ heard[c] \in Nat
           /\ Next1(c) = "info" => \E u \in Users :
                 /\ Owed(outbox[c], u, heard[c])
                 /\ \A w \in Users : Owed(outbox[c], w, heard[c] + 1) =>
                       Owed(outbox[c], w, heard[c]) /\ w # u
           /\ \A u \in Users : Owed(outbox[c], u, heard[c] + 1) =>
                 \/ Owed(outbox[c], u, heard[c])
                 \/ Next1(c) = "approved" /\ u = outbox[c][heard[c] + 1].from
<1> DEFINE n == heard[c]
           m == outbox[c][n + 1]
<1>1. outbox[c] \in Seq(Message) /\ n \in Nat
  BY NamesApart DEF ServerTypeOK, ClientTypeOK
<1>2. n + 1 \in DOMAIN outbox[c] /\ m.from \in Users /\ Next1(c) = m.kind
  <2>1. n + 1 \in DOMAIN outbox[c]
    BY <1>1
  <2>2. m \in Message
    BY <1>1, <2>1
  <2> HIDE DEF n
  <2>3. QED  BY <2>1, <2>2 DEF Message, Next1, n
<1>3. ASSUME NEW u \in Users
      PROVE  Owed(outbox[c], u, n + 1) <=>
                \/ m.kind = "approved" /\ m.from = u
                \/ Owed(outbox[c], u, n) /\ ~(m.kind = "info" /\ m.from = u)
  BY <1>1, OwedNext
<1>4. m.kind = "info" => Owed(outbox[c], m.from, n)
  <2>1. (n + 1) - 1 = n
    BY <1>1
  <2>2. QED  BY <1>2, <2>1 DEF InfoAfterApproval
<1> HIDE DEF n, m
<1>5. m.kind = "info" => m.from \in Users /\ \A w \in Users :
          Owed(outbox[c], w, n + 1) => Owed(outbox[c], w, n) /\ w # m.from
  BY <1>2, <1>3
<1>6. \A u \in Users : Owed(outbox[c], u, n + 1) =>
          Owed(outbox[c], u, n) \/ (m.kind = "approved" /\ u = m.from)
  BY <1>3
<1>7. QED  BY <1>1, <1>2, <1>4, <1>5, <1>6 DEF n, m

(* When something is received: recvMessageLoop reads nothing about the     *)
(* peer, and a transfer reads what is owed.                                *)
LEMMA ReceivingCollects ==
    ASSUME ClientTypeOK, ServerTypeOK, InfoAfterApproval,
           NEW c \in Clients, ClientInv(c), Collects(c), Receives(c)
    PROVE  Collects(c)'
<1> DEFINE n == heard[c]
<1>0. /\ heard \in [Clients -> Nat] /\ n \in Nat /\ PlacesOK /\ RestOK
      /\ message \in [Clients -> Notices]
  BY ClientTypeIs DEF RestOK
<1>1. UNCHANGED <<outbox, client, flag>>
  BY DEF Receives, ReceiveMessage, ReceiveFirst, FetchInfo, serving, socketState
<1> SUFFICES ASSUME ~mishap'[c], client[c] # "closed"  PROVE Collects(c)'
  BY <1>1 DEF Collects
<1>2. ASSUME NEW t \in {"send", "recv"}, NEW l \in Places(t), Jump(c, t, l)
      PROVE  at'[c][t] = l /\ at'[c][Other(t)] = at[c][Other(t)]
  BY <1>0, <1>2, JumpIs DEF Other, ClientThreads
<1>3. ASSUME NEW k \in 1..(Len(outbox[c]) - n), receive(c, k)
      PROVE  k = 1 /\ ~mishap[c] /\ heard'[c] = n + 1
  <2>1. heard' = [heard EXCEPT ![c] = @ + k] /\ mishap' = [mishap EXCEPT ![c] = @ \/ k > 1]
    BY <1>3 DEF receive
  <2>2. ~mishap'[c] => ~mishap[c] /\ ~(k > 1)
    BY <1>0, <2>1, MishapIs
  <2>3. QED  BY <1>0, <2>1, <2>2
<1>4. ASSUME ~mishap[c]
      PROVE  /\ message[c] # "info" /\ Raised(c)
             /\ \A u, w \in Users : Owed(outbox[c], u, n) /\ Owed(outbox[c], w, n) => u = w
             /\ \A u \in Users : Owed(outbox[c], u, n) => Owing(c)
  BY <1>4 DEF Collects
<1>5. ASSUME 1 \in 1..(Len(outbox[c]) - n)
      PROVE  /\ Next1(c) = "info" => \E u \in Users :
                 /\ Owed(outbox[c], u, n)
                 /\ \A w \in Users : Owed(outbox[c], w, n + 1) => Owed(outbox[c], w, n) /\ w # u
             /\ \A u \in Users : Owed(outbox[c], u, n + 1) =>
                 \/ Owed(outbox[c], u, n)
                 \/ Next1(c) = "approved" /\ u = outbox[c][n + 1].from
  BY <1>5, NextOwed
<1> DEFINE f == outbox[c][n + 1].from
<1> HIDE DEF n, f
<1>6. CASE ReceiveMessage(c)
  <2>1. /\ at[c]["recv"] = "recv" /\ ~Owing(c)
        /\ \E k \in 1..(Len(outbox[c]) - n) :
              /\ receive(c, k)
              /\ message' = [message EXCEPT ![c] = IF k = 1 THEN Next1(c) ELSE "garbled"]
        /\ Jump(c, "recv", IF message'[c] \in {"garbled", "unfound"} THEN "loop" ELSE "test")
    BY <1>6 DEF ReceiveMessage, At, Owing, Completing, n
  <2>2. /\ 1 \in 1..(Len(outbox[c]) - n) /\ ~mishap[c] /\ heard'[c] = n + 1
        /\ message'[c] = Next1(c)
    BY <1>0, <1>3, <2>1
  <2>3. Next1(c) # "info"
    BY <1>4, <1>5, <2>1, <2>2
  <2>4. \A u \in Users : Owed(outbox[c], u, n + 1) => u = f /\ message'[c] = "approved"
    BY <1>4, <1>5, <2>1, <2>2 DEF f
  <2>5. /\ at'[c]["recv"] \in {"loop", "test"} /\ at'[c]["send"] = at[c]["send"]
        /\ message'[c] = "approved" => at'[c]["recv"] = "test"
    <3>1. PICK l \in {"loop", "test"} :
              Jump(c, "recv", l) /\ (message'[c] = "approved" => l = "test")
      BY <2>1
    <3>2. QED  BY <1>2, <3>1 DEF Places, RecvPC, Other
  <2>6. Raised(c)'
    BY <1>1, <1>4, <2>1, <2>2, <2>5 DEF Raised, Completing
  <2>7. message'[c] = "approved" => Owing(c)'
    BY <2>5 DEF Owing
  <2>8. QED  BY <1>1, <2>2, <2>3, <2>4, <2>6, <2>7 DEF Collects
<1>7. CASE ReceiveFirst(c)
  <2>1. /\ at[c]["recv"] = "first" /\ ~Owing(c) /\ message' = message
        /\ \E k \in 1..(Len(outbox[c]) - n) : receive(c, k)
        /\ Jump(c, "recv", "fetch")
    BY <1>7 DEF ReceiveFirst, At, Owing, Completing, n
  <2>2. 1 \in 1..(Len(outbox[c]) - n) /\ ~mishap[c] /\ heard'[c] = n + 1
    BY <1>3, <2>1
  <2>3. \A u \in Users : Owed(outbox[c], u, n + 1) => u = f
    BY <1>4, <1>5, <2>1, <2>2 DEF f
  <2>4. at'[c]["recv"] = "fetch" /\ at'[c]["send"] = at[c]["send"]
    BY <1>2, <2>1 DEF Places, RecvPC, Other
  <2>5. at[c]["send"] \notin Waiting \cup Sharing
    BY <2>1, <2>2 DEF ClientInv, UploadAlone
  <2>6. Owing(c)' /\ Raised(c)'
    BY <2>4, <2>5 DEF Owing, At, Raised, Sharing
  <2>7. QED  BY <1>1, <1>4, <2>1, <2>2, <2>3, <2>6 DEF Collects
<1>8. CASE \E t \in {"send", "recv"} : FetchInfo(c, t)
  <2>1. PICK t \in {"send", "recv"} : FetchInfo(c, t)
    BY <1>8
  <2>2. /\ at[c][t] = "fetch" /\ Jump(c, t, "stream") /\ message' = message
        /\ \E k \in 1..(Len(outbox[c]) - n) :
              /\ heard' = [heard EXCEPT ![c] = @ + k]
              /\ IF Next1(c) = "info" THEN k = 1 /\ UNCHANGED mishap
                                      ELSE mishap' = [mishap EXCEPT ![c] = TRUE]
    BY <2>1 DEF FetchInfo, At, n
  <2>3. /\ 1 \in 1..(Len(outbox[c]) - n) /\ heard' = [heard EXCEPT ![c] = @ + 1]
        /\ Next1(c) = "info" /\ ~mishap[c]
    <3>1. mishap \in [Clients -> BOOLEAN]
      BY <1>0 DEF RestOK
    <3>2. mishap' # [mishap EXCEPT ![c] = TRUE]
      BY <3>1
    <3>3. QED  BY <2>2, <3>2
  <2>4. heard'[c] = n + 1
    BY <1>0, <2>3 DEF n
  <2>5. ~\E u \in Users : Owed(outbox[c], u, n + 1)
    BY <1>4, <1>5, <2>3
  <2>6. at'[c][t] = "stream" /\ at'[c][Other(t)] = at[c][Other(t)]
    BY <1>2, <2>2 DEF Places, SendPC, RecvPC
  <2>7. t = "recv" => at[c]["send"] \notin Waiting \cup Sharing
    BY <2>2, <2>3 DEF ClientInv, UploadAlone
  <2>8. Raised(c)'
    BY <2>6, <2>7 DEF Other, Raised, Sharing, Waiting
  <2>9. QED  BY <1>1, <1>4, <2>2, <2>3, <2>4, <2>5, <2>8 DEF Collects
<1>9. QED  BY <1>6, <1>7, <1>8 DEF Receives

(* Every step of the whole program.                                        *)
LEMMA CollectsKept ==
    ASSUME SystemInv, InfoAfterApproval, \A c \in Clients : Collects(c),
           [SystemNext]_systemVars
    PROVE  \A c \in Clients : Collects(c)'
<1>0. /\ TypeOK /\ ServerTypeOK /\ ClientTypeOK /\ \A c \in Clients : ClientInv(c)
      /\ heard \in [Clients -> Nat]
  BY DEF SystemInv, IInv, TypeOK, ClientTypeOK
<1>1. ASSUME NEW c \in Clients, ClientProgram(c), NEW d \in Clients
      PROVE  Collects(d)'
  <2>1. Sound(c) /\ (Steady(c) \/ Receives(c))
    BY <1>0, <1>1, StepSound
  <2>2. CASE d = c
    BY <1>0, <2>1, <2>2, ReceivingCollects, SteadyCollects DEF Sound
  <2>3. CASE d # c
    <3>1. Untouched(d) /\ outbox' = outbox
      BY <2>1, <2>3 DEF Sound
    <3>2. QED
      BY <3>1 DEF Untouched, Collects, Owing, Raised, At
  <2>4. QED  BY <2>2, <2>3
<1>2. ASSUME UNCHANGED clientVars, NEW d \in Clients, Seen(d)
      PROVE  Collects(d)'
  <2>0. UNCHANGED <<at, flag, line, message, heard, typed, answer, mishap>>
    BY <1>2 DEF clientVars
  <2>1. Steady(d)
    BY <1>2, <2>0 DEF Steady, Owing, Raised, At, Seen
  <2>2. \A i \in 1..heard[d] : outbox'[d][i] = outbox[d][i]
    <3>1. CASE heard[d] = 0
      BY <3>1
    <3>2. CASE heard[d] # 0
      <4>1. Extends(d)
        BY <1>0, <1>2, <3>2 DEF ClientInv, BeforeStart, AfterLogin, At, Seen
      <4>2. outbox[d] \in Seq(Message) /\ heard[d] \in Nat /\ heard[d] <= Len(outbox[d])
        BY <1>0, NamesApart DEF ServerTypeOK, ClientTypeOK
      <4>3. 1..heard[d] \subseteq DOMAIN outbox[d]
        BY <4>2
      <4>4. QED  BY <4>1, <4>3 DEF Extends
    <3>3. QED  BY <3>1, <3>2
  <2>3. QED  BY <1>0, <2>1, <2>2, SteadyCollects
<1>3. CASE (ServerProgram \/ \E c \in Clients : LoggingIn(c)) /\ UNCHANGED clientVars
  BY <1>0, <1>2, <1>3, ServerSeen, LoginSeen
<1>4. CASE UNCHANGED systemVars
  <2>1. UNCHANGED clientVars /\ UNCHANGED <<client, outbox>>
    BY <1>4 DEF systemVars, vars, serverVars
  <2>2. QED  BY <1>2, <2>1, NothingSeen
<1>5. QED  BY <1>1, <1>3, <1>4 DEF SystemNext

(* In the beginning nobody has heard anything.                             *)
LEMMA CollectsFirst == SystemInit => \A c \in Clients : Collects(c)
<1> SUFFICES ASSUME SystemInit, NEW c \in Clients  PROVE Collects(c)
  OBVIOUS
<1>1. heard[c] = 0 /\ message[c] = "garbled" /\ at[c]["send"] = "off"
  BY DEF SystemInit, ClientInit
<1>2. QED  BY <1>1 DEF Collects, Owed, Raised, Waiting

(* What the server sends about the peer is read by the transfer that needs *)
(* it, and never printed, unless something has come too early or too late  *)
(* or the connection is gone (uploadFile, downloadFile).                   *)
THEOREM InfoReachesTransfer == SystemSpec => []InfoIsFetched
<1>1. SystemSpec => []InfoAfterApproval
  BY SystemImplements, ApprovalsFirst, PTL
<1>2. /\ SystemInv /\ InfoAfterApproval /\ (\A c \in Clients : Collects(c))
      /\ [SystemNext]_systemVars
      => (\A c \in Clients : Collects(c))'
  BY CollectsKept
<1>3. SystemSpec => [](\A c \in Clients : Collects(c))
  BY <1>1, <1>2, CollectsFirst, SystemInvariance, PTL DEF SystemSpec
<1>4. (\A c \in Clients : Collects(c)) => InfoIsFetched
  BY DEF Collects, InfoIsFetched
<1>5. QED  BY <1>3, <1>4, PTL

=============================================================================
