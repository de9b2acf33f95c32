---------------------------- MODULE FileTransfer ----------------------------
(***************************************************************************)
(* FileTransfer.h: upload() on one machine and download() on another, over *)
(* a TCP connection of their own, with what Client.h and Server.h do when  *)
(* they return or throw.                                                   *)
(*                                                                         *)
(* The connection carries bytes, in units: unit <<x, i>> is the i-th part  *)
(* of an x.  A send puts units into the stream and a recv takes some of    *)
(* those that have arrived, as many as it asks for at most; TCP keeps      *)
(* their order and nothing else.  A key, a header or a size opens only     *)
(* when all its units are read as one, the file when its units are in      *)
(* place.  The contents of a file are given by their length, since         *)
(* whatever is read and sent is a beginning of the file.                   *)
(***************************************************************************)
EXTENDS Util, SequencesExt

CONSTANTS
    FileSizes,  \* the sizes a file may have
    KeyLen, HeaderLen, SizeLen, HashLen,  \* how many units these have
    Overhead,   \* what encryption adds to a file
    MayBreak,   \* whether the connection may break
    KeyCases,   \* what may have become of the initial keys
    Absent      \* the size of a file that cannot be opened

ASSUME FileTransferAssumption ==
    /\ FileSizes \subseteq Nat \cup {Absent}
    /\ {KeyLen, HeaderLen, SizeLen, HashLen, Overhead} \subseteq Nat \ {0}
    /\ HeaderLen < SizeLen
    /\ MayBreak \in BOOLEAN /\ KeyCases \subseteq {"agree", "differ", "missing"}
    /\ Absent \notin Nat

Ends == {"up", "down"}

VARIABLES
    file,    \* the size of the file to upload
    keys,    \* whether each has got the other's initial public key, or the
             \* downloader another one, or none
    pc,      \* pc[e]: where end e is
    status,  \* status[e]: the TransferStatus it has returned
    wire,    \* wire[e]: the units on their way to end e
    link,    \* the connection
    open,    \* the ends that have not closed it
    left,    \* sendFile: how many units have not been sent
    want,    \* download: fileSize
    got,     \* download: encrypted_buffer, as far as it has been filled
    plain,   \* download: buffer
    kept,    \* the file that has been saved
    cut      \* a send, recv or read has moved less than it was asked to

vars == <<file, keys, pc, status, wire, link, open, left, want, got, plain, kept, cut>>
given == <<file, keys>>
uploading == <<left>>
downloading == <<want, got, plain, kept>>

Unit == {"key", "size", "chunk", "success", "failure", "file", "hash"} \X Nat
Units(x, n) == [i \in 1..n |-> <<x, i>>]

(* fileSize in upload(): what tellg returns, as an int32_t *)
offered == IF file = Absent THEN 0 ELSE Signed(file)

(* without ntohl *)
AnnouncedUnswapped == vectorToInt32(int32ToVector(Signed(htonl(offered)))) % Word

(* fileSize in download(), a size_t *)
Announced == htonl(vectorToInt32(int32ToVector(Signed(htonl(offered)))))
Misread == htonl(vectorToInt32(<<>>))

UpPC == {"connect", "key", "peerKey", "open", "size", "read", "header", "data", "hash",
         "verdict", "done", "dead"}
DownPC == {"listen", "select", "timeout", "peerKey", "key", "size", "resize", "header",
           "data", "hash", "accept", "refuse", "save", "done", "dead"}
Statuses == {"none", "SUCCESS", "FAILURE", "HASH_FAILED", "CONNECTION_CLOSED",
             "MISSING_FILE_EXTENSION", "thrown"}

FileTransferTypeOK ==
    /\ file \in FileSizes
    /\ keys \in {"agree", "differ", "missing"}
    /\ pc \in [Ends -> UpPC \cup DownPC] /\ pc["up"] \in UpPC /\ pc["down"] \in DownPC
    /\ status \in [Ends -> Statuses]
    /\ wire \in [Ends -> Seq(Unit)]
    /\ link \in {"none", "queued", "accepted", "broken"}
    /\ open \subseteq Ends
    /\ left \in Nat
    /\ want \in Nat
    /\ got \in Seq(Unit) /\ Len(got) <= want
    /\ plain \in Int
    /\ kept \in {"nothing", "file"}
    /\ cut \in BOOLEAN

Init ==
    /\ file \in FileSizes
    /\ keys \in KeyCases
    /\ pc = [e \in Ends |-> IF e = "up" THEN "connect" ELSE "listen"]
    /\ status = [e \in Ends |-> "none"]
    /\ wire = [e \in Ends |-> <<>>]
    /\ link = "none"
    /\ open = {}
    /\ left = 0
    /\ want = 0
    /\ got = <<>>
    /\ plain = 0
    /\ kept = "nothing"
    /\ cut = FALSE

-----------------------------------------------------------------------------
(* Sockets and the control flow of the two ends. *)

Other(e) == IF e = "up" THEN "down" ELSE "up"

Goto(e, l) == pc' = [pc EXCEPT ![e] = l]

Leave(e, l, s) ==
    /\ Goto(e, l)
    /\ status' = [status EXCEPT ![e] = s]
    /\ open' = open \ {e}

(* upload or download returns s and ~FileTransfer closes the socket *)
Return(e, s) == Leave(e, "done", s)

(* decrypted_header[0] of an empty vector, or an empty key: the process is *)
(* terminated, and the system closes its sockets                           *)
Die(e) == Leave(e, "dead", "none")

(* what is sent to an end that has closed its socket is lost *)
send(e, units) ==
    /\ link # "broken"
    /\ wire' = IF Other(e) \in open THEN [wire EXCEPT ![Other(e)] = @ \o units] ELSE wire

sendHeader(e, x) == send(e, Units(x, HeaderLen))

(* SOCKET_ERROR *)
SendFails(e) == link = "broken" \/ Other(e) \notin open
RecvFails(e) == link = "broken"

(* recv returns 0 *)
Closed(e) == link # "broken" /\ wire[e] = <<>> /\ Other(e) \notin open

(* one recv of at most n units returns the first k *)
recv(e, n, k) ==
    /\ k \in 1..n /\ k <= Len(wire[e])
    /\ wire' = [wire EXCEPT ![e] = SubSeq(@, k + 1, Len(@))]

Takes(e, k, x, n) == k = n /\ SubSeq(wire[e], 1, k) = Units(x, n)

(* the header FAILURE, if it can be sent, and the return that follows *)
FailWithHeader(e, s) ==
    /\ \/ sendHeader(e, "failure")
       \/ SendFails(e) /\ UNCHANGED wire
    /\ Return(e, s)

-----------------------------------------------------------------------------
(* upload() *)

MissingExtension ==
    /\ pc["up"] = "connect"
    /\ Return("up", "MISSING_FILE_EXTENSION")
    /\ UNCHANGED <<given, wire, link, uploading, downloading, cut>>

(* the connection is made as soon as the other end listens *)
Connect ==
    /\ pc["up"] = "connect"
    /\ pc["down"] \in {"select", "timeout"}
    /\ link' = "queued"
    /\ open' = Ends
    /\ Goto("up", "key")
    /\ UNCHANGED <<given, status, wire, uploading, downloading, cut>>

ConnectFails ==
    /\ pc["up"] = "connect"
    /\ pc["down"] \notin {"select", "timeout"}
    /\ Return("up", "FAILURE")
    /\ UNCHANGED <<given, wire, link, uploading, downloading, cut>>

(* send_pk, of either end: an error is not reported *)
SendKey(e) ==
    /\ pc[e] = "key"
    /\ \/ send(e, Units("key", KeyLen))
       \/ SendFails(e) /\ UNCHANGED wire
    /\ Goto(e, IF e = "up" THEN "peerKey" ELSE "size")
    /\ UNCHANGED <<given, status, link, open, uploading, downloading, cut>>

(* receive_pk loops until it has all, an error, or the end of the stream;  *)
(* what this end's key has opened has a key that opens here                *)
UpReceivesKey ==
    /\ pc["up"] = "peerKey"
    /\ recv("up", KeyLen, KeyLen)
    /\ Goto("up", "open")
    /\ UNCHANGED <<given, status, link, open, uploading, downloading, cut>>

(* no key: sendHeader encrypts with an empty one *)
UpReceivesNoKey ==
    /\ pc["up"] = "peerKey"
    /\ RecvFails("up") \/ Closed("up")
    /\ Die("up")
    /\ UNCHANGED <<given, wire, link, uploading, downloading, cut>>

(* the file is opened and its size taken; resize throws if it is negative *)
OpenFile ==
    /\ pc["up"] = "open"
    /\ file # Absent
    /\ IF offered < 0 THEN Return("up", "thrown")
                      ELSE Goto("up", "size") /\ UNCHANGED <<status, open>>
    /\ UNCHANGED <<given, wire, link, uploading, downloading, cut>>

CannotOpen ==
    /\ pc["up"] = "open"
    /\ file = Absent
    /\ FailWithHeader("up", "FAILURE")
    /\ UNCHANGED <<given, link, uploading, downloading, cut>>

SendSize ==
    /\ pc["up"] = "size"
    /\ \/ /\ send("up", Units("size", SizeLen))
          /\ Goto("up", "read")
          /\ UNCHANGED <<status, open>>
       \/ SendFails("up") /\ FailWithHeader("up", "FAILURE")
    /\ UNCHANGED <<given, link, uploading, downloading, cut>>

(* the beginning of the file is read and encrypted *)
ReadFile ==
    /\ pc["up"] = "read"
    /\ \/ /\ left' = offered + Overhead
          /\ Goto("up", "header")
          /\ UNCHANGED <<status, wire, open, cut>>
       \/ FailWithHeader("up", "FAILURE") /\ cut' = TRUE /\ UNCHANGED left
    /\ UNCHANGED <<given, link, downloading>>

(* one header for the whole file, and none before it *)
SkipChunkHeader ==
    /\ pc["up"] = "header"
    /\ Goto("up", "data")
    /\ UNCHANGED <<given, status, wire, link, open, uploading, downloading, cut>>

SendChunkHeader ==
    /\ pc["up"] = "header"
    /\ \/ /\ sendHeader("up", "chunk")
          /\ Goto("up", "data")
          /\ UNCHANGED <<status, open>>
       \/ SendFails("up") /\ FailWithHeader("up", "FAILURE")
    /\ UNCHANGED <<given, link, uploading, downloading, cut>>

(* one send of the rest of the file *)
SendData ==
    /\ pc["up"] = "data"
    /\ \/ /\ \E k \in 1..left :
                /\ send("up", [i \in 1..k |-> <<"file", offered + Overhead - left + i>>])
                /\ left' = left - k
                /\ cut' = (cut \/ k < left)
          /\ Goto("up", IF left' = 0 THEN "hash" ELSE "header")
          /\ UNCHANGED <<status, open>>
       \/ SendFails("up") /\ FailWithHeader("up", "FAILURE") /\ UNCHANGED <<left, cut>>
    /\ UNCHANGED <<given, link, downloading>>

(* confirmFileHash_send, which reports an error to its caller alone *)
SendHash ==
    /\ pc["up"] = "hash"
    /\ \/ /\ send("up", Units("hash", HashLen))
          /\ Goto("up", "verdict")
          /\ UNCHANGED <<status, open>>
       \/ SendFails("up") /\ Return("up", "FAILURE") /\ UNCHANGED wire
    /\ UNCHANGED <<given, link, uploading, downloading, cut>>

(* the verdict, by one recv in recvHeader *)
ReceiveVerdict ==
    /\ pc["up"] = "verdict"
    /\ \E k \in 1..HeaderLen :
          /\ recv("up", HeaderLen, k)
          /\ cut' = (cut \/ k < HeaderLen)
          /\ \/ Takes("up", k, "success", HeaderLen) /\ Return("up", "SUCCESS")
             \/ Takes("up", k, "failure", HeaderLen) /\ Return("up", "FAILURE")
             \/ /\ \A x \in {"success", "failure"} : ~Takes("up", k, x, HeaderLen)
                /\ Die("up")
    /\ UNCHANGED <<given, link, uploading, downloading>>

(* recvHeader decrypts and indexes before it looks at the result of recv *)
HeaderMissing(e) ==
    /\ pc[e] = (IF e = "up" THEN "verdict" ELSE "header")
    /\ RecvFails(e) \/ Closed(e)
    /\ Die(e)
    /\ UNCHANGED <<given, wire, link, uploading, downloading, cut>>

-----------------------------------------------------------------------------
(* download() *)

(* prepareListenSock *)
Listen ==
    /\ pc["down"] = "listen"
    /\ \/ Goto("down", "select") /\ UNCHANGED <<status, open>>
       \/ Return("down", "FAILURE")
    /\ UNCHANGED <<given, wire, link, uploading, downloading, cut>>

(* peerWaiting: the 30 seconds are over *)
SelectTimesOut ==
    /\ pc["down"] = "select"
    /\ link = "none"
    /\ Goto("down", "timeout")
    /\ UNCHANGED <<given, status, wire, link, open, uploading, downloading, cut>>

(* the listening socket is closed, with a connection that came too late *)
GiveUp ==
    /\ pc["down"] = "timeout"
    /\ Return("down", "FAILURE")
    /\ UNCHANGED <<given, wire, link, uploading, downloading, cut>>

AcceptPeer ==
    /\ pc["down"] = "select"
    /\ link = "queued"
    /\ link' = "accepted"
    /\ Goto("down", "peerKey")
    /\ UNCHANGED <<given, status, wire, open, uploading, downloading, cut>>

(* without closesocket *)
DownReceivesKeyLeaks ==
    /\ pc["down"] = "peerKey"
    /\ \/ /\ recv("down", KeyLen, KeyLen)
          /\ \/ keys = "agree" /\ Goto("down", "key") /\ UNCHANGED status
             \/ /\ keys # "agree"
                /\ Goto("down", "done")
                /\ status' = [status EXCEPT !["down"] = "FAILURE"]
          /\ UNCHANGED open
       \/ (RecvFails("down") \/ Closed("down")) /\ Return("down", "FAILURE") /\ UNCHANGED wire
    /\ UNCHANGED <<given, link, uploading, downloading, cut>>

DownReceivesKey ==
    /\ pc["down"] = "peerKey"
    /\ \/ /\ recv("down", KeyLen, KeyLen)
          /\ \/ keys = "agree" /\ Goto("down", "key") /\ UNCHANGED <<status, open>>
             \/ keys = "differ" /\ Return("down", "FAILURE")
             \/ keys = "missing" /\ Die("down")
       \/ (RecvFails("down") \/ Closed("down")) /\ Return("down", "FAILURE") /\ UNCHANGED wire
    /\ UNCHANGED <<given, link, uploading, downloading, cut>>

(* one recv, which may return less than the size, or something else *)
ReceiveSize ==
    /\ pc["down"] = "size"
    /\ \/ /\ \E k \in 1..SizeLen :
                /\ recv("down", SizeLen, k)
                /\ want' = IF Takes("down", k, "size", SizeLen) THEN Announced ELSE Misread
                /\ cut' = (cut \/ k < Min({SizeLen, Len(wire["down"])}))
          /\ IF want' = 0 THEN Return("down", "FAILURE")
                          ELSE Goto("down", "resize") /\ UNCHANGED <<status, open>>
       \/ /\ Closed("down")
          /\ want' = Misread
          /\ Goto("down", "resize")
          /\ UNCHANGED <<status, wire, open, cut>>
       \/ /\ RecvFails("down")
          /\ Return("down", "FAILURE")
          /\ UNCHANGED <<wire, want, cut>>
    /\ UNCHANGED <<given, link, uploading, got, plain, kept>>

(* the buffer; if there is not enough memory the exception leaves peerSock open *)
Resize ==
    /\ pc["down"] = "resize"
    /\ want' = want + Overhead
    /\ \/ Goto("down", "header") /\ UNCHANGED status
       \/ /\ want = Misread
          /\ Goto("down", "done")
          /\ status' = [status EXCEPT !["down"] = "thrown"]
    /\ UNCHANGED <<given, wire, link, open, uploading, got, plain, kept, cut>>

(* a header before each piece; any but FAILURE will do *)
ReceiveChunkHeader ==
    /\ pc["down"] = "header"
    /\ \E k \in 1..HeaderLen :
          /\ recv("down", HeaderLen, k)
          /\ cut' = (cut \/ k < HeaderLen)
          /\ \/ /\ Takes("down", k, "chunk", HeaderLen)
                /\ Goto("down", "data")
                /\ UNCHANGED <<status, open>>
             \/ Takes("down", k, "failure", HeaderLen) /\ Return("down", "FAILURE")
             \/ /\ \A x \in {"chunk", "failure"} : ~Takes("down", k, x, HeaderLen)
                /\ Die("down")
    /\ UNCHANGED <<given, link, uploading, downloading>>

(* without taking off what has been read already *)
ReceiveDataUnbounded ==
    /\ pc["down"] = "data"
    /\ \E k \in 1..want :
          /\ recv("down", want, k)
          /\ got' = got \o SubSeq(wire["down"], 1, k)
          /\ cut' = (cut \/ k < want)
    /\ Goto("down", IF Len(got') >= want THEN "hash" ELSE "header")
    /\ UNCHANGED <<given, status, link, open, uploading, want, plain, kept>>

ReceiveData ==
    /\ pc["down"] = "data"
    /\ \/ /\ \E k \in 1..(want - Len(got)) :
                /\ recv("down", want - Len(got), k)
                /\ got' = got \o SubSeq(wire["down"], 1, k)
                /\ cut' = (cut \/ k < want - Len(got))
          /\ Goto("down", IF Len(got') = want THEN "hash" ELSE "header")
          /\ UNCHANGED <<status, open>>
       \/ /\ RecvFails("down") \/ Closed("down")
          /\ FailWithHeader("down", IF RecvFails("down") THEN "FAILURE"
                                                          ELSE "CONNECTION_CLOSED")
          /\ UNCHANGED <<got, cut>>
    /\ UNCHANGED <<given, link, uploading, want, plain, kept>>

(* what decrypt makes of the encrypted buffer: nothing unless it is intact *)
Decrypted == IF got = Units("file", want) THEN want - Overhead ELSE 0

(* without the comparison *)
ReceiveHashBlindly ==
    /\ pc["down"] = "hash"
    /\ recv("down", HashLen, HashLen)
    /\ plain' = Decrypted
    /\ Goto("down", "accept")
    /\ UNCHANGED <<given, status, link, open, uploading, want, got, kept, cut>>

(* confirmFileHash_recv: the hashes are equal if the files are, and if the *)
(* hash is read in its place.  The loop has no case for the end of the     *)
(* stream: when the other end closes early it never ends.                  *)
ReceiveHash ==
    /\ pc["down"] = "hash"
    /\ \/ /\ recv("down", HashLen, HashLen)
          /\ plain' = Decrypted
          /\ Goto("down", IF Takes("down", HashLen, "hash", HashLen) /\ plain' = offered
                          THEN "accept" ELSE "refuse")
          /\ UNCHANGED <<status, open>>
       \/ /\ RecvFails("down")
          /\ FailWithHeader("down", "HASH_FAILED")
          /\ UNCHANGED plain
    /\ UNCHANGED <<given, link, uploading, want, got, kept, cut>>

SendVerdict ==
    /\ \/ /\ pc["down"] = "accept"
          /\ sendHeader("down", "success") \/ (SendFails("down") /\ UNCHANGED wire)
          /\ Leave("down", "save", "SUCCESS")
       \/ pc["down"] = "refuse" /\ FailWithHeader("down", "HASH_FAILED")
    /\ UNCHANGED <<given, link, uploading, downloading, cut>>

(* saveFile, under a name with an extension; the question is asked again   *)
(* until the file is saved or given up                                     *)
SaveFile ==
    /\ pc["down"] = "save"
    /\ Goto("down", "done")
    /\ kept' \in {"nothing", "file"}
    /\ UNCHANGED <<given, status, wire, link, open, uploading, want, got, plain, cut>>

-----------------------------------------------------------------------------

Break ==
    /\ MayBreak
    /\ link \in {"queued", "accepted"}
    /\ link' = "broken"
    /\ wire' = [e \in Ends |-> <<>>]
    /\ UNCHANGED <<given, pc, status, open, uploading, downloading, cut>>

UpStep ==
    \/ MissingExtension \/ Connect \/ ConnectFails \/ SendKey("up") \/ UpReceivesKey
    \/ UpReceivesNoKey \/ OpenFile \/ CannotOpen \/ SendSize \/ ReadFile
    \/ SendChunkHeader \/ SendData \/ SendHash \/ ReceiveVerdict \/ HeaderMissing("up")

DownStep ==
    \/ Listen \/ SelectTimesOut \/ GiveUp \/ AcceptPeer \/ DownReceivesKey
    \/ SendKey("down") \/ ReceiveSize \/ Resize \/ ReceiveChunkHeader
    \/ HeaderMissing("down") \/ ReceiveData \/ ReceiveHash \/ SendVerdict \/ SaveFile

Next == UpStep \/ DownStep \/ Break

Spec == Init /\ [][Next]_vars

(* the two programs run, and time passes *)
Fairness == WF_vars(UpStep) /\ WF_vars(DownStep)

FairSpec == Spec /\ Fairness

-----------------------------------------------------------------------------
(* Correctness. *)

(* What TCP and the users must do for a transfer to go well: nothing is    *)
(* split on the way, the connection holds and comes in time, the keys      *)
(* agree, and the file can be read, is not empty and is less than 2 GB.    *)
Trouble ==
    \/ cut
    \/ link = "broken"
    \/ keys # "agree"
    \/ file = Absent \/ file \notin 1 .. (Word \div 2 - 1)
    \/ link # "accepted" /\ \E e \in Ends : pc[e] = "done"
    \/ pc["down"] = "timeout"

(* Neither process is terminated unless there was trouble (recvHeader,     *)
(* receive_pk): the two sides agree on who sends what, and when.           *)
CrashHasACause == (\E e \in Ends : pc[e] = "dead") => Trouble

(* When there is none the file arrives and both are told so (upload,       *)
(* download).                                                              *)
FairWeather ==
    <>(Trouble \/ (status = [e \in Ends |-> "SUCCESS"] /\ plain = file))

(* The uploader is not left waiting, except where the downloader's         *)
(* exception has left the connection open behind it (upload, download).    *)
UploadEnds == <>(pc["up"] \in {"done", "dead"} \/ status["down"] = "thrown")

(* A transfer keeps the promises of FileDelivery.tla, of the file as it is *)
(* on the uploader's disk: whoever is told SUCCESS has the whole of it,    *)
(* unless its size is a word or more, which upload() takes as an int32_t   *)
(* (upload, confirmFileHash_recv, the verdict).                            *)
Told(e) ==
    CASE status[e] = "SUCCESS" -> "success"
      [] status[e] # "SUCCESS" /\ pc[e] \in {"done", "dead"} -> "failure"
      [] OTHER -> "busy"

Delivery == INSTANCE FileDelivery WITH
    offered <- file, up <- Told("up"), down <- Told("down"), Nothing <- 0,
    kept <- IF Told("down") = "success" THEN plain ELSE 0, Limit <- Word

ImplementsFileDelivery == Delivery!Spec

=============================================================================
