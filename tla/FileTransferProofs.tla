-------------------------- MODULE FileTransferProofs -------------------------
(* A file transfer, for every size of the file, of a byte, of a key, of a  *)
(* header, of a hash and of what encryption adds: nobody is told what is   *)
(* not true, and neither process is terminated unless something went wrong *)
(* around it.                                                              *)
EXTENDS FileTransfer, UtilProofs

(* The uploader sends only what can be read and encrypted, and the          *)
(* downloader fills its buffer only once it knows how long it is.           *)
InPlace ==
    /\ pc["up"] \in {"size", "read", "header", "data", "hash", "verdict"} =>
          file \in Nat /\ offered >= 0
    /\ pc["up"] \in {"header", "data"} => left <= offered + Overhead
    /\ pc["down"] \in {"listen", "select", "timeout", "peerKey", "key", "size", "resize"} =>
          got = <<>>

TInv == FileTransferTypeOK /\ InPlace

(* The sizes a transfer computes with are integers, and those of a         *)
(* download not negative (upload, recvFileSize).                           *)
LEMMA Numbers ==
    /\ file \in FileSizes => offered \in Int
    /\ file \in FileSizes => Announced \in Nat
    /\ Misread \in Nat
    /\ {KeyLen, HeaderLen, SizeLen, HashLen, Overhead} \subseteq Nat \ {0}
<1>1. ASSUME file \in FileSizes PROVE offered \in Int
  <2>1. CASE file = Absent  BY <2>1 DEF offered
  <2>2. CASE file \in Nat  BY <2>2, SignedSame, FileTransferAssumption DEF offered
  <2>3. QED  BY <1>1, <2>1, <2>2, FileTransferAssumption
<1>2. ASSUME NEW v \in Int PROVE htonl(v) \in Int /\ htonl(v) \in Nat
  BY SwapTwice, Sizes
<1>3. ASSUME file \in FileSizes PROVE Announced \in Nat
  <2>1. htonl(offered) \in Int  BY <1>1, <1>2, <1>3
  <2>2. Signed(htonl(offered)) \in Int  BY <2>1, SignedSame
  <2>3. vectorToInt32(int32ToVector(Signed(htonl(offered)))) \in Int
    BY <2>2, VectorSigned, SignedSame
  <2>4. QED  BY <2>3, <1>2 DEF Announced
<1>4. Misread \in Nat
  <2>1. vectorToInt32(<<>>) = -1  BY DEF vectorToInt32
  <2>2. QED  BY <2>1, <1>2 DEF Misread
<1>5. QED  BY <1>1, <1>3, <1>4, FileTransferAssumption

(* n units of an x are a piece of a stream.                                *)
LEMMA UnitsType ==
    ASSUME NEW x \in {"key", "size", "chunk", "success", "failure", "file", "hash"}, NEW n \in Nat
    PROVE  Units(x, n) \in Seq(Unit) /\ Len(Units(x, n)) = n
BY DEF Units, Unit

(* What is sent joins the units on their way.                              *)
LEMMA SendType ==
    ASSUME FileTransferTypeOK, NEW e \in Ends, NEW u \in Seq(Unit), send(e, u)
    PROVE  wire' \in [Ends -> Seq(Unit)]
BY DEF FileTransferTypeOK, send, Other, Ends

(* A recv takes units off the stream and no others.                        *)
LEMMA RecvType ==
    ASSUME FileTransferTypeOK, NEW e \in Ends, NEW n \in Nat, NEW k, recv(e, n, k)
    PROVE  wire' \in [Ends -> Seq(Unit)] /\ k \in 1..n
BY DEF FileTransferTypeOK, recv, Ends

(* What a failure that is announced by a header does (sendHeader, return). *)
LEMMA FailType ==
    ASSUME FileTransferTypeOK, NEW e \in Ends, NEW s \in Statuses, FailWithHeader(e, s)
    PROVE  /\ wire' \in [Ends -> Seq(Unit)] /\ status' \in [Ends -> Statuses]
           /\ open' \subseteq Ends /\ pc' = [pc EXCEPT ![e] = "done"]
<1>1. Units("failure", HeaderLen) \in Seq(Unit)  BY UnitsType, FileTransferAssumption
<1>2. wire' \in [Ends -> Seq(Unit)]
  BY <1>1, SendType DEF FailWithHeader, sendHeader, FileTransferTypeOK
<1>3. QED  BY <1>2 DEF FailWithHeader, Return, Leave, Goto, FileTransferTypeOK

(* Before the transfer everything is in place.                             *)
LEMMA InitTInv == Init => TInv
<1> SUFFICES ASSUME Init PROVE TInv
  OBVIOUS
<1>1. /\ pc \in [Ends -> UpPC \cup DownPC] /\ pc["up"] = "connect" /\ pc["down"] = "listen"
      /\ status \in [Ends -> Statuses]
  BY DEF Init, Ends, UpPC, DownPC, Statuses
<1>2. wire \in [Ends -> Seq(Unit)] /\ got \in Seq(Unit) /\ Len(got) = 0
  BY DEF Init
<1>3. keys \in {"agree", "differ", "missing"} /\ open \subseteq Ends /\ file \in FileSizes
  BY FileTransferAssumption DEF Init
<1>4. /\ link = "none" /\ left = 0 /\ want = 0
      /\ plain = 0 /\ kept = "nothing" /\ cut = FALSE /\ got = <<>>
  BY DEF Init
<1>5. FileTransferTypeOK
  <2>1. /\ pc["up"] \in UpPC /\ pc["down"] \in DownPC
        /\ link \in {"none", "queued", "accepted", "broken"} /\ kept \in {"nothing", "file"}
    BY <1>1, <1>4 DEF UpPC, DownPC
  <2>2. left \in Nat /\ want \in Nat /\ plain \in Int
    BY <1>4
  <2>3. Len(got) <= want
    <3>1. Len(got) = 0 /\ want = 0  BY <1>2, <1>4, Zenon
    <3>2. QED  BY <3>1
  <2>4. cut \in BOOLEAN
    BY <1>4, Zenon
  <2>5. QED  BY <1>1, <1>2, <1>3, <2>1, <2>2, <2>3, <2>4, Zenon DEF FileTransferTypeOK
<1>6. InPlace
  BY <1>1, <1>4 DEF InPlace
<1>7. QED  BY <1>5, <1>6 DEF TInv

(* A header joins the units on their way.                                  *)
LEMMA HeaderType ==
    ASSUME FileTransferTypeOK, NEW e \in Ends,
           NEW x \in {"chunk", "success", "failure"}, sendHeader(e, x)
    PROVE  wire' \in [Ends -> Seq(Unit)]
<1>1. Units(x, HeaderLen) \in Seq(Unit)  BY UnitsType, FileTransferAssumption
<1>2. QED  BY <1>1, SendType DEF sendHeader

(* A key, a size or a hash joins the units on their way.                   *)
LEMMA SendUnitsType ==
    ASSUME FileTransferTypeOK, NEW e \in Ends, NEW x \in {"key", "size", "hash"},
           NEW n \in Nat, send(e, Units(x, n))
    PROVE  wire' \in [Ends -> Seq(Unit)]
<1>1. Units(x, n) \in Seq(Unit)  BY UnitsType
<1>2. QED  BY <1>1, SendType

(* upload() keeps everything in place.                                     *)
LEMMA UpTInv ==
    ASSUME TInv, UpStep
    PROVE  TInv'
<1> USE DEF TInv, FileTransferTypeOK, InPlace, UpPC, DownPC, Statuses, Ends, given, uploading,
          downloading, Goto, Leave, Return, Die
<1>0. UNCHANGED file => offered' = offered  BY DEF offered
<1> USE Numbers, <1>0
<1>1. CASE MissingExtension  BY <1>1 DEF MissingExtension
<1>2. CASE Connect  BY <1>2 DEF Connect
<1>3. CASE ConnectFails  BY <1>3 DEF ConnectFails
<1>4. CASE SendKey("up")
  <2>1. wire' \in [Ends -> Seq(Unit)]
    BY <1>4, SendUnitsType DEF SendKey
  <2>2. QED  BY <1>4, <2>1 DEF SendKey
<1>5. CASE UpReceivesKey
  <2>1. wire' \in [Ends -> Seq(Unit)]
    BY <1>5, RecvType DEF UpReceivesKey
  <2>2. QED  BY <1>5, <2>1 DEF UpReceivesKey
<1>6. CASE UpReceivesNoKey  BY <1>6 DEF UpReceivesNoKey
<1>7. CASE OpenFile
  <2>1. file \in Nat /\ pc["up"] = "open" /\ UNCHANGED <<given, wire, link, uploading, downloading, cut>>
    BY <1>7, FileTransferAssumption DEF OpenFile
  <2>2. CASE offered < 0 /\ Return("up", "thrown")
    BY <2>1, <2>2
  <2>3. CASE ~(offered < 0) /\ Goto("up", "size") /\ UNCHANGED <<status, open>>
    <3>1. offered >= 0 /\ offered' = offered
      BY <2>1, <2>3
    <3>2. QED  BY <2>1, <2>3, <3>1
  <2>4. QED  BY <1>7, <2>2, <2>3 DEF OpenFile
<1>8. CASE CannotOpen
  BY <1>8, FailType DEF CannotOpen
<1>9. CASE SendSize
  <2>1. CASE FailWithHeader("up", "FAILURE")
    BY <1>9, <2>1, FailType DEF SendSize
  <2>2. CASE send("up", Units("size", SizeLen)) /\ Goto("up", "read") /\ UNCHANGED <<status, open>>
    <3>1. wire' \in [Ends -> Seq(Unit)]
      BY <2>2, SendUnitsType
    <3>2. QED  BY <1>9, <2>2, <3>1 DEF SendSize
  <2>3. QED  BY <1>9, <2>1, <2>2 DEF SendSize
<1>10. CASE ReadFile
  <2>1. CASE FailWithHeader("up", "FAILURE")
    BY <1>10, <2>1, FailType, ZenonT(40) DEF ReadFile
  <2>2. CASE left' = offered + Overhead /\ Goto("up", "header") /\ UNCHANGED <<status, wire, open, cut>>
    BY <1>10, <2>2 DEF ReadFile
  <2>3. QED  BY <1>10, <2>1, <2>2 DEF ReadFile
<1>11. CASE SendChunkHeader
  <2>1. CASE FailWithHeader("up", "FAILURE")
    BY <1>11, <2>1, FailType DEF SendChunkHeader
  <2>2. CASE sendHeader("up", "chunk") /\ Goto("up", "data") /\ UNCHANGED <<status, open>>
    BY <1>11, <2>2, HeaderType DEF SendChunkHeader
  <2>3. QED  BY <1>11, <2>1, <2>2 DEF SendChunkHeader
<1>12. CASE SendData
  <2>1. CASE FailWithHeader("up", "FAILURE") /\ UNCHANGED <<left, cut>>
    BY <1>12, <2>1, FailType DEF SendData
  <2>2. ASSUME NEW k \in 1..left,
               send("up", [i \in 1..k |-> <<"file", offered + Overhead - left + i>>]),
               left' = left - k, cut' = (cut \/ k < left),
               Goto("up", IF left' = 0 THEN "hash" ELSE "header"), UNCHANGED <<status, open>>
        PROVE  TInv'
    <3>1. left \in Nat /\ left <= offered + Overhead /\ offered + Overhead \in Nat
      BY <1>12 DEF SendData
    <3>2. [i \in 1..k |-> <<"file", offered + Overhead - left + i>>] \in Seq(Unit)
      BY <3>1, SMTT(30) DEF Unit
    <3>3. wire' \in [Ends -> Seq(Unit)]
      BY <2>2, <3>2, SendType
    <3>4. left' \in Nat /\ left' <= offered + Overhead
      BY <2>2, <3>1, SMTT(30)
    <3>5. \E l \in {"hash", "header"} : pc' = [pc EXCEPT !["up"] = l]
      BY <2>2
    <3>6. pc["up"] = "data" /\ UNCHANGED <<given, link, downloading>>
      BY <1>12 DEF SendData
    <3>8. cut' \in BOOLEAN
      BY <2>2, <3>1, Zenon
    <3>7. QED  BY <2>2, <3>3, <3>4, <3>5, <3>6, <3>8
  <2>3. QED  BY <1>12, <2>1, <2>2 DEF SendData
<1>13. CASE SendHash
  <2>1. wire' \in [Ends -> Seq(Unit)]
    BY <1>13, SendUnitsType DEF SendHash
  <2>2. QED  BY <1>13, <2>1, ZenonT(40) DEF SendHash
<1>14. CASE ReceiveVerdict
  <2>1. wire' \in [Ends -> Seq(Unit)] /\ cut' \in BOOLEAN
    BY <1>14, RecvType DEF ReceiveVerdict
  <2>2. pc' = [pc EXCEPT !["up"] = "done"] \/ pc' = [pc EXCEPT !["up"] = "dead"]
    BY <1>14 DEF ReceiveVerdict
  <2>3. status' \in [Ends -> Statuses] /\ open' \subseteq Ends
    BY <1>14, ZenonT(40) DEF ReceiveVerdict
  <2>4. QED  BY <1>14, <2>1, <2>2, <2>3 DEF ReceiveVerdict
<1>15. CASE HeaderMissing("up")  BY <1>15 DEF HeaderMissing
<1>16. QED
  BY <1>1, <1>2, <1>3, <1>4, <1>5, <1>6, <1>7, <1>8, <1>9, <1>10, <1>11, <1>12, <1>13, <1>14,
     <1>15 DEF UpStep

(* download() keeps everything in place.                                   *)
LEMMA DownTInv ==
    ASSUME TInv, DownStep
    PROVE  TInv'
<1> USE DEF TInv, FileTransferTypeOK, InPlace, UpPC, DownPC, Statuses, Ends, given, uploading,
          downloading, Goto, Leave, Return, Die
<1>0. UNCHANGED file => offered' = offered  BY DEF offered
<1> USE Numbers, <1>0
<1>1. CASE Listen
  <2>1. CASE Goto("down", "select") /\ UNCHANGED <<status, open>>
    BY <1>1, <2>1 DEF Listen
  <2>2. CASE Return("down", "FAILURE")
    BY <1>1, <2>2 DEF Listen
  <2>3. QED  BY <1>1, <2>1, <2>2 DEF Listen
<1>2. CASE SelectTimesOut  BY <1>2 DEF SelectTimesOut
<1>3. CASE GiveUp  BY <1>3 DEF GiveUp
<1>4. CASE AcceptPeer  BY <1>4 DEF AcceptPeer
<1>5. CASE DownReceivesKey
  <2>1. wire' \in [Ends -> Seq(Unit)]
    BY <1>5, RecvType DEF DownReceivesKey
  <2>2. \E l \in {"key", "done", "dead"} : pc' = [pc EXCEPT !["down"] = l]
    BY <1>5 DEF DownReceivesKey
  <2>3. status' \in [Ends -> Statuses] /\ open' \subseteq Ends
    BY <1>5, ZenonT(40) DEF DownReceivesKey
  <2>4. QED  BY <1>5, <2>1, <2>2, <2>3 DEF DownReceivesKey
<1>6. CASE SendKey("down")
  <2>1. wire' \in [Ends -> Seq(Unit)]
    BY <1>6, SendUnitsType DEF SendKey
  <2>2. QED  BY <1>6, <2>1 DEF SendKey
<1>7. CASE ReceiveSize
  <2>1. got = <<>>  BY <1>7 DEF ReceiveSize
  <2>2. wire' \in [Ends -> Seq(Unit)] /\ want' \in Nat /\ cut' \in BOOLEAN
    BY <1>7, RecvType DEF ReceiveSize
  <2>3. status' \in [Ends -> Statuses] /\ open' \subseteq Ends
    BY <1>7, ZenonT(40) DEF ReceiveSize
  <2>4. \E l \in {"resize", "done"} : pc' = [pc EXCEPT !["down"] = l]
    BY <1>7 DEF ReceiveSize
  <2>5. QED  BY <1>7, <2>1, <2>2, <2>3, <2>4 DEF ReceiveSize
<1>8. CASE Resize  BY <1>8 DEF Resize
<1>9. CASE ReceiveChunkHeader
  <2>1. wire' \in [Ends -> Seq(Unit)] /\ cut' \in BOOLEAN
    BY <1>9, RecvType DEF ReceiveChunkHeader
  <2>2. \E l \in {"data", "done", "dead"} : pc' = [pc EXCEPT !["down"] = l]
    BY <1>9 DEF ReceiveChunkHeader
  <2>3. status' \in [Ends -> Statuses] /\ open' \subseteq Ends
    BY <1>9, ZenonT(40) DEF ReceiveChunkHeader
  <2>4. QED  BY <1>9, <2>1, <2>2, <2>3 DEF ReceiveChunkHeader
<1>10. CASE HeaderMissing("down")  BY <1>10 DEF HeaderMissing
<1>11. CASE ReceiveData
  <2>1. CASE FailWithHeader("down", IF RecvFails("down") THEN "FAILURE" ELSE "CONNECTION_CLOSED")
             /\ UNCHANGED <<got, cut>>
    BY <1>11, <2>1, FailType, SMTT(30) DEF ReceiveData
  <2>2. ASSUME NEW k \in 1..(want - Len(got)),
               recv("down", want - Len(got), k),
               got' = got \o SubSeq(wire["down"], 1, k), cut' = (cut \/ k < want - Len(got)),
               Goto("down", IF Len(got') = want THEN "hash" ELSE "header"),
               UNCHANGED <<status, open>>
        PROVE  TInv'
    <3>1. wire' \in [Ends -> Seq(Unit)]
      BY <2>2, RecvType
    <3>2. SubSeq(wire["down"], 1, k) \in Seq(Unit) /\ Len(SubSeq(wire["down"], 1, k)) = k
      BY <2>2, SMTT(30) DEF recv
    <3>3. got' \in Seq(Unit) /\ Len(got') <= want
      BY <2>2, <3>2
    <3>4. QED  BY <1>11, <2>2, <3>1, <3>3 DEF ReceiveData
  <2>3. QED  BY <1>11, <2>1, <2>2 DEF ReceiveData
<1>12. CASE ReceiveHash
  <2>1. CASE FailWithHeader("down", "HASH_FAILED") /\ UNCHANGED plain
    BY <1>12, <2>1, FailType DEF ReceiveHash
  <2>2. CASE /\ recv("down", HashLen, HashLen)
             /\ plain' = Decrypted
             /\ Goto("down", IF Takes("down", HashLen, "hash", HashLen) /\ plain' = offered
                             THEN "accept" ELSE "refuse")
             /\ UNCHANGED <<status, open>>
    <3>1. wire' \in [Ends -> Seq(Unit)]
      BY <2>2, RecvType
    <3>2. plain' \in Int  BY <2>2 DEF Decrypted
    <3>3. QED  BY <1>12, <2>2, <3>1, <3>2 DEF ReceiveHash
  <2>3. QED  BY <1>12, <2>1, <2>2 DEF ReceiveHash
<1>13. CASE SendVerdict
  <2>1. CASE pc["down"] = "refuse" /\ FailWithHeader("down", "HASH_FAILED")
    BY <1>13, <2>1, FailType, SMTT(30) DEF SendVerdict
  <2>2. CASE /\ pc["down"] = "accept"
             /\ sendHeader("down", "success") \/ (SendFails("down") /\ UNCHANGED wire)
             /\ Leave("down", "save", "SUCCESS")
    <3>1. wire' \in [Ends -> Seq(Unit)]  BY <2>2, HeaderType
    <3>2. QED  BY <1>13, <2>2, <3>1 DEF SendVerdict
  <2>3. QED  BY <1>13, <2>1, <2>2 DEF SendVerdict
<1>14. CASE SaveFile  BY <1>14 DEF SaveFile
<1>15. QED
  BY <1>1, <1>2, <1>3, <1>4, <1>5, <1>6, <1>7, <1>8, <1>9, <1>10, <1>11, <1>12, <1>13, <1>14
     DEF DownStep

(* Every step keeps everything in place.                                   *)
LEMMA NextTInv == TInv /\ [Next]_vars => TInv'
<1> SUFFICES ASSUME TInv, [Next]_vars PROVE TInv'
  OBVIOUS
<1>1. CASE UpStep  BY <1>1, UpTInv
<1>2. CASE DownStep  BY <1>2, DownTInv
<1>3. CASE Break
  BY <1>3, Numbers
     DEF Break, TInv, FileTransferTypeOK, InPlace, given, uploading, downloading, offered, Ends
<1>4. CASE UNCHANGED vars
  BY <1>4 DEF vars, TInv, FileTransferTypeOK, InPlace, offered
<1>5. QED  BY <1>1, <1>2, <1>3, <1>4 DEF Next

(* The types of FileTransfer, whatever the sizes of the parts of a         *)
(* transfer are; among them that encrypted_buffer is never filled beyond   *)
(* its end, and that a size read back with ntohl is a size_t.              *)
THEOREM TypeCorrect == Spec => []FileTransferTypeOK
<1>1. Spec => []TInv
  BY InitTInv, NextTInv, PTL DEF Spec
<1>2. TInv => FileTransferTypeOK  BY DEF TInv
<1>3. QED  BY <1>1, <1>2, PTL

(* a stream that holds the beginning of the verdict SUCCESS, or some of it  *)
Says(s) == \E i \in 1 .. Len(s) : s[i][1] = "success"

(* What an end has been told, and what is on the way to tell it, is true.   *)
Outcome ==
    /\ status["up"] # "none" => pc["up"] = "done"
    /\ status["down"] # "none" => pc["down"] \in {"save", "done"}
    /\ pc["down"] = "save" => status["down"] = "SUCCESS"
    /\ pc["down"] = "accept" \/ status["down"] = "SUCCESS" => plain = offered
    /\ Says(wire["up"]) \/ status["up"] = "SUCCESS" => status["down"] = "SUCCESS"

(* What a recv leaves of a stream says no more than the stream did.        *)
LEMMA SaysLess ==
    ASSUME NEW s \in Seq(Unit), NEW k \in 0 .. Len(s), Says(SubSeq(s, k + 1, Len(s)))
    PROVE  Says(s)
<1> DEFINE t == SubSeq(s, k + 1, Len(s))
<1>1. Len(t) = Len(s) - k /\ \A i \in 1 .. Len(t) : t[i] = s[k + i]
  OBVIOUS
<1>2. PICK i \in 1 .. Len(t) : t[i][1] = "success"
  BY DEF Says
<1> HIDE DEF t
<1>3. k + i \in 1 .. Len(s) /\ s[k + i][1] = "success"
  BY <1>1, <1>2
<1>4. QED  BY <1>3 DEF Says

(* A stream to which units are added says SUCCESS if it did, or if they    *)
(* do.                                                                     *)
LEMMA SaysMore ==
    ASSUME NEW s \in Seq(Unit), NEW n \in Nat,
           NEW x \in {"key", "size", "chunk", "success", "failure", "file", "hash"},
           Says(s \o Units(x, n))
    PROVE  Says(s) \/ x = "success"
<1> DEFINE t == Units(x, n)
<1>1. t \in Seq(Unit) /\ Len(t) = n /\ \A i \in 1..n : t[i] = <<x, i>>
  BY UnitsType DEF Units
<1>2. PICK i \in 1 .. Len(s \o t) : (s \o t)[i][1] = "success"
  BY DEF Says
<1> HIDE DEF t
<1>3. CASE i <= Len(s)
  BY <1>1, <1>2, <1>3 DEF Says
<1>4. CASE i > Len(s)
  <2>1. i - Len(s) \in 1..n /\ (s \o t)[i] = t[i - Len(s)]
    BY <1>1, <1>2, <1>4
  <2>2. QED  BY <1>1, <1>2, <2>1
<1>5. QED  BY <1>1, <1>2, <1>3, <1>4

(* Only download() puts a SUCCESS on the wire to upload().                 *)
LEMMA Wires ==
    ASSUME TInv
    PROVE  /\ \A u : send("up", u) => wire'["up"] = wire["up"]
           /\ \A n \in Nat, x \in {"key", "failure", "success"} :
                send("down", Units(x, n)) /\ Says(wire'["up"]) =>
                  Says(wire["up"]) \/ x = "success"
           /\ \A n, k : recv("up", n, k) /\ n \in Nat /\ Says(wire'["up"]) => Says(wire["up"])
           /\ \A n, k : recv("down", n, k) => wire'["up"] = wire["up"]
<1>1. wire \in [Ends -> Seq(Unit)] /\ "up" \in Ends /\ "down" \in Ends
  BY DEF TInv, FileTransferTypeOK, Ends
<1>2. ASSUME NEW u, send("up", u) PROVE wire'["up"] = wire["up"]
  BY <1>1, <1>2 DEF send, Other
<1>3. ASSUME NEW n \in Nat, NEW x \in {"key", "failure", "success"},
             send("down", Units(x, n)), Says(wire'["up"])
      PROVE  Says(wire["up"]) \/ x = "success"
  <2>1. wire'["up"] = wire["up"] \o Units(x, n) \/ wire'["up"] = wire["up"]
    BY <1>1, <1>3 DEF send, Other
  <2>2. QED  BY <1>1, <1>3, <2>1, SaysMore
<1>4. ASSUME NEW n, NEW k, recv("up", n, k), n \in Nat, Says(wire'["up"])
      PROVE  Says(wire["up"])
  <2>1. wire'["up"] = SubSeq(wire["up"], k + 1, Len(wire["up"])) /\ k \in 0 .. Len(wire["up"])
    BY <1>1, <1>4 DEF recv
  <2>2. QED  BY <1>1, <1>4, <2>1, SaysLess
<1>5. ASSUME NEW n, NEW k, recv("down", n, k) PROVE wire'["up"] = wire["up"]
  BY <1>1, <1>5 DEF recv
<1>6. QED  BY <1>2, <1>3, <1>4, <1>5

(* What a step of upload() may tell the uploader.                          *)
LEMMA UpOutcome ==
    ASSUME TInv, Outcome, UpStep
    PROVE  /\ UNCHANGED <<file, keys, want, got, plain, kept>>
           /\ pc'["down"] = pc["down"] /\ status'["down"] = status["down"]
           /\ pc["up"] \notin {"done", "dead"}
           /\ Says(wire'["up"]) => Says(wire["up"])
           /\ status'["up"] # "none" => pc'["up"] = "done"
           /\ status'["up"] = "SUCCESS" => status["down"] = "SUCCESS"
<1> USE DEF TInv, FileTransferTypeOK, Ends, given, uploading, downloading, Goto, Leave, Return,
          Die, FailWithHeader, sendHeader
<1> USE Wires, FileTransferAssumption
<1>0. pc["up"] \notin {"done", "dead"} /\ UNCHANGED <<file, keys, want, got, plain, kept>>
  BY DEF UpStep, MissingExtension, Connect, ConnectFails, SendKey, UpReceivesKey, UpReceivesNoKey,
         OpenFile, CannotOpen, SendSize, ReadFile, SendChunkHeader, SendData, SendHash,
         ReceiveVerdict, HeaderMissing
<1>1. status["up"] = "none"
  BY <1>0 DEF Outcome
<1>2. pc'["down"] = pc["down"] /\ status'["down"] = status["down"]
  BY DEF UpStep, MissingExtension, Connect, ConnectFails, SendKey, UpReceivesKey, UpReceivesNoKey,
         OpenFile, CannotOpen, SendSize, ReadFile, SendChunkHeader, SendData, SendHash,
         ReceiveVerdict, HeaderMissing
<1>3. Says(wire'["up"]) => Says(wire["up"])
  BY DEF UpStep, MissingExtension, Connect, ConnectFails, SendKey, UpReceivesKey, UpReceivesNoKey,
         OpenFile, CannotOpen, SendSize, ReadFile, SendChunkHeader, SendData, SendHash,
         ReceiveVerdict, HeaderMissing
<1>4. status'["up"] # "none" => pc'["up"] = "done"
  BY <1>1 DEF UpStep, MissingExtension, Connect, ConnectFails, SendKey, UpReceivesKey, UpReceivesNoKey,
         OpenFile, CannotOpen, SendSize, ReadFile, SendChunkHeader, SendData, SendHash,
         ReceiveVerdict, HeaderMissing
<1>5. status'["up"] = "SUCCESS" => status["down"] = "SUCCESS"
  <2>1. CASE ReceiveVerdict
    <3>1. ASSUME NEW k, Takes("up", k, "success", HeaderLen), recv("up", HeaderLen, k)
          PROVE  Says(wire["up"])
      <4>1. k = HeaderLen /\ k <= Len(wire["up"]) /\ SubSeq(wire["up"], 1, k) = Units("success", k)
        BY <3>1 DEF Takes, recv
      <4>2. Units("success", k)[1] = <<"success", 1>> /\ SubSeq(wire["up"], 1, k)[1] = wire["up"][1]
        BY <4>1 DEF Units
      <4>3. 1 \in 1 .. Len(wire["up"]) /\ wire["up"][1][1] = "success"
        BY <4>1, <4>2, SMTT(30)
      <4>4. QED  BY <4>3 DEF Says
    <3>2. QED  BY <2>1, <3>1, <1>1 DEF ReceiveVerdict, Outcome
  <2>2. CASE ~ReceiveVerdict
    BY <1>1, <2>2
       DEF UpStep, MissingExtension, Connect, ConnectFails, SendKey, UpReceivesKey, UpReceivesNoKey,
         OpenFile, CannotOpen, SendSize, ReadFile, SendChunkHeader, SendData, SendHash, HeaderMissing
  <2>3. QED  BY <2>1, <2>2
<1>6. QED  BY <1>0, <1>2, <1>3, <1>4, <1>5

(* What a step of download() may tell the downloader.                      *)
LEMMA DownOutcome ==
    ASSUME TInv, Outcome, DownStep
    PROVE  /\ UNCHANGED <<file, keys, left>>
           /\ pc'["up"] = pc["up"] /\ status'["up"] = status["up"]
           /\ \/ /\ pc["down"] = "accept" /\ status["down"] = "none"
                 /\ pc'["down"] = "save" /\ status'["down"] = "SUCCESS"
                 /\ plain' = plain
              \/ /\ pc["down"] = "save" /\ pc'["down"] = "done"
                 /\ status'["down"] = status["down"] /\ plain' = plain
                 /\ Says(wire'["up"]) => Says(wire["up"])
              \/ /\ pc["down"] \notin {"save", "done", "dead"} /\ status["down"] = "none"
                 /\ pc'["down"] # "save" /\ status'["down"] # "SUCCESS"
                 /\ status'["down"] # "none" => pc'["down"] = "done"
                 /\ pc'["down"] = "accept" => plain' = offered
                 /\ Says(wire'["up"]) => Says(wire["up"])
<1> USE DEF TInv, FileTransferTypeOK, Ends, given, uploading, downloading, Goto, Leave, Return,
          Die, FailWithHeader, sendHeader
<1> USE Wires, FileTransferAssumption
<1>0. /\ pc'["up"] = pc["up"] /\ status'["up"] = status["up"]
      /\ pc["down"] \notin {"done", "dead"} /\ UNCHANGED <<file, keys, left>>
  BY DEF DownStep, Listen, SelectTimesOut, GiveUp, AcceptPeer, DownReceivesKey, SendKey,
         ReceiveSize, Resize, ReceiveChunkHeader, HeaderMissing, ReceiveData, ReceiveHash,
         SendVerdict, SaveFile
<1>1. CASE pc["down"] = "accept"
  <2>1. SendVerdict
    BY <1>1 DEF DownStep, Listen, SelectTimesOut, GiveUp, AcceptPeer, DownReceivesKey, SendKey,
         ReceiveSize, Resize, ReceiveChunkHeader, HeaderMissing, ReceiveData, ReceiveHash,
         SendVerdict, SaveFile
  <2>2. QED  BY <1>0, <1>1, <2>1 DEF SendVerdict, Outcome
<1>2. CASE pc["down"] = "save"
  <2>1. SaveFile
    BY <1>2 DEF DownStep, Listen, SelectTimesOut, GiveUp, AcceptPeer, DownReceivesKey, SendKey,
         ReceiveSize, Resize, ReceiveChunkHeader, HeaderMissing, ReceiveData, ReceiveHash,
         SendVerdict, SaveFile
  <2>2. QED  BY <1>0, <1>2, <2>1 DEF SaveFile, Outcome
<1>3. CASE pc["down"] \notin {"accept", "save"}
  <2>1. status["down"] = "none" /\ pc["down"] \notin {"save", "done", "dead"}
    BY <1>0, <1>3 DEF Outcome
  <2>2. Says(wire'["up"]) => Says(wire["up"])
    BY <1>3 DEF DownStep, Listen, SelectTimesOut, GiveUp, AcceptPeer, DownReceivesKey, SendKey,
         ReceiveSize, Resize, ReceiveChunkHeader, HeaderMissing, ReceiveData, ReceiveHash,
         SendVerdict, SaveFile
  <2>3. /\ pc'["down"] # "save" /\ status'["down"] # "SUCCESS"
        /\ status'["down"] # "none" => pc'["down"] = "done"
    BY <1>3, <2>1
       DEF DownStep, Listen, SelectTimesOut, GiveUp, AcceptPeer, DownReceivesKey, SendKey,
         ReceiveSize, Resize, ReceiveChunkHeader, HeaderMissing, ReceiveData, ReceiveHash,
         SendVerdict, SaveFile
  <2>4. pc'["down"] = "accept" => plain' = offered
    BY <1>3 DEF DownStep, Listen, SelectTimesOut, GiveUp, AcceptPeer, DownReceivesKey, SendKey,
         ReceiveSize, Resize, ReceiveChunkHeader, HeaderMissing, ReceiveData, ReceiveHash,
         SendVerdict, SaveFile
  <2>5. QED  BY <1>0, <2>1, <2>2, <2>3, <2>4
<1>4. QED  BY <1>1, <1>2, <1>3

(* Nobody is told what is not true.                                        *)
LEMMA NextOutcome == TInv /\ Outcome /\ [Next]_vars => Outcome'
<1> SUFFICES ASSUME TInv, Outcome, [Next]_vars PROVE Outcome'
  OBVIOUS
<1>0. UNCHANGED file => offered' = offered
  BY DEF offered
<1>1. CASE UpStep
  BY <1>0, <1>1, UpOutcome DEF Outcome
<1>2. CASE DownStep
  BY <1>0, <1>2, DownOutcome DEF Outcome
<1>3. CASE Break
  <2>1. ~Says(wire'["up"])
    BY <1>3 DEF Break, Says, Ends
  <2>2. QED  BY <1>0, <1>3, <2>1 DEF Break, Outcome, given, downloading
<1>4. CASE UNCHANGED vars
  BY <1>0, <1>4 DEF vars, Outcome, Says
<1>5. QED  BY <1>1, <1>2, <1>3, <1>4 DEF Next

(* At first nobody has been told anything.                                 *)
LEMMA InitOutcome == Init => Outcome
BY DEF Init, Outcome, Says, Ends

(* a stream that holds some of an x *)
HasSome(s, x) == \E i \in 1 .. Len(s) : s[i][1] = x

(* Nothing is hashed, and so nothing accepted, but a file that could be    *)
(* opened and whose size has not become negative.                          *)
Weighed ==
    pc["down"] = "accept" \/ HasSome(wire["down"], "hash") => file \in Nat /\ offered >= 0

(* What a step does to the hashes on their way to download().              *)
LEMMA Hashes ==
    ASSUME TInv
    PROVE  /\ \A u \in Seq(Unit) :
                 send("up", u) /\ HasSome(wire'["down"], "hash") =>
                    HasSome(wire["down"], "hash") \/ HasSome(u, "hash")
           /\ \A u : send("down", u) => wire'["down"] = wire["down"]
           /\ \A n \in Nat : \A k : recv("down", n, k) /\ HasSome(wire'["down"], "hash") =>
                 HasSome(wire["down"], "hash")
           /\ \A n, k : recv("up", n, k) => wire'["down"] = wire["down"]
<1>1. wire \in [Ends -> Seq(Unit)] /\ "up" \in Ends /\ "down" \in Ends
  BY DEF TInv, FileTransferTypeOK, Ends
<1>2. ASSUME NEW u \in Seq(Unit), send("up", u), HasSome(wire'["down"], "hash")
      PROVE  HasSome(wire["down"], "hash") \/ HasSome(u, "hash")
  <2> DEFINE w == wire["down"]
  <2>1. w \in Seq(Unit) /\ (wire'["down"] = w \o u \/ wire'["down"] = w)
    BY <1>1, <1>2 DEF send, Other
  <2> HIDE DEF w
  <2>2. CASE wire'["down"] = w
    BY <1>2, <2>2 DEF w
  <2>3. CASE wire'["down"] = w \o u
    <3>1. PICK i \in 1 .. Len(w \o u) : (w \o u)[i][1] = "hash"
      BY <1>2, <2>3 DEF HasSome
    <3>2. CASE i <= Len(w)
      BY <2>1, <3>1, <3>2 DEF HasSome, w
    <3>3. CASE i > Len(w)
      <4>1. i - Len(w) \in 1 .. Len(u) /\ (w \o u)[i] = u[i - Len(w)]
        BY <2>1, <3>1, <3>3
      <4>2. QED  BY <3>1, <4>1 DEF HasSome
    <3>4. QED  BY <2>1, <3>1, <3>2, <3>3
  <2>4. QED  BY <2>1, <2>2, <2>3
<1>3. ASSUME NEW u, send("down", u)  PROVE wire'["down"] = wire["down"]
  BY <1>1, <1>3 DEF send, Other
<1>4. ASSUME NEW n \in Nat, NEW k, recv("down", n, k), HasSome(wire'["down"], "hash")
      PROVE  HasSome(wire["down"], "hash")
  <2> DEFINE w == wire["down"]
  <2>1. /\ w \in Seq(Unit) /\ k \in 1 .. n /\ k <= Len(w)
        /\ wire'["down"] = SubSeq(w, k + 1, Len(w))
    BY <1>1, <1>4 DEF recv
  <2> HIDE DEF w
  <2>2. PICK i \in 1 .. Len(SubSeq(w, k + 1, Len(w))) : SubSeq(w, k + 1, Len(w))[i][1] = "hash"
    BY <1>4, <2>1 DEF HasSome
  <2>3. k + i \in 1 .. Len(w) /\ SubSeq(w, k + 1, Len(w))[i] = w[k + i]
    BY <2>1, <2>2
  <2>4. QED  BY <2>2, <2>3 DEF HasSome, w
<1>5. ASSUME NEW n, NEW k, recv("up", n, k)  PROVE wire'["down"] = wire["down"]
  BY <1>1, <1>5 DEF recv
<1>6. QED  BY <1>2, <1>3, <1>4, <1>5

(* upload() sends a hash only when it has read the file.                   *)
LEMMA UpWeighed ==
    ASSUME TInv, Weighed, UpStep, HasSome(wire'["down"], "hash")
    PROVE  file \in Nat /\ offered >= 0
<1>1. ASSUME NEW x \in {"key", "size", "chunk", "failure"}, NEW n \in Nat
      PROVE  Units(x, n) \in Seq(Unit) /\ ~HasSome(Units(x, n), "hash")
  <2>1. Units(x, n) \in Seq(Unit) /\ Len(Units(x, n)) = n
    BY UnitsType
  <2>2. \A i \in 1..n : Units(x, n)[i][1] = x
    BY DEF Units
  <2>3. QED  BY <2>1, <2>2 DEF HasSome
<1> USE DEF TInv, FileTransferTypeOK, Ends, FailWithHeader, sendHeader
<1> USE Hashes, FileTransferAssumption
<1>2. CASE SendHash
  BY <1>2 DEF SendHash, InPlace
<1>3. CASE SendData
  <2>1. ASSUME NEW k \in 1..left
        PROVE  LET u == [i \in 1..k |-> <<"file", offered + Overhead - left + i>>]
               IN  u \in Seq(Unit) /\ ~HasSome(u, "hash")
    <3> DEFINE m == offered + Overhead - left
    <3>1. m \in Nat /\ k \in Nat
      BY <1>3, <2>1, Numbers DEF SendData, InPlace
    <3> HIDE DEF m
    <3>2. [i \in 1..k |-> <<"file", m + i>>] \in Seq(Unit)
          /\ ~HasSome([i \in 1..k |-> <<"file", m + i>>], "hash")
      BY <3>1 DEF Unit, HasSome
    <3>3. QED  BY <3>2 DEF m
  <2>2. QED  BY <1>1, <1>3, <2>1 DEF SendData, Weighed
<1>4. CASE ~SendHash /\ ~SendData
  <2>1. HasSome(wire["down"], "hash")
    BY <1>1, <1>4
       DEF UpStep, MissingExtension, Connect, ConnectFails, SendKey, UpReceivesKey,
           UpReceivesNoKey, OpenFile, CannotOpen, SendSize, ReadFile, SendChunkHeader,
           ReceiveVerdict, HeaderMissing
  <2>2. QED  BY <2>1 DEF Weighed
<1>5. QED  BY <1>2, <1>3, <1>4

(* download() accepts only what a hash has come for.                       *)
LEMMA DownWeighed ==
    ASSUME TInv, Weighed, DownStep, pc'["down"] = "accept" \/ HasSome(wire'["down"], "hash")
    PROVE  file \in Nat /\ offered >= 0
<1> USE DEF TInv, FileTransferTypeOK, Ends, FailWithHeader, sendHeader, Goto, Leave, Return, Die
<1> USE Hashes, FileTransferAssumption
<1>1. HasSome(wire'["down"], "hash") => HasSome(wire["down"], "hash")
  BY DEF DownStep, Listen, SelectTimesOut, GiveUp, AcceptPeer, DownReceivesKey, SendKey,
         ReceiveSize, Resize, ReceiveChunkHeader, HeaderMissing, ReceiveData, ReceiveHash,
         SendVerdict, SaveFile
<1>2. CASE pc'["down"] = "accept"
  <2>1. /\ recv("down", HashLen, HashLen)
        /\ Takes("down", HashLen, "hash", HashLen)
    BY <1>2 DEF DownStep, Listen, SelectTimesOut, GiveUp, AcceptPeer, DownReceivesKey, SendKey,
         ReceiveSize, Resize, ReceiveChunkHeader, HeaderMissing, ReceiveData, ReceiveHash,
         SendVerdict, SaveFile
  <2>2. HashLen <= Len(wire["down"]) /\ SubSeq(wire["down"], 1, HashLen) = Units("hash", HashLen)
    BY <2>1 DEF recv, Takes
  <2>3. Units("hash", HashLen)[1] = <<"hash", 1>>
        /\ SubSeq(wire["down"], 1, HashLen)[1] = wire["down"][1]
    BY <2>2 DEF Units
  <2>4. 1 \in 1 .. Len(wire["down"]) /\ wire["down"][1][1] = "hash"
    BY <2>2, <2>3, SMTT(30)
  <2>5. QED  BY <2>4 DEF HasSome, Weighed
<1>3. QED  BY <1>1, <1>2 DEF Weighed

(* Every step of a transfer.                                               *)
LEMMA NextWeighed == TInv /\ Weighed /\ [Next]_vars => Weighed'
<1> SUFFICES ASSUME TInv, Weighed, [Next]_vars PROVE Weighed'
  OBVIOUS
<1>0. UNCHANGED file => offered' = offered
  BY DEF offered
<1>1. CASE UpStep
  <2>1. UNCHANGED file /\ pc'["down"] = pc["down"]
    BY <1>1 DEF TInv, FileTransferTypeOK, Ends, given, Goto, Leave, Return, Die,
         FailWithHeader, UpStep, MissingExtension, Connect, ConnectFails, SendKey,
         UpReceivesKey, UpReceivesNoKey, OpenFile, CannotOpen, SendSize, ReadFile,
         SendChunkHeader, SendData, SendHash, ReceiveVerdict, HeaderMissing
  <2>2. QED  BY <1>0, <1>1, <2>1, UpWeighed DEF Weighed
<1>2. CASE DownStep
  <2>1. UNCHANGED file
    BY <1>2 DEF given, DownStep, Listen, SelectTimesOut, GiveUp, AcceptPeer, DownReceivesKey,
         SendKey, ReceiveSize, Resize, ReceiveChunkHeader, HeaderMissing, ReceiveData,
         ReceiveHash, SendVerdict, SaveFile
  <2>2. QED  BY <1>0, <1>2, <2>1, DownWeighed DEF Weighed
<1>3. CASE Break
  <2>1. ~HasSome(wire'["down"], "hash")
    BY <1>3 DEF Break, HasSome, Ends
  <2>2. QED  BY <1>0, <1>3, <2>1 DEF Break, Weighed, given
<1>4. CASE UNCHANGED vars
  BY <1>0, <1>4 DEF vars, given, Weighed
<1>5. QED  BY <1>1, <1>2, <1>3, <1>4 DEF Next

(* At first nothing has been sent.                                         *)
LEMMA InitWeighed == Init => Weighed
BY DEF Init, Weighed, HasSome, Ends

(* A size that fits is announced as it is; of another a beginning arrives. *)
LEMMA OfferedIs ==
    ASSUME file \in Nat, offered >= 0
    PROVE  offered = file \/ (file >= Word /\ offered \in 0 .. Word - 1)
<1>1. offered = Signed(file) /\ file \in Int
  BY FileTransferAssumption DEF offered
<1>2. Word \in Nat \ {0} /\ offered \in Int /\ file % Word \in 0 .. Word - 1
  BY <1>1, Sizes, SignedSame, DivMod
<1>3. offered = file % Word
  BY <1>1, <1>2 DEF Signed
<1>4. CASE file < Word
  <2>1. file \in 0 .. Word - 1
    BY <1>2, <1>4
  <2>2. QED  BY <1>2, <1>3, <2>1, SmallMod
<1>5. CASE file >= Word
  BY <1>2, <1>3, <1>5
<1>6. QED  BY <1>2, <1>4, <1>5

(* The three things an end may have been told.                             *)
LEMMA ToldIs ==
    ASSUME NEW e \in Ends
    PROVE  /\ status[e] = "SUCCESS" => Told(e) = "success"
           /\ status[e] # "SUCCESS" /\ pc[e] \in {"done", "dead"} => Told(e) = "failure"
           /\ status[e] # "SUCCESS" /\ pc[e] \notin {"done", "dead"} => Told(e) = "busy"
BY DEF Told

(* Every step of a transfer is a step of FileDelivery, or changes nothing  *)
(* of what it is about.                                                    *)
LEMMA StepDelivers ==
    TInv /\ Outcome /\ Weighed /\ [Next]_vars => [Delivery!Next]_(Delivery!vars)
<1> SUFFICES ASSUME TInv, Outcome, Weighed, [Next]_vars PROVE [Delivery!Next]_(Delivery!vars)
  OBVIOUS
<1> DEFINE Kept == IF Told("down") = "success" THEN plain ELSE 0
<1>1. ASSUME UNCHANGED <<file, Told("up"), Told("down"), plain>>
      PROVE  UNCHANGED Delivery!vars
  BY <1>1 DEF Delivery!vars
<1>2. CASE UpStep
  <2>1. /\ Told("up") = "busy" /\ Told("down")' = Told("down") /\ plain' = plain
        /\ file' = file
    BY <1>2, UpOutcome, ToldIs DEF Outcome, Ends, Told
  <2>2. CASE status'["up"] = "SUCCESS"
    <3>1. Told("up")' = "success" /\ Told("down") = "success"
      BY <1>2, <2>2, UpOutcome, ToldIs DEF Ends, Told
    <3>2. Delivery!Confirm
      BY <2>1, <3>1 DEF Delivery!Confirm
    <3>3. QED  BY <3>2 DEF Delivery!Next
  <2>3. CASE status'["up"] # "SUCCESS" /\ pc'["up"] \in {"done", "dead"}
    <3>1. Told("up")' = "failure"
      BY <2>3 DEF Told
    <3>2. Delivery!UploadFails
      BY <2>1, <3>1 DEF Delivery!UploadFails
    <3>3. QED  BY <3>2 DEF Delivery!Next
  <2>4. CASE status'["up"] # "SUCCESS" /\ pc'["up"] \notin {"done", "dead"}
    <3>1. Told("up")' = "busy"
      BY <2>4 DEF Told
    <3>2. QED  BY <1>1, <2>1, <3>1
  <2>5. QED  BY <2>2, <2>3, <2>4
<1>3. CASE DownStep
  <2>1. Told("up")' = Told("up") /\ file' = file
    BY <1>3, DownOutcome DEF Told
  <2>2. CASE status["down"] # "SUCCESS" /\ status'["down"] = "SUCCESS"
    <3>1. pc["down"] = "accept" /\ plain' = plain
      BY <1>3, <2>2, DownOutcome
    <3>2. Told("down") = "busy" /\ Told("down")' = "success" /\ plain' = offered
      BY <2>2, <3>1, ToldIs DEF Told, Outcome, Ends
    <3>3. plain' = file \/ (file >= Word /\ plain' \in 0 .. Word - 1)
      BY <3>1, <3>2, OfferedIs DEF Weighed
    <3>4. Delivery!Arrive
      BY <2>1, <3>2, <3>3 DEF Delivery!Arrive
    <3>5. QED  BY <3>4 DEF Delivery!Next
  <2>3. CASE status["down"] = "SUCCESS"
    <3>1. status'["down"] = "SUCCESS" /\ plain' = plain
      BY <1>3, <2>3, DownOutcome
    <3>2. Told("down") = "success" /\ Told("down")' = "success"
      BY <2>3, <3>1 DEF Told
    <3>3. QED  BY <1>1, <2>1, <3>1, <3>2
  <2>4. CASE status["down"] # "SUCCESS" /\ status'["down"] # "SUCCESS"
    <3>1. Told("down") = "busy"
      BY <1>3, <2>4, DownOutcome, ToldIs DEF Ends, Outcome
    <3>2. CASE pc'["down"] \in {"done", "dead"}
      <4>1. Told("down")' = "failure"
        BY <2>4, <3>2 DEF Told
      <4>2. Delivery!DownloadFails
        BY <2>1, <3>1, <4>1 DEF Delivery!DownloadFails
      <4>3. QED  BY <4>2 DEF Delivery!Next
    <3>3. CASE pc'["down"] \notin {"done", "dead"}
      <4>1. Told("down")' = "busy"
        BY <2>4, <3>3 DEF Told
      <4>2. QED  BY <2>1, <3>1, <4>1 DEF Delivery!vars
    <3>4. QED  BY <3>2, <3>3
  <2>5. QED  BY <2>2, <2>3, <2>4
<1>4. CASE Break
  BY <1>1, <1>4 DEF Break, given, downloading, Told
<1>5. CASE UNCHANGED vars
  BY <1>1, <1>5 DEF vars, Told
<1>6. QED  BY <1>2, <1>3, <1>4, <1>5 DEF Next

(* A transfer keeps the promises of FileDelivery.tla, for every file and   *)
(* however the connection behaves: the downloader accepts nothing but the  *)
(* file on the uploader's disk, or a beginning of it when its size is a    *)
(* word or more, and the uploader is told of success only when that has    *)
(* arrived (upload, confirmFileHash_recv, the verdict of upload).          *)
THEOREM Refines == Spec => ImplementsFileDelivery
<1>1. Init => Delivery!Init
  BY DEF Init, Delivery!Init, Told, Ends
<1>2. QED
  BY <1>1, InitTInv, NextTInv, InitOutcome, NextOutcome, InitWeighed, NextWeighed,
     StepDelivers, PTL
     DEF Spec, ImplementsFileDelivery, Delivery!Spec

(* until the downloader has accepted the connection *)
Early ==
    /\ pc["up"] = "connect" => link = "none"
    /\ pc["down"] = "listen" => link = "none"
    /\ pc["down"] \in {"listen", "select", "timeout"} => link # "accepted" /\ wire["up"] = <<>>
    /\ pc["down"] \in {"select", "timeout"} /\ link = "queued" =>
          pc["up"] \in {"key", "peerKey"} /\ open = Ends

(* units f[a + 1] to f[b] of a stream *)
Window(f, a, b) == [i \in 1 .. (b - a) |-> f[a + i]]

(* where each message of the uploader ends in its stream *)
KeyEnd == KeyLen
SizeEnd == KeyEnd + SizeLen
ChunkEnd == SizeEnd + HeaderLen
FileEnd == ChunkEnd + offered + Overhead
HashEnd == FileEnd + HashLen

UpStream == [i \in Nat |->
    IF i <= KeyEnd THEN <<"key", i>>
    ELSE IF i <= SizeEnd THEN <<"size", i - KeyEnd>>
    ELSE IF i <= ChunkEnd THEN <<"chunk", i - SizeEnd>>
    ELSE IF i <= FileEnd THEN <<"file", i - ChunkEnd>>
    ELSE <<"hash", i - FileEnd>>]

DownStream == [i \in Nat |-> IF i <= KeyEnd THEN <<"key", i>> ELSE <<"success", i - KeyEnd>>]

(* how far each end has come in what it sends, and in what it reads *)
UpSent ==
    IF pc["up"] \in {"connect", "key"} THEN 0
    ELSE IF pc["up"] \in {"peerKey", "open", "size"} THEN KeyEnd
    ELSE IF pc["up"] \in {"read", "header"} THEN SizeEnd
    ELSE IF pc["up"] = "data" THEN ChunkEnd
    ELSE IF pc["up"] = "hash" THEN FileEnd
    ELSE HashEnd

DownRead ==
    IF pc["down"] \in {"listen", "select", "peerKey"} THEN 0
    ELSE IF pc["down"] \in {"key", "size"} THEN KeyEnd
    ELSE IF pc["down"] \in {"resize", "header"} THEN SizeEnd
    ELSE IF pc["down"] = "data" THEN ChunkEnd
    ELSE IF pc["down"] = "hash" THEN FileEnd
    ELSE HashEnd

DownSent ==
    IF pc["down"] \in {"listen", "select", "peerKey", "key"} THEN 0
    ELSE IF pc["down"] \in {"save", "done"} THEN KeyEnd + HeaderLen
    ELSE KeyEnd

UpRead ==
    IF pc["up"] \in {"connect", "key", "peerKey"} THEN 0
    ELSE IF pc["up"] = "done" THEN KeyEnd + HeaderLen
    ELSE KeyEnd

(* What is on the wire is what one has sent and the other not yet read.     *)
InStep ==
    /\ DownRead <= UpSent /\ wire["down"] = Window(UpStream, DownRead, UpSent)
    /\ UpRead <= DownSent /\ wire["up"] = Window(DownStream, UpRead, DownSent)

(* Where the two ends can be when nothing has gone wrong.                   *)
Good ==
    /\ pc["up"] # "dead" /\ pc["down"] \notin {"timeout", "refuse", "dead"}
    /\ pc["down"] \in {"listen", "select"} \/ link = "accepted"
    /\ pc["up"] = "connect" <=> link = "none"
    /\ "up" \in open <=> pc["up"] \notin {"connect", "done"}
    /\ "down" \in open <=> pc["up"] # "connect" /\ pc["down"] \notin {"save", "done"}
    /\ pc["up"] \in {"header", "data"} => left = offered + Overhead
    /\ pc["down"] = "resize" => want = offered
    /\ pc["down"] \in {"header", "data", "hash"} => want = offered + Overhead
    /\ pc["down"] \in {"header", "data"} => got = <<>>
    /\ pc["down"] = "hash" => got = Units("file", want)
    /\ pc["up"] = "done" => status["up"] = "SUCCESS"
    /\ pc["down"] \in {"save", "done"} => status["down"] = "SUCCESS"
    /\ InStep

(* The invariant: as long as there is no trouble, the ends are in step.     *)
Clear == ~Trouble => Good

(* A transfer that has met trouble has met it for good.                    *)
LEMMA TroubleStays ==
    ASSUME TInv, Early, [Next]_vars, Trouble
    PROVE  Trouble'
<1> USE DEF TInv, FileTransferTypeOK, Ends, given, uploading, downloading, Goto, Leave, Return,
          Die, FailWithHeader
<1>6. UNCHANGED <<file, keys>>
  <2>1. CASE UpStep
    BY <2>1 DEF UpStep, MissingExtension, Connect, ConnectFails, SendKey, UpReceivesKey,
      UpReceivesNoKey, OpenFile, CannotOpen, SendSize, ReadFile, SendChunkHeader, SendData, SendHash,
      ReceiveVerdict, HeaderMissing
  <2>2. CASE DownStep
    BY <2>2 DEF DownStep, Listen, SelectTimesOut, GiveUp, AcceptPeer, DownReceivesKey, SendKey,
      ReceiveSize, Resize, ReceiveChunkHeader, HeaderMissing, ReceiveData, ReceiveHash,
      SendVerdict, SaveFile
  <2>3. CASE Break  BY <2>3 DEF Break
  <2>4. CASE UNCHANGED vars  BY <2>4 DEF vars
  <2>5. QED  BY <2>1, <2>2, <2>3, <2>4 DEF Next
<1>7. cut => cut'
  <2>1. CASE UpStep
    BY <2>1 DEF UpStep, MissingExtension, Connect, ConnectFails, SendKey, UpReceivesKey,
      UpReceivesNoKey, OpenFile, CannotOpen, SendSize, ReadFile, SendChunkHeader, SendData, SendHash,
      ReceiveVerdict, HeaderMissing
  <2>2. CASE DownStep
    BY <2>2 DEF DownStep, Listen, SelectTimesOut, GiveUp, AcceptPeer, DownReceivesKey, SendKey,
      ReceiveSize, Resize, ReceiveChunkHeader, HeaderMissing, ReceiveData, ReceiveHash,
      SendVerdict, SaveFile
  <2>3. CASE Break  BY <2>3 DEF Break
  <2>4. CASE UNCHANGED vars  BY <2>4 DEF vars
  <2>5. QED  BY <2>1, <2>2, <2>3, <2>4 DEF Next
<1>8. link = "broken" => link' = "broken"
  <2>1. CASE UpStep
    BY <2>1 DEF Early, UpStep, MissingExtension, Connect, ConnectFails, SendKey, UpReceivesKey,
      UpReceivesNoKey, OpenFile, CannotOpen, SendSize, ReadFile, SendChunkHeader, SendData, SendHash,
      ReceiveVerdict, HeaderMissing
  <2>2. CASE DownStep
    BY <2>2 DEF DownStep, Listen, SelectTimesOut, GiveUp, AcceptPeer, DownReceivesKey, SendKey,
      ReceiveSize, Resize, ReceiveChunkHeader, HeaderMissing, ReceiveData, ReceiveHash,
      SendVerdict, SaveFile
  <2>3. CASE Break  BY <2>3 DEF Break
  <2>4. CASE UNCHANGED vars  BY <2>4 DEF vars
  <2>5. QED  BY <2>1, <2>2, <2>3, <2>4 DEF Next
<1>9. \A e \in Ends : pc[e] = "done" => pc'[e] = "done"
  <2>1. CASE UpStep
    BY <2>1 DEF UpStep, MissingExtension, Connect, ConnectFails, SendKey, UpReceivesKey,
      UpReceivesNoKey, OpenFile, CannotOpen, SendSize, ReadFile, SendChunkHeader, SendData, SendHash,
      ReceiveVerdict, HeaderMissing
  <2>2. CASE DownStep
    BY <2>2 DEF DownStep, Listen, SelectTimesOut, GiveUp, AcceptPeer, DownReceivesKey, SendKey,
      ReceiveSize, Resize, ReceiveChunkHeader, HeaderMissing, ReceiveData, ReceiveHash,
      SendVerdict, SaveFile
  <2>3. CASE Break  BY <2>3 DEF Break
  <2>4. CASE UNCHANGED vars  BY <2>4 DEF vars
  <2>5. QED  BY <2>1, <2>2, <2>3, <2>4 DEF Next
<1>10. link # "accepted" /\ link' = "accepted" => AcceptPeer
  <2>1. CASE UpStep
    BY <2>1 DEF UpStep, MissingExtension, Connect, ConnectFails, SendKey, UpReceivesKey,
      UpReceivesNoKey, OpenFile, CannotOpen, SendSize, ReadFile, SendChunkHeader, SendData, SendHash,
      ReceiveVerdict, HeaderMissing
  <2>2. CASE DownStep
    BY <2>2 DEF DownStep, Listen, SelectTimesOut, GiveUp, AcceptPeer, DownReceivesKey, SendKey,
      ReceiveSize, Resize, ReceiveChunkHeader, HeaderMissing, ReceiveData, ReceiveHash,
      SendVerdict, SaveFile
  <2>3. CASE Break  BY <2>3 DEF Break
  <2>4. CASE UNCHANGED vars  BY <2>4 DEF vars
  <2>5. QED  BY <2>1, <2>2, <2>3, <2>4 DEF Next
<1>11. pc["down"] = "timeout" => pc'["down"] \in {"timeout", "done"}
  <2>1. CASE UpStep
    BY <2>1 DEF UpStep, MissingExtension, Connect, ConnectFails, SendKey, UpReceivesKey,
      UpReceivesNoKey, OpenFile, CannotOpen, SendSize, ReadFile, SendChunkHeader, SendData, SendHash,
      ReceiveVerdict, HeaderMissing
  <2>2. CASE DownStep
    BY <2>2 DEF DownStep, Listen, SelectTimesOut, GiveUp, AcceptPeer, DownReceivesKey, SendKey,
      ReceiveSize, Resize, ReceiveChunkHeader, HeaderMissing, ReceiveData, ReceiveHash,
      SendVerdict, SaveFile
  <2>3. CASE Break  BY <2>3 DEF Break
  <2>4. CASE UNCHANGED vars  BY <2>4 DEF vars
  <2>5. QED  BY <2>1, <2>2, <2>3, <2>4 DEF Next
<1>2. CASE link # "accepted" /\ \E e \in Ends : pc[e] = "done"
  <2>1. ~AcceptPeer
    BY <1>2 DEF AcceptPeer, Early
  <2>2. link' # "accepted" /\ \E e \in Ends : pc'[e] = "done"
    BY <1>2, <1>9, <1>10, <2>1
  <2>3. QED  BY <2>2 DEF Trouble
<1>3. CASE pc["down"] = "timeout"
  <2>1. link # "accepted" /\ ~AcceptPeer  BY <1>3 DEF Early, AcceptPeer
  <2>2. QED  BY <1>3, <1>10, <1>11, <2>1 DEF Trouble
<1>4. CASE \/ cut \/ link = "broken" \/ keys # "agree" \/ file = Absent
           \/ file \notin 1 .. (Word \div 2 - 1)
  BY <1>4, <1>6, <1>7, <1>8 DEF Trouble
<1>5. QED  BY <1>2, <1>3, <1>4 DEF Trouble

(* Until the downloader accepts, the uploader waits for its key.           *)
LEMMA EarlyStays == TInv /\ Early /\ [Next]_vars => Early'
<1> SUFFICES ASSUME TInv, Early, [Next]_vars PROVE Early'
  OBVIOUS
<1> USE DEF TInv, FileTransferTypeOK, Ends, given, uploading, downloading, Goto, Leave, Return,
          Die, FailWithHeader, sendHeader, Early
<1>1. CASE UpStep
  <2>1. pc'["down"] = pc["down"]
    BY <1>1 DEF UpStep, MissingExtension, Connect, ConnectFails, SendKey, UpReceivesKey,
      UpReceivesNoKey, OpenFile, CannotOpen, SendSize, ReadFile, SendChunkHeader, SendData, SendHash,
      ReceiveVerdict, HeaderMissing
  <2>2. wire["up"] = <<>> => wire'["up"] = <<>> /\ ~UpReceivesKey
    BY <1>1 DEF UpStep, MissingExtension, Connect, ConnectFails, SendKey, UpReceivesKey,
      UpReceivesNoKey, OpenFile, CannotOpen, SendSize, ReadFile, SendChunkHeader, SendData, SendHash,
      ReceiveVerdict, HeaderMissing, send, recv, Other
  <2>3. CASE Connect
    BY <2>1, <2>2, <2>3 DEF Connect
  <2>4. CASE ~Connect
    <3>1. link' = link /\ pc'["up"] # "connect"
      BY <1>1, <2>4 DEF UpStep, MissingExtension, Connect, ConnectFails, SendKey, UpReceivesKey,
        UpReceivesNoKey, OpenFile, CannotOpen, SendSize, ReadFile, SendChunkHeader, SendData,
        SendHash, ReceiveVerdict, HeaderMissing
    <3>2. ASSUME pc["down"] \in {"select", "timeout"}, link = "queued"
          PROVE  pc'["up"] \in {"key", "peerKey"} /\ open' = Ends
      <4>1. SendKey("up")
        BY <1>1, <2>2, <2>4, <3>2
           DEF UpStep, MissingExtension, Connect, ConnectFails, SendKey,
               UpReceivesNoKey, OpenFile, CannotOpen, SendSize, ReadFile, SendChunkHeader, SendData,
               SendHash, ReceiveVerdict, HeaderMissing, RecvFails, Closed, Other
      <4>2. QED  BY <3>2, <4>1 DEF SendKey
    <3>3. QED  BY <2>1, <2>2, <3>1, <3>2
  <2>5. QED  BY <2>3, <2>4
<1>2. CASE DownStep
  <2>1. pc'["up"] = pc["up"]
    BY <1>2, DownOutcome
       DEF DownStep, Listen, SelectTimesOut, GiveUp, AcceptPeer, DownReceivesKey, SendKey,
      ReceiveSize, Resize, ReceiveChunkHeader, HeaderMissing, ReceiveData, ReceiveHash,
      SendVerdict, SaveFile
  <2>2. CASE Listen  BY <2>1, <2>2 DEF Listen
  <2>3. CASE SelectTimesOut  BY <2>1, <2>3 DEF SelectTimesOut
  <2>4. CASE AcceptPeer  BY <2>1, <2>4 DEF AcceptPeer
  <2>5. CASE ~(Listen \/ SelectTimesOut \/ AcceptPeer)
    <3>1. pc'["down"] \notin {"listen", "select", "timeout"} /\ link' = link
      BY <1>2, <2>5
         DEF DownStep, GiveUp, DownReceivesKey, SendKey, ReceiveSize, Resize, ReceiveChunkHeader,
             HeaderMissing, ReceiveData, ReceiveHash, SendVerdict, SaveFile
    <3>2. QED  BY <2>1, <3>1
  <2>6. QED  BY <2>2, <2>3, <2>4, <2>5
<1>3. CASE Break  BY <1>3 DEF Break
<1>4. CASE UNCHANGED vars  BY <1>4 DEF vars
<1>5. QED  BY <1>1, <1>2, <1>3, <1>4 DEF Next

(* Between 1 byte and 2 GB the size that is announced is the size of the   *)
(* file, and no other is taken for it (ntohl, recvFileSize).               *)
LEMMA Swapped ==
    ASSUME file \in 1 .. (Word \div 2 - 1), file # Absent
    PROVE  offered = file /\ Announced = file /\ Misread # file
<1>1. Word \in Nat \ {0} /\ Word \div 2 \in Nat /\ (Word \div 2) * 2 <= Word /\ file \in Int
  BY Sizes, DivMod
<1>2. offered = file
  <2>1. file \in -(Word \div 2) .. (Word \div 2) - 1  BY <1>1
  <2>2. QED  BY <2>1, SignedIs DEF offered
<1>3. Announced = file
  <2>1. htonl(file) \in Int  BY <1>1, SwapTwice, Sizes
  <2>2. Announced = htonl(Signed(Signed(htonl(file))))
    BY <1>2, <2>1, SignedSame, VectorSigned DEF Announced
  <2>3. Announced = htonl(htonl(file))
    BY <2>1, <2>2, SignedSame
  <2>4. file \in 0 .. Word - 1  BY <1>1
  <2>5. QED  BY <1>1, <2>3, <2>4, SwapTwice, SmallMod
<1>4. Misread = Word - 1
  <2> DEFINE d == Base - 1
  <2>1. d \in Byte /\ Base \in Nat \ {0}  BY Sizes DEF Byte
  <2>2. WordOf(<<d, d, d, d>>) = Word - 1
    BY Sizes DEF WordOf, Word, Short
  <2> HIDE DEF d
  <2>3. -1 \in Int /\ -1 = WordOf(<<d, d, d, d>>) + (-1) * Word
    BY <1>1, <2>2
  <2> DEFINE m == -1
  <2>4. m \in Int /\ m = WordOf(<<d, d, d, d>>) + m * Word
    BY <2>3
  <2> HIDE DEF m
  <2>5. int32ToVector(m) = <<d, d, d, d>>
    BY <2>1, <2>4, DigitsOf
  <2>6. htonl(m) = Word - 1
    BY <2>2, <2>5 DEF htonl
  <2>7. QED  BY <2>6 DEF Misread, vectorToInt32, m
<1>5. QED  BY <1>1, <1>2, <1>3, <1>4

(* What the absence of trouble means.                                      *)
LEMMA Calm ==
    ASSUME TInv, ~Trouble
    PROVE  /\ cut = FALSE /\ link # "broken" /\ keys = "agree" /\ file # Absent /\ file \in Nat
           /\ file >= 1 /\ offered = file /\ Announced = file /\ Misread # file
           /\ \A e \in Ends : pc[e] = "done" => link = "accepted"
           /\ pc["down"] # "timeout"
BY Swapped, Sizes DEF Trouble, TInv, FileTransferTypeOK

(* The messages of the uploader follow each other in its stream.           *)
LEMMA Marks ==
    ASSUME TInv, ~Trouble
    PROVE  /\ KeyEnd \in Nat /\ KeyEnd > 0 /\ KeyEnd = KeyLen
           /\ SizeEnd \in Nat /\ SizeEnd = KeyEnd + SizeLen /\ SizeEnd > KeyEnd
           /\ ChunkEnd \in Nat /\ ChunkEnd = SizeEnd + HeaderLen /\ ChunkEnd > SizeEnd
           /\ FileEnd \in Nat /\ FileEnd = ChunkEnd + (file + Overhead) /\ FileEnd > ChunkEnd
           /\ HashEnd \in Nat /\ HashEnd = FileEnd + HashLen /\ HashEnd > FileEnd
           /\ KeyLen \in Nat \ {0} /\ SizeLen \in Nat \ {0} /\ HeaderLen \in Nat \ {0}
           /\ HashLen \in Nat \ {0} /\ Overhead \in Nat \ {0}
<1>1. /\ KeyLen \in Nat \ {0} /\ SizeLen \in Nat \ {0} /\ HeaderLen \in Nat \ {0}
      /\ HashLen \in Nat \ {0} /\ Overhead \in Nat \ {0}
  BY FileTransferAssumption
<1>2. offered = file /\ file \in Nat
  BY Calm
<1> HIDE DEF offered
<1>3. QED  BY <1>1, <1>2 DEF KeyEnd, SizeEnd, ChunkEnd, FileEnd, HashEnd

(* The streams do not change on the way.                                   *)
LEMMA MarksStay ==
    ASSUME UNCHANGED file
    PROVE  UNCHANGED <<offered, KeyEnd, SizeEnd, ChunkEnd, FileEnd, HashEnd, UpStream, DownStream>>
<1>1. offered' = offered  BY DEF offered
<1> HIDE DEF offered
<1>2. UNCHANGED <<KeyEnd, SizeEnd, ChunkEnd, FileEnd, HashEnd>>
  BY <1>1 DEF KeyEnd, SizeEnd, ChunkEnd, FileEnd, HashEnd
<1>3. QED  BY <1>1, <1>2 DEF UpStream, DownStream

(* The units that a window shows.                                          *)
LEMMA WindowIs ==
    ASSUME NEW S, NEW f \in [Nat -> S], NEW a \in Nat, NEW b \in Nat, a <= b
    PROVE  /\ Window(f, a, b) \in Seq(S) /\ Len(Window(f, a, b)) = b - a
           /\ \A i \in 1 .. b - a : Window(f, a, b)[i] = f[a + i]
BY DEF Window

(* A function on 1..n is a sequence.                                       *)
LEMMA ListOf ==
    ASSUME NEW S, NEW n \in Nat, NEW s \in [1..n -> S]
    PROVE  s \in Seq(S) /\ Len(s) = n
BY SMT

(* The elements of two sequences put together.                             *)
LEMMA CatIs ==
    ASSUME NEW S, NEW s \in Seq(S), NEW t \in Seq(S)
    PROVE  /\ s \o t \in Seq(S) /\ Len(s \o t) = Len(s) + Len(t)
           /\ \A i \in 1 .. Len(s) : (s \o t)[i] = s[i]
           /\ \A i \in 1 .. Len(t) : (s \o t)[Len(s) + i] = t[i]
BY SMT

(* Sequences with the same elements are equal.                             *)
LEMMA SeqsEqual ==
    ASSUME NEW S, NEW s \in Seq(S), NEW t \in Seq(S), Len(s) = Len(t),
           \A i \in 1 .. Len(s) : s[i] = t[i]
    PROVE  s = t
BY SMT

(* the n units that follow f[b] are an x *)
Carries(f, b, x, n) == \A i \in 1..n : f[b + i] = <<x, i>>

Followed(s, x, n) == s \o Units(x, n)

(* To send the next message is to extend the window.                       *)
LEMMA WindowSend ==
    ASSUME NEW f \in [Nat -> Unit], NEW a \in Nat, NEW b \in Nat, a <= b,
           NEW n \in Nat, NEW x, Carries(f, b, x, n)
    PROVE  Followed(Window(f, a, b), x, n) = Window(f, a, b + n)
<1>0. \A i \in 1..n : f[b + i] = <<x, i>>  BY DEF Carries
<1> DEFINE v == Window(f, a, b)
           u == Units(x, n)
           w == Window(f, a, b + n)
<1>1. v \in Seq(Unit) /\ Len(v) = b - a /\ \A i \in 1 .. b - a : v[i] = f[a + i]
  BY WindowIs, ZenonT(40)
<1>2. w \in Seq(Unit) /\ Len(w) = b + n - a /\ \A i \in 1 .. b + n - a : w[i] = f[a + i]
  <2>1. \A c \in Nat : a <= c =>
          /\ Window(f, a, c) \in Seq(Unit) /\ Len(Window(f, a, c)) = c - a
          /\ \A i \in 1 .. c - a : Window(f, a, c)[i] = f[a + i]
    BY WindowIs
  <2>2. b + n \in Nat /\ a <= b + n  OBVIOUS
  <2>3. QED  BY <2>1, <2>2, SMTT(30)
<1>3. u \in Seq(Unit) /\ Len(u) = n /\ \A i \in 1..n : u[i] = f[b + i]
  <2>0. \A i \in 1..n : f[b + i] \in Unit /\ <<x, i>> = f[b + i]  BY <1>0
  <2>1. u \in [1..n -> Unit] /\ \A i \in 1..n : u[i] = f[b + i]
    BY <2>0 DEF Units
  <2> HIDE DEF u
  <2>2. \A s \in [1..n -> Unit] : s \in Seq(Unit) /\ Len(s) = n
    BY ListOf
  <2>3. QED  BY <2>1, <2>2
<1> HIDE DEF v, u, w
<1>4. /\ v \o u \in Seq(Unit) /\ Len(v \o u) = b + n - a
      /\ \A i \in 1 .. b - a : (v \o u)[i] = v[i]
      /\ \A i \in 1 .. n : (v \o u)[b - a + i] = u[i]
  <2>1. v \in Seq(Unit) /\ u \in Seq(Unit) /\ Len(v) = b - a /\ Len(u) = n
    BY <1>1, <1>3
  <2>2. /\ v \o u \in Seq(Unit) /\ Len(v \o u) = Len(v) + Len(u)
        /\ \A i \in 1 .. Len(v) : (v \o u)[i] = v[i]
        /\ \A i \in 1 .. Len(u) : (v \o u)[Len(v) + i] = u[i]
    <3>1. \A s, t \in Seq(Unit) :
            /\ s \o t \in Seq(Unit) /\ Len(s \o t) = Len(s) + Len(t)
            /\ \A i \in 1 .. Len(s) : (s \o t)[i] = s[i]
            /\ \A i \in 1 .. Len(t) : (s \o t)[Len(s) + i] = t[i]
      BY CatIs
    <3>2. QED  BY <2>1, <3>1
  <2>3. QED  BY <2>1, <2>2
<1>5. \A i \in 1 .. b + n - a : (v \o u)[i] = w[i]
  <2> SUFFICES ASSUME NEW i \in 1 .. b + n - a PROVE (v \o u)[i] = w[i]
    OBVIOUS
  <2>1. CASE i <= b - a
    BY <1>1, <1>2, <1>4, <2>1
  <2>2. CASE i > b - a
    <3> DEFINE j == i - (b - a)
    <3>1. j \in 1..n  BY <2>2
    <3>0. b + j = a + i /\ b - a + j = i  OBVIOUS
    <3> HIDE DEF j
    <3>2. (v \o u)[i] = u[j]  BY <1>4, <3>0, <3>1
    <3>3. QED  BY <1>2, <1>3, <3>0, <3>1, <3>2
  <2>3. i <= b - a \/ i > b - a  OBVIOUS
  <2>4. QED  BY <2>1, <2>2, <2>3, Zenon
<1>6. v \o u = w  BY <1>2, <1>4, <1>5, SeqsEqual
<1>7. QED  BY <1>6 DEF v, u, w, Followed

(* what a recv of k units leaves of a stream, and what it returns *)
Remainder(s, k) == SubSeq(s, k + 1, Len(s))
Beginning(s, k) == SubSeq(s, 1, k)
Piece(f, a, k) == [i \in 1..k |-> f[a + i]]

(* To receive is to take units off the window.                             *)
LEMMA WindowRecv ==
    ASSUME NEW f \in [Nat -> Unit], NEW a \in Nat, NEW b \in Nat, a <= b,
           NEW k \in 1 .. b - a
    PROVE  /\ Remainder(Window(f, a, b), k) = Window(f, a + k, b)
           /\ Beginning(Window(f, a, b), k) = Piece(f, a, k)
<1> DEFINE v == Window(f, a, b)
           w == Window(f, a + k, b)
           u == [i \in 1..k |-> f[a + i]]
<1>1. v \in Seq(Unit) /\ Len(v) = b - a /\ \A i \in 1 .. b - a : v[i] = f[a + i]
  BY WindowIs
<1>2. w \in Seq(Unit) /\ Len(w) = b - (a + k) /\ \A i \in 1 .. b - (a + k) : w[i] = f[a + k + i]
  <2>1. a + k \in Nat /\ a + k <= b  OBVIOUS
  <2>2. QED  BY <2>1, WindowIs, ZenonT(40)
<1>3. u \in Seq(Unit) /\ Len(u) = k /\ \A i \in 1..k : u[i] = f[a + i]
  OBVIOUS
<1> HIDE DEF v, u, w
<1>4. /\ SubSeq(v, k + 1, b - a) \in Seq(Unit) /\ Len(SubSeq(v, k + 1, b - a)) = b - (a + k)
      /\ \A i \in 1 .. b - (a + k) : SubSeq(v, k + 1, b - a)[i] = v[k + i]
  BY <1>1
<1>5. /\ SubSeq(v, 1, k) \in Seq(Unit) /\ Len(SubSeq(v, 1, k)) = k
      /\ \A i \in 1..k : SubSeq(v, 1, k)[i] = v[i]
  BY <1>1
<1>6. \A i \in 1 .. b - (a + k) : v[k + i] = f[a + k + i]
  BY <1>1
<1>7. SubSeq(v, k + 1, b - a) = w
  BY <1>2, <1>4, <1>6, SeqsEqual
<1>8. SubSeq(v, 1, k) = u
  BY <1>1, <1>3, <1>5, SeqsEqual
<1>9. QED  BY <1>1, <1>7, <1>8 DEF v, u, w, Remainder, Beginning, Piece

(* What each end sends, unit by unit.                                      *)
LEMMA Streams ==
    ASSUME TInv, ~Trouble
    PROVE  /\ UpStream \in [Nat -> Unit] /\ DownStream \in [Nat -> Unit]
           /\ Carries(UpStream, 0, "key", KeyLen) /\ Carries(DownStream, 0, "key", KeyLen)
           /\ Carries(UpStream, KeyEnd, "size", SizeLen)
           /\ Carries(UpStream, SizeEnd, "chunk", HeaderLen)
           /\ Carries(DownStream, KeyEnd, "success", HeaderLen)
           /\ Carries(UpStream, ChunkEnd, "file", file + Overhead)
           /\ Carries(UpStream, FileEnd, "hash", HashLen)
<1> DEFINE A == KeyEnd
           B == SizeEnd
           C == ChunkEnd
           D == FileEnd
<1>1. /\ A \in Nat /\ A = KeyLen /\ B \in Nat /\ B = A + SizeLen
      /\ C \in Nat /\ C = B + HeaderLen /\ D \in Nat /\ D = C + (file + Overhead)
      /\ KeyLen \in Nat /\ SizeLen \in Nat /\ HeaderLen \in Nat /\ HashLen \in Nat
      /\ file + Overhead \in Nat
  BY Marks, Calm
<1>2. /\ UpStream = [i \in Nat |->
                IF i <= A THEN <<"key", i>> ELSE IF i <= B THEN <<"size", i - A>>
                ELSE IF i <= C THEN <<"chunk", i - B>> ELSE IF i <= D THEN <<"file", i - C>>
                ELSE <<"hash", i - D>>]
      /\ DownStream = [i \in Nat |-> IF i <= A THEN <<"key", i>> ELSE <<"success", i - A>>]
  BY DEF UpStream, DownStream
<1> HIDE DEF A, B, C, D
<1>3. UpStream \in [Nat -> Unit] /\ DownStream \in [Nat -> Unit]
  <2>1. ASSUME NEW i \in Nat
        PROVE  /\ (IF i <= A THEN <<"key", i>> ELSE IF i <= B THEN <<"size", i - A>>
                   ELSE IF i <= C THEN <<"chunk", i - B>> ELSE IF i <= D THEN <<"file", i - C>>
                   ELSE <<"hash", i - D>>) \in Unit
               /\ (IF i <= A THEN <<"key", i>> ELSE <<"success", i - A>>) \in Unit
    <3>1. /\ i > A => i - A \in Nat
          /\ i > B => i - B \in Nat
          /\ i > C => i - C \in Nat
          /\ i > D => i - D \in Nat
      BY <1>1
    <3>2. /\ <<"key", i>> \in Unit
          /\ i > A => <<"size", i - A>> \in Unit /\ <<"success", i - A>> \in Unit
          /\ i > B => <<"chunk", i - B>> \in Unit
          /\ i > C => <<"file", i - C>> \in Unit
          /\ i > D => <<"hash", i - D>> \in Unit
      BY <3>1 DEF Unit
    <3>3. QED  BY <1>1, <3>2
  <2>2. QED  BY <1>2, <2>1
<1>4. /\ \A i \in 1 .. KeyLen : UpStream[0 + i] = <<"key", i>> /\ DownStream[0 + i] = <<"key", i>>
      /\ \A i \in 1 .. SizeLen : UpStream[A + i] = <<"size", i>>
  BY <1>1, <1>2
<1>5. \A i \in 1 .. HeaderLen : /\ UpStream[B + i] = <<"chunk", i>>
                                /\ DownStream[A + i] = <<"success", i>>
  BY <1>1, <1>2
<1>6. \A i \in 1 .. file + Overhead : UpStream[C + i] = <<"file", i>>
  BY <1>1, <1>2
<1>7. \A i \in 1 .. HashLen : UpStream[D + i] = <<"hash", i>>
  BY <1>1, <1>2
<1>8. QED  BY <1>3, <1>4, <1>5, <1>6, <1>7 DEF A, B, C, D, Carries

Fine == TInv /\ Early /\ Good /\ ~Trouble

(* How far each end can have come.                                         *)
LEMMA Numbered ==
    ASSUME Fine
    PROVE  /\ UpSent \in Nat /\ DownRead \in Nat /\ DownRead <= UpSent
           /\ DownSent \in Nat /\ UpRead \in Nat /\ UpRead <= DownSent
           /\ pc["up"] \notin {"verdict", "done"} => UpSent < HashEnd
           /\ pc["down"] \in {"accept", "save", "done"} => DownRead = HashEnd
           /\ UpRead = KeyEnd + HeaderLen => pc["up"] = "done"
           /\ DownSent = KeyEnd + HeaderLen => pc["down"] \in {"save", "done"}
<1>1. TInv /\ ~Trouble /\ Good  BY DEF Fine
<1>2. UpRead <= DownSent /\ DownRead <= UpSent  BY <1>1 DEF Good, InStep
<1>3. /\ KeyEnd \in Nat /\ SizeEnd \in Nat /\ ChunkEnd \in Nat /\ FileEnd \in Nat /\ HashEnd \in Nat
      /\ 0 < KeyEnd /\ KeyEnd < SizeEnd /\ SizeEnd < ChunkEnd /\ ChunkEnd < FileEnd
      /\ FileEnd < HashEnd /\ HeaderLen \in Nat /\ HeaderLen > 0
  BY <1>1, Marks
<1>4. UpSent \in Nat /\ (pc["up"] \notin {"verdict", "done"} => UpSent < HashEnd)
  BY <1>1, <1>3 DEF UpSent, TInv, FileTransferTypeOK, UpPC, Good
<1>5. DownRead \in Nat /\ (pc["down"] \in {"accept", "save", "done"} => DownRead = HashEnd)
  BY <1>3 DEF DownRead
<1>6. DownSent \in Nat /\ (DownSent = KeyEnd + HeaderLen => pc["down"] \in {"save", "done"})
  BY <1>3 DEF DownSent
<1>7. UpRead \in Nat /\ (UpRead = KeyEnd + HeaderLen <=> pc["up"] = "done")
      /\ (pc["down"] \notin {"save", "done"} => DownSent <= KeyEnd)
  BY <1>3 DEF UpRead, DownSent
<1>8. QED  BY <1>2, <1>4, <1>5, <1>6, <1>7

(* What upload() sends without trouble.                                    *)
LEMMA UpSends ==
    ASSUME Fine, NEW n \in Nat, NEW x, "down" \in open, send("up", Units(x, n)),
           Carries(UpStream, UpSent, x, n)
    PROVE  /\ wire'["down"] = Window(UpStream, DownRead, UpSent + n)
           /\ wire'["up"] = wire["up"]
<1>1. wire \in [Ends -> Seq(Unit)] /\ wire["down"] = Window(UpStream, DownRead, UpSent)
  BY DEF Fine, TInv, FileTransferTypeOK, Good, InStep
<1>2. wire'["down"] = wire["down"] \o Units(x, n) /\ wire'["up"] = wire["up"]
  BY <1>1 DEF send, Other, Ends
<1>3. UpStream \in [Nat -> Unit] /\ UpSent \in Nat /\ DownRead \in Nat /\ DownRead <= UpSent
  BY Streams, Numbered DEF Fine
<1>4. Followed(Window(UpStream, DownRead, UpSent), x, n) = Window(UpStream, DownRead, UpSent + n)
  BY <1>3, WindowSend
<1>5. QED  BY <1>1, <1>2, <1>4 DEF Followed

(* What download() sends without trouble.                                  *)
LEMMA DownSends ==
    ASSUME Fine, NEW n \in Nat, NEW x, "up" \in open, send("down", Units(x, n)),
           Carries(DownStream, DownSent, x, n)
    PROVE  /\ wire'["up"] = Window(DownStream, UpRead, DownSent + n)
           /\ wire'["down"] = wire["down"]
<1>1. wire \in [Ends -> Seq(Unit)] /\ wire["up"] = Window(DownStream, UpRead, DownSent)
  BY DEF Fine, TInv, FileTransferTypeOK, Good, InStep
<1>2. wire'["up"] = wire["up"] \o Units(x, n) /\ wire'["down"] = wire["down"]
  BY <1>1 DEF send, Other, Ends
<1>3. DownStream \in [Nat -> Unit] /\ DownSent \in Nat /\ UpRead \in Nat /\ UpRead <= DownSent
  BY Streams, Numbered DEF Fine
<1>4. Followed(Window(DownStream, UpRead, DownSent), x, n) = Window(DownStream, UpRead, DownSent + n)
  BY <1>3, WindowSend
<1>5. QED  BY <1>1, <1>2, <1>4 DEF Followed

(* What upload() receives without trouble.                                 *)
LEMMA UpReads ==
    ASSUME Fine, NEW n \in Nat, NEW k, recv("up", n, k)
    PROVE  /\ k \in 1..n /\ UpRead + k <= DownSent
           /\ wire'["up"] = Window(DownStream, UpRead + k, DownSent)
           /\ Beginning(wire["up"], k) = Piece(DownStream, UpRead, k)
           /\ wire'["down"] = wire["down"]
<1>1. wire \in [Ends -> Seq(Unit)] /\ wire["up"] = Window(DownStream, UpRead, DownSent)
  BY DEF Fine, TInv, FileTransferTypeOK, Good, InStep
<1>2. /\ k \in 1..n /\ k <= Len(wire["up"]) /\ wire'["down"] = wire["down"]
      /\ wire'["up"] = SubSeq(wire["up"], k + 1, Len(wire["up"]))
  BY <1>1 DEF recv, Ends
<1>3. DownStream \in [Nat -> Unit] /\ DownSent \in Nat /\ UpRead \in Nat /\ UpRead <= DownSent
  BY Streams, Numbered DEF Fine
<1>4. Len(wire["up"]) = DownSent - UpRead
  BY <1>1, <1>3, WindowIs
<1>5. k \in 1 .. DownSent - UpRead
  BY <1>2, <1>3, <1>4
<1>6. /\ Remainder(wire["up"], k) = Window(DownStream, UpRead + k, DownSent)
      /\ Beginning(wire["up"], k) = Piece(DownStream, UpRead, k)
  BY <1>1, <1>3, <1>5, WindowRecv
<1>7. QED  BY <1>2, <1>3, <1>4, <1>5, <1>6 DEF Remainder

(* What download() receives without trouble.                               *)
LEMMA DownReads ==
    ASSUME Fine, NEW n \in Nat, NEW k, recv("down", n, k)
    PROVE  /\ k \in 1..n /\ DownRead + k <= UpSent /\ Len(wire["down"]) = UpSent - DownRead
           /\ wire'["down"] = Window(UpStream, DownRead + k, UpSent)
           /\ Beginning(wire["down"], k) = Piece(UpStream, DownRead, k)
           /\ wire'["up"] = wire["up"]
<1>1. wire \in [Ends -> Seq(Unit)] /\ wire["down"] = Window(UpStream, DownRead, UpSent)
  BY DEF Fine, TInv, FileTransferTypeOK, Good, InStep
<1>2. /\ k \in 1..n /\ k <= Len(wire["down"]) /\ wire'["up"] = wire["up"]
      /\ wire'["down"] = SubSeq(wire["down"], k + 1, Len(wire["down"]))
  BY <1>1 DEF recv, Ends
<1>3. UpStream \in [Nat -> Unit] /\ UpSent \in Nat /\ DownRead \in Nat /\ DownRead <= UpSent
  BY Streams, Numbered DEF Fine
<1>4. Len(wire["down"]) = UpSent - DownRead
  BY <1>1, <1>3, WindowIs
<1>5. k \in 1 .. UpSent - DownRead
  BY <1>2, <1>3, <1>4
<1>6. /\ Remainder(wire["down"], k) = Window(UpStream, DownRead + k, UpSent)
      /\ Beginning(wire["down"], k) = Piece(UpStream, DownRead, k)
  BY <1>1, <1>3, <1>5, WindowRecv
<1>7. QED  BY <1>2, <1>3, <1>4, <1>5, <1>6 DEF Remainder

(* A message is received as it was sent.                                   *)
LEMMA PieceIs ==
    ASSUME NEW f, NEW a, NEW x, NEW k, Carries(f, a, x, k)
    PROVE  Piece(f, a, k) = Units(x, k)
BY DEF Carries, Piece, Units

(* Messages of different kinds differ.                                     *)
LEMMA UnitsDiffer ==
    ASSUME NEW n \in Nat \ {0}, NEW x, NEW y, x # y
    PROVE  Units(x, n) # Units(y, n)
<1>1. Units(x, n)[1] = <<x, 1>> /\ Units(y, n)[1] = <<y, 1>>
  BY DEF Units
<1>2. QED  BY <1>1

(* A step of upload() leaves the downloader where it is.                   *)
LEMMA StayDown ==
    ASSUME UNCHANGED file, pc'["down"] = pc["down"]
    PROVE  UNCHANGED <<DownRead, DownSent>>
BY MarksStay DEF DownRead, DownSent

(* A step of download() leaves the uploader where it is.                   *)
LEMMA StayUp ==
    ASSUME UNCHANGED file, pc'["up"] = pc["up"]
    PROVE  UNCHANGED <<UpRead, UpSent>>
BY MarksStay DEF UpRead, UpSent

(* Without trouble nobody closes the connection on the other.              *)
LEMMA OpenEnds ==
    ASSUME Fine
    PROVE  /\ pc["up"] \notin {"connect", "verdict", "done"} => "down" \in open
           /\ pc["down"] \notin {"listen", "select", "save", "done"} => "up" \in open
           /\ pc["down"] \in {"listen", "select"} => pc["up"] \in {"connect", "key", "peerKey"}
           /\ pc["up"] \notin {"connect", "key", "peerKey"} => link = "accepted"
<1>1. Good /\ TInv /\ ~Trouble  BY DEF Fine
<1>2. ASSUME pc["up"] \notin {"connect", "verdict", "done"} PROVE "down" \in open
  <2>1. UpSent < HashEnd /\ DownRead # HashEnd
    BY <1>1, <1>2, Numbered, Marks
  <2>2. pc["down"] \notin {"save", "done"}
    BY <2>1, Numbered
  <2>3. QED  BY <1>1, <1>2, <2>2 DEF Good
<1>3. ASSUME pc["down"] \in {"listen", "select"} PROVE pc["up"] \in {"connect", "key", "peerKey"}
  <2>1. DownSent = 0 /\ UpRead <= DownSent
    BY <1>1, <1>3 DEF DownSent, Good, InStep
  <2>2. UpRead \in {0, KeyEnd, KeyEnd + HeaderLen} /\ KeyEnd \in Nat /\ KeyEnd > 0
        /\ HeaderLen \in Nat
    BY <1>1, Marks DEF UpRead
  <2>3. UpRead = 0  BY <2>1, <2>2
  <2>4. QED  BY <2>2, <2>3 DEF UpRead
<1>4. ASSUME pc["down"] \notin {"listen", "select", "save", "done"} PROVE "up" \in open
  <2>1. pc["up"] # "connect"
    BY <1>1, <1>4 DEF Good
  <2>2. pc["up"] # "done"
    BY <1>1, <1>4, Marks DEF Good, InStep, UpRead, DownSent
  <2>3. QED  BY <1>1, <2>1, <2>2 DEF Good
<1>5. ASSUME pc["up"] \notin {"connect", "key", "peerKey"} PROVE link = "accepted"
  BY <1>1, <1>3, <1>5 DEF Good
<1>6. QED  BY <1>2, <1>3, <1>4, <1>5

(* What a step of upload() must keep for the two ends to stay in step.     *)
LEMMA UpMoves ==
    ASSUME Fine, UNCHANGED <<file, want, got, link>>, pc'["down"] = pc["down"],
           status'["down"] = status["down"], pc["up"] # "connect",
           pc'["up"] \notin {"connect", "dead"}, "up" \in open' <=> pc'["up"] # "done",
           "down" \in open' <=> "down" \in open,
           pc'["up"] \in {"header", "data"} => left' = offered + Overhead,
           pc'["up"] = "done" => status'["up"] = "SUCCESS",
           DownRead <= UpSent', wire'["down"] = Window(UpStream, DownRead, UpSent'),
           UpRead' <= DownSent, wire'["up"] = Window(DownStream, UpRead', DownSent)
    PROVE  Good'
<1>1. UNCHANGED <<offered, UpStream, DownStream, DownRead, DownSent>>
  BY MarksStay, StayDown
<1>2. InStep'
  BY <1>1 DEF InStep
<1>3. QED  BY <1>1, <1>2 DEF Fine, Good

(* upload() stays in step with download() unless there is trouble.         *)
LEMMA GoodUp ==
    ASSUME Fine, UpStep, ~Trouble'
    PROVE  Good'
<1> USE DEF given, uploading, downloading, Goto, Leave, Return, Die
<1>0. /\ TInv /\ Good /\ ~Trouble /\ Early
      /\ pc \in [Ends -> UpPC \cup DownPC] /\ "up" \in Ends /\ "down" \in Ends
      /\ status \in [Ends -> Statuses] /\ pc["up"] \in UpPC /\ pc["down"] \in DownPC
      /\ wire["down"] = Window(UpStream, DownRead, UpSent)
      /\ wire["up"] = Window(DownStream, UpRead, DownSent)
      /\ DownRead <= UpSent /\ UpRead <= DownSent
  BY DEF Fine, TInv, FileTransferTypeOK, Ends, Good, InStep
<1>1. /\ link # "broken" /\ file # Absent /\ file \in Nat /\ offered = file
      /\ file >= 1 /\ pc["down"] # "timeout" /\ cut = FALSE
  BY <1>0, Calm
<1>2. pc["down"] \in DownPC \ {"timeout", "refuse", "dead"}
  BY <1>0 DEF Good
<1>3. ASSUME \E e \in Ends : pc'[e] = "done", link' # "accepted" PROVE FALSE
  BY <1>3 DEF Trouble
<1>4. CASE pc["up"] = "connect"
  <2>1. link = "none"  BY <1>0, <1>4 DEF Good
  <2>2. ~MissingExtension /\ ~ConnectFails
    BY <1>0, <1>3, <2>1 DEF MissingExtension, ConnectFails
  <2>3. Connect
    BY <1>4, <2>2 DEF UpStep, MissingExtension, Connect, ConnectFails, SendKey, UpReceivesKey,
         UpReceivesNoKey, OpenFile, CannotOpen, SendSize, ReadFile, SendChunkHeader, SendData,
         SendHash, ReceiveVerdict, HeaderMissing
  <2>4. /\ pc["down"] = "select" /\ pc'["up"] = "key" /\ pc'["down"] = "select"
        /\ link' = "queued" /\ open' = Ends /\ UNCHANGED <<file, wire, status, left, want, got>>
    BY <1>0, <1>1, <2>3 DEF Connect
  <2>5. UNCHANGED <<UpStream, DownStream, DownRead, DownSent>>
    BY <2>4, MarksStay, StayDown
  <2>6. UpSent = 0 /\ UpSent' = 0 /\ UpRead = 0 /\ UpRead' = 0
    BY <1>4, <2>4 DEF UpSent, UpRead
  <2>7. InStep'
    BY <1>0, <2>4, <2>5, <2>6 DEF InStep
  <2>8. QED  BY <1>0, <2>4, <2>7 DEF Good, Ends
<1>5. CASE pc["up"] # "connect"
  <2>0. /\ UNCHANGED <<file, want, got, link>> /\ pc'["down"] = pc["down"]
        /\ status'["down"] = status["down"] /\ ("up" \in open)
    <3>1. /\ UNCHANGED <<file, want, got, link>> /\ pc'["down"] = pc["down"]
          /\ status'["down"] = status["down"] /\ pc["up"] # "done"
      BY <1>0, <1>5
         DEF FailWithHeader, UpStep, MissingExtension, Connect, ConnectFails, SendKey, UpReceivesKey,
         UpReceivesNoKey, OpenFile, CannotOpen, SendSize, ReadFile, SendChunkHeader, SendData,
         SendHash, ReceiveVerdict, HeaderMissing
    <3>2. QED  BY <1>0, <1>5, <3>1 DEF Good
  <2>1. /\ UNCHANGED <<offered, KeyEnd, SizeEnd, ChunkEnd, FileEnd, HashEnd>>
        /\ KeyEnd = KeyLen /\ SizeEnd = KeyEnd + SizeLen /\ ChunkEnd = SizeEnd + HeaderLen
        /\ FileEnd = ChunkEnd + (file + Overhead) /\ HashEnd = FileEnd + HashLen
        /\ KeyEnd \in Nat /\ SizeEnd \in Nat /\ ChunkEnd \in Nat /\ FileEnd \in Nat
        /\ KeyLen \in Nat \ {0} /\ SizeLen \in Nat \ {0} /\ HeaderLen \in Nat \ {0}
        /\ HashLen \in Nat \ {0} /\ Overhead \in Nat \ {0}
    BY <1>0, <2>0, MarksStay, Marks
  <2>2. /\ Carries(UpStream, 0, "key", KeyLen) /\ Carries(UpStream, KeyEnd, "size", SizeLen)
        /\ Carries(UpStream, SizeEnd, "chunk", HeaderLen)
        /\ Carries(DownStream, KeyEnd, "success", HeaderLen)
        /\ Carries(UpStream, ChunkEnd, "file", file + Overhead)
        /\ Carries(UpStream, FileEnd, "hash", HashLen)
    BY <1>0, Streams
  <2>3. UpSent \in Nat /\ DownRead \in Nat /\ UpRead \in Nat /\ DownSent \in Nat
    BY Numbered
  <2>4. pc["up"] # "verdict" => "down" \in open /\ ~SendFails("up")
    BY <1>0, <1>1, <1>5, <2>0, OpenEnds DEF SendFails, Other, Good
  <2>5. CASE SendKey("up")
    <3>1. /\ pc["up"] = "key" /\ send("up", Units("key", KeyLen)) /\ pc'["up"] = "peerKey"
          /\ UNCHANGED <<open, left>>
      BY <1>0, <2>4, <2>5 DEF SendKey
    <3>2. UpSent = 0 /\ UpSent' = KeyEnd /\ UpRead' = UpRead
      BY <2>1, <3>1 DEF UpSent, UpRead
    <3>3. "down" \in open  BY <2>4, <3>1
    <3>4. /\ wire'["down"] = Window(UpStream, DownRead, UpSent')
          /\ wire'["up"] = Window(DownStream, UpRead', DownSent)
      BY <1>0, <2>1, <2>2, <3>1, <3>2, <3>3, UpSends
    <3>5. DownRead <= UpSent' /\ UpRead' <= DownSent
      BY <1>0, <1>1, <2>1, <2>3, <3>2
    <3>6. QED  BY <1>0, <2>0, <3>1, <3>3, <3>4, <3>5, UpMoves DEF Good
  <2>6. CASE UpReceivesKey
    <3>1. /\ pc["up"] = "peerKey" /\ recv("up", KeyLen, KeyLen) /\ pc'["up"] = "open"
          /\ UNCHANGED open
      BY <1>0, <2>6 DEF UpReceivesKey
    <3>2. UpSent' = UpSent /\ UpRead = 0 /\ UpRead' = 0 + KeyLen
      BY <2>1, <3>1 DEF UpSent, UpRead
    <3>3. /\ UpRead' <= DownSent /\ wire'["up"] = Window(DownStream, UpRead', DownSent)
          /\ wire'["down"] = wire["down"]
      BY <2>1, <3>1, <3>2, UpReads
    <3>4. QED  BY <1>0, <2>0, <3>1, <3>2, <3>3, UpMoves
  <2>7. CASE UpReceivesNoKey
    BY <1>0, <1>1, <2>4, <2>7 DEF UpReceivesNoKey, RecvFails, Closed, Other
  <2>8. CASE OpenFile
    <3>1. pc["up"] = "open" /\ pc'["up"] = "size" /\ UNCHANGED <<wire, open>>
      BY <1>0, <1>1, <2>8 DEF OpenFile
    <3>2. UpSent' = UpSent /\ UpRead' = UpRead
      BY <2>1, <3>1 DEF UpSent, UpRead
    <3>3. QED  BY <1>0, <2>0, <3>1, <3>2, UpMoves
  <2>9. CASE CannotOpen
    BY <1>1, <2>9 DEF CannotOpen
  <2>10. CASE SendSize
    <3>1. /\ pc["up"] = "size" /\ send("up", Units("size", SizeLen)) /\ pc'["up"] = "read"
          /\ UNCHANGED <<open, left>>
      BY <1>0, <2>4, <2>10 DEF SendSize
    <3>2. UpSent = KeyEnd /\ UpSent' = SizeEnd /\ UpRead' = UpRead
      BY <2>1, <3>1 DEF UpSent, UpRead
    <3>3. "down" \in open  BY <2>4, <3>1
    <3>4. /\ wire'["down"] = Window(UpStream, DownRead, UpSent')
          /\ wire'["up"] = Window(DownStream, UpRead', DownSent)
      BY <1>0, <2>1, <2>2, <3>1, <3>2, <3>3, UpSends
    <3>5. DownRead <= UpSent' /\ UpRead' <= DownSent
      BY <1>0, <1>1, <2>1, <2>3, <3>2
    <3>6. QED  BY <1>0, <2>0, <3>1, <3>3, <3>4, <3>5, UpMoves DEF Good
  <2>11. CASE ReadFile
    <3>1. ~cut'  BY DEF Trouble
    <3>2. /\ pc["up"] = "read" /\ pc'["up"] = "header" /\ UNCHANGED <<wire, open>>
          /\ left' = offered + Overhead
      BY <1>0, <2>11, <3>1 DEF ReadFile
    <3>3. UpSent' = UpSent /\ UpRead' = UpRead
      BY <2>1, <3>2 DEF UpSent, UpRead
    <3>4. QED  BY <1>0, <2>0, <2>1, <3>2, <3>3, UpMoves
  <2>12. CASE SendChunkHeader
    <3>1. /\ pc["up"] = "header" /\ send("up", Units("chunk", HeaderLen)) /\ pc'["up"] = "data"
          /\ UNCHANGED <<open, left>>
      BY <1>0, <2>4, <2>12 DEF SendChunkHeader, sendHeader
    <3>2. UpSent = SizeEnd /\ UpSent' = ChunkEnd /\ UpRead' = UpRead
      BY <2>1, <3>1 DEF UpSent, UpRead
    <3>3. "down" \in open  BY <2>4, <3>1
    <3>4. /\ wire'["down"] = Window(UpStream, DownRead, UpSent')
          /\ wire'["up"] = Window(DownStream, UpRead', DownSent)
      BY <1>0, <2>1, <2>2, <3>1, <3>2, <3>3, UpSends
    <3>5. DownRead <= UpSent' /\ UpRead' <= DownSent
      BY <1>0, <1>1, <2>1, <2>3, <3>2
    <3>6. QED  BY <1>0, <2>0, <3>1, <3>3, <3>4, <3>5, <2>1, UpMoves DEF Good
  <2>13. CASE SendData
    <3>1. pc["up"] = "data" /\ "down" \in open /\ left = file + Overhead /\ ~SendFails("up")
      BY <1>0, <1>1, <2>4, <2>13 DEF SendData, Good
    <3>2. PICK k \in 1..left :
            /\ send("up", [i \in 1..k |-> <<"file", offered + Overhead - left + i>>])
            /\ left' = left - k
            /\ cut' = (cut \/ k < left)
            /\ Goto("up", IF left' = 0 THEN "hash" ELSE "header")
            /\ UNCHANGED open
      BY <2>13, <3>1 DEF SendData
    <3>3. ~(k < left)
      <4>1. ~cut'  BY DEF Trouble
      <4>2. QED  BY <3>2, <4>1, Zenon
    <3>4. k = left /\ left \in Nat /\ left' = 0
      BY <1>1, <2>1, <3>1, <3>2, <3>3
    <3>5. [i \in 1..k |-> <<"file", offered + Overhead - left + i>>] = Units("file", file + Overhead)
      <4>1. \A i \in 1..k : offered + Overhead - left + i = i
        BY <1>1, <2>1, <3>1
      <4>2. QED  BY <3>1, <3>4, <4>1 DEF Units
    <3>6. send("up", Units("file", file + Overhead)) /\ pc'["up"] = "hash"
      BY <1>0, <3>2, <3>4, <3>5
    <3>7. UpSent = ChunkEnd /\ UpSent' = FileEnd /\ UpRead' = UpRead
      BY <2>1, <3>1, <3>6 DEF UpSent, UpRead
    <3>8. file + Overhead \in Nat  BY <1>1, <2>1
    <3>9. /\ wire'["down"] = Window(UpStream, DownRead, UpSent')
          /\ wire'["up"] = Window(DownStream, UpRead', DownSent)
      BY <1>0, <2>1, <2>2, <3>1, <3>6, <3>7, <3>8, UpSends
    <3>10. DownRead <= UpSent' /\ UpRead' <= DownSent
      BY <1>0, <1>1, <2>1, <2>3, <3>7
    <3>11. QED  BY <1>0, <2>0, <3>1, <3>2, <3>6, <3>9, <3>10, UpMoves DEF Good
  <2>14. CASE SendHash
    <3>1. /\ pc["up"] = "hash" /\ send("up", Units("hash", HashLen)) /\ pc'["up"] = "verdict"
          /\ UNCHANGED <<open, left>>
      BY <1>0, <2>4, <2>14 DEF SendHash
    <3>2. UpSent = FileEnd /\ UpSent' = HashEnd /\ UpRead' = UpRead
      BY <2>1, <3>1 DEF UpSent, UpRead
    <3>3. "down" \in open  BY <2>4, <3>1
    <3>4. /\ wire'["down"] = Window(UpStream, DownRead, UpSent')
          /\ wire'["up"] = Window(DownStream, UpRead', DownSent)
      BY <1>0, <2>1, <2>2, <3>1, <3>2, <3>3, UpSends
    <3>5. DownRead <= UpSent' /\ UpRead' <= DownSent
      BY <1>0, <1>1, <2>1, <2>3, <3>2
    <3>6. QED  BY <1>0, <2>0, <3>1, <3>3, <3>4, <3>5, UpMoves DEF Good
  <2>15. CASE ReceiveVerdict
    <3>1. PICK k \in 1..HeaderLen :
            /\ recv("up", HeaderLen, k)
            /\ cut' = (cut \/ k < HeaderLen)
            /\ \/ Takes("up", k, "success", HeaderLen) /\ Return("up", "SUCCESS")
               \/ Takes("up", k, "failure", HeaderLen) /\ Return("up", "FAILURE")
               \/ /\ \A x \in {"success", "failure"} : ~Takes("up", k, x, HeaderLen)
                  /\ Die("up")
      BY <2>15 DEF ReceiveVerdict
    <3>2. ~(k < HeaderLen)
      <4>1. ~cut'  BY DEF Trouble
      <4>2. QED  BY <3>1, <4>1, Zenon
    <3>3. k = HeaderLen /\ HeaderLen \in Nat /\ pc["up"] = "verdict"
      BY <2>1, <2>15, <3>2 DEF ReceiveVerdict
    <3>4. UpRead = KeyEnd  BY <3>3 DEF UpRead
    <3>5. /\ UpRead + HeaderLen <= DownSent
          /\ wire'["up"] = Window(DownStream, UpRead + HeaderLen, DownSent)
          /\ Beginning(wire["up"], HeaderLen) = Piece(DownStream, UpRead, HeaderLen)
          /\ wire'["down"] = wire["down"]
      BY <3>1, <3>3, UpReads
    <3>6. Beginning(wire["up"], HeaderLen) = Units("success", HeaderLen)
      BY <2>2, <3>4, <3>5, PieceIs
    <3>7. Units("success", HeaderLen) # Units("failure", HeaderLen)
      BY <2>1, UnitsDiffer
    <3>8. Takes("up", k, "success", HeaderLen) /\ ~Takes("up", k, "failure", HeaderLen)
      BY <3>3, <3>6, <3>7 DEF Takes, Beginning
    <3>9. Return("up", "SUCCESS")
      BY <3>1, <3>8
    <3>10. pc'["up"] = "done" /\ status'["up"] = "SUCCESS" /\ open' = open \ {"up"}
      BY <1>0, <3>9
    <3>11. UpSent' = UpSent /\ UpRead' = UpRead + HeaderLen
      BY <2>1, <3>3, <3>4, <3>10 DEF UpSent, UpRead
    <3>12. ("up" \in open' <=> pc'["up"] # "done") /\ ("down" \in open' <=> "down" \in open)
      BY <3>10
    <3>13. UpSent' = UpSent /\ DownRead <= UpSent' /\ UpRead' <= DownSent
           /\ wire'["down"] = Window(UpStream, DownRead, UpSent')
           /\ wire'["up"] = Window(DownStream, UpRead', DownSent)
      BY <1>0, <3>5, <3>11
    <3>14. QED  BY <1>5, <2>0, <3>10, <3>12, <3>13, UpMoves
  <2>16. CASE HeaderMissing("up")
    <3>1. pc["up"] = "verdict" /\ wire["up"] = <<>> /\ "down" \notin open
      BY <1>1, <2>16 DEF HeaderMissing, RecvFails, Closed, Other
    <3>2. pc["down"] \in {"save", "done"}
      BY <1>0, <3>1 DEF Good
    <3>3. UpRead = KeyEnd /\ DownSent = KeyEnd + HeaderLen
      BY <3>1, <3>2 DEF UpRead, DownSent
    <3>4. Len(wire["up"]) = DownSent - UpRead
      <4>1. DownStream \in [Nat -> Unit] /\ UpRead <= DownSent
        BY <1>0, Streams
      <4>2. Len(Window(DownStream, UpRead, DownSent)) = DownSent - UpRead
        BY <2>3, <4>1, WindowIs
      <4>3. QED  BY <1>0, <4>2
    <3>5. QED  BY <2>1, <3>1, <3>3, <3>4
  <2>17. ~MissingExtension /\ ~Connect /\ ~ConnectFails
    BY <1>5 DEF MissingExtension, Connect, ConnectFails
  <2>18. QED
    BY <2>5, <2>6, <2>7, <2>8, <2>9, <2>10, <2>11, <2>12, <2>13, <2>14, <2>15, <2>16, <2>17
       DEF UpStep
<1>6. QED  BY <1>4, <1>5

(* What a step of download() must keep for the two ends to stay in step.   *)
LEMMA DownMoves ==
    ASSUME Fine, UNCHANGED <<file, left>>, pc'["up"] = pc["up"], status'["up"] = status["up"],
           pc'["down"] \notin {"listen", "timeout", "refuse", "dead"},
           pc'["down"] = "select" \/ link' = "accepted",
           link' = link \/ (link = "queued" /\ link' = "accepted"),
           "up" \in open' <=> "up" \in open,
           "down" \in open' <=> pc["up"] # "connect" /\ pc'["down"] \notin {"save", "done"},
           pc'["down"] = "resize" => want' = offered,
           pc'["down"] \in {"header", "data", "hash"} => want' = offered + Overhead,
           pc'["down"] \in {"header", "data"} => got' = <<>>,
           pc'["down"] = "hash" => got' = Units("file", want'),
           pc'["down"] \in {"save", "done"} => status'["down"] = "SUCCESS",
           DownRead' <= UpSent, wire'["down"] = Window(UpStream, DownRead', UpSent),
           UpRead <= DownSent', wire'["up"] = Window(DownStream, UpRead, DownSent')
    PROVE  Good'
<1>1. UNCHANGED <<offered, UpStream, DownStream, UpRead, UpSent>>
  BY MarksStay, StayUp
<1>2. InStep'
  BY <1>1 DEF InStep
<1>3. Units("file", want)' = Units("file", want')
  BY DEF Units
<1>4. QED  BY <1>1, <1>2, <1>3 DEF Fine, Good

(* A message is sent as a whole.                                           *)
LEMMA Whole ==
    ASSUME Fine
    PROVE  /\ UpSent > KeyEnd => UpSent >= SizeEnd
           /\ UpSent > ChunkEnd => UpSent >= FileEnd
<1>1. /\ KeyEnd \in Nat /\ SizeEnd \in Nat /\ ChunkEnd \in Nat /\ FileEnd \in Nat /\ HashEnd \in Nat
      /\ 0 < KeyEnd /\ KeyEnd < SizeEnd /\ SizeEnd < ChunkEnd /\ ChunkEnd < FileEnd
      /\ FileEnd < HashEnd
  BY Marks DEF Fine
<1>2. QED  BY <1>1 DEF UpSent

(* The lesser of two numbers.                                              *)
LEMMA MinIs ==
    ASSUME NEW a \in Nat, NEW b \in Nat, a <= b
    PROVE  Min({a, b}) = a
<1>1. \A x \in {a, b} : (\A y \in {a, b} : x <= y) <=> x = a
  OBVIOUS
<1>2. a \in {a, b}  OBVIOUS
<1>3. QED  BY <1>1, <1>2 DEF Min

(* download() stays in step with upload() unless there is trouble.         *)
LEMMA GoodDown ==
    ASSUME Fine, DownStep, ~Trouble'
    PROVE  Good'
<1> USE DEF given, uploading, downloading, Goto, Leave, Return, Die
<1>0. /\ TInv /\ Good /\ ~Trouble /\ Early
      /\ pc \in [Ends -> UpPC \cup DownPC] /\ "up" \in Ends /\ "down" \in Ends
      /\ status \in [Ends -> Statuses] /\ pc["up"] \in UpPC /\ pc["down"] \in DownPC
      /\ wire["down"] = Window(UpStream, DownRead, UpSent)
      /\ wire["up"] = Window(DownStream, UpRead, DownSent)
      /\ DownRead <= UpSent /\ UpRead <= DownSent
      /\ want \in Nat /\ wire \in [Ends -> Seq(Unit)]
  BY DEF Fine, TInv, FileTransferTypeOK, Ends, Good, InStep
<1>1. /\ link # "broken" /\ file # Absent /\ file \in Nat /\ offered = file /\ keys = "agree"
      /\ file >= 1 /\ pc["down"] # "timeout" /\ cut = FALSE /\ Announced = file /\ Misread # file
  BY <1>0, Calm
<1>2. ~cut' /\ pc'["down"] # "timeout"
  BY DEF Trouble
<1>3. ASSUME \E e \in Ends : pc'[e] = "done", link' # "accepted" PROVE FALSE
  BY <1>3 DEF Trouble
<1>4. /\ UNCHANGED <<file, left>> /\ pc'["up"] = pc["up"] /\ status'["up"] = status["up"]
      /\ pc["down"] # "done"
  BY <1>0 DEF FailWithHeader, DownStep, Listen, SelectTimesOut, GiveUp, AcceptPeer, DownReceivesKey, SendKey,
         ReceiveSize, Resize, ReceiveChunkHeader, HeaderMissing, ReceiveData, ReceiveHash,
         SendVerdict, SaveFile
<1>5. /\ UNCHANGED <<offered, KeyEnd, SizeEnd, ChunkEnd, FileEnd, HashEnd>>
      /\ KeyEnd = KeyLen /\ SizeEnd = KeyEnd + SizeLen /\ ChunkEnd = SizeEnd + HeaderLen
      /\ FileEnd = ChunkEnd + (file + Overhead) /\ HashEnd = FileEnd + HashLen
      /\ KeyEnd \in Nat /\ SizeEnd \in Nat /\ ChunkEnd \in Nat /\ FileEnd \in Nat
      /\ KeyLen \in Nat \ {0} /\ SizeLen \in Nat \ {0} /\ HeaderLen \in Nat \ {0}
      /\ HashLen \in Nat \ {0} /\ Overhead \in Nat \ {0}
  BY <1>0, <1>4, MarksStay, Marks
<1>6. /\ Carries(UpStream, 0, "key", KeyLen) /\ Carries(UpStream, KeyEnd, "size", SizeLen)
      /\ Carries(UpStream, SizeEnd, "chunk", HeaderLen)
      /\ Carries(DownStream, 0, "key", KeyLen)
      /\ Carries(DownStream, KeyEnd, "success", HeaderLen)
      /\ Carries(UpStream, ChunkEnd, "file", file + Overhead)
      /\ Carries(UpStream, FileEnd, "hash", HashLen)
  BY <1>0, Streams
<1>7. UpSent \in Nat /\ DownRead \in Nat /\ UpRead \in Nat /\ DownSent \in Nat
  BY Numbered
<1>8. pc["down"] \notin {"listen", "select", "save"} =>
        /\ "up" \in open /\ "down" \in open /\ link = "accepted" /\ pc["up"] # "connect"
        /\ ~SendFails("down") /\ ~RecvFails("down") /\ ~Closed("down")
  BY <1>0, <1>1, <1>4, OpenEnds DEF SendFails, RecvFails, Closed, Other, Good
<1>10. CASE Listen
  <2>1. pc["down"] = "listen" /\ link = "none" /\ link' = link
    BY <1>0, <1>10 DEF Listen, Early
  <2>2. pc'["down"] = "select" /\ UNCHANGED <<wire, open>>
    BY <1>0, <1>3, <1>10, <2>1 DEF Listen
  <2>3. DownRead' = DownRead /\ DownSent' = DownSent
    BY <2>1, <2>2 DEF DownRead, DownSent
  <2>4. "down" \in open' <=> pc["up"] # "connect" /\ pc'["down"] \notin {"save", "done"}
    BY <1>0, <2>1, <2>2 DEF Good
  <2>5. QED  BY <1>0, <1>4, <2>1, <2>2, <2>3, <2>4, DownMoves
<1>11. CASE SelectTimesOut
  BY <1>0, <1>2, <1>11 DEF SelectTimesOut
<1>12. CASE GiveUp
  BY <1>1, <1>12 DEF GiveUp
<1>13. CASE AcceptPeer
  <2>1. /\ pc["down"] = "select" /\ link = "queued" /\ link' = "accepted" /\ pc'["down"] = "peerKey"
        /\ UNCHANGED <<wire, open>>
    BY <1>0, <1>13 DEF AcceptPeer
  <2>2. DownRead' = DownRead /\ DownSent' = DownSent
    BY <2>1 DEF DownRead, DownSent
  <2>3. "down" \in open' <=> pc["up"] # "connect" /\ pc'["down"] \notin {"save", "done"}
    BY <1>0, <2>1 DEF Good
  <2>4. QED  BY <1>0, <1>4, <2>1, <2>2, <2>3, DownMoves
<1>14. CASE DownReceivesKey
  <2>1. /\ pc["down"] = "peerKey" /\ recv("down", KeyLen, KeyLen) /\ pc'["down"] = "key"
        /\ UNCHANGED <<open, link>>
    BY <1>0, <1>1, <1>8, <1>14 DEF DownReceivesKey
  <2>2. DownRead = 0 /\ DownRead' = 0 + KeyLen /\ DownSent' = DownSent
    BY <1>5, <2>1 DEF DownRead, DownSent
  <2>3. /\ DownRead' <= UpSent /\ wire'["down"] = Window(UpStream, DownRead', UpSent)
        /\ wire'["up"] = wire["up"]
    BY <1>5, <2>1, <2>2, DownReads
  <2>4. QED  BY <1>0, <1>4, <1>8, <2>1, <2>2, <2>3, DownMoves
<1>15. CASE SendKey("down")
  <2>1. /\ pc["down"] = "key" /\ send("down", Units("key", KeyLen)) /\ pc'["down"] = "size"
        /\ UNCHANGED <<open, link>>
    BY <1>0, <1>8, <1>15 DEF SendKey
  <2>2. DownRead' = DownRead /\ DownSent = 0 /\ DownSent' = 0 + KeyLen
    BY <1>5, <2>1 DEF DownRead, DownSent
  <2>3. /\ wire'["up"] = Window(DownStream, UpRead, DownSent') /\ wire'["down"] = wire["down"]
    BY <1>5, <1>6, <1>8, <2>1, <2>2, DownSends
  <2>4. UpRead <= DownSent'
    BY <1>0, <1>5, <1>7, <2>2
  <2>5. QED  BY <1>0, <1>4, <1>8, <2>1, <2>2, <2>3, <2>4, DownMoves
<1>16. CASE ReceiveSize
  <2>1. pc["down"] = "size" /\ UNCHANGED link
    BY <1>16 DEF ReceiveSize
  <2>2. PICK k \in 1..SizeLen :
          /\ recv("down", SizeLen, k)
          /\ want' = IF Takes("down", k, "size", SizeLen) THEN Announced ELSE Misread
          /\ cut' = (cut \/ k < Min({SizeLen, Len(wire["down"])}))
          /\ IF want' = 0 THEN Return("down", "FAILURE")
                          ELSE Goto("down", "resize") /\ UNCHANGED <<status, open>>
    BY <1>8, <1>16, <2>1 DEF ReceiveSize
  <2>3. DownRead = KeyEnd  BY <2>1 DEF DownRead
  <2>4. /\ k \in 1 .. SizeLen /\ DownRead + k <= UpSent /\ Len(wire["down"]) = UpSent - DownRead
        /\ wire'["down"] = Window(UpStream, DownRead + k, UpSent)
        /\ Beginning(wire["down"], k) = Piece(UpStream, DownRead, k)
        /\ wire'["up"] = wire["up"]
    BY <1>5, <2>2, DownReads
  <2>5. UpSent >= SizeEnd
    BY <1>5, <1>7, <2>3, <2>4, Whole
  <2>6. Len(wire["down"]) \in Nat /\ SizeLen <= Len(wire["down"])
    BY <1>5, <1>7, <2>3, <2>4, <2>5
  <2>7. ~(k < Min({SizeLen, Len(wire["down"])}))
    BY <1>2, <2>2, Zenon
  <2>8. k = SizeLen
    BY <1>5, <2>4, <2>6, <2>7, MinIs
  <2>9. Takes("down", k, "size", SizeLen)
    BY <1>6, <2>3, <2>4, <2>8, PieceIs DEF Takes, Beginning
  <2>10. want' = file /\ pc'["down"] = "resize" /\ UNCHANGED open
    BY <1>0, <1>1, <2>2, <2>9
  <2>11. DownRead' = DownRead + SizeLen /\ DownSent' = DownSent
    BY <1>5, <2>1, <2>3, <2>10 DEF DownRead, DownSent
  <2>12. QED  BY <1>0, <1>1, <1>4, <1>8, <2>1, <2>4, <2>8, <2>10, <2>11, DownMoves
<1>17. CASE Resize
  <2>1. /\ pc["down"] = "resize" /\ want = file /\ want' = file + Overhead /\ pc'["down"] = "header"
        /\ UNCHANGED <<wire, link, open, got>>
    BY <1>0, <1>1, <1>17 DEF Resize, Good
  <2>2. got = <<>>
    BY <1>0, <2>1 DEF TInv, InPlace
  <2>3. DownRead' = DownRead /\ DownSent' = DownSent
    BY <1>5, <2>1 DEF DownRead, DownSent
  <2>4. QED  BY <1>0, <1>1, <1>4, <1>8, <2>1, <2>2, <2>3, DownMoves
<1>18. CASE ReceiveChunkHeader
  <2>1. pc["down"] = "header" /\ UNCHANGED <<link, want, got>>
    BY <1>18 DEF ReceiveChunkHeader
  <2>2. PICK k \in 1..HeaderLen :
          /\ recv("down", HeaderLen, k)
          /\ cut' = (cut \/ k < HeaderLen)
          /\ \/ /\ Takes("down", k, "chunk", HeaderLen)
                /\ Goto("down", "data")
                /\ UNCHANGED <<status, open>>
             \/ Takes("down", k, "failure", HeaderLen) /\ Return("down", "FAILURE")
             \/ /\ \A x \in {"chunk", "failure"} : ~Takes("down", k, x, HeaderLen)
                /\ Die("down")
    BY <1>18 DEF ReceiveChunkHeader
  <2>3. ~(k < HeaderLen)
    BY <1>2, <2>2, Zenon
  <2>4. k = HeaderLen /\ HeaderLen \in Nat /\ DownRead = SizeEnd
    BY <1>5, <2>1, <2>3 DEF DownRead
  <2>5. /\ DownRead + HeaderLen <= UpSent
        /\ wire'["down"] = Window(UpStream, DownRead + HeaderLen, UpSent)
        /\ Beginning(wire["down"], HeaderLen) = Piece(UpStream, DownRead, HeaderLen)
        /\ wire'["up"] = wire["up"]
    BY <2>2, <2>4, DownReads
  <2>6. Beginning(wire["down"], HeaderLen) = Units("chunk", HeaderLen)
    BY <1>6, <2>4, <2>5, PieceIs
  <2>7. Units("chunk", HeaderLen) # Units("failure", HeaderLen)
    BY <1>5, UnitsDiffer
  <2>8. Takes("down", k, "chunk", HeaderLen) /\ ~Takes("down", k, "failure", HeaderLen)
    BY <2>4, <2>6, <2>7 DEF Takes, Beginning
  <2>9. pc'["down"] = "data" /\ UNCHANGED open
    BY <1>0, <2>2, <2>8
  <2>10. DownRead' = DownRead + HeaderLen /\ DownSent' = DownSent
    BY <1>5, <2>1, <2>4, <2>9 DEF DownRead, DownSent
  <2>11. want = offered + Overhead /\ got = <<>>
    BY <1>0, <2>1 DEF Good
  <2>12. QED  BY <1>0, <1>4, <1>8, <2>1, <2>5, <2>9, <2>10, <2>11, DownMoves
<1>19. CASE HeaderMissing("down")
  BY <1>8, <1>19 DEF HeaderMissing
<1>20. CASE ReceiveData
  <2>1. pc["down"] = "data" /\ UNCHANGED <<link, want>>
    BY <1>20 DEF ReceiveData
  <2>2. want = file + Overhead /\ got = <<>> /\ file + Overhead \in Nat
    BY <1>0, <1>1, <1>5, <2>1 DEF Good
  <2>3. PICK k \in 1..(want - Len(got)) :
          /\ recv("down", want - Len(got), k)
          /\ got' = got \o SubSeq(wire["down"], 1, k)
          /\ cut' = (cut \/ k < want - Len(got))
          /\ Goto("down", IF Len(got') = want THEN "hash" ELSE "header")
          /\ UNCHANGED open
    BY <1>8, <1>20, <2>1 DEF ReceiveData
  <2>4. ~(k < want - Len(got))
    BY <1>2, <2>3, Zenon
  <2>5. want - Len(got) = want
    BY <2>2
  <2>6. k = want /\ recv("down", want, want)
    BY <2>2, <2>3, <2>4, <2>5
  <2>7. DownRead = ChunkEnd  BY <2>1 DEF DownRead
  <2>8. /\ DownRead + want <= UpSent /\ wire'["down"] = Window(UpStream, DownRead + want, UpSent)
        /\ Beginning(wire["down"], want) = Piece(UpStream, DownRead, want)
        /\ wire'["up"] = wire["up"]
    BY <2>2, <2>6, DownReads
  <2>9. Beginning(wire["down"], want) = Units("file", want)
    BY <1>6, <2>2, <2>7, <2>8, PieceIs
  <2>10. got' = Units("file", want)
    <3>1. Units("file", want) \in Seq(Unit)  BY <2>2, UnitsType
    <3>2. got' = <<>> \o Units("file", want)
      BY <2>2, <2>3, <2>6, <2>9 DEF Beginning
    <3>3. QED  BY <3>1, <3>2
  <2>11. Len(got') = want
    BY <2>2, <2>10, UnitsType
  <2>12. pc'["down"] = "hash"
    BY <1>0, <2>3, <2>11
  <2>13. DownRead' = DownRead + want /\ DownSent' = DownSent
    BY <1>5, <2>1, <2>2, <2>7, <2>12 DEF DownRead, DownSent
  <2>14. QED
    BY <1>0, <1>1, <1>4, <1>8, <2>1, <2>2, <2>3, <2>8, <2>10, <2>12, <2>13, DownMoves
<1>21. CASE ReceiveHash
  <2>1. pc["down"] = "hash" /\ UNCHANGED <<link, want, got>>
    BY <1>21 DEF ReceiveHash
  <2>2. want = file + Overhead /\ got = Units("file", want)
    BY <1>0, <1>1, <2>1 DEF Good
  <2>3. /\ recv("down", HashLen, HashLen) /\ plain' = Decrypted /\ UNCHANGED open
        /\ Goto("down", IF Takes("down", HashLen, "hash", HashLen) /\ plain' = offered
                        THEN "accept" ELSE "refuse")
    BY <1>8, <1>21, <2>1 DEF ReceiveHash
  <2>4. plain' = offered
    BY <1>1, <1>5, <2>2, <2>3 DEF Decrypted
  <2>5. DownRead = FileEnd  BY <2>1 DEF DownRead
  <2>6. /\ DownRead + HashLen <= UpSent
        /\ wire'["down"] = Window(UpStream, DownRead + HashLen, UpSent)
        /\ Beginning(wire["down"], HashLen) = Piece(UpStream, DownRead, HashLen)
        /\ wire'["up"] = wire["up"]
    BY <1>5, <2>3, DownReads
  <2>7. Takes("down", HashLen, "hash", HashLen)
    BY <1>6, <2>5, <2>6, PieceIs, ZenonT(40) DEF Takes, Beginning
  <2>8. pc'["down"] = "accept"
    BY <1>0, <2>3, <2>4, <2>7
  <2>9. DownRead' = DownRead + HashLen /\ DownSent' = DownSent
    BY <1>5, <2>1, <2>5, <2>8 DEF DownRead, DownSent
  <2>10. QED  BY <1>0, <1>4, <1>8, <2>1, <2>3, <2>6, <2>8, <2>9, DownMoves
<1>22. CASE SendVerdict
  <2>1. pc["down"] = "accept" /\ UNCHANGED link
    BY <1>0, <1>22 DEF SendVerdict, Good
  <2>2. /\ send("down", Units("success", HeaderLen)) /\ open' = open \ {"down"}
        /\ pc'["down"] = "save" /\ status'["down"] = "SUCCESS"
    BY <1>0, <1>8, <1>22, <2>1 DEF SendVerdict, sendHeader
  <2>3. DownRead' = DownRead /\ DownSent = KeyEnd /\ DownSent' = KeyEnd + HeaderLen
    BY <1>5, <2>1, <2>2 DEF DownRead, DownSent
  <2>4. /\ wire'["up"] = Window(DownStream, UpRead, DownSent') /\ wire'["down"] = wire["down"]
    BY <1>5, <1>6, <1>8, <2>1, <2>2, <2>3, DownSends
  <2>5. UpRead <= DownSent'
    BY <1>0, <1>5, <1>7, <2>3
  <2>6. ("up" \in open' <=> "up" \in open) /\ "down" \notin open'
    BY <2>2
  <2>7. QED  BY <1>0, <1>4, <1>8, <2>1, <2>2, <2>3, <2>4, <2>5, <2>6, DownMoves
<1>23. CASE SaveFile
  <2>1. /\ pc["down"] = "save" /\ pc'["down"] = "done" /\ UNCHANGED <<wire, link, open, status>>
    BY <1>0, <1>23 DEF SaveFile
  <2>2. link = "accepted" /\ "down" \notin open /\ status["down"] = "SUCCESS"
    BY <1>0, <2>1 DEF Good
  <2>3. DownRead' = DownRead /\ DownSent' = DownSent
    BY <1>5, <2>1 DEF DownRead, DownSent
  <2>4. QED  BY <1>0, <1>4, <2>1, <2>2, <2>3, DownMoves
<1>24. QED
  BY <1>10, <1>11, <1>12, <1>13, <1>14, <1>15, <1>16, <1>17, <1>18, <1>19, <1>20, <1>21, <1>22,
     <1>23 DEF DownStep

(* Without trouble every step keeps the two ends in step.                  *)
LEMMA ClearStays == TInv /\ Early /\ Clear /\ [Next]_vars => Clear'
<1> SUFFICES ASSUME TInv, Early, Clear, [Next]_vars, ~Trouble' PROVE Good'
  BY DEF Clear
<1>1. Fine
  BY TroubleStays DEF Clear, Fine
<1>2. CASE UpStep  BY <1>1, <1>2, GoodUp
<1>3. CASE DownStep  BY <1>1, <1>3, GoodDown
<1>4. CASE Break  BY <1>4 DEF Break, Trouble
<1>5. CASE UNCHANGED vars
  <2>1. UNCHANGED <<UpStream, DownStream, UpRead, UpSent, DownRead, DownSent, offered>>
    BY <1>5, MarksStay, StayUp, StayDown DEF vars
  <2>2. InStep'
    BY <1>1, <1>5, <2>1 DEF InStep, Fine, Good, vars
  <2>3. QED  BY <1>1, <1>5, <2>1, <2>2 DEF Fine, Good, vars, Units
<1>6. QED  BY <1>2, <1>3, <1>4, <1>5 DEF Next

(* The two ends start in step.                                             *)
LEMMA InitClear == Init => Early /\ Clear
<1> SUFFICES ASSUME Init PROVE Early /\ Clear
  OBVIOUS
<1>1. /\ pc["up"] = "connect" /\ pc["down"] = "listen" /\ link = "none" /\ open = {}
      /\ wire["up"] = <<>> /\ wire["down"] = <<>>
  BY DEF Init, Ends
<1>2. Early
  BY <1>1 DEF Early
<1>3. UpSent = 0 /\ DownRead = 0 /\ UpRead = 0 /\ DownSent = 0
  BY <1>1 DEF UpSent, DownRead, UpRead, DownSent
<1>4. Window(UpStream, 0, 0) = <<>> /\ Window(DownStream, 0, 0) = <<>>
  BY DEF Window
<1>5. InStep
  BY <1>1, <1>3, <1>4 DEF InStep
<1>6. QED  BY <1>1, <1>2, <1>5 DEF Clear, Good

(* The inductive invariant of a transfer.                                  *)
LEMMA AlwaysClear == Spec => [](TInv /\ Outcome /\ Early /\ Clear)
<1>1. Init => TInv /\ Outcome /\ Early /\ Clear
  BY InitTInv, InitOutcome, InitClear
<1>2. TInv /\ Outcome /\ Early /\ Clear /\ [Next]_vars => (TInv /\ Outcome /\ Early /\ Clear)'
  BY NextTInv, NextOutcome, EarlyStays, ClearStays
<1>3. QED  BY <1>1, <1>2, PTL DEF Spec

(* Neither process is terminated by a header that does not open, or by a   *)
(* key that does not come, unless the connection broke, a call moved less  *)
(* than it was asked to, the keys differ, the file is missing, empty or    *)
(* too long, or nobody came in time (recvHeader, receive_pk): for every    *)
(* size of the messages.                                                   *)
THEOREM NoCrash == Spec => []CrashHasACause
<1>1. TInv /\ Clear => CrashHasACause
  BY DEF Clear, Good, CrashHasACause, Ends
<1>2. QED  BY <1>1, AlwaysClear, PTL

(* Whenever an end has finished and there was no trouble, the file has     *)
(* arrived as it was and nobody who has finished has been told otherwise;  *)
(* that both do finish is left to the run.                                 *)
THEOREM BothAreTold ==
    Spec => []((\E e \in Ends : pc[e] = "done") /\ ~Trouble =>
                  /\ plain = file /\ status["down"] = "SUCCESS"
                  /\ pc["up"] = "done" => status["up"] = "SUCCESS")
<1>1. ASSUME TInv, Outcome, Clear, \E e \in Ends : pc[e] = "done", ~Trouble
      PROVE  /\ plain = file /\ status["down"] = "SUCCESS"
             /\ pc["up"] = "done" => status["up"] = "SUCCESS"
  <2>1. pc["up"] = "done" \/ pc["down"] = "done"
    BY <1>1 DEF Ends
  <2>2. status["down"] = "SUCCESS" /\ (pc["up"] = "done" => status["up"] = "SUCCESS")
    BY <1>1, <2>1 DEF Clear, Good, Outcome
  <2>3. QED  BY <1>1, <2>2, Calm DEF Outcome
<1>2. QED  BY <1>1, AlwaysClear, PTL

=============================================================================
