--------------------------- MODULE MCFileTransfer ---------------------------
(* Instances of FileTransfer: files from nothing to more than a word can   *)
(* count, with a byte of two values; and Util's operators over every small *)
(* input.                                                                  *)
EXTENDS FileTransfer

CONSTANT absent

AllSizes == {0, 1, 2, 3, 8, 17, absent}

-----------------------------------------------------------------------------
(* An integer survives its journey: as bytes (int32ToVector), in network   *)
(* order (recvFileSize), and as a short (sendTransferInfo, recvIP).        *)
ASSUME RoundTrips ==
    /\ \A v \in -(Word \div 2) .. (Word \div 2) - 1 : vectorToInt32(int32ToVector(v)) = v
    /\ \A v \in 0 .. Word - 1 : htonl(Signed(htonl(v))) = v
    /\ \A n \in 0 .. Short - 1 : htons(vectorToInt32(int32ToVector(htons(n)))) = n

WordsUpTo(n) == UNION {[1..k -> {"x", "/"}] : k \in 0..n}
TextsUpTo(n) == UNION {[1..k -> {"x", "/", space}] : k \in 0..n}

(* A complete command comes apart into its four parts; a name keeps the    *)
(* space that is part of it.                                               *)
ASSUME PartsOfACommand ==
    \A s, c, r \in WordsUpTo(2), t \in TextsUpTo(3) :
        LET m == s \o <<space>> \o c \o <<space>> \o r \o <<space>> \o t IN
        /\ getSender(m) = s \o <<space>>
        /\ getCommand(m) = c
        /\ getRecipient(m) = r \o <<space>>
        /\ getMessage(m) = t

(* Without a recipient the sender is taken for it, without a message its   *)
(* space is missing and the message is the whole line.                     *)
ASSUME MissingParts ==
    \A s, c, r \in WordsUpTo(2) :
        LET m == s \o <<space>> \o c
            l == m \o <<space>> \o r
        IN  /\ getCommand(m) = c /\ getRecipient(m) = getSender(m) /\ getMessage(m) = c
            /\ getCommand(l) = c /\ getRecipient(l) = r /\ getMessage(l) = l

=============================================================================
