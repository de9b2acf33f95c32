-------------------------------- MODULE Util --------------------------------
(***************************************************************************)
(* Util.h: the conversions between integers and the bytes that travel, and *)
(* the parts of a command line.                                            *)
(*                                                                         *)
(* A byte has Base values, an int32_t four of them, in two's complement;   *)
(* Base is 256 in the program.  A string is a sequence of characters; what *)
(* the code does with positions it does with an int, where npos is -1.     *)
(***************************************************************************)
EXTENDS Integers, Sequences

CONSTANT Base

ASSUME BaseAssumption == Base \in Nat /\ Base > 1

Byte == 0 .. Base - 1
Short == Base * Base
Word == Short * Short

(* the int32_t that has the bits of the word v *)
Signed(v) == IF v % Word < Word \div 2 THEN v % Word ELSE (v % Word) - Word

(* least significant byte first *)
int32ToVector(v) ==
    <<v % Base, (v \div Base) % Base, (v \div Short) % Base, (v \div (Short * Base)) % Base>>

WordOf(b) == b[1] + b[2] * Base + b[3] * Short + b[4] * Short * Base

(* what decrypt returns when it fails has no bytes *)
vectorToInt32(b) == IF Len(b) < 4 THEN -1 ELSE Signed(WordOf(b))

(* htonl and ntohl: the bytes of a word in the opposite order, unsigned *)
htonl(v) == LET b == int32ToVector(v) IN WordOf(<<b[4], b[3], b[2], b[1]>>)

(* htons and ntohs keep the two low bytes only *)
htons(v) == LET b == int32ToVector(v) IN b[2] + b[1] * Base

-----------------------------------------------------------------------------
(* </sender> /command </recipient> message *)

space == " "
npos == -1

(* std::string::find, from a position that may itself be npos *)
find(m, from) ==
    LET hits == {i \in 0 .. Len(m) - 1 : from # npos /\ i >= from /\ m[i + 1] = space}
    IN  IF hits = {} THEN npos ELSE CHOOSE i \in hits : \A j \in hits : i <= j

(* a count below 0 is a huge size_t *)
substr(m, pos, count) ==
    SubSeq(m, pos + 1, IF count < 0 \/ pos + count > Len(m) THEN Len(m) ELSE pos + count)

getSender(m) == substr(m, 0, find(m, 0) + 1)

getCommand(m) ==
    LET start == find(m, 0)
        end == find(m, start + 1)
    IN  substr(m, start + 1, end - start - 1)

getRecipient(m) ==
    LET start == find(m, find(m, 0) + 1)
        end == find(m, start + 1)
    IN  substr(m, start + 1, end - start)

getMessage(m) ==
    LET start == find(m, find(m, 0) + 1)
        end == find(m, find(m, start + 1))
    IN  substr(m, end + 1, npos)

=============================================================================
