------------------------------ MODULE UtilProofs -----------------------------
(* What the conversions of Util.h keep of an integer, for every size of a  *)
(* byte: an int32_t that has become four bytes, or a word in network       *)
(* order, comes back as it was.                                            *)
EXTENDS Util, TLAPS

(* Division of integers, as the modules of the program need it.            *)
LEMMA DivMod ==
    ASSUME NEW a \in Int, NEW b \in Nat \ {0}
    PROVE  /\ a \div b \in Int /\ a % b \in 0 .. b - 1
           /\ a = (a \div b) * b + (a % b)
BY SMT

(* Quotient and remainder are determined by what they add up to.           *)
LEMMA DivModUnique ==
    ASSUME NEW b \in Nat \ {0}, NEW q \in Int, NEW r \in 0 .. b - 1,
           NEW a, a = q * b + r
    PROVE  a \div b = q /\ a % b = r
<1>1. a \in Int  OBVIOUS
<1>2. a \div b \in Int /\ a % b \in 0 .. b - 1 /\ a = (a \div b) * b + (a % b)
  BY <1>1, DivMod
<1> DEFINE p == a \div b
           s == a % b
<1>3. p \in Int /\ s \in 0 .. b - 1 /\ q * b + r = p * b + s
  BY <1>2
<1> HIDE DEF p, s
<1>4. (q - p) * b = s - r  BY <1>3
<1>5. CASE q - p >= 1
  <2>1. (q - p) * b >= b  BY <1>3, <1>5
  <2>2. QED  BY <1>3, <1>4, <2>1
<1>6. CASE q - p <= -1
  <2>1. (q - p) * b <= -b  BY <1>3, <1>6
  <2>2. QED  BY <1>3, <1>4, <2>1
<1>7. q = p  BY <1>3, <1>5, <1>6
<1>8. QED  BY <1>3, <1>7, <1>4 DEF p, s

(* A remainder is its own remainder.                                       *)
LEMMA SmallMod ==
    ASSUME NEW b \in Nat \ {0}, NEW r \in 0 .. b - 1
    PROVE  r % b = r
<1>1. 0 \in Int /\ r = 0 * b + r  OBVIOUS
<1>2. QED  BY <1>1, DivModUnique

(* The numbers of values of a byte, a short and a word.                    *)
LEMMA Sizes ==
    /\ Base \in Nat \ {0} /\ Short \in Nat \ {0} /\ Word \in Nat \ {0}
    /\ Short * Base \in Nat \ {0} /\ Base >= 2 /\ Word = Short * Base * Base
<1>1. Base \in Nat /\ Base >= 2  BY BaseAssumption
<1>2. Short \in Nat /\ Short >= 4  BY <1>1 DEF Short
<1>3. Word \in Nat /\ Word >= 16  BY <1>2 DEF Word
<1>4. Short * Base \in Nat /\ Short * Base >= 8  BY <1>1, <1>2
<1>5. Word = Short * Base * Base  BY <1>1 DEF Word, Short
<1>6. QED  BY <1>1, <1>2, <1>3, <1>4, <1>5

(* To divide by a product is to divide twice (the shifts of                *)
(* int32ToVector).                                                         *)
LEMMA DivDiv ==
    ASSUME NEW a \in Nat \ {0}, NEW b \in Nat \ {0}, NEW v \in Int
    PROVE  v \div (a * b) = (v \div a) \div b
<1> DEFINE p == v \div a
           r == v % a
           q == p \div b
           s == p % b
<1>1. p \in Int /\ r \in 0 .. a - 1 /\ v = p * a + r
  BY DivMod
<1>2. q \in Int /\ s \in 0 .. b - 1 /\ p = q * b + s
  BY <1>1, DivMod
<1> HIDE DEF p, r, q, s
<1>3. v = q * (a * b) + (s * a + r)
  BY <1>1, <1>2
<1>4. s * a + r \in 0 .. a * b - 1
  <2>1. s * a \in Nat /\ s * a <= (b - 1) * a  BY <1>2
  <2>2. QED  BY <1>1, <1>2, <2>1
<1>5. a * b \in Nat \ {0}
  OBVIOUS
<1>6. v \div (a * b) = q
  BY <1>2, <1>3, <1>4, <1>5, DivModUnique
<1>7. QED  BY <1>6 DEF q, p

(* Four bytes make a word.                                                 *)
LEMMA WordOfType ==
    ASSUME NEW b1 \in Byte, NEW b2 \in Byte, NEW b3 \in Byte, NEW b4 \in Byte
    PROVE  WordOf(<<b1, b2, b3, b4>>) \in 0 .. Word - 1
<1> USE Sizes
<1>1. b1 + b2 * Base \in 0 .. Short - 1
  <2>1. b2 * Base \in Nat /\ b2 * Base <= (Base - 1) * Base  BY DEF Byte
  <2>2. QED  BY <2>1 DEF Byte, Short
<1>2. b3 * Short \in Nat /\ b3 * Short <= (Base - 1) * Short
  BY DEF Byte
<1>3. b4 * Short * Base \in Nat /\ b4 * Short * Base <= (Base - 1) * (Short * Base)
  BY DEF Byte
<1>4. QED  BY <1>1, <1>2, <1>3 DEF WordOf

(* int32ToVector finds the four bytes of a word again, whatever is above   *)
(* them.                                                                   *)
LEMMA DigitsOf ==
    ASSUME NEW b1 \in Byte, NEW b2 \in Byte, NEW b3 \in Byte, NEW b4 \in Byte,
           NEW k \in Int, NEW v, v = WordOf(<<b1, b2, b3, b4>>) + k * Word
    PROVE  int32ToVector(v) = <<b1, b2, b3, b4>> /\ v % Word = WordOf(<<b1, b2, b3, b4>>)
<1> DEFINE q3 == k * Base + b4
           q2 == q3 * Base + b3
           q1 == q2 * Base + b2
<1>1. /\ q3 \in Int /\ q3 = k * Base + b4
      /\ q2 \in Int /\ q2 = q3 * Base + b3
      /\ q1 \in Int /\ q1 = q2 * Base + b2
  BY Sizes DEF Byte
<1>2. v = q1 * Base + b1
  BY Sizes DEF WordOf, Byte, Short
<1> HIDE DEF q1, q2, q3
<1>3. /\ WordOf(<<b1, b2, b3, b4>>) \in 0 .. Word - 1
      /\ Base \in Nat \ {0} /\ Word \in Nat \ {0} /\ Short * Base \in Nat \ {0}
      /\ Short \in Nat \ {0} /\ Word = Short * Base * Base
  BY WordOfType, Sizes
<1>0. b1 \in 0 .. Base - 1 /\ b2 \in 0 .. Base - 1 /\ b3 \in 0 .. Base - 1 /\ b4 \in 0 .. Base - 1
  BY DEF Byte
<1>4. v % Word = WordOf(<<b1, b2, b3, b4>>)
  <2> DEFINE w == WordOf(<<b1, b2, b3, b4>>)
  <2>1. v = k * Word + w  BY <1>3
  <2> HIDE DEF w
  <2>2. w \in 0 .. Word - 1  BY <1>3 DEF w
  <2>3. v % Word = w
    <3>1. Word \in Nat \ {0}  BY <1>3
    <3>2. QED  BY <2>1, <2>2, <3>1, DivModUnique
  <2>4. QED  BY <2>3 DEF w
<1>5. v \div Base = q1 /\ v % Base = b1
  <2>1. q1 \in Int /\ Base \in Nat \ {0}  BY <1>1, <1>3
  <2>2. QED  BY <1>0, <1>2, <2>1, DivModUnique
<1>6. q1 \div Base = q2 /\ q1 % Base = b2
  BY <1>0, <1>1, <1>3, DivModUnique, ZenonT(40)
<1>7. q2 \div Base = q3 /\ q2 % Base = b3
  BY <1>0, <1>1, <1>3, DivModUnique
<1>8. q3 \div Base = k /\ q3 % Base = b4
  BY <1>0, <1>1, <1>3, DivModUnique
<1>9. v \in Int  BY <1>0, <1>1, <1>2, <1>3
<1>10. v \div Short = q2
  BY <1>3, <1>5, <1>6, <1>9, DivDiv DEF Short
<1>11. v \div (Short * Base) = q3
  BY <1>3, <1>7, <1>9, <1>10, DivDiv
<1>12. QED
  BY <1>4, <1>5, <1>6, <1>7, <1>8, <1>10, <1>11 DEF int32ToVector

(* int32ToVector returns bytes, and they make the word that was given.     *)
LEMMA FromDigits ==
    ASSUME NEW v \in Int
    PROVE  /\ \A i \in 1..4 : int32ToVector(v)[i] \in Byte
           /\ int32ToVector(v) = <<int32ToVector(v)[1], int32ToVector(v)[2],
                                  int32ToVector(v)[3], int32ToVector(v)[4]>>
           /\ WordOf(int32ToVector(v)) = v % Word
           /\ v = WordOf(int32ToVector(v)) + (v \div Word) * Word
<1> DEFINE q1 == v \div Base
           q2 == q1 \div Base
           q3 == q2 \div Base
           q4 == q3 \div Base
           b == int32ToVector(v)
<1>1. q2 = v \div Short /\ q3 = v \div (Short * Base) /\ q4 = v \div Word
  <2>1. q2 = v \div Short  BY Sizes, DivDiv DEF Short
  <2>2. q3 = v \div (Short * Base)
    <3>1. q3 = (v \div Short) \div Base  BY <2>1
    <3> HIDE DEF q3
    <3>2. QED  BY <3>1, Sizes, DivDiv
  <2>3. q4 = v \div (Short * Base * Base)
    <3> DEFINE a == Short * Base
    <3>1. a \in Nat \ {0} /\ q4 = (v \div a) \div Base  BY Sizes, <2>2
    <3> HIDE DEF a, q4
    <3>2. q4 = v \div (a * Base)  BY <3>1, Sizes, DivDiv
    <3>3. QED  BY <3>2 DEF a
  <2>4. QED  BY <2>1, <2>2, <2>3, Sizes
<1>2. b = <<v % Base, q1 % Base, q2 % Base, q3 % Base>>
  BY <1>1 DEF int32ToVector
<1> DEFINE b1 == v % Base
           b2 == q1 % Base
           b3 == q2 % Base
           b4 == q3 % Base
<1>3. /\ q1 \in Int /\ b1 \in Byte /\ v = q1 * Base + b1
      /\ q2 \in Int /\ b2 \in Byte /\ q1 = q2 * Base + b2
      /\ q3 \in Int /\ b3 \in Byte /\ q2 = q3 * Base + b3
      /\ q4 \in Int /\ b4 \in Byte /\ q3 = q4 * Base + b4
  <2>1. q1 \in Int /\ v % Base \in Byte /\ v = q1 * Base + (v % Base)
    BY Sizes, DivMod DEF Byte
  <2> HIDE DEF q1
  <2>2. q2 \in Int /\ q1 % Base \in Byte /\ q1 = q2 * Base + (q1 % Base)
    BY <2>1, Sizes, DivMod DEF Byte
  <2> HIDE DEF q2
  <2>3. q3 \in Int /\ q2 % Base \in Byte /\ q2 = q3 * Base + (q2 % Base)
    BY <2>2, Sizes, DivMod DEF Byte
  <2> HIDE DEF q3
  <2>4. q4 \in Int /\ q3 % Base \in Byte /\ q3 = q4 * Base + (q3 % Base)
    BY <2>3, Sizes, DivMod DEF Byte
  <2>5. QED  BY <2>1, <2>2, <2>3, <2>4
<1>4. /\ b1 \in Byte /\ b2 \in Byte /\ b3 \in Byte /\ b4 \in Byte /\ b = <<b1, b2, b3, b4>>
      /\ q4 = v \div Word
  BY <1>1, <1>2, <1>3
<1> HIDE DEF q1, q2, q3, q4, b1, b2, b3, b4, b
<1>5. v = WordOf(<<b1, b2, b3, b4>>) + q4 * Word
  <2>1. v = (((q4 * Base + b4) * Base + b3) * Base + b2) * Base + b1
    BY <1>3
  <2>2. WordOf(<<b1, b2, b3, b4>>) = b1 + b2 * Base + b3 * (Base * Base) + b4 * (Base * Base) * Base
    BY Sizes DEF WordOf, Short, Byte
  <2>3. Word = Base * Base * (Base * Base)
    BY Sizes DEF Word, Short
  <2>4. QED  BY Sizes, <1>3, <2>1, <2>2, <2>3 DEF Byte
<1>6. WordOf(<<b1, b2, b3, b4>>) = v % Word
  <2>1. b1 \in Byte /\ b2 \in Byte /\ b3 \in Byte /\ b4 \in Byte /\ q4 \in Int  BY <1>3
  <2>2. QED  BY <1>5, <2>1, DigitsOf
<1>7. QED  BY <1>4, <1>5, <1>6 DEF b

(* ntohl of htonl is the word itself, and htonl returns a word.            *)
LEMMA SwapTwice ==
    ASSUME NEW v \in Int
    PROVE  htonl(htonl(v)) = v % Word /\ htonl(v) \in 0 .. Word - 1
<1> DEFINE b == int32ToVector(v)
<1>1. /\ b[1] \in Byte /\ b[2] \in Byte /\ b[3] \in Byte /\ b[4] \in Byte
      /\ WordOf(<<b[1], b[2], b[3], b[4]>>) = v % Word
  BY FromDigits
<1>2. htonl(v) = WordOf(<<b[4], b[3], b[2], b[1]>>)
  BY DEF htonl
<1> HIDE DEF b
<1>3. htonl(v) \in 0 .. Word - 1
  BY <1>1, <1>2, WordOfType
<1>4. int32ToVector(htonl(v)) = <<b[4], b[3], b[2], b[1]>>
  <2>1. 0 \in Int /\ htonl(v) = WordOf(<<b[4], b[3], b[2], b[1]>>) + 0 * Word
    BY <1>2, <1>3, Sizes
  <2>2. QED  BY <1>1, <1>2, <2>1, DigitsOf
<1>5. htonl(htonl(v)) = WordOf(<<b[1], b[2], b[3], b[4]>>)
  BY <1>4 DEF htonl
<1>6. QED  BY <1>1, <1>3, <1>5

(* To read a word as an int32_t changes none of its bits.                  *)
LEMMA SignedSame ==
    ASSUME NEW v \in Int
    PROVE  /\ Signed(v) \in Int
           /\ int32ToVector(Signed(v)) = int32ToVector(v)
           /\ htonl(Signed(v)) = htonl(v)
           /\ Signed(Signed(v)) = Signed(v)
           /\ Signed(v) >= 0 => Signed(v) < Word \div 2
           /\ Signed(v) % Word = v % Word
<1> USE Sizes
<1> DEFINE b == int32ToVector(v)
           w == v % Word
<1>1. /\ b[1] \in Byte /\ b[2] \in Byte /\ b[3] \in Byte /\ b[4] \in Byte
      /\ b = <<b[1], b[2], b[3], b[4]>>
      /\ WordOf(b) = w
  BY FromDigits
<1>2. w \in 0 .. Word - 1
  BY DivMod
<1>3. PICK k \in {0, -1} : Signed(v) = w + k * Word
  BY <1>2 DEF Signed
<1> HIDE DEF b, w
<1>4. int32ToVector(Signed(v)) = b /\ Signed(v) % Word = w
  <2>1. k \in Int /\ Signed(v) = WordOf(<<b[1], b[2], b[3], b[4]>>) + k * Word
    BY <1>1, <1>3
  <2>2. /\ int32ToVector(Signed(v)) = <<b[1], b[2], b[3], b[4]>>
        /\ Signed(v) % Word = WordOf(<<b[1], b[2], b[3], b[4]>>)
    BY <1>1, <2>1, DigitsOf
  <2>3. QED  BY <1>1, <2>2
<1>5. Signed(v) \in Int
  BY <1>2, <1>3
<1>6. htonl(Signed(v)) = htonl(v)
  BY <1>4 DEF htonl, b
<1>7. Signed(Signed(v)) = Signed(v)
  BY <1>4 DEF Signed, w
<1>8. Word \div 2 \in Nat /\ Word < (Word \div 2) * 2 + 2
  BY DivMod
<1>9. Signed(v) >= 0 => Signed(v) < Word \div 2
  BY <1>2, <1>8 DEF Signed, w
<1>10. QED  BY <1>4, <1>5, <1>6, <1>7, <1>9 DEF b, w

(* An int32_t is what its bits are read as.                                *)
LEMMA SignedIs ==
    ASSUME NEW v \in -(Word \div 2) .. (Word \div 2) - 1
    PROVE  Signed(v) = v
<1>1. Word \div 2 \in Nat /\ Word \in Nat \ {0} /\ (Word \div 2) * 2 <= Word
  BY Sizes, DivMod
<1>2. CASE v >= 0
  <2>1. v \in 0 .. Word - 1  BY <1>1, <1>2
  <2>2. v % Word = v  BY <1>1, <2>1, SmallMod
  <2>3. QED  BY <1>1, <2>2 DEF Signed
<1>3. CASE v < 0
  <2> DEFINE w == v + Word
             q == -1
  <2>1. v = q * Word + w /\ w \in 0 .. Word - 1 /\ q \in Int  BY <1>1, <1>3
  <2> HIDE DEF w, q
  <2>2. v % Word = w  BY <1>1, <2>1, DivModUnique
  <2>3. QED  BY <1>1, <1>3, <2>2 DEF Signed, w
<1>4. QED  BY <1>1, <1>2, <1>3

(* vectorToInt32 of int32ToVector is the int32_t with the bits given.      *)
LEMMA VectorSigned ==
    ASSUME NEW v \in Int
    PROVE  vectorToInt32(int32ToVector(v)) = Signed(v)
<1> DEFINE b == int32ToVector(v)
<1>1. WordOf(b) = v % Word
  BY FromDigits
<1>2. Len(b) = 4
  BY DEF int32ToVector
<1>3. (v % Word) % Word = v % Word
  <2> DEFINE w == v % Word
  <2>1. w \in 0 .. Word - 1 /\ Word \in Nat \ {0}  BY Sizes, DivMod
  <2> HIDE DEF w
  <2>2. w % Word = w  BY <2>1, SmallMod
  <2>3. QED  BY <2>2 DEF w
<1> HIDE DEF b
<1>4. vectorToInt32(b) = Signed(v % Word)
  BY <1>1, <1>2 DEF vectorToInt32
<1>5. QED  BY <1>3, <1>4 DEF Signed, b

(* An integer survives its journey, whatever the size of a byte: an        *)
(* int32_t as four bytes (int32ToVector, vectorToInt32), a word in network *)
(* order (recvFileSize), and a short in network order within an int32_t    *)
(* (sendTransferInfo, recvIP).                                             *)
THEOREM IntegersSurvive ==
    /\ \A v \in -(Word \div 2) .. (Word \div 2) - 1 : vectorToInt32(int32ToVector(v)) = v
    /\ \A v \in 0 .. Word - 1 : htonl(Signed(htonl(v))) = v
    /\ \A n \in 0 .. Short - 1 : htons(vectorToInt32(int32ToVector(htons(n)))) = n
<1>1. ASSUME NEW v \in -(Word \div 2) .. (Word \div 2) - 1
      PROVE  vectorToInt32(int32ToVector(v)) = v
  BY SignedIs, VectorSigned
<1>2. ASSUME NEW v \in 0 .. Word - 1
      PROVE  htonl(Signed(htonl(v))) = v
  <2>1. v % Word = v
    BY Sizes, SmallMod
  <2>2. htonl(v) \in Int  BY SwapTwice
  <2>3. QED  BY <2>1, <2>2, SwapTwice, SignedSame
<1>3. ASSUME NEW n \in 0 .. Short - 1
      PROVE  htons(vectorToInt32(int32ToVector(htons(n)))) = n
  <2> DEFINE b == int32ToVector(n)
             m == htons(n)
  <2>1. /\ b[1] \in Byte /\ b[2] \in Byte /\ b[3] \in Byte /\ b[4] \in Byte
        /\ WordOf(b) = n % Word
    BY FromDigits
  <2>2. Short \in Nat \ {0} /\ Word \in Nat \ {0} /\ Short <= Word /\ Base \in Nat
    BY Sizes DEF Word
  <2>3. n % Word = n
    <3>1. n \in 0 .. Word - 1  BY <2>2
    <3>2. QED  BY <2>2, <3>1, SmallMod
  <2>4. m = b[2] + b[1] * Base
    BY DEF htons
  <2> HIDE DEF b, m
  <2>5. b[3] = 0 /\ b[4] = 0 /\ n = b[1] + b[2] * Base
    <3>1. n = b[1] + b[2] * Base + b[3] * Short + b[4] * Short * Base
      BY <2>1, <2>3 DEF WordOf
    <3>2. b[3] + b[4] * Base \in Nat /\ b[1] + b[2] * Base \in Nat
      BY <2>1, <2>2 DEF Byte
    <3>3. n = b[1] + b[2] * Base + (b[3] + b[4] * Base) * Short
      BY <2>1, <2>2, <3>1 DEF Byte
    <3>4. b[3] + b[4] * Base = 0
      <4> DEFINE x == b[3] + b[4] * Base
      <4>1. ASSUME x >= 1 PROVE FALSE
        <5>1. x * Short >= Short  BY <2>2, <3>2, <4>1
        <5>2. QED  BY <2>2, <3>2, <3>3, <5>1
      <4>2. QED  BY <3>2, <4>1
    <3>5. b[4] * Base >= b[4]  BY <2>1, <2>2, Sizes DEF Byte
    <3>6. b[3] \in Nat /\ b[4] \in Nat /\ b[4] * Base \in Nat /\ b[1] + b[2] * Base \in Nat
      BY <2>1, <2>2 DEF Byte
    <3>7. b[3] = 0 /\ b[4] = 0
      BY <3>4, <3>5, <3>6
    <3>8. n = b[1] + b[2] * Base + 0 * Short  BY <3>3, <3>4
    <3>9. QED  BY <2>2, <3>6, <3>7, <3>8
  <2>6. m \in Int /\ int32ToVector(m) = <<b[2], b[1], 0, 0>>
    <3>1. 0 \in Byte /\ 0 \in Int  BY Sizes DEF Byte
    <3>2. m = WordOf(<<b[2], b[1], 0, 0>>) + 0 * Word
      BY <2>1, <2>2, <2>4 DEF WordOf, Byte
    <3>3. m \in Int  BY <2>1, <2>2, <2>4 DEF Byte
    <3>4. QED  BY <2>1, <3>1, <3>2, <3>3, DigitsOf
  <2>7. int32ToVector(vectorToInt32(int32ToVector(m))) = <<b[2], b[1], 0, 0>>
    BY <2>6, VectorSigned, SignedSame
  <2>8. htons(vectorToInt32(int32ToVector(m))) = b[1] + b[2] * Base
    BY <2>7 DEF htons
  <2>9. QED  BY <2>5, <2>8 DEF m
<1>4. QED  BY <1>1, <1>2, <1>3

=============================================================================
