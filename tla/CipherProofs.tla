---------------------------- MODULE CipherProofs ----------------------------
(***************************************************************************)
(* Blowfish decrypts what it encrypted, for any tables, any key and any    *)
(* data of whole blocks, block by block and chained.                       *)
(***************************************************************************)
EXTENDS PasswordHashing, SequenceTheorems, WellFoundedInduction, TLAPS

-----------------------------------------------------------------------------
(* Numbers by their places. *)

LEMMA Place ==
  ASSUME NEW B \in Nat \ {0}, NEW a \in Nat, NEW b \in 0..(B - 1)
  PROVE  /\ a * B + b \in Nat
         /\ (a * B + b) \div B = a
         /\ (a * B + b) % B = b
OBVIOUS

LEMMA PlaceBound ==
  ASSUME NEW B \in Nat \ {0}, NEW M \in Nat \ {0}, NEW a \in 0..(M - 1), NEW b \in 0..(B - 1)
  PROVE  a * B + b \in 0..(M * B - 1)
OBVIOUS

LEMMA Places ==
  ASSUME NEW B \in Nat \ {0}, NEW w \in Nat
  PROVE  /\ w \div B \in Nat /\ w % B \in 0..(B - 1)
         /\ w = ((w \div B) * B) + (w % B)
OBVIOUS

LEMMA HighPlace ==
  ASSUME NEW B \in Nat \ {0}, NEW M \in Nat \ {0}, NEW w \in 0..(M * B - 1)
  PROVE  w \div B \in 0..(M - 1)
OBVIOUS

LEMMA Product == ASSUME NEW m \in Nat \ {0}, NEW n \in Nat \ {0} PROVE m * n \in Nat \ {0}
OBVIOUS

LEMMA Sizes ==
  /\ Base \in Nat \ {0} /\ Base >= 2
  /\ Base * Base \in Nat \ {0}
  /\ Base * Base * Base \in Nat \ {0}
  /\ WordValues \in Nat \ {0}
  /\ WordValues = ((Base * Base) * Base) * Base
<1>1. Quarter \in Nat \ {0} /\ Quarter >= 2
  BY QuarterAssumption
<1>2. Quarter * Quarter \in Nat \ {0} /\ Quarter * Quarter >= 2
  BY <1>1
<1>3. (Quarter * Quarter) * Quarter \in Nat \ {0} /\ (Quarter * Quarter) * Quarter >= 2
  BY <1>1, <1>2
<1>4. Base \in Nat \ {0} /\ Base >= 2
  BY <1>1, <1>3 DEF Base
<1>5. Base * Base \in Nat \ {0}
  BY <1>4, Product
<1>6. (Base * Base) * Base \in Nat \ {0}
  BY <1>4, <1>5, Product
<1>7. ((Base * Base) * Base) * Base \in Nat \ {0}
  BY <1>4, <1>6, Product
<1> QED
  BY <1>4, <1>5, <1>6, <1>7 DEF WordValues

LEMMA BaseType == Base \in Nat \ {0}
BY Sizes

-----------------------------------------------------------------------------
(* Words and their bytes. *)

Bytes4 == [1..4 -> Byte]

LEMMA WordOfType ==
  ASSUME NEW b, b[1] \in Byte, b[2] \in Byte, b[3] \in Byte, b[4] \in Byte
  PROVE  WordOf(b) \in Word
<1> USE Sizes DEF Byte
<1>1. b[1] * Base + b[2] \in 0..(Base * Base - 1)
  BY PlaceBound
<1>2. (b[1] * Base + b[2]) * Base + b[3] \in 0..((Base * Base) * Base - 1)
  BY <1>1, PlaceBound
<1>3. ((b[1] * Base + b[2]) * Base + b[3]) * Base + b[4]
        \in 0..(((Base * Base) * Base) * Base - 1)
  BY <1>2, PlaceBound
<1> QED
  BY <1>3 DEF WordOf, Word

LEMMA BytesOfType ==
  ASSUME NEW w \in Word
  PROVE  /\ BytesOf(w) \in Bytes4
         /\ BytesOf(w)[1] \in Byte /\ BytesOf(w)[2] \in Byte
         /\ BytesOf(w)[3] \in Byte /\ BytesOf(w)[4] \in Byte
<1>1. PICK two \in Nat \ {0} : two = Base * Base
  BY Sizes
<1>2. PICK three \in Nat \ {0} : three = two * Base
  BY <1>1, Sizes
<1>3. w \in 0..(three * Base - 1)
  BY <1>1, <1>2, Sizes DEF Word
<1> USE BaseType
<1>4. w \in Nat
  BY <1>3
<1>5. PICK p \in Nat : p = w \div Base
  BY <1>4, Places
<1>6. p \in 0..(three - 1) /\ w % Base \in Byte
  BY <1>3, <1>4, <1>5, HighPlace, Places DEF Byte
<1>7. PICK q \in Nat : q = p \div Base
  BY Places
<1>8. q \in 0..(two - 1) /\ p % Base \in Byte
  BY <1>2, <1>6, <1>7, HighPlace, Places DEF Byte
<1>9. q \div Base \in Byte /\ q % Base \in Byte
  BY <1>1, <1>8, HighPlace, Places DEF Byte
<1>10. BytesOf(w) = <<q \div Base, q % Base, p % Base, w % Base>>
  BY <1>5, <1>7 DEF BytesOf
<1> QED
  BY <1>6, <1>8, <1>9, <1>10 DEF Bytes4

LEMMA WordOfBytesOf ==
  ASSUME NEW w \in Word
  PROVE  WordOf(BytesOf(w)) = w
<1> USE Sizes
<1>1. w \in Nat
  BY DEF Word
<1>2. w \div Base \in Nat /\ w = ((w \div Base) * Base) + (w % Base)
  BY <1>1, Places
<1>3. /\ (w \div Base) \div Base \in Nat
      /\ w \div Base = (((w \div Base) \div Base) * Base) + ((w \div Base) % Base)
  BY <1>2, Places
<1>4. (w \div Base) \div Base = ((((w \div Base) \div Base) \div Base) * Base)
                                  + (((w \div Base) \div Base) % Base)
  BY <1>3, Places
<1> DEFINE u == ((w \div Base) \div Base) \div Base
           v == ((w \div Base) \div Base) % Base
           x == (w \div Base) % Base
           y == w % Base
<1>5. WordOf(BytesOf(w)) = ((u * Base + v) * Base + x) * Base + y
  BY DEF WordOf, BytesOf
<1> QED
  BY <1>2, <1>3, <1>4, <1>5

LEMMA BytesOfWordOf ==
  ASSUME NEW b, b[1] \in Byte, b[2] \in Byte, b[3] \in Byte, b[4] \in Byte
  PROVE  \A k \in 1..4 : BytesOf(WordOf(b))[k] = b[k]
<1> USE BaseType
<1>0. /\ b[1] \in Nat /\ b[2] \in 0..(Base - 1)
      /\ b[3] \in 0..(Base - 1) /\ b[4] \in 0..(Base - 1)
  BY DEF Byte
<1>1. PICK h \in Nat : h = b[1] * Base + b[2]
  BY <1>0, Place
<1>2. h \div Base = b[1] /\ h % Base = b[2]
  BY <1>0, <1>1, Place
<1>3. PICK t \in Nat : t = h * Base + b[3]
  BY <1>0, Place
<1>4. t \div Base = h /\ t % Base = b[3]
  BY <1>0, <1>3, Place
<1>5. PICK w \in Nat : w = t * Base + b[4]
  BY <1>0, Place
<1>6. w \div Base = t /\ w % Base = b[4]
  BY <1>0, <1>5, Place
<1>7. WordOf(b) = w
  BY <1>1, <1>3, <1>5 DEF WordOf
<1>8. BytesOf(WordOf(b)) = <<b[1], b[2], b[3], b[4]>>
  BY <1>2, <1>4, <1>6, <1>7 DEF BytesOf
<1>9. \A k \in 1..4 : k = 1 \/ k = 2 \/ k = 3 \/ k = 4
  OBVIOUS
<1> QED
  BY <1>8, <1>9

-----------------------------------------------------------------------------
(* Exclusive or of words. *)

LEMMA XorBytesType ==
  ASSUME NEW v \in Word, NEW w \in Word
  PROVE  \A k \in 1..4 : XorBytes(BytesOf(v), BytesOf(w))[k] \in Byte
BY BytesOfType, XorAssumption DEF XorBytes, Bytes4

LEMMA XorType ==
  ASSUME NEW v \in Word, NEW w \in Word
  PROVE  Xor(v, w) \in Word
BY XorBytesType, WordOfType DEF Xor

\* Exclusive or with the same word twice changes nothing.
LEMMA XorCancels ==
  ASSUME NEW v \in Word, NEW w \in Word
  PROVE  Xor(Xor(v, w), w) = v
<1> DEFINE a == BytesOf(v)
           b == BytesOf(w)
           m == XorBytes(a, b)
<1>1. a \in Bytes4 /\ b \in Bytes4 /\ \A k \in 1..4 : a[k] \in Byte /\ b[k] \in Byte
  BY BytesOfType DEF Bytes4
<1>2. \A k \in 1..4 : m[k] \in Byte /\ m[k] = XorByte(a[k], b[k])
  BY XorBytesType DEF XorBytes
<1>3. \A k \in 1..4 : BytesOf(WordOf(m))[k] = m[k]
  BY <1>2, BytesOfWordOf
<1>4. XorBytes(BytesOf(WordOf(m)), b) = [k \in 1..4 |-> XorByte(BytesOf(WordOf(m))[k], b[k])]
  BY DEF XorBytes
<1>5. \A k \in 1..4 : XorByte(BytesOf(WordOf(m))[k], b[k]) = a[k]
  BY <1>1, <1>2, <1>3, XorAssumption
<1>6. a = [k \in 1..4 |-> a[k]]
  BY <1>1 DEF Bytes4
<1> HIDE DEF a, b, m
<1>7. XorBytes(BytesOf(WordOf(m)), b) = a
  BY <1>4, <1>5, <1>6
<1>8. Xor(Xor(v, w), w) = WordOf(XorBytes(BytesOf(WordOf(m)), b))
  BY DEF Xor, a, b, m
<1>9. WordOf(a) = v
  BY WordOfBytesOf DEF a
<1> QED
  BY <1>7, <1>8, <1>9

-----------------------------------------------------------------------------
(* The Feistel network: each round is undone by the same round on the      *)
(* halves turned round.                                                    *)

Block == Word \X Word

Turned(y) == <<y[2], y[1]>>

LEMMA SubkeyType ==
  ASSUME NEW c \in blf_ctx, NEW n \in 0..17
  PROVE  c.P[n] \in Word
BY DEF blf_ctx, BLF_N

LEMMA WordIsNat == \A w \in Word : w \in Nat
BY Sizes DEF Word

LEMMA RemainderIsWord == \A n \in Nat : n % WordValues \in Word
BY Sizes DEF Word

LEMMA FType ==
  ASSUME NEW c \in blf_ctx, NEW x \in Word
  PROVE  F(c.S, x) \in Word
<1> DEFINE s == c.S
           b == BytesOf(x)
<1>1. s \in [0..(4 * Base - 1) -> Word]
  BY DEF blf_ctx
<1>2. /\ b[1] \in 0..(Base - 1) /\ b[2] \in 0..(Base - 1)
      /\ b[3] \in 0..(Base - 1) /\ b[4] \in 0..(Base - 1)
  BY BytesOfType DEF Byte
<1> HIDE DEF s, b
<1>3. /\ b[1] \in 0..(4 * Base - 1) /\ Base + b[2] \in 0..(4 * Base - 1)
      /\ 2 * Base + b[3] \in 0..(4 * Base - 1) /\ 3 * Base + b[4] \in 0..(4 * Base - 1)
  BY <1>2, BaseType
<1>4. /\ s[b[1]] \in Word /\ s[Base + b[2]] \in Word
      /\ s[2 * Base + b[3]] \in Word /\ s[3 * Base + b[4]] \in Word
  BY <1>1, <1>3
<1>5. (s[b[1]] + s[Base + b[2]]) % WordValues \in Word
  BY <1>4, WordIsNat, RemainderIsWord
<1>6. Xor((s[b[1]] + s[Base + b[2]]) % WordValues, s[2 * Base + b[3]]) \in Word
  BY <1>4, <1>5, XorType
<1>7. Mixed(s, b) \in Word
  BY <1>4, <1>6, WordIsNat, RemainderIsWord DEF Mixed
<1> QED
  BY <1>7 DEF F, s, b

LEMMA RoundType ==
  ASSUME NEW c \in blf_ctx, NEW y \in Block, NEW n \in 0..17
  PROVE  Round(c, y, n) \in Block
<1>1. y[1] \in Word /\ y[2] \in Word
  BY DEF Block
<1>2. Xor(F(c.S, y[2]), c.P[n]) \in Word
  BY <1>1, FType, SubkeyType, XorType
<1>3. BLFRND(c, y[1], y[2], n) \in Word
  BY <1>1, <1>2, XorType DEF BLFRND
<1> QED
  BY <1>1, <1>3 DEF Round, Block

LEMMA RoundUndone ==
  ASSUME NEW c \in blf_ctx, NEW y \in Block, NEW n \in 0..17
  PROVE  Round(c, Turned(Round(c, y, n)), n) = Turned(y)
<1> DEFINE mixed == Xor(F(c.S, y[2]), c.P[n])
<1>1. y[1] \in Word /\ y[2] \in Word
  BY DEF Block
<1>2. mixed \in Word
  BY <1>1, FType, SubkeyType, XorType
<1>3. Xor(Xor(y[1], mixed), mixed) = y[1]
  BY <1>1, <1>2, XorCancels
<1>4. Turned(Round(c, y, n)) = <<Xor(y[1], mixed), y[2]>>
  BY DEF Turned, Round, BLFRND
<1>5. Round(c, <<Xor(y[1], mixed), y[2]>>, n) = <<y[2], Xor(Xor(y[1], mixed), mixed)>>
  BY DEF Round, BLFRND
<1> QED
  BY <1>3, <1>4, <1>5 DEF Turned

LEMMA RoundsUndone ==
  ASSUME NEW c \in blf_ctx, NEW y \in Block, NEW n \in 0..17, NEW m \in 0..17
  PROVE  /\ Rounds(c, y, n, m) \in Block
         /\ Rounds(c, Turned(Rounds(c, y, n, m)), m, n) = Turned(y)
<1>1. Round(c, y, n) \in Block
  BY RoundType
<1>2. Rounds(c, y, n, m) \in Block
  BY <1>1, RoundType DEF Rounds
<1>3. Round(c, Turned(Rounds(c, y, n, m)), m) = Turned(Round(c, y, n))
  BY <1>1, RoundUndone DEF Rounds
<1>4. Rounds(c, Turned(Rounds(c, y, n, m)), m, n) = Round(c, Turned(Round(c, y, n)), n)
  BY <1>3 DEF Rounds
<1> QED
  BY <1>2, <1>4, RoundUndone

LEMMA EndsMatch ==
  ASSUME NEW c \in blf_ctx, NEW x \in Block, NEW n \in 0..17
  PROVE  /\ Start(c, x, n) \in Block /\ Finish(c, x, n) \in Block
         /\ Start(c, Finish(c, x, n), n) = Turned(x)
         /\ Finish(c, Turned(Start(c, x, n)), n) = x
<1>1. x[1] \in Word /\ x[2] \in Word /\ x = <<x[1], x[2]>>
  BY DEF Block
<1>2. c.P[n] \in Word
  BY SubkeyType
<1>3. Xor(x[1], c.P[n]) \in Word /\ Xor(Xor(x[1], c.P[n]), c.P[n]) = x[1]
  BY <1>1, <1>2, XorType, XorCancels
<1>4. Start(c, Finish(c, x, n), n) = <<x[2], Xor(Xor(x[1], c.P[n]), c.P[n])>>
  BY DEF Start, Finish
<1>5. Finish(c, Turned(Start(c, x, n)), n) = <<Xor(Xor(x[1], c.P[n]), c.P[n]), x[2]>>
  BY DEF Start, Finish, Turned
<1> QED
  BY <1>1, <1>3, <1>4, <1>5 DEF Start, Finish, Block, Turned

LEMMA EncipherType ==
  ASSUME NEW c \in blf_ctx, NEW x \in Block
  PROVE  Blowfish_encipher(c, x) \in Block
<1>1. \A y \in Block : \A n, m \in 0..17 : Rounds(c, y, n, m) \in Block
  BY RoundsUndone
<1>2. PICK y0 \in Block : y0 = Start(c, x, 0)
  BY EndsMatch
<1>3. PICK y1 \in Block : y1 = Rounds(c, y0, 1, 2)
  BY <1>1
<1>4. PICK y2 \in Block : y2 = Rounds(c, y1, 3, 4)
  BY <1>1
<1>5. PICK y3 \in Block : y3 = Rounds(c, y2, 5, 6)
  BY <1>1
<1>6. PICK y4 \in Block : y4 = Rounds(c, y3, 7, 8)
  BY <1>1
<1>7. PICK y5 \in Block : y5 = Rounds(c, y4, 9, 10)
  BY <1>1
<1>8. PICK y6 \in Block : y6 = Rounds(c, y5, 11, 12)
  BY <1>1
<1>9. PICK y7 \in Block : y7 = Rounds(c, y6, 13, 14)
  BY <1>1
<1>10. PICK y8 \in Block : y8 = Rounds(c, y7, 15, 16)
  BY <1>1
<1>11. Blowfish_encipher(c, x) = Finish(c, y8, 17)
  BY <1>2, <1>3, <1>4, <1>5, <1>6, <1>7, <1>8, <1>9, <1>10 DEF Blowfish_encipher
<1> QED
  BY <1>11, EndsMatch

LEMMA DecipherType ==
  ASSUME NEW c \in blf_ctx, NEW x \in Block
  PROVE  Blowfish_decipher(c, x) \in Block
<1>1. \A y \in Block : \A n, m \in 0..17 : Rounds(c, y, n, m) \in Block
  BY RoundsUndone
<1>2. PICK y0 \in Block : y0 = Start(c, x, 17)
  BY EndsMatch
<1>3. PICK y1 \in Block : y1 = Rounds(c, y0, 16, 15)
  BY <1>1
<1>4. PICK y2 \in Block : y2 = Rounds(c, y1, 14, 13)
  BY <1>1
<1>5. PICK y3 \in Block : y3 = Rounds(c, y2, 12, 11)
  BY <1>1
<1>6. PICK y4 \in Block : y4 = Rounds(c, y3, 10, 9)
  BY <1>1
<1>7. PICK y5 \in Block : y5 = Rounds(c, y4, 8, 7)
  BY <1>1
<1>8. PICK y6 \in Block : y6 = Rounds(c, y5, 6, 5)
  BY <1>1
<1>9. PICK y7 \in Block : y7 = Rounds(c, y6, 4, 3)
  BY <1>1
<1>10. PICK y8 \in Block : y8 = Rounds(c, y7, 2, 1)
  BY <1>1
<1>11. Blowfish_decipher(c, x) = Finish(c, y8, 0)
  BY <1>2, <1>3, <1>4, <1>5, <1>6, <1>7, <1>8, <1>9, <1>10 DEF Blowfish_decipher
<1> QED
  BY <1>11, EndsMatch

\* For every context, decipher undoes encipher on every block.
THEOREM DecipherInverts ==
  ASSUME NEW c \in blf_ctx, NEW x \in Block
  PROVE  Blowfish_decipher(c, Blowfish_encipher(c, x)) = x
<1>1. \A y \in Block : \A n, m \in 0..17 :
        \E z \in Block : z = Rounds(c, y, n, m) /\ Rounds(c, Turned(z), m, n) = Turned(y)
  BY RoundsUndone
<1>2. PICK y0 \in Block : y0 = Start(c, x, 0)
  BY EndsMatch
<1>3. PICK y1 \in Block :
        y1 = Rounds(c, y0, 1, 2) /\ Rounds(c, Turned(y1), 2, 1) = Turned(y0)
  BY <1>1
<1>4. PICK y2 \in Block :
        y2 = Rounds(c, y1, 3, 4) /\ Rounds(c, Turned(y2), 4, 3) = Turned(y1)
  BY <1>1
<1>5. PICK y3 \in Block :
        y3 = Rounds(c, y2, 5, 6) /\ Rounds(c, Turned(y3), 6, 5) = Turned(y2)
  BY <1>1
<1>6. PICK y4 \in Block :
        y4 = Rounds(c, y3, 7, 8) /\ Rounds(c, Turned(y4), 8, 7) = Turned(y3)
  BY <1>1
<1>7. PICK y5 \in Block :
        y5 = Rounds(c, y4, 9, 10) /\ Rounds(c, Turned(y5), 10, 9) = Turned(y4)
  BY <1>1
<1>8. PICK y6 \in Block :
        y6 = Rounds(c, y5, 11, 12) /\ Rounds(c, Turned(y6), 12, 11) = Turned(y5)
  BY <1>1
<1>9. PICK y7 \in Block :
        y7 = Rounds(c, y6, 13, 14) /\ Rounds(c, Turned(y7), 14, 13) = Turned(y6)
  BY <1>1
<1>10. PICK y8 \in Block :
        y8 = Rounds(c, y7, 15, 16) /\ Rounds(c, Turned(y8), 16, 15) = Turned(y7)
  BY <1>1
<1>11. Blowfish_encipher(c, x) = Finish(c, y8, 17)
  BY <1>2, <1>3, <1>4, <1>5, <1>6, <1>7, <1>8, <1>9, <1>10 DEF Blowfish_encipher
<1>12. Start(c, Finish(c, y8, 17), 17) = Turned(y8)
  BY EndsMatch
<1>13. Blowfish_decipher(c, Finish(c, y8, 17)) = Finish(c, Turned(y0), 0)
  BY <1>3, <1>4, <1>5, <1>6, <1>7, <1>8, <1>9, <1>10, <1>12 DEF Blowfish_decipher
<1>14. Finish(c, Turned(y0), 0) = x
  BY <1>2, EndsMatch
<1> QED
  BY <1>11, <1>13, <1>14

-----------------------------------------------------------------------------
(* Functions that are defined by recursion over numbers. *)

\* Induction over the natural numbers, for a set instead of a predicate.
LEMMA SetInduction ==
  ASSUME NEW S \in SUBSET Nat, 0 \in S, \A n \in S : n + 1 \in S
  PROVE  S = Nat
<1> DEFINE T == Nat \ S
<1> SUFFICES ASSUME T # {} PROVE FALSE
  OBVIOUS
<1>1. PICK x \in T : \A y \in T : <<y, x>> \notin OpToRel(<, Nat)
  BY WFMin, NatLessThanWellFounded
<1>2. x - 1 \in Nat /\ x - 1 < x
  OBVIOUS
<1>3. x - 1 \in S
  BY <1>1, <1>2 DEF OpToRel
<1> QED
  BY <1>2, <1>3

\* A first value and a step from each value to the next make a function.
Recursive(S, N, z, step) ==
  \E f \in [0..N -> S] : f[0] = z /\ \A n \in 1..N : f[n] = step[n][f[n - 1]]

LEMMA RecursionExists ==
  ASSUME NEW S, NEW N \in Nat, NEW z \in S, NEW step \in [1..N -> [S -> S]]
  PROVE  Recursive(S, N, z, step)
<1> DEFINE Made(m, f) == f[0] = z /\ \A n \in 1..m : f[n] = step[n][f[n - 1]]
           Reached == {m \in Nat : m <= N => \E f \in [0..m -> S] : Made(m, f)}
<1>1. 0 \in Reached
  <2>1. [n \in 0..0 |-> z] \in [0..0 -> S] /\ Made(0, [n \in 0..0 |-> z])
    OBVIOUS
  <2> QED
    BY <2>1
<1>2. ASSUME NEW m \in Reached PROVE m + 1 \in Reached
  <2> SUFFICES ASSUME m + 1 <= N PROVE \E f \in [0..(m + 1) -> S] : Made(m + 1, f)
    BY <1>2
  <2>1. PICK f \in [0..m -> S] : Made(m, f)
    BY <1>2
  <2>2. step[m + 1] \in [S -> S] /\ f[m] \in S
    BY <1>2
  <2> DEFINE g == [n \in 0..(m + 1) |-> IF n = m + 1 THEN step[m + 1][f[m]] ELSE f[n]]
  <2>3. g \in [0..(m + 1) -> S]
    BY <1>2, <2>2
  <2>4. \A n \in 1..(m + 1) : n \in 1..m \/ n = m + 1
    BY <1>2
  <2>5. \A n \in 1..m : g[n] = f[n] /\ g[n - 1] = f[n - 1]
    BY <1>2
  <2>6. g[0] = f[0] /\ g[m + 1] = step[m + 1][f[m]] /\ g[m + 1 - 1] = f[m]
    BY <1>2
  <2>7. Made(m + 1, g)
    BY <2>1, <2>4, <2>5, <2>6
  <2> QED
    BY <2>3, <2>7
<1>3. Reached = Nat
  <2> HIDE DEF Reached
  <2>1. Reached \in SUBSET Nat
    BY DEF Reached
  <2> QED
    BY <1>1, <1>2, <2>1, SetInduction
<1> QED
  BY <1>3 DEF Recursive

\* A set that holds the first value and with each value the next holds them all.
LEMMA RecursionType ==
  ASSUME NEW S, NEW N \in Nat, NEW f, f[0] \in S,
         \A n \in 1..N : f[n - 1] \in S => f[n] \in S
  PROVE  \A n \in 0..N : f[n] \in S
<1> DEFINE Reached == {m \in Nat : m <= N => f[m] \in S}
<1>1. 0 \in Reached
  OBVIOUS
<1>2. ASSUME NEW m \in Reached PROVE m + 1 \in Reached
  <2> SUFFICES ASSUME m + 1 <= N PROVE f[m + 1] \in S
    BY <1>2
  <2>1. m + 1 \in 1..N /\ m + 1 - 1 = m /\ f[m] \in S
    BY <1>2
  <2> QED
    BY <2>1
<1>3. Reached = Nat
  <2> HIDE DEF Reached
  <2>1. Reached \in SUBSET Nat
    BY DEF Reached
  <2> QED
    BY <1>1, <1>2, <2>1, SetInduction
<1> QED
  BY <1>3

-----------------------------------------------------------------------------
(* The key schedule makes contexts. *)

FillState == [ctx : blf_ctx, x : Block]

LEMMA TheOne == \A e : The({e}) = e
BY DEF The

LEMMA PutType ==
  ASSUME NEW c \in blf_ctx, NEW n \in Nat, NEW x \in Block
  PROVE  Put(c, n, x) \in blf_ctx
<1>1. x[1] \in Word /\ x[2] \in Word
  BY DEF Block
<1>2. \A a, b : [c EXCEPT !.P[a] = x[1], !.P[b] = x[2]] \in blf_ctx
  BY <1>1 DEF blf_ctx
<1>3. \A a, b : [c EXCEPT !.S[a] = x[1], !.S[b] = x[2]] \in blf_ctx
  BY <1>1 DEF blf_ctx
<1> QED
  BY <1>2, <1>3 DEF Put

LEMMA FillStepType ==
  ASSUME NEW y \in FillState, NEW n \in Nat, NEW mix,
         mix[2 * n - 2] \in Word, mix[2 * n - 1] \in Word
  PROVE  FillStep(y, n, mix) \in FillState
<1> DEFINE mixed == <<Xor(y.x[1], mix[2 * n - 2]), Xor(y.x[2], mix[2 * n - 1])>>
           e == Blowfish_encipher(y.ctx, mixed)
<1>1. y.ctx \in blf_ctx /\ y.x[1] \in Word /\ y.x[2] \in Word
  BY DEF FillState, Block
<1>2. Xor(y.x[1], mix[2 * n - 2]) \in Word /\ Xor(y.x[2], mix[2 * n - 1]) \in Word
  BY <1>1, XorType
<1>3. mixed \in Block
  BY <1>2 DEF Block
<1> HIDE DEF mixed
<1>4. e \in Block
  BY <1>1, <1>3, EncipherType
<1>5. FillStep(y, n, mix) = The({[ctx |-> Put(y.ctx, n, x), x |-> x] : x \in {e}})
  BY DEF FillStep, mixed
<1> HIDE DEF e
<1>6. {[ctx |-> Put(y.ctx, n, x), x |-> x] : x \in {e}} = {[ctx |-> Put(y.ctx, n, e), x |-> e]}
  OBVIOUS
<1>7. FillStep(y, n, mix) = [ctx |-> Put(y.ctx, n, e), x |-> e]
  BY <1>5, <1>6, TheOne
<1>8. Put(y.ctx, n, e) \in blf_ctx
  BY <1>1, <1>4, PutType
<1> QED
  BY <1>4, <1>7, <1>8 DEF FillState

\* The words of mix that the results up to last are mixed with.
MixedTo(mix, last) == \A n \in 1..last : mix[2 * n - 2] \in Word /\ mix[2 * n - 1] \in Word

LEMMA FillFromType ==
  ASSUME NEW y \in FillState, NEW first \in Nat \ {0}, NEW last \in Nat, first <= last + 1,
         NEW mix, MixedTo(mix, last)
  PROVE  FillFrom(y, first, last, mix) \in FillState
<1> DEFINE N == last + 1 - first
           Next1(n, v) == The({FillStep(z, first + n - 1, mix) : z \in {v}})
           fill[n \in 0..N] == IF n = 0 THEN y ELSE Next1(n, fill[n - 1])
           step == [n \in 1..N |-> [v \in FillState |-> FillStep(v, first + n - 1, mix)]]
<1>1. N \in Nat
  OBVIOUS
<1>2. ASSUME NEW n \in 1..N, NEW v \in FillState
      PROVE  FillStep(v, first + n - 1, mix) \in FillState
  <2>1. PICK k \in 1..last : k = first + n - 1
    OBVIOUS
  <2>2. mix[2 * k - 2] \in Word /\ mix[2 * k - 1] \in Word
    BY <2>1 DEF MixedTo
  <2> QED
    BY <2>1, <2>2, FillStepType
<1>3. ASSUME NEW n, NEW v PROVE Next1(n, v) = FillStep(v, first + n - 1, mix)
  <2>1. {FillStep(z, first + n - 1, mix) : z \in {v}} = {FillStep(v, first + n - 1, mix)}
    OBVIOUS
  <2> QED
    BY <2>1, TheOne
<1> HIDE DEF N, Next1
<1>4. step \in [1..N -> [FillState -> FillState]]
      /\ \A n \in 1..N : \A v \in FillState : step[n][v] = Next1(n, v)
  BY <1>2, <1>3
<1> HIDE DEF step
<1>5. PICK f \in [0..N -> FillState] : f[0] = y /\ \A n \in 1..N : f[n] = step[n][f[n - 1]]
  <2>1. Recursive(FillState, N, y, step)
    BY <1>1, <1>4, RecursionExists
  <2> QED
    BY <2>1 DEF Recursive
<1>6. \A n \in 1..N : f[n] = Next1(n, f[n - 1])
  <2>1. \A n \in 1..N : f[n - 1] \in FillState
    BY <1>1
  <2> QED
    BY <1>4, <1>5, <2>1
<1>7. f = [n \in 0..N |-> IF n = 0 THEN y ELSE Next1(n, f[n - 1])]
  BY <1>1, <1>5, <1>6
<1>8. fill = [n \in 0..N |-> IF n = 0 THEN y ELSE Next1(n, fill[n - 1])]
  BY <1>7
<1> HIDE DEF fill
<1>9. fill[0] \in FillState
  BY <1>1, <1>8
<1>10. \A n \in 1..N : fill[n - 1] \in FillState => fill[n] \in FillState
  BY <1>1, <1>2, <1>3, <1>8
<1>11. \A n \in 0..N : fill[n] \in FillState
  BY <1>1, <1>9, <1>10, RecursionType
<1>12. FillFrom(y, first, last, mix) = fill[N]
  BY DEF FillFrom, fill, N, Next1
<1> QED
  BY <1>1, <1>11, <1>12

LEMMA FillType ==
  ASSUME NEW c \in blf_ctx, NEW mix \in [MixIndex -> Word]
  PROVE  Fill(c, mix) \in blf_ctx
<1> DEFINE filled(i) == IF i = 0 THEN 0 ELSE Schedule + (i - 1) * (Base \div 2)
           start == [ctx |-> c, x |-> <<0, 0>>]
           Next1(i, v) == The({FillFrom(y, filled(i - 1) + 1, filled(i), mix) : y \in {v}})
           fill[i \in 0..5] == IF i = 0 THEN start ELSE Next1(i, fill[i - 1])
           step == [i \in 1..5 |->
                      [v \in FillState |-> FillFrom(v, filled(i - 1) + 1, filled(i), mix)]]
<1>1. Schedule = 9
  BY DEF Schedule, BLF_N
<1>2. PICK half \in Nat : half = Base \div 2 /\ 2 * half <= Base
  BY BaseType
<1>3. MixedTo(mix, 9 + 2 * Base)
  BY <1>1, BaseType DEF MixedTo, MixIndex
<1>4. ASSUME NEW i \in 1..5
      PROVE  /\ filled(i - 1) + 1 \in Nat \ {0} /\ filled(i) \in Nat
             /\ filled(i - 1) + 1 <= filled(i) + 1
             /\ filled(i) <= 9 + 2 * Base
  <2>1. i = 1 \/ i = 2 \/ i = 3 \/ i = 4 \/ i = 5
    OBVIOUS
  <2>2. filled(0) = 0 /\ filled(1) = 9 /\ filled(2) = 9 + half /\ filled(3) = 9 + 2 * half
        /\ filled(4) = 9 + 3 * half /\ filled(5) = 9 + 4 * half
    BY <1>1, <1>2
  <2> HIDE DEF filled
  <2>3. 1 - 1 = 0 /\ 2 - 1 = 1 /\ 3 - 1 = 2 /\ 4 - 1 = 3 /\ 5 - 1 = 4
    OBVIOUS
  <2> QED
    BY <1>2, <2>1, <2>2, <2>3, BaseType
<1>5. ASSUME NEW i \in 1..5, NEW v \in FillState
      PROVE  FillFrom(v, filled(i - 1) + 1, filled(i), mix) \in FillState
  <2> HIDE DEF filled
  <2>1. MixedTo(mix, filled(i))
    BY <1>3, <1>4, BaseType DEF MixedTo
  <2> QED
    BY <1>4, <2>1, FillFromType
<1>6. ASSUME NEW i, NEW v
      PROVE  Next1(i, v) = FillFrom(v, filled(i - 1) + 1, filled(i), mix)
  <2> HIDE DEF filled
  <2>1. {FillFrom(y, filled(i - 1) + 1, filled(i), mix) : y \in {v}}
          = {FillFrom(v, filled(i - 1) + 1, filled(i), mix)}
    OBVIOUS
  <2> QED
    BY <2>1, TheOne
<1>7. start \in FillState
  <2>1. 0 \in Word
    BY Sizes DEF Word
  <2> QED
    BY <2>1 DEF FillState, Block
<1> HIDE DEF Next1, filled, start
<1>8. step \in [1..5 -> [FillState -> FillState]]
      /\ \A i \in 1..5 : \A v \in FillState : step[i][v] = Next1(i, v)
  BY <1>5, <1>6
<1> HIDE DEF step
<1>9. PICK f \in [0..5 -> FillState] : f[0] = start /\ \A i \in 1..5 : f[i] = step[i][f[i - 1]]
  <2>1. Recursive(FillState, 5, start, step)
    BY <1>7, <1>8, RecursionExists
  <2> QED
    BY <2>1 DEF Recursive
<1>10. \A i \in 1..5 : f[i] = Next1(i, f[i - 1])
  <2>1. \A i \in 1..5 : f[i - 1] \in FillState
    OBVIOUS
  <2> QED
    BY <1>8, <1>9, <2>1
<1>11. f = [i \in 0..5 |-> IF i = 0 THEN start ELSE Next1(i, f[i - 1])]
  BY <1>9, <1>10
<1>12. fill = [i \in 0..5 |-> IF i = 0 THEN start ELSE Next1(i, fill[i - 1])]
  BY <1>11
<1> HIDE DEF fill
<1>13. fill[0] \in FillState
  BY <1>7, <1>12
<1>14. \A i \in 1..5 : fill[i - 1] \in FillState => fill[i] \in FillState
  BY <1>5, <1>6, <1>12
<1>15. \A i \in 0..5 : fill[i] \in FillState
  BY <1>13, <1>14, RecursionType
<1>16. Fill(c, mix) = fill[5].ctx
  BY DEF Fill, fill, filled, start, Next1
<1> QED
  BY <1>15, <1>16 DEF FillState

\* The words of a key that is repeated without end.
LEMMA StreamWordType ==
  ASSUME NEW key \in Seq(Byte), Len(key) \in Nat \ {0}, NEW len \in 0..Len(key), NEW n \in Nat
  PROVE  /\ StreamWord(key, len, n) \in Word
         /\ \A k \in 1..4 : StreamByte(key, len, 4 * n + k - 1) \in Byte
<1> DEFINE b == [k \in 1..4 |-> StreamByte(key, len, 4 * n + k - 1)]
<1>1. ASSUME NEW t \in Nat PROVE StreamByte(key, len, t) \in Byte
  <2>1. CASE len = 0
    <3>1. 1 \in 1..Len(key)
      OBVIOUS
    <3> QED
      BY <2>1, <3>1, ElementOfSeq DEF StreamByte
  <2>2. CASE len # 0
    <3>1. t % len \in 0..(len - 1)
      <4>1. len \in Nat \ {0}
        BY <2>2
      <4> QED
        BY <4>1, Places
    <3>2. (t % len) + 1 \in 1..Len(key)
      BY <3>1
    <3> QED
      BY <2>2, <3>2, ElementOfSeq DEF StreamByte
  <2> QED
    BY <2>1, <2>2
<1>2. \A k \in 1..4 : b[k] \in Byte
  BY <1>1
<1> HIDE DEF b
<1>3. StreamWord(key, len, n) \in Word
  BY <1>2, WordOfType DEF StreamWord, b
<1> QED
  BY <1>2, <1>3 DEF b

LEMMA WithKeyType ==
  ASSUME NEW c \in blf_ctx, NEW key \in Seq(Byte), Len(key) \in Nat \ {0}, NEW len \in 0..Len(key)
  PROVE  WithKey(c, key, len) \in blf_ctx
<1>1. \A i \in 0..(BLF_N + 1) : Xor(c.P[i], StreamWord(key, len, i)) \in Word
  <2> SUFFICES ASSUME NEW i \in 0..(BLF_N + 1)
               PROVE  Xor(c.P[i], StreamWord(key, len, i)) \in Word
    OBVIOUS
  <2>1. i \in Nat /\ i \in 0..17
    BY DEF BLF_N
  <2>2. StreamWord(key, len, i) \in Word
    BY <2>1, StreamWordType
  <2> QED
    BY <2>1, <2>2, SubkeyType, XorType
<1> QED
  BY <1>1 DEF WithKey, blf_ctx

LEMMA Expand0Type ==
  ASSUME NEW c \in blf_ctx, NEW key \in Seq(Byte), Len(key) \in Nat \ {0}, NEW len \in 0..Len(key)
  PROVE  Blowfish_expand0state(c, key, len) \in blf_ctx
<1> DEFINE mix == [n \in MixIndex |-> 0]
<1>1. mix \in [MixIndex -> Word]
  BY Sizes DEF Word
<1> HIDE DEF mix
<1>2. Fill(WithKey(c, key, len), mix) \in blf_ctx
  BY <1>1, WithKeyType, FillType
<1> QED
  BY <1>2 DEF Blowfish_expand0state, mix

\* Whatever the key, blf_key makes a context: the tables of words that encipher
\* and decipher need.
LEMMA KeyType ==
  ASSUME NEW key \in Seq(Byte), Len(key) \in Nat \ {0}
  PROVE  blf_key(key, Len(key)) \in blf_ctx
<1>1. Len(key) \in 0..Len(key)
  OBVIOUS
<1> QED
  BY <1>1, StateAssumption, Expand0Type DEF blf_key

-----------------------------------------------------------------------------
(* Data and its blocks. *)

LEMMA FunctionIsSeq ==
  ASSUME NEW S, NEW n \in Nat, NEW f \in [1..n -> S]
  PROVE  f \in Seq(S) /\ Len(f) = n
OBVIOUS

LEMMA SameWord ==
  ASSUME NEW a, NEW b, \A j \in 1..4 : a[j] = b[j]
  PROVE  WordOf(a) = WordOf(b)
<1>1. a[1] = b[1] /\ a[2] = b[2] /\ a[3] = b[3] /\ a[4] = b[4]
  OBVIOUS
<1> QED
  BY <1>1 DEF WordOf

\* The j-th byte of block k of data.
LEMMA BlockAtBytes ==
  ASSUME NEW bytes \in Seq(Byte), NEW k \in Nat \ {0}, 8 * k <= Len(bytes)
  PROVE  /\ \A j \in 1..4 : /\ SubSeq(bytes, 8 * k - 7, 8 * k - 4)[j] = bytes[8 * k - 8 + j]
                            /\ SubSeq(bytes, 8 * k - 3, 8 * k)[j] = bytes[8 * k - 4 + j]
         /\ \A j \in 1..8 : bytes[8 * k - 8 + j] \in Byte
<1>1. Len(bytes) \in Nat /\ \A i \in 1..Len(bytes) : bytes[i] \in Byte
  BY LenProperties, ElementOfSeq
<1>2. \A j \in 1..8 : 8 * k - 8 + j \in 1..Len(bytes)
  BY <1>1
<1>3. \A i \in (8 * k - 7)..(8 * k) : bytes[i] \in Byte
  BY <1>1
<1>4. \A j \in 1..4 : SubSeq(bytes, 8 * k - 7, 8 * k - 4)[j] = bytes[(8 * k - 7) + j - 1]
  BY <1>3, SubSeqProperties, SMTT(30)
<1>5. \A j \in 1..4 : SubSeq(bytes, 8 * k - 3, 8 * k)[j] = bytes[(8 * k - 3) + j - 1]
  BY <1>3, SubSeqProperties
<1>6. \A j \in 1..4 : (8 * k - 7) + j - 1 = 8 * k - 8 + j /\ (8 * k - 3) + j - 1 = 8 * k - 4 + j
  OBVIOUS
<1>7. \A j \in 1..8 : bytes[8 * k - 8 + j] \in Byte
  BY <1>1, <1>2
<1> QED
  BY <1>4, <1>5, <1>6, <1>7

LEMMA BlockAtType ==
  ASSUME NEW bytes \in Seq(Byte), NEW k \in Nat \ {0}, 8 * k <= Len(bytes)
  PROVE  BlockAt(bytes, k) \in Block
<1> DEFINE l == SubSeq(bytes, 8 * k - 7, 8 * k - 4)
           r == SubSeq(bytes, 8 * k - 3, 8 * k)
<1>0. /\ \A i \in 1..4 : l[i] = bytes[8 * k - 8 + i] /\ r[i] = bytes[8 * k - 4 + i]
      /\ \A i \in 1..8 : bytes[8 * k - 8 + i] \in Byte
  BY BlockAtBytes
<1> HIDE DEF l, r
<1>1. ASSUME NEW j \in 1..4 PROVE l[j] \in Byte /\ r[j] \in Byte
  <2>1. PICK i \in 1..8 : i = 4 + j
    OBVIOUS
  <2>2. 8 * k - 8 + i = 8 * k - 4 + j /\ j \in 1..8
    BY <2>1
  <2> QED
    BY <1>0, <2>2
<1>2. WordOf(l) \in Word /\ WordOf(r) \in Word
  BY <1>1, WordOfType
<1> QED
  BY <1>2 DEF BlockAt, Block, l, r

LEMMA BlockBytesAre ==
  ASSUME NEW x \in Block
  PROVE  /\ \A j \in 1..8 : BlockBytes(x)[j] \in Byte
         /\ \A j \in 1..4 : /\ BlockBytes(x)[j] = BytesOf(x[1])[j]
                            /\ BlockBytes(x)[4 + j] = BytesOf(x[2])[j]
<1>1. x[1] \in Word /\ x[2] \in Word
  BY DEF Block
<1>2. ASSUME NEW w \in Word PROVE BytesOf(w) \in Seq(Byte) /\ Len(BytesOf(w)) = 4
  <2>1. BytesOf(w) \in [1..4 -> Byte]
    BY BytesOfType DEF Bytes4
  <2> QED
    BY <2>1, FunctionIsSeq
<1>3. \A i \in 1..8 : BlockBytes(x)[i] = IF i <= 4 THEN BytesOf(x[1])[i] ELSE BytesOf(x[2])[i - 4]
  <2>1. PICK s \in Seq(Byte) : s = BytesOf(x[1]) /\ Len(s) = 4
    BY <1>1, <1>2
  <2>2. PICK t \in Seq(Byte) : t = BytesOf(x[2]) /\ Len(t) = 4
    BY <1>1, <1>2
  <2>3. \A i \in 1..8 : (s \o t)[i] = IF i <= 4 THEN s[i] ELSE t[i - 4]
    <3>1. \A i \in 1..(Len(s) + Len(t)) :
            (s \o t)[i] = IF i <= Len(s) THEN s[i] ELSE t[i - Len(s)]
      BY ConcatProperties
    <3>2. Len(s) + Len(t) = 8
      BY <2>1, <2>2
    <3> QED
      BY <2>1, <3>1, <3>2
  <2> QED
    BY <2>1, <2>2, <2>3 DEF BlockBytes
<1>4. \A w \in Word : \A j \in 1..4 : BytesOf(w)[j] \in Byte
  BY BytesOfType DEF Bytes4
<1>5. \A j \in 1..4 : BlockBytes(x)[j] = BytesOf(x[1])[j] /\ BlockBytes(x)[4 + j] = BytesOf(x[2])[j]
  BY <1>3
<1>6. \A j \in 1..8 : j \in 1..4 \/ (j - 4 \in 1..4 /\ ~(j <= 4))
  OBVIOUS
<1> QED
  BY <1>1, <1>3, <1>4, <1>5, <1>6

LEMMA DataOfType ==
  ASSUME NEW B \in Nat, NEW block, \A k \in 1..B : block[k] \in Block
  PROVE  /\ DataOf(block, B) \in Seq(Byte)
         /\ Len(DataOf(block, B)) = 8 * B
         /\ Blocks(DataOf(block, B)) = B
         /\ \A k \in 1..B : \A j \in 1..8 :
              DataOf(block, B)[8 * k - 8 + j] = BlockBytes(block[k])[j]
<1> DEFINE d == DataOf(block, B)
<1>1. \A i \in 1..(8 * B) : /\ ((i - 1) \div 8) + 1 \in 1..B
                            /\ ((i - 1) % 8) + 1 \in 1..8
  OBVIOUS
<1>2. \A i \in 1..(8 * B) : d[i] = BlockBytes(block[((i - 1) \div 8) + 1])[((i - 1) % 8) + 1]
  BY DEF DataOf
<1>3. \A i \in 1..(8 * B) : d[i] \in Byte
  BY <1>1, <1>2, BlockBytesAre
<1>4. d = [i \in 1..(8 * B) |-> d[i]]
  BY DEF DataOf
<1>5. d \in [1..(8 * B) -> Byte] /\ 8 * B \in Nat
  BY <1>3, <1>4
<1>6. d \in Seq(Byte) /\ Len(d) = 8 * B
  BY <1>5
<1>7. Blocks(d) = B
  BY <1>6 DEF Blocks
<1>8. ASSUME NEW k \in 1..B, NEW j \in 1..8
      PROVE  d[8 * k - 8 + j] = BlockBytes(block[k])[j]
  <2>1. PICK i \in 1..(8 * B) : i = 8 * k - 8 + j
    OBVIOUS
  <2>2. ((i - 1) \div 8) + 1 = k /\ ((i - 1) % 8) + 1 = j
    BY <2>1
  <2> QED
    BY <1>2, <2>1, <2>2
<1> QED
  BY <1>6, <1>7, <1>8

\* Data put together of blocks is read back as these blocks.
LEMMA BlocksOfData ==
  ASSUME NEW B \in Nat, NEW block, \A k \in 1..B : block[k] \in Block, NEW k \in 1..B
  PROVE  BlockAt(DataOf(block, B), k) = block[k]
<1>1. PICK d \in Seq(Byte) : d = DataOf(block, B)
  BY DataOfType
<1>2. Len(d) = 8 * B /\ \A j \in 1..8 : d[8 * k - 8 + j] = BlockBytes(block[k])[j]
  BY <1>1, DataOfType
<1>3. k \in Nat \ {0} /\ 8 * k <= Len(d)
  BY <1>2
<1>4. block[k] \in Block /\ block[k][1] \in Word /\ block[k][2] \in Word
      /\ block[k] = <<block[k][1], block[k][2]>>
  BY DEF Block
<1> DEFINE l == SubSeq(d, 8 * k - 7, 8 * k - 4)
           r == SubSeq(d, 8 * k - 3, 8 * k)
<1>5. \A j \in 1..4 : l[j] = d[8 * k - 8 + j] /\ r[j] = d[8 * k - 4 + j]
  BY <1>3, BlockAtBytes
<1>6. BlockAt(d, k) = <<WordOf(l), WordOf(r)>>
  BY DEF BlockAt
<1> HIDE DEF l, r
<1>7. \A j \in 1..4 : /\ BlockBytes(block[k])[j] = BytesOf(block[k][1])[j]
                      /\ BlockBytes(block[k])[4 + j] = BytesOf(block[k][2])[j]
  BY <1>4, BlockBytesAre
<1>8. ASSUME NEW j \in 1..4
      PROVE  l[j] = BytesOf(block[k][1])[j] /\ r[j] = BytesOf(block[k][2])[j]
  <2>1. PICK i \in 1..8 : i = 4 + j
    OBVIOUS
  <2>2. 8 * k - 8 + i = 8 * k - 4 + j /\ j \in 1..8
    BY <2>1
  <2>3. d[8 * k - 8 + j] = BlockBytes(block[k])[j] /\ d[8 * k - 8 + i] = BlockBytes(block[k])[i]
    BY <1>2, <2>2
  <2> QED
    BY <1>5, <1>7, <2>1, <2>2, <2>3
<1>9. WordOf(l) = block[k][1] /\ WordOf(r) = block[k][2]
  BY <1>4, <1>8, SameWord, WordOfBytesOf
<1> QED
  BY <1>1, <1>4, <1>6, <1>9

\* Data is what its blocks make.
LEMMA DataOfBlocks ==
  ASSUME NEW B \in Nat, NEW bytes \in Seq(Byte), Len(bytes) = 8 * B, NEW block,
         \A k \in 1..B : block[k] = BlockAt(bytes, k)
  PROVE  DataOf(block, B) = bytes
<1>1. \A k \in 1..B : k \in Nat \ {0} /\ 8 * k <= Len(bytes)
  OBVIOUS
<1>2. \A k \in 1..B : block[k] \in Block
  BY <1>1, BlockAtType
<1> DEFINE d == DataOf(block, B)
<1>3. d \in Seq(Byte)
  BY <1>2, DataOfType
<1>4. Len(d) = 8 * B
      /\ \A k \in 1..B : \A j \in 1..8 : d[8 * k - 8 + j] = BlockBytes(block[k])[j]
  BY <1>2, DataOfType
<1> HIDE DEF d
<1>5. ASSUME NEW k \in 1..B, NEW j \in 1..8
      PROVE  BlockBytes(block[k])[j] = bytes[8 * k - 8 + j]
  <2> DEFINE l == SubSeq(bytes, 8 * k - 7, 8 * k - 4)
             r == SubSeq(bytes, 8 * k - 3, 8 * k)
  <2>1. /\ \A i \in 1..4 : l[i] = bytes[8 * k - 8 + i] /\ r[i] = bytes[8 * k - 4 + i]
        /\ \A i \in 1..8 : bytes[8 * k - 8 + i] \in Byte
    BY <1>1, BlockAtBytes
  <2> HIDE DEF l, r
  <2>2. ASSUME NEW i \in 1..4 PROVE l[i] \in Byte /\ r[i] \in Byte
    <3>1. PICK m \in 1..8 : m = 4 + i
      OBVIOUS
    <3>2. 8 * k - 8 + m = 8 * k - 4 + i /\ i \in 1..8
      BY <3>1
    <3> QED
      BY <2>1, <3>2
  <2>3. block[k][1] = WordOf(l) /\ block[k][2] = WordOf(r)
    BY DEF BlockAt, l, r
  <2>4. \A i \in 1..4 : BytesOf(block[k][1])[i] = l[i] /\ BytesOf(block[k][2])[i] = r[i]
    BY <2>2, <2>3, BytesOfWordOf
  <2>5. \A i \in 1..4 : BlockBytes(block[k])[i] = l[i] /\ BlockBytes(block[k])[4 + i] = r[i]
    BY <1>2, <2>4, BlockBytesAre
  <2>6. CASE j \in 1..4
    BY <2>1, <2>5, <2>6
  <2>7. CASE j \notin 1..4
    <3>1. PICK i \in 1..4 : j = 4 + i
      BY <2>7
    <3>2. 8 * k - 8 + j = 8 * k - 4 + i
      BY <3>1
    <3> QED
      BY <2>1, <2>5, <3>1, <3>2
  <2> QED
    BY <2>6, <2>7
<1>6. ASSUME NEW i \in 1..(8 * B) PROVE d[i] = bytes[i]
  <2>1. PICK k \in 1..B, j \in 1..8 : i = 8 * k - 8 + j
    <3>1. ((i - 1) \div 8) + 1 \in 1..B /\ ((i - 1) % 8) + 1 \in 1..8
      OBVIOUS
    <3>2. i = 8 * (((i - 1) \div 8) + 1) - 8 + (((i - 1) % 8) + 1)
      OBVIOUS
    <3> QED
      BY <3>1, <3>2
  <2> QED
    BY <1>4, <1>5, <2>1
<1>7. d = bytes
  BY <1>3, <1>4, <1>6, SeqEqual
<1> QED
  BY <1>7 DEF d

-----------------------------------------------------------------------------
(* The modes. *)

Whole == {d \in Seq(Byte) : Len(d) = 8 * Blocks(d)}

LEMMA WholeBlocks ==
  ASSUME NEW d \in Whole
  PROVE  /\ d \in Seq(Byte) /\ Blocks(d) \in Nat /\ Len(d) = 8 * Blocks(d)
         /\ \A k \in 1..Blocks(d) : BlockAt(d, k) \in Block
<1>1. d \in Seq(Byte) /\ Len(d) \in Nat /\ Len(d) = 8 * Blocks(d)
  BY LenProperties DEF Whole
<1>2. Blocks(d) \in Nat
  BY <1>1 DEF Blocks
<1>3. \A k \in 1..Blocks(d) : k \in Nat \ {0} /\ 8 * k <= Len(d)
  BY <1>1, <1>2
<1> QED
  BY <1>1, <1>2, <1>3, BlockAtType

LEMMA XorBlockCancels ==
  ASSUME NEW x \in Block, NEW y \in Block
  PROVE  XorBlock(x, y) \in Block /\ XorBlock(XorBlock(x, y), y) = x
<1>1. x[1] \in Word /\ x[2] \in Word /\ y[1] \in Word /\ y[2] \in Word /\ x = <<x[1], x[2]>>
  BY DEF Block
<1>2. /\ Xor(x[1], y[1]) \in Word /\ Xor(x[2], y[2]) \in Word
      /\ Xor(Xor(x[1], y[1]), y[1]) = x[1] /\ Xor(Xor(x[2], y[2]), y[2]) = x[2]
  BY <1>1, XorType, XorCancels
<1> QED
  BY <1>1, <1>2 DEF XorBlock, Block

\* Decryption block by block gives the data back.
LEMMA ECBInverts ==
  ASSUME NEW c \in blf_ctx, NEW d \in Whole
  PROVE  blf_ecb_decrypt(c, blf_ecb_encrypt(c, d)) = d
<1> DEFINE B == Blocks(d)
           cipher == [k \in 1..B |-> Blowfish_encipher(c, BlockAt(d, k))]
           e == DataOf(cipher, B)
           again == [k \in 1..B |-> Blowfish_decipher(c, BlockAt(e, k))]
<1>1. B \in Nat /\ d \in Seq(Byte) /\ Len(d) = 8 * B
      /\ \A k \in 1..B : BlockAt(d, k) \in Block
  BY WholeBlocks
<1> HIDE DEF B
<1>2. \A k \in 1..B : cipher[k] \in Block /\ cipher[k] = Blowfish_encipher(c, BlockAt(d, k))
  BY <1>1, EncipherType
<1> HIDE DEF cipher
<1>3. Blocks(e) = B /\ \A k \in 1..B : BlockAt(e, k) = cipher[k]
  BY <1>1, <1>2, DataOfType, BlocksOfData
<1> HIDE DEF e
<1>4. \A k \in 1..B : again[k] = BlockAt(d, k)
  BY <1>1, <1>2, <1>3, DecipherInverts
<1>5. blf_ecb_decrypt(c, e) = DataOf(again, B)
  BY <1>3 DEF blf_ecb_decrypt
<1> HIDE DEF again
<1>6. DataOf(again, B) = d
  BY <1>1, <1>4, DataOfBlocks
<1>7. blf_ecb_encrypt(c, d) = e
  BY DEF blf_ecb_encrypt, e, cipher, B
<1> QED
  BY <1>5, <1>6, <1>7

\* A block that is written over is read back, and the others are as they were.
LEMMA WithBlockIs ==
  ASSUME NEW d \in Whole, NEW k \in 1..Blocks(d), NEW x \in Block
  PROVE  /\ WithBlock(d, k, x) \in Whole /\ Blocks(WithBlock(d, k, x)) = Blocks(d)
         /\ \A j \in 1..Blocks(d) :
              BlockAt(WithBlock(d, k, x), j) = IF j = k THEN x ELSE BlockAt(d, j)
<1>1. PICK B \in Nat : B = Blocks(d)
  BY WholeBlocks
<1> DEFINE block == [j \in 1..B |-> IF j = k THEN x ELSE BlockAt(d, j)]
<1>2. \A j \in 1..B : block[j] \in Block /\ block[j] = IF j = k THEN x ELSE BlockAt(d, j)
  BY <1>1, WholeBlocks
<1>3. WithBlock(d, k, x) = DataOf(block, B)
  BY <1>1 DEF WithBlock
<1> HIDE DEF block
<1>4. /\ DataOf(block, B) \in Seq(Byte) /\ Len(DataOf(block, B)) = 8 * B
      /\ Blocks(DataOf(block, B)) = B
      /\ \A j \in 1..B : BlockAt(DataOf(block, B), j) = block[j]
  BY <1>2, DataOfType, BlocksOfData
<1> QED
  BY <1>1, <1>2, <1>3, <1>4 DEF Whole

\* Decryption writes over a buffer, block by block from the last to the first:
\* the blocks behind are plain by then, those in front are still encrypted.
LEMMA DecryptedInPlace ==
  ASSUME NEW c \in blf_ctx, NEW v \in Seq(Byte), BlockAt(v, 1) \in Block,
         NEW e \in Whole, NEW B \in Nat, B = Blocks(e),
         NEW block, \A k \in 1..B : block[k] \in Block,
         \A k \in 1..B :
           block[k] = XorBlock(Blowfish_decipher(c, BlockAt(e, k)),
                               IF k = 1 THEN BlockAt(v, 1) ELSE BlockAt(e, k - 1))
  PROVE  blf_cbc_decrypt(c, v, e) = DataOf(block, B)
<1> DEFINE Buffer == {b \in Whole : Blocks(b) = B}
           Next1(n, b) == The({DecryptBlock(c, v, a, B + 1 - n) : a \in {b}})
           buffer[n \in 0..B] == IF n = 0 THEN e ELSE Next1(n, buffer[n - 1])
           step == [n \in 1..B |-> [b \in Buffer |-> Next1(n, b)]]
           Done(n, b) == \A k \in 1..B :
                           BlockAt(b, k) = IF k > B - n THEN block[k] ELSE BlockAt(e, k)
<1>1. ASSUME NEW n \in 1..B, NEW b \in Buffer
      PROVE  /\ Next1(n, b) \in Buffer
             /\ Done(n - 1, b) => Done(n, Next1(n, b))
  <2>1. {DecryptBlock(c, v, a, B + 1 - n) : a \in {b}} = {DecryptBlock(c, v, b, B + 1 - n)}
    OBVIOUS
  <2>2. Next1(n, b) = DecryptBlock(c, v, b, B + 1 - n)
    BY <2>1, TheOne
  <2>3. PICK k \in 1..B : k = B + 1 - n
    OBVIOUS
  <2>4. PICK x : x = XorBlock(Blowfish_decipher(c, BlockAt(b, k)),
                             IF k = 1 THEN BlockAt(v, 1) ELSE BlockAt(b, k - 1))
    OBVIOUS
  <2>5. Next1(n, b) = WithBlock(b, k, x)
    BY <2>2, <2>3, <2>4 DEF DecryptBlock
  <2>6. x \in Block
    <3>1. /\ BlockAt(b, k) \in Block
          /\ (IF k = 1 THEN BlockAt(v, 1) ELSE BlockAt(b, k - 1)) \in Block
      <4>1. \A j \in 1..B : BlockAt(b, j) \in Block
        BY WholeBlocks
      <4>2. k = 1 \/ k - 1 \in 1..B
        OBVIOUS
      <4> QED
        BY <4>1, <4>2
    <3>2. Blowfish_decipher(c, BlockAt(b, k)) \in Block
      BY <3>1, DecipherType
    <3> QED
      BY <2>4, <3>1, <3>2, XorBlockCancels
  <2> HIDE DEF Next1
  <2>7. /\ Next1(n, b) \in Buffer
        /\ \A j \in 1..B : BlockAt(Next1(n, b), j) = IF j = k THEN x ELSE BlockAt(b, j)
    BY <2>5, <2>6, WithBlockIs
  <2>8. ASSUME Done(n - 1, b) PROVE Done(n, Next1(n, b))
    <3>1. \A j \in 1..B : /\ j > B - (n - 1) <=> j > k
                          /\ j > B - n <=> j >= k
      BY <2>3
    <3>2. BlockAt(b, k) = BlockAt(e, k) /\ (k # 1 => BlockAt(b, k - 1) = BlockAt(e, k - 1))
      <4>1. ~(k > k) /\ (k # 1 => k - 1 \in 1..B /\ ~(k - 1 > k))
        OBVIOUS
      <4> QED
        BY <2>8, <3>1, <4>1
    <3>3. x = block[k]
      BY <2>4, <3>2
    <3>4. ASSUME NEW j \in 1..B
          PROVE  BlockAt(Next1(n, b), j) = IF j > B - n THEN block[j] ELSE BlockAt(e, j)
      <4>1. j >= k <=> j = k \/ j > k
        OBVIOUS
      <4>2. BlockAt(b, j) = IF j > k THEN block[j] ELSE BlockAt(e, j)
        BY <2>8, <3>1
      <4>3. BlockAt(Next1(n, b), j) = IF j = k THEN block[k] ELSE BlockAt(b, j)
        BY <2>7, <3>3
      <4> QED
        BY <3>1, <4>1, <4>2, <4>3
    <3> QED
      BY <3>4
  <2> QED
    BY <2>7, <2>8
<1> HIDE DEF Next1
<1>2. e \in Buffer
  OBVIOUS
<1>3. buffer = [n \in 0..B |-> IF n = 0 THEN e ELSE Next1(n, buffer[n - 1])]
  <2>1. step \in [1..B -> [Buffer -> Buffer]]
        /\ \A n \in 1..B : \A b \in Buffer : step[n][b] = Next1(n, b)
    BY <1>1
  <2> HIDE DEF step, Buffer
  <2>2. Recursive(Buffer, B, e, step)
    BY <1>2, <2>1, RecursionExists
  <2>3. PICK f \in [0..B -> Buffer] : f[0] = e /\ \A n \in 1..B : f[n] = step[n][f[n - 1]]
    BY <2>2 DEF Recursive
  <2>4. \A n \in 1..B : f[n] = Next1(n, f[n - 1])
    <3>1. \A n \in 1..B : f[n - 1] \in Buffer
      OBVIOUS
    <3> QED
      BY <2>1, <2>3, <3>1
  <2>5. f = [n \in 0..B |-> IF n = 0 THEN e ELSE Next1(n, f[n - 1])]
    BY <2>3, <2>4
  <2> QED
    BY <2>5
<1>4. blf_cbc_decrypt(c, v, e) = buffer[B]
  BY DEF blf_cbc_decrypt, Next1
<1> HIDE DEF buffer
<1>5. buffer[0] = e /\ \A n \in 1..B : buffer[n] = Next1(n, buffer[n - 1])
  BY <1>3
<1> DEFINE Ready == {pair \in (0..B) \X Buffer : Done(pair[1], pair[2])}
           paired == [n \in 0..B |-> <<n, buffer[n]>>]
<1>6. Done(0, e)
  <2>1. \A k \in 1..B : ~(k > B - 0)
    OBVIOUS
  <2> QED
    BY <2>1
<1> HIDE DEF Done
<1>7. \A n \in 0..B : paired[n] \in Ready
  <2>1. paired[0] \in Ready
    BY <1>2, <1>5, <1>6
  <2>2. ASSUME NEW n \in 1..B, paired[n - 1] \in Ready PROVE paired[n] \in Ready
    <3>1. paired[n - 1] = <<n - 1, buffer[n - 1]>> /\ paired[n] = <<n, buffer[n]>>
      OBVIOUS
    <3>2. buffer[n - 1] \in Buffer /\ Done(n - 1, buffer[n - 1])
      BY <2>2, <3>1
    <3>3. buffer[n] \in Buffer /\ Done(n, buffer[n])
      BY <1>1, <1>5, <3>2
    <3> QED
      BY <3>1, <3>3
  <2> HIDE DEF Ready, paired
  <2> QED
    BY <2>1, <2>2, RecursionType
<1>8. buffer[B] \in Whole /\ Blocks(buffer[B]) = B /\ Done(B, buffer[B])
  <2>1. B \in 0..B /\ paired[B] = <<B, buffer[B]>>
    OBVIOUS
  <2>2. <<B, buffer[B]>> \in Ready
    BY <1>7, <2>1
  <2> QED
    BY <2>2
<1>9. \A k \in 1..B : block[k] = BlockAt(buffer[B], k)
  <2>1. \A k \in 1..B : k > B - B
    OBVIOUS
  <2> QED
    BY <1>8, <2>1 DEF Done
<1>10. buffer[B] \in Seq(Byte) /\ Len(buffer[B]) = 8 * B
  BY <1>8, WholeBlocks
<1> HIDE DEF Buffer
<1>11. DataOf(block, B) = buffer[B]
  BY <1>9, <1>10, DataOfBlocks
<1> QED
  BY <1>4, <1>11

\* So does decryption of a chain, which starts with the initial vector.
LEMMA CBCInverts ==
  ASSUME NEW c \in blf_ctx, NEW d \in Whole, NEW v \in Seq(Byte), Len(v) = 8
  PROVE  blf_cbc_decrypt(c, v, blf_cbc_encrypt(c, v, d)) = d
<1> DEFINE B == Blocks(d)
           Chained(k, x) == Blowfish_encipher(c, XorBlock(BlockAt(d, k), x))
           cipher[k \in 0..B] == IF k = 0 THEN BlockAt(v, 1) ELSE Chained(k, cipher[k - 1])
           step == [k \in 1..B |-> [x \in Block |-> Chained(k, x)]]
           e == DataOf(cipher, B)
           again == [k \in 1..B |->
                       XorBlock(Blowfish_decipher(c, BlockAt(e, k)),
                                IF k = 1 THEN BlockAt(v, 1) ELSE BlockAt(e, k - 1))]
<1>1. B \in Nat /\ d \in Seq(Byte) /\ Len(d) = 8 * B
      /\ \A k \in 1..B : BlockAt(d, k) \in Block
  BY WholeBlocks
<1>2. BlockAt(v, 1) \in Block
  <2>1. PICK k \in Nat \ {0} : k = 1
    OBVIOUS
  <2>2. 8 * k <= Len(v)
    BY <2>1
  <2>3. BlockAt(v, k) \in Block
    BY <2>2, BlockAtType
  <2> QED
    BY <2>1, <2>3
<1> HIDE DEF B
<1>3. \A k \in 1..B : \A x \in Block : Chained(k, x) \in Block
  BY <1>1, XorBlockCancels, EncipherType
<1>4. \A k \in 1..B : \A x \in Block :
        Blowfish_decipher(c, Chained(k, x)) = XorBlock(BlockAt(d, k), x)
  BY <1>1, XorBlockCancels, DecipherInverts
<1> HIDE DEF Chained
<1>5. cipher = [k \in 0..B |-> IF k = 0 THEN BlockAt(v, 1) ELSE Chained(k, cipher[k - 1])]
  <2>1. step \in [1..B -> [Block -> Block]]
        /\ \A k \in 1..B : \A x \in Block : step[k][x] = Chained(k, x)
    BY <1>3
  <2> HIDE DEF step
  <2>2. Recursive(Block, B, BlockAt(v, 1), step)
    BY <1>1, <1>2, <2>1, RecursionExists
  <2>3. PICK f \in [0..B -> Block] : f[0] = BlockAt(v, 1)
                                 /\ \A k \in 1..B : f[k] = step[k][f[k - 1]]
    BY <2>2 DEF Recursive
  <2>4. \A k \in 1..B : f[k] = Chained(k, f[k - 1])
    <3>1. \A k \in 1..B : f[k - 1] \in Block
      BY <1>1
    <3> QED
      BY <2>1, <2>3, <3>1
  <2>5. f = [k \in 0..B |-> IF k = 0 THEN BlockAt(v, 1) ELSE Chained(k, f[k - 1])]
    BY <1>1, <2>3, <2>4
  <2> QED
    BY <2>5
<1>6. blf_cbc_encrypt(c, v, d) = e
  BY DEF blf_cbc_encrypt, B, Chained
<1> HIDE DEF cipher
<1>7. cipher[0] = BlockAt(v, 1) /\ \A k \in 1..B : cipher[k] = Chained(k, cipher[k - 1])
  BY <1>1, <1>5
<1>8. \A k \in 0..B : cipher[k] \in Block
  <2>1. \A k \in 1..B : cipher[k - 1] \in Block => cipher[k] \in Block
    BY <1>3, <1>7
  <2>2. cipher[0] \in Block
    BY <1>2, <1>7
  <2> QED
    BY <1>1, <2>1, <2>2, RecursionType
<1>9. \A k \in 1..B : cipher[k] \in Block /\ cipher[k - 1] \in Block
  BY <1>1, <1>8
<1>10. Blocks(e) = B /\ \A k \in 1..B : BlockAt(e, k) = cipher[k]
  BY <1>1, <1>9, DataOfType, BlocksOfData
<1> HIDE DEF e
<1>11. \A k \in 1..B : cipher[k - 1] = IF k = 1 THEN BlockAt(v, 1) ELSE BlockAt(e, k - 1)
  BY <1>1, <1>7, <1>10
<1>12. \A k \in 1..B : Blowfish_decipher(c, cipher[k]) = XorBlock(BlockAt(d, k), cipher[k - 1])
  BY <1>4, <1>7, <1>9
<1>13. \A k \in 1..B : again[k] = BlockAt(d, k)
  BY <1>1, <1>9, <1>10, <1>11, <1>12, XorBlockCancels
<1>14. blf_cbc_decrypt(c, v, e) = DataOf(again, B)
  <2>1. \A k \in 1..B :
          again[k] = XorBlock(Blowfish_decipher(c, BlockAt(e, k)),
                              IF k = 1 THEN BlockAt(v, 1) ELSE BlockAt(e, k - 1))
    OBVIOUS
  <2> HIDE DEF again
  <2>2. e \in Whole
    BY <1>1, <1>9, <1>10, DataOfType DEF e, Whole
  <2>3. \A k \in 1..B : again[k] \in Block
    BY <1>1, <1>13
  <2>4. B = Blocks(e)
    BY <1>10
  <2> QED
    BY <1>1, <1>2, <2>1, <2>2, <2>3, <2>4, DecryptedInPlace
<1> HIDE DEF again
<1>15. DataOf(again, B) = d
  BY <1>1, <1>13, DataOfBlocks
<1> QED
  BY <1>6, <1>14, <1>15

-----------------------------------------------------------------------------
(* The invariant of the buffer. *)

CipherInv ==
  /\ mode \in {"nothing", "plain", "ecb", "cbc"}
  /\ mode # "nothing" => ctx \in blf_ctx /\ plain \in Whole /\ iv \in Seq(Byte) /\ Len(iv) = 8
  /\ mode = "plain" => data = plain
  /\ mode = "ecb" => data = blf_ecb_encrypt(ctx, plain)
  /\ mode = "cbc" => data = blf_cbc_encrypt(ctx, iv, plain)

LEMMA LoadType ==
  ASSUME Load
  PROVE  ctx' \in blf_ctx /\ plain' \in Whole /\ iv' \in Seq(Byte) /\ Len(iv') = 8
<1>1. PICK k \in Keys : ctx' = blf_key(k, Len(k))
  BY DEF Load
<1>2. k \in Seq(Byte) /\ Len(k) \in Nat \ {0}
  BY KeysAssumption, LenProperties
<1>3. ctx' \in blf_ctx
  BY <1>1, <1>2, KeyType
<1> QED
  BY <1>3, DataAssumption DEF Load, Whole

\* DecryptionInverts: whatever is loaded, encrypted and decrypted, in any
\* order of the modes, the buffer is back what it was before.
THEOREM DataDecrypted == Spec => []DecryptionInverts
<1>1. Init => CipherInv
  BY DEF Init, CipherInv
<1>2. ASSUME CipherInv, [Next]_vars PROVE CipherInv'
  <2>1. CASE Load
    BY <2>1, LoadType DEF Load, CipherInv
  <2>2. CASE EncryptECB
    BY <1>2, <2>2 DEF EncryptECB, CipherInv
  <2>3. CASE EncryptCBC
    BY <1>2, <2>3 DEF EncryptCBC, CipherInv
  <2>4. CASE DecryptECB
    BY <1>2, <2>4, ECBInverts DEF DecryptECB, CipherInv
  <2>5. CASE DecryptCBC
    BY <1>2, <2>5, CBCInverts DEF DecryptCBC, CipherInv
  <2>6. CASE Unload
    BY <2>6 DEF Unload, CipherInv
  <2>7. CASE UNCHANGED modes
    BY <1>2, <2>7 DEF modes, CipherInv
  <2>8. Register \/ Import \/ Damage \/ LogIn \/ Answer \/ UNCHANGED vars => UNCHANGED modes
    BY DEF Register, Import, Damage, LogIn, Answer, vars, modes
  <2> QED
    BY <1>2, <2>1, <2>2, <2>3, <2>4, <2>5, <2>6, <2>7, <2>8 DEF Next
<1>3. CipherInv => DecryptionInverts
  BY DEF CipherInv, DecryptionInverts
<1> QED
  BY <1>1, <1>2, <1>3, PTL DEF Spec
=============================================================================
