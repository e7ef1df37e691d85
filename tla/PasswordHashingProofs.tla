----------------------- MODULE PasswordHashingProofs -----------------------
(***************************************************************************)
(* A text that bcrypt made is read back as what it was made of, so the     *)
(* password it was made of is let in, for any salt, cost and password, any *)
(* tables of the cipher and any number of rounds.                          *)
(***************************************************************************)
EXTENDS CipherProofs, FiniteSetTheorems

-----------------------------------------------------------------------------
(* Base 64. *)

LEMMA QuarterValues == Quarter = 2 \/ Quarter = 3 \/ Quarter = 4
BY QuarterAssumption, AlphabetAssumption

LEMMA CodeSizes ==
  \/ Quarter = 2 /\ Quarter * Quarter = 4 /\ Codes = 8 /\ Base = 16
  \/ Quarter = 3 /\ Quarter * Quarter = 9 /\ Codes = 27 /\ Base = 81
  \/ Quarter = 4 /\ Quarter * Quarter = 16 /\ Codes = 64 /\ Base = 256
BY QuarterValues DEF Codes, Base

\* The four codes of three bytes.
Code1(b1) == b1 \div Quarter
Code2(b1, b2) == (b1 % Quarter) * Quarter * Quarter + b2 \div (Quarter * Quarter)
Code3(b2, b3) == (b2 % (Quarter * Quarter)) * Quarter + b3 \div Codes
Code4(b3) == b3 % Codes

LEMMA CodesInRange ==
  ASSUME NEW b1 \in Byte, NEW b2 \in Byte, NEW b3 \in Byte
  PROVE  /\ Code1(b1) \in 0..(Codes - 1) /\ Code2(b1, b2) \in 0..(Codes - 1)
         /\ Code3(b2, b3) \in 0..(Codes - 1) /\ Code4(b3) \in 0..(Codes - 1)
<1> USE DEF Byte
<1>1. CASE Quarter = 2
  BY <1>1, CodeSizes DEF Code1, Code2, Code3, Code4
<1>2. CASE Quarter = 3
  BY <1>2, CodeSizes DEF Code1, Code2, Code3, Code4
<1>3. CASE Quarter = 4
  BY <1>3, CodeSizes DEF Code1, Code2, Code3, Code4
<1> QED
  BY <1>1, <1>2, <1>3, QuarterValues

\* Each byte comes back from the two codes it was cut into.
LEMMA CodesUndone ==
  ASSUME NEW b1 \in Byte, NEW b2 \in Byte, NEW b3 \in Byte
  PROVE  /\ Code1(b1) * Quarter + Code2(b1, b2) \div (Quarter * Quarter) = b1
         /\ (Code2(b1, b2) % (Quarter * Quarter)) * Quarter * Quarter
              + Code3(b2, b3) \div Quarter = b2
         /\ (Code3(b2, b3) % Quarter) * Codes + Code4(b3) = b3
<1> USE DEF Byte
<1>1. CASE Quarter = 2
  BY <1>1, CodeSizes DEF Code1, Code2, Code3, Code4
<1>2. CASE Quarter = 3
  BY <1>2, CodeSizes DEF Code1, Code2, Code3, Code4
<1>3. CASE Quarter = 4
  BY <1>3, CodeSizes DEF Code1, Code2, Code3, Code4
<1> QED
  BY <1>1, <1>2, <1>3, QuarterValues

LEMMA CharactersDiffer ==
  ASSUME NEW m \in 0..(Codes - 1), NEW n \in 0..(Codes - 1), Base64Code(m) = Base64Code(n)
  PROVE  m = n
BY CodeSizes DEF Base64Code

LEMMA CharacterReadBack ==
  ASSUME NEW n \in 0..(Codes - 1)
  PROVE  Valid(Base64Code(n)) /\ CHAR64(Base64Code(n)) = n /\ Base64Code(n) \in Nat
<1>1. Base64Code(n) \in Nat
  BY CodeSizes DEF Base64Code
<1>2. \A m \in 0..(Codes - 1) : Base64Code(m) = Base64Code(n) => m = n
  BY CharactersDiffer
<1> QED
  BY <1>1, <1>2 DEF Valid, CHAR64

LEMMA PowerOfTwo == ASSUME NEW n \in Nat PROVE 2 ^ n \in Nat
<1>1. IsFiniteSet(1..n) /\ Cardinality(1..n) = n
  BY FS_Interval
<1>2. IsFiniteSet(SUBSET (1..n)) /\ Cardinality(SUBSET (1..n)) = 2 ^ Cardinality(1..n)
  BY <1>1, FS_SUBSET
<1> QED
  BY <1>1, <1>2, FS_CardinalityType

\* A group of bytes becomes one code more than it has bytes, and comes back
\* from any codes that begin with these.
LEMMA GroupReadBack ==
  ASSUME NEW b \in Seq(Byte), Len(b) \in 1..3
  PROVE  /\ EncodeGroup(b) \in Seq(0..(Codes - 1))
         /\ Len(EncodeGroup(b)) = Len(b) + 1
         /\ \A c : (\A k \in 1..(Len(b) + 1) : c[k] = EncodeGroup(b)[k]) =>
                    \A r \in 1..Len(b) : DecodeGroup(c)[r] = b[r]
<1>1. DOMAIN b = 1..Len(b) /\ \A k \in 1..Len(b) : b[k] \in Byte
  BY LenProperties, ElementOfSeq
<1>2. 0 \in Byte
  BY BaseType DEF Byte
<1> DEFINE byte(k) == IF k \in DOMAIN b THEN b[k] ELSE 0
<1>3. PICK b1 \in Byte : b1 = byte(1)
  BY <1>1, <1>2
<1>4. PICK b2 \in Byte : b2 = byte(2)
  BY <1>1, <1>2
<1>5. PICK b3 \in Byte : b3 = byte(3)
  BY <1>1, <1>2
<1>6. PICK all : all = <<Code1(b1), Code2(b1, b2), Code3(b2, b3), Code4(b3)>>
  OBVIOUS
<1>7. EncodeGroup(b) = SubSeq(all, 1, Len(b) + 1)
  BY <1>3, <1>4, <1>5, <1>6 DEF EncodeGroup, Code1, Code2, Code3, Code4
<1>8. /\ all[1] = Code1(b1) /\ all[2] = Code2(b1, b2)
      /\ all[3] = Code3(b2, b3) /\ all[4] = Code4(b3)
  BY <1>6
<1>9. /\ all[1] \in 0..(Codes - 1) /\ all[2] \in 0..(Codes - 1)
      /\ all[3] \in 0..(Codes - 1) /\ all[4] \in 0..(Codes - 1)
  BY <1>8, CodesInRange
<1> HIDE DEF byte
<1>10. PICK n : n = Len(b) /\ n \in 1..3
  OBVIOUS
<1>11. \A i \in 1..(n + 1) : all[i] \in 0..(Codes - 1)
  BY <1>9, <1>10
<1>12. PICK e : e = EncodeGroup(b)
  OBVIOUS
<1>13. /\ e \in Seq(0..(Codes - 1)) /\ Len(e) = n + 1
       /\ \A k \in 1..(n + 1) : e[k] = all[k]
  <2>1. e = SubSeq(all, 1, n + 1)
    BY <1>7, <1>10, <1>12
  <2>2. /\ SubSeq(all, 1, n + 1) \in Seq(0..(Codes - 1))
        /\ Len(SubSeq(all, 1, n + 1)) = n + 1
        /\ \A k \in 1..((n + 1) - 1 + 1) : SubSeq(all, 1, n + 1)[k] = all[1 + k - 1]
    BY <1>10, <1>11, SubSeqProperties
  <2>3. 1..((n + 1) - 1 + 1) = 1..(n + 1) /\ \A k \in 1..(n + 1) : 1 + k - 1 = k
    BY <1>10
  <2> QED
    BY <2>1, <2>2, <2>3
<1>14. ASSUME NEW c, \A k \in 1..(n + 1) : c[k] = e[k], NEW r \in 1..n
       PROVE  DecodeGroup(c)[r] = b[r]
  <2>1. \A k \in 1..(n + 1) : c[k] = all[k]
    BY <1>13, <1>14
  <2>2. CASE r = 1
    <3>1. c[1] = Code1(b1) /\ c[2] = Code2(b1, b2)
      BY <1>8, <1>10, <2>1
    <3>2. b1 = b[1]
      BY <1>1, <1>3, <1>10 DEF byte
    <3>3. DecodeGroup(c)[1] = c[1] * Quarter + c[2] \div (Quarter * Quarter)
      BY DEF DecodeGroup
    <3> QED
      BY <2>2, <3>1, <3>2, <3>3, CodesUndone
  <2>3. CASE r = 2
    <3>1. c[2] = Code2(b1, b2) /\ c[3] = Code3(b2, b3)
      BY <1>8, <1>10, <2>1, <2>3
    <3>2. b2 = b[2]
      BY <1>1, <1>4, <1>10, <2>3 DEF byte
    <3>3. DecodeGroup(c)[2] =
            (c[2] % (Quarter * Quarter)) * Quarter * Quarter + c[3] \div Quarter
      BY DEF DecodeGroup
    <3> QED
      BY <2>3, <3>1, <3>2, <3>3, CodesUndone
  <2>4. CASE r = 3
    <3>1. c[3] = Code3(b2, b3) /\ c[4] = Code4(b3)
      BY <1>8, <1>10, <2>1, <2>4
    <3>2. b3 = b[3]
      BY <1>1, <1>5, <1>10, <2>4 DEF byte
    <3>3. DecodeGroup(c)[3] = (c[3] % Quarter) * Codes + c[4]
      BY DEF DecodeGroup
    <3> QED
      BY <2>4, <3>1, <3>2, <3>3, CodesUndone
  <2> QED
    BY <1>10, <2>2, <2>3, <2>4
<1> QED
  BY <1>10, <1>12, <1>13, <1>14

\* What the first n sequences make, when all but the last have four elements.
FlatTo(f, seqs, n) ==
  /\ Len(f) = 4 * (n - 1) + Len(seqs[n])
  /\ \A g \in 1..n : \A k \in 1..Len(seqs[g]) : f[4 * (g - 1) + k] = seqs[g][k]

LEMMA FlatOne ==
  ASSUME NEW S, NEW seqs, seqs[1] \in Seq(S)
  PROVE  FlatTo(seqs[1], seqs, 1)
<1>1. Len(seqs[1]) \in Nat
  BY LenProperties
<1>2. \A k \in 1..Len(seqs[1]) : 4 * (1 - 1) + k = k
  BY <1>1
<1> QED
  BY <1>1, <1>2 DEF FlatTo

LEMMA FlatNext ==
  ASSUME NEW S, NEW n \in Nat \ {0}, NEW seqs, NEW f \in Seq(S),
         \A g \in 1..(n + 1) : seqs[g] \in Seq(S),
         \A g \in 1..n : Len(seqs[g]) = 4, FlatTo(f, seqs, n)
  PROVE  FlatTo(f \o seqs[n + 1], seqs, n + 1)
<1>0. n + 1 \in 1..(n + 1) /\ n \in 1..n
  OBVIOUS
<1>1. PICK r \in Seq(S) : r = seqs[n + 1]
  BY <1>0
<1> DEFINE m == Len(r)
<1>2. m \in Nat /\ Len(f) = 4 * n
  <2>1. Len(seqs[n]) = 4
    BY <1>0
  <2> QED
    BY <2>1, LenProperties DEF FlatTo
<1> HIDE DEF m
<1>3. PICK h \in Seq(S) : h = f \o r
  BY ConcatProperties
<1>4. /\ Len(h) = 4 * n + m
      /\ \A i \in 1..(4 * n + m) :
           h[i] = IF i <= 4 * n THEN f[i] ELSE r[i - 4 * n]
  <2>1. /\ Len(f \o r) = Len(f) + Len(r)
        /\ \A i \in 1..(Len(f) + Len(r)) :
             (f \o r)[i] = IF i <= Len(f) THEN f[i] ELSE r[i - Len(f)]
    BY ConcatProperties
  <2> QED
    BY <1>2, <1>3, <2>1 DEF m
<1>5. ASSUME NEW g \in 1..(n + 1), NEW k \in 1..Len(seqs[g])
      PROVE  h[4 * (g - 1) + k] = seqs[g][k]
  <2>1. CASE g \in 1..n
    <3>1. k \in 1..4
      BY <2>1, <1>5
    <3>2. 4 * (g - 1) + k \in 1..(4 * n)
      BY <2>1, <3>1
    <3>3. PICK i \in 1..(4 * n) : i = 4 * (g - 1) + k
      BY <3>2
    <3>4. h[i] = f[i]
      BY <1>2, <1>4
    <3> QED
      BY <1>5, <2>1, <3>3, <3>4 DEF FlatTo
  <2>2. CASE g = n + 1
    <3>1. k \in 1..m /\ 4 * (g - 1) + k = 4 * n + k
      BY <1>1, <1>5, <2>2 DEF m
    <3>2. 4 * n + k \in 1..(4 * n + m) /\ ~(4 * n + k <= 4 * n) /\ (4 * n + k) - 4 * n = k
      BY <1>2, <3>1
    <3>3. h[4 * n + k] = seqs[n + 1][k]
      BY <1>1, <1>4, <3>2
    <3> QED
      BY <2>2, <3>1, <3>3
  <2> QED
    BY <2>1, <2>2
<1>6. Len(h) = 4 * ((n + 1) - 1) + Len(seqs[n + 1])
  BY <1>1, <1>4 DEF m
<1> QED
  BY <1>1, <1>3, <1>5, <1>6 DEF FlatTo

LEMMA Flattened ==
  ASSUME NEW S, NEW N \in Nat \ {0}, NEW seqs \in [1..N -> Seq(S)],
         \A g \in 1..(N - 1) : Len(seqs[g]) = 4
  PROVE  FlattenSeq(seqs) \in Seq(S) /\ FlatTo(FlattenSeq(seqs), seqs, N)
<1> DEFINE flatten[i \in 1..N] == IF i = 1 THEN seqs[i] ELSE flatten[i - 1] \o seqs[i]
           step == [n \in 1..(N - 1) |-> [v \in Seq(S) |-> v \o seqs[n + 1]]]
<1>1. Len(seqs) = N
  OBVIOUS
<1>2. step \in [1..(N - 1) -> [Seq(S) -> Seq(S)]]
  BY ConcatProperties
<1>3. \A n \in 1..(N - 1) : \A v \in Seq(S) : step[n][v] = v \o seqs[n + 1]
  OBVIOUS
<1> HIDE DEF step
<1>4. PICK f \in [0..(N - 1) -> Seq(S)] :
        f[0] = seqs[1] /\ \A n \in 1..(N - 1) : f[n] = step[n][f[n - 1]]
  <2>1. Recursive(Seq(S), N - 1, seqs[1], step)
    BY <1>2, RecursionExists
  <2> QED
    BY <2>1 DEF Recursive
<1> DEFINE h == [i \in 1..N |-> f[i - 1]]
<1>5. h = [i \in 1..N |-> IF i = 1 THEN seqs[i] ELSE h[i - 1] \o seqs[i]]
  <2>1. ASSUME NEW i \in 1..N, i # 1 PROVE h[i] = h[i - 1] \o seqs[i]
    <3>1. i - 1 \in 1..(N - 1) /\ i - 1 \in 1..N /\ (i - 1) + 1 = i
      BY <2>1
    <3>2. f[i - 1] = f[(i - 1) - 1] \o seqs[i]
      <4>1. f[(i - 1) - 1] \in Seq(S)
        BY <3>1
      <4> QED
        BY <1>3, <1>4, <3>1, <4>1
    <3> QED
      BY <3>1, <3>2
  <2>2. h[1] = seqs[1]
    BY <1>4
  <2>3. h = [i \in 1..N |-> h[i]]
    OBVIOUS
  <2> HIDE DEF h
  <2> QED
    BY <2>1, <2>2, <2>3
<1> HIDE DEF h
<1>6. flatten = [i \in 1..N |-> IF i = 1 THEN seqs[i] ELSE flatten[i - 1] \o seqs[i]]
  BY <1>5
<1>7. FlattenSeq(seqs) = flatten[N]
  BY <1>1 DEF FlattenSeq
<1> HIDE DEF flatten
<1> DEFINE Good == {n \in Nat : n + 1 <= N =>
                      flatten[n + 1] \in Seq(S) /\ FlatTo(flatten[n + 1], seqs, n + 1)}
<1>8. 0 \in Good
  <2>1. flatten[1] = seqs[1] /\ seqs[1] \in Seq(S) /\ 0 + 1 = 1
    BY <1>6
  <2>2. FlatTo(flatten[1], seqs, 1)
    BY <2>1, FlatOne
  <2> QED
    BY <2>1, <2>2
<1>9. ASSUME NEW n \in Good PROVE n + 1 \in Good
  <2> SUFFICES ASSUME (n + 1) + 1 <= N
               PROVE  /\ flatten[(n + 1) + 1] \in Seq(S)
                      /\ FlatTo(flatten[(n + 1) + 1], seqs, (n + 1) + 1)
    BY <1>9
  <2>1. PICK m \in Nat \ {0} : m = n + 1
    BY <1>9
  <2>2. flatten[m] \in Seq(S) /\ FlatTo(flatten[m], seqs, m) /\ m + 1 <= N
    BY <1>9, <2>1
  <2>3. flatten[m + 1] = flatten[m] \o seqs[m + 1]
    <3>1. m + 1 \in 1..N /\ m + 1 # 1 /\ (m + 1) - 1 = m
      BY <2>2
    <3> QED
      BY <1>6, <3>1
  <2>4. /\ \A g \in 1..(m + 1) : seqs[g] \in Seq(S)
        /\ \A g \in 1..m : Len(seqs[g]) = 4
        /\ seqs[m + 1] \in Seq(S)
    BY <2>2
  <2>5. flatten[m + 1] \in Seq(S)
    BY <2>2, <2>3, <2>4, ConcatProperties
  <2>6. FlatTo(flatten[m + 1], seqs, m + 1)
    <3>1. FlatTo(flatten[m] \o seqs[m + 1], seqs, m + 1)
      BY <2>2, <2>4, FlatNext
    <3> QED
      BY <2>3, <3>1
  <2> QED
    BY <2>1, <2>5, <2>6
<1>10. Good = Nat
  <2> HIDE DEF Good
  <2>1. Good \in SUBSET Nat
    BY DEF Good
  <2> QED
    BY <1>8, <1>9, <2>1, SetInduction
<1>11. N - 1 \in Nat /\ (N - 1) + 1 = N /\ N <= N
  OBVIOUS
<1>12. flatten[N] \in Seq(S) /\ FlatTo(flatten[N], seqs, N)
  BY <1>10, <1>11
<1> QED
  BY <1>7, <1>12

-----------------------------------------------------------------------------
(* Sequences of characters. *)

\* Bytes first to last of the group g.
GroupOf(bytes, len, g) == SubSeq(bytes, 3 * g - 2, AtMost(3 * g, len))

LEMMA GroupBytes ==
  ASSUME NEW bytes \in Seq(Byte), NEW len \in Nat \ {0}, len <= Len(bytes),
         NEW g \in 1..Groups(len)
  PROVE  /\ GroupOf(bytes, len, g) \in Seq(Byte)
         /\ Len(GroupOf(bytes, len, g)) \in 1..3
         /\ g < Groups(len) => Len(GroupOf(bytes, len, g)) = 3
         /\ g = Groups(len) => Len(GroupOf(bytes, len, g)) = len - 3 * (g - 1)
         /\ \A r \in 1..Len(GroupOf(bytes, len, g)) :
              GroupOf(bytes, len, g)[r] = bytes[3 * (g - 1) + r]
<1>1. PICK G \in Nat \ {0} : G = Groups(len) /\ 3 * G - 2 <= len /\ len <= 3 * G
  BY DEF Groups
<1>2. g \in 1..G
  BY <1>1
<1>3. PICK last \in Nat : last = AtMost(3 * g, len)
  BY <1>2 DEF AtMost
<1>4. /\ 3 * g - 2 <= last /\ last <= 3 * g /\ last <= len
      /\ g < G => last = 3 * g
      /\ g = G => last = len
  BY <1>1, <1>2, <1>3 DEF AtMost
<1>5. PICK first \in Nat \ {0} : first = 3 * g - 2
  BY <1>2
<1>6. \A i \in first..last : bytes[i] \in Byte
  <2>1. Len(bytes) \in Nat
    BY LenProperties
  <2>2. \A i \in first..last : i \in 1..Len(bytes)
    BY <1>4, <1>5, <2>1
  <2> QED
    BY <2>2, ElementOfSeq
<1>7. PICK b : b = SubSeq(bytes, first, last)
  OBVIOUS
<1>8. /\ b \in Seq(Byte) /\ Len(b) = last - first + 1
      /\ \A i \in 1..(last - first + 1) : b[i] = bytes[first + i - 1]
  <2>1. first <= last
    BY <1>4, <1>5
  <2> QED
    BY <1>6, <1>7, <2>1, SubSeqProperties
<1>9. ASSUME NEW r \in 1..Len(b) PROVE b[r] = bytes[3 * (g - 1) + r]
  <2>1. r \in 1..(last - first + 1) /\ first + r - 1 = 3 * (g - 1) + r
    BY <1>2, <1>5, <1>8
  <2> QED
    BY <1>8, <2>1
<1>10. GroupOf(bytes, len, g) = b
  BY <1>3, <1>5, <1>7 DEF GroupOf
<1>11. PICK n \in Nat : n = Len(b) /\ n = last - first + 1
  BY <1>4, <1>5, <1>8
<1>12. /\ n \in 1..3
       /\ g < G => n = 3
       /\ g = G => n = len - 3 * (g - 1)
  BY <1>1, <1>2, <1>4, <1>5, <1>11
<1> QED
  BY <1>1, <1>8, <1>9, <1>10, <1>11, <1>12

\* The characters of a group.
GroupText(bytes, len, g) ==
  LET codes == EncodeGroup(GroupOf(bytes, len, g))
  IN [k \in DOMAIN codes |-> Base64Code(codes[k])]

LEMMA GroupTextType ==
  ASSUME NEW bytes \in Seq(Byte), NEW len \in Nat \ {0}, len <= Len(bytes),
         NEW g \in 1..Groups(len)
  PROVE  /\ GroupText(bytes, len, g) \in Seq(Characters64)
         /\ Len(GroupText(bytes, len, g)) = Len(GroupOf(bytes, len, g)) + 1
         /\ \A k \in 1..(Len(GroupOf(bytes, len, g)) + 1) :
              /\ GroupText(bytes, len, g)[k] =
                   Base64Code(EncodeGroup(GroupOf(bytes, len, g))[k])
              /\ EncodeGroup(GroupOf(bytes, len, g))[k] \in 0..(Codes - 1)
<1>1. PICK b \in Seq(Byte) : b = GroupOf(bytes, len, g) /\ Len(b) \in 1..3
  BY GroupBytes
<1>2. PICK n : n = Len(b) + 1 /\ n \in Nat
  BY <1>1
<1>3. PICK codes \in Seq(0..(Codes - 1)) : codes = EncodeGroup(b) /\ Len(codes) = n
  BY <1>1, <1>2, GroupReadBack
<1>4. DOMAIN codes = 1..n /\ \A k \in 1..n : codes[k] \in 0..(Codes - 1)
  BY <1>3, LenProperties, ElementOfSeq
<1>5. GroupText(bytes, len, g) = [k \in 1..n |-> Base64Code(codes[k])]
  BY <1>1, <1>3, <1>4 DEF GroupText
<1>6. \A k \in 1..n : Base64Code(codes[k]) \in Characters64
  BY <1>4 DEF Characters64
<1>7. PICK t : t = [k \in 1..n |-> Base64Code(codes[k])]
  OBVIOUS
<1>8. t \in [1..n -> Characters64] /\ \A k \in 1..n : t[k] = Base64Code(codes[k])
  BY <1>6, <1>7
<1>9. t \in Seq(Characters64) /\ Len(t) = n
  BY <1>2, <1>8, FunctionIsSeq
<1> QED
  BY <1>1, <1>2, <1>3, <1>4, <1>5, <1>7, <1>8, <1>9

\* encode_base64: the characters of the groups, one group behind the other.
LEMMA Encoded ==
  ASSUME NEW bytes \in Seq(Byte), NEW len \in Nat \ {0}, len <= Len(bytes)
  PROVE  /\ encode_base64(bytes, len) \in Seq(Characters64)
         /\ Len(encode_base64(bytes, len)) = Characters(len)
         /\ \A g \in 1..Groups(len) : \A k \in 1..(Len(GroupOf(bytes, len, g)) + 1) :
              /\ encode_base64(bytes, len)[4 * (g - 1) + k] =
                   Base64Code(EncodeGroup(GroupOf(bytes, len, g))[k])
              /\ EncodeGroup(GroupOf(bytes, len, g))[k] \in 0..(Codes - 1)
<1>1. PICK G \in Nat \ {0} : G = Groups(len) /\ Characters(len) = len + G
  BY DEF Groups, Characters
<1> DEFINE seqs == [g \in 1..G |-> GroupText(bytes, len, g)]
<1>2. encode_base64(bytes, len) = FlattenSeq(seqs)
  BY <1>1 DEF encode_base64, GroupText, GroupOf
<1>3. \A g \in 1..G : seqs[g] = GroupText(bytes, len, g) /\ seqs[g] \in Seq(Characters64)
  BY <1>1, GroupTextType
<1>4. seqs \in [1..G -> Seq(Characters64)]
  BY <1>3
<1> HIDE DEF seqs
<1>5. \A g \in 1..G : Len(seqs[g]) = Len(GroupOf(bytes, len, g)) + 1
  BY <1>1, <1>3, GroupTextType
<1>6. \A g \in 1..(G - 1) : Len(seqs[g]) = 4
  <2> SUFFICES ASSUME NEW g \in 1..(G - 1) PROVE Len(seqs[g]) = 4
    OBVIOUS
  <2>1. g \in 1..Groups(len) /\ g < Groups(len) /\ g \in 1..G
    BY <1>1
  <2>2. PICK m : m = Len(GroupOf(bytes, len, g)) /\ m = 3
    BY <2>1, GroupBytes
  <2>3. Len(seqs[g]) = m + 1
    BY <1>5, <2>1, <2>2
  <2> QED
    BY <2>2, <2>3
<1>7. PICK t : t = FlattenSeq(seqs)
  OBVIOUS
<1>8. t \in Seq(Characters64) /\ FlatTo(t, seqs, G)
  BY <1>4, <1>6, <1>7, Flattened
<1>9. Len(t) = len + G
  <2>1. G \in 1..Groups(len) /\ G = Groups(len) /\ G \in 1..G
    BY <1>1
  <2>2. PICK m : m = Len(GroupOf(bytes, len, G)) /\ m = len - 3 * (G - 1)
    BY <2>1, GroupBytes
  <2>3. Len(seqs[G]) = m + 1
    BY <1>5, <2>1, <2>2
  <2>4. Len(t) = 4 * (G - 1) + Len(seqs[G])
    BY <1>8 DEF FlatTo
  <2>5. Len(t) = 4 * (G - 1) + ((len - 3 * (G - 1)) + 1)
    BY <2>2, <2>3, <2>4
  <2> QED
    BY <2>5
<1>10. ASSUME NEW g \in 1..G, NEW k \in 1..(Len(GroupOf(bytes, len, g)) + 1)
       PROVE  /\ t[4 * (g - 1) + k] = Base64Code(EncodeGroup(GroupOf(bytes, len, g))[k])
              /\ EncodeGroup(GroupOf(bytes, len, g))[k] \in 0..(Codes - 1)
  <2>1. k \in 1..Len(seqs[g])
    BY <1>5
  <2>2. t[4 * (g - 1) + k] = seqs[g][k]
    BY <1>8, <2>1 DEF FlatTo
  <2>3. g \in 1..Groups(len)
    BY <1>1
  <2> QED
    BY <1>3, <2>2, <2>3, GroupTextType
<1> QED
  BY <1>1, <1>2, <1>7, <1>8, <1>9, <1>10

\* decode_base64 has the bytes again, whatever follows their characters.
LEMMA Decoded ==
  ASSUME NEW bytes \in Seq(Byte), NEW len \in Nat \ {0}, len <= Len(bytes), NEW chars, NEW buffer,
         \A i \in 1..Characters(len) :
           i \in DOMAIN chars /\ chars[i] = encode_base64(bytes, len)[i]
  PROVE  decode_base64(len, chars, buffer) = [i \in 1..len |-> bytes[i]]
<1> DEFINE code(i) == IF i \in DOMAIN chars /\ Valid(chars[i]) THEN CHAR64(chars[i]) ELSE 0
           Reached(n) == \A i \in 1..n : i \in DOMAIN chars /\ Valid(chars[i])
           Part(g) == [k \in 1..4 |-> code(4 * g + k)]
           Decode(i) == IF Reached(4 * ((i - 1) \div 3) + ((i - 1) % 3) + 2)
                        THEN DecodeGroup(Part((i - 1) \div 3))[((i - 1) % 3) + 1]
                        ELSE buffer[i]
<1>1. PICK G \in Nat \ {0} :
        /\ G = Groups(len) /\ Characters(len) = len + G
        /\ 3 * G - 2 <= len /\ len <= 3 * G
  BY DEF Groups, Characters
<1>2. PICK t \in Seq(Characters64) : t = encode_base64(bytes, len) /\ Len(t) = len + G
  BY <1>1, Encoded
<1>3. \A i \in 1..(len + G) : i \in DOMAIN chars /\ Valid(chars[i])
  <2>1. \A i \in 1..(len + G) : t[i] \in Characters64
    BY <1>2, ElementOfSeq
  <2>2. \A ch \in Characters64 : Valid(ch)
    BY CharacterReadBack DEF Characters64
  <2> QED
    BY <1>1, <1>2, <2>1, <2>2
<1>4. ASSUME NEW g \in 1..G, NEW n \in 1..3, n = Len(GroupOf(bytes, len, g)),
             NEW k \in 1..(n + 1)
      PROVE  code(4 * (g - 1) + k) = EncodeGroup(GroupOf(bytes, len, g))[k]
  <2>1. PICK m : m = 4 * (g - 1) + k
    OBVIOUS
  <2>2. m \in 1..(len + G)
    <3>1. g \in 1..Groups(len)
      BY <1>1
    <3>2. CASE g = G
      <4>1. n = len - 3 * (g - 1)
        BY <1>1, <1>4, <3>1, <3>2, GroupBytes
      <4>2. m = 4 * (G - 1) + k /\ k <= (len - 3 * (G - 1)) + 1 /\ 1 <= k
        BY <2>1, <3>2, <4>1
      <4> HIDE DEF code, Reached, Part, Decode
      <4> QED
        BY <4>2, SMTT(30)
    <3>3. CASE g # G
      BY <1>1, <2>1, <3>3
    <3> QED
      BY <3>2, <3>3
  <2>3. PICK e \in 0..(Codes - 1) :
          e = EncodeGroup(GroupOf(bytes, len, g))[k] /\ t[m] = Base64Code(e)
    BY <1>1, <1>2, <1>4, <2>1, Encoded, ZenonT(60)
  <2>4. chars[m] = Base64Code(e)
    BY <1>1, <1>2, <2>2, <2>3
  <2>5. code(m) = CHAR64(chars[m])
    BY <1>3, <2>2
  <2> QED
    BY <2>1, <2>3, <2>4, <2>5, CharacterReadBack
<1>5. ASSUME NEW i \in 1..len PROVE Decode(i) = bytes[i]
  <2>0. i - 1 \in Nat /\ 3 \in Nat \ {0}
    OBVIOUS
  <2>1. PICK g \in Nat, r \in 0..2 : g = (i - 1) \div 3 /\ r = (i - 1) % 3 /\ i = 3 * g + r + 1
    <3>1. /\ (i - 1) \div 3 \in Nat /\ (i - 1) % 3 \in 0..(3 - 1)
          /\ i - 1 = (((i - 1) \div 3) * 3) + ((i - 1) % 3)
      BY <2>0, Places
    <3> HIDE DEF code, Reached, Part, Decode
    <3> QED
      BY <3>1
  <2>2. g + 1 \in 1..G /\ g + 1 \in 1..Groups(len) /\ (g + 1) - 1 = g
    BY <1>1, <2>1
  <2>3. PICK b \in Seq(Byte) : b = GroupOf(bytes, len, g + 1)
    BY <2>2, GroupBytes
  <2>4. PICK n \in 1..3 : n = Len(b)
    BY <2>2, <2>3, GroupBytes
  <2>5. r + 1 \in 1..n
    <3>1. CASE g + 1 = G
      <4>1. n = len - 3 * ((g + 1) - 1)
        <5>1. PICK h \in 1..Groups(len) : h = g + 1 /\ h = Groups(len)
          BY <1>1, <2>2, <3>1
        <5>2. Len(GroupOf(bytes, len, h)) = len - 3 * (h - 1)
          BY <5>1, GroupBytes
        <5> QED
          BY <2>3, <2>4, <5>1, <5>2
      <4> QED
        BY <2>1, <4>1
    <3>2. CASE g + 1 < G
      <4>1. n = 3
        BY <1>1, <2>2, <2>3, <2>4, <3>2, GroupBytes
      <4> QED
        BY <4>1
    <3> QED
      BY <2>2, <3>1, <3>2
  <2>6. Reached(4 * g + r + 2)
    <3>1. 4 * g + r + 2 <= len + G
      BY <1>1, <2>1, <2>2
    <3>2. \A j \in 1..(4 * g + r + 2) : j \in 1..(len + G)
      BY <1>1, <2>1, <3>1
    <3> QED
      BY <1>3, <3>2
  <2>7. \A k \in 1..(n + 1) : code(4 * g + k) = EncodeGroup(b)[k]
    BY <1>4, <2>2, <2>3, <2>4, ZenonT(30)
  <2>8. \A k \in 1..(n + 1) : Part(g)[k] = EncodeGroup(b)[k]
    BY <2>7, SMTT(30)
  <2>9. DecodeGroup(Part(g))[r + 1] = b[r + 1]
    <3> HIDE DEF Part
    <3> QED
      BY <2>4, <2>5, <2>8, GroupReadBack
  <2>10. b[r + 1] = bytes[3 * g + (r + 1)]
    <3>1. \A k \in 1..n : b[k] = bytes[3 * ((g + 1) - 1) + k]
      BY <2>2, <2>3, <2>4, GroupBytes
    <3> QED
      BY <2>2, <2>5, <3>1
  <2>11. 3 * g + (r + 1) = i
    BY <2>1
  <2> HIDE DEF Part, Reached
  <2> QED
    BY <2>1, <2>6, <2>9, <2>10, <2>11
<1> HIDE DEF Decode
<1>6. decode_base64(len, chars, buffer) = [i \in 1..len |-> Decode(i)]
  BY DEF decode_base64, Decode, Part, Reached, code
<1> QED
  BY <1>5, <1>6

LEMMA DecodeGroupType ==
  ASSUME NEW c, \A k \in 1..4 : c[k] \in 0..(Codes - 1), NEW r \in 1..3
  PROVE  DecodeGroup(c)[r] \in Byte
<1>1. PICK c1 \in 0..(Codes - 1), c2 \in 0..(Codes - 1), c3 \in 0..(Codes - 1),
           c4 \in 0..(Codes - 1) : c[1] = c1 /\ c[2] = c2 /\ c[3] = c3 /\ c[4] = c4
  OBVIOUS
<1> DEFINE first == c1 * Quarter + c2 \div (Quarter * Quarter)
           second == (c2 % (Quarter * Quarter)) * Quarter * Quarter + c3 \div Quarter
           third == (c3 % Quarter) * Codes + c4
<1>2. first \in Byte /\ second \in Byte /\ third \in Byte
  <2> USE DEF Byte
  <2>1. CASE Quarter = 2
    BY <2>1, CodeSizes
  <2>2. CASE Quarter = 3
    BY <2>2, CodeSizes
  <2>3. CASE Quarter = 4
    BY <2>3, CodeSizes
  <2> QED
    BY <2>1, <2>2, <2>3, QuarterValues
<1>3. DecodeGroup(c) = <<first, second, third>>
  BY <1>1 DEF DecodeGroup
<1> HIDE DEF first, second, third
<1>4. r = 1 \/ r = 2 \/ r = 3
  OBVIOUS
<1> QED
  BY <1>2, <1>3, <1>4

\* Whatever decode_base64 is given, a salt it is.
LEMMA DecodedType ==
  ASSUME NEW chars, NEW buffer \in [1..BCRYPT_MAXSALT -> Byte]
  PROVE  decode_base64(BCRYPT_MAXSALT, chars, buffer) \in [1..BCRYPT_MAXSALT -> Byte]
<1> DEFINE code(i) == IF i \in DOMAIN chars /\ Valid(chars[i]) THEN CHAR64(chars[i]) ELSE 0
           Reached(n) == \A i \in 1..n : i \in DOMAIN chars /\ Valid(chars[i])
           Part(g) == [k \in 1..4 |-> code(4 * g + k)]
           Decode(i) == IF Reached(4 * ((i - 1) \div 3) + ((i - 1) % 3) + 2)
                        THEN DecodeGroup(Part((i - 1) \div 3))[((i - 1) % 3) + 1]
                        ELSE buffer[i]
<1>1. PICK N \in Nat : N = BCRYPT_MAXSALT
  BY SaltAssumption
<1>2. \A i : code(i) \in 0..(Codes - 1)
  <2>1. 0 \in 0..(Codes - 1)
    BY CodeSizes
  <2>2. \A ch : Valid(ch) => CHAR64(ch) \in 0..(Codes - 1)
    BY DEF Valid, CHAR64
  <2> QED
    BY <2>1, <2>2
<1>3. decode_base64(N, chars, buffer) = [i \in 1..N |-> Decode(i)]
  BY DEF decode_base64
<1>4. \A g : \A k \in 1..4 : Part(g)[k] \in 0..(Codes - 1)
  BY <1>2
<1> HIDE DEF code, Part, Reached
<1>5. ASSUME NEW i \in 1..N PROVE Decode(i) \in Byte
  <2>1. i - 1 \in Nat /\ 3 \in Nat \ {0}
    OBVIOUS
  <2> DEFINE g == (i - 1) \div 3
  <2>2. PICK m \in 0..2 : m = (i - 1) % 3
    <3>1. (i - 1) % 3 \in 0..(3 - 1)
      BY <2>1, Places
    <3> QED
      BY <3>1
  <2>3. m + 1 \in 1..3
    OBVIOUS
  <2>4. DecodeGroup(Part(g))[m + 1] \in Byte
    BY <1>4, <2>3, DecodeGroupType
  <2>5. buffer[i] \in Byte
    BY <1>1
  <2> QED
    BY <2>2, <2>4, <2>5
<1> HIDE DEF Decode
<1>6. [i \in 1..N |-> Decode(i)] \in [1..N -> Byte]
  BY <1>5
<1> QED
  BY <1>1, <1>3, <1>6

-----------------------------------------------------------------------------
(* Texts. *)

\* A sequence behind another.
LEMMA Behind ==
  ASSUME NEW S, NEW s \in Seq(S), NEW t \in Seq(S)
  PROVE  /\ s \o t \in Seq(S) /\ Len(s \o t) = Len(s) + Len(t)
         /\ \A i \in 1..Len(s) : (s \o t)[i] = s[i]
         /\ \A i \in 1..Len(t) : (s \o t)[Len(s) + i] = t[i]
<1>1. PICK m \in Nat, n \in Nat : m = Len(s) /\ n = Len(t)
  BY LenProperties
<1>2. /\ s \o t \in Seq(S) /\ Len(s \o t) = m + n
      /\ \A i \in 1..(m + n) : (s \o t)[i] = IF i <= m THEN s[i] ELSE t[i - m]
  BY <1>1, ConcatProperties
<1>3. \A i \in 1..m : i \in 1..(m + n) /\ i <= m
  OBVIOUS
<1>4. \A i \in 1..n : m + i \in 1..(m + n) /\ ~(m + i <= m) /\ (m + i) - m = i
  OBVIOUS
<1> QED
  BY <1>1, <1>2, <1>3, <1>4

\* The header is "$2b$10$", or with another minor version and another cost.
LEMMA HeaderIs ==
  ASSUME NEW minor \in {MinorA, MinorB}, NEW logr \in Nat
  PROVE  /\ Header(minor, logr) \in Seq(Nat) /\ Len(Header(minor, logr)) = 7
         /\ Header(minor, logr)[1] = Dollar /\ Header(minor, logr)[2] = BCRYPT_VERSION
         /\ Header(minor, logr)[3] = minor /\ Header(minor, logr)[4] = Dollar
         /\ Header(minor, logr)[5] = Zero + (logr \div 10)
         /\ Header(minor, logr)[6] = Zero + (logr % 10)
         /\ Header(minor, logr)[7] = Dollar
<1>1. minor # NUL /\ minor \in Nat
  BY DEF MinorA, MinorB, NUL
<1>2. Dollar \in Nat /\ BCRYPT_VERSION \in Nat /\ Zero \in Nat
  BY DEF Dollar, BCRYPT_VERSION, Zero
<1>3. Zero + (logr \div 10) \in Nat /\ Zero + (logr % 10) \in Nat
  BY DEF Zero
<1>4. PICK two \in Seq(Nat) :
        two = <<Dollar, BCRYPT_VERSION>> /\ Len(two) = 2 /\ two[1] = Dollar
        /\ two[2] = BCRYPT_VERSION
  <2>1. <<Dollar, BCRYPT_VERSION>> \in Seq(Nat)
    BY <1>2
  <2> QED
    BY <2>1
<1>5. PICK one \in Seq(Nat) : one = <<minor>> /\ Len(one) = 1 /\ one[1] = minor
  <2>1. <<minor>> \in Seq(Nat)
    BY <1>1
  <2> QED
    BY <2>1
<1>6. PICK bar \in Seq(Nat) : bar = <<Dollar>> /\ Len(bar) = 1 /\ bar[1] = Dollar
  <2>1. <<Dollar>> \in Seq(Nat)
    BY <1>2
  <2> QED
    BY <2>1
<1>7. PICK cost \in Seq(Nat) :
        /\ cost = TwoDigits(logr) /\ Len(cost) = 3
        /\ cost[1] = Zero + (logr \div 10) /\ cost[2] = Zero + (logr % 10) /\ cost[3] = Dollar
  <2>1. TwoDigits(logr) = <<Zero + (logr \div 10), Zero + (logr % 10), Dollar>>
    BY DEF TwoDigits
  <2>2. <<Zero + (logr \div 10), Zero + (logr % 10), Dollar>> \in Seq(Nat)
    BY <1>2, <1>3
  <2> QED
    BY <2>1, <2>2
<1>8. Header(minor, logr) = ((two \o one) \o bar) \o cost
  BY <1>1, <1>4, <1>5, <1>6, <1>7 DEF Header
<1>9. PICK a \in Seq(Nat) : /\ a = two \o one /\ Len(a) = 3
                            /\ a[1] = Dollar /\ a[2] = BCRYPT_VERSION /\ a[3] = minor
  <2>1. /\ two \o one \in Seq(Nat) /\ Len(two \o one) = 2 + 1
        /\ \A i \in 1..2 : (two \o one)[i] = two[i]
        /\ \A i \in 1..1 : (two \o one)[2 + i] = one[i]
    <3>1. /\ two \o one \in Seq(Nat) /\ Len(two \o one) = Len(two) + Len(one)
          /\ \A i \in 1..Len(two) : (two \o one)[i] = two[i]
          /\ \A i \in 1..Len(one) : (two \o one)[Len(two) + i] = one[i]
      BY Behind
    <3> QED
      BY <1>4, <1>5, <3>1
  <2>2. 1 \in 1..2 /\ 2 \in 1..2 /\ 1 \in 1..1 /\ 2 + 1 = 3
    OBVIOUS
  <2> QED
    BY <1>4, <1>5, <2>1, <2>2, ZenonT(30)
<1>10. PICK b \in Seq(Nat) : /\ b = a \o bar /\ Len(b) = 4
                             /\ b[1] = Dollar /\ b[2] = BCRYPT_VERSION
                             /\ b[3] = minor /\ b[4] = Dollar
  <2>1. /\ a \o bar \in Seq(Nat) /\ Len(a \o bar) = 3 + 1
        /\ \A i \in 1..3 : (a \o bar)[i] = a[i]
        /\ \A i \in 1..1 : (a \o bar)[3 + i] = bar[i]
    <3>1. /\ a \o bar \in Seq(Nat) /\ Len(a \o bar) = Len(a) + Len(bar)
          /\ \A i \in 1..Len(a) : (a \o bar)[i] = a[i]
          /\ \A i \in 1..Len(bar) : (a \o bar)[Len(a) + i] = bar[i]
      BY Behind
    <3> QED
      BY <1>6, <1>9, <3>1
  <2>2. 1 \in 1..3 /\ 2 \in 1..3 /\ 3 \in 1..3 /\ 1 \in 1..1 /\ 3 + 1 = 4
    OBVIOUS
  <2> QED
    BY <1>6, <1>9, <2>1, <2>2, ZenonT(30)
<1>11. PICK h \in Seq(Nat) : h = b \o cost
  BY ConcatProperties
<1>12. /\ Len(h) = 4 + 3
       /\ \A i \in 1..4 : h[i] = b[i]
       /\ \A i \in 1..3 : h[4 + i] = cost[i]
  <2>1. /\ b \o cost \in Seq(Nat) /\ Len(b \o cost) = Len(b) + Len(cost)
        /\ \A i \in 1..Len(b) : (b \o cost)[i] = b[i]
        /\ \A i \in 1..Len(cost) : (b \o cost)[Len(b) + i] = cost[i]
    BY Behind
  <2>2. Len(b) = 4 /\ Len(cost) = 3
    BY <1>7, <1>10
  <2> QED
    BY <1>11, <2>1, <2>2
<1>13. /\ 1 \in 1..4 /\ 2 \in 1..4 /\ 3 \in 1..4 /\ 4 \in 1..4
       /\ 1 \in 1..3 /\ 2 \in 1..3 /\ 3 \in 1..3
       /\ 4 + 1 = 5 /\ 4 + 2 = 6 /\ 4 + 3 = 7
  OBVIOUS
<1>14. Header(minor, logr) = h
  BY <1>8, <1>9, <1>10, <1>11
<1>15. /\ Len(h) = 7 /\ h[1] = b[1] /\ h[2] = b[2] /\ h[3] = b[3] /\ h[4] = b[4]
       /\ h[5] = cost[1] /\ h[6] = cost[2] /\ h[7] = cost[3]
  BY <1>12, <1>13
<1> QED
  BY <1>7, <1>10, <1>14, <1>15

LEMMA CostReadBack ==
  ASSUME NEW n \in Nat, n < 100
  PROVE  atoi(Zero + (n \div 10), Zero + (n % 10)) = n
<1>1. PICK t \in Nat, u \in Nat : t = n \div 10 /\ u = n % 10 /\ n = 10 * t + u /\ t <= 9 /\ u <= 9
  OBVIOUS
<1>2. Digit(Zero + t) /\ Digit(Zero + u)
  BY <1>1 DEF Digit, Zero
<1>3. atoi(Zero + t, Zero + u) = 10 * ((Zero + t) - Zero) + ((Zero + u) - Zero)
  BY <1>2 DEF atoi
<1> QED
  BY <1>1, <1>3 DEF Zero

LEMMA CharactersAreNumbers == Characters64 \in SUBSET Nat
BY CharacterReadBack DEF Characters64

LEMMA SeqOfLarger ==
  ASSUME NEW S, NEW T, S \in SUBSET T, NEW s \in Seq(S)
  PROVE  s \in Seq(T)
OBVIOUS

\* The number of characters of a salt, and of the bytes they are read back as.
LEMMA SaltSizes ==
  /\ Characters(BCRYPT_MAXSALT) \in Nat \ {0}
  /\ (Characters(BCRYPT_MAXSALT) * 3) \div 4 >= BCRYPT_MAXSALT
BY SaltAssumption DEF Characters, Groups

Minors == {MinorA, MinorB}
Costs == MinLogRounds..MaxLogRounds
Salts == [1..BCRYPT_MAXSALT -> Byte]

LEMMA SeedIs ==
  ASSUME NEW seed \in Salts
  PROVE  /\ seed \in Seq(Byte) /\ Len(seed) = BCRYPT_MAXSALT
         /\ encode_base64(seed, BCRYPT_MAXSALT) \in Seq(Characters64)
         /\ encode_base64(seed, BCRYPT_MAXSALT) \in Seq(Nat)
         /\ Len(encode_base64(seed, BCRYPT_MAXSALT)) = Characters(BCRYPT_MAXSALT)
<1>1. BCRYPT_MAXSALT \in Nat /\ BCRYPT_MAXSALT \in Nat \ {0} /\ BCRYPT_MAXSALT <= BCRYPT_MAXSALT
  BY SaltAssumption
<1>2. seed \in Seq(Byte) /\ Len(seed) = BCRYPT_MAXSALT
  BY <1>1, FunctionIsSeq DEF Salts
<1>3. /\ encode_base64(seed, BCRYPT_MAXSALT) \in Seq(Characters64)
      /\ Len(encode_base64(seed, BCRYPT_MAXSALT)) = Characters(BCRYPT_MAXSALT)
  BY <1>1, <1>2, Encoded
<1> QED
  BY <1>2, <1>3, SeqOfLarger, CharactersAreNumbers

\* A header, the characters of a salt, and what follows.
Salted(minor, logr, seed, rest) ==
  (Header(minor, logr) \o encode_base64(seed, BCRYPT_MAXSALT)) \o rest

LEMMA SaltedIs ==
  ASSUME NEW minor \in Minors, NEW logr \in Nat,
         NEW seed \in Salts, NEW rest \in Seq(Nat)
  PROVE  /\ Salted(minor, logr, seed, rest) \in Seq(Nat)
         /\ Len(Salted(minor, logr, seed, rest)) = 7 + Characters(BCRYPT_MAXSALT) + Len(rest)
         /\ \A i \in 1..7 : Salted(minor, logr, seed, rest)[i] = Header(minor, logr)[i]
         /\ \A i \in 1..Characters(BCRYPT_MAXSALT) :
              Salted(minor, logr, seed, rest)[7 + i] = encode_base64(seed, BCRYPT_MAXSALT)[i]
         /\ \A i \in 1..Len(rest) :
              Salted(minor, logr, seed, rest)[7 + Characters(BCRYPT_MAXSALT) + i] = rest[i]
<1>1. PICK h \in Seq(Nat) : h = Header(minor, logr) /\ Len(h) = 7
  BY HeaderIs DEF Minors
<1>2. PICK C \in Nat : C = Characters(BCRYPT_MAXSALT)
  BY SaltSizes
<1>3. PICK e \in Seq(Nat) : e = encode_base64(seed, BCRYPT_MAXSALT) /\ Len(e) = C
  BY <1>2, SeedIs
<1>4. PICK n \in Nat : n = Len(rest)
  BY LenProperties
<1>5. PICK a \in Seq(Nat) : a = h \o e
  BY ConcatProperties
<1>6. /\ Len(a) = 7 + C
      /\ \A i \in 1..7 : a[i] = h[i]
      /\ \A i \in 1..C : a[7 + i] = e[i]
  <2>1. /\ Len(h \o e) = Len(h) + Len(e)
        /\ \A i \in 1..Len(h) : (h \o e)[i] = h[i]
        /\ \A i \in 1..Len(e) : (h \o e)[Len(h) + i] = e[i]
    BY Behind
  <2>2. Len(h) = 7 /\ Len(e) = C
    BY <1>1, <1>3
  <2> QED
    BY <1>5, <2>1, <2>2
<1>7. PICK t : t = Salted(minor, logr, seed, rest) /\ t = a \o rest
  BY <1>1, <1>3, <1>5 DEF Salted
<1>8. /\ t \in Seq(Nat) /\ Len(t) = (7 + C) + n
      /\ \A i \in 1..(7 + C) : t[i] = a[i]
      /\ \A i \in 1..n : t[(7 + C) + i] = rest[i]
  <2>1. /\ a \o rest \in Seq(Nat) /\ Len(a \o rest) = Len(a) + Len(rest)
        /\ \A i \in 1..Len(a) : (a \o rest)[i] = a[i]
        /\ \A i \in 1..Len(rest) : (a \o rest)[Len(a) + i] = rest[i]
    BY Behind
  <2>2. Len(a) = 7 + C /\ Len(rest) = n
    BY <1>4, <1>6
  <2> QED
    BY <1>7, <2>1, <2>2
<1>9. /\ \A i \in 1..7 : i \in 1..(7 + C)
      /\ \A i \in 1..C : 7 + i \in 1..(7 + C)
  BY <1>2
<1>10. /\ t \in Seq(Nat) /\ Len(t) = 7 + C + n
       /\ \A i \in 1..7 : t[i] = h[i]
       /\ \A i \in 1..C : t[7 + i] = e[i]
       /\ \A i \in 1..n : t[7 + C + i] = rest[i]
  BY <1>6, <1>8, <1>9
<1> QED
  BY <1>1, <1>2, <1>3, <1>4, <1>7, <1>10

\* node_bcrypt reads out of a text the version, the cost and the salt that were
\* written to it, whatever follows and whatever its buffer holds.
LEMMA ReadsBack ==
  ASSUME NEW minor \in Minors, NEW logr \in Costs,
         NEW seed \in Salts, NEW rest \in Seq(Nat),
         NEW t, t = Salted(minor, logr, seed, rest), NEW buffer
  PROVE  /\ ~Malformed(t) /\ Minor(t) = minor /\ Cost(t) = logr
         /\ decode_base64(BCRYPT_MAXSALT, SaltText(t), buffer) = seed
<1>1. PICK C \in Nat \ {0} : C = Characters(BCRYPT_MAXSALT) /\ (C * 3) \div 4 >= BCRYPT_MAXSALT
  BY SaltSizes
<1>2. logr \in Nat /\ logr < 100 /\ MinLogRounds <= logr /\ logr <= MaxLogRounds
  BY CostAssumption DEF Costs
<1>3. PICK n \in Nat : n = Len(rest)
  BY LenProperties
<1>4. /\ t \in Seq(Nat) /\ Len(t) = 7 + C + n
      /\ \A i \in 1..7 : t[i] = Header(minor, logr)[i]
      /\ \A i \in 1..C : t[7 + i] = encode_base64(seed, BCRYPT_MAXSALT)[i]
  <2> DEFINE s == Salted(minor, logr, seed, rest)
  <2>1. /\ s \in Seq(Nat) /\ Len(s) = 7 + Characters(BCRYPT_MAXSALT) + Len(rest)
        /\ \A i \in 1..7 : s[i] = Header(minor, logr)[i]
        /\ \A i \in 1..Characters(BCRYPT_MAXSALT) :
             s[7 + i] = encode_base64(seed, BCRYPT_MAXSALT)[i]
    BY <1>2, SaltedIs, ZenonT(30)
  <2> HIDE DEF s
  <2>2. s = t
    BY DEF s
  <2> QED
    BY <1>1, <1>3, <2>1, <2>2
<1>5. /\ t[2] = BCRYPT_VERSION /\ t[3] = minor
      /\ t[5] = Zero + (logr \div 10) /\ t[6] = Zero + (logr % 10)
      /\ t[7] = Dollar
  <2>1. 2 \in 1..7 /\ 3 \in 1..7 /\ 5 \in 1..7 /\ 6 \in 1..7 /\ 7 \in 1..7
    OBVIOUS
  <2> QED
    BY <1>2, <1>4, <2>1, HeaderIs, ZenonT(30) DEF Minors
<1>6. DOMAIN t = 1..(7 + C + n)
  BY <1>4, LenProperties
<1>7. /\ CharAt(t, 2) = BCRYPT_VERSION /\ CharAt(t, 3) = minor
      /\ CharAt(t, 5) = Zero + (logr \div 10) /\ CharAt(t, 6) = Zero + (logr % 10)
      /\ CharAt(t, 7) = Dollar
  <2>1. 2 \in DOMAIN t /\ 3 \in DOMAIN t /\ 5 \in DOMAIN t /\ 6 \in DOMAIN t /\ 7 \in DOMAIN t
    BY <1>1, <1>6
  <2> QED
    BY <1>5, <2>1 DEF CharAt
<1>8. HasMinor(t) /\ CostAt(t) = 5
  BY <1>7 DEF HasMinor, CostAt, Dollar, Minors, MinorA, MinorB
<1>9. Minor(t) = minor
  BY <1>7, <1>8 DEF Minor
<1>10. Cost(t) = logr
  <2>1. Cost(t) = atoi(CharAt(t, 5), CharAt(t, 6))
    BY <1>8 DEF Cost
  <2> QED
    BY <1>2, <1>7, <2>1, CostReadBack
<1>11. PICK s : s = SaltText(t)
  OBVIOUS
<1>12. /\ s \in Seq(Nat) /\ Len(s) = C + n
       /\ \A i \in 1..(C + n) : s[i] = t[7 + i]
  <2>1. s = SubSeq(t, 8, 7 + C + n)
    BY <1>4, <1>8, <1>11 DEF SaltText
  <2>2. \A i \in 8..(7 + C + n) : t[i] \in Nat
    <3>1. \A i \in 1..Len(t) : t[i] \in Nat
      BY <1>4, ElementOfSeq
    <3>2. \A i \in 8..(7 + C + n) : i \in 1..(7 + C + n)
      OBVIOUS
    <3> QED
      BY <1>4, <3>1, <3>2
  <2>3. /\ SubSeq(t, 8, 7 + C + n) \in Seq(Nat)
        /\ Len(SubSeq(t, 8, 7 + C + n)) = IF 8 <= 7 + C + n THEN (7 + C + n) - 8 + 1 ELSE 0
        /\ \A i \in 1..((7 + C + n) - 8 + 1) : SubSeq(t, 8, 7 + C + n)[i] = t[8 + i - 1]
    BY <2>2, SubSeqProperties
  <2>4. /\ 8 <= 7 + C + n /\ (7 + C + n) - 8 + 1 = C + n
        /\ \A i \in 1..(C + n) : 8 + i - 1 = 7 + i
    OBVIOUS
  <2> QED
    BY <2>1, <2>3, <2>4
<1>13. ~((Len(s) * 3) \div 4 < BCRYPT_MAXSALT)
  <2>1. PICK M \in Nat : M = BCRYPT_MAXSALT
    BY SaltAssumption
  <2>2. (C * 3) \div 4 >= M
    BY <1>1, <2>1
  <2>3. C * 3 >= 4 * M
    BY <2>2
  <2>4. PICK m \in Nat : m = Len(s) /\ m >= C
    BY <1>12
  <2>5. m * 3 >= 4 * M
    BY <2>3, <2>4
  <2>6. (m * 3) \div 4 >= M
    BY <2>5
  <2> QED
    BY <2>1, <2>4, <2>6
<1>14. ~Malformed(t)
  <2>1. CharAt(t, CostAt(t) + 2) = Dollar
    BY <1>7, <1>8
  <2>2. ~(CharAt(t, 2) > BCRYPT_VERSION)
    BY <1>7 DEF BCRYPT_VERSION
  <2>3. ~(Cost(t) > MaxLogRounds) /\ ~(Cost(t) < MinLogRounds)
    BY <1>2, <1>10, CostAssumption
  <2>4. Minor(t) \in {NUL, MinorA, MinorB}
    BY <1>9 DEF Minors
  <2> QED
    BY <1>11, <1>13, <2>1, <2>2, <2>3, <2>4 DEF Malformed
<1>15. \A i \in 1..C : i \in DOMAIN s /\ s[i] = encode_base64(seed, BCRYPT_MAXSALT)[i]
  <2>1. DOMAIN s = 1..(C + n)
    BY <1>12, LenProperties
  <2>2. \A i \in 1..C : i \in 1..(C + n)
    OBVIOUS
  <2> QED
    BY <1>4, <1>12, <2>1, <2>2
<1>16. decode_base64(BCRYPT_MAXSALT, s, buffer) = [i \in 1..BCRYPT_MAXSALT |-> seed[i]]
  <2>1. seed \in Seq(Byte) /\ BCRYPT_MAXSALT <= Len(seed) /\ BCRYPT_MAXSALT \in Nat \ {0}
    BY SeedIs, SaltAssumption
  <2>2. \A i \in 1..Characters(BCRYPT_MAXSALT) :
          i \in DOMAIN s /\ s[i] = encode_base64(seed, BCRYPT_MAXSALT)[i]
    BY <1>1, <1>15
  <2> QED
    BY <2>1, <2>2, Decoded, Zenon
<1>17. [i \in 1..BCRYPT_MAXSALT |-> seed[i]] = seed
  BY DEF Salts
<1> QED
  BY <1>9, <1>10, <1>11, <1>14, <1>16, <1>17

Hashes == [1..(4 * BCRYPT_BLOCKS) -> Byte]

LEMMA TextSizes ==
  /\ Characters(4 * BCRYPT_BLOCKS - 1) \in Nat \ {0}
  /\ 4 * BCRYPT_BLOCKS - 1 \in Nat \ {0}
  /\ TextLength = 7 + Characters(BCRYPT_MAXSALT) + Characters(4 * BCRYPT_BLOCKS - 1)
  /\ TextLength \in Nat
<1>1. PICK B \in Nat \ {0} : B = BCRYPT_BLOCKS
  BY MagicAssumption
<1>2. Characters(4 * B - 1) \in Nat \ {0} /\ 4 * B - 1 \in Nat \ {0}
  BY DEF Characters, Groups
<1>3. Len(Header(MinorB, 0)) = 7
  <2>1. MinorB \in Minors /\ 0 \in Nat
    BY DEF Minors
  <2> QED
    BY <2>1, HeaderIs DEF Minors
<1>4. PICK C \in Nat, D \in Nat \ {0} :
        C = Characters(BCRYPT_MAXSALT) /\ D = Characters(4 * B - 1)
  BY <1>2, SaltSizes
<1>5. TextLength = 7 + C + D
  BY <1>1, <1>3, <1>4 DEF TextLength
<1> QED
  BY <1>1, <1>2, <1>4, <1>5

LEMMA HashIs ==
  ASSUME NEW hash \in Hashes
  PROVE  /\ encode_base64(hash, 4 * BCRYPT_BLOCKS - 1) \in Seq(Characters64)
         /\ encode_base64(hash, 4 * BCRYPT_BLOCKS - 1) \in Seq(Nat)
         /\ Len(encode_base64(hash, 4 * BCRYPT_BLOCKS - 1)) = Characters(4 * BCRYPT_BLOCKS - 1)
<1>1. PICK m \in Nat \ {0}, n \in Nat : m = 4 * BCRYPT_BLOCKS - 1 /\ n = 4 * BCRYPT_BLOCKS /\ m <= n
  BY MagicAssumption
<1>2. hash \in Seq(Byte) /\ Len(hash) = n
  BY <1>1, FunctionIsSeq DEF Hashes
<1>3. /\ encode_base64(hash, m) \in Seq(Characters64)
      /\ Len(encode_base64(hash, m)) = Characters(m)
  BY <1>1, <1>2, Encoded
<1> QED
  BY <1>1, <1>3, SeqOfLarger, CharactersAreNumbers, ZenonT(30)

\* A text has 60 characters, and behind its header only those of base 64.
LEMMA TextIs ==
  ASSUME NEW minor \in Minors, NEW logr \in Nat, NEW seed \in Salts, NEW hash \in Hashes
  PROVE  /\ TextOf(minor, logr, seed, hash) =
              Salted(minor, logr, seed, encode_base64(hash, 4 * BCRYPT_BLOCKS - 1))
         /\ TextOf(minor, logr, seed, hash) \in Seq(Nat)
         /\ Len(TextOf(minor, logr, seed, hash)) = TextLength
         /\ \A i \in 8..TextLength : TextOf(minor, logr, seed, hash)[i] \in Characters64
         /\ Resized(TextOf(minor, logr, seed, hash), TextLength) = TextOf(minor, logr, seed, hash)
<1>1. PICK rest \in Seq(Nat) :
        /\ rest = encode_base64(hash, 4 * BCRYPT_BLOCKS - 1)
        /\ rest \in Seq(Characters64)
        /\ Len(rest) = Characters(4 * BCRYPT_BLOCKS - 1)
  BY HashIs
<1>2. PICK t : t = Salted(minor, logr, seed, rest)
  OBVIOUS
<1>3. TextOf(minor, logr, seed, hash) = t
  BY <1>1, <1>2 DEF TextOf, Salted
<1>4. PICK C \in Nat, D \in Nat :
        /\ C = Characters(BCRYPT_MAXSALT) /\ D = Characters(4 * BCRYPT_BLOCKS - 1)
        /\ TextLength = 7 + C + D
  BY SaltSizes, TextSizes
<1>5. PICK e \in Seq(Characters64) : e = encode_base64(seed, BCRYPT_MAXSALT) /\ Len(e) = C
  BY <1>4, SeedIs
<1>6. /\ t \in Seq(Nat) /\ Len(t) = 7 + C + D
      /\ \A i \in 1..C : t[7 + i] = e[i]
      /\ \A i \in 1..D : t[7 + C + i] = rest[i]
  <2>1. /\ Salted(minor, logr, seed, rest) \in Seq(Nat)
        /\ Len(Salted(minor, logr, seed, rest)) = 7 + Characters(BCRYPT_MAXSALT) + Len(rest)
        /\ \A i \in 1..Characters(BCRYPT_MAXSALT) :
             Salted(minor, logr, seed, rest)[7 + i] = encode_base64(seed, BCRYPT_MAXSALT)[i]
        /\ \A i \in 1..Len(rest) :
             Salted(minor, logr, seed, rest)[7 + Characters(BCRYPT_MAXSALT) + i] = rest[i]
    BY SaltedIs
  <2> QED
    BY <1>1, <1>2, <1>4, <1>5, <2>1
<1>7. ASSUME NEW i \in 8..TextLength PROVE t[i] \in Characters64
  <2>1. CASE i <= 7 + C
    <3>1. PICK j \in 1..C : i = 7 + j
      <4>1. i - 7 \in 1..C /\ i = 7 + (i - 7)
        BY <1>4, <2>1
      <4> QED
        BY <4>1
    <3>2. e[j] \in Characters64
      BY <1>5, ElementOfSeq
    <3> QED
      BY <1>6, <3>1, <3>2
  <2>2. CASE ~(i <= 7 + C)
    <3>1. PICK j \in 1..D : i = 7 + C + j
      <4>1. i - (7 + C) \in 1..D /\ i = 7 + C + (i - (7 + C))
        BY <1>4, <2>2
      <4> QED
        BY <4>1
    <3>2. rest[j] \in Characters64
      BY <1>1, <1>4, ElementOfSeq
    <3> QED
      BY <1>6, <3>1, <3>2
  <2> QED
    BY <2>1, <2>2
<1>8. Resized(t, TextLength) = t
  <2>1. DOMAIN t = 1..TextLength /\ t = [i \in 1..TextLength |-> t[i]]
    BY <1>4, <1>6, LenProperties
  <2> QED
    BY <2>1 DEF Resized, CharAt
<1> QED
  BY <1>1, <1>2, <1>3, <1>4, <1>6, <1>7, <1>8

\* What bcrypt_gensalt writes is read back too.
LEMMA GensaltIs ==
  ASSUME NEW minor \in Minors, NEW n \in Nat, NEW seed \in Salts
  PROVE  /\ Clamped(n) \in Costs
         /\ bcrypt_gensalt(minor, n, seed) = Salted(minor, Clamped(n), seed, <<>>)
<1>1. Clamped(n) \in Costs /\ Clamped(n) \in Nat
  BY CostAssumption DEF Clamped, Costs
<1>2. PICK h \in Seq(Nat) : h = Header(minor, Clamped(n))
  BY <1>1, HeaderIs DEF Minors
<1>3. PICK e \in Seq(Nat) : e = encode_base64(seed, BCRYPT_MAXSALT)
  BY SeedIs
<1>4. PICK a \in Seq(Nat) : a = h \o e
  BY ConcatProperties
<1>5. a \o <<>> = a
  BY ConcatEmptySeq
<1> QED
  BY <1>1, <1>2, <1>3, <1>4, <1>5 DEF bcrypt_gensalt, encode_salt, Salted

-----------------------------------------------------------------------------
(* The key schedule of bcrypt. *)

LEMMA ExpandType ==
  ASSUME NEW c \in blf_ctx,
         NEW salt \in Seq(Byte), Len(salt) \in Nat \ {0}, NEW saltlen \in 0..Len(salt),
         NEW key \in Seq(Byte), Len(key) \in Nat \ {0}, NEW keylen \in 0..Len(key)
  PROVE  Blowfish_expandstate(c, salt, saltlen, key, keylen) \in blf_ctx
<1> DEFINE mix == [n \in MixIndex |-> StreamWord(salt, saltlen, n)]
<1>1. \A n \in MixIndex : n \in Nat
  BY BaseType DEF MixIndex, Schedule, BLF_N
<1>2. mix \in [MixIndex -> Word]
  BY <1>1, StreamWordType
<1> HIDE DEF mix
<1>3. Fill(WithKey(c, key, keylen), mix) \in blf_ctx
  BY <1>2, WithKeyType, FillType
<1> QED
  BY <1>3 DEF Blowfish_expandstate, mix

\* The states after each of the rounds, and what they depend on.
ExpandFirst(csalt, key, keylen) ==
  Blowfish_expandstate(initstate, csalt, BCRYPT_MAXSALT, key, keylen)
ExpandNext(k, v, csalt, key, keylen) ==
  LET stream == IF k % 2 = 1 THEN key ELSE csalt
      len == IF k % 2 = 1 THEN keylen ELSE BCRYPT_MAXSALT
  IN The({Blowfish_expand0state(c, stream, len) : c \in {v}})

IsExpansion(f, N, csalt, key, keylen) ==
  /\ f \in [0..N -> blf_ctx]
  /\ f[0] = ExpandFirst(csalt, key, keylen)
  /\ \A k \in 1..N : f[k] = ExpandNext(k, f[k - 1], csalt, key, keylen)

LEMMA Expansion ==
  ASSUME NEW logr \in Nat, NEW csalt \in Salts,
         NEW key \in Seq(Byte), Len(key) \in Nat \ {0}, NEW keylen \in 0..Len(key),
         NEW N \in Nat, N = 2 * 2 ^ logr
  PROVE  \E f : /\ IsExpansion(f, N, csalt, key, keylen)
                /\ ExpandedState(logr, csalt, key, keylen) = f[N]
<1> DEFINE first == ExpandFirst(csalt, key, keylen)
           Next1(k, v) == ExpandNext(k, v, csalt, key, keylen)
           state[k \in 0..N] == IF k = 0 THEN first ELSE Next1(k, state[k - 1])
           step == [k \in 1..N |-> [v \in blf_ctx |-> Next1(k, v)]]
<1>1. /\ csalt \in Seq(Byte) /\ Len(csalt) \in Nat \ {0}
      /\ BCRYPT_MAXSALT \in 0..Len(csalt)
  BY SeedIs, SaltAssumption
<1>2. first \in blf_ctx
  BY <1>1, StateAssumption, ExpandType DEF ExpandFirst
<1>3. ASSUME NEW k, NEW v \in blf_ctx PROVE Next1(k, v) \in blf_ctx
  <2>1. CASE k % 2 = 1
    <3>1. {Blowfish_expand0state(c, key, keylen) : c \in {v}}
        = {Blowfish_expand0state(v, key, keylen)}
      OBVIOUS
    <3>2. Next1(k, v) = Blowfish_expand0state(v, key, keylen)
      BY <2>1, <3>1, TheOne DEF ExpandNext
    <3> QED
      BY <3>2, Expand0Type
  <2>2. CASE k % 2 # 1
    <3>1. {Blowfish_expand0state(c, csalt, BCRYPT_MAXSALT) : c \in {v}}
            = {Blowfish_expand0state(v, csalt, BCRYPT_MAXSALT)}
      OBVIOUS
    <3>2. Next1(k, v) = Blowfish_expand0state(v, csalt, BCRYPT_MAXSALT)
      BY <2>2, <3>1, TheOne DEF ExpandNext
    <3> QED
      BY <1>1, <3>2, Expand0Type
  <2> QED
    BY <2>1, <2>2
<1> HIDE DEF first, Next1
<1>4. step \in [1..N -> [blf_ctx -> blf_ctx]]
      /\ \A k \in 1..N : \A v \in blf_ctx : step[k][v] = Next1(k, v)
  BY <1>3
<1> HIDE DEF step
<1>5. PICK f \in [0..N -> blf_ctx] : f[0] = first /\ \A k \in 1..N : f[k] = step[k][f[k - 1]]
  <2>1. Recursive(blf_ctx, N, first, step)
    BY <1>2, <1>4, RecursionExists
  <2> QED
    BY <2>1 DEF Recursive
<1>6. \A k \in 1..N : f[k] = Next1(k, f[k - 1])
  <2>1. \A k \in 1..N : f[k - 1] \in blf_ctx
    OBVIOUS
  <2> QED
    BY <1>4, <1>5, <2>1
<1>7. f = [k \in 0..N |-> IF k = 0 THEN first ELSE Next1(k, f[k - 1])]
  BY <1>5, <1>6
<1>8. state = [k \in 0..N |-> IF k = 0 THEN first ELSE Next1(k, state[k - 1])]
  BY <1>7
<1>9. ExpandedState(logr, csalt, key, keylen) = state[N]
  BY DEF ExpandedState, first, Next1, ExpandFirst, ExpandNext
<1> HIDE DEF state
<1>10. state[0] \in blf_ctx
  BY <1>2, <1>8
<1>11. \A k \in 1..N : state[k - 1] \in blf_ctx => state[k] \in blf_ctx
  BY <1>3, <1>8
<1>12. \A k \in 0..N : state[k] \in blf_ctx
  BY <1>10, <1>11, RecursionType
<1>13. state \in [0..N -> blf_ctx]
  BY <1>8, <1>12
<1>14. state[0] = first /\ \A k \in 1..N : state[k] = Next1(k, state[k - 1])
  BY <1>8
<1>15. IsExpansion(state, N, csalt, key, keylen)
  BY <1>13, <1>14 DEF IsExpansion, first, Next1
<1> QED
  BY <1>9, <1>15

LEMMA ExpandedType ==
  ASSUME NEW logr \in Nat, NEW csalt \in Salts,
         NEW key \in Seq(Byte), Len(key) \in Nat \ {0}, NEW keylen \in 0..Len(key)
  PROVE  ExpandedState(logr, csalt, key, keylen) \in blf_ctx
<1>1. PICK N \in Nat : N = 2 * 2 ^ logr
  BY PowerOfTwo
<1>2. PICK f : IsExpansion(f, N, csalt, key, keylen)
                 /\ ExpandedState(logr, csalt, key, keylen) = f[N]
  BY <1>1, Expansion
<1> QED
  BY <1>2 DEF IsExpansion

\* Two keys are the same to the schedule if they are added in the same way.
SameKeys(key, keylen, other, otherlen) ==
  \A c \in blf_ctx : WithKey(c, key, keylen) = WithKey(c, other, otherlen)

LEMMA NextSame ==
  ASSUME NEW csalt, NEW key, NEW keylen, NEW other, NEW otherlen,
         SameKeys(key, keylen, other, otherlen), NEW k, NEW v \in blf_ctx
  PROVE  ExpandNext(k, v, csalt, key, keylen) = ExpandNext(k, v, csalt, other, otherlen)
<1>1. Blowfish_expand0state(v, key, keylen) = Blowfish_expand0state(v, other, otherlen)
  BY DEF SameKeys, Blowfish_expand0state
<1>2. CASE k % 2 = 1
  <2>1. {Blowfish_expand0state(c, key, keylen) : c \in {v}}
          = {Blowfish_expand0state(c, other, otherlen) : c \in {v}}
    BY <1>1
  <2> QED
    BY <1>2, <2>1 DEF ExpandNext
<1>3. CASE k % 2 # 1
  BY <1>3 DEF ExpandNext
<1> QED
  BY <1>2, <1>3

LEMMA ExpandedSame ==
  ASSUME NEW logr \in Nat, NEW csalt \in Salts,
         NEW key \in Seq(Byte), Len(key) \in Nat \ {0}, NEW keylen \in 0..Len(key),
         NEW other \in Seq(Byte), Len(other) \in Nat \ {0}, NEW otherlen \in 0..Len(other),
         SameKeys(key, keylen, other, otherlen)
  PROVE  ExpandedState(logr, csalt, key, keylen) = ExpandedState(logr, csalt, other, otherlen)
<1>1. PICK N \in Nat : N = 2 * 2 ^ logr
  BY PowerOfTwo
<1>2. PICK f : IsExpansion(f, N, csalt, key, keylen)
                 /\ ExpandedState(logr, csalt, key, keylen) = f[N]
  BY <1>1, Expansion
<1>3. PICK g : IsExpansion(g, N, csalt, other, otherlen)
                 /\ ExpandedState(logr, csalt, other, otherlen) = g[N]
  BY <1>1, Expansion
<1> DEFINE Same == {k \in Nat : k <= N => f[k] = g[k]}
<1>4. 0 \in Same
  <2>1. ExpandFirst(csalt, key, keylen) = ExpandFirst(csalt, other, otherlen)
    BY StateAssumption DEF ExpandFirst, SameKeys, Blowfish_expandstate
  <2> QED
    BY <1>2, <1>3, <2>1 DEF IsExpansion
<1>5. ASSUME NEW k \in Same PROVE k + 1 \in Same
  <2> SUFFICES ASSUME k + 1 <= N PROVE f[k + 1] = g[k + 1]
    BY <1>5
  <2>1. PICK n \in 1..N : n = k + 1 /\ n - 1 = k
    BY <1>5
  <2>2. f[k] = g[k] /\ f[k] \in blf_ctx
    BY <1>2, <1>5, <2>1 DEF IsExpansion
  <2>3. /\ f[n] = ExpandNext(n, f[k], csalt, key, keylen)
        /\ g[n] = ExpandNext(n, f[k], csalt, other, otherlen)
    BY <1>2, <1>3, <2>1, <2>2 DEF IsExpansion
  <2> QED
    BY <2>1, <2>2, <2>3, NextSame
<1>6. Same = Nat
  <2> HIDE DEF Same
  <2>1. Same \in SUBSET Nat
    BY DEF Same
  <2> QED
    BY <1>4, <1>5, <2>1, SetInduction
<1>7. f[N] = g[N]
  BY <1>6
<1> QED
  BY <1>2, <1>3, <1>7

-----------------------------------------------------------------------------
(* The hash. *)

Words == [1..BCRYPT_BLOCKS -> Word]

LEMMA EncryptedType ==
  ASSUME NEW c \in blf_ctx, NEW d \in Words
  PROVE  blf_enc(c, d, BCRYPT_BLOCKS \div 2) \in Words
<1> DEFINE crypted(i) == LET k == (i - 1) \div 2
                         IN IF k < BCRYPT_BLOCKS \div 2
                            THEN Blowfish_encipher(c,
                                   <<d[2 * k + 1], d[2 * k + 2]>>)[((i - 1) % 2) + 1]
                            ELSE d[i]
<1>1. PICK B \in Nat \ {0} : B = BCRYPT_BLOCKS
  BY MagicAssumption
<1>2. d \in [1..B -> Word]
  BY <1>1 DEF Words
<1>3. ASSUME NEW i \in 1..B PROVE crypted(i) \in Word
  <2>1. PICK k \in Nat, r \in 0..1 : k = (i - 1) \div 2 /\ r = (i - 1) % 2
    OBVIOUS
  <2>2. CASE k < B \div 2
    <3>1. 2 * k + 1 \in 1..B /\ 2 * k + 2 \in 1..B
      BY <2>2
    <3>2. <<d[2 * k + 1], d[2 * k + 2]>> \in Block
      BY <1>2, <3>1 DEF Block
    <3>3. PICK e \in Block : e = Blowfish_encipher(c, <<d[2 * k + 1], d[2 * k + 2]>>)
      BY <3>2, EncipherType
    <3>4. e[1] \in Word /\ e[2] \in Word
      BY DEF Block
    <3>5. crypted(i) = e[r + 1]
      BY <1>1, <2>1, <2>2, <3>3
    <3>6. r + 1 = 1 \/ r + 1 = 2
      OBVIOUS
    <3> QED
      BY <3>4, <3>5, <3>6
  <2>3. CASE ~(k < B \div 2)
    <3>1. crypted(i) = d[i]
      BY <1>1, <2>1, <2>3
    <3> QED
      BY <1>2, <3>1
  <2> QED
    BY <2>2, <2>3
<1>4. blf_enc(c, d, BCRYPT_BLOCKS \div 2) = [i \in 1..B |-> crypted(i)]
  BY <1>2 DEF blf_enc
<1> HIDE DEF crypted
<1>5. [i \in 1..B |-> crypted(i)] \in [1..B -> Word]
  BY <1>3
<1> QED
  BY <1>1, <1>4, <1>5 DEF Words

MagicWords == [i \in 1..BCRYPT_BLOCKS |-> StreamWord(Magic, 4 * BCRYPT_BLOCKS, i - 1)]

LEMMA MagicWordsType == MagicWords \in Words
<1>1. PICK B \in Nat \ {0}, n \in Nat : B = BCRYPT_BLOCKS /\ n = 4 * BCRYPT_BLOCKS /\ n # 0
  BY MagicAssumption
<1>2. Magic \in Seq(Byte) /\ Len(Magic) = n
  BY <1>1, MagicAssumption, FunctionIsSeq
<1>3. ASSUME NEW i \in 1..B PROVE StreamWord(Magic, n, i - 1) \in Word
  <2>1. i - 1 \in Nat /\ n \in 0..Len(Magic) /\ Len(Magic) \in Nat \ {0}
    BY <1>1, <1>2
  <2> QED
    BY <1>2, <2>1, StreamWordType
<1>4. MagicWords = [i \in 1..B |-> StreamWord(Magic, n, i - 1)]
  BY <1>1 DEF MagicWords
<1>5. [i \in 1..B |-> StreamWord(Magic, n, i - 1)] \in [1..B -> Word]
  BY <1>3
<1> QED
  BY <1>1, <1>4, <1>5 DEF Words

LEMMA CipherTextType ==
  ASSUME NEW c \in blf_ctx
  PROVE  CipherText(c) \in Hashes
<1>1. PICK N \in Nat : N = Repeats
  BY CostAssumption
<1> DEFINE Next1(v) == The({blf_enc(c, d, BCRYPT_BLOCKS \div 2) : d \in {v}})
           cdata[k \in 0..N] == IF k = 0 THEN MagicWords ELSE Next1(cdata[k - 1])
           step == [k \in 1..N |-> [v \in Words |-> Next1(v)]]
<1>2. ASSUME NEW v \in Words PROVE Next1(v) \in Words
  <2>1. {blf_enc(c, d, BCRYPT_BLOCKS \div 2) : d \in {v}} = {blf_enc(c, v, BCRYPT_BLOCKS \div 2)}
    OBVIOUS
  <2>2. Next1(v) = blf_enc(c, v, BCRYPT_BLOCKS \div 2)
    BY <2>1, TheOne
  <2> QED
    BY <2>2, EncryptedType
<1> HIDE DEF Next1
<1>3. step \in [1..N -> [Words -> Words]]
      /\ \A k \in 1..N : \A v \in Words : step[k][v] = Next1(v)
  BY <1>2
<1> HIDE DEF step
<1>4. PICK f \in [0..N -> Words] : f[0] = MagicWords /\ \A k \in 1..N : f[k] = step[k][f[k - 1]]
  <2>1. Recursive(Words, N, MagicWords, step)
    BY <1>3, MagicWordsType, RecursionExists
  <2> QED
    BY <2>1 DEF Recursive
<1>5. \A k \in 1..N : f[k] = Next1(f[k - 1])
  <2>1. \A k \in 1..N : f[k - 1] \in Words
    BY <1>1
  <2> QED
    BY <1>3, <1>4, <2>1
<1>6. f = [k \in 0..N |-> IF k = 0 THEN MagicWords ELSE Next1(f[k - 1])]
  BY <1>1, <1>4, <1>5
<1>7. cdata = [k \in 0..N |-> IF k = 0 THEN MagicWords ELSE Next1(cdata[k - 1])]
  BY <1>6
<1>8. CipherText(c) = [i \in 1..(4 * BCRYPT_BLOCKS) |->
                         BytesOf(cdata[N][((i - 1) \div 4) + 1])[((i - 1) % 4) + 1]]
  BY <1>1 DEF CipherText, MagicWords, Next1
<1> HIDE DEF cdata
<1>9. cdata[0] \in Words
  BY <1>1, <1>7, MagicWordsType
<1>10. \A k \in 1..N : cdata[k - 1] \in Words => cdata[k] \in Words
  BY <1>1, <1>2, <1>7
<1>11. cdata[N] \in Words
  <2>1. \A k \in 0..N : cdata[k] \in Words
    BY <1>1, <1>9, <1>10, RecursionType
  <2> QED
    BY <1>1, <2>1
<1>12. PICK B \in Nat : B = BCRYPT_BLOCKS
  BY MagicAssumption
<1>13. ASSUME NEW i \in 1..(4 * B)
       PROVE  BytesOf(cdata[N][((i - 1) \div 4) + 1])[((i - 1) % 4) + 1] \in Byte
  <2>1. PICK k \in 1..B, r \in 1..4 : k = ((i - 1) \div 4) + 1 /\ r = ((i - 1) % 4) + 1
    <3>1. PICK j \in Nat : j = i - 1 /\ j < 4 * B
      OBVIOUS
    <3>2. 4 \in Nat \ {0}
      OBVIOUS
    <3>3. PICK q \in Nat, n \in 0..(4 - 1) : q = j \div 4 /\ n = j % 4 /\ j = q * 4 + n
      BY <3>2, Places
    <3>4. q + 1 \in 1..B /\ n + 1 \in 1..4
      BY <3>1, <3>3
    <3> QED
      BY <3>1, <3>3, <3>4
  <2>2. cdata[N][k] \in Word
    BY <1>11, <1>12 DEF Words
  <2>3. BytesOf(cdata[N][k])[r] \in Byte
    BY <2>2, BytesOfType DEF Bytes4
  <2> QED
    BY <2>1, <2>3
<1> QED
  BY <1>8, <1>12, <1>13 DEF Hashes

-----------------------------------------------------------------------------
(* Keys. *)

LEMMA KeyIs ==
  ASSUME NEW p \in Seq(Byte), NEW minor \in Minors
  PROVE  /\ KeyBuffer(p) \in Seq(Byte)
         /\ Len(KeyBuffer(p)) = Len(p) + 1 /\ Len(KeyBuffer(p)) \in Nat \ {0}
         /\ \A i \in 1..Len(p) : KeyBuffer(p)[i] = p[i]
         /\ KeyBuffer(p)[Len(p) + 1] = NUL
         /\ KeyLength(minor, Len(p)) \in 0..Len(KeyBuffer(p))
<1>1. PICK n \in Nat : n = Len(p)
  BY LenProperties
<1>2. NUL \in Byte
  BY BaseType DEF NUL, Byte
<1>3. /\ KeyBuffer(p) \in Seq(Byte)
      /\ Len(KeyBuffer(p)) = n + 1
      /\ \A i \in 1..n : KeyBuffer(p)[i] = p[i]
      /\ KeyBuffer(p)[n + 1] = NUL
  BY <1>1, <1>2, AppendProperties DEF KeyBuffer
<1>4. KeyLength(minor, n) \in 0..(n + 1)
  <2>1. CASE minor = MinorB
    BY <2>1 DEF KeyLength, AtMost, MaxKey, BLF_N
  <2>2. CASE minor # MinorB
    <3>1. minor = MinorA
      BY <2>2 DEF Minors
    <3>2. KeyLength(minor, n) = (n + 1) % Base
      BY <2>2, <3>1 DEF KeyLength, Unsigned8
    <3>3. n + 1 \in Nat
      OBVIOUS
    <3>4. PICK m \in Nat : m = n + 1
      BY <3>3
    <3>5. /\ m \div Base \in Nat /\ m % Base \in 0..(Base - 1)
          /\ m = ((m \div Base) * Base) + (m % Base)
      BY BaseType, Places
    <3>6. (m \div Base) * Base \in Nat
      BY <3>5, BaseType
    <3> QED
      BY <3>2, <3>4, <3>5, <3>6, BaseType
  <2> QED
    BY <2>1, <2>2
<1> QED
  BY <1>1, <1>3, <1>4

\* The bytes that go into the subkeys.
KeyBytesAgree(key, keylen, other, otherlen) ==
  \A t \in 0..(MaxKey - 1) : StreamByte(key, keylen, t) = StreamByte(other, otherlen, t)

LEMMA AgreeingKeys ==
  ASSUME NEW key, NEW keylen, NEW other, NEW otherlen,
         KeyBytesAgree(key, keylen, other, otherlen)
  PROVE  SameKeys(key, keylen, other, otherlen)
<1>1. ASSUME NEW i \in 0..(BLF_N + 1)
      PROVE  StreamWord(key, keylen, i) = StreamWord(other, otherlen, i)
  <2>1. \A k \in 1..4 : 4 * i + k - 1 \in 0..(MaxKey - 1)
    BY DEF BLF_N, MaxKey
  <2>2. \A k \in 1..4 :
          StreamByte(key, keylen, 4 * i + k - 1) = StreamByte(other, otherlen, 4 * i + k - 1)
    BY <2>1 DEF KeyBytesAgree
  <2> QED
    BY <2>2 DEF StreamWord
<1>2. ASSUME NEW c \in blf_ctx
      PROVE  WithKey(c, key, keylen) = WithKey(c, other, otherlen)
  <2>1. DOMAIN c.P = 0..(BLF_N + 1)
    BY DEF blf_ctx
  <2>2. [i \in DOMAIN c.P |-> Xor(c.P[i], StreamWord(key, keylen, i))]
          = [i \in DOMAIN c.P |-> Xor(c.P[i], StreamWord(other, otherlen, i))]
    BY <1>1, <2>1
  <2> QED
    BY <2>2 DEF WithKey
<1> QED
  BY <1>2 DEF SameKeys

\* Keys that are right: of the last version, or of a length that fits in a byte.
RightKey(minor, p) == minor = MinorB \/ Len(p) + 1 < Base

LEMMA RightKeyLength ==
  ASSUME NEW p \in Seq(Byte), NEW minor \in Minors, RightKey(minor, p)
  PROVE  /\ Len(p) < MaxKey => KeyLength(minor, Len(p)) = Len(p) + 1
         /\ Len(p) >= MaxKey => KeyLength(minor, Len(p)) \in (MaxKey + 1)..(Len(p) + 1)
<1>1. PICK n \in Nat : n = Len(p)
  BY LenProperties
<1>2. CASE minor = MinorB
  BY <1>1, <1>2 DEF KeyLength, AtMost, MaxKey, BLF_N
<1>3. CASE minor # MinorB
  <2>1. minor = MinorA /\ n + 1 < Base
    BY <1>1, <1>3 DEF Minors, RightKey
  <2>2. (n + 1) % Base = n + 1
    BY <2>1, BaseType
  <2>3. KeyLength(minor, n) = n + 1
    BY <1>3, <2>1, <2>2 DEF KeyLength, Unsigned8
  <2> QED
    BY <1>1, <2>3 DEF MaxKey, BLF_N
<1> QED
  BY <1>2, <1>3

\* A byte behind the start, in no more than one turn.
LEMMA FirstTurn ==
  ASSUME NEW len \in Nat, NEW t \in 0..(len - 1)
  PROVE  t % len = t /\ len # 0
<1>1. len \in Nat \ {0} /\ 0 \in Nat
  OBVIOUS
<1>2. (0 * len + t) % len = t
  BY <1>1, Place
<1>3. 0 * len + t = t
  BY <1>1
<1> QED
  BY <1>1, <1>2, <1>3

\* What a password stands for: it is the password, then a NUL.
LEMMA KeyStreamIs ==
  ASSUME NEW p \in Seq(Byte)
  PROVE  /\ \A t \in 0..(MaxKey - 1) :
              KeyStream(p)[t + 1] = KeyBuffer(p)[(t % (Len(p) + 1)) + 1]
         /\ \A i \in 1..MaxKey : i <= Len(p) => KeyStream(p)[i] = p[i]
         /\ Len(p) < MaxKey => KeyStream(p)[Len(p) + 1] = NUL
<1>1. PICK n \in Nat : n = Len(p)
  BY LenProperties
<1>2. MaxKey = 72
  BY DEF MaxKey, BLF_N
<1>3. /\ Len(KeyBuffer(p)) = n + 1
      /\ \A i \in 1..n : KeyBuffer(p)[i] = p[i]
      /\ KeyBuffer(p)[n + 1] = NUL
  <2>1. MinorB \in Minors
    BY DEF Minors
  <2> QED
    BY <1>1, <2>1, KeyIs
<1>4. ASSUME NEW t \in 0..(MaxKey - 1)
      PROVE  KeyStream(p)[t + 1] = KeyBuffer(p)[(t % (n + 1)) + 1]
  <2>1. t + 1 \in 1..MaxKey /\ (t + 1) - 1 = t
    BY <1>2
  <2>2. KeyStream(p) = [i \in 1..MaxKey |-> KeyBuffer(p)[((i - 1) % (n + 1)) + 1]]
    BY <1>3 DEF KeyStream, KeyBuffer
  <2> QED
    BY <2>1, <2>2
<1>5. ASSUME NEW i \in 1..MaxKey, i <= n + 1
      PROVE  KeyStream(p)[i] = KeyBuffer(p)[i]
  <2>1. PICK t \in 0..(MaxKey - 1) : t + 1 = i
    <3>1. i - 1 \in 0..(MaxKey - 1) /\ (i - 1) + 1 = i
      BY <1>2
    <3> QED
      BY <3>1
  <2>2. t \in 0..((n + 1) - 1) /\ n + 1 \in Nat
    BY <1>2, <1>5, <2>1
  <2>3. t % (n + 1) = t
    BY <2>2, FirstTurn
  <2> QED
    BY <1>4, <2>1, <2>3
<1>6. ASSUME NEW i \in 1..MaxKey, i <= n
      PROVE  KeyStream(p)[i] = p[i]
  <2>1. i <= n + 1 /\ i \in 1..n
    BY <1>2, <1>6
  <2> QED
    BY <1>3, <1>5, <2>1
<1>7. ASSUME n < MaxKey PROVE KeyStream(p)[n + 1] = NUL
  <2>1. n + 1 \in 1..MaxKey /\ n + 1 <= n + 1
    BY <1>2, <1>7
  <2> QED
    BY <1>3, <1>5, <2>1
<1> QED
  BY <1>1, <1>4, <1>6, <1>7

\* The bytes that go into the subkeys are what the password stands for.
LEMMA StreamOfKey ==
  ASSUME NEW p \in Seq(Byte), NEW minor \in Minors, RightKey(minor, p),
         NEW t \in 0..(MaxKey - 1)
  PROVE  StreamByte(KeyBuffer(p), KeyLength(minor, Len(p)), t) = KeyStream(p)[t + 1]
<1>1. PICK n \in Nat : n = Len(p)
  BY LenProperties
<1>2. MaxKey = 72
  BY DEF MaxKey, BLF_N
<1>3. KeyStream(p)[t + 1] = KeyBuffer(p)[(t % (n + 1)) + 1]
  BY <1>1, KeyStreamIs
<1>4. CASE n < MaxKey
  <2>1. KeyLength(minor, Len(p)) = n + 1 /\ n + 1 # 0
    BY <1>1, <1>4, RightKeyLength
  <2> QED
    BY <1>3, <2>1 DEF StreamByte
<1>5. CASE n >= MaxKey
  <2>1. PICK l \in Nat : l >= 73 /\ l = KeyLength(minor, Len(p))
    BY <1>1, <1>2, <1>5, RightKeyLength
  <2>2. t \in 0..(l - 1) /\ t \in 0..((n + 1) - 1) /\ n + 1 \in Nat
    BY <1>2, <1>5, <2>1
  <2>3. t % l = t /\ l # 0 /\ t % (n + 1) = t
    BY <2>1, <2>2, FirstTurn
  <2> QED
    BY <1>3, <2>1, <2>3 DEF StreamByte
<1> QED
  BY <1>2, <1>4, <1>5

\* What goes into a key decides it.
LEMMA StreamKeys ==
  ASSUME NEW p \in Seq(Byte), NEW q \in Seq(Byte), KeyStream(p) = KeyStream(q),
         NEW minor \in Minors, RightKey(minor, p), RightKey(minor, q)
  PROVE  SameKeys(KeyBuffer(p), KeyLength(minor, Len(p)), KeyBuffer(q), KeyLength(minor, Len(q)))
<1>1. KeyBytesAgree(KeyBuffer(p), KeyLength(minor, Len(p)),
                    KeyBuffer(q), KeyLength(minor, Len(q)))
  BY StreamOfKey DEF KeyBytesAgree
<1> QED
  BY <1>1, AgreeingKeys

\* Two passwords without a NUL stand for the same only when they agree as far as
\* a key goes: in all, or in the first MaxKey bytes of both.
THEOREM PasswordsWithoutNUL ==
  ASSUME NEW p \in Seq(Byte \ {NUL}), NEW q \in Seq(Byte \ {NUL}),
         KeyStream(p) = KeyStream(q)
  PROVE  \/ p = q
         \/ /\ Len(p) >= MaxKey /\ Len(q) >= MaxKey
            /\ \A i \in 1..MaxKey : p[i] = q[i]
<1>1. PICK m \in Nat, n \in Nat : m = Len(p) /\ n = Len(q)
  BY LenProperties
<1>2. MaxKey = 72
  BY DEF MaxKey, BLF_N
<1>3. /\ p \in Seq(Byte) /\ \A i \in 1..m : p[i] # NUL
      /\ q \in Seq(Byte) /\ \A i \in 1..n : q[i] # NUL
  <2>1. Seq(Byte \ {NUL}) \subseteq Seq(Byte)
    BY SeqMonotonic
  <2>2. /\ \A i \in 1..m : p[i] \in Byte \ {NUL}
        /\ \A i \in 1..n : q[i] \in Byte \ {NUL}
    BY <1>1, ElementOfSeq
  <2> QED
    BY <2>1, <2>2
<1>4. /\ \A i \in 1..MaxKey : i <= m => KeyStream(p)[i] = p[i]
      /\ m < MaxKey => KeyStream(p)[m + 1] = NUL
      /\ \A i \in 1..MaxKey : i <= n => KeyStream(p)[i] = q[i]
      /\ n < MaxKey => KeyStream(p)[n + 1] = NUL
  BY <1>1, <1>3, KeyStreamIs
<1>5. ASSUME m < MaxKey PROVE ~(m < n)
  <2>1. m + 1 \in 1..MaxKey /\ (m < n => m + 1 \in 1..n)
    BY <1>2, <1>5
  <2> QED
    BY <1>3, <1>4, <1>5, <2>1
<1>6. ASSUME n < MaxKey PROVE ~(n < m)
  <2>1. n + 1 \in 1..MaxKey /\ (n < m => n + 1 \in 1..m)
    BY <1>2, <1>6
  <2> QED
    BY <1>3, <1>4, <1>6, <2>1
<1>7. CASE m >= MaxKey /\ n >= MaxKey
  <2>1. \A i \in 1..MaxKey : i <= m /\ i <= n
    BY <1>2, <1>7
  <2> QED
    BY <1>1, <1>4, <1>7, <2>1
<1>8. CASE m < MaxKey \/ n < MaxKey
  <2>1. m = n /\ m < MaxKey
    BY <1>2, <1>5, <1>6, <1>8
  <2>2. \A i \in 1..m : p[i] = q[i]
    <3>1. \A i \in 1..m : i \in 1..MaxKey /\ i <= m /\ i <= n
      BY <1>2, <2>1
    <3> QED
      BY <1>4, <3>1
  <2> QED
    BY <1>1, <1>3, <2>1, <2>2, SeqEqual
<1> QED
  BY <1>2, <1>7, <1>8

-----------------------------------------------------------------------------
(* What is stored. *)

\* The text of a password.
HashText(minor, logr, seed, p) ==
  TextOf(minor, logr, seed,
         CipherText(ExpandedState(logr, seed, KeyBuffer(p), KeyLength(minor, Len(p)))))

LEMMA HashTextIs ==
  ASSUME NEW minor \in Minors, NEW logr \in Costs, NEW seed \in Salts, NEW p \in Seq(Byte),
         NEW t, t = HashText(minor, logr, seed, p)
  PROVE  /\ \E rest \in Seq(Nat) : t = Salted(minor, logr, seed, rest)
         /\ Len(t) = TextLength /\ ~Malformed(t) /\ Minor(t) = minor
         /\ \A i \in 8..TextLength : t[i] \in Characters64
         /\ Resized(t, TextLength) = t
         /\ t # None
<1>1. logr \in Nat
  BY CostAssumption DEF Costs
<1>2. PICK hash \in Hashes : t = TextOf(minor, logr, seed, hash)
  <2>1. ExpandedState(logr, seed, KeyBuffer(p), KeyLength(minor, Len(p))) \in blf_ctx
    <3>1. /\ KeyBuffer(p) \in Seq(Byte) /\ Len(KeyBuffer(p)) \in Nat \ {0}
          /\ KeyLength(minor, Len(p)) \in 0..Len(KeyBuffer(p))
      BY KeyIs
    <3> QED
      BY <1>1, <3>1, ExpandedType
  <2> QED
    BY <2>1, CipherTextType DEF HashText
<1>3. PICK rest \in Seq(Nat) : rest = encode_base64(hash, 4 * BCRYPT_BLOCKS - 1)
  BY HashIs
<1>4. t = Salted(minor, logr, seed, rest)
  BY <1>1, <1>2, <1>3, TextIs
<1>5. /\ Len(t) = TextLength
      /\ \A i \in 8..TextLength : t[i] \in Characters64
      /\ Resized(t, TextLength) = t
  BY <1>1, <1>2, TextIs, ZenonT(30)
<1>6. ~Malformed(t) /\ Minor(t) = minor
  BY <1>4, ReadsBack
<1>7. t # None
  <2>1. TextLength # 0
    BY TextSizes, SaltSizes
  <2> QED
    BY <1>5, <2>1, EmptySeq DEF None
<1> QED
  BY <1>4, <1>5, <1>6, <1>7

\* node_bcrypt makes the text of a password with the version, the cost and the
\* salt of the text it is given.
LEMMA BcryptOf ==
  ASSUME NEW minor \in Minors, NEW logr \in Costs, NEW seed \in Salts, NEW rest \in Seq(Nat),
         NEW t, t = Salted(minor, logr, seed, rest), NEW p, NEW buffer
  PROVE  node_bcrypt(p, t, buffer) = HashText(minor, logr, seed, p)
<1> DEFINE state == ExpandedState(logr, seed, KeyBuffer(p), KeyLength(minor, Len(p)))
<1>1. /\ ~Malformed(t) /\ Minor(t) = minor /\ Cost(t) = logr
      /\ decode_base64(BCRYPT_MAXSALT, SaltText(t), buffer) = seed
  BY ReadsBack
<1>2. node_bcrypt(p, t, buffer) =
        The({TextOf(minor, logr, seed, CipherText(c)) : c \in {state}})
  BY <1>1 DEF node_bcrypt
<1> HIDE DEF state
<1>3. {TextOf(minor, logr, seed, CipherText(c)) : c \in {state}}
        = {TextOf(minor, logr, seed, CipherText(state))}
  OBVIOUS
<1>4. The({TextOf(minor, logr, seed, CipherText(c)) : c \in {state}})
        = TextOf(minor, logr, seed, CipherText(state))
  BY <1>3, TheOne
<1> QED
  BY <1>2, <1>4 DEF HashText, state

LEMMA SameHash ==
  ASSUME NEW minor \in Minors, NEW logr \in Costs, NEW seed \in Salts,
         NEW p \in Seq(Byte), NEW q \in Seq(Byte), KeyStream(p) = KeyStream(q),
         RightKey(minor, p), RightKey(minor, q)
  PROVE  HashText(minor, logr, seed, p) = HashText(minor, logr, seed, q)
<1>1. logr \in Nat
  BY CostAssumption DEF Costs
<1>2. PICK key, keylen : key = KeyBuffer(p) /\ keylen = KeyLength(minor, Len(p))
  OBVIOUS
<1>3. PICK other, otherlen : other = KeyBuffer(q) /\ otherlen = KeyLength(minor, Len(q))
  OBVIOUS
<1>4. key \in Seq(Byte) /\ Len(key) \in Nat \ {0} /\ keylen \in 0..Len(key)
  BY <1>2, KeyIs
<1>5. other \in Seq(Byte) /\ Len(other) \in Nat \ {0} /\ otherlen \in 0..Len(other)
  BY <1>3, KeyIs
<1>6. SameKeys(key, keylen, other, otherlen)
  BY <1>2, <1>3, StreamKeys
<1>7. ExpandedState(logr, seed, key, keylen) = ExpandedState(logr, seed, other, otherlen)
  BY <1>1, <1>4, <1>5, <1>6, ExpandedSame
<1> QED
  BY <1>2, <1>3, <1>7 DEF HashText

(***************************************************************************)
(* The inductive invariant: a text that is not damaged is the text of its  *)
(* owner's password, of some version, cost and salt; one that lets a       *)
(* password in is the text of that password, damaged or not, for which it  *)
(* must hold no NUL; and there is no verdict without a text.               *)
(***************************************************************************)
Made(t, p) ==
  \E minor \in Minors, logr \in Costs, seed \in Salts : t = HashText(minor, logr, seed, p)

\* Characters a stored text is made of: no NUL.
Written == Nat \ {NUL}

TextInv ==
  /\ (text # None /\ ~damaged) => owner \in Passwords /\ Made(text, owner)
  /\ text \in Seq(Written)
  /\ verdict = "valid" => entered \in Passwords /\ Made(text, entered)
  /\ text = None => verdict = "none"

PasswordInv == TextInv /\ OwnerIsLetIn

LEMMA MadeIsWhole ==
  ASSUME NEW t, NEW p \in Seq(Byte), Made(t, p)
  PROVE  /\ t # None /\ Len(t) = TextLength /\ ~Malformed(t)
         /\ \A i \in 8..TextLength : t[i] \in Characters64
<1>1. PICK minor \in Minors, logr \in Costs, seed \in Salts : t = HashText(minor, logr, seed, p)
  BY DEF Made
<1> QED
  BY <1>1, HashTextIs

LEMMA StoredIsMade ==
  ASSUME NEW minor \in Minors, NEW n \in Nat, NEW seed \in Salts, NEW p \in Seq(Byte),
         NEW buffer
  PROVE  /\ Made(node_bcrypt(p, bcrypt_gensalt(minor, n, seed), buffer), p)
         /\ Made(Resized(node_bcrypt(p, bcrypt_gensalt(minor, n, seed), buffer), TextLength), p)
<1>1. PICK logr \in Costs : /\ logr = Clamped(n)
                            /\ bcrypt_gensalt(minor, n, seed) = Salted(minor, logr, seed, <<>>)
  BY GensaltIs
<1>2. PICK rest \in Seq(Nat) : rest = <<>>
  BY EmptySeq
<1>3. PICK t : t = node_bcrypt(p, bcrypt_gensalt(minor, n, seed), buffer)
  OBVIOUS
<1>4. t = HashText(minor, logr, seed, p)
  <2>1. PICK salted : /\ salted = bcrypt_gensalt(minor, n, seed)
                      /\ salted = Salted(minor, logr, seed, rest)
    BY <1>1, <1>2
  <2>2. node_bcrypt(p, salted, buffer) = HashText(minor, logr, seed, p)
    BY <2>1, BcryptOf
  <2> QED
    BY <1>3, <2>1, <2>2
<1>5. Resized(t, TextLength) = t
  BY <1>4, HashTextIs
<1> QED
  BY <1>3, <1>4, <1>5 DEF Made

\* Whoever enters the password a text was made of is let in.
LEMMA MadeLetsIn ==
  ASSUME NEW t, NEW p \in Seq(Byte), Made(t, p), NEW q \in Seq(Byte), NEW buffer,
         KeyStream(q) = KeyStream(p), RightKey(Minor(t), p), RightKey(Minor(t), q)
  PROVE  validatePassword(q, t, buffer)
<1>1. PICK minor \in Minors, logr \in Costs, seed \in Salts : t = HashText(minor, logr, seed, p)
  BY DEF Made
<1>2. PICK rest \in Seq(Nat) : t = Salted(minor, logr, seed, rest)
  BY <1>1, HashTextIs
<1>3. Minor(t) = minor /\ Resized(t, TextLength) = t
  BY <1>1, HashTextIs
<1>4. node_bcrypt(q, t, buffer) = HashText(minor, logr, seed, q)
  BY <1>2, BcryptOf
<1>5. HashText(minor, logr, seed, q) = t
  BY <1>1, <1>3, SameHash
<1> QED
  BY <1>3, <1>4, <1>5 DEF validatePassword

LEMMA MadeIsWritten ==
  ASSUME NEW t, NEW p \in Seq(Byte), Made(t, p)
  PROVE  t \in Seq(Written) /\ Len(t) = TextLength
<1>1. PICK minor \in Minors, logr \in Costs, seed \in Salts : t = HashText(minor, logr, seed, p)
  BY DEF Made
<1>2. PICK logn \in Nat : logn = logr
  BY CostAssumption DEF Costs
<1>3. PICK rest \in Seq(Nat) : t = Salted(minor, logr, seed, rest)
  BY <1>1, HashTextIs
<1>4. t \in Seq(Nat) /\ \A i \in 1..7 : t[i] = Header(minor, logr)[i]
  BY <1>2, <1>3, SaltedIs
<1>5. Len(t) = TextLength /\ \A i \in 8..TextLength : t[i] \in Characters64
  BY <1>1, HashTextIs
<1>6. PICK n \in Nat : n = TextLength
  BY TextSizes
<1>7. \A i \in 1..7 : t[i] # NUL
  <2>1. PICK h : h = Header(minor, logr)
    OBVIOUS
  <2>2. /\ h[1] = Dollar /\ h[2] = BCRYPT_VERSION /\ h[3] = minor /\ h[4] = Dollar
        /\ h[5] = Zero + (logn \div 10) /\ h[6] = Zero + (logn % 10) /\ h[7] = Dollar
    BY <1>2, <2>1, HeaderIs DEF Minors
  <2>3. PICK a \in Nat, b \in Nat : a = logn \div 10 /\ b = logn % 10
    OBVIOUS
  <2>4. minor # NUL /\ Dollar # NUL /\ BCRYPT_VERSION # NUL
    BY DEF Minors, MinorA, MinorB, NUL, Dollar, BCRYPT_VERSION
  <2>5. Zero + a # NUL /\ Zero + b # NUL
    BY DEF Zero, NUL
  <2>6. \A i \in 1..7 : i = 1 \/ i = 2 \/ i = 3 \/ i = 4 \/ i = 5 \/ i = 6 \/ i = 7
    OBVIOUS
  <2> QED
    BY <1>4, <2>1, <2>2, <2>3, <2>4, <2>5, <2>6
<1>8. \A i \in 8..n : t[i] # NUL
  <2>1. \A ch \in Characters64 : ch # NUL
    BY CodeSizes DEF Characters64, Base64Code, NUL
  <2> QED
    BY <1>5, <1>6, <2>1
<1>9. \A i \in 1..n : t[i] \in Written
  <2>1. \A i \in 1..n : t[i] \in Nat
    BY <1>4, <1>5, <1>6, ElementOfSeq
  <2>2. \A i \in 1..n : i \in 1..7 \/ i \in 8..n
    OBVIOUS
  <2> QED
    BY <1>7, <1>8, <2>1, <2>2 DEF Written
<1>10. DOMAIN t = 1..n /\ t = [i \in 1..n |-> t[i]]
  BY <1>4, <1>5, <1>6, LenProperties
<1>11. t \in [1..n -> Written]
  BY <1>9, <1>10
<1> QED
  BY <1>5, <1>11, FunctionIsSeq

\* Who enters the password of a text is let in, whatever is in the buffer.
LEMMA MadeIsAccepted ==
  ASSUME NEW t, NEW q \in Seq(Byte), Made(t, q), NEW buffer
  PROVE  validatePassword(q, t, buffer)
<1>1. PICK minor \in Minors, logr \in Costs, seed \in Salts : t = HashText(minor, logr, seed, q)
  BY DEF Made
<1>2. PICK rest \in Seq(Nat) : t = Salted(minor, logr, seed, rest)
  BY <1>1, HashTextIs
<1>3. node_bcrypt(q, t, buffer) = HashText(minor, logr, seed, q)
  BY <1>2, BcryptOf
<1>4. Resized(t, TextLength) = t
  BY <1>1, HashTextIs
<1> QED
  BY <1>1, <1>3, <1>4 DEF validatePassword

\* A text of version "$2$" is one character short of the length it is resized to.
LEMMA OldTextIsShort ==
  ASSUME NEW logr \in Costs, NEW seed \in Salts, NEW p \in Seq(Byte)
  PROVE  /\ HashText(NUL, logr, seed, p) \in Seq(Nat)
         /\ Len(HashText(NUL, logr, seed, p)) = TextLength - 1
<1>1. PICK logn \in Nat : logn = logr
  BY CostAssumption DEF Costs
<1>2. PICK hash \in Hashes : HashText(NUL, logr, seed, p) = TextOf(NUL, logr, seed, hash)
  <2>1. KeyBuffer(p) \in Seq(Byte) /\ Len(KeyBuffer(p)) = Len(p) + 1
    BY KeyIs DEF Minors
  <2>2. PICK n \in Nat : n = Len(p)
    BY LenProperties
  <2>3. KeyLength(NUL, n) \in 0..(n + 1)
    <3>1. KeyLength(NUL, n) = n % Base
      BY DEF KeyLength, Unsigned8, NUL, MinorA, MinorB
    <3>2. /\ n \div Base \in Nat /\ n % Base \in 0..(Base - 1)
          /\ n = ((n \div Base) * Base) + (n % Base)
      BY BaseType, Places
    <3>3. (n \div Base) * Base \in Nat
      BY <3>2, BaseType
    <3> QED
      BY <3>1, <3>2, <3>3, BaseType
  <2>4. ExpandedState(logn, seed, KeyBuffer(p), KeyLength(NUL, n)) \in blf_ctx
    <3>1. PICK key \in Seq(Byte) : key = KeyBuffer(p) /\ Len(key) = n + 1
      BY <2>1, <2>2
    <3>2. PICK keylen \in 0..Len(key) : keylen = KeyLength(NUL, n)
      BY <2>3, <3>1
    <3>3. Len(key) \in Nat \ {0}
      BY <3>1
    <3> QED
      BY <3>1, <3>2, <3>3, ExpandedType
  <2> QED
    BY <1>1, <2>2, <2>4, CipherTextType DEF HashText
<1>3. PICK h \in Seq(Nat) : h = Header(NUL, logn) /\ Len(h) = 6
  <2>1. Dollar \in Nat /\ BCRYPT_VERSION \in Nat /\ Zero \in Nat
    BY DEF Dollar, BCRYPT_VERSION, Zero
  <2>2. PICK two \in Seq(Nat) : two = <<Dollar, BCRYPT_VERSION>> /\ Len(two) = 2
    <3>1. <<Dollar, BCRYPT_VERSION>> \in Seq(Nat)
      BY <2>1
    <3> QED
      BY <3>1
  <2>3. PICK bar \in Seq(Nat) : bar = <<Dollar>> /\ Len(bar) = 1
    <3>1. <<Dollar>> \in Seq(Nat)
      BY <2>1
    <3> QED
      BY <3>1
  <2>4. PICK cost \in Seq(Nat) : cost = TwoDigits(logn) /\ Len(cost) = 3
    <3>1. Zero + (logn \div 10) \in Nat /\ Zero + (logn % 10) \in Nat
      BY DEF Zero
    <3>2. <<Zero + (logn \div 10), Zero + (logn % 10), Dollar>> \in Seq(Nat)
      BY <2>1, <3>1
    <3> QED
      BY <3>2 DEF TwoDigits
  <2>5. two \o <<>> = two
    BY ConcatEmptySeq
  <2>6. Header(NUL, logn) = (two \o bar) \o cost
    BY <2>2, <2>3, <2>4, <2>5 DEF Header
  <2>7. PICK a \in Seq(Nat) : a = two \o bar /\ Len(a) = 3
    <3>1. two \o bar \in Seq(Nat) /\ Len(two \o bar) = Len(two) + Len(bar)
      BY Behind
    <3>2. Len(two) + Len(bar) = 3
      BY <2>2, <2>3
    <3> QED
      BY <3>1, <3>2
  <2>8. PICK b \in Seq(Nat) : b = a \o cost /\ Len(b) = 6
    <3>1. a \o cost \in Seq(Nat) /\ Len(a \o cost) = Len(a) + Len(cost)
      BY Behind
    <3>2. Len(a) + Len(cost) = 6
      BY <2>4, <2>7
    <3> QED
      BY <3>1, <3>2
  <2> QED
    BY <2>2, <2>3, <2>4, <2>6, <2>7, <2>8
<1>4. PICK C \in Nat, D \in Nat :
        /\ C = Characters(BCRYPT_MAXSALT) /\ D = Characters(4 * BCRYPT_BLOCKS - 1)
        /\ TextLength = 7 + C + D
  BY SaltSizes, TextSizes
<1>5. PICK e \in Seq(Nat) : e = encode_base64(seed, BCRYPT_MAXSALT) /\ Len(e) = C
  BY <1>4, SeedIs
<1>6. PICK rest \in Seq(Nat) : rest = encode_base64(hash, 4 * BCRYPT_BLOCKS - 1) /\ Len(rest) = D
  BY <1>4, HashIs
<1>7. PICK a \in Seq(Nat) : a = h \o e /\ Len(a) = 6 + C
  <2>1. h \o e \in Seq(Nat) /\ Len(h \o e) = Len(h) + Len(e)
    BY Behind
  <2>2. Len(h) + Len(e) = 6 + C
    BY <1>3, <1>5
  <2> QED
    BY <2>1, <2>2
<1>8. PICK t \in Seq(Nat) : t = a \o rest /\ Len(t) = 6 + C + D
  <2>1. a \o rest \in Seq(Nat) /\ Len(a \o rest) = Len(a) + Len(rest)
    BY Behind
  <2>2. Len(a) + Len(rest) = 6 + C + D
    BY <1>6, <1>7
  <2> QED
    BY <2>1, <2>2
<1>9. TextOf(NUL, logn, seed, hash) = t
  BY <1>3, <1>5, <1>6, <1>7, <1>8 DEF TextOf
<1>10. Len(t) = TextLength - 1
  <2>1. (7 + C + D) - 1 = 6 + C + D
    OBVIOUS
  <2> QED
    BY <1>4, <1>8, <2>1, Zenon
<1> QED
  BY <1>1, <1>2, <1>9, <1>10

\* Only a text that is the text of a password, under the version, the cost and
\* the salt it was written with, lets that password in: what could not be read
\* out of a text is written back otherwise than it was read.
LEMMA AcceptedIsMade ==
  ASSUME NEW t \in Seq(Written), NEW q \in Seq(Byte), NEW buffer \in Salts,
         validatePassword(q, t, buffer)
  PROVE  Made(t, q)
<1>1. PICK n \in Nat : n = TextLength /\ n >= 7
  BY TextSizes, SaltSizes
<1>2. PICK got : got = node_bcrypt(q, t, buffer) /\ t = Resized(got, n)
  BY <1>1 DEF validatePassword
<1>3. Len(t) = n /\ \A i \in 1..n : CharAt(got, i) = t[i] /\ t[i] \in Written
  <2>1. t = [i \in 1..n |-> CharAt(got, i)]
    BY <1>2 DEF Resized
  <2>2. DOMAIN t = 1..n
    BY <2>1
  <2>3. Len(t) = n
    BY <1>1, <2>2, LenProperties
  <2> QED
    BY <2>1, <2>3, ElementOfSeq
<1>4. \A i \in 1..n : i \in DOMAIN got
  BY <1>3 DEF CharAt, Written
<1>5. ~Malformed(t)
  <2>1. SUFFICES ASSUME Malformed(t) PROVE FALSE
    OBVIOUS
  <2>2. got = <<58>>
    BY <1>2, <2>1 DEF node_bcrypt, error
  <2>3. 2 \in 1..n /\ 2 \notin DOMAIN got
    BY <1>1, <2>2
  <2> QED
    BY <1>4, <2>3
<1>6. PICK minor, logr, seed :
        minor = Minor(t) /\ logr = Cost(t)
          /\ seed = decode_base64(BCRYPT_MAXSALT, SaltText(t), buffer)
  OBVIOUS
<1>7. minor \in {NUL, MinorA, MinorB}
  BY <1>5, <1>6 DEF Malformed
<1>8. logr \in Costs
  <2>1. \A i : CharAt(t, i) \in Nat
    <3>1. DOMAIN t = 1..n
      BY <1>3, LenProperties
    <3> QED
      BY <1>3, <3>1 DEF CharAt, NUL, Written
  <2>2. \A c1 \in Nat, c2 \in Nat : atoi(c1, c2) \in Int
    BY DEF atoi, Zero
  <2>3. logr \in Int
    BY <1>6, <2>1, <2>2 DEF Cost
  <2>4. ~(logr > MaxLogRounds) /\ ~(logr < MinLogRounds)
    BY <1>5, <1>6 DEF Malformed
  <2> QED
    BY <2>3, <2>4, CostAssumption DEF Costs
<1>9. seed \in Salts
  BY <1>6, DecodedType DEF Salts
<1>10. got = HashText(minor, logr, seed, q)
  <2> DEFINE state == ExpandedState(logr, seed, KeyBuffer(q), KeyLength(minor, Len(q)))
  <2>1. got = The({TextOf(minor, logr, seed, CipherText(c)) : c \in {state}})
    BY <1>2, <1>5, <1>6 DEF node_bcrypt
  <2> HIDE DEF state
  <2>2. {TextOf(minor, logr, seed, CipherText(c)) : c \in {state}}
          = {TextOf(minor, logr, seed, CipherText(state))}
    OBVIOUS
  <2>3. The({TextOf(minor, logr, seed, CipherText(c)) : c \in {state}})
          = TextOf(minor, logr, seed, CipherText(state))
    BY <2>2, TheOne
  <2> QED
    BY <2>1, <2>3 DEF HashText, state
<1>11. minor \in Minors
  <2>1. SUFFICES ASSUME minor = NUL PROVE FALSE
    BY <1>7 DEF Minors
  <2>2. got \in Seq(Nat) /\ Len(got) = n - 1
    BY <1>1, <1>8, <1>9, <1>10, <2>1, OldTextIsShort
  <2>3. DOMAIN got = 1..(n - 1)
    BY <2>2, LenProperties
  <2> QED
    BY <1>1, <1>4, <2>3
<1>12. Resized(got, n) = got
  BY <1>1, <1>8, <1>9, <1>10, <1>11, HashTextIs
<1> QED
  BY <1>2, <1>8, <1>9, <1>10, <1>11, <1>12 DEF Made

\* Two passwords of one text have the same hash under its version, cost and salt.
LEMMA MadeTwice ==
  ASSUME NEW t, NEW p \in Seq(Byte), NEW q \in Seq(Byte), Made(t, p), Made(t, q)
  PROVE  \E minor \in Minors, logr \in Costs, seed \in Salts :
           t = HashText(minor, logr, seed, p) /\ t = HashText(minor, logr, seed, q)
<1>1. PICK minor \in Minors, logr \in Costs, seed \in Salts : t = HashText(minor, logr, seed, p)
  BY DEF Made
<1>2. PICK minor2 \in Minors, logr2 \in Costs, seed2 \in Salts :
        t = HashText(minor2, logr2, seed2, q)
  BY DEF Made
<1>3. PICK rest \in Seq(Nat) : t = Salted(minor, logr, seed, rest)
  BY <1>1, HashTextIs
<1>4. PICK rest2 \in Seq(Nat) : t = Salted(minor2, logr2, seed2, rest2)
  BY <1>2, HashTextIs
<1>5. /\ Minor(t) = minor /\ Cost(t) = logr
      /\ decode_base64(BCRYPT_MAXSALT, SaltText(t), seed) = seed
  BY <1>3, ReadsBack
<1>6. /\ Minor(t) = minor2 /\ Cost(t) = logr2
      /\ decode_base64(BCRYPT_MAXSALT, SaltText(t), seed) = seed2
  BY <1>4, ReadsBack
<1> QED
  BY <1>1, <1>2, <1>5, <1>6

LEMMA ReplacedIsWritten ==
  ASSUME NEW t \in Seq(Written), NEW i, NEW ch \in Written
  PROVE  [t EXCEPT ![i] = ch] \in Seq(Written)
<1>1. PICK n \in Nat : n = Len(t)
  BY LenProperties
<1>2. t \in [1..n -> Written]
  BY <1>1, LenProperties, ElementOfSeq
<1>3. [t EXCEPT ![i] = ch] \in [1..n -> Written]
  BY <1>2
<1> QED
  BY <1>1, <1>3, FunctionIsSeq

LEMMA PartIsWritten ==
  ASSUME NEW t \in Seq(Written), NEW n \in Nat, n = Len(t), NEW i \in Nat \ {0}, NEW j \in Nat,
         j <= n
  PROVE  SubSeq(t, i, j) \in Seq(Written)
<1>1. \A k \in i..j : t[k] \in Written
  <2>1. \A k \in i..j : k \in 1..n
    OBVIOUS
  <2> QED
    BY <2>1, ElementOfSeq
<1> QED
  BY <1>1, SubSeqProperties

\* No damage puts a NUL into a text.
LEMMA DamagesAreWritten ==
  ASSUME NEW p \in Seq(Byte), Made(text, p)
  PROVE  Damages \in SUBSET Seq(Written)
<1>1. PICK n \in Nat, C \in Nat \ {0}, last \in Nat :
        /\ n = Len(text) /\ C = Characters(BCRYPT_MAXSALT) /\ last = 7 + C /\ last < n
  BY MadeIsWritten, SaltSizes, TextSizes
<1>2. text \in Seq(Written)
  BY MadeIsWritten
<1>3. \A i \in 1..n : text[i] \in Written
  BY <1>1, <1>2, ElementOfSeq
<1>4. /\ Zero \in Written /\ Digit9 \in Written /\ Blank \in Written
      /\ Zero + MinLogRounds \in Written /\ Zero + MaxLogRounds \in Written
      /\ Base64Code(0) \in Written /\ Base64Code(1) \in Written
  BY CostAssumption DEF Zero, Digit9, Blank, Base64Code, NUL, Written
<1>5. \A i : \A ch \in Written : Replaced(i, ch) \in Seq(Written)
  BY <1>2, ReplacedIsWritten DEF Replaced
<1>6. \A i \in Nat \ {0}, j \in Nat : j <= n => SubSeq(text, i, j) \in Seq(Written)
  BY <1>1, <1>2, PartIsWritten
<1>7. SubSeq(text, 1, n - 1) \in Seq(Written)
  <2>1. n - 1 \in Nat /\ n - 1 <= n /\ 1 \in Nat \ {0}
    BY <1>1
  <2> QED
    BY <1>6, <2>1
<1>8. SubSeq(text, 1, last) \in Seq(Written) /\ SubSeq(text, 1, 7 + 1) \in Seq(Written)
  <2>1. last <= n /\ 7 + 1 \in Nat /\ 7 + 1 <= n /\ 1 \in Nat \ {0}
    BY <1>1
  <2> QED
    BY <1>6, <2>1
<1>9. Append(text, text[last]) \in Seq(Written)
  <2>1. text[last] \in Written
    BY <1>1, <1>3
  <2> QED
    BY <1>2, <2>1, AppendProperties
<1>10. SubSeq(text, 1, 2) \o SubSeq(text, 4, n) \in Seq(Written)
  <2>1. 2 \in Nat /\ 2 <= n /\ n <= n /\ 1 \in Nat \ {0} /\ 4 \in Nat \ {0}
    BY <1>1
  <2>2. SubSeq(text, 1, 2) \in Seq(Written) /\ SubSeq(text, 4, n) \in Seq(Written)
    BY <1>6, <2>1
  <2> QED
    BY <2>2, ConcatProperties
<1>11. ASSUME NEW d \in Damages PROVE d \in Seq(Written)
  <2> DEFINE cost == IF text[6] = Zero + MinLogRounds THEN Zero + MaxLogRounds
                     ELSE Zero + MinLogRounds
             other(i) == IF text[i] = Base64Code(0) THEN Base64Code(1) ELSE Base64Code(0)
  <2>1. cost \in Written /\ \A i : other(i) \in Written
    BY <1>4
  <2>2. \/ d = SubSeq(text, 1, n - 1) \/ d = SubSeq(text, 1, last) \/ d = SubSeq(text, 1, 7 + 1)
        \/ d = Append(text, text[last]) \/ d = SubSeq(text, 1, 2) \o SubSeq(text, 4, n)
        \/ d = Replaced(3, Zero) \/ d = Replaced(2, Digit9) \/ d = Replaced(7, Zero)
        \/ d = Replaced(5, Digit9) \/ d = Replaced(6, cost) \/ d = Replaced(5, Blank)
        \/ d = Replaced(7 + 1, Blank) \/ d = Replaced(last - 1, Blank)
        \/ d = Replaced(last, other(last)) \/ d = Replaced(n, other(n))
    BY <1>1, <1>11 DEF Damages
  <2> HIDE DEF cost, other
  <2> QED
    BY <1>4, <1>5, <1>7, <1>8, <1>9, <1>10, <2>1, <2>2
<1> QED
  BY <1>11

LEMMA PasswordStep ==
  PasswordInv /\ [Next]_vars => PasswordInv'
<1> SUFFICES ASSUME PasswordInv, [Next]_vars PROVE PasswordInv'
  OBVIOUS
<1> USE DEF PasswordInv, TextInv
<1>0. /\ \A p \in Passwords : p \in Seq(Byte)
      /\ \A r \in LogRounds : Unsigned8(r) \in Nat
      /\ \A seed \in Seeds \cup Buffers : seed \in Salts
      /\ MinorA \in Minors /\ MinorB \in Minors /\ MinLogRounds \in Nat
  <2>1. \A r \in LogRounds : Unsigned8(r) \in Nat
    BY TextsAssumption, BaseType, Places DEF Unsigned8
  <2> QED
    BY <2>1, TextsAssumption, CostAssumption DEF Salts, Minors
<1>1. CASE Register
  <2>1. PICK password \in Passwords, rounds \in LogRounds, seed \in Seeds :
          /\ text' = generateHash(password, rounds, seed)
          /\ owner' = password
    BY <1>1 DEF Register
  <2>2. Made(text', password)
    BY <1>0, <2>1, StoredIsMade DEF generateHash
  <2>3. text' # None /\ text' \in Seq(Written)
    BY <1>0, <2>2, MadeIsWhole, MadeIsWritten
  <2>4. verdict' = "none"
    BY <1>1 DEF Register
  <2> QED
    BY <2>1, <2>2, <2>3, <2>4 DEF OwnerIsLetIn
<1>2. CASE Import
  <2>1. PICK password \in Passwords, seed \in Seeds :
          /\ text' = node_bcrypt(password, bcrypt_gensalt(MinorA, MinLogRounds, seed), seed)
          /\ owner' = password
    BY <1>2 DEF Import
  <2>2. Made(text', password)
    BY <1>0, <2>1, StoredIsMade
  <2>3. text' # None /\ text' \in Seq(Written)
    BY <1>0, <2>2, MadeIsWhole, MadeIsWritten
  <2>4. verdict' = "none"
    BY <1>2 DEF Import
  <2> QED
    BY <2>1, <2>2, <2>3, <2>4 DEF OwnerIsLetIn
<1>3. CASE Damage
  <2>1. owner \in Seq(Byte) /\ Made(text, owner)
    BY <1>0, <1>3 DEF Damage
  <2>2. text' \in Seq(Written)
    BY <1>3, <2>1, DamagesAreWritten DEF Damage
  <2> QED
    BY <1>3, <2>2 DEF Damage, OwnerIsLetIn
<1>4. CASE LogIn
  <2>1. PICK password \in Passwords, buffer \in Buffers :
          /\ entered' = password
          /\ verdict' = IF validatePassword(password, text, buffer) THEN "valid" ELSE "refused"
    BY <1>4 DEF LogIn
  <2>2. text # None /\ UNCHANGED <<text, owner, damaged>>
    BY <1>4 DEF LogIn
  <2>3. ASSUME ~damaged, KeyStream(password) = KeyStream(owner), Keyed(password), Keyed(owner)
        PROVE  validatePassword(password, text, buffer)
    <3>1. Made(text, owner) /\ owner \in Seq(Byte) /\ password \in Seq(Byte)
      BY <1>0, <2>2, <2>3
    <3>2. RightKey(Minor(text), owner) /\ RightKey(Minor(text), password)
      BY <2>3 DEF RightKey, Keyed
    <3> QED
      BY <2>3, <3>1, <3>2, MadeLetsIn
  <2>4. OwnerIsLetIn'
    BY <2>1, <2>2, <2>3 DEF OwnerIsLetIn, Keyed
  <2>5. verdict' = "valid" => Made(text, password)
    BY <1>0, <2>1, AcceptedIsMade
  <2> QED
    BY <2>1, <2>2, <2>4, <2>5
<1>5. CASE Answer
  BY <1>5 DEF Answer, OwnerIsLetIn
<1>6. CASE UNCHANGED texts
  BY <1>6 DEF texts, OwnerIsLetIn, Keyed
<1>7. CASE Load \/ EncryptECB \/ EncryptCBC \/ DecryptECB \/ DecryptCBC \/ Unload \/ UNCHANGED vars
  BY <1>6, <1>7 DEF Load, EncryptECB, EncryptCBC, DecryptECB, DecryptCBC, Unload, vars
<1> QED
  BY <1>1, <1>2, <1>3, <1>4, <1>5, <1>7 DEF Next

LEMMA PasswordInvariance == Spec => []PasswordInv
<1>1. Init => PasswordInv
  <2>1. None \in Seq(Written)
    BY EmptySeq DEF None
  <2> QED
    BY <2>1 DEF Init, PasswordInv, TextInv, OwnerIsLetIn
<1> QED
  BY <1>1, PasswordStep, PTL DEF Spec

\* TextsAreWhole: what the code resizes to 60 characters has 60 of them, and is
\* read back, for any passwords, salts, costs and tables of the cipher.
THEOREM WholeTexts == Spec => []TextsAreWhole
<1>1. PasswordInv => TextsAreWhole
  BY TextsAssumption, MadeIsWhole DEF PasswordInv, TextInv, TextsAreWhole
<1> QED
  BY <1>1, PasswordInvariance, PTL

\* OwnerIsLetIn: what was registered is let in, for any passwords, salts, costs
\* and tables of the cipher, also when the password is longer than a key.
THEOREM OwnersLetIn == Spec => []OwnerIsLetIn
  BY PasswordInvariance, PTL DEF PasswordInv

\* VerdictIsDefined: what is in the salt before anything is written to it never
\* decides who is let in, for any texts without NUL.
THEOREM VerdictsAreDefined == Spec => []VerdictIsDefined
<1>1. PasswordInv => VerdictIsDefined
  BY TextsAssumption, MadeIsAccepted DEF PasswordInv, TextInv, VerdictIsDefined
<1> QED
  BY <1>1, PasswordInvariance, PTL

\* A text that lets somebody in, damaged or not, is exactly what bcrypt makes of
\* the password that was entered: 60 characters, of a version and a cost the
\* code has, and with a salt in base 64.  What OthersAreRefused and
\* DamagedTextsAreRefused say beyond that is that bcrypt makes the same text of
\* no other password, and of no other salt.
THEOREM LetInByHash ==
  Spec => [](verdict = "valid" =>
               /\ Made(text, entered)
               /\ Len(text) = TextLength /\ ~Malformed(text)
               /\ \A i \in 8..TextLength : text[i] \in Characters64)
<1>1. PasswordInv => (verdict = "valid" =>
                        /\ Made(text, entered)
                        /\ Len(text) = TextLength /\ ~Malformed(text)
                        /\ \A i \in 8..TextLength : text[i] \in Characters64)
  BY TextsAssumption, MadeIsWhole DEF PasswordInv, TextInv
<1> QED
  BY <1>1, PasswordInvariance, PTL

\* OthersAreRefused, up to collisions: whoever is let in by a text that is not
\* damaged has a password with the same hash as the owner's, under the version,
\* the cost and the salt of the text.
THEOREM OthersByCollision ==
  Spec => [](verdict = "valid" /\ ~damaged =>
               \E minor \in Minors, logr \in Costs, seed \in Salts :
                 /\ text = HashText(minor, logr, seed, owner)
                 /\ text = HashText(minor, logr, seed, entered))
<1>1. ASSUME PasswordInv, verdict = "valid", ~damaged
      PROVE  \E minor \in Minors, logr \in Costs, seed \in Salts :
               /\ text = HashText(minor, logr, seed, owner)
               /\ text = HashText(minor, logr, seed, entered)
  <2>1. text # None
    BY <1>1 DEF PasswordInv, TextInv
  <2>2. /\ owner \in Seq(Byte) /\ Made(text, owner)
        /\ entered \in Seq(Byte) /\ Made(text, entered)
    BY <1>1, <2>1, TextsAssumption DEF PasswordInv, TextInv
  <2> QED
    BY <2>2, MadeTwice
<1> QED
  BY <1>1, PasswordInvariance, PTL
=============================================================================
