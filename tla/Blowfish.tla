------------------------------ MODULE Blowfish ------------------------------
(***************************************************************************)
(* blowfish.cpp: the cipher bcrypt is built on, as operators.  A byte has  *)
(* four quarters, so that base 64 codes of three quarters fit in; in the   *)
(* code a quarter is two bits.  Everything else has the sizes of the code: *)
(* four bytes in a word, four S-boxes with one word per byte, 16 rounds.   *)
(***************************************************************************)
EXTENDS Naturals, Sequences

CONSTANTS
  Quarter,         \* the values of a quarter of a byte: 4
  XorByte(_, _),   \* bitwise exclusive or
  initstate        \* the tables of Blowfish_initstate

Base == Quarter * Quarter * Quarter * Quarter
Byte == 0..(Base - 1)
WordValues == Base * Base * Base * Base
Word == 0..(WordValues - 1)

BLF_N == 16

\* blf_ctx: the S-boxes, one behind the other as F reads them, and the subkeys.
blf_ctx == [S : [0..(4 * Base - 1) -> Word], P : [0..(BLF_N + 1) -> Word]]

ASSUME QuarterAssumption == Quarter \in Nat \ {0, 1}
ASSUME XorAssumption ==
  \A a, b \in Byte : XorByte(a, b) \in Byte /\ XorByte(XorByte(a, b), b) = a
ASSUME StateAssumption == initstate \in blf_ctx

\* The element of a set of one: {Op(y) : y \in {x}} has TLC evaluate x first.
The(S) == CHOOSE z \in S : TRUE

-----------------------------------------------------------------------------
(* Bytes and words, the most significant byte first. *)

WordOf(b) == ((b[1] * Base + b[2]) * Base + b[3]) * Base + b[4]
BytesOf(w) == <<((w \div Base) \div Base) \div Base, ((w \div Base) \div Base) % Base,
                (w \div Base) % Base, w % Base>>

XorBytes(a, b) == [k \in 1..4 |-> XorByte(a[k], b[k])]
Xor(v, w) == WordOf(XorBytes(BytesOf(v), BytesOf(w)))

\* Blowfish_stream2word: byte t of the endless repetition of data, counted
\* from 0.  With no bytes to read the first one of the buffer is read again.
StreamByte(data, databytes, t) == data[IF databytes = 0 THEN 1 ELSE (t % databytes) + 1]

StreamWord(data, databytes, n) ==
  WordOf([k \in 1..4 |-> StreamByte(data, databytes, 4 * n + k - 1)])

-----------------------------------------------------------------------------
(* The Feistel network.  A block is <<xl, xr>>. *)

Mixed(s, b) ==
  (Xor((s[b[1]] + s[Base + b[2]]) % WordValues, s[2 * Base + b[3]])
     + s[3 * Base + b[4]]) % WordValues
F(s, x) == Mixed(s, BytesOf(x))

BLFRND(c, i, j, n) == Xor(i, Xor(F(c.S, j), c.P[n]))

\* A round: half y[1] is mixed with half y[2] and subkey n.  The code does not
\* move the halves; it swaps their names from round to round.
Round(c, y, n) == <<y[2], BLFRND(c, y[1], y[2], n)>>
Rounds(c, y, n, m) == Round(c, Round(c, y, n), m)

Start(c, x, n) == <<x[2], Xor(x[1], c.P[n])>>
Finish(c, y, n) == <<Xor(y[1], c.P[n]), y[2]>>

Blowfish_encipher(c, x) ==
  Finish(c,
    Rounds(c, Rounds(c, Rounds(c, Rounds(c, Rounds(c, Rounds(c, Rounds(c, Rounds(c,
      Start(c, x, 0),
      1, 2), 3, 4), 5, 6), 7, 8), 9, 10), 11, 12), 13, 14), 15, 16),
    17)

Blowfish_decipher(c, x) ==
  Finish(c,
    Rounds(c, Rounds(c, Rounds(c, Rounds(c, Rounds(c, Rounds(c, Rounds(c, Rounds(c,
      Start(c, x, 17),
      16, 15), 14, 13), 12, 11), 10, 9), 8, 7), 6, 5), 4, 3), 2, 1),
    0)

-----------------------------------------------------------------------------
(* The key schedule. *)

Schedule == (BLF_N + 2) \div 2

\* The n-th result goes to the n-th pair of subkeys, and when these are full
\* to the next pair of entries in the S-boxes.
Put(c, n, x) ==
  IF n <= Schedule
  THEN [c EXCEPT !.P[2 * n - 2] = x[1], !.P[2 * n - 1] = x[2]]
  ELSE LET k == 2 * (n - Schedule) - 2
       IN [c EXCEPT !.S[k] = x[1], !.S[k + 1] = x[2]]

\* Each result is the cipher, under what the results before made of c, of the
\* result before, with the next two words of mix in it.
FillStep(y, n, mix) ==
  The({[ctx |-> Put(y.ctx, n, x), x |-> x] : x \in
         {Blowfish_encipher(y.ctx, <<Xor(y.x[1], mix[2 * n - 2]), Xor(y.x[2], mix[2 * n - 1])>>)}})

\* The results first to last.
FillFrom(y, first, last, mix) ==
  LET fill[k \in 0..(last + 1 - first)] ==
        IF k = 0 THEN y
        ELSE The({FillStep(z, first + k - 1, mix) : z \in {fill[k - 1]}})
  IN fill[last + 1 - first]

\* The subkeys, then one S-box after the other.
Fill(c, mix) ==
  LET filled(i) == IF i = 0 THEN 0 ELSE Schedule + (i - 1) * (Base \div 2)
      fill[i \in 0..5] ==
        IF i = 0 THEN [ctx |-> c, x |-> <<0, 0>>]
        ELSE The({FillFrom(y, filled(i - 1) + 1, filled(i), mix) : y \in {fill[i - 1]}})
  IN fill[5].ctx

WithKey(c, key, keybytes) ==
  [c EXCEPT !.P = [i \in DOMAIN @ |-> Xor(@[i], StreamWord(key, keybytes, i))]]

MixIndex == 0..(2 * (Schedule + 2 * Base) - 1)

Blowfish_expand0state(c, key, keybytes) ==
  Fill(WithKey(c, key, keybytes), [n \in MixIndex |-> 0])

Blowfish_expandstate(c, data, databytes, key, keybytes) ==
  Fill(WithKey(c, key, keybytes), [n \in MixIndex |-> StreamWord(data, databytes, n)])

blf_key(k, len) == Blowfish_expand0state(initstate, k, len)

-----------------------------------------------------------------------------
(* The modes, on data that is a number of whole blocks of eight bytes. *)

BlockAt(data, k) ==
  <<WordOf(SubSeq(data, 8 * k - 7, 8 * k - 4)), WordOf(SubSeq(data, 8 * k - 3, 8 * k))>>

BlockBytes(x) == BytesOf(x[1]) \o BytesOf(x[2])

\* The data whose k-th block is block[k].
DataOf(block, blocks) ==
  [i \in 1..(8 * blocks) |-> BlockBytes(block[((i - 1) \div 8) + 1])[((i - 1) % 8) + 1]]

Blocks(data) == Len(data) \div 8

XorBlock(x, y) == <<Xor(x[1], y[1]), Xor(x[2], y[2])>>

\* blf_enc, on words instead of bytes.
blf_enc(c, data, blocks) ==
  [i \in DOMAIN data |->
     LET k == (i - 1) \div 2
     IN IF k < blocks
        THEN Blowfish_encipher(c, <<data[2 * k + 1], data[2 * k + 2]>>)[((i - 1) % 2) + 1]
        ELSE data[i]]

blf_dec(c, data, blocks) ==
  [i \in DOMAIN data |->
     LET k == (i - 1) \div 2
     IN IF k < blocks
        THEN Blowfish_decipher(c, <<data[2 * k + 1], data[2 * k + 2]>>)[((i - 1) % 2) + 1]
        ELSE data[i]]

blf_ecb_encrypt(c, data) ==
  DataOf([k \in 1..Blocks(data) |-> Blowfish_encipher(c, BlockAt(data, k))], Blocks(data))

blf_ecb_decrypt(c, data) ==
  DataOf([k \in 1..Blocks(data) |-> Blowfish_decipher(c, BlockAt(data, k))], Blocks(data))

blf_cbc_encrypt(c, iv, data) ==
  LET cipher[k \in 0..Blocks(data)] ==
        IF k = 0 THEN BlockAt(iv, 1)
        ELSE Blowfish_encipher(c, XorBlock(BlockAt(data, k), cipher[k - 1]))
  IN DataOf(cipher, Blocks(data))

\* The buffer with x written over its block k.
WithBlock(data, k, x) ==
  DataOf([j \in 1..Blocks(data) |-> IF j = k THEN x ELSE BlockAt(data, j)], Blocks(data))

\* Block k of the buffer is deciphered and written back, and then the block in
\* front of it, as it is in the buffer by now, is mixed in.
DecryptBlock(c, iv, data, k) ==
  WithBlock(data, k,
            XorBlock(Blowfish_decipher(c, BlockAt(data, k)),
                     IF k = 1 THEN BlockAt(iv, 1) ELSE BlockAt(data, k - 1)))

\* Mutant of blf_cbc_decrypt: from the first block to the last.
DecryptForwards(c, iv, data) ==
  LET buffer[n \in 0..Blocks(data)] ==
        IF n = 0 THEN data
        ELSE The({DecryptBlock(c, iv, b, n) : b \in {buffer[n - 1]}})
  IN buffer[Blocks(data)]

\* One buffer, from the last block to the first.
blf_cbc_decrypt(c, iv, data) ==
  LET buffer[n \in 0..Blocks(data)] ==
        IF n = 0 THEN data
        ELSE The({DecryptBlock(c, iv, b, Blocks(data) + 1 - n) : b \in {buffer[n - 1]}})
  IN buffer[Blocks(data)]
=============================================================================
