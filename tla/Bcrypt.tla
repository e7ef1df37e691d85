------------------------------- MODULE Bcrypt -------------------------------
(***************************************************************************)
(* bcrypt.cpp: a password and a salt make a text, "$2b$10$", the salt and  *)
(* the hash in base 64.  Stored texts are read back for the cost and the   *)
(* salt they were made with.  Texts are sequences of character codes; what *)
(* follows their end reads as NUL.                                         *)
(***************************************************************************)
EXTENDS Blowfish, SequencesExt

CONSTANTS
  BCRYPT_MAXSALT,   \* bytes of a salt: 16
  BCRYPT_BLOCKS,    \* words of the ciphertext: 6
  MinLogRounds,     \* the log of BCRYPT_MINROUNDS: 4
  MaxLogRounds,     \* 31
  Repeats,          \* how often the ciphertext is encrypted: 64
  Magic             \* the bytes of "OrpheanBeholderScryDoubt"

ASSUME SaltAssumption == BCRYPT_MAXSALT \in Nat \ {0}
ASSUME MagicAssumption ==
  BCRYPT_BLOCKS \in Nat \ {0} /\ Magic \in [1..(4 * BCRYPT_BLOCKS) -> Byte]
ASSUME CostAssumption ==
  /\ MinLogRounds \in Nat /\ MaxLogRounds \in Nat /\ MinLogRounds <= MaxLogRounds
  /\ MaxLogRounds < 100   \* it is written with two digits
  /\ Repeats \in Nat
ASSUME AlphabetAssumption == Quarter <= 4   \* base 64 has no more characters

NUL == 0
Dollar == 36
BCRYPT_VERSION == 50  \* '2'
MinorA == 97
MinorB == 98
Zero == 48
Digit9 == 57
Blank == 32
Plus == 43
error == <<58>>       \* ":"

\* What an unsigned char keeps.
Unsigned8(n) == n % Base

-----------------------------------------------------------------------------
(* Base 64: a code has three quarters of a byte. *)

Codes == Quarter * Quarter * Quarter

\* Base64Code: "./A-Za-z0-9".
Base64Code(n) ==
  IF n < 2 THEN 46 + n
  ELSE IF n < 28 THEN 65 + n - 2
  ELSE IF n < 54 THEN 97 + n - 28
  ELSE 48 + n - 54

\* What CHAR64 makes other than 255, and what it makes of that.
Valid(ch) == \E n \in 0..(Codes - 1) : Base64Code(n) = ch
CHAR64(ch) == CHOOSE n \in 0..(Codes - 1) : Base64Code(n) = ch

\* Mutant of EncodeGroup: always four codes.
EncodeGroupPadded(b) ==
  LET byte(k) == IF k \in DOMAIN b THEN b[k] ELSE 0
  IN <<byte(1) \div Quarter,
       (byte(1) % Quarter) * Quarter * Quarter + byte(2) \div (Quarter * Quarter),
       (byte(2) % (Quarter * Quarter)) * Quarter + byte(3) \div Codes,
       byte(3) % Codes>>

\* The codes of up to three bytes: the last one is filled up with zero bits,
\* and no padding is written.
EncodeGroup(b) ==
  LET byte(k) == IF k \in DOMAIN b THEN b[k] ELSE 0
  IN SubSeq(<<byte(1) \div Quarter,
              (byte(1) % Quarter) * Quarter * Quarter + byte(2) \div (Quarter * Quarter),
              (byte(2) % (Quarter * Quarter)) * Quarter + byte(3) \div Codes,
              byte(3) % Codes>>,
            1, Len(b) + 1)

Groups(len) == (len + 2) \div 3
Characters(len) == len + Groups(len)

AtMost(n, m) == IF n <= m THEN n ELSE m

encode_base64(data, len) ==
  FlattenSeq([g \in 1..Groups(len) |->
    LET codes == EncodeGroup(SubSeq(data, 3 * g - 2, AtMost(3 * g, len)))
    IN [k \in DOMAIN codes |-> Base64Code(codes[k])]])

DecodeGroup(c) ==
  <<c[1] * Quarter + c[2] \div (Quarter * Quarter),
    (c[2] % (Quarter * Quarter)) * Quarter * Quarter + c[3] \div Quarter,
    (c[3] % Quarter) * Codes + c[4]>>

\* len bytes out of the characters of data.  The loop ends at the first one that
\* is not valid, and from there on the bytes are what was in the buffer: in
\* node_bcrypt nothing has been written to it.
decode_base64(len, data, buffer) ==
  LET code(i) == IF i \in DOMAIN data /\ Valid(data[i]) THEN CHAR64(data[i]) ELSE 0
      Reached(n) == \A i \in 1..n : i \in DOMAIN data /\ Valid(data[i])
  IN [i \in 1..len |->
        LET g == (i - 1) \div 3
            r == (i - 1) % 3
        IN IF Reached(4 * g + r + 2)
           THEN DecodeGroup([k \in 1..4 |-> code(4 * g + k)])[r + 1]
           ELSE buffer[i]]

-----------------------------------------------------------------------------
(* Texts. *)

\* "%2.2u$"
TwoDigits(n) == <<Zero + (n \div 10), Zero + (n % 10), Dollar>>

Header(minor, logr) ==
  <<Dollar, BCRYPT_VERSION>> \o (IF minor = NUL THEN <<>> ELSE <<minor>>)
    \o <<Dollar>> \o TwoDigits(logr)

encode_salt(csalt, minor, clen, logr) == Header(minor, logr) \o encode_base64(csalt, clen)

Clamped(n) == IF n < MinLogRounds THEN MinLogRounds
              ELSE IF n > MaxLogRounds THEN MaxLogRounds ELSE n

bcrypt_gensalt(minor, log_rounds, seed) ==
  encode_salt(seed, minor, BCRYPT_MAXSALT, Clamped(log_rounds))

CharAt(text, i) == IF i \in DOMAIN text THEN text[i] ELSE NUL

Digit(ch) == ch \in Zero..(Zero + 9)

\* Two characters and a "$".  What comes before the digits may be blank or "+";
\* "-" is one of the ways to get less than MinLogRounds.
atoi(c1, c2) == IF Digit(c1) THEN (IF Digit(c2) THEN 10 * (c1 - Zero) + (c2 - Zero) ELSE c1 - Zero)
                ELSE IF c1 \in {Blank, Plus} /\ Digit(c2) THEN c2 - Zero
                ELSE 0

\* Where the cost starts: behind "$2$" or "$2b$".
HasMinor(text) == CharAt(text, 3) # Dollar
CostAt(text) == IF HasMinor(text) THEN 5 ELSE 4
Minor(text) == IF HasMinor(text) THEN CharAt(text, 3) ELSE NUL
Cost(text) == atoi(CharAt(text, CostAt(text)), CharAt(text, CostAt(text) + 1))
SaltText(text) == SubSeq(text, CostAt(text) + 3, Len(text))

\* The early returns of node_bcrypt.
Malformed(text) ==
  \/ CharAt(text, 2) > BCRYPT_VERSION
  \/ Minor(text) \notin {NUL, MinorA, MinorB}
  \/ CharAt(text, CostAt(text) + 2) # Dollar
  \/ Cost(text) > MaxLogRounds
  \/ Cost(text) < MinLogRounds
  \/ (Len(SaltText(text)) * 3) \div 4 < BCRYPT_MAXSALT

-----------------------------------------------------------------------------
(* Keys.  The NUL that ends a password is part of its key, except in the   *)
(* first version; all but the last version keep the length in a byte.      *)

MaxKey == 4 * (BLF_N + 2)

\* Mutant of KeyLength: the NUL is left out of a key.
KeyLengthWithoutNUL(minor, len) == AtMost(len, MaxKey)

KeyLength(minor, len) ==
  IF minor = MinorB THEN AtMost(len, MaxKey) + 1
  ELSE IF minor = MinorA THEN Unsigned8(len + 1)
  ELSE Unsigned8(len)

\* The buffer a key is read from.
KeyBuffer(password) == Append(password, NUL)

-----------------------------------------------------------------------------
(* The hash. *)

\* The salt and the key, and then so many rounds of the key and the salt.
ExpandedState(logr, csalt, key, keylen) ==
  LET state[k \in 0..(2 * 2 ^ logr)] ==
        IF k = 0 THEN Blowfish_expandstate(initstate, csalt, BCRYPT_MAXSALT, key, keylen)
        ELSE LET stream == IF k % 2 = 1 THEN key ELSE csalt
                 len == IF k % 2 = 1 THEN keylen ELSE BCRYPT_MAXSALT
             IN The({Blowfish_expand0state(c, stream, len) : c \in {state[k - 1]}})
  IN state[2 * 2 ^ logr]

\* Magic as words, encrypted again and again.
CipherText(c) ==
  LET cdata[k \in 0..Repeats] ==
        IF k = 0
        THEN [i \in 1..BCRYPT_BLOCKS |-> StreamWord(Magic, 4 * BCRYPT_BLOCKS, i - 1)]
        ELSE The({blf_enc(c, d, BCRYPT_BLOCKS \div 2) : d \in {cdata[k - 1]}})
  IN [i \in 1..(4 * BCRYPT_BLOCKS) |->
        BytesOf(cdata[Repeats][((i - 1) \div 4) + 1])[((i - 1) % 4) + 1]]

\* The last byte of the hash is left out.
TextOf(minor, logr, csalt, hash) ==
  Header(minor, logr) \o encode_base64(csalt, BCRYPT_MAXSALT)
    \o encode_base64(hash, 4 * BCRYPT_BLOCKS - 1)

\* buffer is what csalt holds before anything is written to it.
node_bcrypt(password, text, buffer) ==
  IF Malformed(text) THEN error
  ELSE LET csalt == decode_base64(BCRYPT_MAXSALT, SaltText(text), buffer)
           keylen == KeyLength(Minor(text), Len(password))
       IN The({TextOf(Minor(text), Cost(text), csalt, CipherText(c)) :
                 c \in {ExpandedState(Cost(text), csalt, KeyBuffer(password), keylen)}})

\* The length of a text: 60.
TextLength == Len(Header(MinorB, 0)) + Characters(BCRYPT_MAXSALT)
                + Characters(4 * BCRYPT_BLOCKS - 1)

\* std::string::resize: cut off, or filled up with NUL.
Resized(text, len) == [i \in 1..len |-> CharAt(text, i)]

\* The seed is random.
generateHash(password, rounds, seed) ==
  Resized(node_bcrypt(password, bcrypt_gensalt(MinorB, Unsigned8(rounds), seed), seed),
          TextLength)

\* Mutant of validatePassword: only what the stored text has is compared.
ValidateByPrefix(password, hash, buffer) ==
  hash = Resized(node_bcrypt(password, hash, buffer), Len(hash))

\* Mutant of validatePassword: the buffer is not cut to the length of a text.
ValidateUnresized(password, hash, buffer) ==
  hash = Resized(node_bcrypt(password, hash, buffer), TextLength + 1)

\* Mutant of validatePassword: only what is behind the salt is compared.
ValidateHashOnly(password, hash, buffer) ==
  LET made == Resized(node_bcrypt(password, hash, buffer), TextLength)
  IN Len(hash) = TextLength
       /\ \A i \in (8 + Characters(BCRYPT_MAXSALT))..TextLength : CharAt(hash, i) = made[i]

validatePassword(password, hash, buffer) ==
  hash = Resized(node_bcrypt(password, hash, buffer), TextLength)
=============================================================================
