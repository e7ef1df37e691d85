--------------------------- MODULE PasswordHashing --------------------------
(***************************************************************************)
(* What the program does with bcrypt: RegisterUser stores the text of      *)
(* generateHash, LoginUser reads it back for validatePassword.  Between    *)
(* the two the text is in a column of a table, where it can be damaged, or *)
(* come from another program that writes texts of version 2a.              *)
(* Beside it the modes of the cipher, on a buffer that is encrypted and    *)
(* decrypted in place.  They share nothing with the texts, and are used    *)
(* only while no text is stored.                                           *)
(***************************************************************************)
EXTENDS Bcrypt

CONSTANTS
  Passwords,   \* sequences of bytes
  LogRounds,   \* what generateHash is asked for
  Seeds,       \* what the random numbers may be
  Buffers,     \* what may be in csalt before it is written to
  Keys,        \* keys of the modes, of 1 to MaxKey bytes
  IVs,         \* of one block
  Buffered     \* data, of one or more whole blocks

ASSUME TextsAssumption ==
  /\ \A p \in Passwords : p \in Seq(Byte)
  /\ \A r \in LogRounds : r \in Nat
  /\ \A s \in Seeds \cup Buffers : s \in [1..BCRYPT_MAXSALT -> Byte]
ASSUME KeysAssumption == \A k \in Keys : k \in Seq(Byte) /\ Len(k) \in 1..MaxKey
ASSUME DataAssumption ==
  /\ \A v \in IVs : v \in Seq(Byte) /\ Len(v) = 8
  /\ \A d \in Buffered : d \in Seq(Byte) /\ d # <<>> /\ Len(d) = 8 * Blocks(d)

VARIABLES
  text,      \* the stored text, empty when there is none
  owner,     \* the password it was made of
  damaged,   \* it is not the text that was made
  entered,   \* the password of the last login
  verdict,   \* what validatePassword made of it
  plain,     \* the data before it was encrypted
  data,      \* the buffer
  ctx,       \* what blf_key made
  iv,
  mode       \* what the data is: nothing, plain, or encrypted in one of two ways

texts == <<text, owner, damaged, entered, verdict>>
modes == <<plain, data, ctx, iv, mode>>
vars == <<texts, modes>>

None == <<>>

-----------------------------------------------------------------------------
Init ==
  /\ text = None /\ owner = None /\ damaged = FALSE
  /\ entered = None /\ verdict = "none"
  /\ plain = None /\ data = None /\ ctx = None /\ iv = None /\ mode = "nothing"

\* DatabaseManager::RegisterUser.
Register ==
  /\ text = None
  /\ mode = "nothing"
  /\ \E password \in Passwords, rounds \in LogRounds, seed \in Seeds :
       /\ text' = generateHash(password, rounds, seed)
       /\ owner' = password
  /\ UNCHANGED <<damaged, entered, verdict, modes>>

\* A text of version 2a.
Import ==
  /\ text = None
  /\ mode = "nothing"
  /\ \E password \in Passwords, seed \in Seeds :
       /\ text' = node_bcrypt(password, bcrypt_gensalt(MinorA, MinLogRounds, seed), seed)
       /\ owner' = password
  /\ UNCHANGED <<damaged, entered, verdict, modes>>

Replaced(i, ch) == [text EXCEPT ![i] = ch]

\* What may become of a text.  The salt starts behind the seven characters of
\* the header.
Damages ==
  LET salt == 7
      last == salt + Characters(BCRYPT_MAXSALT)
  IN { SubSeq(text, 1, Len(text) - 1),             \* cut off by the column
       SubSeq(text, 1, last),                      \* the hash is missing
       SubSeq(text, 1, salt + 1),                  \* so is the salt
       Append(text, text[last]),                   \* longer than a text
       SubSeq(text, 1, 2) \o SubSeq(text, 4, Len(text)),  \* version "$2$"
       Replaced(3, Zero),                          \* a version there is not
       Replaced(2, Digit9),
       Replaced(7, Zero),                          \* out of step
       Replaced(5, Digit9),                        \* a cost there is not
       Replaced(6, IF text[6] = Zero + MinLogRounds THEN Zero + MaxLogRounds
                   ELSE Zero + MinLogRounds),      \* another cost
       Replaced(5, Blank),                         \* a cost written otherwise
       Replaced(salt + 1, Blank),                  \* a salt that is not base 64
       Replaced(last - 1, Blank),
       Replaced(last, IF text[last] = Base64Code(0) THEN Base64Code(1)
                      ELSE Base64Code(0)),
       Replaced(Len(text), IF text[Len(text)] = Base64Code(0) THEN Base64Code(1)
                           ELSE Base64Code(0)) }

Damage ==
  /\ text # None
  /\ ~damaged
  /\ verdict = "none"
  /\ text' \in Damages
  /\ damaged' = TRUE
  /\ UNCHANGED <<owner, entered, verdict, modes>>

\* DatabaseManager::LoginUser.
LogIn ==
  /\ text # None
  /\ verdict = "none"
  /\ \E password \in Passwords, buffer \in Buffers :
       /\ entered' = password
       /\ verdict' = IF validatePassword(password, text, buffer) THEN "valid" ELSE "refused"
  /\ UNCHANGED <<text, owner, damaged, modes>>

Answer ==
  /\ verdict # "none"
  /\ verdict' = "none"
  /\ entered' = None
  /\ UNCHANGED <<text, owner, damaged, modes>>

-----------------------------------------------------------------------------
Load ==
  /\ text = None
  /\ mode = "nothing"
  /\ plain' \in Buffered
  /\ data' = plain'
  /\ \E k \in Keys : ctx' = blf_key(k, Len(k))
  /\ iv' \in IVs
  /\ mode' = "plain"
  /\ UNCHANGED texts

EncryptECB ==
  /\ mode = "plain"
  /\ data' = blf_ecb_encrypt(ctx, data)
  /\ mode' = "ecb"
  /\ UNCHANGED <<texts, plain, ctx, iv>>

EncryptCBC ==
  /\ mode = "plain"
  /\ data' = blf_cbc_encrypt(ctx, iv, data)
  /\ mode' = "cbc"
  /\ UNCHANGED <<texts, plain, ctx, iv>>

DecryptECB ==
  /\ mode = "ecb"
  /\ data' = blf_ecb_decrypt(ctx, data)
  /\ mode' = "plain"
  /\ UNCHANGED <<texts, plain, ctx, iv>>

DecryptCBC ==
  /\ mode = "cbc"
  /\ data' = blf_cbc_decrypt(ctx, iv, data)
  /\ mode' = "plain"
  /\ UNCHANGED <<texts, plain, ctx, iv>>

Unload ==
  /\ mode = "plain"
  /\ plain' = None /\ data' = None /\ ctx' = None /\ iv' = None /\ mode' = "nothing"
  /\ UNCHANGED texts

Next ==
  \/ Load \/ EncryptECB \/ EncryptCBC \/ DecryptECB \/ DecryptCBC \/ Unload
  \/ Register \/ Import \/ Damage \/ LogIn \/ Answer

Spec == Init /\ [][Next]_vars

-----------------------------------------------------------------------------
(* Properties. *)

Characters64 == {Base64Code(n) : n \in 0..(Codes - 1)}

\* A text that was made has the length the code resizes to, and behind its
\* header only characters it can be read back from (bcrypt.cpp:338).
TextsAreWhole ==
  (text # None /\ ~damaged) =>
    /\ Len(text) = TextLength
    /\ ~Malformed(text)
    /\ \A i \in 8..TextLength : text[i] \in Characters64

\* What a password stands for: it and the NUL behind it, over and over, for as
\* many bytes as a key has.  Passwords come with their length and may hold a NUL
\* of their own (LoginServer.cpp:65, bcrypt.cpp:337), so "ab" stands for the same
\* as "ab", NUL, "ab"; those that hold none stand for the same only when they
\* agree in their first MaxKey bytes.
KeyStream(password) ==
  LET key == Append(password, NUL)
  IN [i \in 1..MaxKey |-> key[((i - 1) % Len(key)) + 1]]

\* Keys of version 2a are right as long as their length fits in a byte.
Keyed(password) == Minor(text) = MinorB \/ Len(password) + 1 < Base

\* Whoever enters the password a text was made of is let in, whatever salt and
\* cost the text has, and also when the password is longer than a key
\* (bcrypt.cpp:342, LoginUser).
OwnerIsLetIn ==
  (verdict # "none" /\ ~damaged /\ KeyStream(entered) = KeyStream(owner)
     /\ Keyed(entered) /\ Keyed(owner)) => verdict = "valid"

\* Nobody else is: "'ab' should not yield the same as 'abab'"
\* (bcrypt.cpp:181), whatever version, salt and cost the text has.
OthersAreRefused ==
  (verdict = "valid" /\ Keyed(entered) /\ Keyed(owner)) =>
    KeyStream(entered) = KeyStream(owner)

\* A text that is not exactly what was made lets nobody in, not even by what
\* node_bcrypt reads without having written it (bcrypt.cpp:223).
DamagedTextsAreRefused == damaged => verdict # "valid"

\* What is in the salt that node_bcrypt reads, although decode_base64 may have
\* given up on it, never decides who is let in: the salt is written back into
\* the text that is compared (bcrypt.cpp:274).
VerdictIsDefined ==
  verdict = "valid" => \A buffer \in Buffers : validatePassword(entered, text, buffer)

\* Data that is decrypted is what it was before it was encrypted, although the
\* buffer is written over while it is read (blowfish.cpp:596).
DecryptionInverts == mode = "plain" => data = plain
=============================================================================
