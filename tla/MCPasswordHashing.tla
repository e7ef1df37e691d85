-------------------------- MODULE MCPasswordHashing -------------------------
(***************************************************************************)
(* PasswordHashing with bytes of four bits: exclusive or by a table, and   *)
(* tables of the cipher that look like random numbers.                     *)
(***************************************************************************)
EXTENDS PasswordHashing

Nibbles == [a \in 0..15 |-> [b \in 0..15 |->
  LET bit(n, p) == (n \div p) % 2
      mixed(p) == IF bit(a, p) = bit(b, p) THEN 0 ELSE p
  IN mixed(1) + mixed(2) + mixed(4) + mixed(8)]]
MCXorByte(a, b) == Nibbles[a][b]

Scattered(n) == (n * 40503 + 12345 * ((n * n) % 1009)) % 65536
MCinitstate == [S |-> [i \in 0..63 |-> Scattered(i + 20)], P |-> [i \in 0..17 |-> Scattered(i)]]
MCMagic == <<4, 15, 7, 2, 5, 0, 8, 6>>

\* "ab", "abab", "ab" with a NUL and "ab" behind it, and two that differ behind
\* the end of a key.
Long(last) == [i \in 1..73 |-> IF i = 73 THEN last ELSE 1 + (i % 15)]
MCPasswords == {<<1, 2>>, <<1, 2, 1, 2>>, <<1, 2, 0, 1, 2>>, Long(1), Long(2)}
MCSeeds == {<<9, 0, 15, 3>>}
MCBuffers == {<<9, 0, 15, 3>>, <<9, 0, 15, 4>>}

MCKeys == {<<1, 2>>, <<5>>}
MCIVs == {<<1, 2, 3, 4, 5, 6, 7, 8>>, <<0, 0, 0, 0, 15, 15, 15, 15>>}
Repeated(n, b) == [i \in 1..n |-> (i * b) % 16]
MCBuffered == {Repeated(8, 3), Repeated(16, 8), Repeated(24, 5)}
=============================================================================
