------------------------------- MODULE Encoding -------------------------------
(***************************************************************************)
(* get_base64_encode of a text, byte by byte.                              *)
(***************************************************************************)
EXTENDS Integers, Sequences, FiniteSets

CONSTANTS
  Byte,     \* bytes of the texts to encode, ASCII (any other byte is refused)
  MaxText   \* bound: length of a text to encode

ASSUME EncodingAssumption == Byte \subseteq 0 .. 127

VARIABLE plain   \* the text to encode

Ceil(n, d) == (n + d - 1) \div d

-----------------------------------------------------------------------------
(* get_base64_encode: indices from 0; 64 stands for '='                    *)

Equals == 64

At(s, i) == IF i < Len(s) THEN s[i + 1] ELSE 0

\* The three bytes at i as four indices into enkey; the two last cases of the
\* switch have 0 for the bytes that are not there.
Four(s, i) ==
  <<At(s, i) \div 4,
    (At(s, i) % 4) * 16 + At(s, i + 1) \div 16,
    (At(s, i + 1) % 16) * 4 + At(s, i + 2) \div 64,
    At(s, i + 2) % 64>>

\* (mutant: a text without a rest loses its last three bytes too)
LoopShort(n) == n - 3

Loop(n) == IF n % 3 = 0 THEN n ELSE n - 3

\* Rounds of the loop, which may have none.
Rounds(n) == IF Loop(n) <= 0 THEN 0 ELSE Ceil(Loop(n), 3)

Rest(s) ==
  LET last == Four(s, 3 * Rounds(Len(s)))
  IN CASE Len(s) % 3 = 0 -> <<>>
       [] Len(s) % 3 = 1 -> <<last[1], last[2], Equals, Equals>>
       [] Len(s) % 3 = 2 -> <<last[1], last[2], last[3], Equals>>

Base64(s) ==
  [j \in 1 .. 4 * Rounds(Len(s)) |-> Four(s, 3 * ((j - 1) \div 4))[((j - 1) % 4) + 1]] \o Rest(s)

Buffer(n) == (n * 4) \div 3 + 4

-----------------------------------------------------------------------------
EncodeInit == plain = <<>>

\* The text to encode: one more byte.
Encode == Len(plain) < MaxText /\ \E b \in Byte : plain' = Append(plain, b)

EncodeSpec == EncodeInit /\ [][Encode]_plain

-----------------------------------------------------------------------------
(* Properties *)

\* The weights of a byte's bits, the highest first.
Weight == <<128, 64, 32, 16, 8, 4, 2, 1>>

Bit(s, i) == (At(s, i \div 8) \div Weight[(i % 8) + 1]) % 2

Sextet(s, j) == 32 * Bit(s, 6 * j) + 16 * Bit(s, 6 * j + 1) + 8 * Bit(s, 6 * j + 2)
                  + 4 * Bit(s, 6 * j + 3) + 2 * Bit(s, 6 * j + 4) + Bit(s, 6 * j + 5)

Standard(s) ==
  [j \in 1 .. 4 * Ceil(Len(s), 3) |->
     IF j <= Ceil(8 * Len(s), 6) THEN Sextet(s, j - 1) ELSE Equals]

\* The encoding (utility.cpp:127-155) is the text's bits in groups of six,
\* filled up with '=' to a multiple of four; with the terminating zero it fits
\* into the buffer (124).
Base64Correct ==
  Base64(plain) = Standard(plain) /\ Len(Standard(plain)) + 1 <= Buffer(Len(plain))
=============================================================================
