-------------------------------- MODULE Sha1 --------------------------------
(***************************************************************************)
(* get_sha1 of a text.  A word is an unsigned long, of 32 or 64 bits: the  *)
(* set of the bits that are set in it.  Words are numbered from 0.         *)
(***************************************************************************)
EXTENDS Integers, Sequences, SequencesExt

CONSTANTS
  Width,      \* widths of an unsigned long: 32, or 64, as on 64-bit Unix
  HashByte,   \* bytes a text may have among its first two, besides letters
  MaxHashed,  \* bound: size of a text
  FullSize    \* bound: sizes of the texts that are hashed, not only prepared

ASSUME Sha1Assumption ==
  Width \subseteq {32, 64} /\ HashByte \subseteq 0 .. 255 /\ MaxHashed \in Nat /\ FullSize \subseteq Nat

\* The number of bits of a text is an int.
ASSUME SizeAssumption == 8 * MaxHashed <= 2147483647

VARIABLES
  width,   \* the width of an unsigned long in the build that runs
  hashed,  \* the text
  begun,   \* blocks begun
  W,       \* the words of a block, as many as are computed
  t,       \* rounds of a block done
  H, G     \* the five words in a block, and after the last

hashVars == <<width, hashed, begun, W, t, H, G>>

-----------------------------------------------------------------------------
(* Words *)

BitNo == 0 .. width - 1

\* The powers of two, from the one of bit 0 to that of bit 30.
Power ==
  << 1, 2, 4, 8, 16, 32, 64, 128, 256, 512, 1024, 2048, 4096, 8192, 16384,
     32768, 65536, 131072, 262144, 524288, 1048576, 2097152, 4194304, 8388608,
     16777216, 33554432, 67108864, 134217728, 268435456, 536870912, 1073741824 >>

Bits(n)      == {i \in 0 .. 30 : (n \div Power[i + 1]) % 2 = 1}
Shl(w, n)    == {i + n : i \in w} \cap BitNo
Shr(w, n)    == {i - n : i \in w} \cap BitNo
Xor(v, w)    == (v \ w) \cup (w \ v)
Word(hi, lo) == {i + 16 : i \in Bits(hi)} \cup Bits(lo)

\* The sum modulo 2^width: bit i gets a carry if a lower bit makes one and every
\* bit between passes it on.
Carries(v, w) ==
  LET either == v \cup w
  IN {i \in BitNo : \E j \in v \cap w : j < i /\ j + 1 .. i - 1 \subseteq either}
Plus(v, w) == Xor(Xor(v, w), Carries(v, w))

Rotate(w, n) == Shl(w, n) \cup Shr(w, 32 - n)

-----------------------------------------------------------------------------
(* The data: blocks of 16 words *)

\* (mutant: rounded up, so a full last block leaves none for the end)
BlocksRoundedUp(n) == (n * 8 + 511) \div 512

Blocks(n) == (n * 8) \div 512 + 1

\* A char above 127 is negative: as an int it has every higher bit set.
Extended(b) == IF b > 127 THEN Bits(b) \cup (8 .. 31) ELSE Bits(b)

\* An int, shifted and made an unsigned long: a negative one has the upper half set.
Shifted(w, n) ==
  LET v == {i + n : i \in w} \cap (0 .. 31)
  IN IF 31 \in v THEN v \cup (BitNo \ (0 .. 31)) ELSE v

\* Byte i of the text or of what follows it, in its place in a word.
Placed(s, i) ==
  Shifted(CASE i < Len(s) -> Extended(s[i + 1]) [] i = Len(s) -> Bits(128) [] i > Len(s) -> {},
          8 * (3 - (i % 4)))

\* The last word is assigned the number of bits.
Data(s) ==
  LET last == 16 * Blocks(Len(s)) - 1
  IN [w \in 0 .. last |->
        IF w = last THEN Bits(8 * Len(s))
        ELSE UNION {Placed(s, i) : i \in 4 * w .. 4 * w + 3}]

-----------------------------------------------------------------------------
(* The rounds *)

K == << Word(\h5A82, \h7999), Word(\h6ED9, \hEBA1), Word(\h8F1B, \hBCDC), Word(\hCA62, \hC1D6) >>

Start == << Word(\h6745, \h2301), Word(\hEFCD, \hAB89), Word(\h98BA, \hDCFE),
            Word(\h1032, \h5476), Word(\hC3D2, \hE1F0) >>

\* The function of the q-th twenty rounds.
Mixed(q) ==
  CASE q = 1        -> (H[2] \cap H[3]) \cup ((BitNo \ H[2]) \cap H[4])
    [] q \in {2, 4} -> Xor(Xor(H[2], H[3]), H[4])
    [] q = 3        -> (H[2] \cap H[3]) \cup (H[3] \cap H[4]) \cup (H[2] \cap H[4])

Letter(i) == 96 + i - 26 * ((i - 1) \div 26)

HashTypeOK ==
  /\ width \in Width
  /\ hashed \in Seq(0 .. 255) /\ Len(hashed) <= MaxHashed
  /\ begun \in 0 .. Blocks(Len(hashed))
  /\ t \in 0 .. 80 /\ Len(W) \in {0} \cup (16 .. 80)
  /\ \A w \in ToSet(W \o H \o G) : w \subseteq BitNo

HashInit ==
  /\ width \in Width
  /\ hashed = <<>> /\ begun = 0
  /\ W = <<>> /\ t = 0
  /\ H = Start /\ G = Start

\* The text: the next letter, or, at first, some other byte.
HashLonger ==
  /\ begun = 0 /\ Len(hashed) < MaxHashed
  /\ \E b \in {Letter(Len(hashed) + 1)} \cup (IF Len(hashed) < 2 THEN HashByte ELSE {}) :
       hashed' = Append(hashed, b)
  /\ UNCHANGED <<width, begun, W, t, H, G>>

BlockBegins ==
  /\ Len(hashed) \in FullSize /\ begun < Blocks(Len(hashed)) /\ W = <<>>
  /\ begun' = begun + 1
  /\ W' = [i \in 1 .. 16 |-> Data(hashed)[16 * begun + i - 1]]
  /\ H' = G /\ t' = 0
  /\ UNCHANGED <<width, hashed, G>>

WordComputed ==
  /\ Len(W) \in 16 .. 79
  /\ LET n == Len(W) + 1
     IN W' = Append(W, Rotate(Xor(Xor(W[n - 3], W[n - 8]), Xor(W[n - 14], W[n - 16])), 1))
  /\ UNCHANGED <<width, hashed, begun, t, H, G>>

RoundDone ==
  /\ Len(W) = 80 /\ t < 80
  /\ LET q   == t \div 20 + 1
         tmp == Plus(Plus(Plus(Plus(Rotate(H[1], 5), Mixed(q)), H[5]), W[t + 1]), K[q])
     IN H' = <<tmp, H[1], Rotate(H[2], 30), H[3], H[4]>>
  /\ t' = t + 1
  /\ UNCHANGED <<width, hashed, begun, W, G>>

BlockEnds ==
  /\ t = 80 /\ W # <<>>
  /\ G' = [i \in 1 .. 5 |-> Plus(G[i], H[i])]
  /\ W' = <<>>
  /\ UNCHANGED <<width, hashed, begun, t, H>>

HashNext == HashLonger \/ BlockBegins \/ WordComputed \/ RoundDone \/ BlockEnds

HashSpec == HashInit /\ [][HashNext]_hashVars

-----------------------------------------------------------------------------
(* Properties *)

\* The data of the standard: the text, 0x80, zeros, and the number of bits in
\* the last two words (the first of them zero at these sizes).
StandardBlocks(n) == (n + 9 + 63) \div 64
StandardByte(s, i) == IF i < Len(s) THEN s[i + 1] ELSE IF i = Len(s) THEN 128 ELSE 0
StandardData(s) ==
  LET last == 16 * StandardBlocks(Len(s)) - 1
  IN [w \in 0 .. last |->
        IF w = last THEN Bits(8 * Len(s))
        ELSE Word(256 * StandardByte(s, 4 * w) + StandardByte(s, 4 * w + 1),
                  256 * StandardByte(s, 4 * w + 2) + StandardByte(s, 4 * w + 3))]

\* A byte above 127 spoils the bytes before it in its word.
Spoils(s, i) == s[i] > 127 /\ \E j \in i - ((i - 1) % 4) .. i - 1 : s[j] # 255

Low(words) == [i \in DOMAIN words |-> words[i] \cap (0 .. 31)]

\* The data (utility.cpp:41-49), taken in 32 bits, is the standard's just if the
\* text leaves nine bytes of its last block free and no byte of it is
\* sign-extended over others.
DataIsStandard ==
  begun = 0 =>
    (Low(Data(hashed)) = StandardData(hashed) <=>
       Len(hashed) % 64 < 56 /\ \A i \in DOMAIN hashed : ~Spoils(hashed, i))

Alphabet(n) == [i \in 1 .. n |-> Letter(i)]
Published(s) ==
  CASE s = Alphabet(0) ->
         << Word(\hDA39, \hA3EE), Word(\h5E6B, \h4B0D), Word(\h3255, \hBFEF),
            Word(\h9560, \h1890), Word(\hAFD8, \h0709) >>
    [] s = Alphabet(3) ->
         << Word(\hA999, \h3E36), Word(\h4706, \h816A), Word(\hBA3E, \h2571),
            Word(\h7850, \hC26C), Word(\h9CD0, \hD89D) >>
    [] s = Alphabet(26) ->
         << Word(\h32D1, \h0C7B), Word(\h8CF9, \h6570), Word(\hCA04, \hCE37),
            Word(\hF2A1, \h9D84), Word(\h240D, \h3A89) >>
    [] s = Alphabet(70) ->
         << Word(\h937A, \h9179), Word(\hBB44, \hBAC0), Word(\h4EEA, \h6AFD),
            Word(\hAE14, \h09D2), Word(\h3D09, \hC2C7) >>

Finished == begun = Blocks(Len(hashed)) /\ W = <<>>

\* The digests of texts of 0, 3, 26 and 70 letters (one block, and two) are the
\* published ones just if an unsigned long has 32 bits: with 64 the rotations
\* and the sums (utility.cpp:50-103) take in bits of the upper half.
KnownDigests ==
  Finished /\ hashed \in {Alphabet(n) : n \in {0, 3, 26, 70}} =>
    (Low(G) = Published(hashed) <=> width = 32)

\* get_sha1 is the standard's sha1 where unsigned long has 32 bits, but for long
\* ends and bytes above 127 (utility.cpp:41-49, 57-103).
Sha1IsStandard == DataIsStandard /\ KnownDigests
-----------------------------------------------------------------------------
(* The rounds of the standard, on words of the width of the build *)

One(i, w) == IF i \in w THEN 1 ELSE 0

\* The sum, column by column from bit 0: two ones in a column make one that is
\* carried into the next; the last column carries nowhere.
CarriedInto(v, w) ==
  LET c[i \in BitNo] == IF i = 0 THEN 0 ELSE (One(i - 1, v) + One(i - 1, w) + c[i - 1]) \div 2
  IN c
Added(v, w) == {i \in BitNo : (One(i, v) + One(i, w) + CarriedInto(v, w)[i]) % 2 = 1}

RotL(w, n)       == {(i + n) % 32 : i \in w}
Choice(x, y, z)   == {i \in BitNo : IF i \in x THEN i \in y ELSE i \in z}
Majority(x, y, z) == {i \in BitNo : One(i, x) + One(i, y) + One(i, z) >= 2}
Parity(words)     == {i \in BitNo : (One(i, words[1]) + One(i, words[2]) + One(i, words[3])
                                       + One(i, words[4])) % 2 = 1}

NextWord ==
  LET n == Len(W) + 1
  IN RotL(Parity(<<W[n - 3], W[n - 8], W[n - 14], W[n - 16]>>), 1)

StandardMix ==
  CASE t \in 0 .. 19                   -> Choice(H[2], H[3], H[4])
    [] t \in (20 .. 39) \cup (60 .. 79) -> Parity(<<H[2], H[3], H[4], {}>>)
    [] t \in 40 .. 59                  -> Majority(H[2], H[3], H[4])

StandardRound ==
  LET sum == Added(Added(Added(Added(RotL(H[1], 5), StandardMix), H[5]), W[t + 1]), K[t \div 20 + 1])
  IN <<sum, H[1], RotL(H[2], 30), H[3], H[4]>>

StandardStep ==
  /\ Len(W') > 16 => W' = W \/ W' = Append(W, NextWord)
  /\ <<t, H>>' # <<t, H>> =>
       \/ t' = 0 /\ H' = G
       \/ t' = t + 1 /\ H' = StandardRound
  /\ G' # G => t = 80 /\ G' = [i \in 1 .. 5 |-> Added(G[i], H[i])]

\* Where an unsigned long has 32 bits every step of a block is the standard's, of
\* any data: the shifts are rotations, the sums modulo 2^32 (utility.cpp:50-103).
StepsAreStandard == [][width = 32 => StandardStep]_hashVars
=============================================================================
