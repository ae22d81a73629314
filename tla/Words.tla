------------------------------- MODULE Words -------------------------------
(***************************************************************************)
(* Integers of a fixed width as the machine holds them: a word is the      *)
(* sequence of its bytes, the low byte first, negative numbers in two's    *)
(* complement.  A word takes its width with it, so that what a cast cuts   *)
(* off or an addition carries out is gone, as in C, and integers of 64     *)
(* bits stay within what TLC can count.                                    *)
(***************************************************************************)
EXTENDS Integers, Sequences, SequencesExt

Byte == 0 .. 255

\* what one stands for in each of the four low bytes
Weight == <<1, 256, 65536, 16777216>>

\* the integer n, below 2^31 in magnitude, in w bytes
Word(n, w) ==
  [k \in 1 .. w |-> IF k <= 4 THEN (n \div Weight[k]) % 256 ELSE IF n < 0 THEN 255 ELSE 0]

Int64(n) == Word(n, 8)

IsNegative(word) == word[Len(word)] >= 128

\* -word: the negative number of the greatest magnitude is its own negative
Negated(word) ==
  [k \in DOMAIN word |->
     IF \A j \in 1 .. k - 1 : word[j] = 0 THEN (256 - word[k]) % 256 ELSE 255 - word[k]]

BERT_STRIP_SIGN(word) == IF IsNegative(word) THEN Negated(word) ELSE word

\* casts to an unsigned type of n bytes
Narrowed(word, n) == SubSeq(word, 1, n)
Widened(word, n)  == [k \in 1 .. n |-> IF k <= Len(word) THEN word[k] ELSE 0]

\* how many bytes there are up to the highest that is not zero
ByteCount(word) == Max({k \in DOMAIN word : word[k] # 0} \union {0})

(***************************************************************************)
(* The number a word stands for, where that number is below 2^31 in        *)
(* magnitude; unsigned words are read by Counted.                          *)
(***************************************************************************)
FitsInt(word) ==
  \A k \in 5 .. Len(word) : word[k] = (IF word[4] >= 128 THEN 255 ELSE 0)

Counted(word) == FoldRight(LAMBDA byte, n : byte + 256 * n, word, 0)

IntOf(word) == Counted(Narrowed(word, 3)) + 256^3 * (((word[4] + 128) % 256) - 128)

\* bert_write_uint16, bert_write_uint32, and what reads them back
BigEndian(word) == Reverse(word)

-----------------------------------------------------------------------------
(* Arithmetic modulo the width *)

Sum64(a, b) ==
  LET carry[k \in 0 .. Len(a)] == IF k = 0 THEN 0 ELSE (a[k] + b[k] + carry[k - 1]) \div 256
  IN  [k \in DOMAIN a |-> (a[k] + b[k] + carry[k - 1]) % 256]

Times(word, n) ==
  LET carry[k \in 0 .. Len(word)] ==
        IF k = 0 THEN 0 ELSE (word[k] * n + carry[k - 1]) \div 256
  IN  [k \in DOMAIN word |-> (word[k] * n + carry[k - 1]) % 256]

\* word / n and word % n: the quotient is rounded towards zero
Divided(word, n) ==
  LET top == Len(word)
      magnitude == BERT_STRIP_SIGN(word)
      \* left over by the k highest bytes
      rest[k \in 0 .. top] ==
        IF k = 0 THEN 0 ELSE (256 * rest[k - 1] + magnitude[top + 1 - k]) % n
      quotient == [k \in DOMAIN word |-> (256 * rest[top - k] + magnitude[k]) \div n]
      Signed(result) == IF IsNegative(word) THEN Negated(result) ELSE result
  IN  [quotient |-> Signed(quotient), rest |-> Signed(Word(rest[top], top))]
=============================================================================
