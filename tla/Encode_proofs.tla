---------------------------- MODULE Encode_proofs ----------------------------
(***************************************************************************)
(* Encode is type correct, writes the magic byte once, counts what it      *)
(* writes, succeeds only with one complete term, and then with no more     *)
(* bytes than bert_data_sizeof has for it: for any terms, any sinks and    *)
(* any sequence of calls.  Before that, what one push does: the tokens it  *)
(* writes are no magic bytes, its headers announce as many terms as it     *)
(* writes and pushes behind them, and they are as long as they are         *)
(* measured.                                                               *)
(***************************************************************************)
EXTENDS Encode, RecursionLemmas, FiniteSetTheorems

(***************************************************************************)
(* What the operators of Words return, for every word: bytes again, the    *)
(* same width, and for a number below 2^32 the number itself.              *)
(***************************************************************************)

\* words of 64 bits
Octets == [1 .. 8 -> Byte]

\* A digit to the base 256 is a byte, of a negative number too.
LEMMA DigitIsByte ==
  ASSUME NEW n \in Int, NEW m \in {1, 256, 65536, 16777216}
  PROVE  (n \div m) % 256 \in Byte
<1>1. CASE m = 1
  BY <1>1 DEF Byte
<1>2. CASE m = 256
  BY <1>2 DEF Byte
<1>3. CASE m = 65536
  BY <1>3 DEF Byte
<1>4. CASE m = 16777216
  BY <1>4 DEF Byte
<1> QED
  BY <1>1, <1>2, <1>3, <1>4

\* The cast of any number to a word of w bytes.
LEMMA WordIsBytes ==
  ASSUME NEW n \in Int, NEW w \in Nat
  PROVE  Word(n, w) \in [1 .. w -> Byte]
<1> SUFFICES ASSUME NEW k \in 1 .. w
             PROVE  (IF k <= 4 THEN (n \div Weight[k]) % 256
                               ELSE IF n < 0 THEN 255 ELSE 0) \in Byte
  BY DEF Word
<1>1. CASE k <= 4
  <2>1. k \in 1 .. 4
    BY <1>1
  <2>2. Weight[k] \in {1, 256, 65536, 16777216}
    BY <2>1 DEF Weight
  <2> QED
    BY <1>1, <2>2, DigitIsByte
<1>2. CASE ~(k <= 4)
  BY <1>2 DEF Byte
<1> QED
  BY <1>1, <1>2

\* bert_write_* and bert_read_* keep every byte.
LEMMA ReverseIsBytes ==
  ASSUME NEW n \in Nat, NEW word \in [1 .. n -> Byte]
  PROVE  BigEndian(word) \in [1 .. n -> Byte]
<1>1. Len(word) = n
  OBVIOUS
<1>2. \A i \in 1 .. n : (n - i) + 1 \in 1 .. n
  OBVIOUS
<1> QED
  BY <1>1, <1>2 DEF BigEndian, Reverse

\* BERT_STRIP_SIGN stays in its width, for the least number as well.
LEMMA MagnitudeIsBytes ==
  ASSUME NEW n \in Nat, NEW word \in [1 .. n -> Byte]
  PROVE  Negated(word) \in [1 .. n -> Byte] /\ BERT_STRIP_SIGN(word) \in [1 .. n -> Byte]
<1>1. ASSUME NEW k \in 1 .. n
      PROVE  (IF \A j \in 1 .. k - 1 : word[j] = 0 THEN (256 - word[k]) % 256
                                                   ELSE 255 - word[k]) \in Byte
  <2>1. \A b \in Byte : (256 - b) % 256 \in Byte /\ 255 - b \in Byte
    BY DEF Byte
  <2>2. word[k] \in Byte
    OBVIOUS
  <2> QED
    BY <2>1, <2>2
<1>2. DOMAIN word = 1 .. n
  OBVIOUS
<1> QED
  BY <1>1, <1>2 DEF Negated, BERT_STRIP_SIGN

\* The loop over the bytes of a bignum counts at most all of them, up to the highest that is not 0.
LEMMA ByteCountInside ==
  ASSUME NEW n \in Nat, NEW word \in [1 .. n -> Byte]
  PROVE  /\ ByteCount(word) \in 0 .. n
         /\ ByteCount(word) > 0 => word[ByteCount(word)] # 0
         /\ \A k \in 1 .. n : word[k] # 0 => ByteCount(word) >= k
<1> DEFINE s == {k \in DOMAIN word : word[k] # 0} \union {0}
           t == {k + 1 : k \in s}
<1>1. t \in SUBSET (1 .. n + 1) /\ t # {}
  OBVIOUS
<1>2. PICK m \in t : \A k \in t : m >= k
  <2>1. n + 1 \in Nat
    OBVIOUS
  <2> HIDE DEF t
  <2> QED
    BY <1>1, <2>1, MaxOfPositions
<1>3. PICK i \in s : m = i + 1
  OBVIOUS
<1>4. ASSUME NEW k \in s PROVE i >= k
  <2>1. k + 1 \in t /\ k \in Int /\ i \in Int
    OBVIOUS
  <2> HIDE DEF t, s
  <2>2. i + 1 >= k + 1
    BY <1>2, <1>3, <2>1
  <2> QED
    BY <2>1, <2>2
<1>5. Max(s) \in s /\ \A k \in s : Max(s) >= k
  BY <1>4 DEF Max
<1>6. /\ s \subseteq 0 .. n /\ \A k \in s : k > 0 => word[k] # 0
      /\ \A k \in 1 .. n : word[k] # 0 => k \in s
  OBVIOUS
<1> QED
  BY <1>5, <1>6 DEF ByteCount

\* A cast to fewer bytes.
LEMMA PartIsBytes ==
  ASSUME NEW n \in Nat, NEW word \in [1 .. n -> Byte], NEW m \in 0 .. n
  PROVE  Narrowed(word, m) \in [1 .. m -> Byte]
<1>1. Narrowed(word, m) = [i \in 1 .. m |-> word[i]]
  BY DEF Narrowed
<1> QED
  BY <1>1

\* A word is a sequence of its width.
LEMMA BytesAreSeq ==
  ASSUME NEW n \in Nat, NEW word \in [1 .. n -> Byte]
  PROVE  word \in Seq(Byte) /\ Len(word) = n
OBVIOUS

\* What holds of every int64_t.
LEMMA OctetFacts ==
  ASSUME NEW word \in Octets
  PROVE  /\ Len(word) = 8 /\ DOMAIN word = 1 .. 8 /\ word \in Seq(Byte)
         /\ BERT_STRIP_SIGN(word) \in Octets /\ Negated(word) \in Octets
<1>1. word \in [1 .. 8 -> Byte] /\ 8 \in Nat
  BY DEF Octets
<1>2. BERT_STRIP_SIGN(word) \in Octets /\ Negated(word) \in Octets
  BY <1>1, MagnitudeIsBytes DEF Octets
<1>3. word \in Seq(Byte) /\ Len(word) = 8
  BY <1>1, BytesAreSeq
<1>4. DOMAIN word = 1 .. 8
  BY <1>1
<1> QED
  BY <1>2, <1>3, <1>4

\* A quotient and a rest are numbers, the rest less than the divisor.
LEMMA DivTimes ==
  ASSUME NEW n \in Nat \ {0}, NEW x \in Nat
  PROVE  (x \div n) \in Nat /\ n * (x \div n) <= x /\ x % n \in 0 .. n - 1
OBVIOUS

\* A digit of a long division: with a rest v carried from the digits above, the quotient of the
\* next byte is a byte again and the new rest is smaller than the divisor.
LEMMA DigitOfQuotient ==
  ASSUME NEW n \in Nat \ {0}, NEW v \in 0 .. n - 1, NEW b \in Byte
  PROVE  /\ (256 * v + b) % n \in 0 .. n - 1
         /\ (256 * v + b) \div n \in Byte
<1>1. PICK x \in Nat : x = 256 * v + b /\ x < 256 * n
  BY DEF Byte
<1>2. (x \div n) \in Nat /\ n * (x \div n) <= x /\ x % n \in 0 .. n - 1
  BY DivTimes
<1>3. PICK q \in Nat : q = x \div n
  BY <1>2
<1>4. n * q < 256 * n
  BY <1>1, <1>2, <1>3
<1>5. q < 256
  <2>1. ASSUME q >= 256 PROVE FALSE
    <3>1. PICK r \in Nat : q = 256 + r
      BY <2>1
    <3>2. n * q = n * 256 + n * r /\ n * r \in Nat
      BY <3>1
    <3> QED
      BY <1>4, <3>2
  <2> QED
    BY <2>1
<1> QED
  BY <1>1, <1>2, <1>3, <1>5 DEF Byte

\* Long division stays within the digits, and its rest below the divisor.
LEMMA DividedIsBytes ==
  ASSUME NEW n \in Nat \ {0}, NEW word \in Octets
  PROVE  /\ Divided(word, n).quotient \in Octets /\ Divided(word, n).rest \in Octets
         /\ \E r \in 0 .. n - 1 : Divided(word, n).rest \in {Word(r, 8), Negated(Word(r, 8))}
<1> DEFINE magnitude == BERT_STRIP_SIGN(word)
           rest == CHOOSE rest : rest =
                     [k \in 0 .. 8 |-> IF k = 0 THEN 0
                                       ELSE (256 * rest[k - 1] + magnitude[8 + 1 - k]) % n]
           V == 0 .. n - 1
           step == [k \in 1 .. 8 |-> [v \in V |-> (256 * v + magnitude[8 + 1 - k]) % n]]
<1>1. magnitude \in Octets /\ Len(word) = 8 /\ DOMAIN word = 1 .. 8
  BY OctetFacts
<1> HIDE DEF magnitude
<1>0. \A v \in V, b \in Byte : (256 * v + b) % n \in V /\ (256 * v + b) \div n \in Byte
  BY DigitOfQuotient
<1>2. \A k \in 1 .. 8 : magnitude[8 + 1 - k] \in Byte
  BY <1>1 DEF Octets
<1>3. rest = [k \in 0 .. 8 |-> IF k = 0 THEN 0
                               ELSE (256 * rest[k - 1] + magnitude[8 + 1 - k]) % n]
  <2>1. step \in [1 .. 8 -> [V -> V]]
    BY <1>0, <1>2
  <2>2. 0 \in V
    BY SMT
  <2> HIDE DEF V, step
  <2>3. PICK f \in [0 .. 8 -> V] : Follows(f, 8, 0, step)
    BY <2>1, <2>2, RecursionExists
  <2>4. f = [k \in 0 .. 8 |-> IF k = 0 THEN 0
                               ELSE (256 * f[k - 1] + magnitude[8 + 1 - k]) % n]
    <3>1. ASSUME NEW k \in 1 .. 8
          PROVE  f[k] = (256 * f[k - 1] + magnitude[8 + 1 - k]) % n
      <4>1. f[k - 1] \in V
        OBVIOUS
      <4> QED
        BY <2>3, <4>1 DEF Follows, step
    <3> QED
      BY <2>3, <3>1 DEF Follows
  <2> QED
    BY <2>4, ZenonT(30)
<1> HIDE DEF rest
<1>4. \A k \in 0 .. 8 : rest[k] \in V
  <2>1. rest[0] \in V
    BY <1>3
  <2>2. ASSUME NEW k \in 1 .. 8, rest[k - 1] \in V PROVE rest[k] \in V
    BY <1>0, <1>2, <1>3, <2>2
  <2> HIDE DEF V
  <2>3. rest[1] \in V /\ rest[2] \in V /\ rest[3] \in V /\ rest[4] \in V
    BY <2>1, <2>2
  <2>4. rest[5] \in V /\ rest[6] \in V /\ rest[7] \in V /\ rest[8] \in V
    BY <2>2, <2>3
  <2> QED
    BY <2>1, <2>3, <2>4
<1> DEFINE quotient == [k \in 1 .. 8 |-> (256 * rest[8 - k] + magnitude[k]) \div n]
<1>5. quotient \in Octets
  BY <1>0, <1>1, <1>4 DEF Octets
<1>6. Word(rest[8], 8) \in Octets
  <2>1. rest[8] \in Int
    BY <1>4
  <2> HIDE DEF V
  <2> QED
    BY <2>1, WordIsBytes DEF Octets
<1>7. \A octets \in Octets :
        (IF IsNegative(word) THEN Negated(octets) ELSE octets) \in Octets
  BY MagnitudeIsBytes DEF Octets
<1>8. /\ Divided(word, n).quotient =
           IF IsNegative(word) THEN Negated(quotient) ELSE quotient
      /\ Divided(word, n).rest =
           IF IsNegative(word) THEN Negated(Word(rest[8], 8)) ELSE Word(rest[8], 8)
  BY <1>1 DEF Divided, rest, magnitude
<1>9. Divided(word, n).rest \in {Word(rest[8], 8), Negated(Word(rest[8], 8))} /\ rest[8] \in V
  BY <1>4, <1>8
<1> QED
  BY <1>5, <1>6, <1>7, <1>8, <1>9

\* Counted takes the bytes of a word from the right, ...
LEMMA CountedSteps ==
  ASSUME NEW n \in Nat, NEW word \in [1 .. n -> Byte]
  PROVE  \E it : /\ Counted(word) = it[1 .. n] /\ it[{}] = 0
                 /\ \A i \in 1 .. n : it[i .. n] = word[i] + 256 * it[(i + 1) .. n]
<1>1. DOMAIN word = 1 .. n /\ \A k \in 1 .. n : word[k] \in Nat
  <2>1. Byte \in SUBSET Nat
    BY DEF Byte
  <2> QED
    BY <2>1
<1> DEFINE iter == CHOOSE it : it = [s \in SUBSET (1 .. n) |->
                                       IF s = {} THEN 0 ELSE word[Min(s)] + 256 * it[s \ {Min(s)}]]
           step == [k \in 1 .. n |-> [v \in Nat |-> word[k] + 256 * v]]
<1>2. Counted(word) = iter[1 .. n]
  BY <1>1 DEF Counted, FoldRight, MapThenFoldSet
<1>3. step \in [1 .. n -> [Nat -> Nat]]
  BY <1>1
<1> HIDE DEF step
<1>4. PICK it \in [SUBSET (1 .. n) -> Nat] : FoldsRight(it, 1, n, 0, step)
  <2>1. 0 \in Nat
    OBVIOUS
  <2> QED
    BY <1>3, <2>1, FoldRightExists DEF HasFoldRight
<1>5. it = [s \in SUBSET (1 .. n) |->
              IF s = {} THEN 0 ELSE word[Min(s)] + 256 * it[s \ {Min(s)}]]
  <2>1. ASSUME NEW s \in SUBSET (1 .. n), s # {}
        PROVE  it[s] = word[Min(s)] + 256 * it[s \ {Min(s)}]
    <3>1. Min(s) \in 1 .. n /\ s \ {Min(s)} \in SUBSET (1 .. n)
      BY <2>1, MinOfPositions
    <3>2. it[s \ {Min(s)}] \in Nat
      BY <3>1
    <3>3. it[s] = step[Min(s)][it[s \ {Min(s)}]]
      BY <1>4, <2>1 DEF FoldsRight
    <3> QED
      BY <3>1, <3>2, <3>3 DEF step
  <2>2. it[{}] = 0
    BY <1>4 DEF FoldsRight
  <2> QED
    BY <2>1, <2>2, ZenonT(30)
<1>6. iter = [s \in SUBSET (1 .. n) |->
                IF s = {} THEN 0 ELSE word[Min(s)] + 256 * iter[s \ {Min(s)}]]
  BY <1>5, ZenonT(30)
<1> HIDE DEF iter
<1>7. ASSUME NEW i \in 1 .. n PROVE iter[i .. n] = word[i] + 256 * iter[(i + 1) .. n]
  <2>1. /\ i .. n \in SUBSET (1 .. n) /\ i .. n # {}
        /\ Min(i .. n) = i /\ (i .. n) \ {i} = (i + 1) .. n
    BY MinOfInterval
  <2>2. iter[i .. n] = IF i .. n = {} THEN 0
                       ELSE word[Min(i .. n)] + 256 * iter[(i .. n) \ {Min(i .. n)}]
    BY <1>6, <2>1, Zenon
  <2> QED
    BY <2>1, <2>2, Zenon
<1>8. iter[{}] = 0
  BY <1>6
<1> QED
  BY <1>2, <1>7, <1>8

\* ... so that one of four bytes stands for a number below 2^32, ...
LEMMA CountedOf ==
  ASSUME NEW word \in [1 .. 4 -> Byte]
  PROVE  Counted(word) = word[1] + 256 * (word[2] + 256 * (word[3] + 256 * word[4]))
<1>1. 4 \in Nat /\ \A k \in 1 .. 4 : word[k] \in Nat
  BY DEF Byte
<1>2. PICK it : /\ Counted(word) = it[1 .. 4] /\ it[{}] = 0
                /\ \A i \in 1 .. 4 : it[i .. 4] = word[i] + 256 * it[(i + 1) .. 4]
  BY <1>1, CountedSteps
<1>3. 5 .. 4 = {}
  OBVIOUS
<1>4. /\ it[4 .. 4] = word[4] + 256 * it[5 .. 4]
      /\ it[3 .. 4] = word[3] + 256 * it[4 .. 4]
      /\ it[2 .. 4] = word[2] + 256 * it[3 .. 4]
      /\ it[1 .. 4] = word[1] + 256 * it[2 .. 4]
  BY <1>2
<1> QED
  BY <1>1, <1>2, <1>3, <1>4

\* ... and the word of such a number stands for it.
LEMMA CountedWord ==
  ASSUME NEW n \in Nat, n < 2^32
  PROVE  Counted(Word(n, 4)) = n
<1>1. Word(n, 4) \in [1 .. 4 -> Byte]
  <2>1. n \in Int /\ 4 \in Nat
    OBVIOUS
  <2> QED
    BY <2>1, WordIsBytes, Zenon
<1>2. /\ Word(n, 4)[1] = n % 256
      /\ Word(n, 4)[2] = (n \div 256) % 256
      /\ Word(n, 4)[3] = (n \div 65536) % 256
      /\ Word(n, 4)[4] = (n \div 16777216) % 256
  BY SMT DEF Word, Weight
<1>3. n < 4294967296
  BY SMT
<1>4. n = (n % 256) + 256 * (((n \div 256) % 256) +
            256 * (((n \div 65536) % 256) + 256 * ((n \div 16777216) % 256)))
  BY <1>3, SMT
<1> QED
  BY <1>1, <1>2, <1>4, CountedOf

\* What is written most significant byte first is read back.
LEMMA TwiceReversed ==
  ASSUME NEW w \in Nat, NEW word \in [1 .. w -> Byte]
  PROVE  BigEndian(BigEndian(word)) = word
<1>1. /\ BigEndian(word) \in [1 .. w -> Byte]
      /\ BigEndian(BigEndian(word)) \in [1 .. w -> Byte]
  BY ReverseIsBytes
<1>2. ASSUME NEW i \in 1 .. w PROVE BigEndian(BigEndian(word))[i] = word[i]
  <2>1. BigEndian(BigEndian(word))[i] = BigEndian(word)[(w - i) + 1]
    BY <1>1 DEF BigEndian, Reverse
  <2>2. (w - i) + 1 \in 1 .. w /\ (w - ((w - i) + 1)) + 1 = i
    OBVIOUS
  <2>3. BigEndian(word)[(w - i) + 1] = word[i]
    BY <2>2 DEF BigEndian, Reverse
  <2> QED
    BY <2>1, <2>3
<1> QED
  BY <1>1, <1>2

(***************************************************************************)
(* Tokens and how many terms each announces                                *)
(***************************************************************************)

\* what bert_encoder_write is given, the magic byte apart
Tokens == {t \in Seq(Byte) : Len(t) > 0 /\ t[1] # BERT_MAGIC}

Announces(t, n) == t \in Tokens /\ Arity(t) = n

\* A token is a first byte and the bytes of its fields.
LEMMA TokenOf ==
  ASSUME NEW first \in Byte \ {BERT_MAGIC}, NEW rest \in Seq(Byte)
  PROVE  /\ <<first>> \o rest \in Tokens
         /\ (<<first>> \o rest)[1] = first
         /\ \A i \in 1 .. Len(rest) : (<<first>> \o rest)[i + 1] = rest[i]
<1>1. <<first>> \in Seq(Byte) /\ Len(<<first>>) = 1 /\ <<first>>[1] = first
  OBVIOUS
<1>2. Len(rest) \in Nat
  BY LenProperties
<1> DEFINE t == <<first>> \o rest
<1>3. /\ t \in Seq(Byte) /\ Len(t) = 1 + Len(rest) /\ t[1] = first
      /\ \A i \in 1 .. Len(rest) : t[i + 1] = rest[i]
  BY <1>1, <1>2
<1> HIDE DEF t
<1>4. t \in Tokens
  BY <1>2, <1>3 DEF Tokens
<1> QED
  BY <1>3, <1>4 DEF t

Scalars == {BERT_SMALL_INT, BERT_INT, BERT_FLOAT, BERT_ATOM, BERT_STRING, BERT_BIN,
            BERT_SMALL_BIGNUM}

\* Only tuples and lists announce terms.
LEMMA ScalarAnnouncesNothing ==
  ASSUME NEW first \in Scalars, NEW t \in Tokens, t[1] = first
  PROVE  Announces(t, 0)
BY DEF Scalars, Announces, Arity, BERT_SMALL_INT, BERT_INT, BERT_FLOAT, BERT_ATOM,
       BERT_STRING, BERT_BIN, BERT_SMALL_BIGNUM, BERT_SMALL_TUPLE, BERT_LARGE_TUPLE, BERT_LIST

\* A token is a magic byte of a scalar with any bytes behind it.
LEMMA ScalarToken ==
  ASSUME NEW first \in Scalars, NEW rest \in Seq(Byte)
  PROVE  Announces(<<first>> \o rest, 0)
<1>1. first \in Byte \ {BERT_MAGIC}
  BY DEF Scalars, Byte, BERT_SMALL_INT, BERT_INT, BERT_FLOAT, BERT_ATOM, BERT_STRING,
         BERT_BIN, BERT_SMALL_BIGNUM, BERT_MAGIC
<1> QED
  BY <1>1, TokenOf, ScalarAnnouncesNothing

\* bert_encode_small_int and bert_encode_big_int write a token of a scalar.
LEMMA IntToken ==
  ASSUME NEW i \in [1 .. 4 -> Byte]
  PROVE  Announces(bert_encode_int(i), 0)
<1>1. CASE ByteCount(i) <= 1
  <2>1. <<i[1]>> \in Seq(Byte)
    OBVIOUS
  <2>2. <<BERT_SMALL_INT, i[1]>> = <<BERT_SMALL_INT>> \o <<i[1]>>
    OBVIOUS
  <2> QED
    BY <1>1, <2>1, <2>2, ScalarToken DEF bert_encode_int, Scalars
<1>2. CASE ~(ByteCount(i) <= 1)
  <2>1. BigEndian(i) \in Seq(Byte)
    BY ReverseIsBytes, BytesAreSeq
  <2> QED
    BY <1>2, <2>1, ScalarToken DEF bert_encode_int, Scalars
<1> QED
  BY <1>1, <1>2

\* bert_encode_bignum writes a token of a scalar, also for the least int64_t.
LEMMA BignumToken ==
  ASSUME NEW i \in Octets
  PROVE  Announces(bert_encode_bignum(i), 0)
<1> DEFINE magnitude == BERT_STRIP_SIGN(i)
           bytes == ByteCount(magnitude)
           sign == IF IsNegative(i) THEN 1 ELSE 0
<1>1. magnitude \in Octets
  BY OctetFacts
<1> HIDE DEF magnitude
<1>2. bytes \in 0 .. 8
  BY <1>1, ByteCountInside DEF Octets
<1>3. Narrowed(magnitude, bytes) \in Seq(Byte)
  <2> HIDE DEF bytes
  <2>1. 8 \in Nat /\ bytes \in Nat
    BY <1>2
  <2>2. Narrowed(magnitude, bytes) \in [1 .. bytes -> Byte]
    BY <1>1, <1>2, <2>1, PartIsBytes DEF Octets
  <2> QED
    BY <2>1, <2>2, BytesAreSeq
<1>4. <<bytes, sign>> \in Seq(Byte)
  <2>1. bytes \in Byte /\ sign \in Byte
    BY <1>2 DEF Byte
  <2> HIDE DEF bytes, sign
  <2> QED
    BY <2>1
<1> HIDE DEF bytes, sign
<1>5. <<bytes, sign>> \o Narrowed(magnitude, bytes) \in Seq(Byte)
  BY <1>3, <1>4, ConcatProperties
<1>6. <<BERT_SMALL_BIGNUM, bytes, sign>> \o Narrowed(magnitude, bytes)
        = <<BERT_SMALL_BIGNUM>> \o (<<bytes, sign>> \o Narrowed(magnitude, bytes))
  BY <1>3, <1>4
<1>7. bert_encode_bignum(i) = <<BERT_SMALL_BIGNUM, bytes, sign>> \o Narrowed(magnitude, bytes)
  BY DEF bert_encode_bignum, magnitude, bytes, sign
<1> QED
  BY <1>5, <1>6, <1>7, ScalarToken DEF Scalars

\* bert_encode_int writes a token of a scalar, whatever the integer.
LEMMA IntegerToken ==
  ASSUME NEW i \in Octets
  PROVE  Announces(Integer(i), 0)
<1>1. Narrowed(i, 4) \in [1 .. 4 -> Byte]
  <2>1. 8 \in Nat /\ 4 \in 0 .. 8
    OBVIOUS
  <2> QED
    BY <2>1, PartIsBytes DEF Octets
<1> QED
  BY <1>1, IntToken, BignumToken DEF Integer

\* the length of a text, in as many bytes as its token has for it
LEMMA SizedToken ==
  ASSUME NEW first \in Scalars, NEW text \in Seq(Byte), NEW w \in Nat
  PROVE  Announces(<<first>> \o BigEndian(Word(Len(text), w)) \o text, 0)
<1>1. BigEndian(Word(Len(text), w)) \in Seq(Byte)
  <2>1. Len(text) \in Int
    BY LenProperties
  <2>2. Word(Len(text), w) \in [1 .. w -> Byte]
    BY <2>1, WordIsBytes
  <2>3. BigEndian(Word(Len(text), w)) \in [1 .. w -> Byte]
    BY <2>2, ReverseIsBytes
  <2> QED
    BY <2>3, BytesAreSeq
<1> DEFINE size == BigEndian(Word(Len(text), w))
<1> HIDE DEF size
<1>2. size \o text \in Seq(Byte)
  BY <1>1, ConcatProperties DEF size
<1>3. <<first>> \in Seq(Byte \union {first}) /\ size \in Seq(Byte \union {first})
      /\ text \in Seq(Byte \union {first})
  BY <1>1, SeqMonotonic DEF size
<1>4. <<first>> \o size \o text = <<first>> \o (size \o text)
  BY <1>3, ConcatAssociative
<1> QED
  BY <1>2, <1>4, ScalarToken DEF size

\* bert_encode_atom, _string and _bin write a token of a scalar, however long the text is.
LEMMA TextTokens ==
  ASSUME NEW text \in Seq(Byte)
  PROVE  /\ Announces(Atom(text), 0)
         /\ Announces(bert_encode_string(text), 0)
         /\ Announces(bert_encode_bin(text), 0)
BY SizedToken DEF Atom, bert_encode_string, bert_encode_bin, Scalars

\* bert_encode_float writes a token of a scalar.
LEMMA FloatToken ==
  ASSUME NEW bytes \in Seq(Byte), Len(bytes) = 1
  PROVE  Announces(bert_encode_float(bytes), 0)
<1>1. bytes[1] \in Byte
  BY ElementOfSeq
<1> DEFINE first == IF bytes[1] > 69 THEN 69 ELSE IF bytes[1] < 25 THEN 1 ELSE bytes[1]
<1>2. first \in Byte
  BY <1>1 DEF Byte
<1> HIDE DEF first
<1>3. <<first>> \in Seq(Byte) /\ [k \in 1 .. 30 |-> 0] \in Seq(Byte)
  BY <1>2 DEF Byte
<1>4. FloatText(bytes) \in Seq(Byte)
  BY <1>3, ConcatProperties DEF FloatText, first
<1> QED
  BY <1>4, ScalarToken DEF bert_encode_float, Scalars

\* The header of a list or of a large tuple announces the number in its word, ...
LEMMA LongHeaderCounts ==
  ASSUME NEW n \in Nat, NEW first \in {BERT_LIST, BERT_LARGE_TUPLE}
  PROVE  Announces(<<first>> \o BigEndian(Word(n, 4)), Counted(Word(n, 4)))
<1> DEFINE size == BigEndian(Word(n, 4))
           t == <<first>> \o size
<1>1. size \in [1 .. 4 -> Byte] /\ size \in Seq(Byte) /\ Len(size) = 4
  <2>1. n \in Int /\ 4 \in Nat
    OBVIOUS
  <2>2. Word(n, 4) \in [1 .. 4 -> Byte]
    BY <2>1, WordIsBytes, Zenon
  <2>3. size \in [1 .. 4 -> Byte]
    BY <2>1, <2>2, ReverseIsBytes, Zenon
  <2> HIDE DEF size
  <2> QED
    BY <2>1, <2>3, BytesAreSeq
<1> HIDE DEF size
<1>2. first \in Byte \ {BERT_MAGIC}
  BY DEF Byte, BERT_LIST, BERT_LARGE_TUPLE, BERT_MAGIC
<1>3. t \in Tokens /\ t[1] = first /\ \A i \in 1 .. 4 : t[i + 1] = size[i]
  <2>1. /\ t \in Tokens /\ t[1] = first
        /\ \A i \in 1 .. Len(size) : t[i + 1] = size[i]
    BY <1>1, <1>2, TokenOf, Zenon
  <2> QED
    BY <1>1, <2>1
<1> HIDE DEF t
<1>4. SubSeq(t, 2, 5) = size
  <2>1. SubSeq(t, 2, 5) = [i \in 1 .. 4 |-> t[2 + i - 1]]
    OBVIOUS
  <2>2. \A i \in 1 .. 4 : 2 + i - 1 = i + 1
    OBVIOUS
  <2> QED
    BY <1>1, <1>3, <2>1, <2>2
<1>5. BigEndian(size) = Word(n, 4)
  <2>1. n \in Int /\ 4 \in Nat
    OBVIOUS
  <2> QED
    BY <2>1, WordIsBytes, TwiceReversed DEF size
<1>6. Arity(t) = Counted(BigEndian(SubSeq(t, 2, 5)))
  BY <1>3 DEF Arity, BERT_LIST, BERT_LARGE_TUPLE, BERT_SMALL_TUPLE
<1> QED
  BY <1>3, <1>4, <1>5, <1>6 DEF Announces, t, size

\* ... which is what it was made for, below 2^32.
LEMMA LongHeader ==
  ASSUME NEW n \in Nat, n < 2^32, NEW first \in {BERT_LIST, BERT_LARGE_TUPLE}
  PROVE  Announces(<<first>> \o BigEndian(Word(n, 4)), n)
BY LongHeaderCounts, CountedWord

\* A header announces as many elements as its field can count: less than 2^32.
LEMMA HeaderTokens ==
  ASSUME NEW n \in Nat, n < 2^32
  PROVE  Announces(TupleHeader(n), n) /\ Announces(ListHeader(n), n)
<1>1. Announces(ListHeader(n), n)
  BY LongHeader DEF ListHeader
<1>2. CASE n <= 255
  <2>1. n \in Byte /\ BERT_SMALL_TUPLE \in Byte \ {BERT_MAGIC}
    BY <1>2 DEF Byte, BERT_SMALL_TUPLE, BERT_MAGIC
  <2>2. <<BERT_SMALL_TUPLE, n>> = <<BERT_SMALL_TUPLE>> \o <<n>> /\ <<n>> \in Seq(Byte)
    BY <2>1
  <2>3. <<BERT_SMALL_TUPLE, n>> \in Tokens
    BY <2>1, <2>2, TokenOf
  <2>4. Arity(<<BERT_SMALL_TUPLE, n>>) = n
    <3> DEFINE t == <<BERT_SMALL_TUPLE, n>>
    <3>1. t[1] = BERT_SMALL_TUPLE /\ t[2] = n
      OBVIOUS
    <3> HIDE DEF t
    <3>2. Arity(t) = n
      BY <3>1 DEF Arity, BERT_SMALL_TUPLE, BERT_LARGE_TUPLE, BERT_LIST
    <3> QED
      BY <3>2 DEF t
  <2> QED
    BY <1>1, <1>2, <2>3, <2>4 DEF Announces, TupleHeader
<1>3. CASE ~(n <= 255)
  BY <1>1, <1>3, LongHeader DEF TupleHeader
<1> QED
  BY <1>2, <1>3

(***************************************************************************)
(* The texts that go with a term: names of complex terms and of options    *)
(***************************************************************************)

InARow(s, t, n) ==
  /\ DOMAIN (s \o t) = 1 .. n + n
  /\ \A j \in 1 .. n : (s \o t)[j] = s[j]
  /\ \A j \in 1 .. n : (s \o t)[n + j] = t[j]

\* The elements of two sequences of the same length in a row.
LEMMA Concatenated ==
  ASSUME NEW S, NEW s \in Seq(S), NEW t \in Seq(S), NEW n \in Nat, Len(s) = n, Len(t) = n
  PROVE  InARow(s, t, n)
<1>1. DOMAIN (s \o t) = 1 .. n + n
  <2>1. s \o t \in Seq(S) /\ Len(s \o t) = n + n
    BY ConcatProperties
  <2> QED
    BY <2>1, LenProperties
<1>2. \A j \in 1 .. n : (s \o t)[j] = s[j]
  OBVIOUS
<1>3. \A j \in 1 .. n : (s \o t)[n + j] = t[j]
  OBVIOUS
<1> QED
  BY <1>1, <1>2, <1>3 DEF InARow

OptionTexts ==
  {"unicode", "anchored", "caseless", "dollar_endonly", "dotall", "extended", "firstline",
   "multiline", "no_auto_capture", "dupnames", "ungreedy", "bsr_any_crlf", "bsr_unicode"}

\* bert_regex_options: every entry has a name, and the masks of the four lowest bits are there.
LEMMA OptionTable ==
  /\ DOMAIN bert_regex_options = 1 .. 13
  /\ \A j \in 1 .. 13 : bert_regex_options[j][1] \in OptionTexts \ {""}
  /\ \A j \in 1 .. 13 : bert_regex_options[j][2] # {}
  /\ bert_regex_options[3][2] = {0} /\ bert_regex_options[8][2] = {1}
  /\ bert_regex_options[5][2] = {2} /\ bert_regex_options[6][2] = {3}
<1>1. DOMAIN bert_regex_options = 1 .. 13
  BY DEF bert_regex_options
<1>2. \A j \in 1 .. 13 : bert_regex_options[j][1] \in OptionTexts
  BY DEF bert_regex_options, OptionTexts
<1>3. "" \notin OptionTexts
  BY DEF OptionTexts
<1>4. \A j \in 1 .. 13 : bert_regex_options[j][2] # {}
  BY DEF bert_regex_options
<1>5. /\ bert_regex_options[3][2] = {0} /\ bert_regex_options[8][2] = {1}
      /\ bert_regex_options[5][2] = {2} /\ bert_regex_options[6][2] = {3}
  BY DEF bert_regex_options
<1> QED
  BY <1>1, <1>2, <1>3, <1>4, <1>5

\* the names the encoder writes
OtherTexts == {"bert", "nil", "true", "false", "time", "dict", "regex"}

WrittenTexts == OtherTexts \union OptionTexts

\* Every text the encoder writes is in the table.
LEMMA TableOfNames ==
  /\ DOMAIN Names = 1 .. 26
  /\ \A name \in WrittenTexts : \E i \in 1 .. 26 : Names[i] = name
<1> DEFINE V == {"bert", "nil", "true", "false", "time", "dict", "regex", "newline", "cr", "crlf",
                 "anycrlf", "any", "ok"}
           s == <<"bert", "nil", "true", "false", "time", "dict", "regex", "newline", "cr", "crlf",
                  "anycrlf", "any", "ok">>
           t == [i \in DOMAIN bert_regex_options |-> bert_regex_options[i][1]]
           S == V \union OptionTexts
<1>1. PICK n \in Nat : n = 13
  OBVIOUS
<1>2. s \in Seq(V) /\ Len(s) = n
  BY <1>1
<1>3. t \in Seq(OptionTexts) /\ Len(t) = n /\ t = [i \in 1 .. n |-> bert_regex_options[i][1]]
  <2>1. t = [i \in 1 .. n |-> bert_regex_options[i][1]]
    BY <1>1, OptionTable
  <2>2. t \in [1 .. n -> OptionTexts]
    BY <1>1, <2>1, OptionTable
  <2> HIDE DEF t
  <2>3. t \in Seq(OptionTexts) /\ Len(t) = n
    BY <2>2
  <2> QED
    BY <2>1, <2>3
<1>4. \A name \in OtherTexts : \E i \in 1 .. n : s[i] = name
  <2>1. s[1] = "bert" /\ s[2] = "nil" /\ s[3] = "true" /\ s[4] = "false" /\ s[5] = "time"
          /\ s[6] = "dict" /\ s[7] = "regex"
    OBVIOUS
  <2>2. \A i \in 1 .. 7 : i \in 1 .. n
    BY <1>1
  <2> HIDE DEF s
  <2> QED
    BY <2>1, <2>2 DEF OtherTexts
<1>5. \A name \in OptionTexts : \E i \in 1 .. n : t[i] = name
  <2>1. \A name \in OptionTexts : \E i \in 1 .. 13 : bert_regex_options[i][1] = name
    BY DEF OptionTexts, bert_regex_options
  <2> QED
    BY <1>1, <1>3, <2>1
<1> HIDE DEF s, t, V
<1>6. s \in Seq(S) /\ t \in Seq(S)
  BY <1>2, <1>3, SeqMonotonic
<1> HIDE DEF S
<1>7. /\ DOMAIN (s \o t) = 1 .. n + n
      /\ \A j \in 1 .. n : (s \o t)[j] = s[j]
      /\ \A j \in 1 .. n : (s \o t)[n + j] = t[j]
  <2>1. s \in Seq(S) /\ t \in Seq(S)
    BY <1>6
  <2>2. Len(s) = n
    BY <1>2
  <2>3. Len(t) = n
    BY <1>3
  <2>4. InARow(s, t, n)
    BY <2>1, <2>2, <2>3, Concatenated
  <2> QED
    BY <2>4, Zenon DEF InARow
<1>8. \A name \in WrittenTexts : \E i \in 1 .. n + n : (s \o t)[i] = name
  <2>1. \A j \in 1 .. n : j \in 1 .. n + n /\ n + j \in 1 .. n + n
    OBVIOUS
  <2>2. ASSUME NEW name \in OtherTexts PROVE \E i \in 1 .. n + n : (s \o t)[i] = name
    BY <1>4, <1>7, <2>1
  <2>3. ASSUME NEW name \in OptionTexts PROVE \E i \in 1 .. n + n : (s \o t)[i] = name
    BY <1>5, <1>7, <2>1
  <2> QED
    BY <2>2, <2>3 DEF WrittenTexts
<1>9. Names = s \o t /\ n + n = 26
  BY <1>1 DEF Names, s, t
<1> QED
  BY <1>7, <1>8, <1>9

\* A text the encoder writes is a sequence of bytes.
LEMMA NameIsText ==
  ASSUME NEW name \in WrittenTexts
  PROVE  Text(name) \in Seq(Byte)
<1>1. PICK i \in 1 .. 26 : Names[i] = name
  BY TableOfNames
<1>2. PICK l \in 1 .. 15 : l = Len(name)
  BY <1>1, NamesAssumption, TableOfNames
<1> DEFINE j == CHOOSE p \in DOMAIN Names : Names[p] = name
<1>3. j \in 1 .. 26
  BY <1>1, TableOfNames
<1> HIDE DEF j
<1>4. 200 + j \in Byte
  BY <1>3 DEF Byte
<1>5. Text(name) = [k \in 1 .. l |-> 200 + j]
  BY <1>2 DEF Text, j
<1> QED
  BY <1>4, <1>5

\* An option has a name where its bit is set, none where it is not.
LEMMA OptionNames ==
  ASSUME NEW options, NEW i \in 0 .. 3
  PROVE  /\ i \in options => OptionName(options, i) \in WrittenTexts \ {""}
         /\ i \notin options => OptionName(options, i) = ""
<1> DEFINE mask == {i} \intersect options
           hits == {j \in DOMAIN bert_regex_options : bert_regex_options[j][2] = mask}
<1>1. OptionName(options, i) = IF hits = {} THEN "" ELSE bert_regex_options[Min(hits)][1]
  BY DEF OptionName, bert_regex_optname, Lookup
<1>2. CASE i \in options
  <2>1. mask = {i}
    BY <1>2
  <2>2. \E j \in 1 .. 13 : bert_regex_options[j][2] = {i}
    <3>1. 3 \in 1 .. 13 /\ 8 \in 1 .. 13 /\ 5 \in 1 .. 13 /\ 6 \in 1 .. 13
      OBVIOUS
    <3>2. i = 0 \/ i = 1 \/ i = 2 \/ i = 3
      OBVIOUS
    <3> QED
      BY <3>1, <3>2, OptionTable, Zenon
  <2>3. hits \in SUBSET (1 .. 13) /\ hits # {}
    BY <2>1, <2>2, OptionTable
  <2> HIDE DEF hits
  <2>4. Min(hits) \in 1 .. 13
    <3>1. 13 \in Nat
      OBVIOUS
    <3> QED
      BY <2>3, <3>1, MinOfPositions
  <2> QED
    BY <1>1, <1>2, <2>3, <2>4, OptionTable DEF WrittenTexts
<1>3. CASE i \notin options
  <2>1. mask = {}
    BY <1>3
  <2>2. hits = {}
    BY <2>1, OptionTable
  <2> HIDE DEF hits
  <2> QED
    BY <1>1, <1>3, <2>2
<1> QED
  BY <1>2, <1>3

(***************************************************************************)
(* What a push leads to.  Leads(jobs, m, n): while m terms are missing for *)
(* the output to be one complete term, these jobs can all be done, a term  *)
(* is missing before each of them, and n terms are missing after them.     *)
(* A push counts as the term that it will have written.                    *)
(***************************************************************************)

\* tokens with all their fields
WholeTokens == {t \in Tokens : Arity(t) \in Nat}

WriteJobs == {[op |-> "write", token |-> t] : t \in WholeTokens}
PushJobs  == {[op |-> "push", data |-> d] : d \in Terms}
JobSet    == WriteJobs \union PushJobs

\* what a job announces
Owes(job) == IF job.op = "write" THEN Arity(job.token) ELSE 0

Steps(f, jobs) ==
  \A i \in 1 .. Len(jobs) : f[i - 1] > 0 /\ f[i] = f[i - 1] - 1 + Owes(jobs[i])

Leads(jobs, m, n) ==
  /\ jobs \in Seq(JobSet) /\ m \in Nat
  /\ \E f \in [0 .. Len(jobs) -> Nat] : f[0] = m /\ f[Len(jobs)] = n /\ Steps(f, jobs)

\* A write owes the terms its header announces, a push none.
LEMMA JobFacts ==
  /\ \A job \in JobSet : Owes(job) \in Nat
  /\ \A t \in WholeTokens : /\ [op |-> "write", token |-> t] \in JobSet
                            /\ Owes([op |-> "write", token |-> t]) = Arity(t)
  /\ \A d \in Terms : /\ [op |-> "push", data |-> d] \in JobSet
                      /\ Owes([op |-> "push", data |-> d]) = 0
<1>1. \A t : Owes([op |-> "write", token |-> t]) = Arity(t)
  BY DEF Owes
<1>2. \A d : Owes([op |-> "push", data |-> d]) = 0
  BY DEF Owes
<1>3. \A t \in WholeTokens : [op |-> "write", token |-> t] \in JobSet
  BY DEF JobSet, WriteJobs
<1>4. \A d \in Terms : [op |-> "push", data |-> d] \in JobSet
  BY DEF JobSet, PushJobs
<1>5. ASSUME NEW job \in JobSet PROVE Owes(job) \in Nat
  <2>1. CASE job \in WriteJobs
    <3>1. PICK t \in WholeTokens : job = [op |-> "write", token |-> t]
      BY <2>1 DEF WriteJobs
    <3> QED
      BY <1>1, <3>1 DEF WholeTokens
  <2>2. CASE job \in PushJobs
    <3>1. PICK d \in Terms : job = [op |-> "push", data |-> d]
      BY <2>2 DEF PushJobs
    <3> QED
      BY <1>2, <3>1
  <2> QED
    BY <2>1, <2>2 DEF JobSet
<1> QED
  BY <1>1, <1>2, <1>3, <1>4, <1>5

\* No jobs change nothing.
LEMMA LeadsNowhere ==
  ASSUME NEW m \in Nat
  PROVE  Leads(<< >>, m, m)
<1> DEFINE f == [i \in 0 .. 0 |-> m]
<1>1. << >> \in Seq(JobSet) /\ Len(<< >>) = 0
  OBVIOUS
<1>2. f \in [0 .. 0 -> Nat] /\ f[0] = m
  OBVIOUS
<1> HIDE DEF f
<1>3. Steps(f, << >>)
  BY DEF Steps
<1> QED
  BY <1>1, <1>2, <1>3 DEF Leads

\* ... and nothing else.
LEMMA NowhereLeads ==
  ASSUME NEW m, NEW n, Leads(<< >>, m, n)
  PROVE  m = n
<1>1. Len(<< >>) = 0
  OBVIOUS
<1> QED
  BY <1>1 DEF Leads

\* Jobs that lead from m to n, and then from n to p, lead from m to p.
LEMMA LeadsOn ==
  ASSUME NEW a, NEW b, NEW m, NEW n, NEW p, Leads(a, m, n), Leads(b, n, p)
  PROVE  Leads(a \o b, m, p)
<1>1. a \in Seq(JobSet) /\ b \in Seq(JobSet) /\ m \in Nat
  BY DEF Leads
<1>2. PICK k \in Nat, l \in Nat : k = Len(a) /\ l = Len(b)
  BY <1>1, LenProperties
<1>3. PICK f \in [0 .. k -> Nat] : f[0] = m /\ f[k] = n /\ Steps(f, a)
  BY <1>2 DEF Leads
<1>4. PICK g \in [0 .. l -> Nat] : g[0] = n /\ g[l] = p /\ Steps(g, b)
  BY <1>2 DEF Leads
<1> DEFINE c == a \o b
           h == [i \in 0 .. k + l |-> IF i <= k THEN f[i] ELSE g[i - k]]
<1>5. /\ c \in Seq(JobSet) /\ Len(c) = k + l
      /\ \A i \in 1 .. k : c[i] = a[i]
      /\ \A i \in 1 .. l : c[k + i] = b[i]
  <2>1. c \in Seq(JobSet) /\ Len(c) = k + l
    BY <1>1, <1>2, ConcatProperties
  <2>2. \A i \in 1 .. k + l : c[i] = IF i <= k THEN a[i] ELSE b[i - k]
    BY <1>1, <1>2, ConcatProperties
  <2> HIDE DEF c
  <2>3. ASSUME NEW i \in 1 .. l PROVE c[k + i] = b[i]
    <3>1. k + i \in 1 .. k + l /\ ~(k + i <= k) /\ (k + i) - k = i
      OBVIOUS
    <3> QED
      BY <2>2, <3>1
  <2> QED
    BY <2>1, <2>2, <2>3
<1> HIDE DEF c
<1>6. h \in [0 .. k + l -> Nat] /\ h[0] = m
  BY <1>3
<1>7. \A i \in 0 .. k : h[i] = f[i]
  BY <1>3
<1>8. \A i \in 0 .. l : h[k + i] = g[i]
  <2>1. ASSUME NEW i \in 0 .. l PROVE h[k + i] = g[i]
    <3>1. CASE i = 0
      BY <1>3, <1>4, <3>1
    <3>2. CASE i # 0
      <4>1. k + i \in 0 .. k + l /\ ~(k + i <= k) /\ (k + i) - k = i
        BY <3>2
      <4> QED
        BY <4>1
    <3> QED
      BY <3>1, <3>2
  <2> QED
    BY <2>1
<1> HIDE DEF h
<1>9. ASSUME NEW i \in 1 .. k + l
      PROVE  h[i - 1] > 0 /\ h[i] = h[i - 1] - 1 + Owes(c[i])
  <2>1. CASE i <= k
    <3>1. i \in 1 .. k /\ i - 1 \in 0 .. k /\ i \in 0 .. k
      BY <2>1
    <3> QED
      BY <1>2, <1>3, <1>5, <1>7, <3>1 DEF Steps
  <2>2. CASE ~(i <= k)
    <3>1. PICK j \in 1 .. l : i = k + j
      <4>1. i - k \in 1 .. l /\ i = k + (i - k)
        BY <2>2
      <4> QED
        BY <4>1
    <3>2. i - 1 = k + (j - 1) /\ j - 1 \in 0 .. l /\ j \in 0 .. l
      BY <3>1
    <3>3. h[i] = g[j] /\ h[i - 1] = g[j - 1] /\ c[i] = b[j]
      BY <1>5, <1>8, <3>1, <3>2
    <3> QED
      BY <1>2, <1>4, <3>3 DEF Steps
  <2> QED
    BY <2>1, <2>2
<1>10. h[k + l] = p
  BY <1>4, <1>8
<1> QED
  BY <1>1, <1>5, <1>6, <1>9, <1>10 DEF Leads, Steps, c

\* More may be missing than these jobs make good.
LEMMA LeadsAbove ==
  ASSUME NEW a, NEW m, NEW n, NEW k \in Nat, Leads(a, m, n)
  PROVE  Leads(a, m + k, n + k)
<1>1. a \in Seq(JobSet) /\ m \in Nat
  BY DEF Leads
<1>2. PICK l \in Nat : l = Len(a)
  BY <1>1, LenProperties
<1>3. PICK f \in [0 .. l -> Nat] : f[0] = m /\ f[l] = n /\ Steps(f, a)
  BY <1>2 DEF Leads
<1> DEFINE h == [i \in 0 .. l |-> f[i] + k]
<1>4. h \in [0 .. l -> Nat] /\ h[0] = m + k /\ h[l] = n + k
  BY <1>3
<1>5. ASSUME NEW i \in 1 .. l
      PROVE  h[i - 1] > 0 /\ h[i] = h[i - 1] - 1 + Owes(a[i])
  <2>1. f[i] = f[i - 1] - 1 + Owes(a[i]) /\ f[i - 1] > 0
    BY <1>2, <1>3 DEF Steps
  <2>2. h[i] = f[i] + k /\ h[i - 1] = f[i - 1] + k
    OBVIOUS
  <2>3. f[i] \in Nat /\ f[i - 1] \in Nat
    OBVIOUS
  <2> HIDE DEF h
  <2> DEFINE o == Owes(a[i])
  <2>4. o \in Nat
    <3>1. a[i] \in JobSet
      BY <1>1, <1>2, ElementOfSeq
    <3> QED
      BY <3>1, JobFacts
  <2> HIDE DEF o
  <2> QED
    <3>1. f[i] = f[i - 1] - 1 + o
      BY <2>1 DEF o
    <3>2. h[i] = h[i - 1] - 1 + o
      BY <2>2, <2>3, <2>4, <3>1
    <3>3. h[i - 1] > 0
      BY <2>1, <2>2, <2>3
    <3> QED
      BY <3>2, <3>3 DEF o
<1> HIDE DEF h
<1>6. Steps(h, a)
  BY <1>2, <1>5 DEF Steps
<1> QED
  BY <1>1, <1>2, <1>4, <1>6 DEF Leads

\* One job makes one term good and owes what it announces.
LEMMA LeadsOne ==
  ASSUME NEW job \in JobSet, NEW m \in Nat \ {0}
  PROVE  Leads(<<job>>, m, m - 1 + Owes(job))
<1> DEFINE f == [i \in 0 .. 1 |-> IF i = 0 THEN m ELSE m - 1 + Owes(job)]
           n == m - 1 + Owes(job)
<1>1. <<job>> \in Seq(JobSet) /\ Len(<<job>>) = 1 /\ <<job>>[1] = job
  OBVIOUS
<1>2. f \in [0 .. 1 -> Nat] /\ f[0] = m /\ f[1] = n
  <2>1. Owes(job) \in Nat
    BY JobFacts
  <2> QED
    BY <2>1
<1>3. \A i \in 1 .. 1 : i = 1 /\ i - 1 = 0
  OBVIOUS
<1> HIDE DEF f
<1>4. Steps(f, <<job>>)
  BY <1>1, <1>2, <1>3 DEF Steps
<1> QED
  BY <1>1, <1>2, <1>4 DEF Leads

\* When the first job is done the others still lead to the same end.
LEMMA LeadsTail ==
  ASSUME NEW a, NEW m, NEW n, Leads(a, m, n), a # << >>
  PROVE  /\ Head(a) \in JobSet /\ m > 0
         /\ m - 1 + Owes(Head(a)) \in Nat
         /\ Leads(Tail(a), m - 1 + Owes(Head(a)), n)
<1>1. a \in Seq(JobSet) /\ m \in Nat
  BY DEF Leads
<1>2. PICK l \in Nat : Len(a) = l + 1
  <2>1. Len(a) \in Nat /\ Len(a) # 0
    BY <1>1, EmptySeq, LenProperties
  <2>2. Len(a) - 1 \in Nat /\ Len(a) = (Len(a) - 1) + 1
    BY <2>1
  <2> QED
    BY <2>2
<1>3. PICK f \in [0 .. l + 1 -> Nat] : f[0] = m /\ f[l + 1] = n /\ Steps(f, a)
  BY <1>2 DEF Leads
<1> DEFINE b == Tail(a)
           h == [i \in 0 .. l |-> f[i + 1]]
<1>4. /\ Head(a) = a[1] /\ Head(a) \in JobSet /\ b \in Seq(JobSet) /\ Len(b) = l
      /\ \A i \in 1 .. l : b[i] = a[i + 1]
  BY <1>1, <1>2, HeadTailProperties
<1> HIDE DEF b
<1>5. h \in [0 .. l -> Nat] /\ h[0] = f[1] /\ h[l] = n
  BY <1>3
<1>6. ASSUME NEW i \in 1 .. l
      PROVE  h[i - 1] > 0 /\ h[i] = h[i - 1] - 1 + Owes(b[i])
  <2>1. h[i] = f[i + 1] /\ h[i - 1] = f[i] /\ i + 1 \in 1 .. l + 1 /\ (i + 1) - 1 = i
    OBVIOUS
  <2> HIDE DEF h
  <2> QED
    BY <1>2, <1>3, <1>4, <2>1 DEF Steps
<1> HIDE DEF h
<1>7. Steps(h, b)
  BY <1>4, <1>6 DEF Steps
<1>8. f[0] > 0 /\ f[1] = f[0] - 1 + Owes(a[1])
  <2>1. 1 \in 1 .. l + 1 /\ 1 - 1 = 0
    OBVIOUS
  <2> QED
    BY <1>2, <1>3, <2>1 DEF Steps
<1>9. f[1] \in Nat
  OBVIOUS
<1> QED
  BY <1>3, <1>4, <1>5, <1>7, <1>8, <1>9 DEF Leads, b

\* The jobs of a loop lead on if each turn does.
LEMMA LeadsFlattened ==
  ASSUME NEW n \in Nat, NEW seqs \in [1 .. n -> Seq(JobSet)], NEW c \in [0 .. n -> Nat],
         \A i \in 1 .. n : Leads(seqs[i], c[i - 1], c[i])
  PROVE  Leads(FlattenSeq(seqs), c[0], c[n])
<1>1. PICK f \in [0 .. n -> Seq(JobSet)] : Joined(f, seqs) /\ FlattenSeq(seqs) = f[n]
  BY FlattenValue
<1> DEFINE Done == {k \in Nat : k <= n => Leads(f[k], c[0], c[k])}
<1>2. 0 \in Done
  BY <1>1, LeadsNowhere DEF Joined
<1>3. ASSUME NEW k \in Nat, k \in Done PROVE k + 1 \in Done
  <2> SUFFICES ASSUME k + 1 <= n PROVE Leads(f[k + 1], c[0], c[k + 1])
    OBVIOUS
  <2>1. k + 1 \in 1 .. n /\ (k + 1) - 1 = k /\ Len(seqs) = n
    OBVIOUS
  <2>2. Leads(f[k], c[0], c[k])
    BY <1>3
  <2>3. Leads(seqs[k + 1], c[k], c[k + 1])
    BY <2>1
  <2>4. f[k + 1] = f[k] \o seqs[k + 1]
    BY <1>1, <2>1 DEF Joined
  <2> QED
    BY <2>2, <2>3, <2>4, LeadsOn
<1> HIDE DEF Done
<1>4. n \in Done
  BY <1>2, <1>3, Induction
<1> QED
  BY <1>1, <1>4 DEF Done

\* A token that announces n terms is a whole token of arity n.
LEMMA AnnouncedIsWhole ==
  ASSUME NEW t, NEW n \in Nat, Announces(t, n)
  PROVE  t \in WholeTokens /\ Arity(t) = n
BY DEF Announces, WholeTokens

\* The write of a token
LEMMA LeadsWrite ==
  ASSUME NEW t, NEW n \in Nat, Announces(t, n), NEW m \in Nat \ {0}
  PROVE  Leads(Writes(<<t>>), m, m - 1 + n)
<1> DEFINE job == [op |-> "write", token |-> t]
<1>1. t \in WholeTokens /\ Arity(t) = n
  BY AnnouncedIsWhole
<1>2. job \in JobSet /\ Owes(job) = n
  BY <1>1, JobFacts
<1>3. Writes(<<t>>) = <<job>>
  BY DEF Writes
<1> HIDE DEF job
<1> QED
  BY <1>2, <1>3, LeadsOne

\* ... and of three
LEMMA LeadsWrites ==
  ASSUME NEW t, NEW n \in Nat, Announces(t, n), NEW u, Announces(u, 0), NEW v, Announces(v, 0),
         NEW m \in Nat \ {0}, m - 1 + n > 1
  PROVE  Leads(Writes(<<t, u, v>>), m, m - 3 + n)
<1>1. Leads(Writes(<<t>>), m, m - 1 + n)
  BY LeadsWrite
<1>2. Leads(Writes(<<u>>), m - 1 + n, m - 2 + n)
  <2>1. m - 1 + n \in Nat \ {0} /\ 0 \in Nat /\ (m - 1 + n) - 1 + 0 = m - 2 + n
    OBVIOUS
  <2> QED
    BY <2>1, LeadsWrite
<1>3. Leads(Writes(<<v>>), m - 2 + n, m - 3 + n)
  <2>1. m - 2 + n \in Nat \ {0} /\ 0 \in Nat /\ (m - 2 + n) - 1 + 0 = m - 3 + n
    OBVIOUS
  <2> QED
    BY <2>1, LeadsWrite
<1>4. Writes(<<t, u, v>>) = (Writes(<<t>>) \o Writes(<<u>>)) \o Writes(<<v>>)
  <2> DEFINE J(x) == [op |-> "write", token |-> x]
  <2>1. /\ Writes(<<t, u, v>>) = <<J(t), J(u), J(v)>>
        /\ Writes(<<t>>) = <<J(t)>> /\ Writes(<<u>>) = <<J(u)>> /\ Writes(<<v>>) = <<J(v)>>
    BY DEF Writes
  <2> HIDE DEF J
  <2>2. <<J(t), J(u), J(v)>> = (<<J(t)>> \o <<J(u)>>) \o <<J(v)>>
    OBVIOUS
  <2> QED
    BY <2>1, <2>2
<1>5. Leads(Writes(<<t>>) \o Writes(<<u>>), m, m - 2 + n)
  BY <1>1, <1>2, LeadsOn
<1> QED
  BY <1>3, <1>4, <1>5, LeadsOn

\* bert_encode_complex_header leaves as many terms missing as its caller says will follow.
LEMMA LeadsComplex ==
  ASSUME NEW name \in WrittenTexts, NEW n \in 0 .. 3
  PROVE  Leads(bert_encode_complex_header(name, n), 1, n)
<1>1. Announces(TupleHeader(n + 2), n + 2) /\ n + 2 \in Nat
  <2>1. n + 2 \in Nat /\ n + 2 < 2^32
    BY SMT
  <2> QED
    BY <2>1, HeaderTokens
<1>2. Announces(Atom(Text("bert")), 0) /\ Announces(Atom(Text(name)), 0)
  <2>1. "bert" \in WrittenTexts
    BY DEF WrittenTexts, OtherTexts
  <2> QED
    BY <2>1, NameIsText, TextTokens
<1>3. 1 \in Nat \ {0} /\ 1 - 1 + (n + 2) > 1 /\ 1 - 3 + (n + 2) = n
  OBVIOUS
<1> QED
  BY <1>1, <1>2, <1>3, LeadsWrites DEF bert_encode_complex_header

\* Pushes announce nothing: each makes one term good.
LEMMA LeadsPushes ==
  ASSUME NEW kids \in Seq(Terms)
  PROVE  Leads(Pushes(kids), Len(kids), 0)
<1>1. PICK l \in Nat : l = Len(kids) /\ kids \in [1 .. l -> Terms]
  BY LenProperties
<1> DEFINE jobs == Pushes(kids)
           f == [i \in 0 .. l |-> l - i]
<1>2. jobs = [k \in 1 .. l |-> [op |-> "push", data |-> kids[k]]]
  BY <1>1 DEF Pushes
<1> HIDE DEF jobs
<1>3. ASSUME NEW k \in 1 .. l PROVE jobs[k] \in JobSet /\ Owes(jobs[k]) = 0
  <2>1. kids[k] \in Terms /\ jobs[k] = [op |-> "push", data |-> kids[k]]
    BY <1>1, <1>2
  <2> QED
    BY <2>1, JobFacts
<1>4. jobs \in Seq(JobSet) /\ Len(jobs) = l
  <2>1. jobs \in [1 .. l -> JobSet]
    BY <1>2, <1>3
  <2> QED
    BY <2>1
<1>5. f \in [0 .. l -> Nat] /\ f[0] = l /\ f[l] = 0
  OBVIOUS
<1>6. ASSUME NEW i \in 1 .. l PROVE f[i - 1] > 0 /\ f[i] = f[i - 1] - 1 + Owes(jobs[i])
  <2>1. f[i - 1] > 0 /\ f[i] = f[i - 1] - 1 + 0
    OBVIOUS
  <2> QED
    BY <1>3, <2>1
<1> HIDE DEF f
<1>7. Steps(f, jobs)
  BY <1>4, <1>6 DEF Steps
<1>8. Leads(jobs, l, 0)
  BY <1>4, <1>5, <1>7 DEF Leads
<1> QED
  BY <1>1, <1>8 DEF jobs

\* Counting one term, for the lemmas below.
LEMMA OneOne == 1 \in Nat \ {0} /\ 1 - 1 + 0 = 0 /\ 0 \in Nat
OBVIOUS

\* A term without elements: one token.
LEMMA LeadsScalar ==
  ASSUME NEW t, Announces(t, 0)
  PROVE  Leads(Writes(<<t>>), 1, 0)
BY OneOne, LeadsWrite, Zenon

\* the pairs of a dict, flattened
LEMMA LeadsPairs ==
  ASSUME NEW kids \in Seq(Terms), NEW n, n = Len(kids) \div 2
  PROVE  Leads(FlattenSeq([k \in 1 .. n |->
                 Writes(<<TupleHeader(2)>>) \o Pushes(<<kids[2 * k - 1], kids[2 * k]>>)]), n, 0)
<1> DEFINE Pair(k) == Writes(<<TupleHeader(2)>>) \o Pushes(<<kids[2 * k - 1], kids[2 * k]>>)
           seqs == [k \in 1 .. n |-> Pair(k)]
           c == [i \in 0 .. n |-> n - i]
<1>1. n \in Nat /\ 2 * n <= Len(kids)
  <2>1. Len(kids) \in Nat
    BY LenProperties
  <2> QED
    BY <2>1, SMT
<1>2. ASSUME NEW k \in 1 .. n PROVE Leads(Pair(k), 1, 0)
  <2>1. kids[2 * k - 1] \in Terms /\ kids[2 * k] \in Terms
    <3>1. 2 * k - 1 \in 1 .. Len(kids) /\ 2 * k \in 1 .. Len(kids)
      <4>1. Len(kids) \in Nat
        BY LenProperties
      <4> QED
        BY <1>1, <4>1
    <3> QED
      BY <3>1, ElementOfSeq
  <2> DEFINE pair == <<kids[2 * k - 1], kids[2 * k]>>
  <2>2. pair \in Seq(Terms) /\ Len(pair) = 2
    BY <2>1
  <2> HIDE DEF pair
  <2>3. Leads(Pushes(pair), 2, 0)
    BY <2>2, LeadsPushes
  <2>4. Announces(TupleHeader(2), 2)
    <3>1. 2 \in Nat /\ 2 < 2^32
      BY SMT
    <3> QED
      BY <3>1, HeaderTokens
  <2>5. Leads(Writes(<<TupleHeader(2)>>), 1, 2)
    <3>1. 2 \in Nat /\ 1 - 1 + 2 = 2
      OBVIOUS
    <3> QED
      BY <2>4, <3>1, OneOne, LeadsWrite
  <2> QED
    BY <2>3, <2>5, LeadsOn DEF pair
<1>3. ASSUME NEW i \in 1 .. n PROVE Leads(seqs[i], c[i - 1], c[i])
  <2>1. Leads(Pair(i), 1 + (n - i), 0 + (n - i))
    <3>1. n - i \in Nat
      BY <1>1
    <3> HIDE DEF Pair
    <3> QED
      BY <1>2, <3>1, LeadsAbove
  <2>2. c[i - 1] = 1 + (n - i) /\ c[i] = 0 + (n - i)
    BY <1>1
  <2>3. seqs[i] = Pair(i)
    OBVIOUS
  <2> QED
    BY <2>1, <2>2, <2>3
<1>4. seqs \in [1 .. n -> Seq(JobSet)]
  <2>1. \A i \in 1 .. n : Pair(i) \in Seq(JobSet)
    BY <1>2 DEF Leads
  <2> HIDE DEF Pair
  <2> QED
    BY <2>1
<1>5. c \in [0 .. n -> Nat] /\ c[0] = n /\ c[n] = 0
  BY <1>1
<1> HIDE DEF seqs, c
<1>6. Leads(FlattenSeq(seqs), n, 0)
  BY <1>1, <1>3, <1>4, <1>5, LeadsFlattened
<1> QED
  BY <1>6 DEF seqs

\* bert_encode_dict writes one term: the list's header announces a pair for each turn of its loop.
LEMMA LeadsDict ==
  ASSUME NEW kids \in Seq(Terms), Len(kids) < 2^32
  PROVE  Leads(bert_encode_dict(kids), 1, 0)
<1> DEFINE n == Len(kids) \div 2
           pairs == FlattenSeq([k \in 1 .. n |->
                      Writes(<<TupleHeader(2)>>) \o Pushes(<<kids[2 * k - 1], kids[2 * k]>>)])
           header == bert_encode_complex_header("dict", 1)
           list == Writes(<<ListHeader(n)>>)
<1>1. n \in Nat /\ n < 2^32
  <2>1. Len(kids) \in Nat
    BY LenProperties
  <2> QED
    BY <2>1, SMT
<1>2. Leads(pairs, n, 0)
  BY LeadsPairs
<1> HIDE DEF n, pairs
<1>3. Leads(list, 1, n)
  <2>1. Announces(ListHeader(n), n)
    BY <1>1, HeaderTokens
  <2>2. 1 - 1 + n = n
    BY <1>1
  <2> QED
    BY <1>1, <2>1, <2>2, OneOne, LeadsWrite
<1>4. Leads(header, 1, 1)
  <2>1. "dict" \in WrittenTexts /\ 1 \in 0 .. 3
    BY DEF WrittenTexts, OtherTexts
  <2> QED
    BY <2>1, LeadsComplex
<1> HIDE DEF list, header
<1>5. Leads(header \o list \o pairs, 1, 0)
  BY <1>2, <1>3, <1>4, LeadsOn
<1> QED
  BY <1>5 DEF bert_encode_dict, n, pairs, list, header

\* A sequence of eight bytes is an int64_t.
LEMMA OctetsOf ==
  ASSUME NEW word \in Seq(Byte), Len(word) = 8
  PROVE  word \in Octets
BY LenProperties DEF Octets

\* no more than three bytes
Short(r) == r \in Nat /\ r < 16777216

\* Megaseconds and seconds are int64_t again, the seconds less than a million, with either sign.
LEMMA TimeIsBytes ==
  ASSUME NEW timestamp \in Octets
  PROVE  /\ TimeParts(timestamp).quotient \in Octets /\ TimeParts(timestamp).rest \in Octets
         /\ \E r : Short(r) /\ TimeParts(timestamp).rest \in {Word(r, 8), Negated(Word(r, 8))}
<1>1. PICK n \in Nat \ {0} : n = 1000000
  BY SMT
<1>2. TimeParts(timestamp) = Divided(timestamp, n)
  BY <1>1, SMT DEF TimeParts
<1>3. \A r \in Nat : r < n => Short(r)
  BY <1>1, SMT DEF Short
<1>4. \A r \in 0 .. n - 1 : Short(r)
  BY <1>3
<1> QED
  BY <1>2, <1>4, DividedIsBytes

\* bert_encode_time writes one term: three integers after a header that announces them.
LEMMA LeadsTime ==
  ASSUME NEW timestamp \in Octets
  PROVE  Leads(bert_encode_time(timestamp), 1, 0)
<1> DEFINE time == TimeParts(timestamp)
           a == bert_encode_int(Narrowed(time.quotient, 4))
           b == bert_encode_int(Narrowed(time.rest, 4))
           c == bert_encode_int(Word(0, 4))
<1>1. bert_encode_time(timestamp) = bert_encode_complex_header("time", 3) \o Writes(<<a, b, c>>)
  BY DEF bert_encode_time
<1>3. time.quotient \in Octets /\ time.rest \in Octets
  BY TimeIsBytes
<1>4. \A word \in Octets : Announces(bert_encode_int(Narrowed(word, 4)), 0)
  <2> TAKE word \in Octets
  <2>1. 8 \in Nat /\ 4 \in 0 .. 8
    OBVIOUS
  <2>2. Narrowed(word, 4) \in [1 .. 4 -> Byte]
    BY <2>1, PartIsBytes DEF Octets
  <2> QED
    BY <2>2, IntToken
<1>5. Announces(c, 0)
  <2>1. 0 \in Int /\ 4 \in Nat
    OBVIOUS
  <2> QED
    BY <2>1, WordIsBytes, IntToken
<1> HIDE DEF time
<1>6. Announces(a, 0) /\ Announces(b, 0)
  BY <1>3, <1>4
<1> HIDE DEF a, b, c
<1>7. Leads(Writes(<<a, b, c>>), 3, 0)
  <2>1. 3 \in Nat \ {0} /\ 0 \in Nat /\ 3 - 1 + 0 > 1 /\ 3 - 3 + 0 = 0
    OBVIOUS
  <2> QED
    BY <1>5, <1>6, <2>1, LeadsWrites
<1>8. Leads(bert_encode_complex_header("time", 3), 1, 3)
  <2>1. "time" \in WrittenTexts /\ 3 \in 0 .. 3
    BY DEF WrittenTexts, OtherTexts
  <2> QED
    BY <2>1, LeadsComplex
<1> QED
  BY <1>1, <1>7, <1>8, LeadsOn

\* bert_encode_regex writes one term: it counts the options in one loop and writes them in another.
LEMMA LeadsRegex ==
  ASSUME NEW source \in Seq(Byte), NEW options
  PROVE  Leads(bert_encode_regex(source, options), 1, 0)
<1> DEFINE Named(name) == IF name = "" THEN << >> ELSE Writes(<<Atom(Text(name))>>)
           seqs == [k \in 1 .. 4 |-> Named(OptionName(options, k - 1))]
           Left(k) == {i \in k .. 3 : i \in options}
           c == [k \in 0 .. 4 |-> Cardinality(Left(k))]
           n == Cardinality(OptionsSeen(options))
           header == bert_encode_complex_header("regex", 2)
           two == Writes(<<bert_encode_bin(source), ListHeader(n)>>)
<1>1. ASSUME NEW k \in 0 .. 4
      PROVE  IsFiniteSet(Left(k)) /\ Cardinality(Left(k)) \in 0 .. 4
  <2>1. IsFiniteSet(0 .. 3) /\ Cardinality(0 .. 3) = 4
    <3>1. 0 \in Int /\ 3 \in Int /\ ~(0 > 3) /\ 3 - 0 + 1 = 4
      OBVIOUS
    <3> QED
      BY <3>1, FS_Interval
  <2>2. Left(k) \subseteq 0 .. 3
    OBVIOUS
  <2> HIDE DEF Left
  <2> QED
    BY <2>1, <2>2, FS_Subset, FS_CardinalityType
<1>2. ASSUME NEW k \in 1 .. 4
      PROVE  Cardinality(Left(k - 1)) = Cardinality(Left(k)) + (IF k - 1 \in options THEN 1 ELSE 0)
  <2>1. CASE k - 1 \in options
    <3>1. Left(k - 1) = Left(k) \union {k - 1} /\ k - 1 \notin Left(k)
      BY <2>1
    <3> HIDE DEF Left
    <3>2. IsFiniteSet(Left(k))
      BY <1>1
    <3> QED
      BY <2>1, <3>1, <3>2, FS_AddElement
  <2>2. CASE k - 1 \notin options
    <3>1. Left(k - 1) = Left(k)
      BY <2>2
    <3> HIDE DEF Left
    <3>2. Cardinality(Left(k)) \in Nat
      BY <1>1
    <3> QED
      BY <2>2, <3>1, <3>2
  <2> QED
    BY <2>1, <2>2
<1>3. c[0] = n /\ c[4] = 0 /\ n \in 0 .. 4
  <2>1. Left(0) = OptionsSeen(options) /\ Left(4) = {}
    BY DEF OptionsSeen
  <2>2. c[0] = Cardinality(Left(0)) /\ c[4] = Cardinality(Left(4))
    OBVIOUS
  <2> HIDE DEF Left, c
  <2> QED
    BY <1>1, <2>1, <2>2, FS_EmptySet
<1> HIDE DEF Left
<1>4. c \in [0 .. 4 -> Nat]
  BY <1>1
<1>5. ASSUME NEW k \in 1 .. 4 PROVE Leads(seqs[k], c[k - 1], c[k])
  <2> DEFINE name == OptionName(options, k - 1)
  <2> HIDE DEF Named, name
  <2>1. k - 1 \in 0 .. 3 /\ seqs[k] = Named(name)
    BY DEF name
  <2>2. c[k] \in Nat /\ c[k - 1] = c[k] + (IF k - 1 \in options THEN 1 ELSE 0)
    BY <1>2, <1>4
  <2> HIDE DEF c, seqs
  <2>3. CASE k - 1 \in options
    <3>1. name \in WrittenTexts /\ name # ""
      <4>1. name \in WrittenTexts \ {""}
        BY <2>1, <2>3, OptionNames, Zenon DEF name
      <4> QED
        BY <4>1, Zenon
    <3>2. Leads(Writes(<<Atom(Text(name))>>), 1, 0)
      BY <3>1, NameIsText, TextTokens, LeadsScalar
    <3>3. Leads(Writes(<<Atom(Text(name))>>), 1 + c[k], 0 + c[k])
      BY <2>2, <3>2, LeadsAbove
    <3>4. 1 + c[k] = c[k - 1] /\ 0 + c[k] = c[k]
      BY <2>2, <2>3
    <3> QED
      BY <2>1, <3>1, <3>3, <3>4 DEF Named
  <2>4. CASE k - 1 \notin options
    <3>1. name = ""
      BY <2>1, <2>4, OptionNames DEF name
    <3>2. c[k - 1] = c[k]
      BY <2>2, <2>4
    <3>3. seqs[k] = << >>
      BY <2>1, <3>1 DEF Named
    <3> QED
      BY <2>2, <3>2, <3>3, LeadsNowhere
  <2> QED
    BY <2>3, <2>4
<1>6. seqs \in [1 .. 4 -> Seq(JobSet)]
  <2>1. \A k \in 1 .. 4 : seqs[k] \in Seq(JobSet)
    BY <1>5 DEF Leads
  <2>2. seqs = [k \in 1 .. 4 |-> seqs[k]]
    OBVIOUS
  <2> HIDE DEF seqs
  <2> QED
    BY <2>1, <2>2
<1> HIDE DEF seqs, c, n
<1>7. Leads(FlattenSeq(seqs), n, 0)
  <2>1. 4 \in Nat
    OBVIOUS
  <2> QED
    BY <1>3, <1>4, <1>5, <1>6, <2>1, LeadsFlattened
<1>8. Leads(two, 2, n)
  <2>1. Announces(ListHeader(n), n) /\ n \in Nat
    <3>1. n \in Nat /\ n < 2^32
      BY <1>3, SMT
    <3> QED
      BY <3>1, HeaderTokens
  <2>2. Leads(Writes(<<bert_encode_bin(source)>>), 2, 1)
    <3>1. 2 \in Nat \ {0} /\ 0 \in Nat /\ 2 - 1 + 0 = 1
      OBVIOUS
    <3> QED
      BY <3>1, TextTokens, LeadsWrite
  <2>3. Leads(Writes(<<ListHeader(n)>>), 1, n)
    <3>1. 1 - 1 + n = n
      BY <2>1
    <3> QED
      BY <2>1, <3>1, OneOne, LeadsWrite
  <2>4. two = Writes(<<bert_encode_bin(source)>>) \o Writes(<<ListHeader(n)>>)
    <3> DEFINE J(x) == [op |-> "write", token |-> x]
               b == bert_encode_bin(source)
               l == ListHeader(n)
    <3>1. two = <<J(b), J(l)>> /\ Writes(<<b>>) = <<J(b)>> /\ Writes(<<l>>) = <<J(l)>>
      BY DEF Writes
    <3> HIDE DEF J, b, l
    <3>2. <<J(b), J(l)>> = <<J(b)>> \o <<J(l)>>
      OBVIOUS
    <3> QED
      BY <3>1, <3>2 DEF b, l
  <2> QED
    BY <2>2, <2>3, <2>4, LeadsOn
<1>9. Leads(header, 1, 2)
  <2>1. "regex" \in WrittenTexts /\ 2 \in 0 .. 3
    BY DEF WrittenTexts, OtherTexts
  <2> QED
    BY <2>1, LeadsComplex
<1> HIDE DEF two, header
<1>10. Leads(header \o two \o FlattenSeq(seqs), 1, 0)
  BY <1>7, <1>8, <1>9, LeadsOn
<1> QED
  BY <1>10 DEF bert_encode_regex, n, seqs, two, header

\* A header is a whole token whatever it counts.
LEMMA HeaderIsWhole ==
  ASSUME NEW n \in Nat
  PROVE  /\ ListHeader(n) \in WholeTokens /\ TupleHeader(n) \in WholeTokens
         /\ Writes(<<ListHeader(n)>>) \in Seq(JobSet) /\ Writes(<<TupleHeader(n)>>) \in Seq(JobSet)
<1>1. Counted(Word(n, 4)) \in Nat
  <2>1. n \in Int /\ 4 \in Nat
    OBVIOUS
  <2>2. Word(n, 4) \in [1 .. 4 -> Byte]
    BY <2>1, WordIsBytes, Zenon
  <2> DEFINE word == Word(n, 4)
  <2> HIDE DEF word
  <2>3. /\ Counted(word) = word[1] + 256 * (word[2] + 256 * (word[3] + 256 * word[4]))
        /\ word[1] \in Nat /\ word[2] \in Nat /\ word[3] \in Nat /\ word[4] \in Nat
    BY <2>2, CountedOf DEF word, Byte
  <2>4. \A a, b, c, d \in Nat : a + 256 * (b + 256 * (c + 256 * d)) \in Nat
    OBVIOUS
  <2> QED
    BY <2>3, <2>4 DEF word
<1>2. ListHeader(n) \in WholeTokens
  BY <1>1, LongHeaderCounts, AnnouncedIsWhole DEF ListHeader
<1>3. TupleHeader(n) \in WholeTokens
  <2>1. CASE n <= 255
    <3>1. n < 2^32
      BY <2>1, SMT
    <3> QED
      BY <3>1, HeaderTokens, AnnouncedIsWhole
  <2>2. CASE ~(n <= 255)
    <3>1. TupleHeader(n) = <<BERT_LARGE_TUPLE>> \o BigEndian(Word(n, 4))
      BY <2>2 DEF TupleHeader
    <3> QED
      BY <1>1, <3>1, LongHeaderCounts, AnnouncedIsWhole
  <2> QED
    BY <2>1, <2>2
<1>4. ASSUME NEW t \in WholeTokens PROVE Writes(<<t>>) \in Seq(JobSet)
  <2> DEFINE job == [op |-> "write", token |-> t]
  <2>1. job \in JobSet
    BY JobFacts
  <2>2. Writes(<<t>>) = <<job>>
    BY DEF Writes
  <2> HIDE DEF job
  <2>3. <<job>> \in Seq(JobSet)
    BY <2>1
  <2> QED
    BY <2>2, <2>3, Zenon
<1> QED
  BY <1>2, <1>3, <1>4

\* What the push of a term with elements does, however many they are
LEMMA CompoundJobs ==
  ASSUME NEW kids \in Seq(Terms)
  PROVE  /\ Writes(<<TupleHeader(Len(kids))>>) \o Pushes(kids) \in Seq(JobSet)
         /\ Writes(<<ListHeader(Len(kids))>>) \o Pushes(kids) \in Seq(JobSet)
         /\ bert_encode_dict(kids) \in Seq(JobSet)
<1>1. Len(kids) \in Nat
  BY LenProperties
<1>2. Pushes(kids) \in Seq(JobSet)
  BY LeadsPushes DEF Leads
<1>3. /\ Writes(<<TupleHeader(Len(kids))>>) \in Seq(JobSet)
      /\ Writes(<<ListHeader(Len(kids))>>) \in Seq(JobSet)
  BY <1>1, HeaderIsWhole
<1>4. /\ Writes(<<TupleHeader(Len(kids))>>) \o Pushes(kids) \in Seq(JobSet)
      /\ Writes(<<ListHeader(Len(kids))>>) \o Pushes(kids) \in Seq(JobSet)
  BY <1>2, <1>3, ConcatProperties
<1> DEFINE n == Len(kids) \div 2
           pairs == FlattenSeq([k \in 1 .. n |->
                      Writes(<<TupleHeader(2)>>) \o Pushes(<<kids[2 * k - 1], kids[2 * k]>>)])
           header == bert_encode_complex_header("dict", 1)
           list == Writes(<<ListHeader(n)>>)
<1>5. n \in Nat
  BY <1>1
<1>6. pairs \in Seq(JobSet)
  <2>1. Leads(pairs, n, 0)
    BY LeadsPairs
  <2> QED
    BY <2>1 DEF Leads
<1> HIDE DEF n
<1>7. list \in Seq(JobSet)
  BY <1>5, HeaderIsWhole
<1>8. header \in Seq(JobSet)
  <2>1. "dict" \in WrittenTexts /\ 1 \in 0 .. 3
    BY DEF WrittenTexts, OtherTexts
  <2>2. Leads(header, 1, 1)
    BY <2>1, LeadsComplex
  <2> QED
    BY <2>2 DEF Leads
<1> HIDE DEF pairs, header, list
<1>9. header \o list \o pairs \in Seq(JobSet)
  BY <1>6, <1>7, <1>8, ConcatProperties
<1> QED
  BY <1>4, <1>9 DEF bert_encode_dict, n, pairs, header, list

\* The types whose jobs do not depend on how many elements there are
Simple == {"int", "float", "atom", "string", "bin", "nil", "boolean", "regex", "time"}

\* The functions that push no other term write exactly one term.
LEMMA SimpleLeads ==
  ASSUME NEW d \in Terms, d.type \in Simple
  PROVE  Leads(Jobs(d), 1, 0)
<1>1. /\ d.bytes \in Seq(Byte) /\ d.type \in Types
      /\ d.type \in {"int", "time"} => Len(d.bytes) = 8
      /\ d.type \in {"boolean", "float"} => Len(d.bytes) = 1
  BY TermsAssumption
<1>2. CASE d.type = "int"
  <2>1. d.bytes \in Octets
    BY <1>1, <1>2, OctetsOf
  <2>2. Jobs(d) = Writes(<<Integer(d.bytes)>>)
    BY <1>2 DEF Jobs
  <2> QED
    BY <2>1, <2>2, IntegerToken, LeadsScalar
<1>3. CASE d.type = "float"
  <2>1. Jobs(d) = Writes(<<bert_encode_float(d.bytes)>>)
    BY <1>3 DEF Jobs
  <2> QED
    BY <1>1, <1>3, <2>1, FloatToken, LeadsScalar
<1>4. CASE d.type = "atom"
  <2>1. Jobs(d) = Writes(<<Atom(d.bytes)>>)
    BY <1>4 DEF Jobs
  <2> QED
    BY <1>1, <2>1, TextTokens, LeadsScalar
<1>5. CASE d.type = "string"
  <2>1. Jobs(d) = Writes(<<bert_encode_string(d.bytes)>>)
    BY <1>5 DEF Jobs
  <2> QED
    BY <1>1, <2>1, TextTokens, LeadsScalar
<1>6. CASE d.type = "bin"
  <2>1. Jobs(d) = Writes(<<bert_encode_bin(d.bytes)>>)
    BY <1>6 DEF Jobs
  <2> QED
    BY <1>1, <2>1, TextTokens, LeadsScalar
<1>7. CASE d.type = "nil"
  <2>1. Jobs(d) = bert_encode_complex_header("nil", 0)
    BY <1>7 DEF Jobs
  <2>2. "nil" \in WrittenTexts /\ 0 \in 0 .. 3
    BY DEF WrittenTexts, OtherTexts
  <2> QED
    BY <2>1, <2>2, LeadsComplex
<1>8. CASE d.type = "boolean"
  <2> DEFINE name == IF d.bytes[1] = 1 THEN "true" ELSE "false"
  <2>1. Jobs(d) = bert_encode_complex_header(name, 0)
    BY <1>8 DEF Jobs, bert_encode_boolean
  <2>2. name \in WrittenTexts /\ 0 \in 0 .. 3
    BY DEF WrittenTexts, OtherTexts
  <2> HIDE DEF name
  <2> QED
    BY <2>1, <2>2, LeadsComplex
<1>9. CASE d.type = "regex"
  <2>1. Jobs(d) = bert_encode_regex(d.bytes, d.options)
    BY <1>9 DEF Jobs
  <2> QED
    BY <1>1, <2>1, LeadsRegex
<1>10. CASE d.type = "time"
  <2>1. Jobs(d) = bert_encode_time(d.bytes)
    BY <1>10 DEF Jobs
  <2>2. d.bytes \in Octets
    BY <1>1, <1>10, OctetsOf
  <2> QED
    BY <2>1, <2>2, LeadsTime
<1> QED
  BY <1>2, <1>3, <1>4, <1>5, <1>6, <1>7, <1>8, <1>9, <1>10 DEF Simple

\* A term the encoder accepts is simple or one of three containers.
LEMMA TypeOfEncodable ==
  ASSUME NEW d \in Terms, Encodable(d)
  PROVE  /\ d.kids \in Seq(Terms)
         /\ d.type \in Simple \/ d.type = "tuple" \/ d.type = "list" \/ d.type = "dict"
BY TermsAssumption DEF Encodable, Types, Simple

\* What is written and pushed for the containers.
LEMMA JobsOfCompound ==
  ASSUME NEW d
  PROVE  /\ d.type = "tuple" => Jobs(d) = Writes(<<TupleHeader(Len(d.kids))>>) \o Pushes(d.kids)
         /\ d.type = "list"  => Jobs(d) = Writes(<<ListHeader(Len(d.kids))>>) \o Pushes(d.kids)
         /\ d.type = "dict"  => Jobs(d) = bert_encode_dict(d.kids)
BY DEF Jobs

\* A push writes whole tokens and pushes terms that exist.
LEMMA JobsAreJobs ==
  ASSUME NEW d \in Terms, Encodable(d)
  PROVE  Jobs(d) \in Seq(JobSet)
<1>1. CASE d.type \in Simple
  BY <1>1, SimpleLeads DEF Leads
<1>2. CASE d.type = "tuple" \/ d.type = "list" \/ d.type = "dict"
  BY <1>2, TypeOfEncodable, JobsOfCompound, CompoundJobs
<1> QED
  BY <1>1, <1>2, TypeOfEncodable

\* the announced numbers are words of 32 bits
Countable == \A d \in Terms : Len(d.kids) < 2^32

\* A push makes one term good, with everything its headers announce.
LEMMA JobsLead ==
  ASSUME NEW d \in Terms, Encodable(d), Countable
  PROVE  Leads(Jobs(d), 1, 0)
<1>1. d.kids \in Seq(Terms) /\ Len(d.kids) \in Nat /\ Len(d.kids) < 2^32
  BY TypeOfEncodable, LenProperties DEF Countable
<1> DEFINE n == Len(d.kids)
<1>2. 1 - 1 + n = n
  BY <1>1
<1>3. Announces(TupleHeader(n), n) /\ Announces(ListHeader(n), n)
  BY <1>1, HeaderTokens
<1>4. Leads(Pushes(d.kids), n, 0)
  BY <1>1, LeadsPushes
<1>5. n \in Nat
  BY <1>1
<1> HIDE DEF n
<1>6. Leads(Writes(<<TupleHeader(n)>>), 1, n) /\ Leads(Writes(<<ListHeader(n)>>), 1, n)
  BY <1>2, <1>3, <1>5, OneOne, LeadsWrite
<1>7. /\ Leads(Writes(<<TupleHeader(n)>>) \o Pushes(d.kids), 1, 0)
      /\ Leads(Writes(<<ListHeader(n)>>) \o Pushes(d.kids), 1, 0)
  BY <1>4, <1>6, LeadsOn
<1>8. CASE d.type \in Simple
  BY <1>8, SimpleLeads
<1>9. CASE d.type = "tuple" \/ d.type = "list"
  BY <1>7, <1>9, JobsOfCompound DEF n
<1>10. CASE d.type = "dict"
  BY <1>1, <1>10, JobsOfCompound, LeadsDict
<1> QED
  BY <1>8, <1>9, <1>10, TypeOfEncodable

(***************************************************************************)
(* Before the magic byte is written, nothing is; afterwards it comes first *)
(* and nothing that is still to be written begins like it.                 *)
(***************************************************************************)

EncoderOK ==
  /\ encoder \in [mode : {"none", "stream", "callback", "buffer"}, wrote_magic : BOOLEAN,
                  total : Nat, buffer_length : Nat, buffer_index : Nat]
  /\ encoder.buffer_index <= encoder.buffer_length
  /\ result \in {BERT_SUCCESS, BERT_ERRNO_INVALID, BERT_ERRNO_WRITE, BERT_ERRNO_SHORT_WRITE}

OnlyPush(d) == Pushes(<<d>>)

MagicAndPush(d) == Writes(<<Magic>>) \o Pushes(<<d>>)

Fresh ==
  /\ ~encoder.wrote_magic /\ sink = << >>
  /\ \/ todo = << >>
     \/ \E d \in Terms : todo \in {OnlyPush(d), MagicAndPush(d)}

Going ==
  /\ encoder.wrote_magic /\ todo \in Seq(JobSet)
  /\ sink \in Seq(Seq(Byte)) /\ sink # << >> /\ sink[1] = Magic
  /\ \A k \in 2 .. Len(sink) : sink[k] \in Tokens

MagicInv == EncoderOK /\ (Fresh \/ Going)

\* The magic byte is no token of a term.
LEMMA MagicFacts ==
  Magic \in Seq(Byte) /\ Len(Magic) = 1 /\ Magic[1] = BERT_MAGIC /\ Magic \notin Tokens
BY DEF Magic, Tokens, Byte, BERT_MAGIC

\* bert_encoder_write lets at least one byte arrive and no more than the token has; a buffer is not
\* written past its end.
LEMMA ArrivalsInside ==
  ASSUME EncoderOK, NEW token, Len(token) \in Nat \ {0}
  PROVE  /\ Arrivals(token) \subseteq 1 .. Len(token)
         /\ ~ShortWrites => Arrivals(token) \subseteq {Len(token)}
         /\ encoder.mode = "buffer" /\ Arrivals(token) # {} =>
              encoder.buffer_index + Len(token) <= encoder.buffer_length
BY DEF EncoderOK, Arrivals, HasRoom

\* What arrives of a token begins with its first byte, so it is never taken for the magic byte.
LEMMA ArrivedToken ==
  ASSUME NEW t \in Tokens, NEW n \in 1 .. Len(t)
  PROVE  SubSeq(t, 1, n) \in Tokens
<1>1. t \in Seq(Byte) /\ Len(t) \in Nat
  BY LenProperties DEF Tokens
<1> DEFINE s == SubSeq(t, 1, n)
<1>2. s \in Seq(Byte) /\ Len(s) = n /\ s[1] = t[1]
  BY <1>1
<1> HIDE DEF s
<1>3. s \in Tokens
  BY <1>2 DEF Tokens
<1> QED
  BY <1>3 DEF s

\* The jobs while the magic byte is being written.
LEMMA TwoJobs ==
  ASSUME NEW w, NEW p
  PROVE  /\ <<p>> # << >> /\ Head(<<p>>) = p /\ Tail(<<p>>) = << >>
         /\ <<w>> \o <<p>> # << >> /\ Head(<<w>> \o <<p>>) = w /\ Tail(<<w>> \o <<p>>) = <<p>>
<1>1. <<p>> # << >> /\ Head(<<p>>) = p /\ Tail(<<p>>) = << >>
  OBVIOUS
<1>2. <<w>> \o <<p>> = <<w, p>>
  <2> DEFINE s == <<w>> \o <<p>>
             S == {w, p}
  <2>1. w \in S /\ p \in S
    OBVIOUS
  <2> HIDE DEF S
  <2>2. s \in Seq(S) /\ Len(s) = 2 /\ s[1] = w /\ s[2] = p
    BY <2>1
  <2>3. /\ <<w, p>> \in Seq(S) /\ Len(<<w, p>>) = 2
        /\ <<w, p>>[1] = w /\ <<w, p>>[2] = p
    BY <2>1
  <2> HIDE DEF s
  <2>4. s = <<w, p>>
    BY <2>2, <2>3
  <2> QED
    BY <2>4 DEF s
<1>3. <<w, p>> # << >> /\ Head(<<w, p>>) = w /\ Tail(<<w, p>>) = <<p>>
  OBVIOUS
<1> QED
  BY <1>1, <1>2, <1>3

\* The two jobs of a push that writes the magic byte
LEMMA MagicJobs ==
  ASSUME NEW d
  PROVE  /\ OnlyPush(d) # << >> /\ Tail(OnlyPush(d)) = << >>
         /\ Head(OnlyPush(d)).op = "push" /\ Head(OnlyPush(d)).data = d
         /\ MagicAndPush(d) # << >> /\ Tail(MagicAndPush(d)) = OnlyPush(d)
         /\ Head(MagicAndPush(d)).op = "write" /\ Head(MagicAndPush(d)).token = Magic
<1> DEFINE p == [op |-> "push", data |-> d]
           w == [op |-> "write", token |-> Magic]
<1>1. Pushes(<<d>>) = <<p>> /\ Writes(<<Magic>>) = <<w>>
  BY DEF Pushes, Writes
<1>2. p.op = "push" /\ p.data = d /\ w.op = "write" /\ w.token = Magic
  OBVIOUS
<1> HIDE DEF p, w
<1>3. OnlyPush(d) = <<p>> /\ MagicAndPush(d) = <<w>> \o <<p>>
  BY <1>1 DEF OnlyPush, MagicAndPush
<1>4. /\ OnlyPush(d) # << >> /\ Head(OnlyPush(d)) = p /\ Tail(OnlyPush(d)) = << >>
      /\ MagicAndPush(d) # << >> /\ Head(MagicAndPush(d)) = w
      /\ Tail(MagicAndPush(d)) = OnlyPush(d)
  BY <1>3, TwoJobs, Zenon
<1> QED
  BY <1>2, <1>4, Zenon

\* A job is a write or a push.
LEMMA JobIs ==
  ASSUME NEW job \in JobSet
  PROVE  /\ job.op \in {"write", "push"}
         /\ job.op = "write" => /\ job.token \in WholeTokens
                                /\ job = [op |-> "write", token |-> job.token]
         /\ job.op = "push"  => job.data \in Terms
<1>1. CASE job \in WriteJobs
  BY <1>1 DEF WriteJobs
<1>2. CASE job \in PushJobs
  BY <1>2 DEF PushJobs
<1> QED
  BY <1>1, <1>2 DEF JobSet

\* The first of the jobs, and the others.
LEMMA HeadOfJobs ==
  ASSUME NEW jobs \in Seq(JobSet), jobs # << >>
  PROVE  Head(jobs) \in JobSet /\ Tail(jobs) \in Seq(JobSet)
BY HeadTailProperties

\* A token is some bytes.
LEMMA TokenLength ==
  ASSUME NEW t \in Tokens
  PROVE  t \in Seq(Byte) /\ Len(t) \in Nat \ {0} /\ t # Magic
BY LenProperties, MagicFacts DEF Tokens

\* A new encoder has written nothing.
LEMMA MagicInit == Init => MagicInv
BY DEF Init, MagicInv, EncoderOK, Fresh, BERT_SUCCESS

\* What a write makes of the encoder
LEMMA WrittenEncoder ==
  ASSUME EncoderOK, NEW token, Len(token) \in Nat \ {0}, Arrivals(token) # {}
  PROVE  /\ Written(token) \in [mode : {"none", "stream", "callback", "buffer"},
                                wrote_magic : BOOLEAN, total : Nat,
                                buffer_length : Nat, buffer_index : Nat]
         /\ Written(token).buffer_index <= Written(token).buffer_length
         /\ Written(token).wrote_magic = (encoder.wrote_magic \/ token = Magic)
         /\ Written(token).total = encoder.total + Len(token)
<1>1. /\ encoder.mode = "buffer" => encoder.buffer_index + Len(token) <= encoder.buffer_length
  BY ArrivalsInside
<1> DEFINE total == encoder.total + Len(token)
           index == IF encoder.mode = "buffer" THEN encoder.buffer_index + Len(token)
                    ELSE encoder.buffer_index
           wrote == encoder.wrote_magic \/ token = Magic
<1>2. Written(token) = [encoder EXCEPT !.total = total, !.buffer_index = index,
                                       !.wrote_magic = wrote]
  BY DEF Written
<1>3. total \in Nat /\ index \in Nat /\ wrote \in BOOLEAN /\ index <= encoder.buffer_length
  BY <1>1 DEF EncoderOK
<1> HIDE DEF total, index, wrote
<1>4. Written(token) \in [mode : {"none", "stream", "callback", "buffer"},
                          wrote_magic : BOOLEAN, total : Nat,
                          buffer_length : Nat, buffer_index : Nat]
  BY <1>2, <1>3 DEF EncoderOK
<1>5. /\ Written(token).buffer_index = index /\ Written(token).wrote_magic = wrote
      /\ Written(token).total = total /\ Written(token).buffer_length = encoder.buffer_length
  BY <1>2, <1>3 DEF EncoderOK
<1> QED
  BY <1>3, <1>4, <1>5 DEF total, wrote

\* Every step keeps it: PushMagic puts the magic byte in front once, WriteSucceeds turns Fresh into
\* Going, and an error leaves either as it was.
LEMMA MagicStep ==
  ASSUME MagicInv, [Next]_vars
  PROVE  MagicInv'
<1> USE DEF MagicInv
<1>1. ASSUME NEW mode \in {"stream", "callback", "buffer"}, NEW n \in Nat, Attach(mode, n)
      PROVE  MagicInv'
  <2>1. EncoderOK'
    <3>1. /\ encoder'.mode = mode /\ encoder'.buffer_length = n /\ encoder'.buffer_index = 0
          /\ encoder'.total = encoder.total /\ encoder'.wrote_magic = encoder.wrote_magic
          /\ encoder' = [mode |-> encoder'.mode, wrote_magic |-> encoder'.wrote_magic,
                         total |-> encoder'.total, buffer_length |-> encoder'.buffer_length,
                         buffer_index |-> encoder'.buffer_index]
      BY <1>1 DEF Attach, EncoderOK
    <3>2. result' = result /\ 0 \in Nat /\ 0 <= n
      BY <1>1 DEF Attach
    <3> QED
      BY <3>1, <3>2 DEF EncoderOK
  <2>2. encoder'.wrote_magic = encoder.wrote_magic
    BY <1>1 DEF Attach, EncoderOK
  <2> QED
    BY <1>1, <2>1, <2>2 DEF Attach, Fresh, Going
<1>2. ASSUME NEW d \in Terms, bert_encoder_push(d)
      PROVE  MagicInv'
  <2>1. todo' \in Seq(JobSet)
    <3>1. <<d>> \in Seq(Terms)
      OBVIOUS
    <3> QED
      BY <1>2, <3>1, LeadsPushes DEF bert_encoder_push, Leads
  <2> QED
    BY <1>2, <2>1 DEF bert_encoder_push, EncoderOK, Fresh, Going, OnlyPush
<1>3. CASE PushMagic
  <2>1. Fresh /\ todo # << >>
    BY <1>3 DEF PushMagic, Going, Doing, Running
  <2>2. PICK d \in Terms : todo \in {OnlyPush(d), MagicAndPush(d)}
    BY <2>1 DEF Fresh
  <2>3. todo # MagicAndPush(d)
    BY <1>3, MagicJobs DEF PushMagic, Doing
  <2>4. todo' = MagicAndPush(d)
    BY <1>3, <2>2, <2>3 DEF PushMagic, OnlyPush, MagicAndPush
  <2> QED
    BY <1>3, <2>1, <2>4 DEF PushMagic, EncoderOK, Fresh
<1>4. CASE PushTerm
  <2>1. Going /\ todo # << >> /\ Head(todo).op = "push" /\ Encodable(Head(todo).data)
    BY <1>4 DEF PushTerm, Fresh, Doing, Running
  <2>2. Head(todo) \in JobSet /\ Tail(todo) \in Seq(JobSet) /\ Head(todo).data \in Terms
    BY <2>1, HeadOfJobs, JobIs DEF Going
  <2>3. todo' \in Seq(JobSet)
    <3>1. Jobs(Head(todo).data) \in Seq(JobSet)
      BY <2>1, <2>2, JobsAreJobs
    <3> QED
      BY <1>4, <2>2, <3>1, ConcatProperties DEF PushTerm
  <2> QED
    BY <1>4, <2>1, <2>3 DEF PushTerm, EncoderOK, Going
<1>5. CASE PushInvalid
  BY <1>5 DEF PushInvalid, Fail, EncoderOK, Fresh, Going
<1>6. CASE WriteFails
  <2>1. result' \in {BERT_ERRNO_INVALID, BERT_ERRNO_WRITE, BERT_ERRNO_SHORT_WRITE}
    BY <1>6 DEF WriteFails, Refusals, Fail, EncoderOK
  <2> QED
    BY <1>6, <2>1 DEF WriteFails, Fail, EncoderOK, Fresh, Going
<1>7. CASE WriteSucceeds
  <2> DEFINE token == Head(todo).token
  <2>1. PICK n \in Arrivals(token) : /\ encoder' = Written(token)
                                     /\ sink' = Append(sink, SubSeq(token, 1, n))
    BY <1>7 DEF WriteSucceeds
  <2>2. todo # << >> /\ Head(todo).op = "write" /\ todo' = Tail(todo)
    BY <1>7 DEF WriteSucceeds, Doing, Running, GoOn
  <2>3. result' \in {BERT_SUCCESS, result}
    BY <1>7 DEF WriteSucceeds, GoOn
  <2> HIDE DEF token
  <2>4. ASSUME Len(token) \in Nat \ {0}
        PROVE  /\ EncoderOK' /\ n \in 1 .. Len(token)
               /\ encoder'.wrote_magic = (encoder.wrote_magic \/ token = Magic)
    BY <2>1, <2>3, <2>4, ArrivalsInside, WrittenEncoder DEF EncoderOK
  <2>5. CASE Fresh
    <3>1. PICK d \in Terms : todo = MagicAndPush(d)
      BY <2>2, <2>5, MagicJobs DEF Fresh
    <3>2. token = Magic /\ todo' = OnlyPush(d)
      BY <2>2, <3>1, MagicJobs DEF token
    <3>3. EncoderOK' /\ n = 1 /\ encoder'.wrote_magic
      <4>1. Len(token) \in Nat \ {0} /\ Len(token) = 1
        BY <3>2, MagicFacts
      <4>2. n \in 1 .. Len(token) /\ EncoderOK'
        BY <2>4, <4>1
      <4>3. encoder'.wrote_magic
        BY <2>4, <3>2, <4>1
      <4> QED
        BY <4>1, <4>2, <4>3
    <3>4. sink' = <<Magic>>
      <4>1. SubSeq(Magic, 1, 1) = Magic
        BY MagicFacts, SubSeqFull
      <4> QED
        BY <2>1, <2>5, <3>2, <3>3, <4>1 DEF Fresh
    <3>5. /\ sink' \in Seq(Seq(Byte)) /\ sink' # << >> /\ sink'[1] = Magic /\ Len(sink') = 1
      <4> DEFINE m == Magic
      <4>1. m \in Seq(Byte) /\ sink' = <<m>>
        BY <3>4, MagicFacts
      <4> HIDE DEF m
      <4>2. sink' \in Seq(Seq(Byte)) /\ sink' # << >> /\ sink'[1] = m /\ Len(sink') = 1
        BY <4>1
      <4> QED
        BY <4>2 DEF m
    <3>6. todo' \in Seq(JobSet)
      <4>1. <<d>> \in Seq(Terms)
        OBVIOUS
      <4> QED
        BY <3>2, <4>1, LeadsPushes DEF Leads, OnlyPush
    <3> QED
      BY <3>3, <3>5, <3>6 DEF Going
  <2>6. CASE Going
    <3>1. token \in Tokens /\ Tail(todo) \in Seq(JobSet)
      BY <2>2, <2>6, HeadOfJobs, JobIs DEF Going, token, WholeTokens
    <3>2. EncoderOK' /\ n \in 1 .. Len(token) /\ encoder'.wrote_magic
      BY <2>4, <2>6, <3>1, TokenLength DEF Going, EncoderOK
    <3> DEFINE arrived == SubSeq(token, 1, n)
    <3>3. arrived \in Tokens /\ arrived \in Seq(Byte)
      BY <3>1, <3>2, ArrivedToken, TokenLength
    <3> HIDE DEF arrived
    <3>4. /\ sink' \in Seq(Seq(Byte)) /\ sink' # << >> /\ sink'[1] = sink[1]
          /\ Len(sink') = Len(sink) + 1 /\ sink'[Len(sink) + 1] = arrived
          /\ \A k \in 1 .. Len(sink) : sink'[k] = sink[k]
      <4>1. sink \in Seq(Seq(Byte)) /\ sink # << >> /\ sink' = Append(sink, arrived)
        BY <2>1, <2>6 DEF Going, arrived
      <4>2. Len(sink) \in Nat \ {0}
        BY <4>1, EmptySeq, LenProperties
      <4>3. /\ sink' \in Seq(Seq(Byte)) /\ sink' # << >>
            /\ Len(sink') = Len(sink) + 1 /\ sink'[Len(sink) + 1] = arrived
            /\ \A k \in 1 .. Len(sink) : sink'[k] = sink[k]
        <5>1. /\ Append(sink, arrived) \in Seq(Seq(Byte)) /\ Append(sink, arrived) # << >>
              /\ Len(Append(sink, arrived)) = Len(sink) + 1
              /\ \A k \in 1 .. Len(sink) : Append(sink, arrived)[k] = sink[k]
              /\ Append(sink, arrived)[Len(sink) + 1] = arrived
          <6> DEFINE S == Seq(Byte)
          <6>1. sink \in Seq(S) /\ arrived \in S
            BY <3>3, <4>1
          <6> HIDE DEF S
          <6>2. /\ Append(sink, arrived) \in Seq(S) /\ Append(sink, arrived) # << >>
                /\ Len(Append(sink, arrived)) = Len(sink) + 1
                /\ \A k \in 1 .. Len(sink) : Append(sink, arrived)[k] = sink[k]
                /\ Append(sink, arrived)[Len(sink) + 1] = arrived
            BY <6>1, AppendProperties
          <6> QED
            BY <6>2 DEF S
        <5> QED
          BY <4>1, <5>1, Zenon
      <4> QED
        BY <4>2, <4>3
    <3>5. \A k \in 2 .. Len(sink') : sink'[k] \in Tokens
      <4>1. Len(sink) \in Nat
        BY <2>6, LenProperties DEF Going
      <4>2. \A k \in 2 .. Len(sink) + 1 : k = Len(sink) + 1 \/ k \in 2 .. Len(sink)
        BY <4>1
      <4>3. \A k \in 2 .. Len(sink) : k \in 1 .. Len(sink)
        BY <4>1
      <4> QED
        BY <2>6, <3>3, <3>4, <4>2, <4>3 DEF Going
    <3> QED
      BY <2>2, <2>6, <3>1, <3>2, <3>4, <3>5 DEF Going
  <2> QED
    BY <2>5, <2>6
<1>8. CASE UNCHANGED vars
  BY <1>8 DEF vars, EncoderOK, Fresh, Going
<1>9. \A n \in BufferLengths : n \in Nat
  BY EncodeBoundsAssumption
<1> QED
  BY <1>1, <1>2, <1>3, <1>4, <1>5, <1>6, <1>7, <1>8, <1>9
     DEF Next, bert_encoder_stream, bert_encoder_callback, bert_encoder_buffer

\* The inductive invariant of the magic flag holds in every state: bert_encoder_push writes the
\* magic byte when nothing was written before, and never else.
THEOREM MagicInvariant == Spec => []MagicInv
<1> QED
  BY MagicInit, MagicStep, PTL DEF Spec

\* The state is type correct.
THEOREM TypeCorrect == Spec => []TypeOK
<1>1. MagicInv => TypeOK
  <2> SUFFICES ASSUME MagicInv PROVE TypeOK
    OBVIOUS
  <2>1. \A k \in DOMAIN todo : todo[k].op \in {"write", "push"}
    <3>1. CASE todo \in Seq(JobSet)
      <4>1. \A k \in DOMAIN todo : todo[k] \in JobSet
        BY <3>1
      <4> QED
        BY <4>1, JobIs
    <3>2. CASE Fresh
      <4>1. CASE todo = << >>
        BY <4>1
      <4>2. ASSUME NEW d \in Terms, todo \in {OnlyPush(d), MagicAndPush(d)}
            PROVE  \A k \in DOMAIN todo : todo[k].op \in {"write", "push"}
        <5> DEFINE p == [op |-> "push", data |-> d]
                   w == [op |-> "write", token |-> Magic]
                   S == {p, w}
        <5>1. Pushes(<<d>>) = <<p>> /\ Writes(<<Magic>>) = <<w>>
          BY DEF Pushes, Writes
        <5>2. \A j \in S : j.op \in {"write", "push"}
          OBVIOUS
        <5>3. p \in S /\ w \in S
          OBVIOUS
        <5> HIDE DEF p, w, S
        <5>4. <<p>> \in Seq(S) /\ <<w>> \in Seq(S)
          BY <5>3
        <5>5. <<w>> \o <<p>> \in Seq(S)
          BY <5>4, ConcatProperties
        <5>6. todo \in Seq(S)
          BY <4>2, <5>1, <5>4, <5>5 DEF OnlyPush, MagicAndPush
        <5>7. \A k \in DOMAIN todo : todo[k] \in S
          BY <5>6
        <5> QED
          BY <5>2, <5>7
      <4> QED
        BY <3>2, <4>1, <4>2 DEF Fresh
    <3> QED
      BY <3>1, <3>2 DEF MagicInv, Going
  <2>2. \A k \in DOMAIN sink : sink[k] \in Seq(Byte)
    BY DEF MagicInv, Fresh, Going
  <2> QED
    BY <2>1, <2>2 DEF MagicInv, EncoderOK, TypeOK
<1> QED
  BY <1>1, MagicInvariant, PTL

\* The magic byte is the first of the output and never comes again.
THEOREM MagicComesOnce == Spec => []MagicOnce
<1>1. MagicInv => MagicOnce
  <2> SUFFICES ASSUME MagicInv, NEW k \in DOMAIN sink
               PROVE  sink[k] = Magic <=> k = 1
    BY DEF MagicOnce
  <2>1. CASE Fresh
    BY <2>1 DEF Fresh
  <2>2. CASE Going
    <3>1. k \in 1 .. Len(sink)
      BY <2>2, LenProperties DEF Going
    <3>2. k = 1 \/ k \in 2 .. Len(sink)
      BY <3>1
    <3> QED
      BY <2>2, <3>2, MagicFacts DEF Going
  <2> QED
    BY <2>1, <2>2 DEF MagicInv
<1> QED
  BY <1>1, MagicInvariant, PTL

\* What is in the sink is what the tokens were.
LEMMA SinkTyped ==
  ASSUME MagicInv
  PROVE  sink \in Seq(Seq(Byte))
<1>1. CASE Fresh
  <2> DEFINE S == Seq(Byte)
  <2> HIDE DEF S
  <2>1. << >> \in Seq(S)
    OBVIOUS
  <2> QED
    BY <1>1, <2>1 DEF Fresh, S
<1>2. CASE Going
  BY <1>2 DEF Going
<1> QED
  BY <1>1, <1>2 DEF MagicInv

\* Where write() takes all it is given, a write appends the whole token to what was written and adds
\* its length to the total.
LEMMA WholeArrival ==
  ASSUME MagicInv, ~ShortWrites, WriteSucceeds
  PROVE  /\ Head(todo).token \in Seq(Byte)
         /\ sink' = Append(sink, Head(todo).token)
         /\ encoder' = Written(Head(todo).token)
         /\ encoder'.total = encoder.total + Len(Head(todo).token)
         /\ Going => Head(todo) \in JobSet /\ Head(todo).token \in WholeTokens
         /\ Fresh => /\ Head(todo).token = Magic
                     /\ \E d \in Terms : todo' = OnlyPush(d)
<1> DEFINE token == Head(todo).token
<1>1. PICK n \in Arrivals(token) : /\ encoder' = Written(token)
                                   /\ sink' = Append(sink, SubSeq(token, 1, n))
  BY DEF WriteSucceeds
<1>2. todo # << >> /\ Head(todo).op = "write" /\ todo' = Tail(todo)
  BY DEF WriteSucceeds, Doing, Running, GoOn
<1>3. ASSUME Fresh
      PROVE  token = Magic /\ \E d \in Terms : todo' = OnlyPush(d)
  <2>1. PICK d \in Terms : todo = MagicAndPush(d)
    BY <1>2, <1>3, MagicJobs DEF Fresh
  <2> QED
    BY <1>2, <2>1, MagicJobs
<1>4. ASSUME Going
      PROVE  Head(todo) \in JobSet /\ token \in WholeTokens
  BY <1>2, <1>4, HeadOfJobs, JobIs DEF Going
<1>5. token \in Seq(Byte) /\ Len(token) \in Nat \ {0}
  <2>1. token = Magic \/ token \in Tokens
    BY <1>3, <1>4 DEF MagicInv, WholeTokens
  <2> HIDE DEF token
  <2> QED
    <3>1. CASE token = Magic
      BY <3>1, MagicFacts
    <3>2. CASE token \in Tokens
      BY <3>2, TokenLength
    <3> QED
      BY <2>1, <3>1, <3>2
<1> HIDE DEF token
<1>6. SubSeq(token, 1, n) = token
  <2>1. n = Len(token)
    BY <1>5, ArrivalsInside DEF MagicInv
  <2> QED
    BY <1>5, <2>1, SubSeqFull
<1>7. encoder'.total = encoder.total + Len(token)
  BY <1>1, <1>5, WrittenEncoder DEF MagicInv
<1> QED
  BY <1>1, <1>3, <1>4, <1>5, <1>6, <1>7 DEF token

\* Without short writes, bert_encoder_total is the number of bytes in the sink.
THEOREM TotalCounts == ~ShortWrites => (Spec => []TotalIsWritten)
<1> SUFFICES ASSUME ~ShortWrites PROVE Spec => []TotalIsWritten
  OBVIOUS
<1>1. Init => TotalIsWritten
  BY FlattenEmpty DEF Init, TotalIsWritten, Bytes
<1>2. ASSUME MagicInv, TotalIsWritten, [Next]_vars PROVE TotalIsWritten'
  <2>1. CASE WriteSucceeds
    <3> DEFINE token == Head(todo).token
    <3>1. /\ token \in Seq(Byte) /\ sink' = Append(sink, token)
          /\ encoder'.total = encoder.total + Len(token)
      BY <1>2, <2>1, WholeArrival
    <3> HIDE DEF token
    <3>2. /\ FlattenSeq(sink) \in Seq(Byte)
          /\ FlattenSeq(sink') = FlattenSeq(sink) \o token
      BY <1>2, <3>1, SinkTyped, FlattenAppend
    <3>3. Len(FlattenSeq(sink')) = Len(FlattenSeq(sink)) + Len(token)
      BY <3>1, <3>2, ConcatProperties
    <3> QED
      BY <1>2, <3>1, <3>3 DEF TotalIsWritten, Bytes
  <2>2. CASE ~WriteSucceeds
    <3>1. sink' = sink /\ encoder'.total = encoder.total
      BY <1>2, <2>2 DEF Next, vars, MagicInv, EncoderOK, bert_encoder_stream,
         bert_encoder_callback, bert_encoder_buffer, Attach, bert_encoder_push, PushMagic,
         PushTerm, PushInvalid, WriteFails
    <3> QED
      BY <1>2, <3>1 DEF TotalIsWritten
  <2> QED
    BY <2>1, <2>2
<1> QED
  BY <1>1, <1>2, MagicInvariant, PTL DEF Spec

(***************************************************************************)
(* How many terms are missing after some tokens                            *)
(***************************************************************************)

ArityStep(tokens, n) == [i \in 1 .. n |-> [v \in Int |-> v - 1 + Arity(tokens[i])]]

\* Missing counts down by one with every token and up by what the token announces.
LEMMA MissingValue ==
  ASSUME NEW n \in Nat, NEW tokens \in [1 .. n -> WholeTokens]
  PROVE  \E f \in [0 .. n -> Int] : /\ Follows(f, n, 1, ArityStep(tokens, n))
                                    /\ Missing(tokens) = f[n]
<1> DEFINE step == ArityStep(tokens, n)
           iter == CHOOSE it : it = [s \in SUBSET (1 .. n) |->
                                       IF s = {} THEN 1
                                       ELSE it[s \ {Max(s)}] - 1 + Arity(tokens[Max(s)])]
<1>1. DOMAIN tokens = 1 .. n /\ \A i \in 1 .. n : Arity(tokens[i]) \in Nat
  BY DEF WholeTokens
<1>2. Missing(tokens) = iter[1 .. n]
  BY <1>1 DEF Missing, FoldLeft, MapThenFoldSet
<1>3. step \in [1 .. n -> [Int -> Int]]
  BY <1>1 DEF ArityStep
<1>4. PICK it \in [SUBSET (1 .. n) -> Int] : FoldsLeft(it, n, 1, step)
  <2>1. 1 \in Int
    OBVIOUS
  <2> QED
    BY <1>3, <2>1, FoldLeftExists DEF HasFold
<1>5. it = [s \in SUBSET (1 .. n) |->
              IF s = {} THEN 1 ELSE it[s \ {Max(s)}] - 1 + Arity(tokens[Max(s)])]
  <2>1. ASSUME NEW s \in SUBSET (1 .. n), s # {}
        PROVE  it[s] = it[s \ {Max(s)}] - 1 + Arity(tokens[Max(s)])
    <3>1. Max(s) \in 1 .. n /\ s \ {Max(s)} \in SUBSET (1 .. n)
      BY <2>1, MaxOfPositions
    <3>2. it[s \ {Max(s)}] \in Int
      BY <3>1
    <3>3. it[s] = step[Max(s)][it[s \ {Max(s)}]]
      BY <1>4, <2>1 DEF FoldsLeft
    <3> QED
      BY <3>1, <3>2, <3>3 DEF ArityStep
  <2>2. it[{}] = 1
    BY <1>4 DEF FoldsLeft
  <2> QED
    BY <2>1, <2>2
<1>6. iter = [s \in SUBSET (1 .. n) |->
                IF s = {} THEN 1 ELSE iter[s \ {Max(s)}] - 1 + Arity(tokens[Max(s)])]
  BY <1>5
<1> HIDE DEF iter
<1>7. iter[{}] = 1
  BY <1>6
<1>8. ASSUME NEW i \in 1 .. n PROVE iter[1 .. i] = iter[1 .. (i - 1)] - 1 + Arity(tokens[i])
  <2>1. /\ 1 .. i \in SUBSET (1 .. n) /\ 1 .. i # {}
        /\ Max(1 .. i) = i /\ (1 .. i) \ {i} = 1 .. (i - 1)
    BY MaxOfInterval
  <2>2. iter[1 .. i] = IF 1 .. i = {} THEN 1
                       ELSE iter[(1 .. i) \ {Max(1 .. i)}] - 1 + Arity(tokens[Max(1 .. i)])
    BY <1>6, <2>1, Zenon
  <2> QED
    BY <2>1, <2>2, Zenon
<1> DEFINE f == [i \in 0 .. n |-> iter[1 .. i]]
<1>9. f[0] = 1
  <2>1. f[0] = iter[1 .. 0] /\ 1 .. 0 = {}
    OBVIOUS
  <2> QED
    BY <1>7, <2>1
<1>10. ASSUME NEW i \in 1 .. n PROVE f[i] = f[i - 1] - 1 + Arity(tokens[i])
  BY <1>8
<1>11. f[n] = Missing(tokens) /\ f = [i \in 0 .. n |-> f[i]]
  BY <1>2
<1> HIDE DEF f
<1> DEFINE Typed == {k \in Nat : k <= n => f[k] \in Int}
<1>12. 0 \in Typed
  BY <1>9
<1>13. ASSUME NEW k \in Nat, k \in Typed PROVE k + 1 \in Typed
  <2> SUFFICES ASSUME k + 1 <= n PROVE f[k + 1] \in Int
    OBVIOUS
  <2>1. f[k] \in Int /\ k + 1 \in 1 .. n /\ (k + 1) - 1 = k
    BY <1>13
  <2>2. f[k + 1] = f[k] - 1 + Arity(tokens[k + 1])
    BY <1>10, <2>1
  <2> QED
    BY <1>1, <2>1, <2>2
<1> HIDE DEF Typed
<1>14. \A k \in Nat : k \in Typed
  BY <1>12, <1>13, Induction
<1>15. f \in [0 .. n -> Int]
  BY <1>11, <1>14 DEF Typed
<1>16. Follows(f, n, 1, step)
  <2>1. ASSUME NEW i \in 1 .. n PROVE f[i] = step[i][f[i - 1]]
    <3>1. f[i - 1] \in Int
      BY <1>15
    <3> QED
      BY <1>10, <3>1 DEF ArityStep
  <2> QED
    BY <1>9, <2>1 DEF Follows
<1> QED
  BY <1>11, <1>15, <1>16

\* Before the first token one term is missing.
LEMMA MissingNothing == Missing(<< >>) = 1
<1>1. << >> \in [1 .. 0 -> WholeTokens] /\ 0 \in Nat
  OBVIOUS
<1>2. PICK f \in [0 .. 0 -> Int] : Follows(f, 0, 1, ArityStep(<< >>, 0)) /\ Missing(<< >>) = f[0]
  BY <1>1, MissingValue
<1> QED
  BY <1>2 DEF Follows

\* A token is one term less missing, and as many more as it announces.
LEMMA MissingAppend ==
  ASSUME NEW tokens \in Seq(WholeTokens), NEW t \in WholeTokens
  PROVE  /\ Missing(tokens) \in Int
         /\ Missing(Append(tokens, t)) = Missing(tokens) - 1 + Arity(t)
<1>1. PICK n \in Nat : n = Len(tokens) /\ tokens \in [1 .. n -> WholeTokens]
  BY LenProperties
<1> DEFINE more == Append(tokens, t)
<1>2. /\ more \in [1 .. n + 1 -> WholeTokens] /\ n + 1 \in Nat
      /\ \A i \in 1 .. n : more[i] = tokens[i]
      /\ more[n + 1] = t
  <2>1. /\ more \in Seq(WholeTokens) /\ Len(more) = n + 1
        /\ \A i \in 1 .. n : more[i] = tokens[i]
        /\ more[n + 1] = t
    BY <1>1, AppendProperties
  <2> QED
    BY <2>1, LenProperties
<1> HIDE DEF more
<1>3. PICK f \in [0 .. n -> Int] : Follows(f, n, 1, ArityStep(tokens, n)) /\ Missing(tokens) = f[n]
  BY <1>1, MissingValue
<1>4. PICK g \in [0 .. n + 1 -> Int] :
        Follows(g, n + 1, 1, ArityStep(more, n + 1)) /\ Missing(more) = g[n + 1]
  BY <1>2, MissingValue
<1>5. Follows(g, n, 1, ArityStep(tokens, n))
  <2>1. ASSUME NEW i \in 1 .. n PROVE g[i] = ArityStep(tokens, n)[i][g[i - 1]]
    <3>1. i \in 1 .. n + 1 /\ g[i - 1] \in Int
      BY <1>4
    <3>2. g[i] = ArityStep(more, n + 1)[i][g[i - 1]]
      BY <1>4, <3>1 DEF Follows
    <3> QED
      BY <1>2, <3>1, <3>2 DEF ArityStep
  <2> QED
    BY <1>4, <2>1 DEF Follows
<1>6. f[n] = g[n]
  BY <1>3, <1>5, RecursionUnique
<1>7. g[n + 1] = g[n] - 1 + Arity(t)
  <2>1. n + 1 \in 1 .. n + 1 /\ (n + 1) - 1 = n /\ g[n] \in Int
    BY <1>4
  <2>2. g[n + 1] = ArityStep(more, n + 1)[n + 1][g[n]]
    BY <1>4, <2>1 DEF Follows
  <2> QED
    BY <1>2, <2>1, <2>2 DEF ArityStep
<1> QED
  BY <1>3, <1>4, <1>6, <1>7 DEF more

\* A term is still missing after each prefix.
Open(tokens) == \A n \in 0 .. Len(tokens) : Missing(SubSeq(tokens, 1, n)) > 0

\* Nothing written is an open term.
LEMMA OpenNothing == Open(<< >>)
<1>1. Len(<< >>) = 0
  OBVIOUS
<1>2. \A n \in 0 .. 0 : SubSeq(<< >>, 1, n) = << >>
  OBVIOUS
<1>3. \A n \in 0 .. 0 : Missing(SubSeq(<< >>, 1, n)) > 0
  <2>1. 1 > 0
    OBVIOUS
  <2> QED
    BY <1>2, <2>1, MissingNothing, Zenon
<1> QED
  BY <1>1, <1>3 DEF Open

\* An open term and a token more is a whole term if nothing is missing then, else an open one.
LEMMA OpenAppend ==
  ASSUME NEW tokens \in Seq(WholeTokens), Open(tokens), NEW t \in WholeTokens
  PROVE  /\ Missing(Append(tokens, t)) = 0 => IsOneTerm(Append(tokens, t))
         /\ Missing(Append(tokens, t)) > 0 => Open(Append(tokens, t))
<1> DEFINE more == Append(tokens, t)
<1>1. PICK n \in Nat : n = Len(tokens)
  BY LenProperties
<1>2. /\ more \in Seq(WholeTokens) /\ Len(more) = n + 1
      /\ \A i \in 1 .. n : more[i] = tokens[i]
  BY <1>1, AppendProperties
<1>3. SubSeq(more, 1, n + 1) = more
  BY <1>2, SubSeqFull
<1> HIDE DEF more
<1>4. ASSUME NEW k \in 0 .. n PROVE SubSeq(more, 1, k) = SubSeq(tokens, 1, k)
  BY <1>1, <1>2
<1>5. \A k \in 0 .. n : Missing(SubSeq(more, 1, k)) > 0
  BY <1>1, <1>4 DEF Open
<1>6. Missing(more) = 0 => IsOneTerm(more)
  <2>1. Len(more) - 1 = n
    BY <1>2
  <2> QED
    BY <1>5, <2>1 DEF IsOneTerm
<1>7. Missing(more) > 0 => Open(more)
  <2>1. \A k \in 0 .. n + 1 : k = n + 1 \/ k \in 0 .. n
    OBVIOUS
  <2> QED
    BY <1>2, <1>3, <1>5, <2>1 DEF Open
<1> QED
  BY <1>6, <1>7 DEF more

\* ... so that they are not a complete term.
LEMMA OpenIsNotOne ==
  ASSUME NEW tokens \in Seq(WholeTokens), Open(tokens)
  PROVE  Missing(tokens) > 0 /\ ~IsOneTerm(tokens)
<1>1. SubSeq(tokens, 1, Len(tokens)) = tokens /\ Len(tokens) \in 0 .. Len(tokens)
  BY SubSeqFull, LenProperties
<1>2. Missing(tokens) > 0
  BY <1>1 DEF Open
<1> QED
  BY <1>2 DEF IsOneTerm

\* Output, of any sink
OutputOf(tokens, from) ==
  LET magic == from <= Len(tokens) /\ tokens[from] = Magic
  IN  SubSeq(tokens, from + (IF magic THEN 1 ELSE 0), Len(tokens))

\* The output of a push is what was written since it began, without the magic byte.
LEMMA OutputFacts ==
  ASSUME NEW W \in SUBSET Tokens, NEW tokens \in Seq(Seq(Byte)),
         Len(tokens) \in Nat \ {0}, tokens[1] = Magic,
         \A k \in 2 .. Len(tokens) : tokens[k] \in W,
         NEW from \in 1 .. Len(tokens) + 1
  PROVE  /\ OutputOf(tokens, from) \in Seq(W)
         /\ OutputOf(tokens, from)
              = SubSeq(tokens, IF from = 1 THEN 2 ELSE from, Len(tokens))
<1>1. from # 1 /\ from <= Len(tokens) => tokens[from] # Magic
  <2>1. Magic \notin W
    BY MagicFacts
  <2> QED
    BY <2>1
<1> DEFINE start == IF from = 1 THEN 2 ELSE from
<1>2. OutputOf(tokens, from) = SubSeq(tokens, start, Len(tokens))
  <2>1. CASE from = 1
    <3>1. from <= Len(tokens) /\ tokens[from] = Magic /\ from + 1 = start
      BY <2>1
    <3> QED
      BY <3>1 DEF OutputOf
  <2>2. CASE from # 1
    <3>1. ~(from <= Len(tokens) /\ tokens[from] = Magic) /\ from + 0 = start
      BY <1>1, <2>2
    <3> QED
      BY <3>1 DEF OutputOf
  <2> QED
    BY <2>1, <2>2
<1>3. start \in 2 .. Len(tokens) + 1
  OBVIOUS
<1> HIDE DEF start
<1>4. SubSeq(tokens, start, Len(tokens)) \in Seq(W)
  <2>1. \A i \in start .. Len(tokens) : tokens[i] \in W
    BY <1>3
  <2>2. start \in Int /\ Len(tokens) \in Int
    BY <1>3
  <2> QED
    BY <2>1, <2>2, SubSeqProperties
<1> QED
  BY <1>2, <1>4 DEF start

\* A token written is one token more of the output.
LEMMA OutputAppended ==
  ASSUME NEW tokens \in Seq(Seq(Byte)), Len(tokens) \in Nat \ {0}, tokens[1] = Magic,
         \A k \in 2 .. Len(tokens) : tokens[k] \in Tokens,
         NEW from \in 1 .. Len(tokens) + 1, NEW t \in Tokens
  PROVE  OutputOf(Append(tokens, t), from) = Append(OutputOf(tokens, from), t)
<1> DEFINE more == Append(tokens, t)
           n == Len(tokens)
           start == IF from = 1 THEN 2 ELSE from
<1>1. /\ more \in Seq(Seq(Byte)) /\ Len(more) = n + 1
      /\ \A k \in 1 .. n : more[k] = tokens[k]
      /\ more[n + 1] = t
  <2>1. t \in Seq(Byte)
    BY DEF Tokens
  <2> DEFINE S == Seq(Byte)
  <2>2. tokens \in Seq(S) /\ t \in S
    BY <2>1
  <2> HIDE DEF S
  <2>3. /\ more \in Seq(S) /\ Len(more) = n + 1
        /\ \A k \in 1 .. n : more[k] = tokens[k]
        /\ more[n + 1] = t
    BY <2>2, AppendProperties
  <2> QED
    BY <2>3 DEF S
<1> HIDE DEF more
<1>2. n \in Nat \ {0} /\ start \in 2 .. n + 1
  OBVIOUS
<1> PICK m \in Nat : m = n + 1
  BY <1>2
<1>3. /\ OutputOf(tokens, from) \in Seq(Tokens)
      /\ OutputOf(tokens, from) = SubSeq(tokens, start, n)
  BY OutputFacts
<1>4. OutputOf(more, from) \in Seq(Tokens) /\ OutputOf(more, from) = SubSeq(more, start, m)
  <2>1. Len(more) \in Nat \ {0} /\ more[1] = Magic /\ from \in 1 .. Len(more) + 1
    <3>1. 1 \in 1 .. n /\ tokens[1] = Magic /\ from \in 1 .. n + 1
      BY <1>2
    <3> HIDE DEF n
    <3> QED
      BY <1>1, <1>2, <3>1
  <2>2. \A k \in 2 .. Len(more) : more[k] \in Tokens
    <3>1. \A k \in 2 .. n + 1 : k = n + 1 \/ k \in 2 .. n
      BY <1>2
    <3>2. \A k \in 2 .. n : k \in 1 .. n
      BY <1>2
    <3> QED
      BY <1>1, <3>1, <3>2
  <2> QED
    BY <1>1, <2>1, <2>2, OutputFacts
<1> HIDE DEF n, start
<1>5. /\ Len(SubSeq(more, start, m)) = m - start + 1
      /\ \A i \in 1 .. m - start + 1 : SubSeq(more, start, m)[i] = more[start + i - 1]
  <2> DEFINE S == Seq(Byte)
  <2>1. start \in Int /\ m \in Int /\ start <= m
    BY <1>2
  <2>2. \A i \in start .. m : more[i] \in S
    <3>1. \A i \in start .. m : i \in 1 .. n + 1
      BY <1>2
    <3> QED
      BY <1>1, <3>1, ElementOfSeq
  <2> HIDE DEF S
  <2> QED
    BY <2>1, <2>2, SubSeqProperties
<1>6. /\ Len(SubSeq(tokens, start, n)) = n - start + 1
      /\ \A i \in 1 .. n - start + 1 : SubSeq(tokens, start, n)[i] = tokens[start + i - 1]
  <2>1. start \in Int /\ n \in Int
    BY <1>2
  <2>2. \A i \in start .. n : tokens[i] \in Seq(Byte)
    <3>1. \A i \in start .. n : i \in 1 .. Len(tokens)
      BY <1>2 DEF n
    <3> QED
      BY <3>1, ElementOfSeq
  <2>3. (IF start <= n THEN n - start + 1 ELSE 0) = n - start + 1
    BY <1>2
  <2> QED
    BY <2>1, <2>2, <2>3, SubSeqProperties
<1> DEFINE o == OutputOf(tokens, from)
           p == OutputOf(more, from)
           l == n - start + 1
<1>7. l \in Nat /\ l + 1 = m - start + 1
  BY <1>2
<1>8. o \in Seq(Tokens) /\ Len(o) = l /\ \A i \in 1 .. l : o[i] = tokens[start + i - 1]
  BY <1>3, <1>6
<1>9. p \in Seq(Tokens) /\ Len(p) = l + 1 /\ \A i \in 1 .. l + 1 : p[i] = more[start + i - 1]
  BY <1>4, <1>5, <1>7
<1>10. /\ Append(o, t) \in Seq(Tokens) /\ Len(Append(o, t)) = l + 1
       /\ \A i \in 1 .. l : Append(o, t)[i] = o[i]
       /\ Append(o, t)[l + 1] = t
  BY <1>8, AppendProperties
<1>11. ASSUME NEW i \in 1 .. l PROVE p[i] = o[i]
  <2>1. start + i - 1 \in 1 .. n /\ i \in 1 .. l + 1
    BY <1>2
  <2> QED
    BY <1>1, <1>8, <1>9, <2>1
<1>12. p[l + 1] = t
  <2>1. start + (l + 1) - 1 = n + 1 /\ l + 1 \in 1 .. l + 1
    BY <1>2, <1>7
  <2> QED
    BY <1>1, <1>9, <2>1
<1> HIDE DEF o, p, l
<1>13. p = Append(o, t)
  <2>1. \A i \in 1 .. l + 1 : i = l + 1 \/ i \in 1 .. l
    BY <1>7
  <2>2. \A i \in 1 .. Len(p) : p[i] = Append(o, t)[i]
    BY <1>9, <1>10, <1>11, <1>12, <2>1
  <2> QED
    BY <1>9, <1>10, <2>2, SeqEqual
<1> QED
  BY <1>13 DEF o, p, more

(***************************************************************************)
(* While a push runs, what it wrote is open, and the jobs that are left    *)
(* make good exactly what is missing.                                      *)
(***************************************************************************)
TermInv ==
  /\ pushed.from \in 1 .. Len(sink) + 1
  /\ \A k \in 2 .. Len(sink) : sink[k] \in WholeTokens
  /\ Going /\ Running => Open(Output) /\ Leads(todo, Missing(Output), 0)
  /\ SuccessIsOneTerm

\* The magic byte is no output.
LEMMA OutputOfNothing ==
  /\ OutputOf(<< >>, 1) = << >>
  /\ OutputOf(<<Magic>>, 1) = << >>
<1>1. OutputOf(<< >>, 1) = << >>
  BY DEF OutputOf
<1>2. OutputOf(<<Magic>>, 1) = << >>
  <2> DEFINE m == Magic
             t == <<m>>
  <2> HIDE DEF m
  <2>1. Len(t) = 1 /\ t[1] = m
    OBVIOUS
  <2> HIDE DEF t
  <2>2. OutputOf(t, 1) = SubSeq(t, 2, 1)
    BY <2>1 DEF OutputOf, m
  <2>3. SubSeq(t, 2, 1) = << >>
    BY SubSeqEmpty
  <2> QED
    BY <2>2, <2>3 DEF t, m
<1> QED
  BY <1>1, <1>2

\* An error is no success.
LEMMA FailedPush ==
  ASSUME NEW code \in {BERT_ERRNO_INVALID, BERT_ERRNO_WRITE, BERT_ERRNO_SHORT_WRITE}
  PROVE  code # BERT_SUCCESS
BY DEF BERT_ERRNO_INVALID, BERT_ERRNO_WRITE, BERT_ERRNO_SHORT_WRITE, BERT_SUCCESS

\* Once the magic byte is written, a push's output is a sequence of whole tokens.
LEMMA GoingOutput ==
  ASSUME Going, TermInv
  PROVE  /\ sink \in Seq(Seq(Byte)) /\ Len(sink) \in Nat \ {0} /\ sink[1] = Magic
         /\ Output = OutputOf(sink, pushed.from)
         /\ Output \in Seq(WholeTokens)
<1>1. sink \in Seq(Seq(Byte)) /\ Len(sink) \in Nat \ {0} /\ sink[1] = Magic
  <2> DEFINE S == Seq(Byte)
  <2> HIDE DEF S
  <2>1. sink \in Seq(S) /\ sink # << >> => Len(sink) \in Nat \ {0}
    BY EmptySeq, LenProperties
  <2> QED
    BY <2>1 DEF Going, S
<1>2. Output = OutputOf(sink, pushed.from)
  BY DEF Output, OutputOf
<1>3. WholeTokens \in SUBSET Tokens
  BY DEF WholeTokens
<1> QED
  BY <1>1, <1>2, <1>3, OutputFacts DEF TermInv

\* Every step keeps it: a write moves an arity from what is still to do to what was written, a push
\* replaces a term by jobs that lead from that term missing to none, an error drops the jobs while
\* the term is open.
LEMMA TermStep ==
  ASSUME ~ShortWrites, Countable, MagicInv, TermInv, [Next]_vars
  PROVE  TermInv'
<1>1. ASSUME sink' = sink, pushed' = pushed, todo' = todo, result' = result,
             encoder'.wrote_magic = encoder.wrote_magic
      PROVE  TermInv'
  <2>1. Output' = Output /\ (Going' => Going)
    BY <1>1 DEF Output, Going
  <2> QED
    BY <1>1, <2>1 DEF TermInv, Running, SuccessIsOneTerm
<1>2. ASSUME NEW d \in Terms, bert_encoder_push(d) PROVE TermInv'
  <2>1. /\ sink' = sink /\ todo' = Pushes(<<d>>) /\ pushed'.from = Len(sink) + 1
        /\ encoder' = encoder
    BY <1>2 DEF bert_encoder_push
  <2>2. Len(sink) \in Nat
    BY SinkTyped, LenProperties
  <2>3. Output' = << >>
    <3>1. Output' = OutputOf(sink, Len(sink) + 1)
      BY <2>1 DEF Output, OutputOf
    <3>2. OutputOf(sink, Len(sink) + 1) = SubSeq(sink, Len(sink) + 1, Len(sink))
      BY <2>2 DEF OutputOf
    <3> QED
      BY <2>2, <3>1, <3>2, SubSeqEmpty
  <2>4. Leads(todo', 1, 0)
    <3>1. <<d>> \in Seq(Terms) /\ Len(<<d>>) = 1
      OBVIOUS
    <3> QED
      BY <2>1, <3>1, LeadsPushes
  <2>5. todo' # << >>
    BY <2>1, MagicJobs DEF OnlyPush
  <2> QED
    BY <2>1, <2>2, <2>3, <2>4, <2>5, OpenNothing, MissingNothing
       DEF TermInv, SuccessIsOneTerm, Running
<1>3. ASSUME Fresh, sink' = sink, pushed' = pushed, ~encoder'.wrote_magic,
             todo' # << >> \/ result' # BERT_SUCCESS
      PROVE  TermInv'
  <2>1. ~Going' /\ sink = << >> /\ Len(sink) = 0
    BY <1>3 DEF Fresh, Going
  <2>2. Output' = << >>
    <3>1. pushed.from = 1
      BY <2>1 DEF TermInv
    <3> QED
      BY <1>3, <2>1, <3>1, OutputOfNothing DEF Output, OutputOf
  <2>3. ~IsOneTerm(<< >>)
    <3>1. << >> \in Seq(WholeTokens)
      OBVIOUS
    <3> QED
      BY <3>1, OpenNothing, OpenIsNotOne
  <2> QED
    BY <1>3, <2>1, <2>2, <2>3 DEF TermInv, SuccessIsOneTerm, Running
<1>4. ASSUME Going, Running, sink' = sink, pushed' = pushed, todo' = << >>,
             result' # BERT_SUCCESS
      PROVE  TermInv'
  <2>1. Output' = Output
    BY <1>4 DEF Output
  <2>2. ~IsOneTerm(Output)
    BY <1>4, GoingOutput, OpenIsNotOne DEF TermInv
  <2> QED
    BY <1>4, <2>1, <2>2 DEF TermInv, SuccessIsOneTerm, Running
<1>5. CASE PushMagic
  <2>1. Fresh /\ todo # << >>
    BY <1>5 DEF PushMagic, Going, Doing, Running, MagicInv
  <2>2. PICK d \in Terms : todo \in {OnlyPush(d), MagicAndPush(d)}
    BY <2>1 DEF Fresh
  <2>3. todo' = MagicAndPush(d)
    BY <1>5, <2>2, MagicJobs DEF PushMagic, Doing, OnlyPush, MagicAndPush
  <2>4. todo' # << >>
    BY <2>3, MagicJobs
  <2> QED
    BY <1>3, <1>5, <2>1, <2>4 DEF PushMagic, Fresh
<1>6. CASE PushTerm
  <2> DEFINE job == Head(todo)
             m == Missing(Output)
  <2>1. /\ Going /\ Running /\ todo # << >> /\ job.op = "push" /\ Encodable(job.data)
        /\ sink' = sink /\ pushed' = pushed /\ todo' = Jobs(job.data) \o Tail(todo)
    BY <1>6 DEF PushTerm, Doing, Running, Fresh, MagicInv
  <2>2. Open(Output) /\ Leads(todo, m, 0)
    BY <2>1 DEF TermInv
  <2> HIDE DEF job, m
  <2>3. /\ job \in JobSet /\ m > 0 /\ m - 1 + Owes(job) \in Nat
        /\ Leads(Tail(todo), m - 1 + Owes(job), 0)
    BY <2>1, <2>2, LeadsTail DEF job
  <2>4. m \in Nat
    BY <2>2 DEF Leads
  <2>5. job.data \in Terms /\ Owes(job) = 0
    BY <2>1, <2>3, JobIs DEF Owes
  <2>6. Leads(Jobs(job.data), m, m - 1)
    <3>1. Leads(Jobs(job.data), 1, 0)
      BY <2>1, <2>5, JobsLead
    <3>2. m - 1 \in Nat /\ 1 + (m - 1) = m /\ 0 + (m - 1) = m - 1
      BY <2>3, <2>4
    <3>3. Leads(Jobs(job.data), 1 + (m - 1), 0 + (m - 1))
      BY <3>1, <3>2, LeadsAbove
    <3> QED
      BY <3>2, <3>3
  <2>7. Leads(todo', m, 0)
    <3>1. Leads(Tail(todo), m - 1, 0)
      BY <2>3, <2>4, <2>5
    <3> QED
      BY <2>1, <2>6, <3>1, LeadsOn
  <2>8. todo' # << >>
    BY <2>3, <2>4, <2>7, NowhereLeads
  <2>9. Output' = Output
    BY <2>1 DEF Output
  <2> QED
    BY <2>1, <2>2, <2>7, <2>8, <2>9 DEF TermInv, SuccessIsOneTerm, Running, m
<1>7. CASE PushInvalid
  <2>1. /\ Going /\ Running /\ sink' = sink /\ pushed' = pushed /\ todo' = << >>
        /\ result' = BERT_ERRNO_INVALID
    BY <1>7 DEF PushInvalid, Fail, Doing, Running, Fresh, MagicInv
  <2> QED
    BY <1>4, <2>1, FailedPush
<1>8. CASE WriteFails
  <2>1. /\ Running /\ sink' = sink /\ pushed' = pushed /\ todo' = << >> /\ encoder' = encoder
        /\ result' \in {BERT_ERRNO_INVALID, BERT_ERRNO_WRITE, BERT_ERRNO_SHORT_WRITE}
    BY <1>8 DEF WriteFails, Refusals, Fail, Doing, MagicInv, EncoderOK
  <2> QED
    BY <1>3, <1>4, <2>1, FailedPush DEF MagicInv, Fresh
<1>9. CASE WriteSucceeds /\ Fresh
  <2>1. sink' = <<Magic>> /\ pushed' = pushed /\ \E d \in Terms : todo' = OnlyPush(d)
    <3>1. sink' = Append(<< >>, Magic)
      BY <1>9, WholeArrival DEF Fresh
    <3>2. \A x : Append(<< >>, x) = <<x>>
      OBVIOUS
    <3> QED
      BY <1>9, <3>1, <3>2, WholeArrival DEF WriteSucceeds
  <2>2. PICK d \in Terms : todo' = OnlyPush(d)
    BY <2>1
  <2>3. pushed.from = 1
    BY <1>9 DEF TermInv, Fresh
  <2>4. Output' = << >>
    BY <2>1, <2>3, OutputOfNothing DEF Output, OutputOf
  <2>5. Leads(todo', 1, 0) /\ todo' # << >>
    <3>1. <<d>> \in Seq(Terms) /\ Len(<<d>>) = 1
      OBVIOUS
    <3> QED
      BY <2>2, <3>1, LeadsPushes, MagicJobs DEF OnlyPush
  <2>6. Len(sink') = 1
    BY <2>1
  <2> QED
    BY <2>1, <2>3, <2>4, <2>5, <2>6, OpenNothing, MissingNothing
       DEF TermInv, SuccessIsOneTerm, Running
<1>10. CASE WriteSucceeds /\ Going
  <2> DEFINE job == Head(todo)
             token == Head(todo).token
             m == Missing(Output)
  <2>1. /\ Running /\ todo # << >> /\ job.op = "write" /\ todo' = Tail(todo)
        /\ result' = IF todo' = << >> THEN BERT_SUCCESS ELSE result
        /\ pushed' = pushed
    BY <1>10 DEF WriteSucceeds, Doing, Running, GoOn
  <2>2. token \in WholeTokens /\ sink' = Append(sink, token)
    BY <1>10, WholeArrival
  <2>3. Open(Output) /\ Leads(todo, m, 0)
    BY <1>10, <2>1 DEF TermInv
  <2>4. /\ sink \in Seq(Seq(Byte)) /\ Len(sink) \in Nat \ {0} /\ sink[1] = Magic
        /\ Output = OutputOf(sink, pushed.from)
        /\ Output \in Seq(WholeTokens)
    BY <1>10, GoingOutput
  <2> HIDE DEF m
  <2>5. m \in Nat /\ m > 0 /\ Leads(Tail(todo), m - 1 + Arity(token), 0)
    <3>1. /\ job \in JobSet /\ m > 0 /\ m - 1 + Owes(job) \in Nat
          /\ Leads(Tail(todo), m - 1 + Owes(job), 0)
      BY <2>1, <2>3, LeadsTail
    <3>2. Owes(job) = Arity(token)
      BY <2>1 DEF Owes
    <3> QED
      BY <2>3, <3>1, <3>2 DEF Leads
  <2> HIDE DEF token, job
  <2>6. Output' = Append(Output, token)
    <3>1. Output' = OutputOf(Append(sink, token), pushed.from)
      BY <2>1, <2>2 DEF Output, OutputOf
    <3>2. token \in Tokens /\ \A k \in 2 .. Len(sink) : sink[k] \in Tokens
      BY <1>10, <2>2 DEF Going, WholeTokens
    <3> QED
      BY <2>2, <2>4, <3>1, <3>2, OutputAppended DEF TermInv
  <2>7. Missing(Output') = m - 1 + Arity(token)
    BY <2>2, <2>4, <2>6, MissingAppend DEF m
  <2>8. /\ Missing(Output') = 0 => IsOneTerm(Output')
        /\ Missing(Output') > 0 => Open(Output')
    BY <2>2, <2>3, <2>4, <2>6, OpenAppend
  <2>9. Leads(todo', Missing(Output'), 0)
    BY <2>1, <2>5, <2>7
  <2>10. /\ pushed'.from \in 1 .. Len(sink') + 1
         /\ \A k \in 2 .. Len(sink') : sink'[k] \in WholeTokens
    <3> DEFINE S == Seq(Byte)
    <3>1. sink \in Seq(S) /\ token \in S
      BY <2>2, <2>4 DEF WholeTokens, Tokens
    <3> HIDE DEF S
    <3>2. /\ Len(sink') = Len(sink) + 1 /\ sink'[Len(sink) + 1] = token
          /\ \A k \in 1 .. Len(sink) : sink'[k] = sink[k]
      BY <2>2, <3>1, AppendProperties
    <3>3. \A k \in 2 .. Len(sink) + 1 :
            k = Len(sink) + 1 \/ (k \in 2 .. Len(sink) /\ k \in 1 .. Len(sink))
      BY <2>4
    <3>4. \A k \in 2 .. Len(sink') : sink'[k] \in WholeTokens
      BY <2>2, <3>2, <3>3 DEF TermInv
    <3>5. pushed'.from \in 1 .. Len(sink') + 1
      BY <2>1, <2>4, <3>2 DEF TermInv
    <3> QED
      BY <3>4, <3>5
  <2>11. CASE todo' = << >>
    <3>1. Missing(Output') = 0
      BY <2>9, <2>11, NowhereLeads
    <3> QED
      BY <2>1, <2>8, <2>10, <2>11, <3>1 DEF TermInv, SuccessIsOneTerm, Running
  <2>12. CASE todo' # << >>
    <3>1. Missing(Output') > 0
      BY <2>9, <2>12, LeadsTail
    <3> QED
      BY <2>8, <2>9, <2>10, <2>12, <3>1 DEF TermInv, SuccessIsOneTerm, Running
  <2> QED
    BY <2>11, <2>12
<1>11. CASE \/ bert_encoder_stream \/ bert_encoder_callback
            \/ \E n \in BufferLengths : bert_encoder_buffer(n)
  <2>1. /\ sink' = sink /\ pushed' = pushed /\ todo' = todo /\ result' = result
        /\ encoder'.wrote_magic = encoder.wrote_magic
    BY <1>11 DEF bert_encoder_stream, bert_encoder_callback, bert_encoder_buffer, Attach,
                 MagicInv, EncoderOK
  <2> QED
    BY <1>1, <2>1
<1>12. CASE UNCHANGED vars
  BY <1>1, <1>12 DEF vars
<1> QED
  BY <1>2, <1>5, <1>6, <1>7, <1>8, <1>9, <1>10, <1>11, <1>12 DEF Next, MagicInv

\* A push succeeds if and only if what it wrote is one complete term.
THEOREM SuccessIsComplete == ~ShortWrites /\ Countable => (Spec => []SuccessIsOneTerm)
<1> SUFFICES ASSUME ~ShortWrites, Countable PROVE Spec => []SuccessIsOneTerm
  OBVIOUS
<1>1. Init => TermInv
  <2> SUFFICES ASSUME Init PROVE TermInv
    OBVIOUS
  <2>1. sink = << >> /\ Len(sink) = 0 /\ pushed.from = 1 /\ pushed.data = NoTerm /\ todo = << >>
    BY DEF Init
  <2> QED
    BY <2>1 DEF TermInv, SuccessIsOneTerm, Running
<1>2. MagicInv /\ TermInv /\ [Next]_vars => TermInv'
  BY TermStep
<1>3. TermInv => SuccessIsOneTerm
  BY DEF TermInv
<1> QED
  BY <1>1, <1>2, <1>3, MagicInvariant, PTL DEF Spec

(***************************************************************************)
(* bert_data_sizeof, from here on.  First its sums.                        *)
(***************************************************************************)

\* f[i] is the sum of the first i numbers.
Adds(f, s, n) == f[0] = 0 /\ \A i \in 1 .. n : f[i] = f[i - 1] + s[i]

\* Total adds the numbers from the left.
LEMMA TotalValue ==
  ASSUME NEW n \in Nat, NEW s \in [1 .. n -> Nat]
  PROVE  \E f \in [0 .. n -> Nat] : Adds(f, s, n) /\ Total(s) = f[n]
<1> DEFINE step == [i \in 1 .. n |-> [v \in Nat |-> v + s[i]]]
           iter == CHOOSE it : it = [t \in SUBSET (1 .. n) |->
                                       IF t = {} THEN 0 ELSE it[t \ {Max(t)}] + s[Max(t)]]
<1>1. DOMAIN s = 1 .. n /\ \A i \in 1 .. n : s[i] \in Nat
  OBVIOUS
<1>2. Total(s) = iter[1 .. n]
  BY <1>1 DEF Total, FoldLeft, MapThenFoldSet
<1>3. step \in [1 .. n -> [Nat -> Nat]]
  BY <1>1
<1>4. PICK it \in [SUBSET (1 .. n) -> Nat] : FoldsLeft(it, n, 0, step)
  <2>1. 0 \in Nat
    OBVIOUS
  <2> HIDE DEF step
  <2> QED
    BY <1>3, <2>1, FoldLeftExists DEF HasFold
<1>5. it = [t \in SUBSET (1 .. n) |-> IF t = {} THEN 0 ELSE it[t \ {Max(t)}] + s[Max(t)]]
  <2>1. ASSUME NEW t \in SUBSET (1 .. n), t # {}
        PROVE  it[t] = it[t \ {Max(t)}] + s[Max(t)]
    <3>1. Max(t) \in 1 .. n /\ t \ {Max(t)} \in SUBSET (1 .. n)
      BY <2>1, MaxOfPositions
    <3>2. it[t \ {Max(t)}] \in Nat
      BY <3>1
    <3>3. it[t] = step[Max(t)][it[t \ {Max(t)}]]
      BY <1>4, <2>1 DEF FoldsLeft
    <3> QED
      BY <3>1, <3>2, <3>3
  <2>2. it[{}] = 0
    BY <1>4 DEF FoldsLeft
  <2> QED
    BY <2>1, <2>2
<1>6. iter = [t \in SUBSET (1 .. n) |-> IF t = {} THEN 0 ELSE iter[t \ {Max(t)}] + s[Max(t)]]
  BY <1>5
<1> HIDE DEF iter
<1>7. iter[{}] = 0
  BY <1>6
<1>8. ASSUME NEW i \in 1 .. n PROVE iter[1 .. i] = iter[1 .. (i - 1)] + s[i]
  <2>1. /\ 1 .. i \in SUBSET (1 .. n) /\ 1 .. i # {}
        /\ Max(1 .. i) = i /\ (1 .. i) \ {i} = 1 .. (i - 1)
    BY MaxOfInterval
  <2>2. iter[1 .. i] = IF 1 .. i = {} THEN 0
                       ELSE iter[(1 .. i) \ {Max(1 .. i)}] + s[Max(1 .. i)]
    BY <1>6, <2>1, Zenon
  <2> QED
    BY <2>1, <2>2, Zenon
<1> DEFINE f == [i \in 0 .. n |-> iter[1 .. i]]
<1>9. f[0] = 0
  <2>1. f[0] = iter[1 .. 0] /\ 1 .. 0 = {}
    OBVIOUS
  <2> QED
    BY <1>7, <2>1
<1>10. \A i \in 1 .. n : f[i] = f[i - 1] + s[i]
  BY <1>8
<1>11. f[n] = Total(s) /\ f = [i \in 0 .. n |-> f[i]]
  BY <1>2
<1> HIDE DEF f
<1> DEFINE Typed == {k \in Nat : k <= n => f[k] \in Nat}
<1>12. 0 \in Typed
  BY <1>9
<1>13. ASSUME NEW k \in Nat, k \in Typed PROVE k + 1 \in Typed
  <2> SUFFICES ASSUME k + 1 <= n PROVE f[k + 1] \in Nat
    OBVIOUS
  <2>1. f[k] \in Nat /\ k + 1 \in 1 .. n /\ (k + 1) - 1 = k
    BY <1>13
  <2> QED
    BY <1>1, <1>10, <2>1
<1> HIDE DEF Typed
<1>14. \A k \in Nat : k \in Typed
  BY <1>12, <1>13, Induction
<1>15. f \in [0 .. n -> Nat]
  BY <1>11, <1>14 DEF Typed
<1> QED
  BY <1>9, <1>10, <1>11, <1>15 DEF Adds

\* Sums of the same numbers are the same.
LEMMA AddsUnique ==
  ASSUME NEW n \in Nat, NEW s, NEW t, \A i \in 1 .. n : s[i] = t[i],
         NEW f, NEW g, Adds(f, s, n), Adds(g, t, n)
  PROVE  f[n] = g[n]
<1> DEFINE Same == {k \in Nat : k <= n => f[k] = g[k]}
<1>1. 0 \in Same
  BY DEF Adds
<1>2. ASSUME NEW k \in Nat, k \in Same PROVE k + 1 \in Same
  <2> SUFFICES ASSUME k + 1 <= n PROVE f[k + 1] = g[k + 1]
    OBVIOUS
  <2>1. f[k] = g[k] /\ k + 1 \in 1 .. n /\ (k + 1) - 1 = k
    BY <1>2
  <2> QED
    BY <2>1 DEF Adds
<1> HIDE DEF Same
<1>3. n \in Same
  BY <1>1, <1>2, Induction
<1> QED
  BY <1>3 DEF Same

\* What adds up is the total.
LEMMA TotalIs ==
  ASSUME NEW n \in Nat, NEW s \in [1 .. n -> Nat], NEW f, Adds(f, s, n)
  PROVE  Total(s) = f[n] /\ Total(s) \in Nat
<1>1. PICK g \in [0 .. n -> Nat] : Adds(g, s, n) /\ Total(s) = g[n]
  BY TotalValue
<1>2. g[n] = f[n]
  BY <1>1, AddsUnique
<1> QED
  BY <1>1, <1>2

\* The total of no number and of one.
LEMMA TotalFew ==
  /\ Total(<< >>) = 0
  /\ \A m \in Nat : Total(<<m>>) = m
<1>1. Total(<< >>) = 0
  <2>1. << >> \in [1 .. 0 -> Nat] /\ 0 \in Nat
    OBVIOUS
  <2>2. PICK f \in [0 .. 0 -> Nat] : Adds(f, << >>, 0) /\ Total(<< >>) = f[0]
    BY <2>1, TotalValue
  <2> QED
    BY <2>2 DEF Adds
<1>2. ASSUME NEW m \in Nat PROVE Total(<<m>>) = m
  <2> DEFINE s == <<m>>
  <2>1. s \in [1 .. 1 -> Nat] /\ 1 \in Nat /\ s[1] = m
    OBVIOUS
  <2> HIDE DEF s
  <2>2. PICK f \in [0 .. 1 -> Nat] : Adds(f, s, 1) /\ Total(s) = f[1]
    BY <2>1, TotalValue
  <2>3. f[1] = f[0] + s[1] /\ f[0] = 0
    BY <2>2 DEF Adds
  <2> QED
    BY <2>1, <2>2, <2>3 DEF s
<1> QED
  BY <1>1, <1>2

\* Totals of sequences that are joined are added.
LEMMA TotalJoined ==
  ASSUME NEW n \in Nat, NEW m \in Nat, NEW a \in [1 .. n -> Nat], NEW b \in [1 .. m -> Nat],
         NEW c \in [1 .. n + m -> Nat],
         \A i \in 1 .. n : c[i] = a[i], \A i \in 1 .. m : c[n + i] = b[i]
  PROVE  Total(c) = Total(a) + Total(b)
<1>1. PICK f \in [0 .. n -> Nat] : Adds(f, a, n) /\ Total(a) = f[n]
  BY TotalValue
<1>2. PICK g \in [0 .. m -> Nat] : Adds(g, b, m) /\ Total(b) = g[m]
  BY TotalValue
<1> DEFINE h == [i \in 0 .. n + m |-> IF i <= n THEN f[i] ELSE f[n] + g[i - n]]
<1>3. h[0] = 0
  BY <1>1 DEF Adds
<1>4. ASSUME NEW i \in 1 .. n + m PROVE h[i] = h[i - 1] + c[i]
  <2>1. CASE i <= n
    <3>1. i \in 1 .. n /\ h[i] = f[i] /\ h[i - 1] = f[i - 1]
      BY <2>1
    <3> QED
      BY <1>1, <3>1 DEF Adds
  <2>2. CASE i > n
    <3>1. PICK k \in 1 .. m : i = n + k
      <4>1. i - n \in 1 .. m /\ i = n + (i - n)
        BY <2>2
      <4> QED
        BY <4>1
    <3>2. h[i] = f[n] + g[k]
      BY <3>1
    <3>3. h[i - 1] = f[n] + g[k - 1]
      <4>1. CASE k = 1
        BY <1>1, <1>2, <3>1, <4>1 DEF Adds
      <4>2. CASE k # 1
        BY <3>1, <4>2
      <4> QED
        BY <4>1, <4>2
    <3>4. g[k] = g[k - 1] + b[k] /\ c[i] = b[k]
      BY <1>2, <3>1 DEF Adds
    <3>5. f[n] \in Nat /\ g[k - 1] \in Nat /\ b[k] \in Nat
      BY <3>1
    <3> HIDE DEF h
    <3> QED
      BY <3>2, <3>3, <3>4, <3>5
  <2> QED
    BY <2>1, <2>2
<1>5. h[n + m] = f[n] + g[m]
  <2>1. f[n] \in Nat /\ g[0] = 0
    BY <1>2 DEF Adds
  <2>2. CASE m = 0
    BY <2>1, <2>2
  <2>3. CASE m # 0
    <3>1. ~(n + m <= n) /\ (n + m) - n = m
      BY <2>3
    <3> QED
      BY <3>1
  <2> QED
    BY <2>2, <2>3
<1> HIDE DEF h
<1>6. Adds(h, c, n + m) /\ n + m \in Nat
  BY <1>3, <1>4 DEF Adds
<1>7. Total(c) = h[n + m]
  BY <1>6, TotalIs
<1> QED
  BY <1>1, <1>2, <1>5, <1>7

\* Three bytes stand for a number below 2^24.
LEMMA CountedOfThree ==
  ASSUME NEW word \in [1 .. 3 -> Byte]
  PROVE  Counted(word) = word[1] + 256 * (word[2] + 256 * word[3])
<1>1. 3 \in Nat /\ \A k \in 1 .. 3 : word[k] \in Nat
  BY DEF Byte
<1>2. PICK it : /\ Counted(word) = it[1 .. 3] /\ it[{}] = 0
                /\ \A i \in 1 .. 3 : it[i .. 3] = word[i] + 256 * it[(i + 1) .. 3]
  BY <1>1, CountedSteps
<1>3. 4 .. 3 = {}
  OBVIOUS
<1>4. /\ it[3 .. 3] = word[3] + 256 * it[4 .. 3]
      /\ it[2 .. 3] = word[2] + 256 * it[3 .. 3]
      /\ it[1 .. 3] = word[1] + 256 * it[2 .. 3]
  BY <1>2
<1> QED
  BY <1>1, <1>2, <1>3, <1>4

(***************************************************************************)
(* How long integers are                                                   *)
(***************************************************************************)

\* What IntOf says of an int64_t whose upper bytes only repeat its sign.
LEMMA IntOfWord ==
  ASSUME NEW i \in Octets
  PROVE  IntOf(i) = i[1] + 256 * i[2] + 65536 * i[3]
                      + 16777216 * (IF i[4] >= 128 THEN i[4] - 256 ELSE i[4])
<1>1. i[1] \in Byte /\ i[2] \in Byte /\ i[3] \in Byte /\ i[4] \in Byte
  BY DEF Octets
<1>2. Narrowed(i, 3) = [k \in 1 .. 3 |-> i[k]] /\ Narrowed(i, 3) \in [1 .. 3 -> Byte]
  <2>1. i \in [1 .. 8 -> Byte] /\ 8 \in Nat /\ 3 \in 0 .. 8
    BY DEF Octets
  <2>2. Narrowed(i, 3) \in [1 .. 3 -> Byte]
    BY <2>1, PartIsBytes
  <2>3. Narrowed(i, 3) = [k \in 1 .. 3 |-> i[k]]
    <3>1. Narrowed(i, 3) = SubSeq(i, 1, 3)
      BY DEF Narrowed
    <3>2. i \in Seq(Byte) /\ Len(i) = 8
      BY OctetFacts
    <3> QED
      BY <3>1, <3>2
  <2> QED
    BY <2>2, <2>3
<1>3. Counted(Narrowed(i, 3)) = i[1] + 256 * (i[2] + 256 * i[3])
  <2>1. /\ Narrowed(i, 3)[1] = i[1] /\ Narrowed(i, 3)[2] = i[2] /\ Narrowed(i, 3)[3] = i[3]
    BY <1>2
  <2> QED
    BY <1>2, <2>1, CountedOfThree
<1>4. ((i[4] + 128) % 256) - 128 = IF i[4] >= 128 THEN i[4] - 256 ELSE i[4]
  BY <1>1 DEF Byte
<1>5. 256^3 = 16777216
  BY SMT
<1>6. IntOf(i) = Counted(Narrowed(i, 3)) + 256^3 * (((i[4] + 128) % 256) - 128)
  BY DEF IntOf
<1>7. PICK n \in Int : n = IF i[4] >= 128 THEN i[4] - 256 ELSE i[4]
  BY <1>1 DEF Byte
<1>8. IntOf(i) = i[1] + 256 * (i[2] + 256 * i[3]) + 16777216 * n
  BY <1>3, <1>4, <1>5, <1>6, <1>7, SMT
<1>9. i[1] \in Int /\ i[2] \in Int /\ i[3] \in Int
  BY <1>1 DEF Byte
<1>10. i[1] + 256 * (i[2] + 256 * i[3]) + 16777216 * n
         = i[1] + 256 * i[2] + 65536 * i[3] + 16777216 * n
  BY <1>9, SMT
<1> QED
  BY <1>7, <1>8, <1>10, SMT

\* An int64_t whose five upper bytes are all 0 or all 255 is small, ...
LEMMA ShortIsSmall ==
  ASSUME NEW i \in Octets, NEW b \in {0, 255}, \A k \in 4 .. 8 : i[k] = b
  PROVE  IsSmall(i)
<1>1. i[1] \in Byte /\ i[2] \in Byte /\ i[3] \in Byte /\ i[4] = b /\ Len(i) = 8
  BY OctetFacts DEF Octets
<1>2. FitsInt(i)
  BY <1>1 DEF FitsInt
<1>3. BERT_MAX_INT = 134217727 /\ BERT_MIN_INT = -134217728
  BY SMT DEF BERT_MAX_INT, BERT_MIN_INT
<1>4. i[1] \in Nat /\ i[1] <= 255 /\ i[2] \in Nat /\ i[2] <= 255 /\ i[3] \in Nat /\ i[3] <= 255
  BY <1>1 DEF Byte
<1>5. /\ b = 0   => IntOf(i) = i[1] + 256 * i[2] + 65536 * i[3]
      /\ b = 255 => IntOf(i) = i[1] + 256 * i[2] + 65536 * i[3] - 16777216
  BY <1>1, <1>4, IntOfWord, SMT
<1>6. IntOf(i) \in Int /\ -16777216 <= IntOf(i) /\ IntOf(i) <= 16777215
  BY <1>4, <1>5, SMT
<1>7. BERT_MIN_INT <= IntOf(i) /\ IntOf(i) <= BERT_MAX_INT
  BY <1>3, <1>6, SMT
<1> QED
  BY <1>2, <1>7 DEF IsSmall

\* ... so that the magnitude of one that is not has a byte other than 0 among its upper five.
LEMMA LargeMagnitude ==
  ASSUME NEW i \in Octets, ~IsSmall(i)
  PROVE  \E k \in 4 .. 8 : BERT_STRIP_SIGN(i)[k] # 0
<1> SUFFICES ASSUME \A k \in 4 .. 8 : BERT_STRIP_SIGN(i)[k] = 0 PROVE FALSE
  OBVIOUS
<1>1. Len(i) = 8 /\ DOMAIN i = 1 .. 8 /\ \A k \in 1 .. 8 : i[k] \in Byte
  BY OctetFacts DEF Octets
<1>2. CASE ~IsNegative(i)
  <2>1. \A k \in 4 .. 8 : i[k] = 0
    BY <1>2 DEF BERT_STRIP_SIGN
  <2> QED
    BY <2>1, ShortIsSmall
<1>3. CASE IsNegative(i)
  <2> DEFINE zero(k) == \A j \in 1 .. k : i[j] = 0
  <2>1. i[8] >= 128
    BY <1>1, <1>3 DEF IsNegative
  <2>2. ASSUME NEW k \in 4 .. 8, ~zero(k) PROVE i[k] = 255 /\ ~zero(k - 1)
    <3>1. (IF zero(k - 1) THEN (256 - i[k]) % 256 ELSE 255 - i[k]) = 0
      BY <1>1, <1>3 DEF BERT_STRIP_SIGN, Negated
    <3>2. i[k] \in 0 .. 255
      BY <1>1 DEF Byte
    <3>3. \A j \in 1 .. k : j = k \/ j \in 1 .. k - 1
      OBVIOUS
    <3>4. ~zero(k - 1)
      <4> SUFFICES ASSUME zero(k - 1) PROVE FALSE
        OBVIOUS
      <4>1. i[k] # 0
        BY <2>2, <3>3
      <4>2. (256 - i[k]) % 256 = 256 - i[k]
        BY <3>2, <4>1
      <4> QED
        BY <3>1, <3>2, <4>2
    <3> HIDE DEF zero
    <3> QED
      BY <3>1, <3>2, <3>4
  <2>3. ~zero(8)
    BY <2>1
  <2> HIDE DEF zero
  <2>4. i[8] = 255 /\ ~zero(7)
    BY <2>2, <2>3
  <2>5. i[7] = 255 /\ ~zero(6)
    BY <2>2, <2>4
  <2>6. i[6] = 255 /\ ~zero(5)
    BY <2>2, <2>5
  <2>7. i[5] = 255 /\ ~zero(4)
    BY <2>2, <2>6
  <2>8. i[4] = 255
    BY <2>2, <2>7
  <2>9. \A k \in 4 .. 8 : i[k] = 255
    BY <2>4, <2>5, <2>6, <2>7, <2>8
  <2> QED
    BY <2>9, ShortIsSmall
<1> QED
  BY <1>2, <1>3

\* sizeof_int takes all eight bytes of a bignum: where it masks the upper five, one is not 0.
LEMMA LargeIsMeasuredWhole ==
  ASSUME NEW i \in Octets, ~IsSmall(i)
  PROVE  bert_data_sizeof_int(i) = 10
<1> DEFINE magnitude == BERT_STRIP_SIGN(i)
           s == {j + 1 : j \in {n \in 0 .. 7 : \E k \in MaskedBytes(n) : magnitude[k] # 0}}
<1>1. PICK k \in 4 .. 8 : magnitude[k] # 0
  BY LargeMagnitude
<1>2. MaskedBytes(7) = 4 .. 8
  BY DEF MaskedBytes
<1>3. 8 \in s
  <2>1. 7 \in {n \in 0 .. 7 : \E l \in MaskedBytes(n) : magnitude[l] # 0}
    BY <1>1, <1>2
  <2>2. 7 + 1 = 8
    OBVIOUS
  <2> QED
    BY <2>1, <2>2
<1>4. s \subseteq 1 .. 8
  OBVIOUS
<1> HIDE DEF s
<1>5. Max(s) = 8
  <2>1. 8 \in s /\ \A y \in s : 8 >= y
    BY <1>3, <1>4
  <2>2. \A x \in s : (\A y \in s : x >= y) => x = 8
    BY <1>3, <1>4
  <2> QED
    BY <2>1, <2>2, Zenon DEF Max
<1>6. MeasuredBytes(magnitude) = 8
  BY <1>5 DEF MeasuredBytes, s
<1> QED
  BY <1>6 DEF bert_data_sizeof_int

\* bert_encode_int writes two bytes where the upper three are 0, and otherwise five.
LEMMA IntTokenLength ==
  ASSUME NEW i \in [1 .. 4 -> Byte]
  PROVE  Len(bert_encode_int(i)) = IF ByteCount(i) <= 1 THEN 2 ELSE 5
<1>1. ByteCount(i) <= 1 => Len(bert_encode_int(i)) = 2
  BY DEF bert_encode_int
<1>2. ASSUME ~(ByteCount(i) <= 1) PROVE Len(bert_encode_int(i)) = 5
  <2>1. BigEndian(i) \in Seq(Byte) /\ Len(BigEndian(i)) = 4
    <3>1. 4 \in Nat
      OBVIOUS
    <3>2. BigEndian(i) \in [1 .. 4 -> Byte]
      BY <3>1, ReverseIsBytes
    <3> HIDE DEF BigEndian
    <3> QED
      BY <3>1, <3>2, BytesAreSeq
  <2>2. <<BERT_INT>> \in Seq(Byte) /\ Len(<<BERT_INT>>) = 1
    BY DEF BERT_INT, Byte
  <2> DEFINE a == <<BERT_INT>>
             b == BigEndian(i)
  <2>3. bert_encode_int(i) = a \o b
    BY <1>2 DEF bert_encode_int
  <2> HIDE DEF a, b
  <2>4. Len(a \o b) = Len(a) + Len(b)
    <3>1. a \in Seq(Byte) /\ b \in Seq(Byte)
      BY <2>1, <2>2 DEF a, b
    <3> QED
      BY <3>1, ConcatProperties
  <2> QED
    BY <2>1, <2>2, <2>3, <2>4 DEF a, b
<1> QED
  BY <1>1, <1>2

\* So does the cast to unsigned int of an int64_t, whatever its upper four bytes are.
LEMMA CastLength ==
  ASSUME NEW i \in Octets
  PROVE  Len(bert_encode_int(Narrowed(i, 4)))
           = IF i[2] = 0 /\ i[3] = 0 /\ i[4] = 0 THEN 2 ELSE 5
<1> DEFINE word == Narrowed(i, 4)
<1>1. i \in [1 .. 8 -> Byte] /\ 8 \in Nat /\ 4 \in 0 .. 8 /\ 4 \in Nat
  BY DEF Octets
<1>2. word \in [1 .. 4 -> Byte] /\ word = [k \in 1 .. 4 |-> i[k]]
  <2>1. word \in [1 .. 4 -> Byte]
    BY <1>1, PartIsBytes
  <2>2. word = [k \in 1 .. 4 |-> i[k]]
    BY <1>1 DEF Narrowed
  <2> QED
    BY <2>1, <2>2
<1>3. word[2] = i[2] /\ word[3] = i[3] /\ word[4] = i[4]
  BY <1>2
<1> HIDE DEF word
<1>4. /\ ByteCount(word) \in 0 .. 4
      /\ ByteCount(word) > 0 => word[ByteCount(word)] # 0
      /\ \A k \in 1 .. 4 : word[k] # 0 => ByteCount(word) >= k
  BY <1>1, <1>2, ByteCountInside
<1>5. ByteCount(word) <= 1 <=> (word[2] = 0 /\ word[3] = 0 /\ word[4] = 0)
  BY <1>4
<1> QED
  BY <1>2, <1>3, <1>5, IntTokenLength DEF word

\* what a word of four bytes stands for
Weighted(a, b, c, d) == a + 256 * b + 65536 * c + 16777216 * d

\* A number of one byte has no others.
LEMMA OneByteNumber ==
  ASSUME NEW a \in Nat, NEW b \in Nat, NEW c \in Nat, NEW d \in Nat, a <= 255
  PROVE  Weighted(a, b, c, d) <= 255 <=> (b = 0 /\ c = 0 /\ d = 0)
BY SMT DEF Weighted

\* the integers whose size bert_data_sizeof_int takes for less than it is
Undersized(i) == IsSmall(i) /\ IsNegative(i)

\* Where the value is small and not negative, the cast keeps it, and so it takes what is
\* measured; of others the cast never takes more than five bytes, and they are measured
\* with ten.
LEMMA CastMeasured ==
  ASSUME NEW i \in Octets, ~Undersized(i)
  PROVE  /\ Len(bert_encode_int(Narrowed(i, 4))) <= 1 + bert_data_sizeof_int(i)
         /\ IsSmall(i) => Len(bert_encode_int(Narrowed(i, 4))) = 1 + bert_data_sizeof_int(i)
<1>1. /\ i[1] \in 0 .. 255 /\ i[2] \in 0 .. 255 /\ i[3] \in 0 .. 255 /\ i[4] \in 0 .. 255
      /\ i[8] \in 0 .. 255 /\ Len(i) = 8
  BY OctetFacts DEF Octets, Byte
<1>0. /\ i[1] \in Nat /\ i[1] <= 255 /\ i[2] \in Nat /\ i[3] \in Nat /\ i[4] \in Nat
      /\ i[8] \in Nat /\ Len(i) = 8
  BY <1>1
<1>2. CASE IsSmall(i)
  <2>1. i[8] < 128 /\ i[4] < 128
    <3>1. i[8] < 128
      BY <1>1, <1>2 DEF Undersized, IsNegative
    <3>2. i[8] = IF i[4] >= 128 THEN 255 ELSE 0
      BY <1>1, <1>2 DEF IsSmall, FitsInt
    <3> QED
      BY <1>1, <3>1, <3>2
  <2>2. IntOf(i) = Weighted(i[1], i[2], i[3], i[4])
    BY <1>0, <2>1, IntOfWord, SMT DEF Weighted
  <2>3. IntOf(i) <= 255 <=> (i[2] = 0 /\ i[3] = 0 /\ i[4] = 0)
    <3>1. Weighted(i[1], i[2], i[3], i[4]) <= 255 <=> (i[2] = 0 /\ i[3] = 0 /\ i[4] = 0)
      BY <1>0, OneByteNumber
    <3> QED
      BY <2>2, <3>1, Zenon
  <2>4. bert_data_sizeof_int(i) = IF IntOf(i) <= 255 THEN 1 ELSE 4
    BY <1>2 DEF bert_data_sizeof_int
  <2>5. Len(bert_encode_int(Narrowed(i, 4))) = 1 + bert_data_sizeof_int(i)
    BY <2>3, <2>4, CastLength
  <2>6. bert_data_sizeof_int(i) \in Nat
    BY <2>4
  <2> QED
    BY <2>5, <2>6
<1>3. CASE ~IsSmall(i)
  <2>1. Len(bert_encode_int(Narrowed(i, 4))) = 2 \/ Len(bert_encode_int(Narrowed(i, 4))) = 5
    BY CastLength
  <2>2. bert_data_sizeof_int(i) = 10
    BY <1>3, LargeIsMeasuredWhole
  <2>3. Len(bert_encode_int(Narrowed(i, 4))) <= 1 + 10
    <3>1. 2 <= 1 + 10 /\ 5 <= 1 + 10
      OBVIOUS
    <3> QED
      BY <2>1, <3>1
  <2> QED
    BY <1>3, <2>2, <2>3
<1> QED
  BY <1>2, <1>3

\* A bignum takes three bytes and those of its magnitude.
LEMMA BignumLength ==
  ASSUME NEW i \in Octets
  PROVE  Len(bert_encode_bignum(i)) = 3 + ByteCount(BERT_STRIP_SIGN(i))
<1> DEFINE magnitude == BERT_STRIP_SIGN(i)
           bytes == ByteCount(magnitude)
           sign == IF IsNegative(i) THEN 1 ELSE 0
<1>1. magnitude \in Octets
  BY OctetFacts
<1> HIDE DEF magnitude
<1>2. bytes \in 0 .. 8
  BY <1>1, ByteCountInside DEF Octets
<1>3. Narrowed(magnitude, bytes) \in Seq(Byte) /\ Len(Narrowed(magnitude, bytes)) = bytes
  <2> HIDE DEF bytes
  <2>1. 8 \in Nat /\ bytes \in Nat
    BY <1>2
  <2>2. Narrowed(magnitude, bytes) \in [1 .. bytes -> Byte]
    BY <1>1, <1>2, <2>1, PartIsBytes DEF Octets
  <2> QED
    BY <2>1, <2>2, BytesAreSeq
<1>4. <<BERT_SMALL_BIGNUM, bytes, sign>> \in Seq(Byte)
  <2>1. bytes \in Byte /\ sign \in Byte /\ BERT_SMALL_BIGNUM \in Byte
    BY <1>2 DEF Byte, BERT_SMALL_BIGNUM
  <2> HIDE DEF bytes, sign
  <2> QED
    BY <2>1
<1>5. Len(<<BERT_SMALL_BIGNUM, bytes, sign>>) = 3
  OBVIOUS
<1>6. bert_encode_bignum(i) = <<BERT_SMALL_BIGNUM, bytes, sign>> \o Narrowed(magnitude, bytes)
  BY DEF bert_encode_bignum, magnitude
<1> HIDE DEF bytes, sign
<1>7. Len(bert_encode_bignum(i)) = 3 + bytes
  BY <1>3, <1>4, <1>5, <1>6, ConcatProperties
<1> QED
  BY <1>7 DEF bytes, magnitude

\* An integer takes at most what bert_data_sizeof counts, unless it is negative and small, and just
\* that if it is Measured.
LEMMA IntegerLength ==
  ASSUME NEW i \in Octets, ~Undersized(i)
  PROVE  /\ Len(Integer(i)) <= 1 + bert_data_sizeof_int(i)
         /\ Measured(i) => Len(Integer(i)) = 1 + bert_data_sizeof_int(i)
<1>1. CASE IsSmall(i)
  BY <1>1, CastMeasured DEF Integer
<1>2. CASE ~IsSmall(i)
  <2>1. ByteCount(BERT_STRIP_SIGN(i)) \in 0 .. 8
    <3>1. BERT_STRIP_SIGN(i) \in [1 .. 8 -> Byte] /\ 8 \in Nat
      BY OctetFacts DEF Octets
    <3> QED
      BY <3>1, ByteCountInside
  <2>2. Len(Integer(i)) = 3 + ByteCount(BERT_STRIP_SIGN(i))
    BY <1>2, BignumLength DEF Integer
  <2> QED
    BY <1>2, <2>1, <2>2, LargeIsMeasuredWhole DEF Measured
<1> QED
  BY <1>1, <1>2

\* Only integers that are not Undersized are Measured.
LEMMA MeasuredIsNotUndersized ==
  ASSUME NEW i, Measured(i)
  PROVE  ~Undersized(i)
BY DEF Measured, Undersized

\* A number below 2^24 leaves five bytes 0.
LEMMA ShortWord ==
  ASSUME NEW r, Short(r)
  PROVE  Word(r, 8) \in Octets /\ \A k \in 4 .. 8 : Word(r, 8)[k] = 0
<1>0. r \in Nat
  BY DEF Short
<1>1. Word(r, 8) \in Octets
  <2>1. r \in Int /\ 8 \in Nat
    BY <1>0
  <2> QED
    BY <2>1, WordIsBytes DEF Octets
<1>2. Word(r, 8)[4] = (r \div Weight[4]) % 256 /\ \A k \in 5 .. 8 : Word(r, 8)[k] = 0
  BY <1>0 DEF Word
<1>3. r \div Weight[4] = 0
  BY SMT DEF Weight, Short
<1>4. 0 % 256 = 0
  BY SMT
<1> QED
  BY <1>1, <1>2, <1>3, <1>4

\* The seconds of a time are small, before the epoch as well.
LEMMA RestIsSmall ==
  ASSUME NEW timestamp \in Octets
  PROVE  IsSmall(TimeParts(timestamp).rest)
<1> DEFINE rest == TimeParts(timestamp).rest
<1>2. PICK r : Short(r) /\ rest \in {Word(r, 8), Negated(Word(r, 8))}
  BY TimeIsBytes
<1>3. rest \in Octets
  BY TimeIsBytes
<1> HIDE DEF rest
<1> DEFINE w == Word(r, 8)
<1>4. w \in Octets /\ \A k \in 4 .. 8 : w[k] = 0
  BY <1>2, ShortWord
<1>5. \A k \in 4 .. 8 : w[k] = 0
  BY <1>4
<1> HIDE DEF w
<1>6. \E b \in {0, 255} : \A k \in 4 .. 8 : Negated(w)[k] = b
  <2> DEFINE zero(k) == \A j \in 1 .. k - 1 : w[j] = 0
  <2>1. \A k \in 4 .. 8 : Negated(w)[k] = IF zero(k) THEN (256 - w[k]) % 256 ELSE 255 - w[k]
    BY <1>4, OctetFacts DEF Negated
  <2>2. \A k \in 4 .. 8 : zero(k) <=> zero(4)
    <3>1. ASSUME NEW k \in 4 .. 8, zero(4), NEW j \in 1 .. k - 1 PROVE w[j] = 0
      <4>1. j \in 1 .. 4 - 1 \/ j \in 4 .. 8
        BY <3>1
      <4> QED
        BY <1>5, <3>1, <4>1
    <3>2. ASSUME NEW k \in 4 .. 8, zero(k) PROVE zero(4)
      <4>1. \A j \in 1 .. 4 - 1 : j \in 1 .. k - 1
        BY <3>2
      <4> QED
        BY <3>2, <4>1
    <3> QED
      BY <3>1, <3>2
  <2> HIDE DEF zero
  <2>3. (256 - 0) % 256 = 0 /\ 255 - 0 = 255
    BY SMT
  <2>4. CASE zero(4)
    BY <1>5, <2>1, <2>2, <2>3, <2>4
  <2>5. CASE ~zero(4)
    BY <1>5, <2>1, <2>2, <2>3, <2>5
  <2> QED
    BY <2>4, <2>5
<1>7. \E b \in {0, 255} : \A k \in 4 .. 8 : rest[k] = b
  BY <1>2, <1>5, <1>6 DEF w
<1> QED
  BY <1>3, <1>7, ShortIsSmall DEF rest

\* The third integer of a time is always 0.
LEMMA NoughtLength ==
  /\ Len(bert_encode_int(Word(0, 4))) = 2
  /\ bert_data_sizeof_int(Int64(0)) = 1
<1>1. \A w \in Nat : Word(0, w) = [k \in 1 .. w |-> 0]
  <2>1. ASSUME NEW w \in Nat, NEW k \in 1 .. w
        PROVE  (IF k <= 4 THEN (0 \div Weight[k]) % 256 ELSE IF 0 < 0 THEN 255 ELSE 0) = 0
    <3>1. CASE k <= 4
      <4>1. k \in 1 .. 4
        BY <3>1
      <4>2. Weight[k] \in {1, 256, 65536, 16777216}
        BY <4>1 DEF Weight
      <4>3. (0 \div Weight[k]) % 256 = 0
        BY <4>2, SMT
      <4> QED
        BY <3>1, <4>3
    <3> QED
      BY <3>1
  <2> QED
    BY <2>1 DEF Word
<1> DEFINE a == Word(0, 4)
           b == Word(0, 8)
<1>2. a \in [1 .. 4 -> Byte] /\ b \in Octets
  <2>1. 0 \in Int /\ 4 \in Nat /\ 8 \in Nat
    OBVIOUS
  <2> QED
    BY <2>1, WordIsBytes DEF Octets
<1>3. (\A k \in 1 .. 4 : a[k] = 0) /\ (\A k \in 1 .. 8 : b[k] = 0)
  BY <1>1
<1> HIDE DEF a, b
<1>4. ByteCount(a) <= 1
  <2>1. 4 \in Nat
    OBVIOUS
  <2>2. ByteCount(a) \in 0 .. 4 /\ (ByteCount(a) > 0 => a[ByteCount(a)] # 0)
    BY <1>2, <2>1, ByteCountInside
  <2> QED
    BY <1>3, <2>2
<1>5. Len(bert_encode_int(a)) = 2
  BY <1>2, <1>4, IntTokenLength
<1>6. IsSmall(b)
  BY <1>2, <1>3, ShortIsSmall
<1>7. IntOf(b) = 0
  BY <1>2, <1>3, IntOfWord
<1>8. bert_data_sizeof_int(b) = 1
  BY <1>6, <1>7 DEF bert_data_sizeof_int
<1> QED
  BY <1>5, <1>8 DEF a, b, Int64

(***************************************************************************)
(* How long tokens are                                                     *)
(***************************************************************************)

\* A magic byte and what follows it are one byte more than what follows.
LEMMA MagicLength ==
  ASSUME NEW first, NEW rest \in Seq(Byte), NEW n \in Nat, Len(rest) = n
  PROVE  Len(<<first>> \o rest) = 1 + n
<1> DEFINE S == Byte \union {first}
           head == <<first>>
<1>1. rest \in Seq(S)
  BY SeqMonotonic
<1>2. first \in S
  OBVIOUS
<1> HIDE DEF S
<1>3. head \in Seq(S) /\ Len(head) = 1
  BY <1>2
<1> HIDE DEF head
<1>4. Len(head \o rest) = Len(head) + Len(rest)
  BY <1>1, <1>3, ConcatProperties
<1> QED
  BY <1>3, <1>4 DEF head

\* A field is as long as its word.
LEMMA FieldLength ==
  ASSUME NEW n \in Nat, NEW w \in Nat
  PROVE  BigEndian(Word(n, w)) \in Seq(Byte) /\ Len(BigEndian(Word(n, w))) = w
<1>1. n \in Int
  OBVIOUS
<1>2. Word(n, w) \in [1 .. w -> Byte]
  BY <1>1, WordIsBytes
<1>3. BigEndian(Word(n, w)) \in [1 .. w -> Byte]
  BY <1>2, ReverseIsBytes
<1> QED
  BY <1>3, BytesAreSeq

\* bert_encode_atom, _string and _bin write the magic byte, the length and the text.
LEMMA TextLengths ==
  ASSUME NEW text \in Seq(Byte)
  PROVE  /\ Len(Atom(text)) = 3 + Len(text)
         /\ Len(bert_encode_string(text)) = 5 + Len(text)
         /\ Len(bert_encode_bin(text)) = 5 + Len(text)
<1>1. Len(text) \in Nat
  BY LenProperties
<1>2. ASSUME NEW first, NEW w \in Nat
      PROVE  Len(<<first>> \o BigEndian(Word(Len(text), w)) \o text) = 1 + w + Len(text)
  <2> DEFINE size == BigEndian(Word(Len(text), w))
             S == Byte \union {first}
             head == <<first>>
  <2>1. size \in Seq(Byte) /\ Len(size) = w
    BY <1>1, FieldLength
  <2> HIDE DEF size
  <2>2. size \in Seq(S) /\ text \in Seq(S) /\ first \in S
    BY <2>1, SeqMonotonic
  <2> HIDE DEF S
  <2>3. head \in Seq(S) /\ Len(head) = 1
    BY <2>2
  <2> HIDE DEF head
  <2>4. head \o size \in Seq(S) /\ Len(head \o size) = 1 + w
    BY <2>1, <2>2, <2>3, ConcatProperties, ZenonT(40)
  <2>5. Len((head \o size) \o text) = (1 + w) + Len(text)
    BY <2>2, <2>4, ConcatProperties
  <2> QED
    BY <2>5 DEF size, head
<1>3. 2 \in Nat /\ 4 \in Nat
  OBVIOUS
<1>4. Len(Atom(text)) = 1 + 2 + Len(text)
  BY <1>2, <1>3 DEF Atom
<1>5. /\ Len(bert_encode_string(text)) = 1 + 4 + Len(text)
      /\ Len(bert_encode_bin(text)) = 1 + 4 + Len(text)
  BY <1>2, <1>3 DEF bert_encode_string, bert_encode_bin
<1> QED
  BY <1>1, <1>4, <1>5

\* The header of a tuple is two bytes long or five, that of a list five.
LEMMA HeaderLengths ==
  ASSUME NEW n \in Nat
  PROVE  /\ Len(ListHeader(n)) = 5
         /\ Len(TupleHeader(n)) = IF n <= 255 THEN 2 ELSE 5
<1>1. ASSUME NEW first PROVE Len(<<first>> \o BigEndian(Word(n, 4))) = 1 + 4
  <2>1. 4 \in Nat
    OBVIOUS
  <2>2. BigEndian(Word(n, 4)) \in Seq(Byte) /\ Len(BigEndian(Word(n, 4))) = 4
    BY <2>1, FieldLength
  <2> QED
    BY <2>1, <2>2, MagicLength, Zenon
<1>2. Len(ListHeader(n)) = 1 + 4
  BY <1>1 DEF ListHeader
<1>3. CASE n <= 255
  <2>1. TupleHeader(n) = <<BERT_SMALL_TUPLE, n>>
    BY <1>3 DEF TupleHeader
  <2> QED
    BY <1>2, <1>3, <2>1
<1>4. CASE ~(n <= 255)
  <2>1. TupleHeader(n) = <<BERT_LARGE_TUPLE>> \o BigEndian(Word(n, 4))
    BY <1>4 DEF TupleHeader
  <2>2. Len(TupleHeader(n)) = 1 + 4
    BY <1>1, <2>1, Zenon
  <2> QED
    BY <1>2, <1>4, <2>2
<1> QED
  BY <1>3, <1>4

\* A float is 31 bytes of text, whatever its value.
LEMMA FloatLength ==
  ASSUME NEW bytes \in Seq(Byte), Len(bytes) = 1
  PROVE  Len(bert_encode_float(bytes)) = 32
<1>1. bytes[1] \in Byte
  BY ElementOfSeq
<1> DEFINE first == IF bytes[1] > 69 THEN 69 ELSE IF bytes[1] < 25 THEN 1 ELSE bytes[1]
           zeros == [k \in 1 .. 30 |-> 0]
<1>2. first \in Byte
  BY <1>1 DEF Byte
<1> HIDE DEF first
<1>3. zeros \in Seq(Byte) /\ Len(zeros) = 30 /\ 30 \in Nat
  BY DEF Byte
<1> HIDE DEF zeros
<1>4. Len(<<first>> \o zeros) = 1 + 30
  BY <1>3, MagicLength, Zenon
<1>5. <<first>> \o zeros \in Seq(Byte)
  <2>1. <<first>> \in Seq(Byte)
    BY <1>2
  <2> QED
    BY <1>3, <2>1, ConcatProperties
<1>6. FloatText(bytes) = <<first>> \o zeros
  BY DEF FloatText, first, zeros
<1>7. FloatText(bytes) \in Seq(Byte) /\ Len(FloatText(bytes)) = 31 /\ 31 \in Nat
  BY <1>4, <1>5, <1>6
<1>8. Len(bert_encode_float(bytes)) = 1 + 31
  BY <1>7, MagicLength, Zenon DEF bert_encode_float
<1> QED
  BY <1>8

\* A name is as long in bytes as it is in letters.
LEMMA NameLength ==
  ASSUME NEW name \in WrittenTexts
  PROVE  Len(name) \in Nat /\ Len(Text(name)) = Len(name)
<1>1. PICK i \in 1 .. 26 : Names[i] = name
  BY TableOfNames
<1>2. PICK l \in 1 .. 15 : l = Len(name)
  BY <1>1, NamesAssumption, TableOfNames
<1> DEFINE j == 200 + CHOOSE p \in DOMAIN Names : Names[p] = name
<1>3. Text(name) = [k \in 1 .. l |-> j]
  BY <1>2 DEF Text
<1> HIDE DEF j
<1>4. Len(Text(name)) = l
  BY <1>3
<1> QED
  BY <1>2, <1>4

(***************************************************************************)
(* What jobs write: their own tokens, and for every push the size that     *)
(* bert_data_sizeof has for the term                                       *)
(***************************************************************************)

\* how many bytes a job writes, those of a pushed term as bert_data_sizeof has them
Cost(job) == IF job.op = "write" THEN Len(job.token) ELSE bert_data_sizeof[job.data]

\* ... and how many several jobs write together
Costs(jobs) == Total([k \in 1 .. Len(jobs) |-> Cost(jobs[k])])

\* bert_data_sizeof has a size for every term.
Sizes == bert_data_sizeof \in [Terms -> Nat]

\* These jobs write n bytes.
Weighs(jobs, n) == jobs \in Seq(JobSet) /\ Costs(jobs) = n

\* A job's cost is a number.
LEMMA CostFacts ==
  ASSUME Sizes
  PROVE  /\ \A job \in JobSet : Cost(job) \in Nat
         /\ \A t : Cost([op |-> "write", token |-> t]) = Len(t)
         /\ \A d : Cost([op |-> "push", data |-> d]) = bert_data_sizeof[d]
<1>1. \A t : Cost([op |-> "write", token |-> t]) = Len(t)
  BY DEF Cost
<1>2. \A d : Cost([op |-> "push", data |-> d]) = bert_data_sizeof[d]
  BY DEF Cost
<1>3. ASSUME NEW job \in JobSet PROVE Cost(job) \in Nat
  <2>1. CASE job \in WriteJobs
    <3>1. PICK t \in WholeTokens : job = [op |-> "write", token |-> t]
      BY <2>1 DEF WriteJobs
    <3>2. Len(t) \in Nat
      BY LenProperties DEF WholeTokens, Tokens
    <3> QED
      BY <1>1, <3>1, <3>2
  <2>2. CASE job \in PushJobs
    <3>1. PICK d \in Terms : job = [op |-> "push", data |-> d]
      BY <2>2 DEF PushJobs
    <3>2. bert_data_sizeof[d] \in Nat
      BY DEF Sizes
    <3> QED
      BY <1>2, <3>1, <3>2
  <2> QED
    BY <2>1, <2>2 DEF JobSet
<1> QED
  BY <1>1, <1>2, <1>3

\* The costs of jobs are a sequence of numbers, one by one.
LEMMA CostsOf ==
  ASSUME Sizes, NEW n \in Nat, NEW jobs \in [1 .. n -> JobSet]
  PROVE  /\ jobs \in Seq(JobSet) /\ Len(jobs) = n
         /\ [k \in 1 .. n |-> Cost(jobs[k])] \in [1 .. n -> Nat]
         /\ Costs(jobs) = Total([k \in 1 .. n |-> Cost(jobs[k])])
         /\ Costs(jobs) \in Nat
<1> DEFINE costs == [k \in 1 .. n |-> Cost(jobs[k])]
<1>1. jobs \in Seq(JobSet) /\ Len(jobs) = n
  OBVIOUS
<1>2. costs \in [1 .. n -> Nat]
  BY CostFacts
<1>3. Costs(jobs) = Total(costs)
  BY <1>1 DEF Costs
<1> HIDE DEF costs
<1>4. Total(costs) \in Nat
  <2>1. PICK f \in [0 .. n -> Nat] : Total(costs) = f[n]
    BY <1>2, TotalValue
  <2> QED
    BY <2>1
<1> QED
  BY <1>1, <1>2, <1>3, <1>4 DEF costs

\* No jobs write nothing.
LEMMA WeighsNothing == Weighs(<< >>, 0)
<1>1. << >> \in Seq(JobSet) /\ Len(<< >>) = 0
  OBVIOUS
<1>2. [k \in 1 .. 0 |-> Cost(<< >>[k])] = << >>
  OBVIOUS
<1> QED
  BY <1>1, <1>2, TotalFew DEF Weighs, Costs

\* One job writes what it costs.
LEMMA WeighsOne ==
  ASSUME Sizes, NEW job \in JobSet
  PROVE  Weighs(<<job>>, Cost(job))
<1> DEFINE jobs == <<job>>
<1>1. jobs \in Seq(JobSet) /\ Len(jobs) = 1 /\ jobs[1] = job
  OBVIOUS
<1>2. PICK c \in Nat : c = Cost(job)
  BY CostFacts
<1> HIDE DEF jobs
<1>3. [k \in 1 .. 1 |-> Cost(jobs[k])] = <<c>>
  BY <1>1, <1>2
<1>4. Costs(jobs) = Total(<<c>>)
  BY <1>1, <1>3 DEF Costs
<1> QED
  BY <1>1, <1>2, <1>4, TotalFew DEF Weighs, jobs

\* Jobs behind jobs write what both write together.
LEMMA WeighsOn ==
  ASSUME Sizes, NEW a, NEW b, NEW m, NEW n, Weighs(a, m), Weighs(b, n)
  PROVE  Weighs(a \o b, m + n) /\ m \in Nat /\ n \in Nat
<1>1. a \in Seq(JobSet) /\ b \in Seq(JobSet)
  BY DEF Weighs
<1>2. PICK k \in Nat, l \in Nat : k = Len(a) /\ l = Len(b)
  BY <1>1, LenProperties
<1>3. a \in [1 .. k -> JobSet] /\ b \in [1 .. l -> JobSet]
  BY <1>1, <1>2, LenProperties
<1> DEFINE c == a \o b
<1>4. /\ c \in Seq(JobSet) /\ Len(c) = k + l
      /\ \A i \in 1 .. k : c[i] = a[i]
      /\ \A i \in 1 .. l : c[k + i] = b[i]
  <2>1. c \in Seq(JobSet) /\ Len(c) = k + l
    BY <1>1, <1>2, ConcatProperties
  <2>2. \A i \in 1 .. k + l : c[i] = IF i <= k THEN a[i] ELSE b[i - k]
    BY <1>1, <1>2, ConcatProperties
  <2> HIDE DEF c
  <2>3. ASSUME NEW i \in 1 .. l PROVE c[k + i] = b[i]
    <3>1. k + i \in 1 .. k + l /\ ~(k + i <= k) /\ (k + i) - k = i
      OBVIOUS
    <3> QED
      BY <2>2, <3>1
  <2> QED
    BY <2>1, <2>2, <2>3
<1> HIDE DEF c
<1>5. c \in [1 .. k + l -> JobSet] /\ k + l \in Nat
  BY <1>4, LenProperties
<1> DEFINE ca == [i \in 1 .. k |-> Cost(a[i])]
           cb == [i \in 1 .. l |-> Cost(b[i])]
           cc == [i \in 1 .. k + l |-> Cost(c[i])]
<1>6. ca \in [1 .. k -> Nat] /\ Costs(a) = Total(ca) /\ Costs(a) \in Nat
  BY <1>3, CostsOf
<1>7. cb \in [1 .. l -> Nat] /\ Costs(b) = Total(cb) /\ Costs(b) \in Nat
  BY <1>3, CostsOf
<1>8. cc \in [1 .. k + l -> Nat] /\ Costs(c) = Total(cc) /\ Costs(c) \in Nat
  BY <1>5, CostsOf
<1>9. \A i \in 1 .. k : cc[i] = ca[i]
  BY <1>4
<1>10. \A i \in 1 .. l : cc[k + i] = cb[i]
  <2>1. \A i \in 1 .. l : k + i \in 1 .. k + l
    OBVIOUS
  <2> QED
    BY <1>4, <2>1
<1> HIDE DEF ca, cb, cc
<1>11. Total(cc) = Total(ca) + Total(cb)
  BY <1>6, <1>7, <1>8, <1>9, <1>10, TotalJoined
<1> QED
  BY <1>4, <1>6, <1>7, <1>8, <1>11 DEF Weighs, c

\* Without the first, the others write the rest.
LEMMA WeighsTail ==
  ASSUME Sizes, NEW a, NEW n, Weighs(a, n), a # << >>
  PROVE  /\ Head(a) \in JobSet /\ Cost(Head(a)) \in Nat
         /\ \E m \in Nat : Weighs(Tail(a), m) /\ n = Cost(Head(a)) + m
<1>1. a \in Seq(JobSet)
  BY DEF Weighs
<1>2. Head(a) \in JobSet /\ Tail(a) \in Seq(JobSet) /\ a = <<Head(a)>> \o Tail(a)
  BY <1>1, HeadTailProperties
<1> DEFINE first == Head(a)
           rest == Tail(a)
           m == Costs(rest)
<1> HIDE DEF first, rest
<1>3. Weighs(rest, m) /\ first \in JobSet /\ a = <<first>> \o rest
  BY <1>2 DEF Weighs, first, rest
<1> HIDE DEF m
<1>4. Weighs(<<first>>, Cost(first))
  BY <1>3, WeighsOne
<1>5. Weighs(<<first>> \o rest, Cost(first) + m) /\ Cost(first) \in Nat /\ m \in Nat
  BY <1>3, <1>4, WeighsOn
<1>6. n = Cost(first) + m
  BY <1>3, <1>5 DEF Weighs
<1> QED
  BY <1>3, <1>5, <1>6 DEF first, rest

\* The write of a token writes its bytes, ...
LEMMA WeighsWrite ==
  ASSUME Sizes, NEW t \in WholeTokens
  PROVE  Weighs(Writes(<<t>>), Len(t))
<1> DEFINE job == [op |-> "write", token |-> t]
<1>1. job \in JobSet
  BY JobFacts
<1>2. Cost(job) = Len(t)
  BY CostFacts
<1>3. Writes(<<t>>) = <<job>>
  BY DEF Writes
<1> HIDE DEF job
<1>4. Weighs(<<job>>, Cost(job))
  BY <1>1, WeighsOne
<1> QED
  BY <1>2, <1>3, <1>4

\* ... of two, those of both,
LEMMA WeighsTwo ==
  ASSUME Sizes, NEW t \in WholeTokens, NEW u \in WholeTokens
  PROVE  Weighs(Writes(<<t, u>>), Len(t) + Len(u))
<1>1. Weighs(Writes(<<t>>), Len(t)) /\ Weighs(Writes(<<u>>), Len(u))
  BY WeighsWrite
<1>2. Writes(<<t, u>>) = Writes(<<t>>) \o Writes(<<u>>)
  <2> DEFINE J(x) == [op |-> "write", token |-> x]
  <2>1. /\ Writes(<<t, u>>) = <<J(t), J(u)>>
        /\ Writes(<<t>>) = <<J(t)>> /\ Writes(<<u>>) = <<J(u)>>
    BY DEF Writes
  <2> HIDE DEF J
  <2>2. <<J(t), J(u)>> = <<J(t)>> \o <<J(u)>>
    OBVIOUS
  <2> QED
    BY <2>1, <2>2
<1> QED
  BY <1>1, <1>2, WeighsOn

\* ... and of three, those of all.
LEMMA WeighsThree ==
  ASSUME Sizes, NEW t \in WholeTokens, NEW u \in WholeTokens, NEW v \in WholeTokens
  PROVE  Weighs(Writes(<<t, u, v>>), (Len(t) + Len(u)) + Len(v))
<1>1. Weighs(Writes(<<t, u>>), Len(t) + Len(u)) /\ Weighs(Writes(<<v>>), Len(v))
  BY WeighsTwo, WeighsWrite
<1>2. Writes(<<t, u, v>>) = Writes(<<t, u>>) \o Writes(<<v>>)
  <2> DEFINE J(x) == [op |-> "write", token |-> x]
  <2>1. /\ Writes(<<t, u, v>>) = <<J(t), J(u), J(v)>>
        /\ Writes(<<t, u>>) = <<J(t), J(u)>> /\ Writes(<<v>>) = <<J(v)>>
    BY DEF Writes
  <2> HIDE DEF J
  <2>2. <<J(t), J(u), J(v)>> = <<J(t), J(u)>> \o <<J(v)>>
    OBVIOUS
  <2> QED
    BY <2>1, <2>2
<1> QED
  BY <1>1, <1>2, WeighsOn

\* Pushes write what the terms' sizes are together.
LEMMA WeighsPushes ==
  ASSUME Sizes, NEW kids \in Seq(Terms)
  PROVE  Weighs(Pushes(kids), Total([k \in DOMAIN kids |-> bert_data_sizeof[kids[k]]]))
<1>1. PICK l \in Nat : l = Len(kids) /\ kids \in [1 .. l -> Terms]
  BY LenProperties
<1> DEFINE jobs == Pushes(kids)
<1>2. jobs = [k \in 1 .. l |-> [op |-> "push", data |-> kids[k]]] /\ DOMAIN kids = 1 .. l
  BY <1>1 DEF Pushes
<1> HIDE DEF jobs
<1>3. ASSUME NEW k \in 1 .. l
      PROVE  jobs[k] \in JobSet /\ Cost(jobs[k]) = bert_data_sizeof[kids[k]]
  <2>1. kids[k] \in Terms /\ jobs[k] = [op |-> "push", data |-> kids[k]]
    BY <1>1, <1>2
  <2> QED
    BY <2>1, JobFacts, CostFacts
<1>4. jobs \in [1 .. l -> JobSet]
  BY <1>2, <1>3
<1>5. jobs \in Seq(JobSet) /\ Costs(jobs) = Total([k \in 1 .. l |-> Cost(jobs[k])])
  BY <1>4, CostsOf
<1>6. [k \in 1 .. l |-> Cost(jobs[k])] = [k \in DOMAIN kids |-> bert_data_sizeof[kids[k]]]
  BY <1>2, <1>3
<1> QED
  BY <1>5, <1>6 DEF Weighs, jobs

\* The jobs of a loop write what its turns write together.
LEMMA WeighsFlattened ==
  ASSUME Sizes, NEW n \in Nat, NEW seqs \in [1 .. n -> Seq(JobSet)], NEW c \in [1 .. n -> Nat],
         \A i \in 1 .. n : Weighs(seqs[i], c[i])
  PROVE  Weighs(FlattenSeq(seqs), Total(c))
<1>1. PICK f \in [0 .. n -> Seq(JobSet)] : Joined(f, seqs) /\ FlattenSeq(seqs) = f[n]
  BY FlattenValue
<1>2. PICK g \in [0 .. n -> Nat] : Adds(g, c, n) /\ Total(c) = g[n]
  BY TotalValue
<1> DEFINE Done == {k \in Nat : k <= n => Weighs(f[k], g[k])}
<1>3. 0 \in Done
  BY <1>1, <1>2, WeighsNothing DEF Joined, Adds
<1>4. ASSUME NEW k \in Nat, k \in Done PROVE k + 1 \in Done
  <2> SUFFICES ASSUME k + 1 <= n PROVE Weighs(f[k + 1], g[k + 1])
    OBVIOUS
  <2>1. k + 1 \in 1 .. n /\ (k + 1) - 1 = k /\ Len(seqs) = n
    OBVIOUS
  <2>2. Weighs(f[k], g[k])
    BY <1>4
  <2>3. Weighs(seqs[k + 1], c[k + 1])
    BY <2>1
  <2>4. f[k + 1] = f[k] \o seqs[k + 1]
    BY <1>1, <2>1 DEF Joined
  <2>5. g[k + 1] = g[k] + c[k + 1]
    BY <1>2, <2>1 DEF Adds
  <2> QED
    BY <2>2, <2>3, <2>4, <2>5, WeighsOn
<1> HIDE DEF Done
<1>5. n \in Done
  BY <1>3, <1>4, Induction
<1> QED
  BY <1>1, <1>2, <1>5 DEF Done

\* The header of a complex term, a tuple's, `bert` and the name, writes ComplexSize bytes and
\* the name's.
LEMMA WeighsComplex ==
  ASSUME Sizes, NEW name \in WrittenTexts, NEW n \in 0 .. 3
  PROVE  Weighs(bert_encode_complex_header(name, n), ComplexSize(Len(name)))
<1>1. TupleHeader(n + 2) \in WholeTokens /\ Len(TupleHeader(n + 2)) = 2
  <2>1. n + 2 \in Nat /\ n + 2 < 2^32 /\ n + 2 <= 255
    BY SMT
  <2> QED
    BY <2>1, HeaderTokens, AnnouncedIsWhole, HeaderLengths
<1>2. "bert" \in WrittenTexts /\ 0 \in Nat
  BY DEF WrittenTexts, OtherTexts
<1>3. \A word \in WrittenTexts :
        Atom(Text(word)) \in WholeTokens /\ Len(Atom(Text(word))) = 3 + Len(word)
  <2> TAKE word \in WrittenTexts
  <2>1. Text(word) \in Seq(Byte) /\ Len(Text(word)) = Len(word)
    BY NameIsText, NameLength
  <2> QED
    BY <1>2, <2>1, TextTokens, TextLengths, AnnouncedIsWhole
<1>4. PICK l \in Nat : l = Len(name)
  BY NameLength
<1> DEFINE a == TupleHeader(n + 2)
           b == Atom(Text("bert"))
           c == Atom(Text(name))
<1>5. bert_encode_complex_header(name, n) = Writes(<<a, b, c>>)
  BY DEF bert_encode_complex_header
<1>6. /\ a \in WholeTokens /\ b \in WholeTokens /\ c \in WholeTokens
      /\ Len(a) = 2 /\ Len(b) = 3 + Len("bert") /\ Len(c) = 3 + Len(name)
  BY <1>1, <1>2, <1>3
<1> HIDE DEF a, b, c
<1>7. Weighs(Writes(<<a, b, c>>), (Len(a) + Len(b)) + Len(c))
  BY <1>6, WeighsThree
<1>8. Len("bert") = 4
  BY NamesAssumption, Zenon
<1>9. (2 + (3 + 4)) + (3 + l) = ComplexSize(l)
  BY DEF ComplexSize
<1>10. Weighs(Writes(<<a, b, c>>), (2 + (3 + 4)) + (3 + l))
  BY <1>4, <1>6, <1>7, <1>8, Zenon
<1>11. Weighs(Writes(<<a, b, c>>), ComplexSize(l))
  BY <1>9, <1>10
<1> QED
  BY <1>4, <1>5, <1>11

(***************************************************************************)
(* What bert_data_sizeof counts, and what a push writes and pushes, for the *)
(* types of terms one by one                                               *)
(***************************************************************************)

\* the sizes of a term's elements together
KidsSize(d) == Total([k \in DOMAIN d.kids |-> bert_data_sizeof[d.kids[k]]])

\* bert_data_sizeof of the terms that write a token of their own
LEMMA SizeOfOne ==
  ASSUME NEW d, NEW kids
  PROVE  /\ d.type = "int" => SizeWith(d, kids) = 1 + bert_data_sizeof_int(d.bytes)
         /\ d.type = "float" => SizeWith(d, kids) = 1 + 31
         /\ d.type = "atom" => SizeWith(d, kids) = 1 + 2 + Len(d.bytes)
         /\ d.type \in {"string", "bin"} => SizeWith(d, kids) = 1 + 4 + Len(d.bytes)
BY DEF SizeWith

\* ... of the complex terms without elements
LEMMA SizeOfComplex ==
  ASSUME NEW d, NEW kids
  PROVE  /\ d.type = "nil" => SizeWith(d, kids) = ComplexSize(3)
         /\ d.type = "boolean" /\ d.bytes[1] = 1 => SizeWith(d, kids) = ComplexSize(4)
         /\ d.type = "boolean" /\ d.bytes[1] = 0 => SizeWith(d, kids) = ComplexSize(5)
<1>1. d.type = "nil" => SizeWith(d, kids) = ComplexSize(3)
  BY DEF SizeWith
<1>2. ASSUME d.type = "boolean"
      PROVE  SizeWith(d, kids) = CASE d.bytes[1] = 1 -> ComplexSize(4)
                                   [] d.bytes[1] = 0 -> ComplexSize(5)
                                   [] OTHER          -> 1 + (1 + 1 + 2 + 4)
  BY <1>2 DEF SizeWith
<1>3. d.bytes[1] = 0 => d.bytes[1] # 1
  OBVIOUS
<1> QED
  BY <1>1, <1>2, <1>3

\* ... of the terms with elements
LEMMA SizeOfCompound ==
  ASSUME NEW d, NEW kids
  PROVE  /\ d.type = "tuple" => SizeWith(d, kids) = 1 + (IF Len(d.kids) <= 255 THEN 1 ELSE 4) + kids
         /\ d.type = "list" => SizeWith(d, kids) = 1 + 4 + kids
         /\ d.type = "dict" =>
              SizeWith(d, kids)
                = ComplexSize(4) + (1 + 4) + (1 + 1) * (Len(d.kids) \div 2) + kids
BY DEF SizeWith

\* the option at a bit of a regex, as it is measured
OptionSize(name) == IF name = "" THEN 0 ELSE 1 + 2 + Len(name)

\* ... of a regex and of a time
LEMMA SizeOfMixed ==
  ASSUME NEW d, NEW kids
  PROVE  /\ d.type = "regex" =>
              SizeWith(d, kids) = ComplexSize(5) + (1 + 4 + Len(d.bytes)) + (1 + 4)
                + Total([k \in 1 .. 4 |-> OptionSize(OptionName(d.options, k - 1))])
         /\ d.type = "time" =>
              SizeWith(d, kids) = ComplexSize(4)
                + (1 + bert_data_sizeof_int(TimeParts(d.bytes).quotient))
                + (1 + bert_data_sizeof_int(TimeParts(d.bytes).rest))
                + (1 + bert_data_sizeof_int(Int64(0)))
<1>1. d.type = "regex" =>
              SizeWith(d, kids) = ComplexSize(5) + (1 + 4 + Len(d.bytes)) + (1 + 4)
                + Total([k \in 1 .. 4 |-> OptionSize(OptionName(d.options, k - 1))])
  BY DEF SizeWith, OptionSize
<1>2. d.type = "time" =>
              SizeWith(d, kids) = ComplexSize(4)
                + (1 + bert_data_sizeof_int(TimeParts(d.bytes).quotient))
                + (1 + bert_data_sizeof_int(TimeParts(d.bytes).rest))
                + (1 + bert_data_sizeof_int(Int64(0)))
  BY DEF SizeWith
<1> QED
  BY <1>1, <1>2

\* The jobs of a scalar write its token.
LEMMA WeighsScalar ==
  ASSUME Sizes, NEW t, Announces(t, 0)
  PROVE  Weighs(Writes(<<t>>), Len(t))
<1>1. t \in WholeTokens
  <2>1. 0 \in Nat
    OBVIOUS
  <2> QED
    BY <2>1, AnnouncedIsWhole
<1> QED
  BY <1>1, WeighsWrite

\* The headers of the complex terms there are write what is measured.
LEMMA WeighsNamed ==
  ASSUME Sizes, NEW n \in 0 .. 3
  PROVE  /\ Weighs(bert_encode_complex_header("nil", n), ComplexSize(3))
         /\ Weighs(bert_encode_complex_header("true", n), ComplexSize(4))
         /\ Weighs(bert_encode_complex_header("false", n), ComplexSize(5))
         /\ Weighs(bert_encode_complex_header("dict", n), ComplexSize(4))
         /\ Weighs(bert_encode_complex_header("regex", n), ComplexSize(5))
         /\ Weighs(bert_encode_complex_header("time", n), ComplexSize(4))
<1>1. \A name \in OtherTexts : Weighs(bert_encode_complex_header(name, n), ComplexSize(Len(name)))
  BY WeighsComplex DEF WrittenTexts
<1>2. {"nil", "true", "false", "dict", "regex", "time"} \subseteq OtherTexts
  BY DEF OtherTexts
<1>3. /\ Len("nil") = 3 /\ Len("true") = 4 /\ Len("time") = 4
      /\ Len("dict") = 4 /\ Len("false") = 5 /\ Len("regex") = 5
  BY NamesAssumption, Zenon
<1> QED
  BY <1>1, <1>2, <1>3, Zenon

\* every second sum of a sequence of pairs
LEMMA TotalOfPairs ==
  ASSUME NEW n \in Nat, NEW s \in [1 .. 2 * n -> Nat], NEW c \in [1 .. n -> Nat],
         \A k \in 1 .. n : c[k] = 2 + (s[2 * k - 1] + s[2 * k])
  PROVE  Total(c) = 2 * n + Total(s) /\ Total(s) \in Nat
<1>1. 2 * n \in Nat
  OBVIOUS
<1>2. PICK f \in [0 .. 2 * n -> Nat] : Adds(f, s, 2 * n) /\ Total(s) = f[2 * n]
  BY <1>1, TotalValue
<1>3. PICK g \in [0 .. n -> Nat] : Adds(g, c, n) /\ Total(c) = g[n]
  BY TotalValue
<1> DEFINE Done == {k \in Nat : k <= n => g[k] = 2 * k + f[2 * k]}
<1>4. 0 \in Done
  BY <1>2, <1>3 DEF Adds
<1>5. ASSUME NEW k \in Nat, k \in Done PROVE k + 1 \in Done
  <2> SUFFICES ASSUME k + 1 <= n PROVE g[k + 1] = 2 * (k + 1) + f[2 * (k + 1)]
    OBVIOUS
  <2>1. /\ k + 1 \in 1 .. n /\ (k + 1) - 1 = k /\ 2 * k \in 0 .. 2 * n
        /\ 2 * k + 1 \in 1 .. 2 * n /\ (2 * k + 1) - 1 = 2 * k
        /\ 2 * (k + 1) \in 1 .. 2 * n /\ 2 * (k + 1) - 1 = 2 * k + 1
    OBVIOUS
  <2>2. f[2 * k + 1] = f[2 * k] + s[2 * k + 1]
    BY <1>2, <2>1 DEF Adds
  <2>3. f[2 * (k + 1)] = f[2 * k + 1] + s[2 * (k + 1)]
    BY <1>2, <2>1 DEF Adds
  <2>4. g[k + 1] = g[k] + c[k + 1]
    BY <1>3, <2>1 DEF Adds
  <2>5. c[k + 1] = 2 + (s[2 * k + 1] + s[2 * (k + 1)])
    BY <2>1
  <2>6. g[k] = 2 * k + f[2 * k]
    BY <1>5
  <2>7. PICK a \in Nat, b \in Nat, e \in Nat :
          a = f[2 * k] /\ b = s[2 * k + 1] /\ e = s[2 * (k + 1)]
    BY <2>1
  <2>8. f[2 * (k + 1)] = (a + b) + e /\ g[k + 1] = (2 * k + a) + (2 + (b + e))
    BY <2>2, <2>3, <2>4, <2>5, <2>6, <2>7
  <2>9. (2 * k + a) + (2 + (b + e)) = 2 * (k + 1) + ((a + b) + e)
    OBVIOUS
  <2> QED
    BY <2>8, <2>9
<1> HIDE DEF Done
<1>6. n \in Done
  BY <1>4, <1>5, Induction
<1> QED
  BY <1>1, <1>2, <1>3, <1>6 DEF Done

\* the pairs of a dict: a header of two bytes each, and what the keys and values are together
LEMMA WeighsPairs ==
  ASSUME Sizes, NEW kids \in Seq(Terms), NEW n \in Nat, Len(kids) = 2 * n
  PROVE  /\ Total([k \in DOMAIN kids |-> bert_data_sizeof[kids[k]]]) \in Nat
         /\ Weighs(FlattenSeq([k \in 1 .. n |->
                     Writes(<<TupleHeader(2)>>) \o Pushes(<<kids[2 * k - 1], kids[2 * k]>>)]),
                   2 * n + Total([k \in DOMAIN kids |-> bert_data_sizeof[kids[k]]]))
<1> DEFINE Pair(k) == Writes(<<TupleHeader(2)>>) \o Pushes(<<kids[2 * k - 1], kids[2 * k]>>)
           seqs == [k \in 1 .. n |-> Pair(k)]
           s == [k \in 1 .. 2 * n |-> bert_data_sizeof[kids[k]]]
           c == [k \in 1 .. n |-> 2 + (s[2 * k - 1] + s[2 * k])]
<1>1. kids \in [1 .. 2 * n -> Terms] /\ DOMAIN kids = 1 .. 2 * n
  BY LenProperties
<1>2. s \in [1 .. 2 * n -> Nat]
  BY <1>1 DEF Sizes
<1>3. s = [k \in DOMAIN kids |-> bert_data_sizeof[kids[k]]]
  BY <1>1
<1>4. \A k \in 1 .. n : 2 * k - 1 \in 1 .. 2 * n /\ 2 * k \in 1 .. 2 * n
  OBVIOUS
<1>5. c \in [1 .. n -> Nat]
  <2> HIDE DEF s
  <2> QED
    BY <1>2, <1>4
<1>6. ASSUME NEW k \in 1 .. n PROVE Weighs(Pair(k), c[k])
  <2>1. kids[2 * k - 1] \in Terms /\ kids[2 * k] \in Terms
    BY <1>1, <1>4
  <2>2. PICK a \in Terms, b \in Terms : a = kids[2 * k - 1] /\ b = kids[2 * k]
    BY <2>1
  <2>3. PICK p \in Nat, q \in Nat : p = bert_data_sizeof[a] /\ q = bert_data_sizeof[b]
    BY DEF Sizes
  <2>4. <<a, b>> \in Seq(Terms) /\ DOMAIN <<a, b>> = 1 .. 2
    OBVIOUS
  <2>5. [j \in DOMAIN <<a, b>> |-> bert_data_sizeof[<<a, b>>[j]]] = <<p, q>>
    BY <2>3, <2>4
  <2>6. Weighs(Pushes(<<a, b>>), Total(<<p, q>>))
    BY <2>4, <2>5, WeighsPushes
  <2>7. Total(<<p, q>>) = p + q
    <3>1. <<p, q>> \in [1 .. 1 + 1 -> Nat] /\ <<p>> \in [1 .. 1 -> Nat] /\ <<q>> \in [1 .. 1 -> Nat]
      OBVIOUS
    <3>2. /\ \A i \in 1 .. 1 : <<p, q>>[i] = <<p>>[i]
          /\ \A i \in 1 .. 1 : <<p, q>>[1 + i] = <<q>>[i]
      OBVIOUS
    <3>3. 1 \in Nat
      OBVIOUS
    <3>4. Total(<<p, q>>) = Total(<<p>>) + Total(<<q>>)
      BY <3>1, <3>2, <3>3, TotalJoined, ZenonT(40)
    <3> QED
      BY <3>4, TotalFew
  <2>8. TupleHeader(2) \in WholeTokens /\ Len(TupleHeader(2)) = 2
    <3>1. 2 \in Nat /\ 2 <= 255
      OBVIOUS
    <3> QED
      BY <3>1, HeaderIsWhole, HeaderLengths, Zenon
  <2>9. Weighs(Writes(<<TupleHeader(2)>>), 2)
    BY <2>8, WeighsWrite
  <2>10. Weighs(Writes(<<TupleHeader(2)>>) \o Pushes(<<a, b>>), 2 + (p + q))
    BY <2>6, <2>7, <2>9, WeighsOn
  <2>11. Pair(k) = Writes(<<TupleHeader(2)>>) \o Pushes(<<a, b>>)
    BY <2>2
  <2>12. c[k] = 2 + (p + q)
    BY <1>4, <2>2, <2>3
  <2> QED
    BY <2>10, <2>11, <2>12
<1> HIDE DEF Pair
<1>7. seqs \in [1 .. n -> Seq(JobSet)]
  BY <1>6 DEF Weighs
<1>8. \A k \in 1 .. n : c[k] = 2 + (s[2 * k - 1] + s[2 * k])
  OBVIOUS
<1>9. \A k \in 1 .. n : seqs[k] = Pair(k)
  OBVIOUS
<1>10. FlattenSeq(seqs) = FlattenSeq([k \in 1 .. n |->
                     Writes(<<TupleHeader(2)>>) \o Pushes(<<kids[2 * k - 1], kids[2 * k]>>)])
  BY DEF Pair
<1> HIDE DEF seqs, c, s
<1>11. Weighs(FlattenSeq(seqs), Total(c))
  BY <1>5, <1>6, <1>7, <1>9, WeighsFlattened
<1>12. Total(c) = 2 * n + Total(s) /\ Total(s) \in Nat
  BY <1>2, <1>5, <1>8, TotalOfPairs
<1> QED
  BY <1>3, <1>10, <1>11, <1>12

\* A dict writes what is measured.
LEMMA WeighsDict ==
  ASSUME Sizes, NEW d \in Terms, d.type = "dict"
  PROVE  Weighs(Jobs(d), SizeWith(d, KidsSize(d)))
<1> DEFINE kids == d.kids
           n == Len(kids) \div 2
           pairs == FlattenSeq([k \in 1 .. n |->
                      Writes(<<TupleHeader(2)>>) \o Pushes(<<kids[2 * k - 1], kids[2 * k]>>)])
           header == bert_encode_complex_header("dict", 1)
           list == Writes(<<ListHeader(n)>>)
<1>1. kids \in Seq(Terms) /\ Len(kids) \in Nat /\ Len(kids) % 2 = 0
  BY TermsAssumption, LenProperties
<1>2. Jobs(d) = header \o list \o pairs
  BY JobsOfCompound DEF bert_encode_dict
<1>3. SizeWith(d, KidsSize(d)) = ComplexSize(4) + (1 + 4) + (1 + 1) * n + KidsSize(d)
  BY SizeOfCompound
<1>4. KidsSize(d) = Total([k \in DOMAIN kids |-> bert_data_sizeof[kids[k]]])
  BY DEF KidsSize
<1> HIDE DEF kids
<1>5. n \in Nat /\ Len(kids) = 2 * n
  BY <1>1
<1> HIDE DEF n
<1>6. Weighs(pairs, 2 * n + KidsSize(d)) /\ KidsSize(d) \in Nat
  BY <1>1, <1>4, <1>5, WeighsPairs
<1>7. ListHeader(n) \in WholeTokens /\ Len(ListHeader(n)) = 5
  BY <1>5, HeaderIsWhole, HeaderLengths
<1>8. Weighs(list, 5)
  BY <1>7, WeighsWrite
<1>9. Weighs(header, ComplexSize(4))
  <2>1. 1 \in 0 .. 3
    OBVIOUS
  <2> QED
    BY <2>1, WeighsNamed
<1> HIDE DEF pairs, header, list
<1>10. Weighs(header \o list \o pairs, (ComplexSize(4) + 5) + (2 * n + KidsSize(d)))
  BY <1>6, <1>8, <1>9, WeighsOn
<1>11. PICK k \in Nat : k = KidsSize(d)
  BY <1>6
<1>12. (ComplexSize(4) + 5) + (2 * n + k) = ComplexSize(4) + (1 + 4) + (1 + 1) * n + k
  BY <1>5 DEF ComplexSize
<1> QED
  BY <1>2, <1>3, <1>10, <1>11, <1>12

\* An option writes what is measured, where it is set and where it is not.
LEMMA WeighsOption ==
  ASSUME Sizes, NEW options, NEW i \in 0 .. 3, NEW name, name = OptionName(options, i)
  PROVE  /\ OptionSize(name) \in Nat
         /\ Weighs(IF name = "" THEN << >> ELSE Writes(<<Atom(Text(name))>>), OptionSize(name))
<1>1. CASE name = ""
  <2>1. OptionSize(name) = 0
    BY <1>1 DEF OptionSize
  <2>2. 0 \in Nat
    OBVIOUS
  <2>3. OptionSize(name) \in Nat
    BY <2>1, <2>2, Zenon
  <2>4. Weighs(<< >>, OptionSize(name))
    BY <2>1, WeighsNothing, Zenon
  <2> QED
    BY <1>1, <2>3, <2>4, Zenon
<1>2. CASE name # ""
  <2>1. name \in WrittenTexts
    BY <1>2, OptionNames, Zenon
  <2>2. Text(name) \in Seq(Byte) /\ Len(Text(name)) = Len(name) /\ Len(name) \in Nat
    BY <2>1, NameIsText, NameLength
  <2>3. Announces(Atom(Text(name)), 0) /\ Len(Atom(Text(name))) = 3 + Len(name)
    BY <2>2, TextTokens, TextLengths
  <2>4. PICK l \in Nat : l = Len(name)
    BY <2>2
  <2>5. OptionSize(name) = 1 + 2 + l
    BY <1>2, <2>4, Zenon DEF OptionSize
  <2>6. 1 + 2 + l = 3 + l /\ 3 + l \in Nat
    OBVIOUS
  <2>7. Weighs(Writes(<<Atom(Text(name))>>), 3 + l)
    BY <2>3, <2>4, WeighsScalar
  <2> QED
    BY <1>2, <2>5, <2>6, <2>7, Zenon
<1> QED
  BY <1>1, <1>2

\* A regex writes what is measured, whatever options are set.
LEMMA WeighsRegex ==
  ASSUME Sizes, NEW d \in Terms, d.type = "regex"
  PROVE  Weighs(Jobs(d), SizeWith(d, KidsSize(d)))
<1> DEFINE source == d.bytes
           options == d.options
           Named(name) == IF name = "" THEN << >> ELSE Writes(<<Atom(Text(name))>>)
           seqs == [k \in 1 .. 4 |-> Named(OptionName(options, k - 1))]
           c == [k \in 1 .. 4 |-> OptionSize(OptionName(options, k - 1))]
           n == Cardinality(OptionsSeen(options))
           header == bert_encode_complex_header("regex", 2)
           two == Writes(<<bert_encode_bin(source), ListHeader(n)>>)
<1>1. source \in Seq(Byte)
  BY TermsAssumption
<1>2. Jobs(d) = header \o two \o FlattenSeq(seqs)
  <2>1. Jobs(d) = bert_encode_regex(source, options)
    BY DEF Jobs
  <2> QED
    BY <2>1 DEF bert_encode_regex
<1>3. SizeWith(d, KidsSize(d)) = ComplexSize(5) + (1 + 4 + Len(source)) + (1 + 4) + Total(c)
  BY SizeOfMixed
<1> HIDE DEF source, options
<1>4. ASSUME NEW k \in 1 .. 4
      PROVE  c[k] \in Nat /\ Weighs(seqs[k], c[k])
  <2>1. k - 1 \in 0 .. 3
    OBVIOUS
  <2>2. PICK name : name = OptionName(options, k - 1)
    OBVIOUS
  <2>3. OptionSize(name) \in Nat /\ Weighs(Named(name), OptionSize(name))
    BY <2>1, <2>2, WeighsOption
  <2> HIDE DEF Named
  <2>4. seqs[k] = Named(name) /\ c[k] = OptionSize(name)
    BY <2>2
  <2> QED
    BY <2>3, <2>4
<1>5. c \in [1 .. 4 -> Nat]
  <2>1. c = [k \in 1 .. 4 |-> c[k]]
    OBVIOUS
  <2> HIDE DEF c
  <2> QED
    BY <1>4, <2>1
<1>6. seqs \in [1 .. 4 -> Seq(JobSet)]
  <2>1. seqs = [k \in 1 .. 4 |-> seqs[k]]
    OBVIOUS
  <2>2. \A k \in 1 .. 4 : seqs[k] \in Seq(JobSet)
    BY <1>4 DEF Weighs
  <2> HIDE DEF seqs
  <2> QED
    BY <2>1, <2>2
<1>7. n \in Nat
  <2>1. OptionsSeen(options) \subseteq 0 .. 3
    BY DEF OptionsSeen
  <2>2. IsFiniteSet(0 .. 3)
    <3>1. 0 \in Int /\ 3 \in Int
      OBVIOUS
    <3> QED
      BY <3>1, FS_Interval
  <2> QED
    BY <2>1, <2>2, FS_Subset, FS_CardinalityType
<1> HIDE DEF seqs, c, n
<1>8. Weighs(FlattenSeq(seqs), Total(c)) /\ Total(c) \in Nat
  <2>1. 4 \in Nat
    OBVIOUS
  <2>2. PICK f \in [0 .. 4 -> Nat] : Total(c) = f[4]
    BY <1>5, <2>1, TotalValue
  <2>3. Total(c) \in Nat
    BY <2>2
  <2> QED
    BY <1>4, <1>5, <1>6, <2>1, <2>3, WeighsFlattened
<1>9. PICK l \in Nat : l = Len(source)
  BY <1>1, LenProperties
<1>10. Weighs(two, (5 + l) + 5)
  <2>1. /\ bert_encode_bin(source) \in WholeTokens
        /\ Len(bert_encode_bin(source)) = 5 + l
    <3>1. 0 \in Nat
      OBVIOUS
    <3> QED
      BY <1>1, <1>9, <3>1, TextTokens, TextLengths, AnnouncedIsWhole
  <2>2. ListHeader(n) \in WholeTokens /\ Len(ListHeader(n)) = 5
    BY <1>7, HeaderIsWhole, HeaderLengths
  <2> QED
    BY <2>1, <2>2, WeighsTwo
<1>11. Weighs(header, ComplexSize(5))
  <2>1. 2 \in 0 .. 3
    OBVIOUS
  <2> QED
    BY <2>1, WeighsNamed
<1> HIDE DEF two, header
<1>12. Weighs(header \o two \o FlattenSeq(seqs), (ComplexSize(5) + ((5 + l) + 5)) + Total(c))
  BY <1>8, <1>10, <1>11, WeighsOn
<1>13. PICK t \in Nat : t = Total(c)
  BY <1>8
<1>14. (ComplexSize(5) + ((5 + l) + 5)) + t = ComplexSize(5) + (1 + 4 + l) + (1 + 4) + t
  BY DEF ComplexSize
<1> QED
  BY <1>2, <1>3, <1>9, <1>12, <1>13, <1>14

\* the terms whose integers bert_data_sizeof does not take for less than they are
Fair(d) ==
  /\ d.type = "int"  => ~Undersized(d.bytes)
  /\ d.type = "time" => /\ ~Undersized(TimeParts(d.bytes).quotient)
                        /\ ~Undersized(TimeParts(d.bytes).rest)

\* What these jobs write is no more than d is measured with, and just as much where its integers are
\* as long as measured.
Fits(d, jobs) ==
  \E n \in Nat : /\ Weighs(jobs, n)
                 /\ Fair(d) => n <= SizeWith(d, KidsSize(d))
                 /\ IntsMeasured(d) => n = SizeWith(d, KidsSize(d))

\* Jobs that write exactly what is measured fit.
LEMMA FitsExactly ==
  ASSUME NEW d, NEW jobs, NEW n \in Nat, Weighs(jobs, n), n = SizeWith(d, KidsSize(d))
  PROVE  Fits(d, jobs)
<1>1. n <= n
  OBVIOUS
<1> QED
  BY <1>1 DEF Fits

\* An int fits: Integer writes no more than bert_data_sizeof_int has.
LEMMA FitsInteger ==
  ASSUME Sizes, NEW d \in Terms, d.type = "int"
  PROVE  Fits(d, Jobs(d))
<1>1. PICK i \in Octets : i = d.bytes
  BY TermsAssumption, OctetsOf
<1>2. Jobs(d) = Writes(<<Integer(i)>>)
  BY <1>1 DEF Jobs
<1>3. SizeWith(d, KidsSize(d)) = 1 + bert_data_sizeof_int(i)
  BY <1>1, SizeOfOne
<1>4. Weighs(Jobs(d), Len(Integer(i)))
  BY <1>2, IntegerToken, WeighsScalar
<1>5. Len(Integer(i)) \in Nat
  BY IntegerToken, LenProperties DEF Announces, Tokens
<1>6. Fair(d) => Len(Integer(i)) <= 1 + bert_data_sizeof_int(i)
  BY <1>1, IntegerLength DEF Fair
<1>7. IntsMeasured(d) => Len(Integer(i)) = 1 + bert_data_sizeof_int(i)
  BY <1>1, IntegerLength, MeasuredIsNotUndersized DEF IntsMeasured
<1> QED
  BY <1>3, <1>4, <1>5, <1>6, <1>7, Zenon DEF Fits

\* the size of an int of a time
LEMMA SizeofIntType ==
  ASSUME NEW i \in Octets
  PROVE  bert_data_sizeof_int(i) \in Nat
<1>1. CASE IsSmall(i)
  BY <1>1 DEF bert_data_sizeof_int
<1>2. CASE ~IsSmall(i)
  BY <1>2, LargeIsMeasuredWhole
<1> QED
  BY <1>1, <1>2

\* A time: the casts write no more than is measured, and as much where they keep the value.
LEMMA FitsTime ==
  ASSUME Sizes, NEW d \in Terms, d.type = "time"
  PROVE  Fits(d, Jobs(d))
<1>1. PICK timestamp \in Octets : timestamp = d.bytes
  BY TermsAssumption, OctetsOf
<1> DEFINE time == TimeParts(timestamp)
           header == bert_encode_complex_header("time", 3)
<1>2. PICK q \in Octets, r \in Octets : q = time.quotient /\ r = time.rest
  BY TimeIsBytes
<1>3. IsSmall(r)
  BY <1>2, RestIsSmall
<1> DEFINE a == bert_encode_int(Narrowed(q, 4))
           b == bert_encode_int(Narrowed(r, 4))
           c == bert_encode_int(Word(0, 4))
<1>4. Jobs(d) = header \o Writes(<<a, b, c>>)
  <2>1. Jobs(d) = bert_encode_time(timestamp)
    BY <1>1 DEF Jobs
  <2> QED
    BY <1>2, <2>1 DEF bert_encode_time
<1>5. SizeWith(d, KidsSize(d)) = ComplexSize(4) + (1 + bert_data_sizeof_int(q))
        + (1 + bert_data_sizeof_int(r)) + (1 + bert_data_sizeof_int(Int64(0)))
  BY <1>1, <1>2, SizeOfMixed
<1>6. \A word \in Octets : bert_encode_int(Narrowed(word, 4)) \in WholeTokens
  <2> TAKE word \in Octets
  <2>1. 8 \in Nat /\ 4 \in 0 .. 8 /\ 0 \in Nat
    OBVIOUS
  <2>2. Narrowed(word, 4) \in [1 .. 4 -> Byte]
    BY <2>1, PartIsBytes DEF Octets
  <2> QED
    BY <2>1, <2>2, IntToken, AnnouncedIsWhole
<1>7. c \in WholeTokens
  <2>1. 0 \in Int /\ 4 \in Nat /\ 0 \in Nat
    OBVIOUS
  <2> QED
    BY <2>1, WordIsBytes, IntToken, AnnouncedIsWhole
<1>8. Len(c) = 2 /\ bert_data_sizeof_int(Int64(0)) = 1
  BY NoughtLength
<1>9. PICK m \in Nat, n \in Nat : m = bert_data_sizeof_int(q) /\ n = bert_data_sizeof_int(r)
  BY SizeofIntType
<1>10. PICK k \in Nat, l \in Nat : k = Len(a) /\ l = Len(b)
  <2>1. \A t \in WholeTokens : Len(t) \in Nat
    BY LenProperties DEF WholeTokens, Tokens
  <2> QED
    BY <1>6, <2>1
<1>11. /\ Fair(d) => k <= 1 + m /\ l = 1 + n
       /\ IntsMeasured(d) => k = 1 + m /\ l = 1 + n
  <2>1. ASSUME NEW i \in Octets, ~Undersized(i)
        PROVE  /\ Len(bert_encode_int(Narrowed(i, 4))) <= 1 + bert_data_sizeof_int(i)
               /\ IsSmall(i) => Len(bert_encode_int(Narrowed(i, 4))) = 1 + bert_data_sizeof_int(i)
    BY <2>1, CastMeasured
  <2>2. Fair(d) => ~Undersized(q) /\ ~Undersized(r)
    BY <1>1, <1>2 DEF Fair
  <2>3. IntsMeasured(d) => IsSmall(q) /\ ~Undersized(q) /\ ~Undersized(r)
    BY <1>1, <1>2, MeasuredIsNotUndersized DEF IntsMeasured
  <2> QED
    BY <1>3, <1>9, <1>10, <2>1, <2>2, <2>3
<1>12. Weighs(Writes(<<a, b, c>>), (k + l) + 2)
  BY <1>6, <1>7, <1>8, <1>10, WeighsThree
<1>13. Weighs(header, ComplexSize(4))
  <2>1. 3 \in 0 .. 3
    OBVIOUS
  <2> QED
    BY <2>1, WeighsNamed
<1> HIDE DEF header, a, b, c
<1>14. Weighs(Jobs(d), ComplexSize(4) + ((k + l) + 2))
  BY <1>4, <1>12, <1>13, WeighsOn
<1>15. PICK p \in Nat : p = ComplexSize(4)
  BY DEF ComplexSize
<1>16. SizeWith(d, KidsSize(d)) = p + (1 + m) + (1 + n) + (1 + 1)
  BY <1>5, <1>8, <1>9, <1>15, Zenon
<1>17. Weighs(Jobs(d), p + ((k + l) + 2))
  BY <1>14, <1>15, Zenon
<1>18. Fair(d) => p + ((k + l) + 2) <= p + (1 + m) + (1 + n) + (1 + 1)
  BY <1>11
<1>19. IntsMeasured(d) => p + ((k + l) + 2) = p + (1 + m) + (1 + n) + (1 + 1)
  BY <1>11
<1>20. p + ((k + l) + 2) \in Nat
  OBVIOUS
<1> QED
  BY <1>16, <1>17, <1>18, <1>19, <1>20, Zenon DEF Fits

\* The other terms that write one token fit.
LEMMA FitsToken ==
  ASSUME Sizes, NEW d \in Terms, d.type \in {"float", "atom", "string", "bin"}
  PROVE  Fits(d, Jobs(d))
<1>1. d.bytes \in Seq(Byte) /\ (d.type = "float" => Len(d.bytes) = 1)
  BY TermsAssumption
<1>2. PICK l \in Nat : l = Len(d.bytes)
  BY <1>1, LenProperties
<1>3. CASE d.type = "float"
  <2>1. Jobs(d) = Writes(<<bert_encode_float(d.bytes)>>)
    BY <1>3 DEF Jobs
  <2>2. Weighs(Jobs(d), 32)
    BY <1>1, <1>3, <2>1, FloatToken, FloatLength, WeighsScalar
  <2>3. SizeWith(d, KidsSize(d)) = 32 /\ 32 \in Nat
    BY <1>3, SizeOfOne
  <2> QED
    BY <2>2, <2>3, FitsExactly
<1>4. CASE d.type = "atom"
  <2>1. Jobs(d) = Writes(<<Atom(d.bytes)>>)
    BY <1>4 DEF Jobs
  <2>2. Weighs(Jobs(d), 3 + l)
    BY <1>1, <1>2, <2>1, TextTokens, TextLengths, WeighsScalar
  <2>3. SizeWith(d, KidsSize(d)) = 1 + 2 + l
    BY <1>2, <1>4, SizeOfOne
  <2>4. 3 + l = 1 + 2 + l /\ 3 + l \in Nat
    OBVIOUS
  <2> QED
    BY <2>2, <2>3, <2>4, FitsExactly
<1>5. CASE d.type = "string" \/ d.type = "bin"
  <2>1. \/ Jobs(d) = Writes(<<bert_encode_string(d.bytes)>>)
        \/ Jobs(d) = Writes(<<bert_encode_bin(d.bytes)>>)
    BY <1>5 DEF Jobs
  <2>2. Weighs(Jobs(d), 5 + l)
    BY <1>1, <1>2, <2>1, TextTokens, TextLengths, WeighsScalar
  <2>3. SizeWith(d, KidsSize(d)) = 1 + 4 + l
    BY <1>2, <1>5, SizeOfOne
  <2>4. 5 + l = 1 + 4 + l /\ 5 + l \in Nat
    OBVIOUS
  <2> QED
    BY <2>2, <2>3, <2>4, FitsExactly
<1> QED
  BY <1>3, <1>4, <1>5

\* What jobs write is a number of bytes.
LEMMA WeighsType ==
  ASSUME Sizes, NEW jobs, NEW n, Weighs(jobs, n)
  PROVE  n \in Nat
BY WeighsOn

\* A term whose jobs write what is measured fits, with any integers.
LEMMA FitsMeasured ==
  ASSUME Sizes, NEW d, NEW jobs, Weighs(jobs, SizeWith(d, KidsSize(d)))
  PROVE  Fits(d, jobs)
<1>1. PICK n \in Nat : n = SizeWith(d, KidsSize(d))
  BY WeighsType
<1> QED
  BY <1>1, FitsExactly

\* Complex terms without elements fit,
LEMMA FitsComplex ==
  ASSUME Sizes, NEW d \in Terms, d.type \in {"nil", "boolean"}, Encodable(d)
  PROVE  Fits(d, Jobs(d))
<1>1. 0 \in 0 .. 3
  OBVIOUS
<1>2. CASE d.type = "nil"
  <2>1. Jobs(d) = bert_encode_complex_header("nil", 0)
    BY <1>2 DEF Jobs
  <2>2. Weighs(Jobs(d), ComplexSize(3))
    BY <1>1, <2>1, WeighsNamed
  <2> QED
    BY <1>2, <2>2, SizeOfComplex, FitsMeasured
<1>3. CASE d.type = "boolean"
  <2>1. Jobs(d) = bert_encode_complex_header(IF d.bytes[1] = 1 THEN "true" ELSE "false", 0)
    BY <1>3 DEF Jobs, bert_encode_boolean
  <2>2. d.bytes[1] = 1 \/ d.bytes[1] = 0
    BY <1>3 DEF Encodable
  <2>3. CASE d.bytes[1] = 1
    <3>1. Weighs(Jobs(d), ComplexSize(4))
      BY <1>1, <2>1, <2>3, WeighsNamed
    <3> QED
      BY <1>3, <2>3, <3>1, SizeOfComplex, FitsMeasured
  <2>4. CASE d.bytes[1] = 0
    <3>1. Weighs(Jobs(d), ComplexSize(5))
      <4>1. d.bytes[1] # 1
        BY <2>4
      <4> QED
        BY <1>1, <2>1, <4>1, WeighsNamed
    <3> QED
      BY <1>3, <2>4, <3>1, SizeOfComplex, FitsMeasured
  <2> QED
    BY <2>2, <2>3, <2>4
<1> QED
  BY <1>2, <1>3

\* ... and tuples and lists.
LEMMA FitsContainer ==
  ASSUME Sizes, NEW d \in Terms, d.type \in {"tuple", "list"}
  PROVE  Fits(d, Jobs(d))
<1>1. d.kids \in Seq(Terms) /\ Len(d.kids) \in Nat
  BY TermsAssumption, LenProperties
<1>2. Weighs(Pushes(d.kids), KidsSize(d))
  BY <1>1, WeighsPushes DEF KidsSize
<1>3. PICK s \in Nat : s = KidsSize(d)
  BY <1>2, WeighsType
<1>4. PICK n \in Nat : n = Len(d.kids)
  BY <1>1
<1>5. CASE d.type = "tuple"
  <2>1. Jobs(d) = Writes(<<TupleHeader(n)>>) \o Pushes(d.kids)
    BY <1>4, <1>5, JobsOfCompound
  <2>2. PICK w \in Nat : w = IF n <= 255 THEN 1 ELSE 4
    OBVIOUS
  <2>3. Weighs(Writes(<<TupleHeader(n)>>), 1 + w)
    <3>1. PICK l : l = Len(TupleHeader(n))
      OBVIOUS
    <3>2. l = IF n <= 255 THEN 2 ELSE 5
      BY <3>1, HeaderLengths, Zenon
    <3>3. l = 1 + w
      BY <2>2, <3>2
    <3>4. TupleHeader(n) \in WholeTokens /\ Len(TupleHeader(n)) = 1 + w
      BY <3>1, <3>3, HeaderIsWhole, Zenon
    <3> QED
      BY <3>4, WeighsWrite
  <2>4. Weighs(Jobs(d), (1 + w) + s)
    BY <1>2, <1>3, <2>1, <2>3, WeighsOn
  <2>5. SizeWith(d, KidsSize(d)) = 1 + w + s
    BY <1>3, <1>4, <1>5, <2>2, SizeOfCompound
  <2> QED
    BY <2>4, <2>5, FitsMeasured
<1>6. CASE d.type = "list"
  <2>1. Jobs(d) = Writes(<<ListHeader(n)>>) \o Pushes(d.kids)
    BY <1>4, <1>6, JobsOfCompound
  <2>2. Weighs(Writes(<<ListHeader(n)>>), 1 + 4)
    <3>1. PICK l : l = Len(ListHeader(n))
      OBVIOUS
    <3>2. l = 5
      BY <3>1, HeaderLengths, Zenon
    <3>3. l = 1 + 4
      BY <3>2
    <3>4. ListHeader(n) \in WholeTokens /\ Len(ListHeader(n)) = 1 + 4
      BY <3>1, <3>3, HeaderIsWhole, Zenon
    <3> QED
      BY <3>4, WeighsWrite
  <2>3. Weighs(Jobs(d), (1 + 4) + s)
    BY <1>2, <1>3, <2>1, <2>2, WeighsOn
  <2>4. SizeWith(d, KidsSize(d)) = 1 + 4 + s
    BY <1>3, <1>6, SizeOfCompound
  <2> QED
    BY <2>3, <2>4, FitsMeasured
<1> QED
  BY <1>5, <1>6

\* What a push writes and pushes fits what bert_data_sizeof has for the term.
LEMMA JobsFit ==
  ASSUME Sizes, NEW d \in Terms, Encodable(d)
  PROVE  Fits(d, Jobs(d))
<1>1. \/ d.type = "int" \/ d.type = "time" \/ d.type \in {"float", "atom", "string", "bin"}
      \/ d.type \in {"nil", "boolean"} \/ d.type \in {"tuple", "list"}
      \/ d.type = "dict" \/ d.type = "regex"
  BY TermsAssumption DEF Encodable, Types
<1> QED
  BY <1>1, FitsInteger, FitsTime, FitsToken, FitsComplex, FitsContainer, WeighsDict, WeighsRegex,
     FitsMeasured

\* A sum is a number.
LEMMA TotalType ==
  ASSUME NEW s \in Seq(Nat)
  PROVE  Total(s) \in Nat
<1>1. PICK n \in Nat : s \in [1 .. n -> Nat]
  BY LenProperties
<1>2. PICK f \in [0 .. n -> Nat] : Total(s) = f[n]
  BY <1>1, TotalValue
<1> QED
  BY <1>2

\* bert_data_sizeof is a number where the sizes of the elements are, for every type.
LEMMA SizeWithType ==
  ASSUME NEW d \in Terms, NEW n \in Nat
  PROVE  SizeWith(d, n) \in Nat
<1>1. PICK l \in Nat : l = Len(d.bytes)
  BY TermsAssumption, LenProperties
<1>2. PICK k \in Nat : k = Len(d.kids)
  BY TermsAssumption, LenProperties
<1>3. ComplexSize(3) \in Nat /\ ComplexSize(4) \in Nat /\ ComplexSize(5) \in Nat
  BY DEF ComplexSize
<1>4. CASE d.type = "int"
  <2>1. PICK m \in Nat : m = bert_data_sizeof_int(d.bytes)
    BY <1>4, TermsAssumption, OctetsOf, SizeofIntType
  <2>2. SizeWith(d, n) = 1 + m
    BY <1>4, <2>1, SizeOfOne
  <2> QED
    BY <2>2
<1>5. CASE d.type = "float"
  BY <1>5, SizeOfOne
<1>6. CASE d.type = "atom"
  <2>1. SizeWith(d, n) = 1 + 2 + l
    BY <1>1, <1>6, SizeOfOne
  <2> QED
    BY <2>1
<1>7. CASE d.type \in {"string", "bin"}
  <2>1. SizeWith(d, n) = 1 + 4 + l
    BY <1>1, <1>7, SizeOfOne
  <2> QED
    BY <2>1
<1>8. CASE d.type = "nil"
  BY <1>3, <1>8, SizeOfComplex
<1>9. CASE d.type = "boolean"
  <2>1. SizeWith(d, n) = CASE d.bytes[1] = 1 -> ComplexSize(4)
                           [] d.bytes[1] = 0 -> ComplexSize(5)
                           [] OTHER          -> 1 + (1 + 1 + 2 + 4)
    BY <1>9 DEF SizeWith
  <2>2. 1 + (1 + 1 + 2 + 4) \in Nat
    OBVIOUS
  <2> QED
    BY <1>3, <2>1, <2>2
<1>10. CASE d.type = "tuple"
  <2>1. SizeWith(d, n) = 1 + (IF k <= 255 THEN 1 ELSE 4) + n
    BY <1>2, <1>10, SizeOfCompound
  <2> QED
    BY <2>1
<1>11. CASE d.type = "list"
  <2>1. SizeWith(d, n) = 1 + 4 + n
    BY <1>11, SizeOfCompound
  <2> QED
    BY <2>1
<1>12. CASE d.type = "dict"
  <2>1. PICK p \in Nat : p = ComplexSize(4)
    BY <1>3
  <2>2. SizeWith(d, n) = p + (1 + 4) + (1 + 1) * (k \div 2) + n
    BY <1>2, <1>12, <2>1, SizeOfCompound
  <2>3. k \div 2 \in Nat
    OBVIOUS
  <2> QED
    BY <2>2, <2>3
<1>13. CASE d.type = "regex"
  <2> DEFINE c == [j \in 1 .. 4 |-> OptionSize(OptionName(d.options, j - 1))]
  <2>1. \A i \in 0 .. 3 : OptionSize(OptionName(d.options, i)) \in Nat
    <3> TAKE i \in 0 .. 3
    <3> PICK name : name = OptionName(d.options, i)
      OBVIOUS
    <3>1. CASE name = ""
      BY <3>1 DEF OptionSize
    <3>2. CASE name # ""
      <4>1. name \in WrittenTexts
        BY <3>2, OptionNames, Zenon
      <4>2. PICK x \in Nat : x = Len(name)
        BY <4>1, NameLength
      <4>3. OptionSize(name) = 1 + 2 + x
        BY <3>2, <4>2, Zenon DEF OptionSize
      <4> QED
        BY <4>3
    <3> QED
      BY <3>1, <3>2
  <2>2. \A j \in 1 .. 4 : j - 1 \in 0 .. 3
    OBVIOUS
  <2>3. c \in [1 .. 4 -> Nat]
    BY <2>1, <2>2
  <2> HIDE DEF c
  <2>4. c \in Seq(Nat)
    <3>1. PICK four \in Nat : four = 4
      OBVIOUS
    <3>2. c \in [1 .. four -> Nat]
      BY <2>3, <3>1
    <3> QED
      BY <3>2
  <2>5. PICK t \in Nat, p \in Nat : t = Total(c) /\ p = ComplexSize(5)
    BY <1>3, <2>4, TotalType
  <2>6. SizeWith(d, n) = p + (1 + 4 + l) + (1 + 4) + t
    BY <1>1, <1>13, <2>5, SizeOfMixed DEF c
  <2> QED
    BY <2>6
<1>14. CASE d.type = "time"
  <2>1. d.bytes \in Octets
    BY <1>14, TermsAssumption, OctetsOf
  <2>2. PICK a \in Nat, b \in Nat : /\ a = bert_data_sizeof_int(TimeParts(d.bytes).quotient)
                                    /\ b = bert_data_sizeof_int(TimeParts(d.bytes).rest)
    BY <2>1, TimeIsBytes, SizeofIntType
  <2>3. PICK c \in Nat, p \in Nat : c = bert_data_sizeof_int(Int64(0)) /\ p = ComplexSize(4)
    BY <1>3, NoughtLength
  <2>4. SizeWith(d, n) = p + (1 + a) + (1 + b) + (1 + c)
    BY <1>14, <2>2, <2>3, SizeOfMixed
  <2> QED
    BY <2>4
<1>15. CASE d.type = "none"
  BY <1>15 DEF SizeWith
<1> QED
  BY <1>4, <1>5, <1>6, <1>7, <1>8, <1>9, <1>10, <1>11, <1>12, <1>13, <1>14, <1>15,
     TermsAssumption DEF Types

(***************************************************************************)
(* bert_data_sizeof and WellMeasured call themselves for the elements of a *)
(* term.  Where terms are trees, as the functions of list.c, tuple.c and   *)
(* dict.c make them by taking what is there already, the calls end.        *)
(***************************************************************************)

\* terms are made of terms that were there before
Trees ==
  \E height \in [Terms -> Nat] :
    \A d \in Terms : \A k \in DOMAIN d.kids : height[d.kids[k]] < height[d]

\* With heights they are trees.
LEMMA TermTrees ==
  ASSUME NEW height \in [Terms -> Nat],
         \A d \in Terms : \A k \in DOMAIN d.kids : height[d.kids[k]] < height[d]
  PROVE  AreTrees(Terms, [d \in Terms |-> d.kids], height)
<1> DEFINE kids == [d \in Terms |-> d.kids]
<1>1. kids \in [Terms -> Seq(Terms)]
  BY TermsAssumption
<1>2. ASSUME NEW d \in Terms, NEW k \in 1 .. Len(kids[d])
      PROVE  height[kids[d][k]] < height[d]
  <2>1. kids[d] = d.kids /\ d.kids \in Seq(Terms)
    BY TermsAssumption
  <2>2. k \in DOMAIN d.kids
    BY <2>1, LenProperties
  <2> QED
    BY <2>1, <2>2
<1> QED
  BY <1>1, <1>2 DEF AreTrees

\* Then the recursions of bert_data_sizeof end, with the size of every term, ...
LEMMA SizeofRecursion ==
  ASSUME Trees
  PROVE  /\ Sizes
         /\ \A d \in Terms : bert_data_sizeof[d] = SizeWith(d, KidsSize(d))
<1>1. PICK height \in [Terms -> Nat] :
        \A d \in Terms : \A k \in DOMAIN d.kids : height[d.kids[k]] < height[d]
  BY DEF Trees
<1>2. PICK kids : kids = [d \in Terms |-> d.kids] /\ AreTrees(Terms, kids, height)
  BY <1>1, TermTrees
<1>3. PICK step : step = [d \in Terms |-> [s \in Seq(Nat) |-> SizeWith(d, Total(s))]]
  OBVIOUS
<1>4. \A d \in Terms : kids[d] = d.kids /\ d.kids \in Seq(Terms) /\ DOMAIN d.kids = 1 .. Len(d.kids)
  BY <1>2, TermsAssumption, LenProperties
<1>5. \A d \in Terms : \A s \in Seq(Nat) : step[d][s] = SizeWith(d, Total(s))
  BY <1>3
<1>6. PICK f : SolvesOn(f, Terms, Nat, kids, step)
  <2>1. AreTrees(Terms, kids, height)
    BY <1>2
  <2>2. IsStep(step, Terms, Nat)
    BY <1>5, SizeWithType, TotalType DEF IsStep
  <2>3. Nat # {}
    OBVIOUS
  <2> QED
    BY <2>1, <2>2, <2>3, TreeRecursion, Zenon
<1>7. ASSUME NEW d \in Terms
      PROVE  f[d] = SizeWith(d, Total([k \in DOMAIN d.kids |-> f[d.kids[k]]]))
  <2>1. OfKids(f, d.kids) = [k \in DOMAIN d.kids |-> f[d.kids[k]]]
    BY <1>4 DEF OfKids
  <2>2. OfKids(f, d.kids) \in Seq(Nat)
    BY <1>4, <1>6, OfKidsSeq DEF SolvesOn
  <2> QED
    BY <1>4, <1>5, <1>6, <2>1, <2>2 DEF SolvesOn
<1>8. f = [d \in Terms |-> SizeWith(d, Total([k \in DOMAIN d.kids |-> f[d.kids[k]]]))]
  BY <1>6, <1>7, Zenon DEF SolvesOn
<1>9. bert_data_sizeof =
        [d \in Terms |-> SizeWith(d, Total([k \in DOMAIN d.kids |-> bert_data_sizeof[d.kids[k]]]))]
  BY <1>8, Zenon DEF bert_data_sizeof
<1>10. \A d \in Terms : bert_data_sizeof[d] = SizeWith(d, KidsSize(d))
  BY <1>9, Zenon DEF KidsSize
<1> DEFINE Done == {n \in Nat : \A d \in Terms : height[d] < n => bert_data_sizeof[d] \in Nat}
<1>11. 0 \in Done
  OBVIOUS
<1>12. ASSUME NEW n \in Nat, n \in Done PROVE n + 1 \in Done
  <2> SUFFICES ASSUME NEW d \in Terms, height[d] < n + 1 PROVE bert_data_sizeof[d] \in Nat
    OBVIOUS
  <2> DEFINE s == [k \in 1 .. Len(d.kids) |-> bert_data_sizeof[d.kids[k]]]
  <2>1. ASSUME NEW k \in 1 .. Len(d.kids) PROVE bert_data_sizeof[d.kids[k]] \in Nat
    <3>1. d.kids[k] \in Terms /\ height[d.kids[k]] < height[d]
      BY <1>1, <1>4, ElementOfSeq
    <3>2. height[d.kids[k]] < n
      BY <3>1
    <3> QED
      BY <1>12, <3>1, <3>2
  <2>2. s \in Seq(Nat)
    <3>1. Len(d.kids) \in Nat
      BY <1>4, LenProperties
    <3> QED
      BY <2>1, <3>1
  <2>3. KidsSize(d) = Total(s)
    BY <1>4 DEF KidsSize
  <2> HIDE DEF s
  <2> QED
    BY <1>10, <2>2, <2>3, TotalType, SizeWithType
<1> HIDE DEF Done
<1>13. \A n \in Nat : n \in Done
  BY <1>11, <1>12, Induction
<1>14. \A d \in Terms : bert_data_sizeof[d] \in Nat
  <2> TAKE d \in Terms
  <2>1. height[d] + 1 \in Nat /\ height[d] < height[d] + 1
    OBVIOUS
  <2> QED
    BY <1>13, <2>1 DEF Done
<1>15. Sizes
  BY <1>9, <1>14 DEF Sizes
<1> QED
  BY <1>10, <1>15

\* ... and WellMeasured means what it says.
LEMMA WellMeasuredRecursion ==
  ASSUME Trees
  PROVE  \A d \in Terms : WellMeasured[d] =>
           /\ IntsMeasured(d)
           /\ \A k \in DOMAIN d.kids : WellMeasured[d.kids[k]]
<1>1. PICK height \in [Terms -> Nat] :
        \A d \in Terms : \A k \in DOMAIN d.kids : height[d.kids[k]] < height[d]
  BY DEF Trees
<1> DEFINE All(d, s) == IntsMeasured(d) /\ \A k \in DOMAIN s : s[k]
<1>2. PICK kids : kids = [d \in Terms |-> d.kids] /\ AreTrees(Terms, kids, height)
  BY <1>1, TermTrees
<1>3. \A d, s : All(d, s) \in BOOLEAN
  BY DEF All
<1> HIDE DEF All
<1>4. PICK step : step = [d \in Terms |-> [s \in Seq(BOOLEAN) |-> All(d, s)]]
  OBVIOUS
<1>5. \A d \in Terms : kids[d] = d.kids /\ d.kids \in Seq(Terms) /\ DOMAIN d.kids = 1 .. Len(d.kids)
  BY <1>2, TermsAssumption, LenProperties
<1>6. \A d \in Terms : \A s \in Seq(BOOLEAN) : step[d][s] = All(d, s)
  BY <1>4
<1>7. PICK f : SolvesOn(f, Terms, BOOLEAN, kids, step)
  <2>1. AreTrees(Terms, kids, height)
    BY <1>2
  <2>2. IsStep(step, Terms, BOOLEAN)
    BY <1>3, <1>6 DEF IsStep
  <2>3. BOOLEAN # {}
    OBVIOUS
  <2> QED
    BY <2>1, <2>2, <2>3, TreeRecursion, Zenon
<1>8. ASSUME NEW d \in Terms
      PROVE  f[d] = (IntsMeasured(d) /\ \A k \in DOMAIN d.kids : f[d.kids[k]])
  <2>1. /\ DOMAIN OfKids(f, d.kids) = DOMAIN d.kids
        /\ \A k \in DOMAIN d.kids : OfKids(f, d.kids)[k] = f[d.kids[k]]
    BY <1>5 DEF OfKids
  <2>2. OfKids(f, d.kids) \in Seq(BOOLEAN)
    BY <1>5, <1>7, OfKidsSeq DEF SolvesOn
  <2>3. f[d] = All(d, OfKids(f, d.kids))
    BY <1>5, <1>6, <1>7, <2>2 DEF SolvesOn
  <2> QED
    BY <2>1, <2>3, Zenon DEF All
<1>9. f = [d \in Terms |-> IntsMeasured(d) /\ \A k \in DOMAIN d.kids : f[d.kids[k]]]
  BY <1>7, <1>8, Zenon DEF SolvesOn
<1>10. WellMeasured = [d \in Terms |->
                         IntsMeasured(d) /\ \A k \in DOMAIN d.kids : WellMeasured[d.kids[k]]]
  BY <1>9, Zenon DEF WellMeasured
<1> QED
  BY <1>10, Zenon

(***************************************************************************)
(* Terms whose integers are all written as long as they are measured push  *)
(* only such terms.                                                        *)
(***************************************************************************)

\* jobs that push only terms that are measured exactly
MeasuredJobs == {job \in JobSet : job.op = "push" => WellMeasured[job.data]}

\* Writes push nothing.
LEMMA WritesMeasured ==
  ASSUME NEW tokens, Writes(tokens) \in Seq(JobSet)
  PROVE  Writes(tokens) \in Seq(MeasuredJobs)
<1> PICK jobs : jobs = Writes(tokens)
  OBVIOUS
<1>1. PICK n \in Nat : jobs = Writes(tokens) /\ jobs \in [1 .. n -> JobSet]
  BY LenProperties
<1>2. \A k \in 1 .. n : jobs[k].op = "write"
  BY <1>1 DEF Writes
<1>3. \A k \in 1 .. n : jobs[k] \in MeasuredJobs
  BY <1>1, <1>2 DEF MeasuredJobs
<1>4. jobs \in [1 .. n -> MeasuredJobs]
  BY <1>1, <1>3
<1> QED
  BY <1>1, <1>4

\* The terms that are pushed are measured exactly where the elements are.
LEMMA PushesMeasured ==
  ASSUME NEW kids \in Seq(Terms), \A k \in 1 .. Len(kids) : WellMeasured[kids[k]]
  PROVE  Pushes(kids) \in Seq(MeasuredJobs)
<1>1. PICK n \in Nat : n = Len(kids) /\ kids \in [1 .. n -> Terms]
  BY LenProperties
<1>2. Pushes(kids) = [k \in 1 .. n |-> [op |-> "push", data |-> kids[k]]]
  BY <1>1 DEF Pushes
<1>3. \A k \in 1 .. n : [op |-> "push", data |-> kids[k]] \in MeasuredJobs
  BY <1>1 DEF MeasuredJobs, JobSet, PushJobs
<1> QED
  BY <1>2, <1>3

\* So are those that a push pushes, whatever its term is: for the pairs of a dict,
LEMMA PairsMeasured ==
  ASSUME NEW kids \in Seq(Terms), \A k \in 1 .. Len(kids) : WellMeasured[kids[k]],
         NEW n \in Nat, 2 * n <= Len(kids)
  PROVE  FlattenSeq([k \in 1 .. n |->
           Writes(<<TupleHeader(2)>>) \o Pushes(<<kids[2 * k - 1], kids[2 * k]>>)])
             \in Seq(MeasuredJobs)
<1> DEFINE Pair(k) == Writes(<<TupleHeader(2)>>) \o Pushes(<<kids[2 * k - 1], kids[2 * k]>>)
           seqs == [k \in 1 .. n |-> Pair(k)]
<1>1. ASSUME NEW k \in 1 .. n PROVE Pair(k) \in Seq(MeasuredJobs)
  <2>1. 2 * k - 1 \in 1 .. Len(kids) /\ 2 * k \in 1 .. Len(kids)
    BY LenProperties
  <2>2. PICK a \in Terms, b \in Terms : /\ a = kids[2 * k - 1] /\ b = kids[2 * k]
                                        /\ WellMeasured[a] /\ WellMeasured[b]
    BY <2>1, ElementOfSeq
  <2>3. Pushes(<<a, b>>) \in Seq(MeasuredJobs)
    <3>1. <<a, b>> \in Seq(Terms) /\ Len(<<a, b>>) = 2
      OBVIOUS
    <3>2. \A i \in 1 .. 2 : WellMeasured[<<a, b>>[i]]
      BY <2>2
    <3> QED
      BY <3>1, <3>2, PushesMeasured
  <2>4. Writes(<<TupleHeader(2)>>) \in Seq(MeasuredJobs)
    <3>1. 2 \in Nat
      OBVIOUS
    <3> QED
      BY <3>1, HeaderIsWhole, WritesMeasured
  <2> QED
    BY <2>2, <2>3, <2>4, ConcatProperties
<1> HIDE DEF Pair
<1>2. seqs \in [1 .. n -> Seq(MeasuredJobs)]
  BY <1>1
<1> HIDE DEF seqs
<1>3. FlattenSeq(seqs) \in Seq(MeasuredJobs)
  BY <1>2, FlattenType
<1> QED
  BY <1>3 DEF seqs, Pair

\* ... for all of a dict,
LEMMA DictMeasured ==
  ASSUME Sizes, NEW kids \in Seq(Terms), \A k \in 1 .. Len(kids) : WellMeasured[kids[k]]
  PROVE  bert_encode_dict(kids) \in Seq(MeasuredJobs)
<1> DEFINE n == Len(kids) \div 2
           pairs == FlattenSeq([k \in 1 .. n |->
                      Writes(<<TupleHeader(2)>>) \o Pushes(<<kids[2 * k - 1], kids[2 * k]>>)])
           header == bert_encode_complex_header("dict", 1)
           list == Writes(<<ListHeader(n)>>)
<1>1. n \in Nat /\ 2 * n <= Len(kids)
  BY LenProperties
<1> HIDE DEF n
<1>2. pairs \in Seq(MeasuredJobs)
  BY <1>1, PairsMeasured
<1>3. list \in Seq(MeasuredJobs)
  BY <1>1, HeaderIsWhole, WritesMeasured
<1>4. header \in Seq(MeasuredJobs)
  <2>1. 1 \in 0 .. 3
    OBVIOUS
  <2>2. header \in Seq(JobSet)
    BY <2>1, WeighsNamed DEF Weighs
  <2> QED
    BY <2>2, WritesMeasured DEF bert_encode_complex_header
<1> HIDE DEF pairs, header, list
<1>5. header \o list \o pairs \in Seq(MeasuredJobs)
  BY <1>2, <1>3, <1>4, ConcatProperties
<1> QED
  BY <1>5 DEF bert_encode_dict, n, pairs, header, list

\* ... a regex,
LEMMA RegexMeasured ==
  ASSUME Sizes, NEW source \in Seq(Byte), NEW options
  PROVE  bert_encode_regex(source, options) \in Seq(MeasuredJobs)
<1> DEFINE Named(name) == IF name = "" THEN << >> ELSE Writes(<<Atom(Text(name))>>)
           seqs == [k \in 1 .. 4 |-> Named(OptionName(options, k - 1))]
           n == Cardinality(OptionsSeen(options))
           header == bert_encode_complex_header("regex", 2)
           two == Writes(<<bert_encode_bin(source), ListHeader(n)>>)
<1>1. ASSUME NEW k \in 1 .. 4 PROVE seqs[k] \in Seq(MeasuredJobs)
  <2>1. k - 1 \in 0 .. 3
    OBVIOUS
  <2>2. PICK name : name = OptionName(options, k - 1)
    OBVIOUS
  <2>3. Named(name) \in Seq(MeasuredJobs)
    <3>1. Named(name) \in Seq(JobSet)
      BY <2>1, <2>2, WeighsOption DEF Weighs
    <3>2. CASE name = ""
      <4>1. << >> \in Seq(MeasuredJobs)
        OBVIOUS
      <4> QED
        BY <3>2, <4>1, Zenon
    <3>3. CASE name # ""
      BY <3>1, <3>3, WritesMeasured
    <3> QED
      BY <3>2, <3>3
  <2> HIDE DEF Named
  <2> QED
    BY <2>2, <2>3
<1>2. seqs \in [1 .. 4 -> Seq(MeasuredJobs)]
  <2>1. seqs = [k \in 1 .. 4 |-> seqs[k]]
    OBVIOUS
  <2> HIDE DEF seqs
  <2> QED
    BY <1>1, <2>1
<1> HIDE DEF seqs
<1>3. FlattenSeq(seqs) \in Seq(MeasuredJobs)
  <2>1. 4 \in Nat
    OBVIOUS
  <2> QED
    BY <1>2, <2>1, FlattenType
<1>4. header \in Seq(MeasuredJobs)
  <2>1. 2 \in 0 .. 3
    OBVIOUS
  <2>2. header \in Seq(JobSet)
    BY <2>1, WeighsNamed DEF Weighs
  <2> QED
    BY <2>2, WritesMeasured DEF bert_encode_complex_header
<1>5. two \in Seq(MeasuredJobs)
  <2>1. n \in Nat
    <3>1. OptionsSeen(options) \subseteq 0 .. 3
      BY DEF OptionsSeen
    <3>2. IsFiniteSet(0 .. 3)
      <4>1. 0 \in Int /\ 3 \in Int
        OBVIOUS
      <4> QED
        BY <4>1, FS_Interval
    <3> QED
      BY <3>1, <3>2, FS_Subset, FS_CardinalityType
  <2>2. bert_encode_bin(source) \in WholeTokens
    <3>1. 0 \in Nat
      OBVIOUS
    <3> QED
      BY <3>1, TextTokens, AnnouncedIsWhole
  <2>3. ListHeader(n) \in WholeTokens
    BY <2>1, HeaderIsWhole
  <2>4. two \in Seq(JobSet)
    BY <2>2, <2>3, WeighsTwo DEF Weighs
  <2> QED
    BY <2>4, WritesMeasured
<1> HIDE DEF header, two
<1>6. header \o two \o FlattenSeq(seqs) \in Seq(MeasuredJobs)
  BY <1>3, <1>4, <1>5, ConcatProperties
<1> QED
  BY <1>6 DEF bert_encode_regex, seqs, header, two

\* ... a time, whose integers are measured as quotient and rest,
LEMMA TimeMeasured ==
  ASSUME Sizes, NEW timestamp \in Octets
  PROVE  bert_encode_time(timestamp) \in Seq(MeasuredJobs)
<1> DEFINE time == TimeParts(timestamp)
           header == bert_encode_complex_header("time", 3)
           a == bert_encode_int(Narrowed(time.quotient, 4))
           b == bert_encode_int(Narrowed(time.rest, 4))
           c == bert_encode_int(Word(0, 4))
<1>1. bert_encode_time(timestamp) = header \o Writes(<<a, b, c>>)
  BY DEF bert_encode_time
<1>2. \A word \in Octets : bert_encode_int(Narrowed(word, 4)) \in WholeTokens
  <2> TAKE word \in Octets
  <2>1. 8 \in Nat /\ 4 \in 0 .. 8 /\ 0 \in Nat
    OBVIOUS
  <2>2. Narrowed(word, 4) \in [1 .. 4 -> Byte]
    BY <2>1, PartIsBytes DEF Octets
  <2> QED
    BY <2>1, <2>2, IntToken, AnnouncedIsWhole
<1>3. a \in WholeTokens /\ b \in WholeTokens
  BY <1>2, TimeIsBytes
<1>4. c \in WholeTokens
  <2>1. 0 \in Int /\ 4 \in Nat /\ 0 \in Nat
    OBVIOUS
  <2> QED
    BY <2>1, WordIsBytes, IntToken, AnnouncedIsWhole
<1> HIDE DEF a, b, c
<1>5. Writes(<<a, b, c>>) \in Seq(MeasuredJobs)
  <2>1. Writes(<<a, b, c>>) \in Seq(JobSet)
    BY <1>3, <1>4, WeighsThree DEF Weighs
  <2> QED
    BY <2>1, WritesMeasured
<1>6. header \in Seq(MeasuredJobs)
  <2>1. 3 \in 0 .. 3
    OBVIOUS
  <2>2. header \in Seq(JobSet)
    BY <2>1, WeighsNamed DEF Weighs
  <2> QED
    BY <2>2, WritesMeasured DEF bert_encode_complex_header
<1> HIDE DEF header
<1> QED
  BY <1>1, <1>5, <1>6, ConcatProperties

\* ... and every term.
LEMMA JobsMeasured ==
  ASSUME Sizes, NEW d \in Terms, Encodable(d), \A k \in DOMAIN d.kids : WellMeasured[d.kids[k]]
  PROVE  Jobs(d) \in Seq(MeasuredJobs)
<1>1. /\ d.kids \in Seq(Terms) /\ d.bytes \in Seq(Byte) /\ Len(d.kids) \in Nat
      /\ \A k \in 1 .. Len(d.kids) : WellMeasured[d.kids[k]]
  BY TermsAssumption, LenProperties
<1>2. Jobs(d) \in Seq(JobSet)
  BY JobsAreJobs
<1>3. CASE d.type \in {"int", "float", "atom", "string", "bin"}
  <2>1. \E tokens : Jobs(d) = Writes(tokens)
    BY <1>3 DEF Jobs
  <2> QED
    BY <1>2, <2>1, WritesMeasured
<1>4. CASE d.type \in {"nil", "boolean"}
  <2>1. \E name : Jobs(d) = bert_encode_complex_header(name, 0)
    BY <1>4 DEF Jobs, bert_encode_boolean
  <2>2. \E tokens : Jobs(d) = Writes(tokens)
    BY <2>1 DEF bert_encode_complex_header
  <2> QED
    BY <1>2, <2>2, WritesMeasured
<1>5. CASE d.type \in {"tuple", "list"}
  <2>1. PICK n \in Nat : n = Len(d.kids)
    BY <1>1
  <2>2. \/ Jobs(d) = Writes(<<TupleHeader(n)>>) \o Pushes(d.kids)
        \/ Jobs(d) = Writes(<<ListHeader(n)>>) \o Pushes(d.kids)
    BY <1>5, <2>1, JobsOfCompound
  <2>3. /\ Writes(<<TupleHeader(n)>>) \in Seq(MeasuredJobs)
        /\ Writes(<<ListHeader(n)>>) \in Seq(MeasuredJobs)
    BY HeaderIsWhole, WritesMeasured
  <2>4. Pushes(d.kids) \in Seq(MeasuredJobs)
    BY <1>1, PushesMeasured
  <2> QED
    BY <2>2, <2>3, <2>4, ConcatProperties
<1>6. CASE d.type = "dict"
  BY <1>1, <1>6, JobsOfCompound, DictMeasured
<1>7. CASE d.type = "regex"
  <2>1. Jobs(d) = bert_encode_regex(d.bytes, d.options)
    BY <1>7 DEF Jobs
  <2> QED
    BY <1>1, <2>1, RegexMeasured
<1>8. CASE d.type = "time"
  <2>1. Jobs(d) = bert_encode_time(d.bytes)
    BY <1>8 DEF Jobs
  <2> QED
    BY <1>8, <2>1, TermsAssumption, OctetsOf, TimeMeasured
<1> QED
  BY <1>3, <1>4, <1>5, <1>6, <1>7, <1>8, TypeOfEncodable DEF Simple

(***************************************************************************)
(* The output of a push against bert_data_sizeof of its term               *)
(***************************************************************************)

\* No jobs write no bytes.
LEMMA NothingWeighs ==
  ASSUME NEW n, Weighs(<< >>, n)
  PROVE  n = 0
BY WeighsNothing DEF Weighs

\* A push has something to write.
LEMMA SomethingToWrite ==
  ASSUME Sizes, NEW d \in Terms, Encodable(d)
  PROVE  Jobs(d) # << >>
<1>1. CASE d.type \in Simple
  <2>1. Leads(Jobs(d), 1, 0)
    BY <1>1, SimpleLeads
  <2>2. 1 # 0
    OBVIOUS
  <2> QED
    BY <2>1, <2>2, NowhereLeads
<1>2. CASE d.type \in {"tuple", "list", "dict"}
  <2>1. IntsMeasured(d)
    BY <1>2 DEF IntsMeasured
  <2>2. Weighs(Jobs(d), SizeWith(d, KidsSize(d)))
    BY <2>1, JobsFit DEF Fits
  <2>3. PICK n \in Nat, k \in Nat, p \in Nat :
          n = KidsSize(d) /\ k = Len(d.kids) /\ p = ComplexSize(4)
    <3>1. d.kids \in Seq(Terms) /\ Len(d.kids) \in Nat
      BY TermsAssumption, LenProperties
    <3>2. KidsSize(d) \in Nat
      BY <3>1, WeighsPushes, WeighsType DEF KidsSize
    <3>3. ComplexSize(4) \in Nat
      BY DEF ComplexSize
    <3> QED
      BY <3>1, <3>2, <3>3
  <2>4. SizeWith(d, n) # 0
    <3>1. CASE d.type = "tuple"
      <4>1. SizeWith(d, n) = 1 + (IF k <= 255 THEN 1 ELSE 4) + n
        BY <2>3, <3>1, SizeOfCompound
      <4> QED
        BY <4>1
    <3>2. CASE d.type = "list"
      <4>1. SizeWith(d, n) = 1 + 4 + n
        BY <3>2, SizeOfCompound
      <4> QED
        BY <4>1
    <3>3. CASE d.type = "dict"
      <4>1. SizeWith(d, n) = p + (1 + 4) + (1 + 1) * (k \div 2) + n
        BY <2>3, <3>3, SizeOfCompound
      <4>2. k \div 2 \in Nat
        OBVIOUS
      <4> QED
        BY <4>1, <4>2
    <3> QED
      BY <1>2, <3>1, <3>2, <3>3
  <2> QED
    BY <2>2, <2>3, <2>4, NothingWeighs
<1> QED
  BY <1>1, <1>2, TypeOfEncodable

\* what the integers of terms must be for bert_data_sizeof to be enough
NoneUndersized == \A d \in Terms : Fair(d)

\* the bytes of the output and those of the jobs that are left, against bert_data_sizeof of a term
InSize(jobs, output, d) ==
  \E n \in Nat :
    /\ Weighs(jobs, n)
    /\ NoneUndersized => Bytes(output) + n <= bert_data_sizeof[d]
    /\ ~ShortWrites /\ WellMeasured[d] =>
         jobs \in Seq(MeasuredJobs) /\ Bytes(output) + n = bert_data_sizeof[d]

(***************************************************************************)
(* While a push runs, what it wrote and what it has still to write is no   *)
(* more than bert_data_sizeof has for its term.                            *)
(***************************************************************************)
SizeInv ==
  /\ pushed.from \in 1 .. Len(sink) + 1
  /\ Running => pushed.data \in Terms
  /\ Fresh /\ Running => todo \in {OnlyPush(pushed.data), MagicAndPush(pushed.data)}
  /\ Going /\ Running => InSize(todo, Output, pushed.data)
  /\ NoneUndersized => SizeofEnough
  /\ ~ShortWrites => SizeofExact

\* An output of no tokens has no bytes.
LEMMA NoBytes == Bytes(<< >>) = 0
BY FlattenEmpty DEF Bytes

\* Tokens have a number of bytes.
LEMMA BytesOfTokens ==
  ASSUME NEW tokens \in Seq(Tokens)
  PROVE  Bytes(tokens) \in Nat
<1>1. PICK l \in Nat : l = Len(tokens) /\ tokens \in [1 .. l -> Seq(Byte)]
  BY LenProperties DEF Tokens
<1>2. FlattenSeq(tokens) \in Seq(Byte)
  BY <1>1, FlattenType
<1> QED
  BY <1>2, LenProperties DEF Bytes

\* When nothing is left to do, what is in size is the output alone.
LEMMA SizeAtEnd ==
  ASSUME Sizes, NEW output \in Seq(Tokens), NEW d, InSize(<< >>, output, d)
  PROVE  /\ NoneUndersized => Bytes(output) <= bert_data_sizeof[d]
         /\ ~ShortWrites /\ WellMeasured[d] => Bytes(output) = bert_data_sizeof[d]
<1>1. PICK n \in Nat :
        /\ Weighs(<< >>, n)
        /\ NoneUndersized => Bytes(output) + n <= bert_data_sizeof[d]
        /\ ~ShortWrites /\ WellMeasured[d] => Bytes(output) + n = bert_data_sizeof[d]
  BY DEF InSize
<1>2. n = 0
  BY <1>1, NothingWeighs
<1>3. Bytes(output) \in Nat
  BY BytesOfTokens
<1> QED
  BY <1>1, <1>2, <1>3

\* A push starts with what is measured.
LEMMA SizeAtStart ==
  ASSUME Sizes, NEW d \in Terms
  PROVE  InSize(OnlyPush(d), << >>, d)
<1>1. PICK job : job = [op |-> "push", data |-> d]
  OBVIOUS
<1>2. OnlyPush(d) = <<job>>
  BY <1>1 DEF OnlyPush, Pushes
<1>3. job \in JobSet /\ Cost(job) = bert_data_sizeof[d]
  BY <1>1, CostFacts DEF JobSet, PushJobs
<1>4. Weighs(OnlyPush(d), bert_data_sizeof[d])
  BY <1>2, <1>3, WeighsOne
<1>5. bert_data_sizeof[d] \in Nat
  BY DEF Sizes
<1>6. WellMeasured[d] => OnlyPush(d) \in Seq(MeasuredJobs)
  <2>1. WellMeasured[d] => job \in MeasuredJobs
    BY <1>1, <1>3 DEF MeasuredJobs
  <2> QED
    BY <1>2, <2>1
<1> QED
  BY <1>4, <1>5, <1>6, NoBytes DEF InSize

\* A push of a term does in its place what bert_data_sizeof has for it.
LEMMA SizeOfPush ==
  ASSUME Trees, NEW jobs, jobs # << >>, Head(jobs).op = "push", Encodable(Head(jobs).data),
         NEW output, Bytes(output) \in Nat, NEW d \in Terms, InSize(jobs, output, d)
  PROVE  InSize(Jobs(Head(jobs).data) \o Tail(jobs), output, d)
<1>1. /\ Sizes
      /\ \A e \in Terms : bert_data_sizeof[e] = SizeWith(e, KidsSize(e))
  BY SizeofRecursion
<1>2. PICK n \in Nat :
        /\ Weighs(jobs, n)
        /\ NoneUndersized => Bytes(output) + n <= bert_data_sizeof[d]
        /\ ~ShortWrites /\ WellMeasured[d] =>
             jobs \in Seq(MeasuredJobs) /\ Bytes(output) + n = bert_data_sizeof[d]
  BY DEF InSize
<1>3. PICK job : job = Head(jobs)
  OBVIOUS
<1>4. /\ job \in JobSet
      /\ \E m \in Nat : Weighs(Tail(jobs), m) /\ n = Cost(job) + m
  BY <1>1, <1>2, <1>3, WeighsTail
<1>5. PICK m \in Nat : Weighs(Tail(jobs), m) /\ n = Cost(job) + m
  BY <1>4
<1>6. PICK e \in Terms : e = job.data /\ Encodable(e)
  BY <1>3, <1>4, JobIs
<1>7. PICK c \in Nat : c = SizeWith(e, KidsSize(e)) /\ Cost(job) = c /\ c = bert_data_sizeof[e]
  <2>1. Cost(job) = bert_data_sizeof[e]
    BY <1>3, <1>6 DEF Cost
  <2> QED
    BY <1>1, <2>1 DEF Sizes
<1>8. PICK k \in Nat : /\ Weighs(Jobs(e), k)
                       /\ Fair(e) => k <= c
                       /\ IntsMeasured(e) => k = c
  BY <1>1, <1>6, <1>7, JobsFit DEF Fits
<1>9. Weighs(Jobs(e) \o Tail(jobs), k + m) /\ k + m \in Nat
  BY <1>1, <1>5, <1>8, WeighsOn
<1>10. NoneUndersized => Bytes(output) + (k + m) <= bert_data_sizeof[d]
  <2> SUFFICES ASSUME NoneUndersized PROVE Bytes(output) + (k + m) <= bert_data_sizeof[d]
    OBVIOUS
  <2>1. k <= c
    BY <1>8 DEF NoneUndersized
  <2>2. bert_data_sizeof[d] \in Nat
    BY <1>1 DEF Sizes
  <2>3. Bytes(output) + n <= bert_data_sizeof[d] /\ n = c + m
    BY <1>2, <1>5, <1>7
  <2> QED
    BY <2>1, <2>2, <2>3
<1>11. ASSUME ~ShortWrites, WellMeasured[d]
       PROVE  /\ Jobs(e) \o Tail(jobs) \in Seq(MeasuredJobs)
              /\ Bytes(output) + (k + m) = bert_data_sizeof[d]
  <2>1. jobs \in Seq(MeasuredJobs) /\ Bytes(output) + n = bert_data_sizeof[d]
    BY <1>2, <1>11
  <2>2. job \in MeasuredJobs /\ Tail(jobs) \in Seq(MeasuredJobs)
    BY <1>3, <2>1, HeadTailProperties
  <2>3. WellMeasured[e]
    BY <1>3, <1>6, <2>2 DEF MeasuredJobs
  <2>4. IntsMeasured(e) /\ \A i \in DOMAIN e.kids : WellMeasured[e.kids[i]]
    BY <2>3, WellMeasuredRecursion
  <2>5. Jobs(e) \in Seq(MeasuredJobs)
    BY <1>1, <1>6, <2>4, JobsMeasured
  <2>6. k = c
    BY <1>8, <2>4
  <2> QED
    BY <1>5, <1>7, <2>1, <2>2, <2>5, <2>6, ConcatProperties
<1>12. InSize(Jobs(e) \o Tail(jobs), output, d)
  BY <1>9, <1>10, <1>11 DEF InSize
<1> QED
  BY <1>3, <1>6, <1>12

\* A write moves bytes from what is left to the output, and some of them may get lost on the way.
LEMMA SizeOfWrite ==
  ASSUME Sizes, NEW jobs, jobs # << >>, Head(jobs).op = "write",
         NEW output \in Seq(Tokens), NEW d \in Terms, InSize(jobs, output, d),
         NEW arrived \in Tokens, Len(arrived) <= Len(Head(jobs).token),
         ~ShortWrites => Len(arrived) = Len(Head(jobs).token)
  PROVE  InSize(Tail(jobs), Append(output, arrived), d)
<1>1. PICK n \in Nat :
        /\ Weighs(jobs, n)
        /\ NoneUndersized => Bytes(output) + n <= bert_data_sizeof[d]
        /\ ~ShortWrites /\ WellMeasured[d] =>
             jobs \in Seq(MeasuredJobs) /\ Bytes(output) + n = bert_data_sizeof[d]
  BY DEF InSize
<1>2. PICK job : job = Head(jobs)
  OBVIOUS
<1>3. /\ job \in JobSet /\ Cost(job) \in Nat
      /\ \E m \in Nat : Weighs(Tail(jobs), m) /\ n = Cost(job) + m
  BY <1>1, <1>2, WeighsTail
<1>4. PICK m \in Nat : Weighs(Tail(jobs), m) /\ n = Cost(job) + m
  BY <1>3
<1>5. PICK c \in Nat, k \in Nat : c = Len(job.token) /\ k = Len(arrived) /\ Cost(job) = c
  <2>1. Cost(job) = Len(job.token)
    BY <1>2 DEF Cost
  <2> QED
    BY <1>3, <2>1, TokenLength
<1>6. PICK b \in Nat : b = Bytes(output) /\ Bytes(Append(output, arrived)) = b + k
  <2>1. output \in Seq(Seq(Byte)) /\ arrived \in Seq(Byte)
    <3>1. Tokens \subseteq Seq(Byte)
      BY DEF Tokens
    <3>2. PICK S : S = Seq(Byte)
      OBVIOUS
    <3>3. output \in Seq(S)
      BY <3>1, <3>2
    <3> QED
      BY <3>1, <3>2, <3>3
  <2>2. /\ FlattenSeq(output) \in Seq(Byte)
        /\ FlattenSeq(Append(output, arrived)) = FlattenSeq(output) \o arrived
    BY <2>1, FlattenAppend
  <2>3. Len(FlattenSeq(output)) \in Nat
    BY <2>2, LenProperties
  <2>4. Len(FlattenSeq(output) \o arrived) = Len(FlattenSeq(output)) + Len(arrived)
    BY <2>1, <2>2, ConcatProperties
  <2> QED
    BY <1>5, <2>2, <2>3, <2>4 DEF Bytes
<1>7. bert_data_sizeof[d] \in Nat
  BY DEF Sizes
<1>8. NoneUndersized => (b + k) + m <= bert_data_sizeof[d]
  <2>1. k <= c /\ n = c + m
    BY <1>2, <1>4, <1>5
  <2>2. PICK size \in Nat : size = bert_data_sizeof[d]
    BY <1>7
  <2>3. NoneUndersized => b + n <= size
    BY <1>1, <1>6, <2>2
  <2>4. b + n <= size => (b + k) + m <= size
    BY <2>1
  <2> QED
    BY <2>2, <2>3, <2>4
<1>9. ASSUME ~ShortWrites, WellMeasured[d]
      PROVE  Tail(jobs) \in Seq(MeasuredJobs) /\ (b + k) + m = bert_data_sizeof[d]
  <2>1. jobs \in Seq(MeasuredJobs) /\ b + n = bert_data_sizeof[d]
    BY <1>1, <1>6, <1>9
  <2>2. k = c
    BY <1>2, <1>5, <1>9
  <2>3. Tail(jobs) \in Seq(MeasuredJobs)
    BY <2>1, HeadTailProperties
  <2> QED
    BY <1>4, <1>5, <2>1, <2>2, <2>3
<1> QED
  BY <1>4, <1>6, <1>8, <1>9 DEF InSize

\* Once the magic byte is written, a push's output is a sequence of tokens, whole or not.
LEMMA GoingTokens ==
  ASSUME Going, pushed.from \in 1 .. Len(sink) + 1
  PROVE  /\ sink \in Seq(Seq(Byte)) /\ Len(sink) \in Nat \ {0} /\ sink[1] = Magic
         /\ Output = OutputOf(sink, pushed.from)
         /\ Output \in Seq(Tokens) /\ Bytes(Output) \in Nat
<1>1. sink \in Seq(Seq(Byte)) /\ Len(sink) \in Nat \ {0} /\ sink[1] = Magic
  <2> DEFINE S == Seq(Byte)
  <2> HIDE DEF S
  <2>1. sink \in Seq(S) /\ sink # << >> => Len(sink) \in Nat \ {0}
    BY EmptySeq, LenProperties
  <2> QED
    BY <2>1 DEF Going, S
<1>2. Output = OutputOf(sink, pushed.from)
  BY DEF Output, OutputOf
<1>3. Output \in Seq(Tokens)
  <2>1. Tokens \in SUBSET Tokens
    OBVIOUS
  <2> QED
    BY <1>1, <1>2, <2>1, OutputFacts DEF Going
<1>4. Bytes(Output) \in Nat
  BY <1>3, BytesOfTokens
<1> QED
  BY <1>1, <1>2, <1>3, <1>4

\* A write adds one token to the sink: all of the one it was given, or a part of it.
LEMMA ArrivalFacts ==
  ASSUME MagicInv, WriteSucceeds
  PROVE  /\ Fresh => sink' = <<Magic>>
         /\ Going => \E arrived \in Tokens :
                       /\ sink' = Append(sink, arrived)
                       /\ Len(arrived) <= Len(Head(todo).token)
                       /\ ~ShortWrites => Len(arrived) = Len(Head(todo).token)
<1> DEFINE token == Head(todo).token
<1>1. PICK n \in Arrivals(token) : sink' = Append(sink, SubSeq(token, 1, n))
  BY DEF WriteSucceeds
<1>2. todo # << >> /\ Head(todo).op = "write"
  BY DEF WriteSucceeds, Doing, Running
<1>3. ASSUME Fresh PROVE sink' = <<Magic>>
  <2>1. PICK d \in Terms : todo = MagicAndPush(d)
    BY <1>2, <1>3, MagicJobs DEF Fresh
  <2>2. token = Magic
    BY <2>1, MagicJobs
  <2>3. n = 1
    <3>1. Len(token) \in Nat \ {0} /\ Len(token) = 1
      BY <2>2, MagicFacts
    <3> HIDE DEF token
    <3>2. n \in 1 .. Len(token)
      BY <3>1, ArrivalsInside DEF MagicInv
    <3> QED
      BY <3>1, <3>2
  <2>4. SubSeq(Magic, 1, 1) = Magic
    BY MagicFacts, SubSeqFull
  <2> HIDE DEF token
  <2> QED
    BY <1>1, <1>3, <2>2, <2>3, <2>4 DEF Fresh
<1>4. ASSUME Going
      PROVE  \E arrived \in Tokens :
               /\ sink' = Append(sink, arrived)
               /\ Len(arrived) <= Len(token)
               /\ ~ShortWrites => Len(arrived) = Len(token)
  <2>1. token \in Tokens
    BY <1>2, <1>4, HeadOfJobs, JobIs DEF Going, WholeTokens
  <2> HIDE DEF token
  <2>2. token \in Seq(Byte) /\ Len(token) \in Nat \ {0}
    BY <2>1, TokenLength
  <2>3. n \in 1 .. Len(token) /\ (~ShortWrites => n = Len(token))
    BY <2>2, ArrivalsInside DEF MagicInv
  <2>4. PICK arrived \in Tokens : arrived = SubSeq(token, 1, n) /\ Len(arrived) = n
    <3>1. SubSeq(token, 1, n) \in Tokens /\ Len(SubSeq(token, 1, n)) = n
      BY <2>1, <2>2, <2>3, ArrivedToken
    <3> QED
      BY <3>1, Zenon
  <2>5. sink' = Append(sink, arrived)
    BY <1>1, <2>4
  <2>6. Len(arrived) <= Len(token) /\ (~ShortWrites => Len(arrived) = Len(token))
    BY <2>2, <2>3, <2>4
  <2> QED
    BY <2>5, <2>6, Zenon
<1> QED
  BY <1>3, <1>4

\* The magic byte is written before the term that is pushed.
LEMMA MagicFirst ==
  ASSUME MagicInv, SizeInv, PushMagic
  PROVE  /\ ~encoder'.wrote_magic /\ sink' = sink /\ pushed' = pushed
         /\ pushed.data \in Terms /\ pushed.from \in 1 .. Len(sink) + 1
         /\ todo' = MagicAndPush(pushed.data)
<1>1. /\ Fresh /\ Running /\ Head(todo).op = "push" /\ ~encoder'.wrote_magic
      /\ todo' = Writes(<<Magic>>) \o todo /\ sink' = sink /\ pushed' = pushed
  BY DEF PushMagic, Going, Doing, Running, MagicInv, Fresh
<1>2. /\ pushed.data \in Terms /\ pushed.from \in 1 .. Len(sink) + 1
      /\ todo \in {OnlyPush(pushed.data), MagicAndPush(pushed.data)}
  BY <1>1 DEF SizeInv
<1>3. todo' = MagicAndPush(pushed.data)
  BY <1>1, <1>2, MagicJobs DEF OnlyPush, MagicAndPush
<1> QED
  BY <1>1, <1>2, <1>3

\* A term that is pushed leaves something to do.
LEMMA PushGoesOn ==
  ASSUME Sizes, Going, PushTerm
  PROVE  todo' # << >>
<1>1. /\ todo # << >> /\ Head(todo).op = "push" /\ Encodable(Head(todo).data)
      /\ todo' = Jobs(Head(todo).data) \o Tail(todo)
  BY DEF PushTerm, Doing, Running
<1>2. /\ Head(todo).data \in Terms /\ Tail(todo) \in Seq(JobSet)
  BY <1>1, HeadOfJobs, JobIs DEF Going
<1>3. PICK jobs : jobs = Jobs(Head(todo).data) /\ jobs \in Seq(JobSet) /\ jobs # << >>
  BY <1>1, <1>2, JobsAreJobs, SomethingToWrite
<1>4. Len(jobs) \in Nat \ {0} /\ Len(Tail(todo)) \in Nat
  BY <1>2, <1>3, EmptySeq, LenProperties
<1>5. Len(jobs \o Tail(todo)) = Len(jobs) + Len(Tail(todo))
  BY <1>2, <1>3, ConcatProperties
<1>6. Len(todo') # 0
  BY <1>1, <1>3, <1>4, <1>5
<1>7. Len(<< >>) = 0
  OBVIOUS
<1> QED
  BY <1>6, <1>7, Zenon

\* Every step keeps it: a push replaces a term by jobs that write what the term is measured with, a
\* write moves bytes from what is left to the output, an error leaves nothing to compare.
LEMMA SizeStep ==
  ASSUME Trees, MagicInv, MagicInv', SizeInv, [Next]_vars
  PROVE  SizeInv'
<1>0. Sizes
  BY SizeofRecursion
<1>1. ASSUME sink' = sink, pushed' = pushed, todo' = todo, result' = result,
             encoder'.wrote_magic = encoder.wrote_magic
      PROVE  SizeInv'
  <2>1. Output' = Output /\ (Going' => Going) /\ (Fresh' => Fresh)
    BY <1>1 DEF Output, Going, Fresh
  <2> QED
    BY <1>1, <2>1 DEF SizeInv, Running, SizeofEnough, SizeofExact, Succeeded
<1>2. ASSUME pushed'.from \in 1 .. Len(sink') + 1, pushed'.data \in Terms, todo' # << >>,
             Fresh' => todo' \in {OnlyPush(pushed'.data), MagicAndPush(pushed'.data)},
             Going' => InSize(todo', Output', pushed'.data)
      PROVE  SizeInv'
  BY <1>2 DEF SizeInv, Running, SizeofEnough, SizeofExact, Succeeded
<1>3. ASSUME sink' = sink, pushed' = pushed, todo' = << >>, result' # BERT_SUCCESS
      PROVE  SizeInv'
  BY <1>3 DEF SizeInv, Running, SizeofEnough, SizeofExact, Succeeded
<1>4. ASSUME NEW d \in Terms, bert_encoder_push(d) PROVE SizeInv'
  <2>1. /\ sink' = sink /\ todo' = OnlyPush(d) /\ pushed'.from = Len(sink) + 1
        /\ pushed'.data = d
    BY <1>4 DEF bert_encoder_push, OnlyPush
  <2>2. Len(sink) \in Nat
    BY SinkTyped, LenProperties
  <2>3. Output' = << >>
    <3>1. Output' = OutputOf(sink, Len(sink) + 1)
      BY <2>1 DEF Output, OutputOf
    <3>2. OutputOf(sink, Len(sink) + 1) = SubSeq(sink, Len(sink) + 1, Len(sink))
      BY <2>2 DEF OutputOf
    <3> QED
      BY <2>2, <3>1, <3>2, SubSeqEmpty
  <2>4. InSize(todo', Output', d) /\ todo' # << >>
    BY <1>0, <2>1, <2>3, SizeAtStart, MagicJobs
  <2> QED
    BY <1>2, <2>1, <2>2, <2>4
<1>5. CASE PushMagic
  <2>1. /\ ~encoder'.wrote_magic /\ sink' = sink /\ pushed' = pushed
        /\ pushed.data \in Terms /\ pushed.from \in 1 .. Len(sink) + 1
        /\ todo' = MagicAndPush(pushed.data)
    BY <1>5, MagicFirst
  <2>2. todo' # << >> /\ ~Going'
    BY <2>1, MagicJobs DEF Going
  <2> QED
    BY <1>2, <2>1, <2>2
<1>6. CASE PushTerm
  <2>1. /\ Going /\ Running /\ todo # << >> /\ Head(todo).op = "push" /\ Encodable(Head(todo).data)
        /\ sink' = sink /\ pushed' = pushed /\ todo' = Jobs(Head(todo).data) \o Tail(todo)
        /\ encoder' = encoder
    BY <1>6 DEF PushTerm, Doing, Running, Fresh, MagicInv
  <2>2. InSize(todo, Output, pushed.data) /\ pushed.data \in Terms
        /\ pushed.from \in 1 .. Len(sink) + 1
    BY <2>1 DEF SizeInv
  <2>3. Bytes(Output) \in Nat
    BY <2>1, <2>2, GoingTokens
  <2>4. InSize(todo', Output, pushed.data)
    BY <2>1, <2>2, <2>3, SizeOfPush
  <2>5. todo' # << >>
    BY <1>0, <1>6, <2>1, PushGoesOn
  <2>6. Output' = Output /\ ~Fresh'
    BY <2>1 DEF Output, Fresh, Going
  <2> QED
    BY <1>2, <2>1, <2>2, <2>4, <2>5, <2>6
<1>7. CASE PushInvalid
  <2>1. /\ sink' = sink /\ pushed' = pushed /\ todo' = << >> /\ result' = BERT_ERRNO_INVALID
    BY <1>7 DEF PushInvalid, Fail
  <2> QED
    BY <1>3, <2>1, FailedPush
<1>8. CASE WriteFails
  <2>1. /\ sink' = sink /\ pushed' = pushed /\ todo' = << >>
        /\ result' \in {BERT_ERRNO_INVALID, BERT_ERRNO_WRITE, BERT_ERRNO_SHORT_WRITE}
    BY <1>8 DEF WriteFails, Refusals, Fail, MagicInv, EncoderOK
  <2> QED
    BY <1>3, <2>1, FailedPush
<1>9. CASE WriteSucceeds /\ Fresh
  <2>1. /\ Running /\ Head(todo).op = "write" /\ todo' = Tail(todo) /\ pushed' = pushed
        /\ sink' = <<Magic>>
    BY <1>9, ArrivalFacts DEF WriteSucceeds, Doing, Running, GoOn
  <2>2. /\ pushed.data \in Terms /\ pushed.from = 1
        /\ todo \in {OnlyPush(pushed.data), MagicAndPush(pushed.data)}
    BY <1>9, <2>1 DEF SizeInv, Fresh
  <2>3. todo' = OnlyPush(pushed.data) /\ todo' # << >>
    BY <2>1, <2>2, MagicJobs
  <2>4. Output' = << >>
    BY <2>1, <2>2, OutputOfNothing DEF Output, OutputOf
  <2>5. InSize(todo', Output', pushed'.data)
    BY <1>0, <2>1, <2>2, <2>3, <2>4, SizeAtStart
  <2>6. Len(sink') = 1
    BY <2>1
  <2> QED
    BY <1>2, <2>1, <2>2, <2>3, <2>5, <2>6
<1>10. CASE WriteSucceeds /\ Going
  <2>1. /\ Running /\ todo # << >> /\ Head(todo).op = "write" /\ todo' = Tail(todo)
        /\ pushed' = pushed
    BY <1>10 DEF WriteSucceeds, Doing, Running, GoOn
  <2>2. PICK arrived \in Tokens :
          /\ sink' = Append(sink, arrived)
          /\ Len(arrived) <= Len(Head(todo).token)
          /\ ~ShortWrites => Len(arrived) = Len(Head(todo).token)
    BY <1>10, ArrivalFacts
  <2>3. /\ InSize(todo, Output, pushed.data) /\ pushed.data \in Terms
        /\ pushed.from \in 1 .. Len(sink) + 1
    BY <1>10, <2>1 DEF SizeInv
  <2>4. /\ sink \in Seq(Seq(Byte)) /\ Len(sink) \in Nat \ {0} /\ sink[1] = Magic
        /\ Output = OutputOf(sink, pushed.from)
        /\ Output \in Seq(Tokens)
    BY <1>10, <2>3, GoingTokens
  <2>5. Output' = Append(Output, arrived)
    <3>1. Output' = OutputOf(Append(sink, arrived), pushed.from)
      BY <2>1, <2>2 DEF Output, OutputOf
    <3>2. \A k \in 2 .. Len(sink) : sink[k] \in Tokens
      BY <1>10 DEF Going
    <3> QED
      BY <2>2, <2>3, <2>4, <3>1, <3>2, OutputAppended
  <2>6. InSize(todo', Output', pushed'.data)
    BY <1>0, <2>1, <2>2, <2>3, <2>4, <2>5, SizeOfWrite
  <2>7. /\ Len(sink') = Len(sink) + 1 /\ sink' # << >>
        /\ pushed'.from \in 1 .. Len(sink') + 1
    <3>1. arrived \in Seq(Byte)
      BY <2>2 DEF Tokens
    <3>2. Len(Append(sink, arrived)) = Len(sink) + 1 /\ Append(sink, arrived) # << >>
      <4> DEFINE S == Seq(Byte)
      <4>1. sink \in Seq(S) /\ arrived \in S
        BY <2>4, <3>1
      <4> HIDE DEF S
      <4> QED
        BY <4>1, AppendProperties
    <3> QED
      BY <2>1, <2>2, <2>3, <2>4, <3>2
  <2>8. ~Fresh'
    BY <2>7 DEF Fresh
  <2>9. CASE todo' # << >>
    BY <1>2, <2>1, <2>3, <2>6, <2>7, <2>8, <2>9
  <2>10. CASE todo' = << >>
    <3>1. Output' \in Seq(Tokens)
      BY <2>2, <2>4, <2>5, AppendProperties
    <3>2. /\ NoneUndersized => Bytes(Output') <= bert_data_sizeof[pushed'.data]
          /\ ~ShortWrites /\ WellMeasured[pushed'.data] =>
               Bytes(Output') = bert_data_sizeof[pushed'.data]
      BY <1>0, <2>6, <2>10, <3>1, SizeAtEnd
    <3> QED
      BY <2>1, <2>3, <2>7, <2>8, <2>10, <3>2 DEF SizeInv, Running, SizeofEnough, SizeofExact
  <2> QED
    BY <2>9, <2>10
<1>11. CASE \/ bert_encoder_stream \/ bert_encoder_callback
            \/ \E n \in BufferLengths : bert_encoder_buffer(n)
  <2>1. /\ sink' = sink /\ pushed' = pushed /\ todo' = todo /\ result' = result
        /\ encoder'.wrote_magic = encoder.wrote_magic
    BY <1>11 DEF bert_encoder_stream, bert_encoder_callback, bert_encoder_buffer, Attach,
                 MagicInv, EncoderOK
  <2> QED
    BY <1>1, <2>1
<1>12. CASE UNCHANGED vars
  BY <1>1, <1>12 DEF vars
<1> QED
  BY <1>4, <1>5, <1>6, <1>7, <1>8, <1>9, <1>10, <1>11, <1>12 DEF Next, MagicInv

\* A new encoder has pushed nothing.
LEMMA SizeInit == Init => SizeInv
<1> SUFFICES ASSUME Init PROVE SizeInv
  OBVIOUS
<1>1. sink = << >> /\ Len(sink) = 0 /\ pushed.from = 1 /\ pushed.data = NoTerm /\ todo = << >>
  BY DEF Init
<1> QED
  BY <1>1 DEF SizeInv, Running, SizeofEnough, SizeofExact, Succeeded

\* The invariant of the sizes holds in every state.
LEMMA SizeInvariant == Trees => (Spec => []SizeInv)
<1> SUFFICES ASSUME Trees PROVE Spec => []SizeInv
  OBVIOUS
<1>1. MagicInv /\ MagicInv' /\ SizeInv /\ [Next]_vars => SizeInv'
  BY SizeStep
<1> QED
  BY <1>1, SizeInit, MagicInvariant, PTL DEF Spec

\* A push that succeeds has written no more than bert_data_sizeof has for its term, whatever
\* the sink takes ("Returns the required space in bytes needed to encode the given
\* bert_data_t"), where no integer is negative and small.
THEOREM SizeofIsEnough == Trees /\ NoneUndersized => (Spec => []SizeofEnough)
<1> SUFFICES ASSUME Trees, NoneUndersized PROVE Spec => []SizeofEnough
  OBVIOUS
<1>1. SizeInv => SizeofEnough
  BY DEF SizeInv
<1> QED
  BY <1>1, SizeInvariant, PTL

\* ... and just as much, where the integers of the term are written as long as they are
\* measured and every write takes all it is given.
THEOREM SizeofIsExact == Trees /\ ~ShortWrites => (Spec => []SizeofExact)
<1> SUFFICES ASSUME Trees, ~ShortWrites PROVE Spec => []SizeofExact
  OBVIOUS
<1>1. SizeInv => SizeofExact
  BY DEF SizeInv
<1> QED
  BY <1>1, SizeInvariant, PTL

\* The bytes since a push began are those of its output, and the magic byte where the push
\* began with it.
LEMMA BytesSince ==
  ASSUME Going, pushed.from \in 1 .. Len(sink) + 1
  PROVE  /\ Bytes(Output) \in Nat
         /\ Bytes(SubSeq(sink, pushed.from, Len(sink)))
              = Bytes(Output) + (IF pushed.from = 1 THEN 1 ELSE 0)
<1>1. /\ sink \in Seq(Seq(Byte)) /\ Len(sink) \in Nat \ {0} /\ sink[1] = Magic
      /\ Output = OutputOf(sink, pushed.from)
      /\ Output \in Seq(Tokens) /\ Bytes(Output) \in Nat
  BY GoingTokens
<1>2. Output = SubSeq(sink, IF pushed.from = 1 THEN 2 ELSE pushed.from, Len(sink))
  <2>1. Tokens \in SUBSET Tokens
    OBVIOUS
  <2> QED
    BY <1>1, <2>1, OutputFacts DEF Going
<1>3. CASE pushed.from # 1
  BY <1>1, <1>2, <1>3
<1>4. CASE pushed.from = 1
  <2>1. PICK l \in Nat : Len(sink) = l + 1
    <3>1. Len(sink) - 1 \in Nat /\ Len(sink) = (Len(sink) - 1) + 1
      BY <1>1
    <3> QED
      BY <3>1
  <2>2. PICK rest : rest = SubSeq(sink, 2, l + 1) /\ rest = Output
    BY <1>2, <1>4, <2>1
  <2>3. /\ rest \in [1 .. l -> Seq(Byte)]
        /\ \A i \in 1 .. l : sink[i + 1] = rest[i]
    <3> DEFINE S == Seq(Byte)
    <3>1. sink \in Seq(S)
      BY <1>1
    <3> HIDE DEF S
    <3>2. \A i \in 2 .. l + 1 : sink[i] \in S
      <4>1. \A i \in 2 .. l + 1 : i \in 1 .. Len(sink)
        BY <2>1
      <4> QED
        BY <3>1, <4>1, ElementOfSeq
    <3>3. (IF 2 <= l + 1 THEN (l + 1) - 2 + 1 ELSE 0) = l /\ 2 \in Int /\ l + 1 \in Int
      OBVIOUS
    <3>4. /\ rest \in Seq(S) /\ Len(rest) = l
          /\ \A i \in 1 .. (l + 1) - 2 + 1 : rest[i] = sink[2 + i - 1]
      BY <2>2, <3>2, <3>3, SubSeqProperties
    <3>5. \A i \in 1 .. l : i \in 1 .. (l + 1) - 2 + 1 /\ 2 + i - 1 = i + 1
      OBVIOUS
    <3>6. rest \in [1 .. l -> S]
      BY <3>4, LenProperties
    <3> QED
      BY <3>4, <3>5, <3>6 DEF S
  <2>4. sink \in [1 .. l + 1 -> Seq(Byte)]
    BY <1>1, <2>1, LenProperties
  <2>5. FlattenSeq(sink) = Magic \o FlattenSeq(rest) /\ FlattenSeq(rest) \in Seq(Byte)
    BY <1>1, <2>3, <2>4, FlattenFirst, ZenonT(40)
  <2>6. SubSeq(sink, 1, Len(sink)) = sink
    <3> DEFINE S == Seq(Byte)
    <3>1. sink \in Seq(S)
      BY <1>1
    <3> HIDE DEF S
    <3> QED
      BY <3>1, SubSeqFull
  <2>7. Len(FlattenSeq(sink)) = 1 + Len(FlattenSeq(rest)) /\ Len(FlattenSeq(rest)) \in Nat
    <3>1. PICK m, r : m = Magic /\ r = FlattenSeq(rest)
      OBVIOUS
    <3>2. m \in Seq(Byte) /\ r \in Seq(Byte) /\ Len(m) = 1
      BY <2>5, <3>1, MagicFacts
    <3>3. Len(m \o r) = 1 + Len(r) /\ Len(r) \in Nat
      BY <3>2, ConcatProperties, LenProperties
    <3> QED
      BY <2>5, <3>1, <3>3, Zenon
  <2>8. Bytes(sink) = Bytes(Output) + 1
    BY <2>2, <2>7 DEF Bytes
  <2> QED
    BY <1>1, <1>4, <2>6, <2>8
<1> QED
  BY <1>1, <1>3, <1>4

\* BERT_ERRNO_SHORT_WRITE means what is said of it: the buffer had less than the term's
\* bert_data_sizeof, and the magic byte if it was still to come, when the push began.
THEOREM ShortWriteIsTrue == Trees /\ NoneUndersized => (Spec => ShortWriteWhenNoRoom)
<1> SUFFICES ASSUME Trees, NoneUndersized PROVE Spec => ShortWriteWhenNoRoom
  OBVIOUS
<1>0. Sizes
  BY SizeofRecursion
<1>1. ASSUME MagicInv, SizeInv, [Next]_vars, Running, ~Running',
             result' = BERT_ERRNO_SHORT_WRITE
      PROVE  RoomBefore < bert_data_sizeof[pushed.data] + (IF pushed.from = 1 THEN 1 ELSE 0)
  <2>1. WriteFails
    <3>1. ~PushMagic
      BY <1>1, MagicFirst, MagicJobs DEF Running
    <3>2. ~PushTerm
      BY <1>0, <1>1, PushGoesOn DEF Running, MagicInv, Fresh, PushTerm
    <3>3. ~PushInvalid
      BY <1>1 DEF PushInvalid, Fail, BERT_ERRNO_INVALID, BERT_ERRNO_SHORT_WRITE
    <3>4. ~WriteSucceeds
      BY <1>1 DEF WriteSucceeds, GoOn, Running, BERT_SUCCESS, BERT_ERRNO_SHORT_WRITE
    <3> QED
      BY <1>1, <3>1, <3>2, <3>3, <3>4 DEF Next, bert_encoder_stream, bert_encoder_callback,
         bert_encoder_buffer, Attach, bert_encoder_push, vars, Running
  <2> DEFINE token == Head(todo).token
  <2>2. todo # << >> /\ Head(todo).op = "write"
    BY <2>1 DEF WriteFails, Doing, Running
  <2>3. encoder.buffer_length - encoder.buffer_index < Len(token) \/ ~(Len(token) \in Nat)
    <3>1. BERT_ERRNO_SHORT_WRITE \in Refusals(token)
      BY <1>1, <2>1 DEF WriteFails, Fail
    <3>2. ~HasRoom(Len(token))
      BY <1>1, <3>1 DEF Refusals, MagicInv, EncoderOK, BERT_ERRNO_SHORT_WRITE, BERT_ERRNO_WRITE,
         BERT_ERRNO_INVALID
    <3> HIDE DEF token
    <3> QED
      BY <1>1, <3>2 DEF HasRoom, MagicInv, EncoderOK
  <2>4. pushed.data \in Terms /\ pushed.from \in 1 .. Len(sink) + 1
    BY <1>1 DEF SizeInv
  <2>5. PICK room \in Int, size \in Nat :
          /\ room = encoder.buffer_length - encoder.buffer_index
          /\ size = bert_data_sizeof[pushed.data]
    BY <1>0, <1>1, <2>4 DEF Sizes, MagicInv, EncoderOK
  <2>6. CASE Fresh
    <3>1. token = Magic
      BY <1>1, <2>2, <2>6, MagicJobs DEF SizeInv
    <3>2. Len(token) = 1
      BY <3>1, MagicFacts
    <3>3. sink = << >> /\ Len(sink) = 0 /\ pushed.from = 1
      BY <2>4, <2>6 DEF Fresh
    <3>4. RoomBefore = room + 0
      <4>1. SubSeq(sink, 1, 0) = << >>
        BY SubSeqEmpty
      <4>2. SubSeq(sink, pushed.from, Len(sink)) = << >>
        BY <3>3, <4>1
      <4> QED
        BY <2>5, <4>2, NoBytes DEF RoomBefore
    <3> HIDE DEF token
    <3> QED
      BY <2>3, <2>5, <3>2, <3>3, <3>4
  <2>7. CASE Going
    <3>1. PICK n \in Nat : Weighs(todo, n) /\ Bytes(Output) + n <= size
      BY <1>1, <2>5, <2>7 DEF SizeInv, InSize
    <3>2. PICK m \in Nat : n = Cost(Head(todo)) + m /\ Cost(Head(todo)) \in Nat
      BY <1>0, <2>2, <3>1, WeighsTail
    <3>3. Cost(Head(todo)) = Len(token)
      BY <2>2 DEF Cost
    <3>4. PICK b \in Nat, one \in Nat :
            /\ b = Bytes(Output) /\ one = IF pushed.from = 1 THEN 1 ELSE 0
            /\ Bytes(SubSeq(sink, pushed.from, Len(sink))) = b + one
      BY <2>4, <2>7, BytesSince
    <3>5. RoomBefore = room + (b + one)
      BY <2>5, <3>4 DEF RoomBefore
    <3> HIDE DEF token
    <3>6. room < Len(token)
      BY <2>3, <2>5, <3>2, <3>3
    <3>7. room + (b + one) < size + one
      <4>1. PICK c \in Nat : c = Len(token)
        BY <3>2, <3>3
      <4>2. b + (c + m) <= size /\ room < c
        BY <3>1, <3>2, <3>3, <3>4, <3>6, <4>1
      <4> QED
        BY <2>5, <4>2
    <3> QED
      BY <2>5, <3>4, <3>5, <3>7
  <2> QED
    BY <1>1, <2>6, <2>7 DEF MagicInv
<1>2. MagicInv /\ SizeInv /\ [Next]_vars =>
        [ Running /\ ~Running' /\ result' = BERT_ERRNO_SHORT_WRITE
            => RoomBefore < bert_data_sizeof[pushed.data] + (IF pushed.from = 1 THEN 1 ELSE 0) ]_vars
  BY <1>1
<1> QED
  BY <1>2, MagicInvariant, SizeInvariant, PTL DEF Spec, ShortWriteWhenNoRoom
=============================================================================
