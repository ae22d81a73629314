---------------------------- MODULE BertDecoder ----------------------------
(***************************************************************************)
(* What bert_decoder_pull makes of bytes: an operator of the stream and of *)
(* the position reached in it.  The stream holds all there is when a pull  *)
(* begins, every read delivers what is asked for as far as there is any,   *)
(* and malloc succeeds; sources, short counts and failures inside a term   *)
(* are in ShortBuffer and Decode.                                          *)
(***************************************************************************)
EXTENDS BertData

Unset == Plain("unset", << >>)  \* *data is left as it was

\* a nested pull never set its term, which is then garbage or NULL: what becomes of it is in Decode
Undefined == 2

Fails(code, at) == [code |-> code, data |-> Unset, at |-> at]
Gives(data, at) == [code |-> BERT_SUCCESS, data |-> data, at |-> at]

\* BERT_DECODER_READ and BERT_DECODER_STEP of n bytes, and what is done with them
Read(bytes, at, n, Then(_, _)) ==
  IF Len(bytes) - at < n
    THEN Fails(BERT_ERRNO_SHORT_READ, at)
    ELSE Then(SubSeq(bytes, at + 1, at + n), at + n)

\* whole chunks of half the short buffer are gone when a later one does not come
bert_decode_bytes(bytes, at, n, Then(_, _)) ==
  IF Len(bytes) - at < n
    THEN Fails(BERT_ERRNO_SHORT_READ, at + 256 * ((Len(bytes) - at) \div 256))
    ELSE Then(SubSeq(bytes, at + 1, at + n), at + n)

\* a size on the wire: from 2^24 up all are alike, no stream is as long
Size(field) ==
  LET word == BigEndian(field)
  IN  IF ByteCount(word) > 3 THEN 2^24 ELSE Counted(word)

\* what a function does with the result of a nested pull: 0 is passed on, as BERT_SUCCESS
Pulled(pull, Then(_, _)) ==
  IF pull.code # 1 THEN Fails(pull.code, pull.at)
  ELSE IF pull.data = Unset THEN Fails(Undefined, pull.at)
  ELSE Then(pull.data, pull.at)

-----------------------------------------------------------------------------
(* Terms without elements *)

bert_decode_small_int(bytes, start) ==
  Read(bytes, start, 1, LAMBDA i, at : Gives(Number(Widened(i, 8)), at))

bert_decode_big_int(bytes, start) ==
  Read(bytes, start, 4, LAMBDA i, at : Gives(Number(Widened(BigEndian(i), 8)), at))

bert_decode_float(bytes, start) ==
  bert_decode_bytes(bytes, start, 31, LAMBDA text, at :
    IF IsFloatText(text) THEN Gives(Float(text[1]), at) ELSE Fails(BERT_ERRNO_INVALID, at))

DropsSign(sign, magnitude) == magnitude

Signed(sign, magnitude) == IF sign # 0 THEN Negated(magnitude) ELSE magnitude

bert_decode_bignum(bytes, start, size) ==
  IF size > 8 THEN Fails(BERT_ERRNO_BIGNUM, start)
  ELSE Read(bytes, start, 1, LAMBDA sign, first :
         bert_decode_bytes(bytes, first, size, LAMBDA i, at :
           Gives(Number(Signed(sign[1], BERT_STRIP_SIGN(Widened(i, 8)))), at)))

\* a text with a length of n bytes before it
SizedText(bytes, start, n, type) ==
  Read(bytes, start, n, LAMBDA size, first :
    bert_decode_bytes(bytes, first, Size(size), LAMBDA text, at : Gives(Plain(type, text), at)))

-----------------------------------------------------------------------------
(* Terms with elements *)

RECURSIVE bert_decoder_pull(_, _)

\* what the first of two runs of nested pulls gave, and the second, which follows if it succeeded
Joined(first, second) ==
  IF second.data = Unset THEN second
  ELSE Gives(Compound("tuple", first.data.kids \o second.data.kids), second.at)

\* n nested pulls, one after the other, until one fails: told in halves, so that many elements
\* do not nest deep
RECURSIVE Elements(_, _, _)
Elements(bytes, start, n) ==
  IF n = 0 THEN Gives(Compound("tuple", << >>), start)
  ELSE IF n = 1 THEN Pulled(bert_decoder_pull(bytes, start), LAMBDA data, at :
                       Gives(Compound("tuple", <<data>>), at))
  ELSE LET first == Elements(bytes, start, n \div 2)
       IN  IF first.data = Unset THEN first
           ELSE Joined(first, Elements(bytes, first.at, n - n \div 2))

IsInt(data) == data.type = "int"

\* the type of the third is not checked: another term's bits are read as an integer
bert_decode_time(bytes, start) ==
  Pulled(bert_decoder_pull(bytes, start), LAMBDA megaseconds, second :
    IF ~IsInt(megaseconds) THEN Fails(BERT_ERRNO_INVALID, second)
    ELSE Pulled(bert_decoder_pull(bytes, second), LAMBDA seconds, third :
      IF ~IsInt(seconds) THEN Fails(BERT_ERRNO_INVALID, third)
      ELSE Pulled(bert_decoder_pull(bytes, third), LAMBDA microseconds, at :
        IF ~IsInt(microseconds) THEN Fails(Undefined, at)
        ELSE Gives(Plain("time", Sum64(Sum64(Times(megaseconds.bytes, 1000000), seconds.bytes),
                                       Divided(microseconds.bytes, 1000000).quotient)), at))))

bert_decode_dict(bytes, start) ==
  Pulled(bert_decoder_pull(bytes, start), LAMBDA list_data, at :
    IF \/ list_data.type \notin {"nil", "list"}
       \/ \E k \in DOMAIN list_data.kids :
            list_data.kids[k].type # "tuple" \/ Len(list_data.kids[k].kids) # 2
      THEN Fails(BERT_ERRNO_INVALID, at)
      ELSE Gives(Compound("dict",
                   FlattenSeq([k \in DOMAIN list_data.kids |-> list_data.kids[k].kids])), at))

\* the test for lf is a second test for cr
NewlineMask(text) ==
  CASE text = Text("cr")      -> {20}
    [] text = Text("crlf")    -> {20, 21}
    [] text = Text("anycrlf") -> {20, 22}
    [] text = Text("any")     -> {22}
    [] OTHER                  -> {}

IsNewline(opt) ==
  /\ opt.type = "tuple" /\ Len(opt.kids) = 2
  /\ opt.kids[1] = Plain("atom", Text("newline"))
  /\ opt.kids[2].type = "atom" /\ NewlineMask(opt.kids[2].bytes) # {}

OptionMask(opt) ==
  IF opt.type = "atom" THEN bert_regex_optmask(opt.bytes) ELSE NewlineMask(opt.kids[2].bytes)

bert_decode_regex(bytes, start) ==
  Pulled(bert_decoder_pull(bytes, start), LAMBDA source, second :
    IF source.type # "bin" THEN Fails(BERT_ERRNO_INVALID, second)
    ELSE Pulled(bert_decoder_pull(bytes, second), LAMBDA opt_list, at :
      IF \/ opt_list.type # "list"
         \/ \E k \in DOMAIN opt_list.kids :
              opt_list.kids[k].type # "atom" /\ ~IsNewline(opt_list.kids[k])
        THEN Fails(BERT_ERRNO_INVALID, at)
        ELSE Gives(Regex(source.bytes,
                     UNION {OptionMask(opt) : opt \in Range(opt_list.kids)}), at)))

bert_decode_complex(bytes, start) ==
  Pulled(bert_decoder_pull(bytes, start), LAMBDA keyword, at :
    LET Is(name) == keyword = Plain("atom", Text(name)) IN
    CASE Is("nil")   -> Gives(NilData, at)
      [] Is("true")  -> Gives(Plain("boolean", <<1>>), at)
      [] Is("false") -> Gives(Plain("boolean", <<0>>), at)
      [] Is("time")  -> bert_decode_time(bytes, at)
      [] Is("dict")  -> bert_decode_dict(bytes, at)
      [] Is("regex") -> bert_decode_regex(bytes, at)
      [] OTHER       -> Fails(BERT_ERRNO_INVALID, at))

\* a tuple that begins with the atom bert is a complex term, whatever its size
bert_decode_tuple(bytes, start, size) ==
  IF size = 0 THEN Gives(Compound("tuple", << >>), start)
  ELSE Pulled(bert_decoder_pull(bytes, start), LAMBDA first, next :
         IF first = Plain("atom", Text("bert")) THEN bert_decode_complex(bytes, next)
         ELSE Joined(Gives(Compound("tuple", <<first>>), next), Elements(bytes, next, size - 1)))

\* one byte is read after the elements
bert_decode_list(bytes, start) ==
  Read(bytes, start, 4, LAMBDA size, first :
    LET elements == Elements(bytes, first, Size(size)) IN
    IF elements.data = Unset THEN elements
    ELSE Read(bytes, elements.at, 1, LAMBDA tail, at :
           Gives(Compound("list", elements.data.kids), at)))

-----------------------------------------------------------------------------
RejectedUnread(at) == Fails(BERT_ERRNO_INVALID, at - 1)

RejectedSilently(at) == Fails(BERT_SUCCESS, at)

\* a byte that begins no term is gone
Rejected(at) == Fails(BERT_ERRNO_INVALID, at)

Decoded(bytes, magic, at) ==
  CASE magic = BERT_NIL          -> Gives(NilData, at)
    [] magic = BERT_SMALL_INT    -> bert_decode_small_int(bytes, at)
    [] magic = BERT_INT          -> bert_decode_big_int(bytes, at)
    [] magic = BERT_SMALL_BIGNUM ->
         Read(bytes, at, 1, LAMBDA i, next : bert_decode_bignum(bytes, next, Size(i)))
    [] magic = BERT_LARGE_BIGNUM ->
         Read(bytes, at, 4, LAMBDA i, next : bert_decode_bignum(bytes, next, Size(i)))
    [] magic = BERT_FLOAT        -> bert_decode_float(bytes, at)
    [] magic = BERT_ATOM         -> SizedText(bytes, at, 2, "atom")
    [] magic = BERT_STRING       -> SizedText(bytes, at, 2, "string")
    [] magic = BERT_BIN          -> SizedText(bytes, at, 4, "bin")
    [] magic = BERT_SMALL_TUPLE  ->
         Read(bytes, at, 1, LAMBDA i, next : bert_decode_tuple(bytes, next, Size(i)))
    [] magic = BERT_LARGE_TUPLE  ->
         Read(bytes, at, 4, LAMBDA i, next : bert_decode_tuple(bytes, next, Size(i)))
    [] magic = BERT_LIST         -> bert_decode_list(bytes, at)
    [] OTHER                     -> Rejected(at)

NeverSkipsMagic(bytes, at) == at + 1

\* the byte at which the term begins: a magic start byte is skipped
FirstByte(bytes, at) == IF bytes[at + 1] = BERT_MAGIC THEN at + 2 ELSE at + 1

bert_decoder_pull(bytes, at) ==
  IF at = Len(bytes) THEN Fails(0, at)
  ELSE LET first == FirstByte(bytes, at) IN
       IF first > Len(bytes) THEN Fails(BERT_ERRNO_SHORT_READ, at + 1)
       ELSE LET decoded == Decoded(bytes, bytes[first], first)
            IN  [decoded EXCEPT !.code = IF @ = BERT_SUCCESS THEN 1 ELSE @]
=============================================================================
