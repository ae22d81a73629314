------------------------------- MODULE Encode -------------------------------
(***************************************************************************)
(* bert_encoder_push and the bert_encode_* functions it shares with itself *)
(* by recursion, down to bert_encoder_write and the sink it writes to.     *)
(*                                                                         *)
(* One call of bert_encoder_write writes one token: a magic byte with the  *)
(* fields that belong to it.  A token's size is its length in bytes.  The  *)
(* C stack holds what is still to be written or pushed once the running    *)
(* call returns: `todo`, in that order.  An error drops all of it.         *)
(***************************************************************************)
EXTENDS BertData, FiniteSets

CONSTANTS
  Terms,          \* the terms that exist; a client pushes any of them
  Sinks,          \* which of bert_encoder_stream, _callback, _buffer the client calls
  BufferLengths,  \* the lengths of the client's buffers
  ShortWrites,    \* whether write() and the callback may take fewer bytes than given
  MaxTokens       \* bound: no push begins once this many tokens were written

ASSUME TermsAssumption ==
  \A d \in Terms :
    /\ d.type \in Types /\ d.kids \in Seq(Terms)
    /\ d.bytes \in Seq(Byte)
    /\ d.type \in {"int", "time"} => Len(d.bytes) = 8
    /\ d.type \in {"boolean", "float"} => Len(d.bytes) = 1
    /\ d.type = "dict" => Len(d.kids) % 2 = 0
ASSUME SinksAssumption == Sinks \subseteq {"stream", "callback", "buffer"}
ASSUME EncodeBoundsAssumption ==
  BufferLengths \subseteq Nat /\ ShortWrites \in BOOLEAN /\ MaxTokens \in Nat

VARIABLES
  encoder,  \* struct bert_encoder, its union flattened
  todo,     \* what the running push has still to do
  result,   \* what the last push returned
  sink,     \* history: the tokens written, with the bytes of each that arrived
  pushed    \* history: the term of the last push, and where its tokens begin

vars == <<encoder, todo, result, sink, pushed>>

-----------------------------------------------------------------------------
(* Tokens *)

Magic == <<BERT_MAGIC>>

\* an unsigned int, as a word of 32 bits
bert_encode_int(i) ==
  IF ByteCount(i) <= 1 THEN <<BERT_SMALL_INT, i[1]>> ELSE <<BERT_INT>> \o BigEndian(i)

bert_encode_bignum(i) ==
  LET magnitude == BERT_STRIP_SIGN(i)
      bytes     == ByteCount(magnitude)
  IN  <<BERT_SMALL_BIGNUM, bytes, IF IsNegative(i) THEN 1 ELSE 0>> \o Narrowed(magnitude, bytes)

IsSmall(i) == FitsInt(i) /\ IntOf(i) <= BERT_MAX_INT /\ IntOf(i) >= BERT_MIN_INT

\* bert_encode_int takes the low half
Integer(i) == IF IsSmall(i) THEN bert_encode_int(Narrowed(i, 4)) ELSE bert_encode_bignum(i)

bert_encode_float(bytes) == <<BERT_FLOAT>> \o FloatText(bytes)

Atom(text) == <<BERT_ATOM>> \o BigEndian(Word(Len(text), 2)) \o text

bert_encode_string(text) == <<BERT_STRING>> \o BigEndian(Word(Len(text), 4)) \o text

bert_encode_bin(text) == <<BERT_BIN>> \o BigEndian(Word(Len(text), 4)) \o text

TupleHeader(n) ==
  IF n <= 255 THEN <<BERT_SMALL_TUPLE, n>> ELSE <<BERT_LARGE_TUPLE>> \o BigEndian(Word(n, 4))

ListHeader(n) == <<BERT_LIST>> \o BigEndian(Word(n, 4))

-----------------------------------------------------------------------------
(* What a push does: writes, and pushes of other terms *)

Writes(tokens) == [k \in DOMAIN tokens |-> [op |-> "write", token |-> tokens[k]]]
Pushes(terms)  == [k \in DOMAIN terms |-> [op |-> "push", data |-> terms[k]]]

HeaderCountsName(name, n) == Writes(<<TupleHeader(n + 1), Atom(Text("bert")), Atom(Text(name))>>)

bert_encode_complex_header(name, n) ==
  Writes(<<TupleHeader(n + 2), Atom(Text("bert")), Atom(Text(name))>>)

bert_encode_dict(kids) ==
  LET Pair(k) == Writes(<<TupleHeader(2)>>) \o Pushes(<<kids[2 * k - 1], kids[2 * k]>>) IN
  bert_encode_complex_header("dict", 1)
    \o Writes(<<ListHeader(Len(kids) \div 2)>>)
    \o FlattenSeq([k \in 1 .. Len(kids) \div 2 |-> Pair(k)])

\* megaseconds and seconds: timestamp / 1000000 and timestamp % 1000000
TimeParts(timestamp) == Divided(timestamp, 1000000)

\* two casts to unsigned int
bert_encode_time(timestamp) ==
  LET time == TimeParts(timestamp) IN
  bert_encode_complex_header("time", 3)
    \o Writes(<<bert_encode_int(Narrowed(time.quotient, 4)),
                bert_encode_int(Narrowed(time.rest, 4)),
                bert_encode_int(Word(0, 4))>>)

\* the loops over the options stop after sizeof(int) bits
OptionsSeen(options) == {i \in 0 .. 3 : i \in options}

OptionName(options, i) == bert_regex_optname({i} \intersect options)

bert_encode_regex(source, options) ==
  LET Named(name) == IF name = "" THEN << >> ELSE Writes(<<Atom(Text(name))>>) IN
  bert_encode_complex_header("regex", 2)
    \o Writes(<<bert_encode_bin(source), ListHeader(Cardinality(OptionsSeen(options)))>>)
    \o FlattenSeq([k \in 1 .. 4 |-> Named(OptionName(options, k - 1))])

bert_encode_boolean(value) ==
  bert_encode_complex_header(IF value = 1 THEN "true" ELSE "false", 0)

Jobs(d) ==
  CASE d.type = "int"     -> Writes(<<Integer(d.bytes)>>)
    [] d.type = "float"   -> Writes(<<bert_encode_float(d.bytes)>>)
    [] d.type = "atom"    -> Writes(<<Atom(d.bytes)>>)
    [] d.type = "string"  -> Writes(<<bert_encode_string(d.bytes)>>)
    [] d.type = "bin"     -> Writes(<<bert_encode_bin(d.bytes)>>)
    [] d.type = "tuple"   -> Writes(<<TupleHeader(Len(d.kids))>>) \o Pushes(d.kids)
    [] d.type = "list"    -> Writes(<<ListHeader(Len(d.kids))>>) \o Pushes(d.kids)
    [] d.type = "nil"     -> bert_encode_complex_header("nil", 0)
    [] d.type = "boolean" -> bert_encode_boolean(d.bytes[1])
    [] d.type = "dict"    -> bert_encode_dict(d.kids)
    [] d.type = "regex"   -> bert_encode_regex(d.bytes, d.options)
    [] d.type = "time"    -> bert_encode_time(d.bytes)

Encodable(d) == d.type # "none" /\ (d.type = "boolean" => d.bytes[1] \in {0, 1})

-----------------------------------------------------------------------------
Running == todo # << >>

NoTerm == Plain("none", << >>)

Init ==
  /\ encoder = [mode |-> "none", wrote_magic |-> FALSE, total |-> 0,
                buffer_length |-> 0, buffer_index |-> 0]
  /\ todo = << >>
  /\ result = BERT_SUCCESS
  /\ sink = << >>
  /\ pushed = [data |-> NoTerm, from |-> 1]

Attach(mode, length) ==
  /\ ~Running /\ mode \in Sinks
  /\ encoder' = [encoder EXCEPT !.mode = mode, !.buffer_length = length, !.buffer_index = 0]
  /\ UNCHANGED <<todo, result, sink, pushed>>

bert_encoder_stream == Attach("stream", 0)

bert_encoder_callback == Attach("callback", 0)

\* the magic byte stays written, and the total goes on
bert_encoder_buffer(n) == Attach("buffer", n)

bert_encoder_push(d) ==
  /\ ~Running /\ Len(sink) < MaxTokens
  /\ todo' = Pushes(<<d>>)
  /\ pushed' = [data |-> d, from |-> Len(sink) + 1]
  /\ UNCHANGED <<encoder, result, sink>>

Doing(op) == Running /\ Head(todo).op = op

\* every caller returns the error at once
Fail(code) ==
  /\ todo' = << >>
  /\ result' = code

GoOn(jobs) ==
  /\ todo' = jobs
  /\ result' = IF jobs = << >> THEN BERT_SUCCESS ELSE result

PushMagic ==
  /\ Doing("push") /\ ~encoder.wrote_magic
  /\ todo' = Writes(<<Magic>>) \o todo
  /\ UNCHANGED <<encoder, result, sink, pushed>>

PushTerm ==
  /\ Doing("push") /\ encoder.wrote_magic
  /\ Encodable(Head(todo).data)
  /\ todo' = Jobs(Head(todo).data) \o Tail(todo)
  /\ UNCHANGED <<encoder, result, sink, pushed>>

PushInvalid ==
  /\ Doing("push") /\ encoder.wrote_magic
  /\ ~Encodable(Head(todo).data)
  /\ Fail(BERT_ERRNO_INVALID)
  /\ UNCHANGED <<encoder, sink, pushed>>

-----------------------------------------------------------------------------
(* bert_encoder_write *)

RoomToSpare(n) == encoder.buffer_index + n < encoder.buffer_length

RoomForOneMore(n) == encoder.buffer_index + n <= encoder.buffer_length + 1

HasRoom(n) == encoder.buffer_index + n <= encoder.buffer_length

\* how the sink may refuse the token
Refusals(token) ==
  CASE encoder.mode = "stream"   -> {BERT_ERRNO_WRITE}
    [] encoder.mode = "callback" -> {BERT_ERRNO_INVALID}
    [] encoder.mode = "buffer"   -> IF HasRoom(Len(token)) THEN {} ELSE {BERT_ERRNO_SHORT_WRITE}
    [] encoder.mode = "none"     -> {BERT_ERRNO_INVALID}

WriteFails ==
  /\ Doing("write")
  /\ \E code \in Refusals(Head(todo).token) : Fail(code)
  /\ UNCHANGED <<encoder, sink, pushed>>

\* how many bytes of the token arrive
Arrivals(token) ==
  CASE encoder.mode \in {"stream", "callback"} ->
         IF ShortWrites THEN 1 .. Len(token) ELSE {Len(token)}
    [] encoder.mode = "buffer" -> IF HasRoom(Len(token)) THEN {Len(token)} ELSE {}
    [] encoder.mode = "none"   -> {}

ForgetsMagic(token) ==
  [encoder EXCEPT !.total = @ + Len(token),
                  !.buffer_index = IF encoder.mode = "buffer" THEN @ + Len(token) ELSE @,
                  !.wrote_magic = @ \/ (token = Magic /\ encoder.mode # "buffer")]

TotalOfBuffer(token) ==
  [encoder EXCEPT !.total = IF encoder.mode = "buffer" THEN encoder.buffer_index + Len(token)
                            ELSE @ + Len(token),
                  !.buffer_index = IF encoder.mode = "buffer" THEN @ + Len(token) ELSE @,
                  !.wrote_magic = @ \/ token = Magic]

\* ... and bert_encoder_push notes that the magic byte is written
Written(token) ==
  [encoder EXCEPT !.total = @ + Len(token),
                  !.buffer_index = IF encoder.mode = "buffer" THEN @ + Len(token) ELSE @,
                  !.wrote_magic = @ \/ token = Magic]

WriteSucceeds ==
  /\ Doing("write")
  /\ LET token == Head(todo).token IN
     \E n \in Arrivals(token) :
       /\ encoder' = Written(token)
       /\ sink' = Append(sink, SubSeq(token, 1, n))
  /\ GoOn(Tail(todo))
  /\ UNCHANGED pushed

Next ==
  \/ bert_encoder_stream
  \/ bert_encoder_callback
  \/ \E n \in BufferLengths : bert_encoder_buffer(n)
  \/ \E d \in Terms : bert_encoder_push(d)
  \/ PushMagic \/ PushTerm \/ PushInvalid
  \/ WriteFails \/ WriteSucceeds

Spec == Init /\ [][Next]_vars

-----------------------------------------------------------------------------
(* bert_data_sizeof *)

(***************************************************************************)
(* bert_data_sizeof_int looks for the highest byte of a bignum with an int *)
(* shifted by 8 * j bits, from j = 7 down.  The language leaves shifts of  *)
(* 32 bits and more undefined; the build of CMakeLists.txt does not        *)
(* optimise, and the machine's shift takes the count modulo 32.  Where the *)
(* sign bit is set, the mask is then extended to 64 bits.                  *)
(***************************************************************************)
MaskedBytes(j) == IF j % 4 = 3 THEN 4 .. 8 ELSE {(j % 4) + 1}

MeasuredBytes(magnitude) ==
  Max({j + 1 : j \in {n \in 0 .. 7 : \E k \in MaskedBytes(n) : magnitude[k] # 0}})

SizeofIntOffByOne(i) ==
  IF IsSmall(i) THEN IF IntOf(i) < 255 THEN 1 ELSE 4
                ELSE 1 + 1 + MeasuredBytes(BERT_STRIP_SIGN(i))

SizeofForgetsSign(i) ==
  IF IsSmall(i) THEN IF IntOf(i) <= 255 THEN 1 ELSE 4
                ELSE 1 + MeasuredBytes(BERT_STRIP_SIGN(i))

bert_data_sizeof_int(i) ==
  IF IsSmall(i) THEN IF IntOf(i) <= 255 THEN 1 ELSE 4
                ELSE 1 + 1 + MeasuredBytes(BERT_STRIP_SIGN(i))

Total(sizes) == FoldLeft(LAMBDA a, b : a + b, 0, sizes)

ComplexSize(length) == (1 + 1) + (1 + 2 + 4) + (1 + 2 + length)

\* with elements that have this size together
SizeWith(d, kids) ==
  CASE d.type = "int"     -> 1 + bert_data_sizeof_int(d.bytes)
    [] d.type = "float"   -> 1 + 31
    [] d.type = "atom"    -> 1 + 2 + Len(d.bytes)
    [] d.type \in {"string", "bin"} -> 1 + 4 + Len(d.bytes)
    [] d.type = "tuple"   -> 1 + (IF Len(d.kids) <= 255 THEN 1 ELSE 4) + kids
    [] d.type = "list"    -> 1 + 4 + kids
    [] d.type = "nil"     -> ComplexSize(3)
    [] d.type = "boolean" ->
         (CASE d.bytes[1] = 1 -> ComplexSize(4)
            [] d.bytes[1] = 0 -> ComplexSize(5)
            [] OTHER          -> 1 + (1 + 1 + 2 + 4))
    [] d.type = "dict"    -> ComplexSize(4) + (1 + 4) + (1 + 1) * (Len(d.kids) \div 2) + kids
    [] d.type = "regex"   ->
         LET Size(name) == IF name = "" THEN 0 ELSE 1 + 2 + Len(name) IN
         ComplexSize(5) + (1 + 4 + Len(d.bytes)) + (1 + 4)
           + Total([k \in 1 .. 4 |-> Size(OptionName(d.options, k - 1))])
    [] d.type = "time"    ->
         LET time == TimeParts(d.bytes) IN
         ComplexSize(4) + (1 + bert_data_sizeof_int(time.quotient))
           + (1 + bert_data_sizeof_int(time.rest)) + (1 + bert_data_sizeof_int(Int64(0)))
    [] d.type = "none"    -> 0

bert_data_sizeof[d \in Terms] ==
  SizeWith(d, Total([k \in DOMAIN d.kids |-> bert_data_sizeof[d.kids[k]]]))

-----------------------------------------------------------------------------
(* Properties *)

Bytes(tokens) == Len(FlattenSeq(tokens))

\* what the last push wrote, behind the magic byte if that was still to come
Output ==
  LET magic == pushed.from <= Len(sink) /\ sink[pushed.from] = Magic
  IN  SubSeq(sink, pushed.from + (IF magic THEN 1 ELSE 0), Len(sink))

Arity(token) ==
  CASE token[1] = BERT_SMALL_TUPLE -> token[2]
    [] token[1] \in {BERT_LARGE_TUPLE, BERT_LIST} -> Counted(BigEndian(SubSeq(token, 2, 5)))
    [] OTHER -> 0

\* how many terms are missing after these tokens for the first to be complete
Missing(tokens) == FoldLeft(LAMBDA m, t : m - 1 + Arity(t), 1, tokens)

IsOneTerm(tokens) ==
  /\ Missing(tokens) = 0
  /\ \A n \in 0 .. Len(tokens) - 1 : Missing(SubSeq(tokens, 1, n)) > 0

\* A buffer is never written past its end, and the counters count.
TypeOK ==
  /\ encoder \in [mode : {"none", "stream", "callback", "buffer"}, wrote_magic : BOOLEAN,
                  total : Nat, buffer_length : Nat, buffer_index : Nat]
  /\ encoder.buffer_index <= encoder.buffer_length
  /\ \A k \in DOMAIN todo : todo[k].op \in {"write", "push"}
  /\ \A k \in DOMAIN sink : sink[k] \in Seq(Byte)
  /\ result \in {BERT_SUCCESS, BERT_ERRNO_INVALID, BERT_ERRNO_WRITE, BERT_ERRNO_SHORT_WRITE}

\* A push succeeds if and only if what it wrote is one complete term: every header
\* announces as many terms as are written after it, and an error anywhere, in an element
\* however deep, reaches the client.
SuccessIsOneTerm ==
  ~Running /\ pushed.data # NoTerm => (result = BERT_SUCCESS <=> IsOneTerm(Output))

\* The magic byte is the first of the output and never comes again, whatever pushes fail
\* and however often the sink is changed.
MagicOnce == \A k \in DOMAIN sink : sink[k] = Magic <=> k = 1

\* bert_encoder_total: "Returns the number of bytes written so far."
TotalIsWritten == encoder.total = Bytes(sink)

Succeeded == ~Running /\ pushed.data # NoTerm /\ result = BERT_SUCCESS

\* bert_data_sizeof: "Returns the required space in bytes needed to encode the given
\* bert_data_t": a push that succeeds has written no more, the magic byte apart.
SizeofEnough == Succeeded => Bytes(Output) <= bert_data_sizeof[pushed.data]

\* the integers that are written as long as they are measured: no negative ones of less
\* than 2^27, no bignums of less than 8 bytes
Measured(i) == IF IsSmall(i) THEN ~IsNegative(i) ELSE ByteCount(BERT_STRIP_SIGN(i)) = 8

IntsMeasured(d) ==
  /\ d.type = "int" => Measured(d.bytes)
  /\ d.type = "time" => LET time == TimeParts(d.bytes)
                        IN  IsSmall(time.quotient) /\ Measured(time.quotient) /\ Measured(time.rest)

WellMeasured[d \in Terms] ==
  IntsMeasured(d) /\ \A k \in DOMAIN d.kids : WellMeasured[d.kids[k]]

\* ... and not less, with integers that are written as long as they are measured.
SizeofExact ==
  Succeeded /\ WellMeasured[pushed.data] => Bytes(Output) = bert_data_sizeof[pushed.data]

\* bert_encoder_push: "Returns BERT_ERRNO_SHORT_WRITE if there is no more space to write the
\* encoded BERT data": the buffer had less than the term's bert_data_sizeof, and the magic
\* byte if it was still to come, when the push began.
RoomBefore ==
  encoder.buffer_length - encoder.buffer_index
    + Bytes(SubSeq(sink, pushed.from, Len(sink)))

ShortWriteWhenNoRoom ==
  [][ Running /\ ~Running' /\ result' = BERT_ERRNO_SHORT_WRITE
        => RoomBefore < bert_data_sizeof[pushed.data] + (IF pushed.from = 1 THEN 1 ELSE 0) ]_vars
=============================================================================
