-------------------------------- MODULE Wire --------------------------------
(***************************************************************************)
(* The two halves of the library against each other: one client pushes     *)
(* terms into a stream, another pulls them from it and goes on pulling     *)
(* after an error.  The stream is what the encoder's writes delivered.     *)
(***************************************************************************)
EXTENDS Encode, BertDecoder

CONSTANT MaxPushes  \* bound: how many terms are pushed

VARIABLES
  at,    \* how many bytes of the stream the decoder has read
  sent,  \* history: the terms pushed, and what each push returned
  pulls  \* history: what each pull gave that did not return 0

wireVars == <<vars, at, sent, pulls>>

stream == FlattenSeq(sink)

NotYet == 3  \* the push still runs

WireInit ==
  /\ Init
  /\ at = 0
  /\ sent = << >>
  /\ pulls = << >>

Attach1 ==
  /\ bert_encoder_stream /\ sink = << >>
  /\ UNCHANGED <<at, sent, pulls>>

\* bound: a term of 256 elements is only pushed first
Pushable(d) == Len(sent) < MaxPushes /\ (Len(d.kids) >= 256 => sent = << >>)

Push(d) ==
  /\ bert_encoder_push(d) /\ Pushable(d)
  /\ sent' = Append(sent, [data |-> d, code |-> NotYet])
  /\ UNCHANGED <<at, pulls>>

EncoderStep ==
  /\ PushMagic \/ PushTerm \/ PushInvalid \/ WriteFails \/ WriteSucceeds
  /\ sent' = IF Running' THEN sent ELSE [sent EXCEPT ![Len(sent)].code = result']
  /\ UNCHANGED <<at, pulls>>

\* what follows undefined behaviour is not modelled
Crashed == \E k \in DOMAIN pulls : pulls[k].code = Undefined

Pull ==
  /\ ~Running /\ ~Crashed
  /\ LET pull == bert_decoder_pull(stream, at) IN
       /\ at' = pull.at
       /\ pulls' = IF pull.code = 0 THEN pulls
                   ELSE Append(pulls, [code |-> pull.code, data |-> pull.data])
  /\ UNCHANGED <<vars, sent>>

WireNext ==
  \/ Attach1
  \/ \E d \in Terms : Push(d)
  \/ EncoderStep
  \/ Pull

WireSpec == WireInit /\ [][WireNext]_wireVars

-----------------------------------------------------------------------------
(* What bert_dump prints of a pull, in words and punctuation *)

RunOnSeparated(parts) == FlattenSeq([k \in DOMAIN parts |-> parts[k] \o <<",">>])

Separated(parts) ==
  FlattenSeq([k \in DOMAIN parts |-> IF k = 1 THEN parts[k] ELSE <<",">> \o parts[k]])

Braced(parts) == <<"{">> \o Separated(parts) \o <<"}">>
Listed(parts) == <<"[">> \o Separated(parts) \o <<"]">>

\* a separator follows a name while options are left, whether or not they have names
PrintedOptions(options) ==
  LET Left(i) == {j \in options : j > i}
      name(i) == bert_regex_optname({i})
  IN  FlattenSeq([n \in 1 .. 32 |->
        LET i == n - 1 IN
        IF i \notin options \/ name(i) = "" THEN << >>
        ELSE IF Left(i) = {} THEN <<name(i)>> ELSE <<name(i), ",">>])

RECURSIVE bert_print(_)
bert_print(d) ==
  LET printed == [k \in DOMAIN d.kids |-> bert_print(d.kids[k])] IN
  CASE d.type = "tuple" -> Braced(printed)
    [] d.type = "list"  -> Listed(printed)
    [] d.type = "dict"  ->
         Braced(<< <<"bert">>, <<"dict">>,
                   Listed([k \in 1 .. Len(printed) \div 2 |->
                             Braced(<<printed[2 * k - 1], printed[2 * k]>>)]) >>)
    [] d.type = "time"  -> Braced(<< <<"bert">>, <<"time">>, <<"%u">>, <<"%u">>, <<"%u">> >>)
    [] d.type = "regex" ->
         Braced(<< <<"bert">>, <<"regex">>, <<"<<%s>>">>,
                   <<"[">> \o PrintedOptions(d.options) \o <<"]">> >>)
    [] OTHER            -> <<d.type>>

-----------------------------------------------------------------------------
(* Properties *)

(***************************************************************************)
(* Terms that take the stream from one term to the next.  A list does not: *)
(* the decoder reads a byte after its elements that the encoder does not   *)
(* write; nor do a dict or a regex, which hold a list.  A string does not: *)
(* its length is written in 4 bytes and read in 2.                         *)
(***************************************************************************)
Aligned[d \in Terms] ==
  /\ d.type \notin {"list", "dict", "regex", "string"}
  /\ d.type = "tuple" /\ d.kids # << >> => d.kids[1] # Plain("atom", Text("bert"))
  /\ \A k \in DOMAIN d.kids : Aligned[d.kids[k]]

IsUnsigned32(word) == ByteCount(word) <= 4

(***************************************************************************)
(* Terms that come back as they were.  Negative integers that are not      *)
(* bignums are written as unsigned ones, a time before 1970 or of more     *)
(* than 32 bits of megaseconds loses its sign or its high half, and a      *)
(* float keeps 30 characters.                                              *)
(***************************************************************************)
Portable[d \in Terms] ==
  /\ d.type = "int"   => ~(IsSmall(d.bytes) /\ IsNegative(d.bytes))
  /\ d.type = "time"  => ~IsNegative(d.bytes) /\ IsUnsigned32(Divided(d.bytes, 1000000).quotient)
  /\ d.type = "float" => d.bytes[1] \in {1} \union 25 .. 69
  /\ \A k \in DOMAIN d.kids : Portable[d.kids[k]]

\* the first k pushes succeeded, with terms that keep the stream aligned
CleanTo(k) ==
  /\ k \in DOMAIN sent
  /\ \A j \in 1 .. k : sent[j].code = BERT_SUCCESS /\ Aligned[sent[j].data]

\* What is pushed is pulled: the k-th pull gives a term in the place of the k-th, and gives
\* that very term exactly if it is portable; up to the first failed push or the first term
\* that loses the alignment, whatever came after it and whenever the pull was made.
Arrives ==
  \A k \in DOMAIN pulls :
    CleanTo(k) =>
      /\ pulls[k].code = 1
      /\ pulls[k].data = sent[k].data <=> Portable[sent[k].data]

\* Nothing is left over and nothing is made up: on a clean stream the client has pulled as
\* many terms as were pushed exactly when it has read all bytes.
NoneLeftOver ==
  ~Running /\ CleanTo(Len(sent)) => (at = Len(stream) <=> Len(pulls) = Len(sent))

\* A client that pulls on after errors, in the middle of a term, on whatever the stream
\* holds, gets to its end: every pull that does not return 0 reads at least one byte, and
\* none reads past what is there.
PullConsumes == [][pulls' # pulls => at' > at /\ at' <= Len(stream)]_wireVars

(***************************************************************************)
(* A reader of the printed line.  open: the brackets not yet closed; last: *)
(* what was read last.                                                     *)
(***************************************************************************)
Reads(reader, token) ==
  LET Fits(allowed, open, last) ==
        [open |-> open, last |-> IF reader.last \in allowed THEN last ELSE "error"]
      Closes(opening) ==
        IF reader.open # << >> /\ Last(reader.open) = opening
          THEN Fits({"open", "term"}, Front(reader.open), "term")
          ELSE Fits({}, << >>, "error")
  IN  CASE token \in {"{", "["} -> Fits({"open", "comma"}, Append(reader.open, token), "open")
        [] token = "}"          -> Closes("{")
        [] token = "]"          -> Closes("[")
        [] token = ","          -> Fits({"term"}, reader.open, "comma")
        [] OTHER                -> Fits({"open", "comma"}, reader.open, "term")

\* a line is read in halves, to keep the recursion flat
RECURSIVE ReadsAll(_, _)
ReadsAll(reader, tokens) ==
  LET half == Len(tokens) \div 2 IN
  IF reader.last = "error" \/ tokens = << >> THEN reader
  ELSE IF half = 0 THEN Reads(reader, tokens[1])
  ELSE ReadsAll(ReadsAll(reader, SubSeq(tokens, 1, half)), SubSeq(tokens, half + 1, Len(tokens)))

ReadsAsOneTerm(tokens) ==
  ReadsAll([open |-> << >>, last |-> "open"], tokens) = [open |-> << >>, last |-> "term"]

\* the highest of its options that has a name is followed by options without one, or one in it is
RECURSIVE Dangling(_)
Dangling(d) ==
  LET named == {i \in d.options : bert_regex_optname({i}) # ""} IN
  \/ named # {} /\ Max(named) < Max(d.options)
  \/ \E k \in DOMAIN d.kids : Dangling(d.kids[k])

\* bert_dump prints a term that a pull gave, whatever bytes it came from and however many
\* elements it has, on a line that reads as one term: brackets closed, separators between
\* terms and nowhere else, but for the one that the newline options of a regex, which have no
\* names, leave behind.
PrintsOneTerm ==
  pulls # << >> /\ Last(pulls).data # Unset =>
    (ReadsAsOneTerm(bert_print(Last(pulls).data)) <=> ~Dangling(Last(pulls).data))

\* A pull that returns 1 and sets no term, so that bert_dump prints and destroys what its
\* variable held before, has come to the very end of the stream; there, and where a function
\* uses what a nested pull did not set, a push had failed or had lost the alignment.
OneWithoutTerm ==
  [][pulls' # pulls /\ Last(pulls').data = Unset /\ Last(pulls').code \in {1, Undefined} =>
       /\ ~CleanTo(Len(sent))
       /\ Last(pulls').code = 1 => at' = Len(stream)]_wireVars

\* README.txt: "Supports encoding/decoding of": whatever the client pushed with success, it
\* pulls.
EveryTermArrives ==
  \A k \in DOMAIN pulls :
    (k \in DOMAIN sent /\ \A j \in 1 .. k : sent[j].code = BERT_SUCCESS)
      => pulls[k] = [code |-> 1, data |-> sent[k].data]
=============================================================================
