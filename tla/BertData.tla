------------------------------ MODULE BertData ------------------------------
(***************************************************************************)
(* What the encoder and the decoder share: terms, magic bytes, the texts   *)
(* that have a meaning, and the options of a regex.                        *)
(***************************************************************************)
EXTENDS BertErrno, Words

(***************************************************************************)
(* A term (bert_data_t).  bytes holds an integer or a timestamp as a word  *)
(* of 64 bits, a boolean as one byte, a float as one byte (see Float), or  *)
(* a text; kids are the elements of a tuple or a list, or the keys and     *)
(* values of a dict in turn; options are the bits set in those of a regex. *)
(***************************************************************************)
Data(type, bytes, kids, options) ==
  [type |-> type, bytes |-> bytes, kids |-> kids, options |-> options]

Types == {"none", "int", "float", "atom", "string", "bin", "tuple", "list",
          "nil", "boolean", "dict", "regex", "time"}

Plain(type, bytes)    == Data(type, bytes, << >>, {})
Compound(type, kids)  == Data(type, << >>, kids, {})
Number(word)          == Plain("int", word)
NilData               == Plain("nil", << >>)
Regex(source, options) == Data("regex", source, << >>, options)

BERT_SMALL_INT    ==  97
BERT_INT          ==  98
BERT_FLOAT        ==  99
BERT_ATOM         == 100
BERT_SMALL_TUPLE  == 104
BERT_LARGE_TUPLE  == 105
BERT_NIL          == 106
BERT_STRING       == 107
BERT_LIST         == 108
BERT_BIN          == 109
BERT_SMALL_BIGNUM == 110
BERT_LARGE_BIGNUM == 111
BERT_MAGIC        == 131

BERT_MAX_INT == 2^27 - 1
BERT_MIN_INT == -(2^27)

-----------------------------------------------------------------------------
(* The table of the options of a regex: a mask is the set of its bits. *)

bert_regex_options ==
  << <<"unicode", {11}>>, <<"anchored", {4}>>, <<"caseless", {0}>>,
     <<"dollar_endonly", {5}>>, <<"dotall", {2}>>, <<"extended", {3}>>,
     <<"firstline", {18}>>, <<"multiline", {1}>>, <<"no_auto_capture", {12}>>,
     <<"dupnames", {12}>>, <<"ungreedy", {9}>>, <<"bsr_any_crlf", {23}>>,
     <<"bsr_unicode", {24}>> >>

\* the first entry of the table for which a test holds gives its other half, or `none`
Lookup(have, want, value, none) ==
  LET hits == {i \in DOMAIN bert_regex_options : bert_regex_options[i][have] = value}
  IN  IF hits = {} THEN none ELSE bert_regex_options[Min(hits)][want]

bert_regex_optname(mask) == Lookup(2, 1, mask, "")

-----------------------------------------------------------------------------
(***************************************************************************)
(* A text is spelt with copies of one byte that stands for it, so that its *)
(* length is right, no two texts agree, and none holds a magic byte.       *)
(***************************************************************************)
Names ==
  <<"bert", "nil", "true", "false", "time", "dict", "regex", "newline", "cr", "crlf",
    "anycrlf", "any", "ok">> \o [i \in DOMAIN bert_regex_options |-> bert_regex_options[i][1]]

\* for the proofs, which do not look into strings
ASSUME NamesAssumption ==
  /\ \A i \in DOMAIN Names : Len(Names[i]) \in 1 .. 15
  /\ Len("nil") = 3 /\ Len("bert") = 4 /\ Len("true") = 4 /\ Len("time") = 4
  /\ Len("dict") = 4 /\ Len("false") = 5 /\ Len("regex") = 5

Text(name) == [k \in 1 .. Len(name) |-> 200 + (CHOOSE i \in DOMAIN Names : Names[i] = name)]

bert_regex_optmask(text) ==
  LET names == {i \in DOMAIN Names : Text(Names[i]) = text}
  IN  IF names = {} THEN {} ELSE Lookup(1, 2, Names[Min(names)], {})

(***************************************************************************)
(* A float is a power of ten: the byte e stands for 10^(e - 40) and the    *)
(* byte 1 for 0.  Its text has 15 digits after the point, and the buffer   *)
(* ends it after 30 characters: from 10^30 up the last digits are cut off  *)
(* and what is left reads as 10^29; below 10^-15 only zeros are left.      *)
(***************************************************************************)
Float(e) == Plain("float", <<e>>)

FloatText(bytes) ==
  LET e == bytes[1]
  IN  <<IF e > 69 THEN 69 ELSE IF e < 25 THEN 1 ELSE e>> \o [k \in 1 .. 30 |-> 0]

\* sscanf finds a number at the start of the text
IsFloatText(text) == text[1] \in 1 .. 90
=============================================================================
