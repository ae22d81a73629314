------------------------------ MODULE MCEncode ------------------------------
(***************************************************************************)
(* Terms for Encode: one of each type, integers at the edges of their      *)
(* encodings, terms that nest, and a term that cannot be encoded inside    *)
(* each kind of compound term.                                             *)
(***************************************************************************)
EXTENDS Encode

\* an integer, field by field
Num(i) == [type |-> "int", bytes |-> Int64(i), kids |-> << >>, options |-> {}]
Pair       == <<Num(1), NilData>>
Invalid    == Plain("none", << >>)
Bool(b)    == Plain("boolean", <<b>>)
Most       == <<255, 255, 255, 255, 255, 255, 255, 127>>

Ints == {Num(i) : i \in {1, 255, 256, BERT_MAX_INT, BERT_MAX_INT + 1}} \union {Number(Most)}

Flat ==
  Ints \union
  {Invalid, Bool(0), Bool(1), Bool(2), NilData, Float(40),
   Plain("atom", Text("ok")), Plain("string", << >>), Plain("bin", <<1, 2, 3>>),
   Plain("time", Int64(1000255)), Plain("time", Times(Int64(BERT_MAX_INT), 1000000)),
   Regex(<<1, 2>>, {0, 3, 11})}

Nested ==
  {Compound("tuple", << >>), Compound("tuple", Pair), Compound("tuple", <<Num(1), Bool(2)>>),
   Compound("list", << >>), Compound("list", <<Invalid, Num(1)>>),
   Compound("list", <<Compound("tuple", Pair), Num(255)>>),
   Compound("dict", << >>), Compound("dict", Pair \o Pair),
   Compound("dict", <<Num(1), Invalid>>)}

MCTerms       == Flat \union Nested
MCSignedTerms == MCTerms \union {Num(-1)}
MCInts        == Ints
=============================================================================
