------------------------------- MODULE MCWire -------------------------------
(***************************************************************************)
(* Terms for Wire: one of each type and at each edge of what is portable,  *)
(* compound terms of them, terms that lose the alignment and integers that *)
(* look like magic bytes once it is lost.                                  *)
(***************************************************************************)
EXTENDS Wire

\* an integer, field by field
Num(i) == [type |-> "int", bytes |-> Int64(i), kids |-> << >>, options |-> {}]
Atm(name) == Plain("atom", Text(name))
Tuple(kids) == Compound("tuple", kids)
List(kids)  == Compound("list", kids)
Bool(b)     == Plain("boolean", <<b>>)

\* 2^63 - 1 and -2^63
Greatest == <<255, 255, 255, 255, 255, 255, 255, 127>>
Least    == <<0, 0, 0, 0, 0, 0, 0, 128>>

Ints ==
  {Num(i) : i \in {0, 110, 255, 256, BERT_MAX_INT, BERT_MAX_INT + 1,
                   -1, BERT_MIN_INT, BERT_MIN_INT - 1}}
    \union {Number(Greatest), Number(Least)}

Floats == {Float(e) : e \in {1, 24, 25, 69, 70}}

Times64 ==
  {Plain("time", Int64(i)) : i \in {0, 1000255, 2000000000, -1, -2000000}}
    \union {Plain("time", Times(<<255, 255, 255, 255, 0, 0, 0, 0>>, 1000000)),
            Plain("time", Times(<<0, 0, 0, 0, 1, 0, 0, 0>>, 1000000))}

Others ==
  {NilData, Bool(0), Bool(1), Bool(2), Atm("ok"), Plain("bin", <<1, 2, 3>>),
   Plain("bin", << >>), Plain("string", << >>), Plain("string", <<1, 1>>),
   Regex(<<1, 2>>, {0, 3, 11})}

Compounds ==
  {Tuple([k \in 1 .. 256 |-> Num(0)]), Tuple(<< >>), Tuple(<<Num(256), NilData, Float(40)>>),
   Tuple(<<Tuple(<<Num(-1)>>), Num(0)>>),
   Tuple(<<Num(0), Bool(2)>>), Tuple(<<Atm("bert"), Atm("nil")>>),
   Tuple(<<Atm("bert"), Atm("ok")>>), Tuple(<<List(<< >>), Num(131), Num(106)>>),
   Tuple(<<Atm("bert"), Atm("time"), Num(0), Num(0), NilData>>),
   Tuple(<<Atm("bert"), Atm("regex"), Plain("bin", <<1>>),
           List(<<Atm("caseless"), Tuple(<<Atm("newline"), Atm("cr")>>)>>)>>),
   List(<< >>), List(<<Num(0), Tuple(<<Num(0), Num(110)>>)>>), Tuple(<<List(<< >>), Num(110), Num(0)>>),
   Compound("dict", <<Atm("ok"), Num(0), Num(110), NilData>>)}

Kids(terms) == UNION {Range(d.kids) : d \in terms}

MCTerms ==
  LET terms == Ints \union Floats \union Times64 \union Others \union Compounds
  IN  terms \union Kids(terms) \union Kids(Kids(terms)) \union Kids(Kids(Kids(terms)))

MCLists == {Num(0), List(<<Num(0)>>)}
=============================================================================
