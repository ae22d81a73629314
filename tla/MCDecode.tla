------------------------------ MODULE MCDecode ------------------------------
(***************************************************************************)
(* Inputs for Decode: every sequence of two terms; one input for each kind *)
(* of compound term, cut off after each of its terms, or with any one of   *)
(* its terms replaced by any other term.                                   *)
(***************************************************************************)
EXTENDS Decode

Scalar(type) == [type |-> type, text |-> "", size |-> 0]
Atom(text)   == [type |-> "atom", text |-> text, size |-> 0]
TupleWith(n)   == [type |-> "tuple", text |-> "", size |-> n]
ListWith(n)    == [type |-> "list", text |-> "", size |-> n]

Words == {"bert", "nil", "true", "time", "dict", "regex", "newline", "cr", "lf"}

TermsUsed ==
  {Scalar(type) : type \in {"nil", "int", "bin", "other", "unknown"}}
    \union {Atom(word) : word \in Words}
    \union {TupleWith(n) : n \in 0 .. 3}
    \union {ListWith(n) : n \in 0 .. 2}

Num  == Scalar("int")
Bert == Atom("bert")

Scripts ==
  {<<TupleWith(5), Bert, Atom("time"), Num, Num, Num, Num>>,
   <<TupleWith(3), Bert, Atom("dict"),
       ListWith(2), TupleWith(2), Num, Atom("true"), TupleWith(2), Num, ListWith(0)>>,
   <<TupleWith(3), Bert, Atom("dict"), TupleWith(2), Bert, Atom("nil")>>,
   <<TupleWith(4), Bert, Atom("regex"), Scalar("bin"),
       ListWith(2), Atom("cr"), TupleWith(2), Atom("newline"), Atom("cr")>>,
   <<TupleWith(2), ListWith(2), TupleWith(2), Bert, Atom("true"), Num, Num, Num>>}

Replaced(script) == {[script EXCEPT ![k] = t] : k \in DOMAIN script, t \in TermsUsed}
Cut(script)      == {SubSeq(script, 1, n) : n \in DOMAIN script}

MCInputs ==
  (TermsUsed \X TermsUsed) \union UNION {Replaced(s) \union Cut(s) : s \in Scripts}

MCShortRead  == {BERT_ERRNO_SHORT_READ}
MCNullLocals == {Null}
MCAnyLocals  == {Null, Wild}
=============================================================================
