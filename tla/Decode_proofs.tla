---------------------------- MODULE Decode_proofs ----------------------------
(***************************************************************************)
(* Decode: every term has one owner, is destroyed once, and is whole when  *)
(* a pull returns 1, for inputs of any length and any depth of nesting,    *)
(* wherever a read or a malloc fails.  The proofs follow the functions of  *)
(* the decoder, one lemma for the types and one for the invariant for      *)
(* each.                                                                   *)
(***************************************************************************)
EXTENDS Decode, TermHeap_proofs

(***************************************************************************)
(* Types: the frames of the functions on the stack, the cells, and what a  *)
(* frame may point to.                                                     *)
(***************************************************************************)

\* the texts the module writes are listed: the provers do not know that they are strings
Cell ==
  [type : {"freed", "int", "bin", "atom", "other", "tuple", "list", "nil", "boolean", "time",
           "dict", "regex", "text"},
   text : STRING \union {"", "integers", "garbage"},
   kids : Seq(Int)]

\* a frame, with as many pointers as its function has variables for
Frames ==
  {f \in [fn : {"tuple", "list", "complex", "time", "dict", "regex"},
          obj : Int, size : Nat, i : Nat, first : Int, second : Int] :
     (f.fn = "time" => f.i \in 0 .. 2) /\ (f.fn = "regex" => f.i \in 0 .. 1)}

\* the sources of regexes are cells
Sources(hp) ==
  \A p \in DOMAIN hp : hp[p].type = "regex" => Range(hp[p].kids) \subseteq DOMAIN hp

\* the cells of other terms: a tuple or a list may fill one
Fillable(hp) == {p \in DOMAIN hp : hp[p].type # "regex"}

\* a tuple or a list fills one and has a pull left to make, but for a list at its tail
FrameIn(cells, f, last) ==
  f.fn \in {"tuple", "list"} => f.obj \in cells /\ (f.i < f.size \/ (last /\ f.i <= f.size))

StackIn(cells, st, p) ==
  /\ st \in Seq(Frames)
  /\ \A k \in DOMAIN st : FrameIn(cells, st[k], k = 1 /\ p = "tail")

\* what TypeOK says, with what a step needs of frames and cells to keep it
TypeInv ==
  /\ heap \in Seq(Cell) /\ Sources(heap)
  /\ StackIn(Fillable(heap), stack, pc)
  /\ pc \in {"client", "pull", "tail", "return", "fault", "stopped"}
  /\ pc = "tail" => stack # << >> /\ Top.fn = "list"
  /\ ret \in [code : Int, data : (1 .. Len(heap)) \union {Unset}]
  /\ next_data \in Int
  /\ input \in Seq(Terms)
  /\ dropped \subseteq 1 .. Len(heap)

\* The first state is typed.
LEMMA InitTypeInv == Init => TypeInv
<1> SUFFICES ASSUME Init PROVE TypeInv
  OBVIOUS
<1>1. heap \in Seq(Cell) /\ Len(heap) = 0 /\ stack \in Seq(Frames) /\ DOMAIN heap = {}
      /\ DOMAIN stack = {}
  <2>1. << >> \in Seq(Cell) /\ << >> \in Seq(Frames) /\ DOMAIN << >> = {} /\ Len(<< >>) = 0
    OBVIOUS
  <2> QED
    BY <2>1 DEF Init
<1>2. Sources(heap)
  BY <1>1 DEF Sources
<1>3. StackIn(Fillable(heap), stack, pc)
  BY <1>1 DEF StackIn
<1>4. ret \in [code : Int, data : (1 .. Len(heap)) \union {Unset}]
  BY DEF Init, BERT_SUCCESS
<1>5. next_data \in Int /\ input \in Seq(Terms)
  BY InputsAssumption DEF Init, Unset
<1> QED
  BY <1>1, <1>2, <1>3, <1>4, <1>5 DEF Init, TypeInv

\* What Frame builds is a frame of Frames.
LEMMA FrameIsFrame ==
  ASSUME NEW fn \in {"tuple", "list", "complex", "time", "dict", "regex"},
         NEW obj \in Int, NEW size \in Nat
  PROVE  Frame(fn, obj, size) \in Frames
BY DEF Frame, Frames, Unset

\* The constants the pointers and cells are built from.
LEMMA Values == Unset \in Int /\ Unset < 0 /\ Null = 0 /\ Freed \in Cell
<1>1. << >> \in Seq(Int)
  OBVIOUS
<1>2. Freed \in Cell
  BY <1>1 DEF Freed, Cell
<1> QED
  BY <1>2 DEF Unset, Null

\* A stack is its top and what is below; the top may be replaced.
LEMMA StackSplit ==
  ASSUME NEW S, NEW st \in Seq(S), st # << >>
  PROVE  /\ Head(st) \in S /\ Tail(st) \in Seq(S) /\ Head(st) = st[1]
         /\ Len(Tail(st)) + 1 = Len(st) /\ DOMAIN st = 1 .. Len(st)
         /\ \A k \in 1 .. Len(Tail(st)) : k + 1 \in 1 .. Len(st) /\ Tail(st)[k] = st[k + 1]
         /\ \A g : [st EXCEPT ![1] = g] = <<g>> \o Tail(st)
<1>1. Len(st) \in Nat /\ Len(st) # 0 /\ DOMAIN st = 1 .. Len(st) /\ 1 \in DOMAIN st
  OBVIOUS
<1>2. Tail(st) \in Seq(S) /\ Len(Tail(st)) = Len(st) - 1
      /\ \A k \in 1 .. Len(Tail(st)) : Tail(st)[k] = st[k + 1]
  BY HeadTailProperties
<1>3. Head(st) \in S /\ Head(st) = st[1]
  OBVIOUS
<1>4. ASSUME NEW g PROVE [st EXCEPT ![1] = g] = <<g>> \o Tail(st)
  OBVIOUS
<1> QED
  BY <1>1, <1>2, <1>3, <1>4

\* The stack stays typed when the heap grows, ...
LEMMA StackGrows ==
  ASSUME NEW n, NEW m, n \subseteq m, NEW p, p # "tail", NEW st, StackIn(n, st, p), NEW q
  PROVE  StackIn(m, st, q)
<1>1. \A f, l : FrameIn(n, f, FALSE) => FrameIn(m, f, l)
  BY DEF FrameIn
<1> QED
  BY <1>1 DEF StackIn

\* ... when its top is popped, ...
LEMMA StackPops ==
  ASSUME NEW n, NEW m, n \subseteq m, NEW p, NEW st, StackIn(n, st, p), st # << >>, NEW q
  PROVE  StackIn(m, Tail(st), q)
<1>1. st \in Seq(Frames) /\ \A k \in DOMAIN st : FrameIn(n, st[k], k = 1 /\ p = "tail")
  BY DEF StackIn
<1>2. \A f, l : FrameIn(n, f, FALSE) => FrameIn(m, f, l)
  BY DEF FrameIn
<1>3. /\ Tail(st) \in Seq(Frames) /\ DOMAIN Tail(st) = 1 .. Len(Tail(st))
      /\ \A k \in 1 .. Len(Tail(st)) : k + 1 \in DOMAIN st /\ Tail(st)[k] = st[k + 1] /\ k + 1 # 1
  BY <1>1, StackSplit
<1>4. \A k \in DOMAIN Tail(st) : FrameIn(n, Tail(st)[k], FALSE)
  BY <1>1, <1>3
<1> QED
  BY <1>2, <1>3, <1>4 DEF StackIn

\* ... when a frame is pushed, ...
LEMMA StackPushes ==
  ASSUME NEW m, NEW p, p # "tail", NEW below, StackIn(m, below, p),
         NEW f \in Frames, NEW q, FrameIn(m, f, q = "tail")
  PROVE  StackIn(m, <<f>> \o below, q)
<1> DEFINE new == <<f>> \o below
<1>1. below \in Seq(Frames) /\ \A k \in DOMAIN below : FrameIn(m, below[k], FALSE)
  BY DEF StackIn
<1>2. /\ new \in Seq(Frames) /\ DOMAIN new = 1 .. Len(below) + 1 /\ new[1] = f
      /\ \A k \in 2 .. Len(below) + 1 : k - 1 \in DOMAIN below /\ new[k] = below[k - 1]
  BY <1>1
<1> HIDE DEF new
<1>3. \A k \in DOMAIN new : k = 1 \/ k \in 2 .. Len(below) + 1
  BY <1>1, <1>2
<1>4. ASSUME NEW k \in 2 .. Len(below) + 1 PROVE FrameIn(m, new[k], k = 1 /\ q = "tail")
  <2>1. FrameIn(m, new[k], FALSE)
    BY <1>1, <1>2
  <2>2. k # 1
    OBVIOUS
  <2> QED
    BY <2>1, <2>2, Zenon
<1> QED
  BY <1>2, <1>3, <1>4 DEF StackIn, new

\* ... and when its top changes.
LEMMA StackChanges ==
  ASSUME NEW n, NEW p, NEW st, StackIn(n, st, p), st # << >>,
         NEW f \in Frames, NEW q, FrameIn(n, f, q = "tail")
  PROVE  StackIn(n, [st EXCEPT ![1] = f], q)
<1>1. StackIn(n, Tail(st), "pull")
  BY StackPops
<1>2. [st EXCEPT ![1] = f] = <<f>> \o Tail(st)
  BY StackSplit DEF StackIn
<1>3. StackIn(n, <<f>> \o Tail(st), q)
  BY <1>1, StackPushes
<1> QED
  BY <1>2, <1>3, Zenon

\* The next term of the input.
LEMMA NextTerm ==
  ASSUME TypeInv, NEW types, Finds(types)
  PROVE  /\ Head(input).type \in types /\ Head(input).text \in STRING /\ Head(input).size \in Nat
         /\ Tail(input) \in Seq(Terms)
<1>1. Head(input) \in Terms /\ Tail(input) \in Seq(Terms)
  BY DEF TypeInv, Finds
<1> QED
  BY <1>1 DEF Finds, Terms

\* Destroying keeps the heap typed.
LEMMA ReleaseTyped ==
  ASSUME NEW h \in Seq(Cell), Sources(h), NEW roots
  PROVE  /\ Destroyed(h, roots) \in Seq(Cell) /\ Len(Destroyed(h, roots)) = Len(h)
         /\ Sources(Destroyed(h, roots)) /\ Fillable(h) \subseteq Fillable(Destroyed(h, roots))
         /\ Abandoned(h, Range(roots)) \subseteq 1 .. Len(h)
<1>1. /\ Destroyed(h, roots) \in Seq(Cell) /\ Len(Destroyed(h, roots)) = Len(h)
      /\ DOMAIN Destroyed(h, roots) = DOMAIN h
      /\ \A p \in DOMAIN h :
           Destroyed(h, roots)[p] = IF p \in Reach(h, Range(roots)) THEN Freed ELSE h[p]
  BY Values, DestroyedIs
<1>2. Freed.type # "regex"
  BY DEF Freed
<1>3. Sources(Destroyed(h, roots))
  BY <1>1, <1>2 DEF Sources
<1>5. Fillable(h) \subseteq Fillable(Destroyed(h, roots))
  BY <1>1, <1>2 DEF Fillable
<1>4. Abandoned(h, Range(roots)) \subseteq DOMAIN h
  BY DEF Abandoned, Sources, Live
<1> QED
  BY <1>1, <1>3, <1>4, <1>5

\* A function returns, to bert_decoder_pull or to the client: the types are kept.
LEMMA PassTyped ==
  ASSUME TypeInv, stack # << >>, heap' \in Seq(Cell), Sources(heap'), Len(heap) <= Len(heap'),
         Fillable(heap) \subseteq Fillable(heap'),
         dropped' \subseteq 1 .. Len(heap'), UNCHANGED <<next_data, input>>,
         NEW code \in Int, NEW data \in (1 .. Len(heap')) \union {Unset},
         FunctionReturns(code, data)
  PROVE  TypeInv'
<1>1. StackIn(Fillable(heap'), stack', pc')
  <2>1. StackIn(Fillable(heap), stack, pc)
    BY DEF TypeInv
  <2> QED
    BY <2>1, StackPops DEF FunctionReturns, Below
<1>2. ret' \in [code : Int, data : (1 .. Len(heap')) \union {Unset}]
  BY DEF FunctionReturns, Answer, BERT_SUCCESS
<1>3. pc' = "return"
  BY DEF FunctionReturns, Answer
<1> QED
  BY <1>1, <1>2, <1>3 DEF TypeInv

\* A fault leaves everything but the program counter.
LEMMA CrashTyped == TypeInv /\ pc = "return" /\ Crash => TypeInv'
<1> SUFFICES ASSUME TypeInv, pc = "return", Crash PROVE TypeInv'
  OBVIOUS
<1>1. StackIn(Fillable(heap), stack, "fault")
  BY DEF TypeInv, StackIn
<1> QED
  BY <1>1 DEF TypeInv, Crash

\* A cell is appended: the types of the heap are kept.
LEMMA AppendTyped ==
  ASSUME NEW h \in Seq(Cell), Sources(h), NEW cell \in Cell,
         cell.type = "regex" => Range(cell.kids) \subseteq 1 .. Len(h)
  PROVE  /\ Append(h, cell) \in Seq(Cell) /\ Len(Append(h, cell)) = Len(h) + 1
         /\ Append(h, cell)[Len(h) + 1] = cell
         /\ \A p \in 1 .. Len(h) : Append(h, cell)[p] = h[p]
         /\ DOMAIN Append(h, cell) = 1 .. Len(h) + 1
         /\ Sources(Append(h, cell)) /\ Fillable(h) \subseteq Fillable(Append(h, cell))
         /\ cell.type # "regex" => Len(h) + 1 \in Fillable(Append(h, cell))
<1> DEFINE more == Append(h, cell)
<1>1. /\ more \in Seq(Cell) /\ Len(more) = Len(h) + 1 /\ more[Len(h) + 1] = cell
      /\ \A p \in 1 .. Len(h) : more[p] = h[p]
  BY AppendProperties
<1>2. DOMAIN h = 1 .. Len(h) /\ Len(h) \in Nat /\ DOMAIN more = 1 .. Len(h) + 1
  BY <1>1
<1> HIDE DEF more
<1>3. Sources(more)
  <2>1. \A p \in DOMAIN more : p \in DOMAIN h \/ p = Len(h) + 1
    BY <1>2
  <2>2. DOMAIN h \subseteq DOMAIN more
    BY <1>2
  <2> QED
    BY <2>1, <2>2, <1>1, <1>2 DEF Sources
<1>4. /\ Fillable(h) \subseteq Fillable(more)
      /\ cell.type # "regex" => Len(h) + 1 \in Fillable(more)
  BY <1>1, <1>2 DEF Fillable
<1> QED
  BY <1>1, <1>2, <1>3, <1>4 DEF more

\* A pull of a term without elements keeps the types.
LEMMA ScalarTyped == TypeInv /\ PullScalar => TypeInv'
<1> SUFFICES ASSUME TypeInv, PullScalar PROVE TypeInv'
  OBVIOUS
<1> DEFINE cell == Term(Head(input).type, Head(input).text, << >>)
<1>1. Tail(input) \in Seq(Terms)
  BY NextTerm DEF PullScalar
<1>2. Head(input).type \in {"nil", "int", "bin", "atom", "other"} /\ Head(input).text \in STRING
  BY NextTerm DEF PullScalar
<1>3. cell \in Cell /\ cell.type # "regex"
  <2>1. << >> \in Seq(Int)
    OBVIOUS
  <2> QED
    BY <1>2, <2>1 DEF Term, Cell
<1>4. heap' = Append(heap, cell)
  BY DEF PullScalar, With
<1> HIDE DEF cell
<1>5. heap' \in Seq(Cell) /\ Len(heap') = Len(heap) + 1 /\ Sources(heap') /\ Len(heap) \in Nat
      /\ Fillable(heap) \subseteq Fillable(heap') /\ Len(heap) + 1 \in Fillable(heap')
  BY <1>3, <1>4, AppendTyped DEF TypeInv
<1>6. StackIn(Fillable(heap'), stack', pc')
  <2>1. pc # "tail" /\ stack' = stack /\ pc' = "return"
    BY DEF PullScalar, Finds, Answer
  <2> QED
    BY <2>1, <1>5, StackGrows DEF TypeInv
<1>7. ret' \in [code : Int, data : (1 .. Len(heap')) \union {Unset}]
  BY <1>5 DEF PullScalar, Answer, NewId
<1> QED
  BY <1>1, <1>5, <1>6, <1>7 DEF TypeInv, PullScalar, Answer

\* So does a pull of a tuple, with its frame or without one if it is empty, ...
LEMMA TupleTyped == TypeInv /\ PullTuple => TypeInv'
<1> SUFFICES ASSUME TypeInv, PullTuple PROVE TypeInv'
  OBVIOUS
<1> DEFINE size == Head(input).size
           cell == Term("tuple", "", [k \in 1 .. size |-> Null])
<1>1. input' \in Seq(Terms)
  BY NextTerm DEF PullTuple
<1>2. size \in Nat
  BY NextTerm DEF PullTuple
<1>3. heap' = Append(heap, cell)
  BY DEF PullTuple, With
<1>4. pc = "pull" /\ (IF size = 0 THEN Answer(1, NewId) /\ stack' = stack
                      ELSE /\ stack' = <<Frame("tuple", NewId, size)>> \o stack
                           /\ pc' = pc /\ ret' = ret)
  BY DEF PullTuple, Finds
<1> HIDE DEF size
<1>5. cell \in Cell /\ cell.type # "regex"
  <2>1. [k \in 1 .. size |-> Null] \in Seq(Int)
    BY <1>2, Values
  <2> QED
    BY <1>2, <2>1 DEF Term, Cell
<1> HIDE DEF cell
<1>6. heap' \in Seq(Cell) /\ Len(heap') = Len(heap) + 1 /\ Sources(heap') /\ Len(heap) \in Nat
      /\ Fillable(heap) \subseteq Fillable(heap') /\ Len(heap) + 1 \in Fillable(heap')
  BY <1>3, <1>5, AppendTyped DEF TypeInv
<1>7. next_data' = next_data /\ dropped' = dropped
  BY DEF PullTuple
<1>8. StackIn(Fillable(heap'), stack, pc)
  BY <1>4, <1>6, StackGrows DEF TypeInv
<1>9. NewId \in 1 .. Len(heap') /\ NewId \in Int /\ NewId \in Fillable(heap')
  BY <1>6 DEF NewId
<1>10. CASE size = 0
  <2>1. pc' = "return" /\ stack' = stack /\ StackIn(Fillable(heap'), stack', pc')
    BY <1>4, <1>6, <1>10, StackGrows DEF TypeInv, Answer
  <2>2. ret' \in [code : Int, data : (1 .. Len(heap')) \union {Unset}]
    BY <1>4, <1>9, <1>10 DEF Answer
  <2> QED
    BY <1>1, <1>6, <1>7, <2>1, <2>2 DEF TypeInv
<1>11. CASE size # 0
  <2> DEFINE f == Frame("tuple", NewId, size)
  <2>1. f \in Frames
    BY <1>2, <1>9, FrameIsFrame
  <2>2. FrameIn(Fillable(heap'), f, FALSE)
    BY <1>2, <1>9, <1>11 DEF Frame, FrameIn
  <2> HIDE DEF f
  <2>3. StackIn(Fillable(heap'), <<f>> \o stack, "pull")
    <3>1. StackIn(Fillable(heap'), stack, "pull") /\ FrameIn(Fillable(heap'), f, "pull" = "tail")
      BY <1>4, <1>8, <2>2
    <3> QED
      BY <2>1, <3>1, StackPushes
  <2>4. stack' = <<f>> \o stack /\ pc' = "pull" /\ ret' = ret
    BY <1>4, <1>11 DEF f
  <2>5. ret' \in [code : Int, data : (1 .. Len(heap')) \union {Unset}]
    BY <1>6, <2>4 DEF TypeInv
  <2> QED
    BY <1>1, <1>6, <1>7, <2>3, <2>4, <2>5 DEF TypeInv
<1> QED
  BY <1>10, <1>11

\* ... a pull of a list, ...
LEMMA ListTyped == TypeInv /\ PullList => TypeInv'
<1> SUFFICES ASSUME TypeInv, PullList PROVE TypeInv'
  OBVIOUS
<1> DEFINE size == Head(input).size
           cell == Term("list", "", << >>)
           f == Frame("list", NewId, size)
<1>1. input' \in Seq(Terms)
  BY NextTerm DEF PullList
<1>2. size \in Nat
  BY NextTerm DEF PullList
<1>3. /\ heap' = Append(heap, cell) /\ stack' = <<f>> \o stack
      /\ pc = "pull" /\ pc' = (IF size = 0 THEN "tail" ELSE "pull")
      /\ next_data' = next_data /\ dropped' = dropped /\ ret' = ret
  BY DEF PullList, With, Finds
<1> HIDE DEF size
<1>4. cell \in Cell /\ cell.type # "regex"
  <2>1. << >> \in Seq(Int)
    OBVIOUS
  <2> QED
    BY <2>1 DEF Term, Cell
<1> HIDE DEF cell
<1>5. heap' \in Seq(Cell) /\ Len(heap') = Len(heap) + 1 /\ Sources(heap') /\ Len(heap) \in Nat
      /\ Fillable(heap) \subseteq Fillable(heap') /\ Len(heap) + 1 \in Fillable(heap')
  BY <1>3, <1>4, AppendTyped DEF TypeInv
<1>6. NewId \in 1 .. Len(heap') /\ NewId \in Int /\ NewId \in Fillable(heap')
  BY <1>5 DEF NewId
<1>7. f \in Frames /\ f.fn = "list"
  BY <1>2, <1>6, FrameIsFrame DEF Frame
<1>8. FrameIn(Fillable(heap'), f, pc' = "tail")
  BY <1>2, <1>3, <1>6 DEF Frame, FrameIn
<1>9. StackIn(Fillable(heap'), stack, "pull")
  <2>1. StackIn(Fillable(heap), stack, "pull")
    BY <1>3, <1>5 DEF TypeInv
  <2> QED
    BY <1>5, <2>1, StackGrows
<1> HIDE DEF f
<1>10. StackIn(Fillable(heap'), stack', pc')
  BY <1>3, <1>7, <1>8, <1>9, StackPushes
<1>11. stack' # << >> /\ Head(stack') = f
  <2>1. stack \in Seq(Frames)
    BY DEF TypeInv, StackIn
  <2> QED
    BY <1>3, <1>7, <2>1
<1>12. ret' \in [code : Int, data : (1 .. Len(heap')) \union {Unset}]
  BY <1>3, <1>5 DEF TypeInv
<1>13. pc' \in {"tail", "pull"}
  BY <1>3
<1> QED
  BY <1>1, <1>3, <1>5, <1>7, <1>10, <1>11, <1>12, <1>13 DEF TypeInv, Top

\* ... a pull that fails before it made anything, ...
LEMMA ErrorTyped ==
  ASSUME TypeInv, pc = "pull", NEW code \in Int, Answer(code, Unset), input' \in Seq(Terms),
         UNCHANGED <<heap, stack, next_data, dropped>>
  PROVE  TypeInv'
<1>1. StackIn(Fillable(heap), stack, "return")
  BY DEF TypeInv, StackIn
<1> QED
  BY <1>1 DEF TypeInv, Answer

\* ... and so every pull.
LEMMA PullTyped == TypeInv /\ Pull => TypeInv'
<1> SUFFICES ASSUME TypeInv, Pull PROVE TypeInv'
  OBVIOUS
<1>1. input \in Seq(Terms) /\ (input # << >> => Tail(input) \in Seq(Terms))
  BY DEF TypeInv
<1>2. \A error \in ReadErrors : error \in Int
  BY ReadErrorsAssumption DEF BERT_ERRNO_SHORT_READ, BERT_ERRNO_READ, BERT_ERRNO_INVALID,
                              BERT_ERRNO_BIGNUM
<1>3. CASE PullEnds
  BY <1>1, <1>3, ErrorTyped DEF PullEnds
<1>4. ASSUME NEW error \in ReadErrors, PullFails(error) PROVE TypeInv'
  BY <1>1, <1>2, <1>4, ErrorTyped DEF PullFails
<1>5. CASE PullUnknown
  BY <1>1, <1>5, ErrorTyped DEF PullUnknown, Finds, BERT_ERRNO_INVALID
<1>6. CASE PullMallocFails
  BY <1>1, <1>6, ErrorTyped DEF PullMallocFails, Finds, BERT_ERRNO_MALLOC
<1> QED
  BY <1>3, <1>4, <1>5, <1>6, ScalarTyped, TupleTyped, ListTyped DEF Pull

\* A function releases what it holds and returns: the types are kept.
LEMMA ReturnTyped ==
  ASSUME TypeInv, pc = "return", stack # << >>,
         NEW h \in Seq(Cell), Sources(h), Len(heap) <= Len(h), Fillable(heap) \subseteq Fillable(h), NEW roots,
         NEW code \in Int, NEW data \in (1 .. Len(h)) \union {Unset},
         ReleaseAndReturn(h, roots, code, data)
  PROVE  TypeInv'
<1>1. CASE Destroyable(h, roots)
  <2>1. /\ heap' = Destroyed(h, roots) /\ dropped' = dropped \union Abandoned(h, Range(roots))
        /\ FunctionReturns(code, data) /\ UNCHANGED <<next_data, input>>
    BY <1>1 DEF ReleaseAndReturn, Release
  <2>2. heap' \in Seq(Cell) /\ Len(heap') = Len(h) /\ Sources(heap') /\ Fillable(heap) \subseteq Fillable(heap')
    BY <2>1, ReleaseTyped
  <2>3. dropped' \subseteq 1 .. Len(heap')
    <3>1. Abandoned(h, Range(roots)) \subseteq 1 .. Len(heap')
      BY <2>2, ReleaseTyped
    <3>2. dropped \subseteq 1 .. Len(heap) /\ Len(heap) \in Nat /\ Len(heap') \in Nat
      BY <2>2 DEF TypeInv
    <3>3. 1 .. Len(heap) \subseteq 1 .. Len(heap')
      BY <2>2, <3>2
    <3> QED
      BY <2>1, <3>1, <3>2, <3>3
  <2> QED
    BY <2>1, <2>2, <2>3, PassTyped
<1>2. CASE ~Destroyable(h, roots)
  BY <1>2, CrashTyped DEF ReleaseAndReturn
<1> QED
  BY <1>1, <1>2

\* ... on the heap as it is, with what the failed pull returned or another code.
LEMMA FailTyped ==
  ASSUME TypeInv, pc = "return", stack # << >>, NEW roots,
         NEW code \in Int, ReleaseAndReturn(heap, roots, code, Unset)
  PROVE  TypeInv'
<1>1. heap \in Seq(Cell) /\ Sources(heap) /\ Len(heap) <= Len(heap) /\ Fillable(heap) \subseteq Fillable(heap)
  BY DEF TypeInv
<1>2. Unset \in (1 .. Len(heap)) \union {Unset}
  OBVIOUS
<1> QED
  BY <1>1, <1>2, ReturnTyped

\* what a frame on top and a returned pull are
LEMMA TopTyped ==
  ASSUME TypeInv, stack # << >>
  PROVE  /\ Top \in Frames /\ Top = stack[1] /\ Below \in Seq(Frames) /\ Len(heap) \in Nat
         /\ FrameIn(Fillable(heap), Top, pc = "tail")
         /\ ret.code \in Int /\ ret.data \in (1 .. Len(heap)) \union {Unset}
<1>1. Len(heap) \in Nat /\ StackIn(Fillable(heap), stack, pc) /\ stack \in Seq(Frames)
  BY DEF TypeInv, StackIn
<1>2. 1 \in DOMAIN stack /\ Top = stack[1] /\ Top \in Frames /\ Below \in Seq(Frames)
  BY <1>1 DEF Top, Below
<1>3. FrameIn(Fillable(heap), Top, pc = "tail")
  <2>1. FrameIn(Fillable(heap), stack[1], 1 = 1 /\ pc = "tail")
    BY <1>1, <1>2 DEF StackIn
  <2> QED
    BY <1>2, <2>1
<1> QED
  BY <1>1, <1>2, <1>3 DEF TypeInv

\* The innermost function waits for its next pull, or reads its tail.
LEMMA GoesOnTyped ==
  ASSUME TypeInv, stack # << >>, NEW f \in Frames, FrameIn(Fillable(heap), f, pc' = "tail"),
         stack' = [stack EXCEPT ![1] = f] \/ stack' = <<f>> \o Below,
         pc' \in {"pull", "tail"}, pc' = "tail" => f.fn = "list", ret' = ret,
         heap' \in Seq(Cell), Len(heap') = Len(heap), Sources(heap'),
         Fillable(heap) \subseteq Fillable(heap'),
         dropped' \subseteq 1 .. Len(heap), UNCHANGED <<next_data, input>>
  PROVE  TypeInv'
<1>1. StackIn(Fillable(heap'), stack', pc')
  <2>1. Len(heap) \in Nat /\ StackIn(Fillable(heap), stack, pc)
    BY DEF TypeInv
  <2>2. StackIn(Fillable(heap), Below, "pull")
    BY <2>1, StackPops DEF Below
  <2>3. StackIn(Fillable(heap), <<f>> \o Below, pc')
    BY <2>2, StackPushes
  <2>4. [stack EXCEPT ![1] = f] = <<f>> \o Below
    BY <2>1, StackSplit DEF Below, StackIn
  <2>5. StackIn(Fillable(heap), stack', pc')
    BY <2>3, <2>4
  <2> QED
    BY <2>5 DEF StackIn, FrameIn
<1>2. stack' # << >> /\ Head(stack') = f
  <2>1. stack \in Seq(Frames) /\ Below \in Seq(Frames)
    BY TopTyped DEF TypeInv, StackIn
  <2>2. [stack EXCEPT ![1] = f] = <<f>> \o Below
    BY <2>1, StackSplit DEF Below
  <2>3. stack' = <<f>> \o Below
    BY <2>2
  <2> QED
    BY <2>1, <2>3
<1>3. ret' \in [code : Int, data : (1 .. Len(heap')) \union {Unset}]
  BY DEF TypeInv
<1> QED
  BY <1>1, <1>2, <1>3 DEF TypeInv, Top

\* A place in a tuple gets a term.
LEMMA StoreTyped ==
  ASSUME NEW h \in Seq(Cell), Sources(h), NEW p \in DOMAIN h, h[p].type # "regex",
         NEW kids \in Seq(Int)
  PROVE  /\ [h EXCEPT ![p].kids = kids] \in Seq(Cell)
         /\ Len([h EXCEPT ![p].kids = kids]) = Len(h)
         /\ Sources([h EXCEPT ![p].kids = kids])
         /\ Fillable(h) \subseteq Fillable([h EXCEPT ![p].kids = kids])
<1> DEFINE cell == [h[p] EXCEPT !.kids = kids]
           new == [h EXCEPT ![p] = cell]
<1>1. h[p] \in Cell
  OBVIOUS
<1>2. cell \in Cell /\ cell.type = h[p].type
  BY <1>1 DEF Cell
<1> HIDE DEF cell
<1>3. new \in Seq(Cell) /\ Len(new) = Len(h) /\ DOMAIN new = DOMAIN h
      /\ new[p] = cell /\ \A q \in DOMAIN h : q # p => new[q] = h[q]
  BY <1>2
<1> HIDE DEF new
<1>4. Sources(new) /\ Fillable(h) \subseteq Fillable(new)
  BY <1>2, <1>3 DEF Sources, Fillable
<1> QED
  BY <1>3, <1>4 DEF new, cell

\* What a cell and a sequence of pointers with another pointer in it are.
LEMMA CellIs ==
  ASSUME NEW h \in Seq(Cell), NEW p \in 1 .. Len(h)
  PROVE  h[p] \in Cell /\ h[p].kids \in Seq(Int)
<1>1. h[p] \in Cell
  OBVIOUS
<1> QED
  BY <1>1 DEF Cell

\* A frame takes the pointer that a pull returned.
LEMMA PointerStored ==
  ASSUME NEW s \in Seq(Int), NEW k, NEW v \in Int
  PROVE  /\ [s EXCEPT ![k] = v] \in Seq(Int) /\ Len([s EXCEPT ![k] = v]) = Len(s)
         /\ DOMAIN [s EXCEPT ![k] = v] = DOMAIN s
<1> DEFINE t == [s EXCEPT ![k] = v]
<1>1. Len(s) \in Nat /\ DOMAIN s = 1 .. Len(s) /\ \A i \in DOMAIN s : s[i] \in Int
  OBVIOUS
<1>2. DOMAIN t = DOMAIN s /\ \A i \in DOMAIN s : t[i] \in Int
  BY <1>1
<1>3. t = [i \in 1 .. Len(s) |-> t[i]]
  BY <1>1
<1> HIDE DEF t
<1>4. t \in [1 .. Len(s) -> Int]
  BY <1>1, <1>2, <1>3
<1>5. t \in Seq(Int) /\ Len(t) = Len(s)
  BY <1>1, <1>4
<1> QED
  BY <1>2, <1>5 DEF t

\* a frame after another pull
Advanced(f, i, a, b) == [f EXCEPT !.i = i, !.first = a, !.second = b]

\* What a frame holds are numbers.
LEMMA FrameFields ==
  ASSUME NEW f \in Frames
  PROVE  f.first \in Int /\ f.second \in Int /\ f.i \in Nat /\ f.i + 1 \in Nat /\ f.size \in Nat
BY DEF Frames

\* It is a frame of the same function, for the same term.
LEMMA FrameAdvanced ==
  ASSUME NEW f \in Frames, NEW i \in Nat, NEW a \in Int, NEW b \in Int,
         f.fn = "time" => i \in 0 .. 2, f.fn = "regex" => i \in 0 .. 1
  PROVE  LET g == Advanced(f, i, a, b) IN
         /\ g \in Frames /\ g.fn = f.fn /\ g.obj = f.obj /\ g.size = f.size
         /\ g.i = i /\ g.first = a /\ g.second = b
<1> DEFINE g == Advanced(f, i, a, b)
<1>1. f = [fn |-> f.fn, obj |-> f.obj, size |-> f.size, i |-> f.i, first |-> f.first,
           second |-> f.second]
  BY DEF Frames
<1>2. /\ f.fn \in {"tuple", "list", "complex", "time", "dict", "regex"}
      /\ f.obj \in Int /\ f.size \in Nat /\ f.first \in Int /\ f.second \in Int
  BY DEF Frames
<1>0. g = [f EXCEPT !.i = i, !.first = a, !.second = b]
  BY DEF Advanced
<1> HIDE DEF g
<1>3. g = [fn |-> f.fn, obj |-> f.obj, size |-> f.size, i |-> i, first |-> a, second |-> b]
  BY <1>0, <1>1
<1>4. g \in Frames /\ g.fn = f.fn /\ g.obj = f.obj /\ g.size = f.size
      /\ g.i = i /\ g.first = a /\ g.second = b
  BY <1>2, <1>3 DEF Frames
<1> QED
  BY <1>4 DEF g

\* bert_decode_tuple keeps the types, ...
LEMMA TupleStepsTyped == TypeInv /\ Tuple => TypeInv'
<1> SUFFICES ASSUME TypeInv, Tuple PROVE TypeInv'
  OBVIOUS
<1>1. pc = "return" /\ stack # << >> /\ Top.fn = "tuple"
  BY DEF Tuple, TupleFails, TupleFirstUnset, TupleIsComplex, TupleStores, Returned
<1>2. /\ Top \in Frames /\ Top = stack[1] /\ Below \in Seq(Frames) /\ Len(heap) \in Nat
      /\ ret.code \in Int /\ ret.data \in (1 .. Len(heap)) \union {Unset}
  BY <1>1, TopTyped
<1>3. Top.obj \in Fillable(heap) /\ Top.i < Top.size /\ Top.size \in Nat /\ Top.i \in Nat
  <2>1. FrameIn(Fillable(heap), Top, FALSE)
    BY <1>1, TopTyped
  <2> QED
    BY <1>1, <1>2, <2>1 DEF FrameIn, Frames
<1>4. heap \in Seq(Cell) /\ Sources(heap) /\ dropped \subseteq 1 .. Len(heap)
      /\ next_data \in Int /\ input \in Seq(Terms)
  BY DEF TypeInv
<1>5. CASE TupleFails
  BY <1>1, <1>2, <1>5, FailTyped DEF TupleFails
<1>6. CASE TupleFirstUnset
  BY <1>1, <1>6, CrashTyped DEF TupleFirstUnset
<1>7. CASE TupleIsComplex
  <2> DEFINE f == Frame("complex", Null, 0)
  <2>1. f \in Frames
    BY FrameIsFrame, Values
  <2>2. FrameIn(Fillable(heap), f, FALSE) /\ f.fn # "list"
    BY DEF FrameIn, Frame
  <2> HIDE DEF f
  <2>3. /\ heap' = Destroyed(heap, <<ret.data, Top.obj>>)
        /\ dropped' = dropped \union Abandoned(heap, Range(<<ret.data, Top.obj>>))
        /\ stack' = <<f>> \o Below /\ pc' = "pull" /\ ret' = ret
        /\ UNCHANGED <<next_data, input>>
    BY <1>7 DEF TupleIsComplex, Release, f
  <2>4. /\ heap' \in Seq(Cell) /\ Len(heap') = Len(heap) /\ Sources(heap')
        /\ Fillable(heap) \subseteq Fillable(heap')
        /\ Abandoned(heap, Range(<<ret.data, Top.obj>>)) \subseteq 1 .. Len(heap)
    BY <1>4, <2>3, ReleaseTyped
  <2>5. dropped' \subseteq 1 .. Len(heap)
    BY <1>4, <2>3, <2>4
  <2>6. FrameIn(Fillable(heap), f, pc' = "tail")
    BY <2>2, <2>3
  <2> QED
    BY <1>1, <2>1, <2>3, <2>4, <2>5, <2>6, GoesOnTyped
<1>8. CASE TupleStores
  <2> DEFINE kids == [heap[Top.obj].kids EXCEPT ![Top.i + 1] = ret.data]
             f == [Top EXCEPT !.i = @ + 1]
  <2>1. heap' = heap \/ heap' = [heap EXCEPT ![Top.obj].kids = kids]
    BY <1>8 DEF TupleStores
  <2>2. kids \in Seq(Int)
    <3>1. Top.obj \in 1 .. Len(heap) /\ ret.data \in Int
      BY <1>2, <1>3, <1>4, Values DEF Fillable
    <3> QED
      BY <1>4, <3>1, CellIs, PointerStored
  <2> HIDE DEF kids
  <2>3. Top.obj \in DOMAIN heap /\ heap[Top.obj].type # "regex"
    BY <1>3 DEF Fillable
  <2>4. /\ heap' \in Seq(Cell) /\ Len(heap') = Len(heap) /\ Sources(heap')
        /\ Fillable(heap) \subseteq Fillable(heap')
    <3>1. CASE heap' = heap
      BY <1>4, <3>1
    <3>2. CASE heap' = [heap EXCEPT ![Top.obj].kids = kids]
      BY <1>4, <2>2, <2>3, <3>2, StoreTyped
    <3> QED
      BY <2>1, <3>1, <3>2
  <2>5. CASE Top.i + 1 = Top.size
    <3>1. FunctionReturns(BERT_SUCCESS, Top.obj) /\ dropped' = dropped
          /\ UNCHANGED <<next_data, input>>
      BY <1>8, <2>5 DEF TupleStores
    <3>2. Top.obj \in 1 .. Len(heap') /\ BERT_SUCCESS \in Int /\ dropped' \subseteq 1 .. Len(heap')
      BY <1>4, <2>3, <2>4, <3>1 DEF BERT_SUCCESS
    <3> QED
      BY <1>1, <1>2, <2>4, <3>1, <3>2, PassTyped
  <2>6. CASE Top.i + 1 # Top.size
    <3>1. /\ stack' = [stack EXCEPT ![1].i = @ + 1] /\ pc' = "pull" /\ ret' = ret
          /\ UNCHANGED <<next_data, input, dropped>>
      BY <1>8, <2>6 DEF TupleStores
    <3>2. [stack EXCEPT ![1].i = @ + 1] = [stack EXCEPT ![1] = f]
      BY <1>2
    <3>3. f \in Frames /\ f.fn = "tuple" /\ f.obj = Top.obj /\ f.i = Top.i + 1 /\ f.size = Top.size
      <4>1. Top.first \in Int /\ Top.second \in Int /\ Top.i + 1 \in Nat
        BY <1>2, <1>3 DEF Frames
      <4>2. f = Advanced(Top, Top.i + 1, Top.first, Top.second)
        BY <1>2 DEF Advanced, Frames
      <4>3. Top.fn # "time" /\ Top.fn # "regex"
        BY <1>1
      <4> HIDE DEF f
      <4> QED
        BY <1>1, <1>2, <4>1, <4>2, <4>3, FrameAdvanced
    <3> HIDE DEF f
    <3>4. FrameIn(Fillable(heap), f, pc' = "tail")
      BY <1>3, <2>6, <3>3 DEF FrameIn
    <3> QED
      BY <1>1, <1>4, <2>4, <3>1, <3>2, <3>3, <3>4, GoesOnTyped
  <2> QED
    BY <2>5, <2>6
<1> QED
  BY <1>5, <1>6, <1>7, <1>8 DEF Tuple

\* ... bert_decode_list does, ...
LEMMA ListStepsTyped == TypeInv /\ List => TypeInv'
<1> SUFFICES ASSUME TypeInv, List PROVE TypeInv'
  OBVIOUS
<1>1. stack # << >> /\ Top.fn = "list" /\ pc \in {"return", "tail"}
  BY DEF List, ListFails, ListAppends, ListAppendFails, ListReadsTail, ListTailFails, Returned,
         TypeInv
<1>2. /\ Top \in Frames /\ Top = stack[1] /\ Below \in Seq(Frames) /\ Len(heap) \in Nat
      /\ ret.code \in Int /\ ret.data \in (1 .. Len(heap)) \union {Unset}
      /\ FrameIn(Fillable(heap), Top, pc = "tail")
  BY <1>1, TopTyped
<1>3. /\ Top.obj \in Fillable(heap) /\ Top.size \in Nat /\ Top.i \in Nat /\ Top.first \in Int
      /\ Top.obj \in 1 .. Len(heap)
  BY <1>1, <1>2 DEF FrameIn, Frames, Fillable
<1>4. /\ heap \in Seq(Cell) /\ Sources(heap) /\ dropped \subseteq 1 .. Len(heap)
      /\ next_data \in Int /\ input \in Seq(Terms)
  BY DEF TypeInv
<1>5. CASE ListFails
  BY <1>1, <1>2, <1>5, FailTyped DEF ListFails, Returned
<1>6. CASE ListAppendFails
  BY <1>1, <1>6, FailTyped DEF ListAppendFails, Returned, BERT_ERRNO_MALLOC
<1>7. CASE ListReadsTail
  <2>1. FunctionReturns(BERT_SUCCESS, Top.obj) /\ UNCHANGED <<heap, next_data, input, dropped>>
    BY <1>7 DEF ListReadsTail
  <2>2. BERT_SUCCESS \in Int /\ Top.obj \in (1 .. Len(heap')) \union {Unset}
    BY <1>3, <2>1 DEF BERT_SUCCESS
  <2>3. /\ heap' \in Seq(Cell) /\ Sources(heap') /\ Len(heap) <= Len(heap')
        /\ Fillable(heap) \subseteq Fillable(heap') /\ dropped' \subseteq 1 .. Len(heap')
    BY <1>2, <1>4, <2>1
  <2> QED
    BY <1>1, <2>1, <2>2, <2>3, PassTyped
<1>8. ASSUME NEW error \in ReadErrors, ListTailFails(error) PROVE TypeInv'
  <2>1. /\ FunctionReturns(error, Unset) /\ UNCHANGED <<heap, next_data, input>>
        /\ dropped' = dropped \union {Top.obj}
    BY <1>8 DEF ListTailFails
  <2>2. error \in Int
    BY ReadErrorsAssumption DEF BERT_ERRNO_SHORT_READ, BERT_ERRNO_READ, BERT_ERRNO_INVALID,
                                BERT_ERRNO_BIGNUM
  <2>3. /\ heap' \in Seq(Cell) /\ Sources(heap') /\ Len(heap) <= Len(heap')
        /\ Fillable(heap) \subseteq Fillable(heap') /\ dropped' \subseteq 1 .. Len(heap')
    <3>1. {Top.obj} \subseteq 1 .. Len(heap)
      BY <1>3
    <3>2. heap' = heap
      BY <2>1
    <3>3. Len(heap) <= Len(heap)
      BY <1>2
    <3> QED
      BY <1>4, <2>1, <3>1, <3>2, <3>3, Zenon
  <2>4. Unset \in (1 .. Len(heap')) \union {Unset}
    OBVIOUS
  <2> QED
    BY <1>1, <2>1, <2>2, <2>3, <2>4, PassTyped
<1>9. CASE ListAppends
  <2>1. PICK element \in Elements :
          /\ heap' = [heap EXCEPT ![Top.obj].kids = Append(@, element)]
          /\ stack' = [stack EXCEPT ![1].i = @ + 1, ![1].first = element]
    BY <1>9 DEF ListAppends
  <2>2. pc = "return" /\ pc' = (IF Top.i + 1 = Top.size THEN "tail" ELSE "pull")
        /\ UNCHANGED <<ret, next_data, input, dropped>>
    BY <1>9 DEF ListAppends, Returned
  <2>3. element \in Int
    <3>1. \A x \in Uninitialised : x \in Int
      BY BuildAssumption DEF Null, Wild
    <3>2. ret.data \in Int
      BY <1>2, Values
    <3> QED
      BY <1>3, <3>1, <3>2 DEF Elements
  <2> DEFINE kids == Append(heap[Top.obj].kids, element)
             f == [Top EXCEPT !.i = @ + 1, !.first = element]
  <2>4. heap' = [heap EXCEPT ![Top.obj].kids = kids]
    BY <1>3, <1>4, <2>1
  <2>5. kids \in Seq(Int)
    BY <1>3, <1>4, <2>3, CellIs, AppendProperties
  <2> HIDE DEF kids
  <2>6. Top.obj \in DOMAIN heap /\ heap[Top.obj].type # "regex"
    BY <1>3 DEF Fillable
  <2>7. /\ heap' \in Seq(Cell) /\ Len(heap') = Len(heap) /\ Sources(heap')
        /\ Fillable(heap) \subseteq Fillable(heap')
    BY <1>4, <2>4, <2>5, <2>6, StoreTyped
  <2>8. stack' = [stack EXCEPT ![1] = f]
    BY <1>2, <2>1
  <2>9. f \in Frames /\ f.fn = "list" /\ f.obj = Top.obj /\ f.i = Top.i + 1 /\ f.size = Top.size
    <3>1. Top.second \in Int /\ Top.i + 1 \in Nat
      BY <1>2, <1>3 DEF Frames
    <3>2. f = Advanced(Top, Top.i + 1, element, Top.second)
      BY <1>2 DEF Advanced, Frames
    <3>3. Top.fn # "time" /\ Top.fn # "regex"
      BY <1>1
    <3> HIDE DEF f
    <3> QED
      BY <1>1, <1>2, <2>3, <3>1, <3>2, <3>3, FrameAdvanced
  <2> HIDE DEF f
  <2>10. FrameIn(Fillable(heap), f, pc' = "tail")
    <3>1. Top.i < Top.size
      BY <1>1, <1>2, <2>2 DEF FrameIn
    <3>2. f.i < f.size \/ (pc' = "tail" /\ f.i <= f.size)
      BY <1>3, <2>2, <2>9, <3>1
    <3> QED
      BY <1>3, <2>9, <3>2 DEF FrameIn
  <2> QED
    BY <1>1, <1>4, <2>2, <2>7, <2>8, <2>9, <2>10, GoesOnTyped
<1> QED
  BY <1>5, <1>6, <1>7, <1>8, <1>9 DEF List

\* ... the client does, ...
LEMMA ClientTyped == TypeInv /\ (ClientPulls \/ ClientUses \/ ClientStops) => TypeInv'
<1> SUFFICES ASSUME TypeInv, ClientPulls \/ ClientUses \/ ClientStops PROVE TypeInv'
  OBVIOUS
<1>1. CASE ClientPulls \/ ClientStops
  <2>1. pc # "tail" /\ pc' # "tail" /\ pc' \in {"pull", "stopped"}
        /\ UNCHANGED <<heap, stack, ret, next_data, input, dropped>>
    BY <1>1 DEF ClientPulls, ClientStops
  <2>2. StackIn(Fillable(heap), stack, pc')
    BY <2>1 DEF TypeInv, StackIn
  <2> QED
    BY <2>1, <2>2 DEF TypeInv
<1>2. CASE ClientUses
  <2> DEFINE p == IF ret.data = Unset THEN next_data ELSE ret.data
  <2>1. CASE Whole(heap, p)
    <3>1. /\ heap' = Destroyed(heap, <<p>>) /\ dropped' = dropped \union Abandoned(heap, Range(<<p>>))
          /\ next_data' = p /\ pc' = "client" /\ ret' = [code |-> BERT_SUCCESS, data |-> Unset]
          /\ UNCHANGED <<stack, input>> /\ pc = "return"
      BY <1>2, <2>1 DEF ClientUses, Release
    <3>2. p \in Int
      BY <2>1 DEF Whole, Live, TypeInv
    <3> HIDE DEF p
    <3>3. /\ heap' \in Seq(Cell) /\ Len(heap') = Len(heap) /\ Sources(heap')
          /\ Fillable(heap) \subseteq Fillable(heap')
          /\ Abandoned(heap, Range(<<p>>)) \subseteq 1 .. Len(heap)
      BY <3>1, ReleaseTyped DEF TypeInv
    <3>4. StackIn(Fillable(heap'), stack', pc')
      BY <3>1, <3>3, StackGrows DEF TypeInv
    <3>5. ret' \in [code : Int, data : (1 .. Len(heap')) \union {Unset}]
      BY <3>1 DEF BERT_SUCCESS
    <3>6. dropped' \subseteq 1 .. Len(heap')
      BY <3>1, <3>3 DEF TypeInv
    <3> QED
      BY <3>1, <3>2, <3>3, <3>4, <3>5, <3>6 DEF TypeInv
  <2>2. CASE ~Whole(heap, p)
    BY <1>2, <2>2, CrashTyped DEF ClientUses
  <2> QED
    BY <2>1, <2>2
<1> QED
  BY <1>1, <1>2

\* A function releases what it holds and returns a new term.
LEMMA MadeTyped ==
  ASSUME TypeInv, pc = "return", stack # << >>, NEW roots,
         NEW h \in Seq(Cell), Sources(h), Len(h) = Len(heap), Fillable(heap) \subseteq Fillable(h),
         NEW cell \in Cell, cell.type # "regex",
         ReleaseAndReturn(Append(h, cell), roots, BERT_SUCCESS, NewId)
  PROVE  TypeInv'
<1> DEFINE more == Append(h, cell)
<1>1. /\ more \in Seq(Cell) /\ Len(more) = Len(h) + 1 /\ Sources(more)
      /\ Fillable(h) \subseteq Fillable(more)
  BY AppendTyped
<1>2. Len(heap) \in Nat /\ BERT_SUCCESS \in Int
  BY DEF TypeInv, BERT_SUCCESS
<1> HIDE DEF more
<1>3. Len(heap) <= Len(more) /\ NewId \in (1 .. Len(more)) \union {Unset}
  BY <1>1, <1>2 DEF NewId
<1>4. Fillable(heap) \subseteq Fillable(more)
  BY <1>1
<1>5. ReleaseAndReturn(more, roots, BERT_SUCCESS, NewId)
  BY DEF more
<1> QED
  BY <1>1, <1>2, <1>3, <1>4, <1>5, ReturnTyped

\* The keys, values and sources that the code looks at are pointers or unset.
LEMMA PointerTyped ==
  ASSUME TypeInv, ret.data # Unset
  PROVE  ret.data \in 1 .. Len(heap) /\ heap[ret.data] \in Cell /\ heap[ret.data].kids \in Seq(Int)
<1>1. heap \in Seq(Cell) /\ ret.data \in 1 .. Len(heap)
  BY DEF TypeInv
<1> QED
  BY <1>1, CellIs

\* ... bert_decode_complex does, ...
LEMMA ComplexStepsTyped == TypeInv /\ Complex => TypeInv'
<1> SUFFICES ASSUME TypeInv, Complex PROVE TypeInv'
  OBVIOUS
<1>1. pc = "return" /\ stack # << >>
  BY DEF Complex, NothingHeldFails, PointerUnset, KeywordIsNoAtom, KeywordIsConstant,
         KeywordIsComplex, KeywordIsUnknown, Got, Returned
<1>2. /\ Top \in Frames /\ Len(heap) \in Nat
      /\ ret.code \in Int /\ ret.data \in (1 .. Len(heap)) \union {Unset}
  BY <1>1, TopTyped
<1>3. /\ heap \in Seq(Cell) /\ Sources(heap) /\ dropped \subseteq 1 .. Len(heap)
      /\ next_data \in Int /\ input \in Seq(Terms) /\ Len(heap) <= Len(heap)
      /\ Fillable(heap) \subseteq Fillable(heap) /\ Unset \in (1 .. Len(heap)) \union {Unset}
  BY <1>2 DEF TypeInv
<1>4. ASSUME NEW code \in Int, FunctionReturns(code, Unset), UNCHANGED <<heap, next_data, input>>,
             dropped' \subseteq 1 .. Len(heap)
      PROVE  TypeInv'
  <2>1. heap' = heap /\ UNCHANGED <<next_data, input>>
    BY <1>4
  <2>2. /\ heap' \in Seq(Cell) /\ Sources(heap') /\ Len(heap) <= Len(heap')
        /\ Fillable(heap) \subseteq Fillable(heap') /\ dropped' \subseteq 1 .. Len(heap')
        /\ Unset \in (1 .. Len(heap')) \union {Unset}
    BY <1>3, <1>4, <2>1
  <2> QED
    BY <1>1, <1>4, <2>1, <2>2, PassTyped
<1>5. ASSUME NEW fn, NothingHeldFails(fn) PROVE TypeInv'
  <2>1. FunctionReturns(ret.code, Unset) /\ UNCHANGED <<heap, next_data, input>> /\ dropped' = dropped
    BY <1>5 DEF NothingHeldFails
  <2> QED
    BY <1>2, <1>3, <1>4, <2>1
<1>6. ASSUME NEW fn, PointerUnset(fn) PROVE TypeInv'
  BY <1>1, <1>6, CrashTyped DEF PointerUnset
<1>7. CASE KeywordIsNoAtom
  <2>1. FunctionReturns(BERT_ERRNO_INVALID, Unset) /\ UNCHANGED <<heap, next_data, input>>
        /\ dropped' = dropped \union {ret.data} /\ ret.data # Unset
    BY <1>7 DEF KeywordIsNoAtom, Got
  <2>2. dropped' \subseteq 1 .. Len(heap) /\ BERT_ERRNO_INVALID \in Int
    <3>1. {ret.data} \subseteq 1 .. Len(heap)
      BY <1>2, <2>1
    <3>2. dropped' \subseteq 1 .. Len(heap)
      BY <1>3, <2>1, <3>1, Zenon
    <3> QED
      BY <3>2 DEF BERT_ERRNO_INVALID
  <2> QED
    BY <1>4, <2>1, <2>2
<1>8. CASE KeywordIsConstant
  <2> DEFINE type == IF heap[ret.data].text = "nil" THEN "nil" ELSE "boolean"
  <2>1. \/ ReleaseAndReturn(Append(heap, Term(type, "", << >>)), <<ret.data>>, BERT_SUCCESS, NewId)
        \/ ReleaseAndReturn(heap, <<ret.data>>, BERT_ERRNO_MALLOC, Unset)
    BY <1>8 DEF KeywordIsConstant, With
  <2>2. type \in {"nil", "boolean"}
    OBVIOUS
  <2> HIDE DEF type
  <2>3. Term(type, "", << >>) \in Cell /\ Term(type, "", << >>).type # "regex"
    <3>1. << >> \in Seq(Int)
      OBVIOUS
    <3> QED
      BY <2>2, <3>1 DEF Term, Cell
  <2>4. BERT_ERRNO_MALLOC \in Int
    BY DEF BERT_ERRNO_MALLOC
  <2>5. CASE ReleaseAndReturn(Append(heap, Term(type, "", << >>)), <<ret.data>>, BERT_SUCCESS, NewId)
    BY <1>1, <1>3, <2>3, <2>5, MadeTyped
  <2>6. CASE ReleaseAndReturn(heap, <<ret.data>>, BERT_ERRNO_MALLOC, Unset)
    BY <1>1, <2>4, <2>6, FailTyped
  <2> QED
    BY <2>1, <2>5, <2>6
<1>9. CASE KeywordIsComplex
  <2>1. PICK word \in Complexes : stack' = <<Frame(word, Null, 0)>> \o Below
    BY <1>9 DEF KeywordIsComplex
  <2> DEFINE f == Frame(word, Null, 0)
  <2>2. f \in Frames
    BY FrameIsFrame, Values DEF Complexes
  <2>3. FrameIn(Fillable(heap), f, pc' = "tail") /\ f.fn # "list"
    BY DEF FrameIn, Frame, Complexes
  <2>4. stack' = <<f>> \o Below
    BY <2>1
  <2> HIDE DEF f
  <2>5. /\ heap' = Destroyed(heap, <<ret.data>>)
        /\ dropped' = dropped \union Abandoned(heap, Range(<<ret.data>>))
        /\ pc' = "pull" /\ ret' = ret /\ UNCHANGED <<next_data, input>>
    BY <1>9 DEF KeywordIsComplex, Release
  <2>6. /\ heap' \in Seq(Cell) /\ Len(heap') = Len(heap) /\ Sources(heap')
        /\ Fillable(heap) \subseteq Fillable(heap')
        /\ Abandoned(heap, Range(<<ret.data>>)) \subseteq 1 .. Len(heap)
    BY <1>3, <2>5, ReleaseTyped
  <2>7. dropped' \subseteq 1 .. Len(heap)
    BY <1>3, <2>5, <2>6
  <2> QED
    BY <1>1, <2>2, <2>3, <2>4, <2>5, <2>6, <2>7, GoesOnTyped
<1>10. CASE KeywordIsUnknown
  BY <1>1, <1>10, FailTyped DEF KeywordIsUnknown, BERT_ERRNO_INVALID
<1> QED
  BY <1>5, <1>6, <1>7, <1>8, <1>9, <1>10 DEF Complex

\* ... bert_decode_time does, ...
LEMMA TimeStepsTyped == TypeInv /\ Time => TypeInv'
<1> SUFFICES ASSUME TypeInv, Time PROVE TypeInv'
  OBVIOUS
<1>1. pc = "return" /\ stack # << >> /\ Top.fn = "time"
  BY DEF Time, TimeFails, TimeIsNoInteger, TimeGoesOn, TimeIsMade, Got, Returned
<1>2. /\ Top \in Frames /\ Top = stack[1] /\ Len(heap) \in Nat
      /\ ret.code \in Int /\ ret.data \in (1 .. Len(heap)) \union {Unset}
  BY <1>1, TopTyped
<1>3. heap \in Seq(Cell) /\ Sources(heap) /\ Fillable(heap) \subseteq Fillable(heap)
      /\ next_data \in Int /\ input \in Seq(Terms) /\ dropped \subseteq 1 .. Len(heap)
  BY DEF TypeInv
<1>4. BERT_ERRNO_INVALID \in Int /\ BERT_ERRNO_MALLOC \in Int
  BY DEF BERT_ERRNO_INVALID, BERT_ERRNO_MALLOC
<1>5. CASE TimeFails
  BY <1>1, <1>2, <1>5, FailTyped DEF TimeFails
<1>6. CASE TimeIsNoInteger
  BY <1>1, <1>4, <1>6, FailTyped DEF TimeIsNoInteger
<1>7. CASE TimeGoesOn
  <2> DEFINE a == IF Top.i = 0 THEN ret.data ELSE Top.first
             b == IF Top.i = 1 THEN ret.data ELSE Top.second
             f == Advanced(Top, Top.i + 1, a, b)
  <2>1. Top.i < 2 /\ pc' = "pull" /\ UNCHANGED <<heap, ret, next_data, input, dropped>>
        /\ stack' = [stack EXCEPT ![1].i = @ + 1,
                                  ![1].first = IF Top.i = 0 THEN ret.data ELSE @,
                                  ![1].second = IF Top.i = 1 THEN ret.data ELSE @]
    BY <1>7 DEF TimeGoesOn
  <2>2. Top.i \in Nat /\ Top.first \in Int /\ Top.second \in Int /\ ret.data \in Int
    BY <1>2, Values DEF Frames
  <2>3. stack' = [stack EXCEPT ![1] = f]
    BY <1>2, <2>1 DEF Advanced, Frames
  <2>4. f \in Frames /\ f.fn = "time"
    <3>1. a \in Int /\ b \in Int /\ Top.i + 1 \in 0 .. 2 /\ Top.i + 1 \in Nat
      BY <2>1, <2>2
    <3>2. Top.fn # "regex"
      BY <1>1
    <3> HIDE DEF a, b
    <3> QED
      BY <1>1, <1>2, <3>1, <3>2, FrameAdvanced
  <2> HIDE DEF f
  <2>5. FrameIn(Fillable(heap), f, pc' = "tail")
    BY <2>4 DEF FrameIn
  <2>6. /\ heap' \in Seq(Cell) /\ Len(heap') = Len(heap) /\ Sources(heap')
        /\ Fillable(heap) \subseteq Fillable(heap') /\ dropped' \subseteq 1 .. Len(heap)
    BY <1>3, <2>1
  <2> QED
    BY <1>1, <2>1, <2>3, <2>4, <2>5, <2>6, GoesOnTyped
<1>8. CASE TimeIsMade
  <2> DEFINE text == IF heap[ret.data].type = "int" THEN "integers" ELSE "garbage"
  <2>1. \/ ReleaseAndReturn(Append(heap, Term("time", text, << >>)), <<ret.data>> \o TimeHeld,
                            BERT_SUCCESS, NewId)
        \/ ReleaseAndReturn(heap, <<ret.data>> \o TimeHeld, BERT_ERRNO_MALLOC, Unset)
    BY <1>8 DEF TimeIsMade, With
  <2>2. text \in {"integers", "garbage"}
    OBVIOUS
  <2> HIDE DEF text
  <2>3. Term("time", text, << >>) \in Cell /\ Term("time", text, << >>).type # "regex"
    <3>1. << >> \in Seq(Int)
      OBVIOUS
    <3> QED
      BY <2>2, <3>1 DEF Term, Cell
  <2> QED
    BY <1>1, <1>3, <1>4, <2>1, <2>3, MadeTyped, FailTyped
<1> QED
  BY <1>5, <1>6, <1>7, <1>8 DEF Time

\* The pairs of a list are emptied, their keys and values move to the dict.
LEMMA DictMoved ==
  ASSUME NEW entries, heap \in Seq(Cell), entries \in Seq(Int),
         \A k \in DOMAIN entries : IsPair(entries[k])
  PROVE  /\ EntriesEmptied(entries) \in Seq(Cell) /\ Len(EntriesEmptied(entries)) = Len(heap)
         /\ \A p \in DOMAIN heap : EntriesEmptied(entries)[p].type = heap[p].type
         /\ \A p \in DOMAIN heap : p \notin Range(entries) => EntriesEmptied(entries)[p] = heap[p]
         /\ \A p \in Range(entries) : p \in DOMAIN heap /\ heap[p].type = "tuple"
                                      /\ EntriesEmptied(entries)[p].kids = <<Null, Null>>
         /\ KeysAndValues(entries) \in Seq(Int)
         /\ Len(KeysAndValues(entries)) = 2 * Len(entries)
         /\ \A k \in 1 .. 2 * Len(entries) :
              /\ (k + 1) \div 2 \in DOMAIN entries /\ 2 - (k % 2) \in 1 .. 2
              /\ KeysAndValues(entries)[k] = heap[entries[(k + 1) \div 2]].kids[2 - (k % 2)]
<1> DEFINE h == EntriesEmptied(entries)
           moved == KeysAndValues(entries)
           n == Len(entries)
<1>1. DOMAIN heap = 1 .. Len(heap) /\ Len(heap) \in Nat /\ n \in Nat /\ DOMAIN entries = 1 .. n
  OBVIOUS
<1>2. <<Null, Null>> \in Seq(Int)
  BY DEF Null
<1>3. ASSUME NEW p \in DOMAIN heap
      PROVE  /\ [heap[p] EXCEPT !.kids = <<Null, Null>>] \in Cell
             /\ [heap[p] EXCEPT !.kids = <<Null, Null>>].type = heap[p].type
             /\ [heap[p] EXCEPT !.kids = <<Null, Null>>].kids = <<Null, Null>>
  <2>1. heap[p] \in Cell
    BY <1>1
  <2> QED
    BY <1>2, <2>1 DEF Cell
<1>4. /\ DOMAIN h = 1 .. Len(heap) /\ h = [p \in 1 .. Len(heap) |-> h[p]]
      /\ \A p \in DOMAIN heap :
           h[p] = IF p \in Range(entries) THEN [heap[p] EXCEPT !.kids = <<Null, Null>>] ELSE heap[p]
  BY <1>1 DEF EntriesEmptied
<1>5. ASSUME NEW p \in Range(entries)
      PROVE  p \in DOMAIN heap /\ heap[p].type = "tuple"
  BY DEF Range, IsPair, Live
<1> HIDE DEF h
<1>6. \A p \in 1 .. Len(heap) : h[p] \in Cell
  BY <1>1, <1>3, <1>4
<1>7. h \in [1 .. Len(heap) -> Cell]
  BY <1>4, <1>6
<1>8. h \in Seq(Cell) /\ Len(h) = Len(heap)
  BY <1>1, <1>7
<1>9. ASSUME NEW k \in 1 .. 2 * n
      PROVE  /\ (k + 1) \div 2 \in 1 .. n /\ 2 - (k % 2) \in 1 .. 2
  BY <1>1
<1>10. moved = [k \in 1 .. 2 * n |-> heap[entries[(k + 1) \div 2]].kids[2 - (k % 2)]]
  BY DEF KeysAndValues
<1>11. ASSUME NEW p \in DOMAIN entries, NEW s \in 1 .. 2
       PROVE  heap[entries[p]].kids[s] \in Int
  <2>1. entries[p] \in 1 .. Len(heap) /\ Len(heap[entries[p]].kids) = 2
    BY <1>1 DEF IsPair, Live
  <2>2. heap[entries[p]].kids \in Seq(Int)
    BY <2>1, CellIs
  <2> QED
    BY <2>1, <2>2
<1> HIDE DEF moved
<1>12. \A k \in 1 .. 2 * n : moved[k] = heap[entries[(k + 1) \div 2]].kids[2 - (k % 2)]
  BY <1>10
<1>13. \A k \in 1 .. 2 * n : moved[k] \in Int
  BY <1>1, <1>9, <1>11, <1>12
<1>14. moved \in [1 .. 2 * n -> Int] /\ 2 * n \in Nat
  <2>1. moved = [k \in 1 .. 2 * n |-> moved[k]] /\ 2 * n \in Nat
    BY <1>1, <1>10, <1>12
  <2> QED
    BY <1>13, <2>1
<1>15. moved \in Seq(Int) /\ Len(moved) = 2 * n
  BY <1>14
<1> QED
  BY <1>1, <1>3, <1>4, <1>5, <1>8, <1>9, <1>12, <1>15 DEF h, moved

\* The first elements of a list of pointers.
LEMMA Prefix ==
  ASSUME NEW s \in Seq(Int), NEW n \in 0 .. Len(s)
  PROVE  /\ SubSeq(s, 1, n) \in Seq(Int) /\ Len(SubSeq(s, 1, n)) = n
         /\ DOMAIN SubSeq(s, 1, n) = 1 .. n /\ 1 .. n \subseteq DOMAIN s
         /\ \A k \in 1 .. n : SubSeq(s, 1, n)[k] = s[k]
         /\ Range(SubSeq(s, 1, n)) \subseteq Range(s)
<1> DEFINE e == SubSeq(s, 1, n)
<1>1. e \in Seq(Int) /\ Len(e) = n /\ \A k \in 1 .. n : e[k] = s[k]
  OBVIOUS
<1>2. 1 .. n \subseteq DOMAIN s
  OBVIOUS
<1> HIDE DEF e
<1>3. DOMAIN e = 1 .. n
  BY <1>1
<1>4. Range(e) \subseteq Range(s)
  BY <1>1, <1>2, <1>3 DEF Range
<1> QED
  BY <1>1, <1>2, <1>3, <1>4 DEF e

\* A dict on its way, whether complete or not, is a term among terms.
LEMMA DictOfTyped ==
  ASSUME TypeInv, ret.data # Unset, NEW taken \in 0 .. Len(Entries), NEW n \in 0 .. taken,
         \A k \in 1 .. taken : IsPair(Entries[k])
  PROVE  /\ DictOf(n, taken) \in Seq(Cell) /\ Sources(DictOf(n, taken))
         /\ Len(heap) <= Len(DictOf(n, taken)) /\ Fillable(heap) \subseteq Fillable(DictOf(n, taken))
         /\ NewId \in 1 .. Len(DictOf(n, taken))
<1> DEFINE e == SubSeq(Entries, 1, taken)
           f == SubSeq(Entries, 1, n)
           h == EntriesEmptied(e)
           cell == Term("dict", "", KeysAndValues(f))
<1>1. heap \in Seq(Cell) /\ Sources(heap) /\ Entries \in Seq(Int) /\ Len(heap) \in Nat
  BY PointerTyped DEF TypeInv, Entries
<1>2. /\ e \in Seq(Int) /\ DOMAIN e = 1 .. taken /\ \A k \in 1 .. taken : e[k] = Entries[k]
  BY <1>1, Prefix
<1>3. n \in 0 .. Len(Entries) /\ 1 .. n \subseteq 1 .. taken
  BY <1>1
<1>4. /\ f \in Seq(Int) /\ DOMAIN f = 1 .. n /\ \A k \in 1 .. n : f[k] = Entries[k]
  BY <1>1, <1>3, Prefix
<1> HIDE DEF e, f
<1>5. /\ \A k \in DOMAIN e : IsPair(e[k])
      /\ \A k \in DOMAIN f : IsPair(f[k])
  BY <1>2, <1>3, <1>4
<1>6. /\ h \in Seq(Cell) /\ Len(h) = Len(heap)
      /\ \A p \in DOMAIN heap : h[p].type = heap[p].type
      /\ \A p \in DOMAIN heap : p \notin Range(e) => h[p] = heap[p]
      /\ \A p \in Range(e) : p \in DOMAIN heap /\ heap[p].type = "tuple"
  BY <1>1, <1>2, <1>5, DictMoved
<1>7. cell \in Cell /\ cell.type # "regex"
  <2>1. KeysAndValues(f) \in Seq(Int)
    BY <1>1, <1>4, <1>5, DictMoved
  <2> QED
    BY <2>1 DEF Term, Cell
<1> HIDE DEF h, cell
<1>8. DOMAIN h = DOMAIN heap
  BY <1>1, <1>6
<1>9. Sources(h) /\ Fillable(heap) \subseteq Fillable(h)
  <2>1. \A p \in DOMAIN h : h[p].type = "regex" => h[p] = heap[p] /\ heap[p].type = "regex"
    BY <1>6, <1>8
  <2>2. Sources(h)
    BY <1>1, <1>8, <2>1 DEF Sources
  <2> QED
    BY <1>6, <1>8, <2>2 DEF Fillable
<1>10. /\ Append(h, cell) \in Seq(Cell) /\ Len(Append(h, cell)) = Len(heap) + 1
       /\ Sources(Append(h, cell)) /\ Fillable(h) \subseteq Fillable(Append(h, cell))
  BY <1>6, <1>7, <1>9, AppendTyped
<1>11. DictOf(n, taken) = Append(h, cell)
  BY DEF DictOf, h, cell, e, f
<1> QED
  BY <1>1, <1>9, <1>10, <1>11 DEF NewId

\* The first entry that is no pair has only pairs before it.
LEMMA FirstNoPairIs ==
  ASSUME Entries \in Seq(Int), FirstNoPair # 0
  PROVE  /\ FirstNoPair \in DOMAIN Entries /\ FirstNoPair - 1 \in 0 .. Len(Entries)
         /\ \A k \in 1 .. FirstNoPair - 1 : IsPair(Entries[k])
<1> DEFINE bad == FirstNoPair
           hits == {k \in 1 .. Len(Entries) : ~IsPair(Entries[k])}
<1>1. bad = IF hits # {} THEN Min(hits) ELSE 0
  BY DEF SelectInSeq, FirstNoPair
<1>2. Len(Entries) \in Nat /\ DOMAIN Entries = 1 .. Len(Entries) /\ hits \in SUBSET (1 .. Len(Entries))
  OBVIOUS
<1>3. \A k \in 1 .. Len(Entries) : k \notin hits => IsPair(Entries[k])
  OBVIOUS
<1> HIDE DEF hits, bad
<1>4. bad \in hits /\ \A k \in hits : bad <= k
  BY <1>1, <1>2, MinOfPositions DEF bad
<1>5. bad \in 1 .. Len(Entries)
  BY <1>2, <1>4
<1>6. ASSUME NEW k \in 1 .. bad - 1 PROVE IsPair(Entries[k])
  <2>1. k \in 1 .. Len(Entries) /\ ~(bad <= k)
    BY <1>2, <1>5
  <2> QED
    BY <1>3, <1>4, <2>1
<1> QED
  BY <1>2, <1>5, <1>6 DEF bad

\* ... bert_decode_dict does, ...
LEMMA DictStepsTyped == TypeInv /\ Dict => TypeInv'
<1> SUFFICES ASSUME TypeInv, Dict PROVE TypeInv'
  OBVIOUS
<1>1. pc = "return" /\ stack # << >> /\ ret.data # Unset
  BY DEF Dict, DictIsNoList, DictMallocFails, DictEntryIsNoPair, DictAppendFails, DictIsMade,
         Got, Returned
<1>2. BERT_ERRNO_INVALID \in Int /\ BERT_ERRNO_MALLOC \in Int /\ BERT_SUCCESS \in Int
  BY DEF BERT_ERRNO_INVALID, BERT_ERRNO_MALLOC, BERT_SUCCESS
<1>3. Entries \in Seq(Int) /\ Len(Entries) \in Nat /\ DOMAIN Entries = 1 .. Len(Entries)
  BY <1>1, PointerTyped DEF Entries
<1>4. CASE DictIsNoList
  BY <1>1, <1>2, <1>4, FailTyped DEF DictIsNoList
<1>5. CASE DictMallocFails
  BY <1>1, <1>2, <1>5, FailTyped DEF DictMallocFails
<1>6. ASSUME NEW taken \in 0 .. Len(Entries), NEW n \in 0 .. taken,
             \A k \in 1 .. taken : IsPair(Entries[k]),
             NEW roots, NEW code \in Int, NEW data \in {Unset, NewId},
             ReleaseAndReturn(DictOf(n, taken), roots, code, data)
      PROVE  TypeInv'
  <2>1. /\ DictOf(n, taken) \in Seq(Cell) /\ Sources(DictOf(n, taken))
        /\ Len(heap) <= Len(DictOf(n, taken)) /\ Fillable(heap) \subseteq Fillable(DictOf(n, taken))
        /\ NewId \in 1 .. Len(DictOf(n, taken))
    BY <1>1, <1>6, DictOfTyped
  <2>2. data \in (1 .. Len(DictOf(n, taken))) \union {Unset}
    BY <2>1
  <2> QED
    BY <1>1, <1>6, <2>1, <2>2, ReturnTyped
<1>7. CASE DictEntryIsNoPair
  <2> DEFINE bad == FirstNoPair
  <2>1. /\ bad # 0
        /\ \/ ReleaseAndReturn(DictOf(bad - 1, bad - 1), <<NewId, ret.data>>,
                               BERT_ERRNO_INVALID, Unset)
           \/ Crash
    BY <1>7 DEF DictEntryIsNoPair
  <2>2. /\ bad \in DOMAIN Entries /\ bad - 1 \in 0 .. Len(Entries)
        /\ \A k \in 1 .. bad - 1 : IsPair(Entries[k])
    BY <1>3, <2>1, FirstNoPairIs
  <2> HIDE DEF bad
  <2>3. bad - 1 \in 0 .. bad - 1
    BY <1>3, <2>2
  <2> QED
    BY <1>1, <1>2, <1>6, <2>1, <2>2, <2>3, CrashTyped
<1>8. CASE DictAppendFails
  <2>1. PICK n \in DOMAIN Entries :
          /\ \A k \in 1 .. n : IsPair(Entries[k])
          /\ LET pair == heap[Entries[n]].kids IN
             ReleaseAndReturn(DictOf(n - 1, n), <<pair[2], pair[1], NewId, ret.data>>,
                              BERT_ERRNO_MALLOC, Unset)
    BY <1>8 DEF DictAppendFails
  <2>2. n \in 0 .. Len(Entries) /\ n - 1 \in 0 .. n
    BY <1>3
  <2> QED
    BY <1>2, <1>6, <2>1, <2>2
<1>9. CASE DictIsMade
  <2>1. /\ \A k \in 1 .. Len(Entries) : IsPair(Entries[k])
        /\ ReleaseAndReturn(DictOf(Len(Entries), Len(Entries)), <<ret.data>>, BERT_SUCCESS, NewId)
    BY <1>3, <1>9 DEF DictIsMade
  <2>2. Len(Entries) \in 0 .. Len(Entries)
    BY <1>3
  <2> QED
    BY <1>2, <1>6, <2>1, <2>2
<1> QED
  BY <1>4, <1>5, <1>7, <1>8, <1>9 DEF Dict

\* ... and bert_decode_regex does.
LEMMA RegexStepsTyped == TypeInv /\ Regex => TypeInv'
<1> SUFFICES ASSUME TypeInv, Regex PROVE TypeInv'
  OBVIOUS
<1>1. pc = "return" /\ stack # << >> /\ Top.fn = "regex"
  BY DEF Regex, RegexSourceIsNoBin, RegexGoesOn, RegexOptionsFail, RegexOptionsAreInvalid,
         RegexIsMade, Got, Returned
<1>2. /\ Top \in Frames /\ Top = stack[1] /\ Len(heap) \in Nat
      /\ ret.code \in Int /\ ret.data \in (1 .. Len(heap)) \union {Unset}
  BY <1>1, TopTyped
<1>3. heap \in Seq(Cell) /\ Sources(heap) /\ Fillable(heap) \subseteq Fillable(heap)
      /\ next_data \in Int /\ input \in Seq(Terms) /\ dropped \subseteq 1 .. Len(heap)
  BY DEF TypeInv
<1>4. BERT_ERRNO_INVALID \in Int /\ BERT_ERRNO_MALLOC \in Int /\ BERT_SUCCESS \in Int
  BY DEF BERT_ERRNO_INVALID, BERT_ERRNO_MALLOC, BERT_SUCCESS
<1>5. CASE RegexSourceIsNoBin
  BY <1>1, <1>4, <1>5, FailTyped DEF RegexSourceIsNoBin
<1>6. CASE RegexGoesOn
  <2> DEFINE f == Advanced(Top, 1, ret.data, Top.second)
  <2>1. /\ stack' = [stack EXCEPT ![1].i = 1, ![1].first = ret.data] /\ pc' = "pull"
        /\ UNCHANGED <<heap, ret, next_data, input, dropped>>
    BY <1>6 DEF RegexGoesOn
  <2>2. Top.second \in Int /\ ret.data \in Int
    BY <1>2, Values DEF Frames
  <2>3. stack' = [stack EXCEPT ![1] = f]
    BY <1>2, <2>1 DEF Advanced, Frames
  <2>4. f \in Frames /\ f.fn = "regex"
    <3>1. Top.fn # "time" /\ 1 \in Nat /\ 1 \in 0 .. 1
      BY <1>1
    <3> QED
      BY <1>1, <1>2, <2>2, <3>1, FrameAdvanced
  <2> HIDE DEF f
  <2>5. FrameIn(Fillable(heap), f, pc' = "tail")
    BY <2>4 DEF FrameIn
  <2>6. /\ heap' \in Seq(Cell) /\ Len(heap') = Len(heap) /\ Sources(heap')
        /\ Fillable(heap) \subseteq Fillable(heap') /\ dropped' \subseteq 1 .. Len(heap)
    BY <1>3, <2>1
  <2> QED
    BY <1>1, <2>1, <2>3, <2>4, <2>5, <2>6, GoesOnTyped
<1>7. CASE RegexOptionsFail
  BY <1>1, <1>2, <1>7, FailTyped DEF RegexOptionsFail
<1>8. CASE RegexOptionsAreInvalid
  <2>1. ReleaseAndReturn(heap, <<ret.data, Top.first>>, BERT_ERRNO_INVALID, Unset) \/ Crash
    BY <1>8 DEF RegexOptionsAreInvalid
  <2> QED
    BY <1>1, <1>4, <2>1, FailTyped, CrashTyped
<1>9. CASE RegexIsMade
  <2> DEFINE text == Term("text", "", << >>)
             regex == Term("regex", "", <<NewId>>)
             more == Append(Append(heap, text), regex)
  <2>1. \/ ReleaseAndReturn(heap \o <<text, regex>>, <<ret.data, Top.first>>, BERT_SUCCESS, NewId + 1)
        \/ ReleaseAndReturn(heap, <<ret.data, Top.first>>, BERT_ERRNO_MALLOC, Unset)
    BY <1>9 DEF RegexIsMade
  <2>2. text \in Cell /\ text.type # "regex" /\ regex \in Cell
    <3>1. << >> \in Seq(Int) /\ <<NewId>> \in Seq(Int)
      BY <1>2 DEF NewId
    <3> QED
      BY <3>1 DEF Term, Cell
  <2>3. Range(regex.kids) \subseteq 1 .. Len(heap) + 1
    BY <1>2 DEF Term, NewId, Range
  <2> HIDE DEF text, regex
  <2>4. heap \o <<text, regex>> = more
    BY <1>3, <2>2
  <2>5. /\ Append(heap, text) \in Seq(Cell) /\ Len(Append(heap, text)) = Len(heap) + 1
        /\ Sources(Append(heap, text)) /\ Fillable(heap) \subseteq Fillable(Append(heap, text))
    BY <1>3, <2>2, AppendTyped
  <2>6. /\ more \in Seq(Cell) /\ Len(more) = (Len(heap) + 1) + 1
        /\ Sources(more) /\ Fillable(Append(heap, text)) \subseteq Fillable(more)
    BY <2>2, <2>3, <2>5, AppendTyped
  <2> HIDE DEF more
  <2>7. /\ Len(heap) <= Len(more) /\ NewId + 1 \in (1 .. Len(more)) \union {Unset}
        /\ Fillable(heap) \subseteq Fillable(more)
    BY <1>2, <2>5, <2>6 DEF NewId
  <2>8. CASE ReleaseAndReturn(more, <<ret.data, Top.first>>, BERT_SUCCESS, NewId + 1)
    BY <1>1, <1>4, <2>6, <2>7, <2>8, ReturnTyped
  <2>9. CASE ReleaseAndReturn(heap, <<ret.data, Top.first>>, BERT_ERRNO_MALLOC, Unset)
    BY <1>1, <1>4, <2>9, FailTyped
  <2> QED
    BY <2>1, <2>4, <2>8, <2>9
<1> QED
  BY <1>5, <1>6, <1>7, <1>8, <1>9 DEF Regex

\* Every step keeps the types.
LEMMA NextTypeInv == TypeInv /\ [Next]_vars => TypeInv'
<1> SUFFICES ASSUME TypeInv, [Next]_vars PROVE TypeInv'
  OBVIOUS
<1>1. CASE UNCHANGED vars
  BY <1>1 DEF TypeInv, vars, Top
<1> QED
  BY <1>1, ClientTyped, PullTyped, TupleStepsTyped, ListStepsTyped, ComplexStepsTyped,
     TimeStepsTyped, DictStepsTyped, RegexStepsTyped DEF Next, Decoding

\* TypeInv is an invariant of the decoder, whatever its constants.
LEMMA TypeInvariant == Spec => []TypeInv
BY InitTypeInv, NextTypeInv, PTL DEF Spec

\* Cells hold pointers, no tuple or list has made more pulls than it has elements, what is left of
\* the input are terms, and what was abandoned are cells: for any input, without a condition.
THEOREM TypeCorrect == Spec => []TypeOK
<1>1. TypeInv => TypeOK
  <2> SUFFICES ASSUME TypeInv PROVE TypeOK
    OBVIOUS
  <2>1. \A p \in DOMAIN heap : heap[p].kids \in Seq(Int)
    BY CellIs DEF TypeInv
  <2>2. \A k \in DOMAIN stack : stack[k].fn \in {"tuple", "list"} => stack[k].i <= stack[k].size
    <3>1. stack \in Seq(Frames) /\ \A k \in DOMAIN stack : FrameIn(Fillable(heap), stack[k], TRUE)
      BY DEF TypeInv, StackIn, FrameIn
    <3>2. \A k \in DOMAIN stack : stack[k].i \in Nat /\ stack[k].size \in Nat
      BY <3>1, FrameFields
    <3> QED
      BY <3>1, <3>2 DEF FrameIn
  <2> QED
    BY <2>1, <2>2 DEF TypeInv, TypeOK
<1> QED
  BY <1>1, TypeInvariant, PTL

(***************************************************************************)
(* Who holds what: the pointers of the stack, each to a term that no other *)
(* pointer leads to.                                                       *)
(***************************************************************************)

\* what the functions on a stack hold
OwnedOf(st) == FlattenSeq([k \in DOMAIN st |-> Held(st[k])])

\* Two sequences of pointers, joined: no pointer twice.
LEMMA DistinctJoined ==
  ASSUME NEW a \in Seq(Int), NEW b \in Seq(Int)
  PROVE  Distinct(a \o b) <=>
           Distinct(a) /\ Distinct(b) /\ \A q \in Range(a) : q \in Range(b) => q = Null
<1> DEFINE c == a \o b
           n == Len(a)
           m == Len(b)
<1>1. /\ n \in Nat /\ m \in Nat /\ DOMAIN a = 1 .. n /\ DOMAIN b = 1 .. m
      /\ DOMAIN c = 1 .. n + m
      /\ \A k \in 1 .. n : c[k] = a[k]
      /\ \A k \in 1 .. m : n + k \in DOMAIN c /\ c[n + k] = b[k]
  BY RangeOfJoined
<1> HIDE DEF c, n, m
<1>2. \A k \in 1 .. n : k \in DOMAIN c
  BY <1>1
<1>3. ASSUME Distinct(c)
      PROVE  Distinct(a) /\ Distinct(b) /\ \A q \in Range(a) : q \in Range(b) => q = Null
  <2>1. Distinct(a)
    BY <1>1, <1>2, <1>3 DEF Distinct
  <2>2. Distinct(b)
    <3> SUFFICES ASSUME NEW k \in 1 .. m, NEW l \in 1 .. m, b[k] = b[l], k # l PROVE b[k] = Null
      BY <1>1 DEF Distinct
    <3>1. n + k \in DOMAIN c /\ n + l \in DOMAIN c /\ c[n + k] = b[k] /\ c[n + l] = b[l]
      BY <1>1
    <3>2. n + k # n + l
      BY <1>1
    <3> QED
      BY <1>3, <3>1, <3>2 DEF Distinct
  <2>3. ASSUME NEW q \in Range(a), q \in Range(b) PROVE q = Null
    <3>1. PICK k \in 1 .. n : a[k] = q
      BY <1>1 DEF Range
    <3>2. PICK l \in 1 .. m : b[l] = q
      BY <1>1, <2>3 DEF Range
    <3>3. k \in DOMAIN c /\ n + l \in DOMAIN c /\ c[k] = q /\ c[n + l] = q
      BY <1>1, <1>2, <3>1, <3>2
    <3>4. k # n + l
      BY <1>1
    <3> QED
      BY <1>3, <3>3, <3>4 DEF Distinct
  <2> QED
    BY <2>1, <2>2, <2>3
<1>4. ASSUME Distinct(a), Distinct(b), \A q \in Range(a) : q \in Range(b) => q = Null
      PROVE  Distinct(c)
  <2> SUFFICES ASSUME NEW k \in DOMAIN c, NEW l \in DOMAIN c, c[k] = c[l], k # l
               PROVE  c[k] = Null
    BY DEF Distinct
  <2>1. ASSUME NEW i \in DOMAIN c
        PROVE  \/ i \in 1 .. n /\ c[i] = a[i] /\ c[i] \in Range(a)
               \/ i - n \in 1 .. m /\ c[i] = b[i - n] /\ c[i] \in Range(b)
    <3>1. CASE i <= n
      <4>1. i \in 1 .. n /\ c[i] = a[i]
        BY <1>1, <3>1
      <4> QED
        BY <4>1, <1>1 DEF Range
    <3>2. CASE ~(i <= n)
      <4>1. i - n \in 1 .. m /\ n + (i - n) = i
        BY <1>1, <3>2
      <4>2. c[i] = b[i - n]
        BY <4>1, <1>1
      <4> QED
        BY <4>1, <4>2, <1>1 DEF Range
    <3> QED
      BY <3>1, <3>2
  <2>2. CASE k \in 1 .. n /\ c[k] = a[k] /\ l \in 1 .. n /\ c[l] = a[l]
    BY <2>2, <1>1, <1>4 DEF Distinct
  <2>3. CASE k - n \in 1 .. m /\ c[k] = b[k - n] /\ l - n \in 1 .. m /\ c[l] = b[l - n]
    <3>1. k - n # l - n
      BY <1>1
    <3> QED
      BY <2>3, <3>1, <1>1, <1>4 DEF Distinct
  <2> QED
    BY <2>1, <2>2, <2>3, <1>4
<1> QED
  BY <1>3, <1>4 DEF c

\* What a frame holds, by its function.
LEMMA HeldIs ==
  ASSUME NEW f \in Frames
  PROVE  /\ Held(f) \in Seq(Int)
         /\ f.fn \in {"tuple", "list"} => Held(f) = <<f.obj>>
         /\ f.fn \in {"complex", "dict"} => Held(f) = << >>
         /\ f.fn \in {"time", "regex"} /\ f.i = 0 => Held(f) = << >>
         /\ f.fn \in {"time", "regex"} /\ f.i = 1 => Held(f) = <<f.first>>
         /\ f.fn = "time" /\ f.i = 2 => Held(f) = <<f.first, f.second>>
<1>1. /\ f.fn \in {"tuple", "list", "complex", "time", "dict", "regex"}
      /\ f.obj \in Int /\ f.first \in Int /\ f.second \in Int
      /\ f.fn = "time" => f.i \in 0 .. 2
      /\ f.fn = "regex" => f.i \in 0 .. 1
  BY DEF Frames
<1>2. ASSUME NEW a \in Int, NEW b \in Int
      PROVE  /\ SubSeq(<<a, b>>, 1, 0) = << >> /\ SubSeq(<<a, b>>, 1, 1) = <<a>>
             /\ SubSeq(<<a, b>>, 1, 2) = <<a, b>>
             /\ SubSeq(<<a>>, 1, 0) = << >> /\ SubSeq(<<a>>, 1, 1) = <<a>>
  <2>1. /\ <<a, b>> \in Seq(Int) /\ Len(<<a, b>>) = 2 /\ <<a, b>>[1] = a
        /\ <<a>> \in Seq(Int) /\ Len(<<a>>) = 1
    OBVIOUS
  <2>2. SubSeq(<<a, b>>, 1, 0) = << >> /\ SubSeq(<<a>>, 1, 0) = << >>
        /\ SubSeq(<<a, b>>, 2, 1) = << >>
    BY SubSeqEmpty
  <2>3. SubSeq(<<a, b>>, 1, 2) = <<a, b>> /\ SubSeq(<<a>>, 1, 1) = <<a>>
    <3>1. SubSeq(<<a, b>>, 1, Len(<<a, b>>)) = <<a, b>> /\ SubSeq(<<a>>, 1, Len(<<a>>)) = <<a>>
      BY <2>1, SubSeqFull, Zenon
    <3> QED
      BY <2>1, <3>1, Zenon
  <2>4. SubSeq(<<a, b>>, 1, 1) = <<a>>
    <3>1. 1 \in 1 .. Len(<<a, b>>) /\ 1 \in 1 .. Len(<<a, b>>) /\ 1 + 1 = 2
      BY <2>1
    <3>2. SubSeq(<<a, b>>, 1, 1) = <<<<a, b>>[1]>> \o SubSeq(<<a, b>>, 1 + 1, 1)
      BY <2>1, <3>1, SubSeqRecursiveFirst, Zenon
    <3>3. SubSeq(<<a, b>>, 1, 1) = <<a>> \o << >>
      BY <2>1, <2>2, <3>1, <3>2, Zenon
    <3>4. <<a>> \o << >> = <<a>>
      OBVIOUS
    <3> QED
      BY <3>3, <3>4, Zenon
  <2> QED
    BY <2>2, <2>3, <2>4
<1>3. CASE f.fn \in {"tuple", "list"}
  BY <1>1, <1>3 DEF Held
<1>4. CASE f.fn \in {"complex", "dict"}
  <2>1. Held(f) = << >>
    BY <1>4 DEF Held
  <2> QED
    BY <2>1, <1>4
<1>5. CASE f.fn = "time"
  <2>1. Held(f) = SubSeq(<<f.first, f.second>>, 1, f.i)
    BY <1>5 DEF Held
  <2>2. f.i = 0 \/ f.i = 1 \/ f.i = 2
    BY <1>1, <1>5
  <2>3. << >> \in Seq(Int) /\ <<f.first>> \in Seq(Int) /\ <<f.first, f.second>> \in Seq(Int)
    BY <1>1
  <2> QED
    BY <1>1, <1>2, <1>5, <2>1, <2>2, <2>3
<1>6. CASE f.fn = "regex"
  <2>1. Held(f) = SubSeq(<<f.first>>, 1, f.i)
    BY <1>6 DEF Held
  <2>2. f.i = 0 \/ f.i = 1
    BY <1>1, <1>6
  <2>3. << >> \in Seq(Int) /\ <<f.first>> \in Seq(Int)
    BY <1>1
  <2> QED
    BY <1>1, <1>2, <1>6, <2>1, <2>2, <2>3
<1> QED
  BY <1>1, <1>3, <1>4, <1>5, <1>6

\* The pointers the frames hold, the top first.
LEMMA OwnedFirst ==
  ASSUME NEW st \in Seq(Frames), NEW f \in Frames
  PROVE  /\ OwnedOf(st) \in Seq(Int)
         /\ OwnedOf(<<f>> \o st) = Held(f) \o OwnedOf(st)
         /\ \A k \in DOMAIN st : Range(Held(st[k])) \subseteq Range(OwnedOf(st))
<1> DEFINE n == Len(st)
           seqs == [k \in DOMAIN st |-> Held(st[k])]
           new == <<f>> \o st
           more == [k \in DOMAIN new |-> Held(new[k])]
<1>1. n \in Nat /\ DOMAIN st = 1 .. n /\ \A k \in 1 .. n : st[k] \in Frames
  OBVIOUS
<1>2. /\ DOMAIN new = 1 .. n + 1 /\ new[1] = f
      /\ \A k \in 1 .. n : k + 1 \in 1 .. n + 1 /\ new[k + 1] = st[k]
      /\ \A k \in 1 .. n + 1 : new[k] \in Frames
  <2>1. new \in Seq(Frames) /\ Len(new) = n + 1
    OBVIOUS
  <2> QED
    BY <2>1
<1> HIDE DEF new, n
<1>3. seqs \in [1 .. n -> Seq(Int)]
  BY <1>1, HeldIs
<1>4. more \in [1 .. n + 1 -> Seq(Int)]
  BY <1>2, HeldIs
<1>5. more[1] = Held(f)
  BY <1>1, <1>2
<1>6. \A k \in 1 .. n : more[k + 1] = seqs[k]
  BY <1>1, <1>2
<1>7. \A k \in 1 .. n : seqs[k] = Held(st[k])
  BY <1>1
<1> HIDE DEF seqs, more
<1>8. FlattenSeq(seqs) \in Seq(Int) /\ FlattenSeq(more) = more[1] \o FlattenSeq(seqs)
  <2>1. n \in Nat
    BY <1>1
  <2> QED
    BY <2>1, <1>3, <1>4, <1>6, FlattenFirst
<1>9. \A k \in 1 .. n : Range(seqs[k]) \subseteq Range(FlattenSeq(seqs))
  BY <1>1, <1>3, FlattenHolds
<1> QED
  BY <1>1, <1>5, <1>7, <1>8, <1>9 DEF OwnedOf, seqs, more, new

\* the tuple or the list that a frame fills, as far as it has got
FrameOK(hp, f) ==
  /\ f.fn = "tuple" => /\ hp[f.obj].type = "tuple" /\ Len(hp[f.obj].kids) = f.size /\ f.i < f.size
                       /\ \A k \in 1 .. f.size : hp[f.obj].kids[k] = Null <=> k > f.i
  /\ f.fn = "list" => hp[f.obj].type = "list"

\* each pointer that a frame of the stack holds is to a term of its own that no term holds
StackOK(hp, st) ==
  /\ st \in Seq(Frames)
  /\ \A k \in DOMAIN st : FrameOK(hp, st[k])
  /\ Distinct(OwnedOf(st))
  /\ \A q \in Range(OwnedOf(st)) : Free(hp, q)

\* the tuples that are being filled: only those have empty places
Open(st) == {st[k].obj : k \in {j \in DOMAIN st : st[j].fn = "tuple"}}
Gaps(hp) == {r \in DOMAIN hp : \E k \in DOMAIN hp[r].kids : hp[r].kids[k] = Null}

\* what the frame on top, or one to be pushed, adds to the stack below
TopOK(hp, f, st) ==
  /\ FrameOK(hp, f) /\ Distinct(Held(f))
  /\ \A q \in Range(Held(f)) : Free(hp, q) /\ q \notin Range(OwnedOf(st))

\* No frames hold nothing.
LEMMA StackEmpty ==
  ASSUME NEW hp
  PROVE  /\ OwnedOf(<< >>) = << >> /\ Range(OwnedOf(<< >>)) = {} /\ Open(<< >>) = {}
         /\ StackOK(hp, << >>)
<1>1. DOMAIN << >> = {} /\ << >> \in Seq(Frames)
  OBVIOUS
<1>2. [k \in DOMAIN << >> |-> Held(<< >>[k])] = << >>
  OBVIOUS
<1>3. OwnedOf(<< >>) = << >>
  BY <1>2, FlattenEmpty DEF OwnedOf
<1>4. Range(<< >>) = {}
  BY <1>1 DEF Range
<1>5. Distinct(<< >>)
  BY <1>1 DEF Distinct
<1>6. Open(<< >>) = {}
  BY <1>1 DEF Open
<1>7. \A k \in DOMAIN << >> : FrameOK(hp, << >>[k])
  BY <1>1
<1> QED
  BY <1>1, <1>3, <1>4, <1>5, <1>6, <1>7 DEF StackOK

\* A frame is pushed on the stack, or taken from it.
LEMMA StackPushed ==
  ASSUME NEW hp, IsHeap(hp), NEW f \in Frames, NEW st \in Seq(Frames)
  PROVE  /\ StackOK(hp, <<f>> \o st) <=> StackOK(hp, st) /\ TopOK(hp, f, st)
         /\ Range(OwnedOf(<<f>> \o st)) = Range(Held(f)) \union Range(OwnedOf(st))
         /\ Open(<<f>> \o st) = Open(st) \union (IF f.fn = "tuple" THEN {f.obj} ELSE {})
<1> DEFINE new == <<f>> \o st
<1>1. /\ new \in Seq(Frames) /\ DOMAIN new = 1 .. Len(st) + 1 /\ new[1] = f
      /\ \A k \in 2 .. Len(st) + 1 : k - 1 \in DOMAIN st /\ new[k] = st[k - 1]
      /\ \A k \in DOMAIN st : k + 1 \in DOMAIN new /\ new[k + 1] = st[k]
      /\ Len(st) \in Nat /\ 1 \in DOMAIN new
  OBVIOUS
<1>2. Held(f) \in Seq(Int) /\ OwnedOf(st) \in Seq(Int) /\ OwnedOf(new) = Held(f) \o OwnedOf(st)
  BY HeldIs, OwnedFirst
<1> HIDE DEF new
<1>3. \A k \in DOMAIN new : k = 1 \/ k \in 2 .. Len(st) + 1
  BY <1>1
<1>4. Range(OwnedOf(new)) = Range(Held(f)) \union Range(OwnedOf(st))
  BY <1>2, RangeOfJoined
<1>5. Distinct(OwnedOf(new)) <=> /\ Distinct(Held(f)) /\ Distinct(OwnedOf(st))
                                 /\ \A q \in Range(Held(f)) : q \in Range(OwnedOf(st)) => q = Null
  BY <1>2, DistinctJoined
<1>6. \A q : Free(hp, q) => q # Null
  BY DEF Free, Live, IsHeap, Null
<1>7. (\A k \in DOMAIN new : FrameOK(hp, new[k]))
        <=> FrameOK(hp, f) /\ \A k \in DOMAIN st : FrameOK(hp, st[k])
  <2>1. ASSUME \A k \in DOMAIN new : FrameOK(hp, new[k])
        PROVE  FrameOK(hp, f) /\ \A k \in DOMAIN st : FrameOK(hp, st[k])
    BY <1>1, <2>1
  <2>2. ASSUME FrameOK(hp, f), \A k \in DOMAIN st : FrameOK(hp, st[k]), NEW k \in DOMAIN new
        PROVE  FrameOK(hp, new[k])
    BY <1>1, <1>3, <2>2
  <2> QED
    BY <2>1, <2>2
<1>8. StackOK(hp, new) <=> StackOK(hp, st) /\ TopOK(hp, f, st)
  BY <1>1, <1>4, <1>5, <1>6, <1>7 DEF StackOK, TopOK
<1>9. Open(new) = Open(st) \union (IF f.fn = "tuple" THEN {f.obj} ELSE {})
  <2>1. ASSUME NEW k \in DOMAIN new, new[k].fn = "tuple"
        PROVE  new[k].obj \in Open(st) \union (IF f.fn = "tuple" THEN {f.obj} ELSE {})
    BY <1>1, <1>3, <2>1 DEF Open
  <2>2. ASSUME NEW k \in DOMAIN st, st[k].fn = "tuple" PROVE st[k].obj \in Open(new)
    <3>1. k + 1 \in DOMAIN new /\ new[k + 1] = st[k]
      BY <1>1
    <3> QED
      BY <2>2, <3>1 DEF Open
  <2>3. f.fn = "tuple" => f.obj \in Open(new)
    BY <1>1 DEF Open
  <2> QED
    BY <2>1, <2>2, <2>3 DEF Open
<1> QED
  BY <1>4, <1>8, <1>9 DEF new

\* A stack with a top.
LEMMA StackPopped ==
  ASSUME NEW hp, IsHeap(hp), NEW st, st # << >>, StackOK(hp, st)
  PROVE  /\ StackOK(hp, Tail(st)) /\ TopOK(hp, Head(st), Tail(st))
         /\ Range(OwnedOf(st)) = Range(Held(Head(st))) \union Range(OwnedOf(Tail(st)))
         /\ Open(st) = Open(Tail(st)) \union (IF Head(st).fn = "tuple" THEN {Head(st).obj} ELSE {})
<1>1. st \in Seq(Frames)
  BY DEF StackOK
<1>2. Head(st) \in Frames /\ Tail(st) \in Seq(Frames) /\ st = <<Head(st)>> \o Tail(st)
  BY <1>1
<1> QED
  BY <1>2, StackPushed

\* The heap changes where no frame looks.
LEMMA StackKept ==
  ASSUME NEW hp, NEW h, NEW st, StackOK(hp, st),
         \A q \in Range(OwnedOf(st)) : Free(h, q) /\ h[q] = hp[q]
  PROVE  StackOK(h, st)
<1>1. ASSUME NEW k \in DOMAIN st
      PROVE  st[k] \in Frames /\ Range(Held(st[k])) \subseteq Range(OwnedOf(st))
  <2>1. st \in Seq(Frames) /\ st[k] \in Frames
    BY DEF StackOK
  <2> QED
    BY <2>1, OwnedFirst
<1>2. ASSUME NEW k \in DOMAIN st PROVE FrameOK(h, st[k])
  <2>1. FrameOK(hp, st[k]) /\ st[k] \in Frames
    BY <1>1 DEF StackOK
  <2>2. ASSUME st[k].fn \in {"tuple", "list"} PROVE h[st[k].obj] = hp[st[k].obj]
    <3>1. Held(st[k]) = <<st[k].obj>>
      BY <2>1, <2>2, HeldIs
    <3>2. st[k].obj \in Range(Held(st[k]))
      BY <3>1 DEF Range
    <3> QED
      BY <1>1, <3>2
  <2> QED
    BY <2>1, <2>2 DEF FrameOK
<1> QED
  BY <1>2 DEF StackOK

\* The tuples that are being filled are held by their frames.
LEMMA OpenOwned ==
  ASSUME NEW hp, NEW st, StackOK(hp, st), NEW q \in Open(st)
  PROVE  q \in Range(OwnedOf(st)) /\ Free(hp, q) /\ hp[q].type = "tuple"
<1>1. PICK k \in DOMAIN st : st[k].fn = "tuple" /\ st[k].obj = q
  BY DEF Open
<1>2. st \in Seq(Frames) /\ st[k] \in Frames
  BY DEF StackOK
<1>3. Range(Held(st[k])) \subseteq Range(OwnedOf(st))
  BY <1>2, OwnedFirst
<1>4. Held(st[k]) = <<q>>
  BY <1>1, <1>2, HeldIs
<1>5. q \in Range(OwnedOf(st))
  BY <1>3, <1>4 DEF Range
<1> QED
  BY <1>1, <1>5 DEF StackOK, FrameOK

(***************************************************************************)
(* Destroying what nobody holds: the error paths, which destroy what their *)
(* function holds, while the callers go on holding theirs.                 *)
(***************************************************************************)

\* the stack and its heap: only tuples being filled have empty places
HeapOK(hp, st) ==
  /\ hp \in Seq(Cell) /\ Sound(hp) /\ StackOK(hp, st) /\ Gaps(hp) \subseteq Open(st)

\* pointers of their own, held neither by the stack nor by a term: what may be destroyed
Loose(hp, st, roots) ==
  /\ roots \in Seq(Int) /\ Distinct(roots)
  /\ \A q \in Range(roots) : q # Null => Free(hp, q) /\ q \notin Range(OwnedOf(st))

\* Cells are cells.
LEMMA CellsOfDecode == Cells(Cell)
BY Values DEF Cells, Cell

\* A sequence of cells is a heap.
LEMMA CellsAreHeap == ASSUME NEW hp \in Seq(Cell) PROVE IsHeap(hp)
<1>1. \A p \in 1 .. Len(hp) : hp[p].kids \in Seq(Int)
  BY CellIs
<1> QED
  BY <1>1 DEF IsHeap

\* Loose pointers can be destroyed, with the empty places of what they reach; the stack keeps
\* what it holds.
LEMMA Releases ==
  ASSUME NEW hp \in Seq(Cell), Sound(hp), NEW st, StackOK(hp, st), NEW roots, Loose(hp, st, roots),
         Gaps(hp) \subseteq Open(st) \union Reach(hp, Range(roots))
  PROVE  /\ Destroyable(hp, roots)
         /\ HeapOK(Destroyed(hp, roots), st)
         /\ \A q : Free(hp, q) /\ q \notin Range(roots) => Free(Destroyed(hp, roots), q)
         /\ \A q : Free(hp, q) /\ q \notin Range(roots) => q \notin Reach(hp, Range(roots))
<1> DEFINE h == Destroyed(hp, roots)
           met == Reach(hp, Range(roots))
<1>1. IsHeap(hp) /\ roots \in Seq(Int) /\ Distinct(roots) /\ AllFree(hp, Range(roots))
  BY CellsAreHeap DEF Loose, AllFree
<1>2. Destroyable(hp, roots)
  BY <1>1, RootsDestroyable
<1>3. /\ h \in Seq(Cell) /\ DOMAIN h = DOMAIN hp
      /\ \A p \in DOMAIN hp : h[p] = IF p \in met THEN Freed ELSE hp[p]
  BY Values, DestroyedIs
<1>4. Sound(h) /\ \A q : Free(hp, q) /\ q \notin Range(roots) => Free(h, q)
  BY Values, <1>1, DestroyLeavesSound
<1> HIDE DEF h, met
<1>5. Freed.type = "freed" /\ DOMAIN Freed.kids = {}
  <2>1. Freed.kids = << >> /\ Freed.type = "freed"
    BY DEF Freed
  <2>2. DOMAIN << >> = {}
    OBVIOUS
  <2> QED
    BY <2>1, <2>2
<1>6. ASSUME NEW q, Free(hp, q), q \notin Range(roots) PROVE q \notin met /\ h[q] = hp[q]
  <2>1. Free(h, q) /\ q \in DOMAIN hp
    BY <1>4, <1>6 DEF Free, Live
  <2> QED
    BY <2>1, <1>3, <1>5 DEF Free, Live
<1>7. \A q \in Range(OwnedOf(st)) : Free(h, q) /\ h[q] = hp[q]
  <2> SUFFICES ASSUME NEW q \in Range(OwnedOf(st)) PROVE Free(h, q) /\ h[q] = hp[q]
    OBVIOUS
  <2>1. Free(hp, q)
    BY DEF StackOK
  <2>2. q # Null
    BY <1>1, <2>1 DEF Free, Live, IsHeap, Null
  <2>3. q \notin Range(roots)
    BY <2>2 DEF Loose
  <2> QED
    BY <2>1, <2>3, <1>4, <1>6
<1>8. StackOK(h, st)
  BY <1>7, StackKept
<1>9. Gaps(h) \subseteq Open(st)
  <2> SUFFICES ASSUME NEW r \in Gaps(h) PROVE r \in Open(st)
    OBVIOUS
  <2>1. r \notin met /\ r \in Gaps(hp)
    BY <1>3, <1>5 DEF Gaps
  <2> QED
    BY <2>1 DEF met
<1> QED
  BY <1>2, <1>3, <1>4, <1>6, <1>8, <1>9 DEF HeapOK, h, met

\* A new term, filled with loose ones.
LEMMA AppendKeeps ==
  ASSUME NEW hp \in Seq(Cell), Sound(hp), NEW st, StackOK(hp, st),
         NEW cell \in Cell, cell.type # "freed", Loose(hp, st, cell.kids)
  PROVE  LET h == Append(hp, cell)
             n == Len(hp) + 1
         IN  /\ h \in Seq(Cell) /\ DOMAIN h = 1 .. n /\ h[n] = cell
             /\ \A p \in DOMAIN hp : p \in DOMAIN h /\ h[p] = hp[p]
             /\ Sound(h) /\ StackOK(h, st)
             /\ Free(h, n) /\ n \notin Range(OwnedOf(st)) /\ ~Free(hp, n) /\ n # Null
             /\ \A q : Free(hp, q) /\ q \notin Range(cell.kids) => Free(h, q)
             /\ Gaps(h) \subseteq Gaps(hp) \union {n}
             /\ Null \notin Range(cell.kids) => Gaps(h) \subseteq Gaps(hp)
<1> DEFINE h == Append(hp, cell)
           n == Len(hp) + 1
<1>1. IsHeap(hp) /\ cell.kids \in Seq(Int) /\ Distinct(cell.kids) /\ AllFree(hp, Range(cell.kids))
  BY CellsAreHeap DEF Loose, AllFree
<1>2. /\ h \in Seq(Cell) /\ Len(h) = n /\ h[n] = cell
      /\ \A p \in DOMAIN hp : p \in DOMAIN h /\ h[p] = hp[p]
      /\ Sound(h) /\ Free(h, n)
      /\ \A q : Free(hp, q) /\ q \notin Range(cell.kids) => Free(h, q)
  BY <1>1, AppendKeepsSound
<1>3. DOMAIN h = 1 .. n /\ DOMAIN hp = 1 .. Len(hp) /\ Len(hp) \in Nat /\ n \notin DOMAIN hp
      /\ n # Null
  BY <1>2 DEF Null
<1> HIDE DEF h, n
<1>4. ~Free(hp, n)
  BY <1>3 DEF Free, Live
<1>5. ASSUME NEW q \in Range(OwnedOf(st)) PROVE Free(h, q) /\ h[q] = hp[q] /\ q # n
  <2>1. Free(hp, q) /\ q # Null
    BY <1>1 DEF StackOK, Free, Live, IsHeap, Null
  <2>2. q \notin Range(cell.kids)
    BY <2>1 DEF Loose
  <2>3. q \in DOMAIN hp
    BY <2>1 DEF Free, Live
  <2> QED
    BY <2>1, <2>2, <2>3, <1>2, <1>4
<1>6. StackOK(h, st)
  BY <1>5, StackKept
<1>7. n \notin Range(OwnedOf(st))
  BY <1>5
<1>8. \A p \in DOMAIN h : p \in DOMAIN hp \/ p = n
  <2>1. n = Len(hp) + 1
    BY DEF n
  <2> QED
    BY <2>1, <1>3
<1>9. Gaps(h) \subseteq Gaps(hp) \union {n}
  BY <1>2, <1>8 DEF Gaps
<1>10. ASSUME Null \notin Range(cell.kids) PROVE Gaps(h) \subseteq Gaps(hp)
  BY <1>2, <1>8, <1>10 DEF Gaps, Range
<1> QED
  BY <1>2, <1>3, <1>4, <1>6, <1>7, <1>9, <1>10 DEF h, n

\* Loose pointers are still loose in a heap with a new term that does not hold them.
LEMMA StillLoose ==
  ASSUME NEW hp, NEW h, NEW st, NEW roots, Loose(hp, st, roots),
         \A q \in Range(roots) : Free(hp, q) => Free(h, q)
  PROVE  Loose(h, st, roots)
BY DEF Loose

\* One, two and three loose pointers.
LEMMA LooseOne ==
  ASSUME NEW hp, NEW st, NEW a \in Int, a # Null => Free(hp, a) /\ a \notin Range(OwnedOf(st))
  PROVE  Loose(hp, st, <<a>>) /\ Range(<<a>>) = {a}
<1>1. <<a>> \in Seq(Int) /\ DOMAIN <<a>> = {1} /\ <<a>>[1] = a
  OBVIOUS
<1>2. Range(<<a>>) = {a}
  BY <1>1 DEF Range
<1>3. Distinct(<<a>>)
  BY <1>1 DEF Distinct
<1> QED
  BY <1>1, <1>2, <1>3 DEF Loose

\* Two pointers are loose, ...
LEMMA LooseTwo ==
  ASSUME NEW hp, NEW st, NEW a \in Int, NEW b \in Int, a = b => a = Null,
         a # Null => Free(hp, a) /\ a \notin Range(OwnedOf(st)),
         b # Null => Free(hp, b) /\ b \notin Range(OwnedOf(st))
  PROVE  Loose(hp, st, <<a, b>>) /\ Range(<<a, b>>) = {a, b}
<1>1. <<a, b>> \in Seq(Int) /\ DOMAIN <<a, b>> = {1, 2} /\ <<a, b>>[1] = a /\ <<a, b>>[2] = b
  OBVIOUS
<1>2. Range(<<a, b>>) = {a, b}
  BY <1>1 DEF Range
<1>3. Distinct(<<a, b>>)
  BY <1>1 DEF Distinct
<1> QED
  BY <1>1, <1>2, <1>3 DEF Loose

\* ... or three, ...
LEMMA LooseThree ==
  ASSUME NEW hp, NEW st, NEW a \in Int, NEW b \in Int, NEW c \in Int,
         a = b => a = Null, a = c => a = Null, b = c => b = Null,
         a # Null => Free(hp, a) /\ a \notin Range(OwnedOf(st)),
         b # Null => Free(hp, b) /\ b \notin Range(OwnedOf(st)),
         c # Null => Free(hp, c) /\ c \notin Range(OwnedOf(st))
  PROVE  Loose(hp, st, <<a, b, c>>) /\ Range(<<a, b, c>>) = {a, b, c}
<1>1. /\ <<a, b, c>> \in Seq(Int) /\ DOMAIN <<a, b, c>> = {1, 2, 3}
      /\ <<a, b, c>>[1] = a /\ <<a, b, c>>[2] = b /\ <<a, b, c>>[3] = c
  OBVIOUS
<1>2. Range(<<a, b, c>>) = {a, b, c}
  BY <1>1 DEF Range
<1>3. Distinct(<<a, b, c>>)
  BY <1>1 DEF Distinct
<1> QED
  BY <1>1, <1>2, <1>3 DEF Loose

\* ... or four, ...
LEMMA LooseFour ==
  ASSUME NEW hp, NEW st, NEW a \in Int, NEW b \in Int, NEW c \in Int, NEW d \in Int,
         a # b, a # c, a # d, b # c, b # d, c # d,
         Free(hp, a) /\ a \notin Range(OwnedOf(st)), Free(hp, b) /\ b \notin Range(OwnedOf(st)),
         Free(hp, c) /\ c \notin Range(OwnedOf(st)), Free(hp, d) /\ d \notin Range(OwnedOf(st))
  PROVE  Loose(hp, st, <<a, b, c, d>>) /\ Range(<<a, b, c, d>>) = {a, b, c, d}
<1>1. /\ <<a, b, c, d>> \in Seq(Int) /\ DOMAIN <<a, b, c, d>> = {1, 2, 3, 4}
      /\ <<a, b, c, d>>[1] = a /\ <<a, b, c, d>>[2] = b
      /\ <<a, b, c, d>>[3] = c /\ <<a, b, c, d>>[4] = d
  OBVIOUS
<1>2. Range(<<a, b, c, d>>) = {a, b, c, d}
  BY <1>1 DEF Range
<1>3. Distinct(<<a, b, c, d>>)
  BY <1>1 DEF Distinct
<1> QED
  BY <1>1, <1>2, <1>3 DEF Loose

\* ... or none.
LEMMA LooseNone == ASSUME NEW hp, NEW st PROVE Loose(hp, st, << >>) /\ Range(<< >>) = {}
<1>1. << >> \in Seq(Int) /\ DOMAIN << >> = {}
  OBVIOUS
<1> QED
  BY <1>1 DEF Loose, Distinct, Range

(***************************************************************************)
(* The invariant.  OneOwner alone is not inductive: a step has to know     *)
(* that every pointer stored in a term or held by a function leads to a    *)
(* live term of its own, and that the only empty places are in tuples      *)
(* still being filled.                                                     *)
(***************************************************************************)

\* what a pull returned: a term that nobody else holds, or nothing
Answered(hp, st, r) ==
  IF r.code = 1 THEN Free(hp, r.data) /\ r.data \notin Range(OwnedOf(st))
  ELSE r.data = Unset /\ (st # << >> => r.code # 0)

\* between calls nothing is held, and what a pull returned is nobody else's
DInv ==
  /\ HeapOK(heap, stack)
  /\ pc # "fault"
  /\ pc \in {"client", "stopped"} => stack = << >>
  /\ pc = "return" => Answered(heap, stack, ret)

\* At first there is nothing, which is well held.
LEMMA InitDInv == Init => DInv
<1> SUFFICES ASSUME Init PROVE DInv
  OBVIOUS
<1>1. heap \in Seq(Cell) /\ heap = << >> /\ stack = << >> /\ DOMAIN heap = {}
  <2>1. << >> \in Seq(Cell) /\ DOMAIN << >> = {}
    OBVIOUS
  <2> QED
    BY <2>1 DEF Init
<1>2. Sound(heap) /\ Gaps(heap) = {}
  BY <1>1 DEF Sound, Gaps
<1>3. StackOK(heap, stack)
  BY <1>1, StackEmpty
<1> QED
  BY <1>1, <1>2, <1>3 DEF Init, DInv, HeapOK

\* What the top of the stack holds, and what a pull has returned to it.
LEMMA TopHolds ==
  ASSUME TypeInv, DInv, stack # << >>
  PROVE  /\ heap \in Seq(Cell) /\ IsHeap(heap) /\ Sound(heap)
         /\ Top \in Frames /\ Below \in Seq(Frames) /\ stack = <<Top>> \o Below
         /\ StackOK(heap, Below) /\ TopOK(heap, Top, Below)
         /\ Range(OwnedOf(stack)) = Range(Held(Top)) \union Range(OwnedOf(Below))
         /\ Gaps(heap) \subseteq Open(Below) \union (IF Top.fn = "tuple" THEN {Top.obj} ELSE {})
<1>1. heap \in Seq(Cell) /\ IsHeap(heap) /\ Sound(heap) /\ StackOK(heap, stack)
      /\ Gaps(heap) \subseteq Open(stack)
  BY CellsAreHeap DEF DInv, HeapOK
<1>2. Top \in Frames /\ Below \in Seq(Frames)
  BY TopTyped
<1>3. stack = <<Top>> \o Below
  BY DEF Top, Below, TypeInv, StackIn
<1> QED
  BY <1>1, <1>2, <1>3, StackPopped DEF Top, Below

\* A term that was pulled is held by nobody yet.
LEMMA Pulled ==
  ASSUME TypeInv, DInv, pc = "return", stack # << >>, ~PullFailed
  PROVE  /\ ret.data \in 1 .. Len(heap) /\ ret.data \in Int /\ ret.data # Unset /\ ret.data # Null
         /\ Free(heap, ret.data) /\ ret.data \notin Range(OwnedOf(Below))
         /\ ret.data \notin Range(Held(Top)) /\ ret.data \notin Gaps(heap)
<1>1. Free(heap, ret.data) /\ ret.data \notin Range(OwnedOf(stack))
  BY DEF DInv, Answered, PullFailed
<1>2. ret.data \in DOMAIN heap /\ DOMAIN heap = 1 .. Len(heap)
  BY <1>1 DEF Free, Live, TypeInv
<1>3. ret.data \notin Gaps(heap)
  BY <1>1, OpenOwned DEF DInv, HeapOK
<1> QED
  BY <1>1, <1>2, <1>3, TopHolds, Values

\* A function returns a term that nobody holds, or nothing, and leaves what the functions below
\* hold.
LEMMA PassKeeps ==
  ASSUME stack # << >>, HeapOK(heap', Below), NEW code, NEW data, FunctionReturns(code, data),
         IF code = BERT_SUCCESS THEN Free(heap', data) /\ data \notin Range(OwnedOf(Below))
         ELSE code # 1 /\ data = Unset
  PROVE  DInv'
<1>1. /\ stack' = Below /\ pc' = "return"
      /\ ret' = [code |-> IF code = BERT_SUCCESS THEN 1 ELSE code, data |-> data]
  BY DEF FunctionReturns, Answer
<1>2. BERT_SUCCESS = 0
  BY DEF BERT_SUCCESS
<1>3. Answered(heap', Below, ret')
  BY <1>1, <1>2 DEF Answered
<1> QED
  BY <1>1, <1>3 DEF DInv

\* ... after it destroyed what it held.
LEMMA ReturnKeeps ==
  ASSUME stack # << >>,
         NEW h \in Seq(Cell), Sound(h), StackOK(h, Below),
         NEW roots, Loose(h, Below, roots),
         Gaps(h) \subseteq Open(Below) \union Reach(h, Range(roots)),
         NEW code, NEW data, ReleaseAndReturn(h, roots, code, data),
         IF code = BERT_SUCCESS
           THEN /\ Free(h, data) /\ data \notin Range(roots) /\ data \notin Range(OwnedOf(Below))
           ELSE code # 1 /\ data = Unset
  PROVE  DInv'
<1>1. /\ Destroyable(h, roots) /\ HeapOK(Destroyed(h, roots), Below)
      /\ \A q : Free(h, q) /\ q \notin Range(roots) => Free(Destroyed(h, roots), q)
  BY Releases
<1>2. FunctionReturns(code, data) /\ heap' = Destroyed(h, roots)
  BY <1>1 DEF ReleaseAndReturn, Release
<1> QED
  BY <1>1, <1>2, PassKeeps

\* The error codes of the library.
LEMMA Codes ==
  /\ BERT_SUCCESS = 0
  /\ \A code \in {BERT_ERRNO_INVALID, BERT_ERRNO_MALLOC, BERT_ERRNO_SHORT_READ, BERT_ERRNO_READ,
                  BERT_ERRNO_BIGNUM} : code # 1 /\ code # 0
BY DEF BERT_SUCCESS, BERT_ERRNO_INVALID, BERT_ERRNO_MALLOC, BERT_ERRNO_SHORT_READ,
       BERT_ERRNO_READ, BERT_ERRNO_BIGNUM

\* A function fails: what it held is destroyed, the tuple that it was filling among it.
LEMMA FailKeeps ==
  ASSUME TypeInv, DInv, stack # << >>, NEW roots, Loose(heap, Below, roots),
         Top.fn = "tuple" => Top.obj \in Range(roots),
         NEW code, code # 1, code # 0, ReleaseAndReturn(heap, roots, code, Unset)
  PROVE  DInv'
<1>1. /\ heap \in Seq(Cell) /\ IsHeap(heap) /\ Sound(heap) /\ StackOK(heap, Below)
      /\ Gaps(heap) \subseteq Open(Below) \union (IF Top.fn = "tuple" THEN {Top.obj} ELSE {})
      /\ TopOK(heap, Top, Below) /\ Top \in Frames
  BY TopHolds
<1>2. Top.fn = "tuple" => Top.obj \in Reach(heap, Range(roots))
  <2> SUFFICES ASSUME Top.fn = "tuple" PROVE Top.obj \in Reach(heap, Range(roots))
    OBVIOUS
  <2>1. Held(Top) = <<Top.obj>>
    BY <1>1, HeldIs
  <2>2. Top.obj \in Range(Held(Top))
    BY <2>1 DEF Range
  <2>3. Free(heap, Top.obj)
    BY <1>1, <2>2 DEF TopOK
  <2>4. Top.obj # Null
    BY <1>1, <2>3 DEF Free, Live, IsHeap, Null
  <2>5. Range(roots) \in SUBSET Int
    BY DEF Loose, Range
  <2> QED
    BY <1>1, <2>4, <2>5, ReachStored
<1>3. Gaps(heap) \subseteq Open(Below) \union Reach(heap, Range(roots))
  BY <1>1, <1>2
<1> QED
  BY <1>1, <1>3, Codes, ReturnKeeps

\* A function makes a term without pointers, and destroys what it was made of.
LEMMA MadeKeeps ==
  ASSUME TypeInv, DInv, stack # << >>, Top.fn # "tuple", NEW roots, Loose(heap, Below, roots),
         NEW cell \in Cell, cell.type # "freed", cell.kids = << >>,
         ReleaseAndReturn(Append(heap, cell), roots, BERT_SUCCESS, NewId)
  PROVE  DInv'
<1> DEFINE h == Append(heap, cell)
<1>1. /\ heap \in Seq(Cell) /\ IsHeap(heap) /\ Sound(heap) /\ StackOK(heap, Below)
      /\ Gaps(heap) \subseteq Open(Below)
  BY TopHolds
<1>2. Loose(heap, Below, cell.kids) /\ Range(cell.kids) = {}
  BY LooseNone
<1>3. /\ h \in Seq(Cell) /\ Sound(h) /\ StackOK(h, Below)
      /\ Free(h, NewId) /\ NewId \notin Range(OwnedOf(Below)) /\ ~Free(heap, NewId) /\ NewId # Null
      /\ \A q : Free(heap, q) => Free(h, q)
      /\ Gaps(h) \subseteq Gaps(heap)
  BY <1>1, <1>2, AppendKeeps DEF NewId
<1> HIDE DEF h
<1>4. Loose(h, Below, roots)
  BY <1>3, StillLoose
<1>5. NewId \notin Range(roots)
  BY <1>3 DEF Loose
<1>6. Gaps(h) \subseteq Open(Below) \union Reach(h, Range(roots))
  BY <1>1, <1>3
<1>7. ReleaseAndReturn(h, roots, BERT_SUCCESS, NewId)
  BY DEF h
<1> QED
  BY <1>3, <1>4, <1>5, <1>6, <1>7, Codes, ReturnKeeps

\* The function goes on with a new top of the stack, that holds loose terms.
LEMMA GoesOnKeeps ==
  ASSUME heap' \in Seq(Cell), Sound(heap'), StackOK(heap', Below),
         NEW f \in Frames, Below \in Seq(Frames), TopOK(heap', f, Below),
         Gaps(heap') \subseteq Open(Below) \union (IF f.fn = "tuple" THEN {f.obj} ELSE {}),
         stack' = <<f>> \o Below, pc' \in {"pull", "tail"}
  PROVE  DInv'
<1>1. IsHeap(heap')
  BY CellsAreHeap
<1>2. StackOK(heap', stack')
  BY <1>1, StackPushed
<1>3. Open(stack') = Open(Below) \union (IF f.fn = "tuple" THEN {f.obj} ELSE {})
  BY <1>1, StackPushed
<1> QED
  BY <1>2, <1>3 DEF DInv, HeapOK

\* A pull that finds no term.
LEMMA ErrorKeeps ==
  ASSUME DInv, NEW code, code # 1, stack # << >> => code # 0,
         Answer(code, Unset), UNCHANGED <<heap, stack>>
  PROVE  DInv'
<1>1. pc' = "return" /\ ret' = [code |-> code, data |-> Unset] /\ heap' = heap /\ stack' = stack
  BY DEF Answer
<1>2. Answered(heap', stack', ret')
  BY <1>1 DEF Answered
<1> QED
  BY <1>1, <1>2 DEF DInv

\* A new term that nobody holds yet.
LEMMA NewTerm ==
  ASSUME TypeInv, DInv, NEW cell \in Cell, cell.type # "freed",
         \A q \in Range(cell.kids) : q = Null, heap' = Append(heap, cell)
  PROVE  /\ heap' \in Seq(Cell) /\ Sound(heap') /\ StackOK(heap', stack)
         /\ NewId \in DOMAIN heap' /\ heap'[NewId] = cell /\ NewId \in Int
         /\ Free(heap', NewId) /\ NewId \notin Range(OwnedOf(stack))
         /\ Gaps(heap') \subseteq Open(stack) \union {NewId}
         /\ cell.kids = << >> => Gaps(heap') \subseteq Open(stack)
<1>1. /\ heap \in Seq(Cell) /\ Sound(heap) /\ StackOK(heap, stack) /\ Gaps(heap) \subseteq Open(stack)
      /\ Len(heap) \in Nat
  BY DEF DInv, HeapOK
<1>2. cell.kids \in Seq(Int)
  BY DEF Cell
<1>3. Distinct(cell.kids)
  BY DEF Distinct, Range
<1>4. Loose(heap, stack, cell.kids)
  BY <1>2, <1>3 DEF Loose
<1>5. /\ heap' \in Seq(Cell) /\ DOMAIN heap' = 1 .. NewId /\ heap'[NewId] = cell
      /\ Sound(heap') /\ StackOK(heap', stack)
      /\ Free(heap', NewId) /\ NewId \notin Range(OwnedOf(stack))
      /\ Gaps(heap') \subseteq Gaps(heap) \union {NewId}
      /\ Null \notin Range(cell.kids) => Gaps(heap') \subseteq Gaps(heap)
  BY <1>1, <1>4, AppendKeeps DEF NewId
<1>6. NewId \in DOMAIN heap' /\ NewId \in Int
  BY <1>1, <1>5 DEF NewId
<1>7. cell.kids = << >> => Null \notin Range(cell.kids)
  <2>1. Range(<< >>) = {}
    BY LooseNone
  <2> QED
    BY <2>1
<1> QED
  BY <1>1, <1>5, <1>6, <1>7

\* A pull of a term without elements keeps the invariant: its only cell is held by nobody.
LEMMA ScalarKeeps == TypeInv /\ DInv /\ PullScalar => DInv'
<1> SUFFICES ASSUME TypeInv, DInv, PullScalar PROVE DInv'
  OBVIOUS
<1> DEFINE cell == Term(Head(input).type, Head(input).text, << >>)
<1>1. Head(input).type \in {"nil", "int", "bin", "atom", "other"} /\ Head(input).text \in STRING
  BY NextTerm DEF PullScalar
<1>2. cell \in Cell /\ cell.type # "freed" /\ cell.kids = << >>
  <2>1. << >> \in Seq(Int)
    OBVIOUS
  <2> QED
    BY <1>1, <2>1 DEF Term, Cell
<1>3. heap' = Append(heap, cell) /\ stack' = stack /\ Answer(1, NewId)
  BY DEF PullScalar, With
<1> HIDE DEF cell
<1>4. \A q \in Range(cell.kids) : q = Null
  BY <1>2, LooseNone
<1>5. /\ heap' \in Seq(Cell) /\ Sound(heap') /\ StackOK(heap', stack)
      /\ Free(heap', NewId) /\ NewId \notin Range(OwnedOf(stack)) /\ Gaps(heap') \subseteq Open(stack)
  BY <1>2, <1>3, <1>4, NewTerm
<1>6. pc' = "return" /\ ret'.code = 1 /\ ret'.data = NewId
  BY <1>3 DEF Answer
<1>7. Answered(heap', stack', ret')
  BY <1>3, <1>5, <1>6 DEF Answered
<1> QED
  BY <1>3, <1>5, <1>6, <1>7 DEF DInv, HeapOK

\* A tuple or a list begins to be filled.
LEMMA FillingKeeps ==
  ASSUME TypeInv, DInv, NEW cell \in Cell, cell.type # "freed",
         \A q \in Range(cell.kids) : q = Null, heap' = Append(heap, cell),
         NEW f \in Frames, f.fn \in {"tuple", "list"}, f.obj = NewId, FrameOK(heap', f),
         f.fn = "list" => cell.kids = << >>,
         stack' = <<f>> \o stack, pc' \in {"pull", "tail"}
  PROVE  DInv'
<1>1. /\ heap' \in Seq(Cell) /\ Sound(heap') /\ StackOK(heap', stack)
      /\ Free(heap', NewId) /\ NewId \notin Range(OwnedOf(stack))
      /\ Gaps(heap') \subseteq Open(stack) \union {NewId}
      /\ cell.kids = << >> => Gaps(heap') \subseteq Open(stack)
  BY NewTerm
<1>2. Held(f) = <<NewId>>
  BY HeldIs
<1>3. Range(Held(f)) = {NewId} /\ Distinct(Held(f))
  <2>1. DOMAIN <<NewId>> = {1} /\ <<NewId>>[1] = NewId
    OBVIOUS
  <2> QED
    BY <1>2, <2>1 DEF Range, Distinct
<1>4. TopOK(heap', f, stack)
  BY <1>1, <1>3 DEF TopOK
<1>5. IsHeap(heap') /\ stack \in Seq(Frames)
  BY <1>1, CellsAreHeap DEF TypeInv, StackIn
<1>6. StackOK(heap', stack')
  BY <1>1, <1>4, <1>5, StackPushed
<1>7. Open(stack') = Open(stack) \union (IF f.fn = "tuple" THEN {f.obj} ELSE {})
  BY <1>5, StackPushed
<1>8. Gaps(heap') \subseteq Open(stack')
  BY <1>1, <1>7
<1> QED
  BY <1>1, <1>6, <1>8 DEF DInv, HeapOK

\* The cell of a tuple is held by its frame, and its empty places may be empty, ...
LEMMA TupleKeeps == TypeInv /\ DInv /\ PullTuple => DInv'
<1> SUFFICES ASSUME TypeInv, DInv, PullTuple PROVE DInv'
  OBVIOUS
<1> DEFINE size == Head(input).size
           kids == [k \in 1 .. size |-> Null]
           cell == Term("tuple", "", kids)
           f == Frame("tuple", NewId, size)
<1>1. size \in Nat
  BY NextTerm DEF PullTuple
<1>2. heap' = Append(heap, cell)
  BY DEF PullTuple, With
<1>3. IF size = 0 THEN Answer(1, NewId) /\ stack' = stack
      ELSE stack' = <<f>> \o stack /\ pc' = "pull"
  BY DEF PullTuple, Finds
<1> HIDE DEF size
<1>4. kids \in Seq(Int) /\ Len(kids) = size /\ \A q \in Range(kids) : q = Null
  <2>1. kids \in Seq(Int) /\ Len(kids) = size
    BY <1>1, Values
  <2>2. \A q \in Range(kids) : q = Null
    BY DEF Range
  <2> QED
    BY <2>1, <2>2
<1> HIDE DEF kids
<1>5. cell \in Cell /\ cell.type = "tuple" /\ cell.kids = kids
  BY <1>4 DEF Term, Cell
<1> HIDE DEF cell
<1>6. /\ heap' \in Seq(Cell) /\ Sound(heap') /\ StackOK(heap', stack)
      /\ heap'[NewId] = cell /\ NewId \in Int
      /\ Free(heap', NewId) /\ NewId \notin Range(OwnedOf(stack))
      /\ cell.kids = << >> => Gaps(heap') \subseteq Open(stack)
  BY <1>2, <1>4, <1>5, NewTerm
<1>7. CASE size = 0
  <2>1. kids = << >>
    BY <1>4, <1>7
  <2>2. stack' = stack /\ pc' = "return" /\ ret'.code = 1 /\ ret'.data = NewId
    BY <1>3, <1>7 DEF Answer
  <2>3. Answered(heap', stack', ret')
    BY <1>6, <2>2 DEF Answered
  <2> QED
    BY <1>5, <1>6, <2>1, <2>2, <2>3 DEF DInv, HeapOK
<1>8. CASE size # 0
  <2>1. f \in Frames
    BY <1>1, <1>6, FrameIsFrame
  <2>2. f.fn = "tuple" /\ f.obj = NewId /\ f.size = size /\ f.i = 0
    BY DEF Frame
  <2>3. stack' = <<f>> \o stack /\ pc' = "pull"
    BY <1>3, <1>8
  <2> HIDE DEF f
  <2>4. FrameOK(heap', f)
    <3>1. \A k \in 1 .. size : k \in DOMAIN kids
      BY <1>1, <1>4
    <3>2. \A k \in 1 .. size : kids[k] = Null
      BY <1>4, <3>1 DEF Range
    <3>3. \A k \in 1 .. size : k > 0
      BY <1>1
    <3> QED
      BY <1>1, <1>4, <1>5, <1>6, <1>8, <2>2, <3>2, <3>3 DEF FrameOK
  <2> QED
    BY <1>2, <1>4, <1>5, <2>1, <2>2, <2>3, <2>4, FillingKeeps
<1> QED
  BY <1>7, <1>8

\* ... and the cell of a list by its own.
LEMMA ListKeeps == TypeInv /\ DInv /\ PullList => DInv'
<1> SUFFICES ASSUME TypeInv, DInv, PullList PROVE DInv'
  OBVIOUS
<1> DEFINE size == Head(input).size
           cell == Term("list", "", << >>)
           f == Frame("list", NewId, size)
<1>1. size \in Nat
  BY NextTerm DEF PullList
<1>2. heap' = Append(heap, cell) /\ stack' = <<f>> \o stack /\ pc' \in {"pull", "tail"}
  BY DEF PullList, With
<1> HIDE DEF size
<1>3. cell \in Cell /\ cell.type = "list" /\ cell.kids = << >>
  <2>1. << >> \in Seq(Int)
    OBVIOUS
  <2> QED
    BY <2>1 DEF Term, Cell
<1> HIDE DEF cell
<1>4. \A q \in Range(cell.kids) : q = Null
  BY <1>3, LooseNone
<1>5. heap'[NewId] = cell /\ NewId \in Int
  BY <1>2, <1>3, <1>4, NewTerm
<1>6. f \in Frames
  BY <1>1, <1>5, FrameIsFrame
<1>7. f.fn = "list" /\ f.obj = NewId
  BY DEF Frame
<1> HIDE DEF f
<1>8. FrameOK(heap', f)
  BY <1>3, <1>5, <1>7 DEF FrameOK
<1> QED
  BY <1>2, <1>3, <1>4, <1>6, <1>7, <1>8, FillingKeeps

\* A pull keeps the invariant, unless it is nested and finds the input at its end.
LEMMA PullKeeps == TypeInv /\ DInv /\ ~cutOff' /\ Pull => DInv'
<1> SUFFICES ASSUME TypeInv, DInv, ~cutOff', Pull PROVE DInv'
  OBVIOUS
<1>1. CASE PullEnds
  <2>1. stack = << >> /\ Answer(0, Unset) /\ UNCHANGED <<heap, stack>>
    BY <1>1 DEF PullEnds
  <2> QED
    BY <2>1, ErrorKeeps
<1>2. ASSUME NEW error \in ReadErrors, PullFails(error) PROVE DInv'
  <2>1. error # 1 /\ error # 0
    BY ReadErrorsAssumption, Codes
  <2>2. Answer(error, Unset) /\ UNCHANGED <<heap, stack>>
    BY <1>2 DEF PullFails
  <2> QED
    BY <2>1, <2>2, ErrorKeeps
<1>3. CASE PullUnknown
  <2>1. Answer(BERT_ERRNO_INVALID, Unset) /\ UNCHANGED <<heap, stack>>
    BY <1>3 DEF PullUnknown
  <2> QED
    BY <2>1, Codes, ErrorKeeps
<1>4. CASE PullMallocFails
  <2>1. Answer(BERT_ERRNO_MALLOC, Unset) /\ UNCHANGED <<heap, stack>>
    BY <1>4 DEF PullMallocFails
  <2> QED
    BY <2>1, Codes, ErrorKeeps
<1> QED
  BY <1>1, <1>2, <1>3, <1>4, ScalarKeeps, TupleKeeps, ListKeeps DEF Pull

\* The client destroys what it pulled, which nobody else holds.
LEMMA ClientKeeps == TypeInv /\ DInv /\ (ClientPulls \/ ClientUses \/ ClientStops) => DInv'
<1> SUFFICES ASSUME TypeInv, DInv, ClientPulls \/ ClientUses \/ ClientStops PROVE DInv'
  OBVIOUS
<1>1. CASE ClientPulls
  BY <1>1 DEF ClientPulls, DInv
<1>2. CASE ClientStops
  BY <1>2 DEF ClientStops, DInv
<1>3. CASE ClientUses
  <2> DEFINE p == ret.data
  <2>1. pc = "return" /\ stack = << >> /\ ret.code = 1
    BY <1>3 DEF ClientUses, PullFailed
  <2>2. /\ heap \in Seq(Cell) /\ IsHeap(heap) /\ Sound(heap) /\ StackOK(heap, stack)
        /\ Gaps(heap) = {}
    BY <2>1, CellsAreHeap, StackEmpty DEF DInv, HeapOK
  <2>3. Free(heap, p) /\ p \notin Range(OwnedOf(stack))
    BY <2>1 DEF DInv, Answered
  <2>4. p \in Int /\ p # Unset
    BY <2>2, <2>3, Values DEF Free, Live, IsHeap
  <2>5. Whole(heap, p)
    <3>1. \A r \in DOMAIN heap : \A k \in DOMAIN heap[r].kids : heap[r].kids[k] = Null => r \in {}
      BY <2>2 DEF Gaps
    <3>2. \A r \in {} : r # p /\ Free(heap, r)
      OBVIOUS
    <3> HIDE DEF p
    <3> QED
      BY <2>2, <2>3, <2>4, <3>1, <3>2, WholeTerm
  <2>6. /\ heap' = Destroyed(heap, <<p>>) /\ pc' = "client" /\ stack' = stack
    BY <1>3, <2>4, <2>5 DEF ClientUses, Release
  <2>7. Loose(heap, stack, <<p>>)
    BY <2>3, <2>4, LooseOne
  <2>8. Gaps(heap) \subseteq Open(stack) \union Reach(heap, Range(<<p>>))
    BY <2>2
  <2>9. HeapOK(heap', stack)
    BY <2>2, <2>6, <2>7, <2>8, Releases
  <2> QED
    BY <2>1, <2>6, <2>9 DEF DInv
<1> QED
  BY <1>1, <1>2, <1>3

\* The places of a term change.
LEMMA StoreIs ==
  ASSUME NEW h \in Seq(Cell), NEW p \in DOMAIN h, NEW kids \in Seq(Int)
  PROVE  LET new == [h EXCEPT ![p].kids = kids] IN
         /\ new \in Seq(Cell) /\ DOMAIN new = DOMAIN h
         /\ new[p].kids = kids /\ new[p].type = h[p].type
         /\ \A q \in DOMAIN h : q # p => new[q] = h[q]
<1> DEFINE cell == [h[p] EXCEPT !.kids = kids]
           new == [h EXCEPT ![p].kids = kids]
<1>1. h[p] \in Cell
  OBVIOUS
<1>2. cell \in Cell /\ cell.type = h[p].type /\ cell.kids = kids
  BY <1>1 DEF Cell
<1>3. new = [h EXCEPT ![p] = cell]
  OBVIOUS
<1> HIDE DEF cell, new
<1>4. new \in Seq(Cell) /\ DOMAIN new = DOMAIN h
      /\ new[p] = cell /\ \A q \in DOMAIN h : q # p => new[q] = h[q]
  BY <1>2, <1>3
<1> QED
  BY <1>2, <1>4 DEF new

\* bert_decode_tuple fills its places in order, or destroys the tuple with the rest empty.
LEMMA TupleStepsKeep == TypeInv /\ DInv /\ Tuple => DInv'
<1> SUFFICES ASSUME TypeInv, DInv, Tuple PROVE DInv'
  OBVIOUS
<1>1. pc = "return" /\ stack # << >> /\ Top.fn = "tuple"
  BY DEF Tuple, TupleFails, TupleFirstUnset, TupleIsComplex, TupleStores, Returned
<1>2. /\ heap \in Seq(Cell) /\ IsHeap(heap) /\ Sound(heap)
      /\ Top \in Frames /\ Below \in Seq(Frames)
      /\ StackOK(heap, Below) /\ TopOK(heap, Top, Below)
      /\ Gaps(heap) \subseteq Open(Below) \union {Top.obj}
  BY <1>1, TopHolds
<1>3. Held(Top) = <<Top.obj>> /\ Range(Held(Top)) = {Top.obj}
  <2>1. Held(Top) = <<Top.obj>>
    BY <1>1, <1>2, HeldIs
  <2> QED
    BY <2>1 DEF Range
<1>4. /\ Free(heap, Top.obj) /\ Top.obj \notin Range(OwnedOf(Below)) /\ Top.obj \in Int
      /\ Top.obj # Null /\ Top.obj \in DOMAIN heap
  <2>1. Free(heap, Top.obj) /\ Top.obj \notin Range(OwnedOf(Below))
    BY <1>2, <1>3 DEF TopOK
  <2>2. Top.obj \in Int
    BY <1>2 DEF Frames
  <2> QED
    BY <1>2, <2>1, <2>2 DEF Free, Live, IsHeap, Null
<1>5. /\ heap[Top.obj].type = "tuple" /\ Len(heap[Top.obj].kids) = Top.size /\ Top.i < Top.size
      /\ \A k \in 1 .. Top.size : heap[Top.obj].kids[k] = Null <=> k > Top.i
      /\ Top.i \in Nat /\ Top.size \in Nat
  BY <1>1, <1>2 DEF TopOK, FrameOK, Frames
<1>6. CASE TupleFails
  <2>1. PullFailed /\ ReleaseAndReturn(heap, <<Top.obj>>, ret.code, Unset)
    BY <1>6 DEF TupleFails
  <2>2. ret.code # 1 /\ ret.code # 0
    BY <1>1, <2>1 DEF PullFailed, DInv, Answered
  <2>3. Loose(heap, Below, <<Top.obj>>) /\ Top.obj \in Range(<<Top.obj>>)
    BY <1>4, LooseOne
  <2> QED
    BY <1>1, <2>1, <2>2, <2>3, FailKeeps
<1>7. CASE TupleFirstUnset
  BY <1>1, <1>7, Pulled DEF TupleFirstUnset
<1>8. CASE TupleIsComplex
  <2> DEFINE f == Frame("complex", Null, 0)
             roots == <<ret.data, Top.obj>>
  <2>1. /\ ret.data \in Int /\ ret.data # Top.obj
        /\ Free(heap, ret.data) /\ ret.data \notin Range(OwnedOf(Below))
    BY <1>1, <1>3, <1>8, Pulled DEF TupleIsComplex
  <2>2. Loose(heap, Below, roots) /\ Range(roots) = {ret.data, Top.obj}
    BY <1>4, <2>1, LooseTwo
  <2>3. heap' = Destroyed(heap, roots) /\ stack' = <<f>> \o Below /\ pc' = "pull"
    BY <1>8 DEF TupleIsComplex, Release
  <2>4. f \in Frames /\ f.fn = "complex"
    <3>1. f.fn = "complex"
      BY DEF Frame
    <3> QED
      BY <3>1, FrameIsFrame, Values
  <2> HIDE DEF f, roots
  <2>5. Gaps(heap) \subseteq Open(Below) \union Reach(heap, Range(roots))
    <3>1. Range(roots) \in SUBSET Int
      BY <1>4, <2>1, <2>2
    <3>2. Top.obj \in Reach(heap, Range(roots))
      BY <1>2, <1>4, <2>2, <3>1, ReachStored
    <3> QED
      BY <1>2, <3>2
  <2>6. HeapOK(heap', Below)
    BY <1>2, <2>2, <2>3, <2>5, Releases
  <2>7. TopOK(heap', f, Below)
    <3>1. Held(f) = << >>
      BY <2>4, HeldIs
    <3>2. Range(Held(f)) = {} /\ Distinct(Held(f))
      BY <3>1, LooseNone DEF Loose
    <3> QED
      BY <2>4, <3>2 DEF TopOK, FrameOK
  <2> QED
    BY <1>2, <2>3, <2>4, <2>6, <2>7, GoesOnKeeps DEF HeapOK
<1>9. CASE TupleStores
  <2> DEFINE q == ret.data
             o == Top.obj
             j == Top.i + 1
             kids == [heap[o].kids EXCEPT ![j] = q]
  <2>1. /\ q \in Int /\ q # Unset /\ q # Null /\ q # o
        /\ Free(heap, q) /\ q \notin Range(OwnedOf(Below))
    BY <1>1, <1>3, <1>9, Pulled DEF TupleStores
  <2>2. heap' = [heap EXCEPT ![o].kids = kids]
    BY <1>9, <2>1 DEF TupleStores
  <2>3. /\ kids \in Seq(Int) /\ DOMAIN kids = DOMAIN heap[o].kids
        /\ DOMAIN kids = 1 .. Top.size /\ Len(kids) = Top.size
        /\ kids[j] = q /\ \A k \in DOMAIN kids : k # j => kids[k] = heap[o].kids[k]
    <3>1. heap[o].kids \in Seq(Int)
      BY <1>2, <1>4, CellIs
    <3>2. /\ kids \in Seq(Int) /\ Len(kids) = Len(heap[o].kids) /\ DOMAIN kids = DOMAIN heap[o].kids
      BY <2>1, <3>1, PointerStored
    <3>3. DOMAIN heap[o].kids = 1 .. Top.size /\ j \in 1 .. Top.size
      BY <1>5, <3>1
    <3> QED
      BY <1>5, <3>2, <3>3
  <2> HIDE DEF kids
  <2>4. /\ heap' \in Seq(Cell) /\ DOMAIN heap' = DOMAIN heap
        /\ heap'[o].kids = kids /\ heap'[o].type = "tuple"
        /\ \A p \in DOMAIN heap : p # o => heap'[p] = heap[p]
    BY <1>2, <1>4, <1>5, <2>2, <2>3, StoreIs
  <2>5. \A p \in DOMAIN heap : Live(heap, p) => Live(heap', p)
    BY <1>5, <2>4 DEF Live
  <2>6. \A p \in DOMAIN heap : \A k \in DOMAIN heap'[p].kids :
          \/ heap'[p].kids[k] = Null
          \/ k \in DOMAIN heap[p].kids /\ heap'[p].kids[k] = heap[p].kids[k]
          \/ p = o /\ k = j /\ heap'[p].kids[k] = q
    BY <2>3, <2>4
  <2>7. Sound(heap') /\ \A r : Free(heap, r) /\ r # q => Free(heap', r)
    <3>1. q # Null => Free(heap, q)
      BY <2>1
    <3>2. IsHeap(heap) /\ Sound(heap) /\ DOMAIN heap' = DOMAIN heap
      BY <1>2, <2>4
    <3> HIDE DEF q, o, j
    <3> QED
      BY <2>5, <2>6, <3>1, <3>2, StoreKeepsSound
  <2>8. StackOK(heap', Below)
    <3>1. ASSUME NEW r \in Range(OwnedOf(Below)) PROVE Free(heap', r) /\ heap'[r] = heap[r]
      <4>1. Free(heap, r) /\ r # q /\ r # o
        BY <1>2, <1>4, <2>1 DEF StackOK
      <4> QED
        BY <4>1, <2>4, <2>7 DEF Free, Live
    <3> QED
      BY <1>2, <3>1, StackKept
  <2>9. Gaps(heap') \subseteq Open(Below) \union {o}
    <3> SUFFICES ASSUME NEW r \in Gaps(heap'), r # o PROVE r \in Open(Below)
      OBVIOUS
    <3>1. r \in Gaps(heap)
      BY <2>4 DEF Gaps
    <3> QED
      BY <1>2, <3>1
  <2>10. \A k \in 1 .. Top.size : kids[k] = Null <=> k > j
    <3> SUFFICES ASSUME NEW k \in 1 .. Top.size PROVE kids[k] = Null <=> k > j
      OBVIOUS
    <3>1. k \in DOMAIN kids /\ (k # j => (k > Top.i <=> k > j))
      BY <1>5, <2>3
    <3>2. CASE k = j
      <4>1. ~(k > j)
        BY <1>5, <3>2
      <4> QED
        BY <2>1, <2>3, <3>2, <4>1
    <3>3. CASE k # j
      <4>1. kids[k] = heap[o].kids[k]
        BY <2>3, <3>1, <3>3
      <4>2. heap[o].kids[k] = Null <=> k > Top.i
        BY <1>5
      <4> QED
        BY <3>1, <3>3, <4>1, <4>2
    <3> QED
      BY <3>2, <3>3
  <2>11. Free(heap', o)
    BY <1>4, <2>1, <2>7
  <2>12. CASE j = Top.size
    <3>1. FunctionReturns(BERT_SUCCESS, o)
      BY <1>9, <2>12 DEF TupleStores
    <3>2. o \notin Gaps(heap')
      <4>1. \A k \in 1 .. Top.size : ~(k > j)
        BY <1>5, <2>12
      <4> QED
        BY <2>3, <2>4, <2>10, <4>1 DEF Gaps
    <3>3. HeapOK(heap', Below)
      BY <2>4, <2>7, <2>8, <2>9, <3>2 DEF HeapOK
    <3> QED
      BY <1>1, <1>4, <2>11, <3>1, <3>3, PassKeeps
  <2>13. CASE j # Top.size
    <3> DEFINE f == Advanced(Top, j, Top.first, Top.second)
    <3>1. stack' = [stack EXCEPT ![1].i = @ + 1] /\ pc' = "pull"
      BY <1>9, <2>13 DEF TupleStores
    <3>2. Top.first \in Int /\ Top.second \in Int /\ j \in Nat /\ Top = stack[1]
          /\ Top.fn # "time" /\ Top.fn # "regex"
      BY <1>1, <1>2, <1>5, TopTyped DEF Frames
    <3>3. stack' = [stack EXCEPT ![1] = f]
      BY <1>2, <3>1, <3>2 DEF Advanced, Frames
    <3>4. f \in Frames /\ f.fn = "tuple" /\ f.obj = o /\ f.size = Top.size /\ f.i = j
      BY <1>1, <1>2, <3>2, FrameAdvanced
    <3> HIDE DEF f
    <3>5. stack' = <<f>> \o Below
      BY <1>1, <3>3, StackSplit DEF Below, TypeInv, StackIn
    <3>6. FrameOK(heap', f)
      <4>1. heap'[f.obj].type = "tuple" /\ heap'[f.obj].kids = kids /\ f.size = Top.size /\ f.i = j
        BY <2>4, <3>4
      <4>2. Len(kids) = Top.size /\ j < Top.size
        BY <1>5, <2>3, <2>13
      <4> HIDE DEF j, o
      <4> QED
        BY <2>10, <3>4, <4>1, <4>2 DEF FrameOK
    <3>7. Held(f) = <<o>>
      BY <3>4, HeldIs
    <3>8. TopOK(heap', f, Below)
      BY <1>2, <1>3, <1>4, <2>11, <3>6, <3>7 DEF TopOK
    <3>9. Gaps(heap') \subseteq Open(Below) \union {f.obj}
      BY <2>9, <3>4
    <3> QED
      BY <1>2, <2>4, <2>7, <2>8, <3>1, <3>4, <3>5, <3>8, <3>9, GoesOnKeeps
  <2> QED
    BY <2>12, <2>13
<1> QED
  BY <1>6, <1>7, <1>8, <1>9 DEF Tuple

\* What the stack below a function that fills no tuple needs of the heap.
LEMMA BelowOK ==
  ASSUME TypeInv, DInv, stack # << >>, Top.fn # "tuple"
  PROVE  HeapOK(heap, Below)
BY TopHolds DEF HeapOK

\* The function on top returns what it got, or an error, and destroys nothing.
LEMMA NothingHeldKeeps ==
  ASSUME TypeInv, DInv, stack # << >>, Top.fn # "tuple", heap' = heap,
         NEW code, code # 1, code # 0, FunctionReturns(code, Unset)
  PROVE  DInv'
<1>1. HeapOK(heap', Below)
  BY BelowOK
<1>2. code # BERT_SUCCESS
  BY Codes
<1> QED
  BY <1>1, <1>2, PassKeeps

\* bert_decode_list appends what it pulls, or destroys it with the list.
LEMMA ListStepsKeep == TypeInv /\ DInv /\ List => DInv'
<1> SUFFICES ASSUME TypeInv, DInv, List PROVE DInv'
  OBVIOUS
<1>1. stack # << >> /\ Top.fn = "list" /\ pc \in {"return", "tail"}
  BY DEF List, ListFails, ListAppends, ListAppendFails, ListReadsTail, ListTailFails, Returned,
         TypeInv
<1>2. /\ heap \in Seq(Cell) /\ IsHeap(heap) /\ Sound(heap)
      /\ Top \in Frames /\ Below \in Seq(Frames) /\ Top = stack[1]
      /\ StackOK(heap, Below) /\ TopOK(heap, Top, Below)
      /\ Gaps(heap) \subseteq Open(Below) /\ HeapOK(heap, Below)
  BY <1>1, TopHolds, TopTyped, BelowOK
<1>3. Held(Top) = <<Top.obj>> /\ Range(Held(Top)) = {Top.obj}
  <2>1. Held(Top) = <<Top.obj>>
    BY <1>1, <1>2, HeldIs
  <2> QED
    BY <2>1 DEF Range
<1>4. /\ Free(heap, Top.obj) /\ Top.obj \notin Range(OwnedOf(Below)) /\ Top.obj \in Int
      /\ Top.obj # Null /\ Top.obj \in DOMAIN heap
  <2>1. Free(heap, Top.obj) /\ Top.obj \notin Range(OwnedOf(Below))
    BY <1>2, <1>3 DEF TopOK
  <2>2. Top.obj \in Int
    BY <1>2 DEF Frames
  <2> QED
    BY <1>2, <2>1, <2>2 DEF Free, Live, IsHeap, Null
<1>5. heap[Top.obj].type = "list" /\ Top.i \in Nat /\ Top.size \in Nat
  BY <1>1, <1>2 DEF TopOK, FrameOK, Frames
<1>6. CASE ListFails
  <2>1. PullFailed /\ pc = "return" /\ ReleaseAndReturn(heap, <<Top.obj>>, ret.code, Unset)
    BY <1>6 DEF ListFails, Returned
  <2>2. ret.code # 1 /\ ret.code # 0
    BY <1>1, <2>1 DEF PullFailed, DInv, Answered
  <2>3. Loose(heap, Below, <<Top.obj>>) /\ Top.fn # "tuple"
    BY <1>1, <1>4, LooseOne
  <2> QED
    BY <1>1, <2>1, <2>2, <2>3, FailKeeps
<1>7. CASE ListReadsTail
  <2>1. FunctionReturns(BERT_SUCCESS, Top.obj) /\ heap' = heap
    BY <1>7 DEF ListReadsTail
  <2>2. HeapOK(heap', Below) /\ Free(heap', Top.obj) /\ Top.obj \notin Range(OwnedOf(Below))
    BY <1>2, <1>4, <2>1
  <2> QED
    BY <1>1, <2>1, <2>2, PassKeeps
<1>8. ASSUME NEW error \in ReadErrors, ListTailFails(error) PROVE DInv'
  <2>1. FunctionReturns(error, Unset) /\ heap' = heap
    BY <1>8 DEF ListTailFails
  <2>2. error # 1 /\ error # 0 /\ Top.fn # "tuple"
    BY <1>1, ReadErrorsAssumption, Codes
  <2> QED
    BY <1>1, <2>1, <2>2, NothingHeldKeeps
<1>9. CASE ListAppendFails
  <2>1. pc = "return" /\ ~PullFailed
    BY <1>9 DEF ListAppendFails, Returned
  <2>2. /\ ret.data \in Int /\ ret.data # Top.obj /\ ret.data # Unset
        /\ Free(heap, ret.data) /\ ret.data \notin Range(OwnedOf(Below))
    BY <1>1, <1>3, <2>1, Pulled
  <2>3. ReleaseAndReturn(heap, <<ret.data, Top.obj>>, BERT_ERRNO_MALLOC, Unset)
    BY <1>9, <2>2 DEF ListAppendFails, Elements
  <2>4. Loose(heap, Below, <<ret.data, Top.obj>>)
    BY <1>4, <2>2, LooseTwo
  <2>5. Top.fn # "tuple" /\ BERT_ERRNO_MALLOC # 1 /\ BERT_ERRNO_MALLOC # 0
    BY <1>1, Codes
  <2> QED
    BY <1>1, <2>3, <2>4, <2>5, FailKeeps
<1>10. CASE ListAppends
  <2> DEFINE q == ret.data
             o == Top.obj
             j == Len(heap[o].kids) + 1
             kids == Append(heap[o].kids, q)
  <2>1. pc = "return" /\ ~PullFailed
    BY <1>10 DEF ListAppends, Returned
  <2>2. /\ q \in Int /\ q # Unset /\ q # Null /\ q # o
        /\ Free(heap, q) /\ q \notin Range(OwnedOf(Below))
    BY <1>1, <1>3, <2>1, Pulled
  <2>3. /\ heap' = [heap EXCEPT ![o].kids = kids]
        /\ stack' = [stack EXCEPT ![1].i = @ + 1, ![1].first = q]
        /\ pc' \in {"pull", "tail"}
    BY <1>4, <1>10, <2>2 DEF ListAppends, Elements
  <2>4. /\ kids \in Seq(Int) /\ DOMAIN kids = 1 .. j /\ j \in Nat
        /\ \A k \in DOMAIN kids : k = j \/ k \in DOMAIN heap[o].kids
        /\ kids[j] = q /\ \A k \in DOMAIN heap[o].kids : kids[k] = heap[o].kids[k]
    <3>1. heap[o].kids \in Seq(Int)
      BY <1>2, <1>4, CellIs
    <3>2. /\ Len(heap[o].kids) \in Nat /\ DOMAIN heap[o].kids = 1 .. Len(heap[o].kids)
      BY <3>1
    <3> HIDE DEF o, q
    <3>3. kids \in Seq(Int) /\ Len(kids) = j /\ kids[j] = q
          /\ \A k \in 1 .. Len(heap[o].kids) : kids[k] = heap[o].kids[k]
      BY <2>2, <3>1, AppendProperties
    <3>4. DOMAIN kids = 1 .. j /\ j \in Nat
      BY <3>2, <3>3
    <3> HIDE DEF kids
    <3>5. \A k \in 1 .. j : k = j \/ k \in 1 .. Len(heap[o].kids)
      BY <3>2
    <3> QED
      BY <3>2, <3>3, <3>4, <3>5
  <2> HIDE DEF kids, j
  <2>5. /\ heap' \in Seq(Cell) /\ DOMAIN heap' = DOMAIN heap
        /\ heap'[o].kids = kids /\ heap'[o].type = "list"
        /\ \A p \in DOMAIN heap : p # o => heap'[p] = heap[p]
    BY <1>2, <1>4, <1>5, <2>3, <2>4, StoreIs
  <2>6. \A p \in DOMAIN heap : Live(heap, p) => Live(heap', p)
    BY <1>5, <2>5 DEF Live
  <2>7. \A p \in DOMAIN heap : \A k \in DOMAIN heap'[p].kids :
          \/ heap'[p].kids[k] = Null
          \/ k \in DOMAIN heap[p].kids /\ heap'[p].kids[k] = heap[p].kids[k]
          \/ p = o /\ k = j /\ heap'[p].kids[k] = q
    BY <2>4, <2>5
  <2>8. Sound(heap') /\ \A r : Free(heap, r) /\ r # q => Free(heap', r)
    <3>1. q # Null => Free(heap, q)
      BY <2>2
    <3>2. IsHeap(heap) /\ Sound(heap) /\ DOMAIN heap' = DOMAIN heap
      BY <1>2, <2>5
    <3> HIDE DEF q, o
    <3> QED
      BY <2>6, <2>7, <3>1, <3>2, StoreKeepsSound
  <2>9. StackOK(heap', Below)
    <3>1. ASSUME NEW r \in Range(OwnedOf(Below)) PROVE Free(heap', r) /\ heap'[r] = heap[r]
      <4>1. Free(heap, r) /\ r # q /\ r # o
        BY <1>2, <1>4, <2>2 DEF StackOK
      <4> QED
        BY <4>1, <2>5, <2>8 DEF Free, Live
    <3> QED
      BY <1>2, <3>1, StackKept
  <2>10. Gaps(heap') \subseteq Open(Below)
    <3> SUFFICES ASSUME NEW r \in Gaps(heap') PROVE r \in Open(Below)
      OBVIOUS
    <3>1. PICK k \in DOMAIN heap'[r].kids : heap'[r].kids[k] = Null
      BY DEF Gaps
    <3>2. r \in DOMAIN heap /\ k \in DOMAIN heap[r].kids /\ heap[r].kids[k] = Null
      BY <2>2, <2>4, <2>5, <3>1 DEF Gaps
    <3>3. r \in Gaps(heap)
      BY <3>2 DEF Gaps
    <3> QED
      BY <1>2, <3>3
  <2>11. Free(heap', o)
    BY <1>4, <2>2, <2>8
  <2> DEFINE f == Advanced(Top, Top.i + 1, q, Top.second)
  <2>12. Top.first \in Int /\ Top.second \in Int /\ Top.i + 1 \in Nat
         /\ Top.fn # "time" /\ Top.fn # "regex"
    BY <1>1, <1>2, FrameFields
  <2>13. stack' = [stack EXCEPT ![1] = f]
    BY <1>2, <2>3, <2>12 DEF Advanced, Frames
  <2>14. f \in Frames /\ f.fn = "list" /\ f.obj = o
    <3>1. q \in Int /\ Top \in Frames /\ Top.fn = "list"
      BY <1>1, <1>2, <2>2
    <3> HIDE DEF q
    <3> QED
      BY <2>12, <3>1, FrameAdvanced
  <2> HIDE DEF f
  <2>15. stack' = <<f>> \o Below
    BY <1>1, <2>13, StackSplit DEF Below, TypeInv, StackIn
  <2>16. FrameOK(heap', f)
    BY <2>5, <2>14 DEF FrameOK
  <2>17. Held(f) = <<o>>
    BY <2>14, HeldIs
  <2>18. TopOK(heap', f, Below)
    BY <1>2, <1>3, <1>4, <2>11, <2>16, <2>17 DEF TopOK
  <2>19. Gaps(heap') \subseteq Open(Below) \union (IF f.fn = "tuple" THEN {f.obj} ELSE {})
    BY <2>10
  <2> QED
    BY <1>2, <2>3, <2>5, <2>8, <2>9, <2>14, <2>15, <2>18, <2>19, GoesOnKeeps
<1> QED
  BY <1>6, <1>7, <1>8, <1>9, <1>10 DEF List

\* A function other than a tuple's or a list's begins, and holds nothing yet.
LEMMA BeginsOK ==
  ASSUME NEW hp, NEW st, NEW fn \in {"complex", "time", "dict", "regex"}
  PROVE  Frame(fn, Null, 0) \in Frames /\ TopOK(hp, Frame(fn, Null, 0), st)
<1> DEFINE f == Frame(fn, Null, 0)
<1>1. f \in Frames
  BY FrameIsFrame, Values
<1>2. f.fn = fn /\ f.i = 0
  BY DEF Frame
<1> HIDE DEF f
<1>3. Held(f) = << >>
  BY <1>1, <1>2, HeldIs
<1>4. Range(Held(f)) = {} /\ Distinct(Held(f))
  BY <1>3, LooseNone DEF Loose
<1>5. TopOK(hp, f, st)
  BY <1>2, <1>4 DEF TopOK, FrameOK
<1> QED
  BY <1>1, <1>5 DEF f

\* bert_decode_complex destroys the keyword that it pulled, or goes on to one of the others.
LEMMA ComplexStepsKeep == TypeInv /\ DInv /\ Complex => DInv'
<1> SUFFICES ASSUME TypeInv, DInv, Complex PROVE DInv'
  OBVIOUS
<1>1. pc = "return" /\ stack # << >> /\ Top.fn \in {"complex", "time", "dict", "regex"}
  BY DEF Complex, NothingHeldFails, PointerUnset, KeywordIsNoAtom, KeywordIsConstant,
         KeywordIsComplex, KeywordIsUnknown, Got, Returned
<1>2. Top.fn # "tuple"
  BY <1>1
<1>3. PullFailed => ret.code # 1 /\ ret.code # 0
  BY <1>1 DEF PullFailed, DInv, Answered
<1>4. ASSUME ~PullFailed
      PROVE  /\ ret.data \in Int /\ ret.data # Unset /\ Loose(heap, Below, <<ret.data>>)
  BY <1>1, <1>4, Pulled, LooseOne
<1>5. ASSUME NEW fn \in {"complex", "dict", "regex"}, NothingHeldFails(fn) PROVE DInv'
  <2>1. PullFailed /\ FunctionReturns(ret.code, Unset) /\ heap' = heap
    BY <1>5 DEF NothingHeldFails
  <2> QED
    BY <1>1, <1>2, <1>3, <2>1, NothingHeldKeeps
<1>6. ASSUME NEW fn \in {"complex", "time", "dict", "regex"}, PointerUnset(fn) PROVE DInv'
  BY <1>4, <1>6 DEF PointerUnset
<1>7. CASE KeywordIsNoAtom
  <2>1. FunctionReturns(BERT_ERRNO_INVALID, Unset) /\ heap' = heap
    BY <1>7 DEF KeywordIsNoAtom
  <2> QED
    BY <1>1, <1>2, <2>1, Codes, NothingHeldKeeps
<1>8. CASE KeywordIsConstant
  <2> DEFINE type == IF heap[ret.data].text = "nil" THEN "nil" ELSE "boolean"
             cell == Term(type, "", << >>)
  <2>1. \/ ReleaseAndReturn(Append(heap, cell), <<ret.data>>, BERT_SUCCESS, NewId)
        \/ ReleaseAndReturn(heap, <<ret.data>>, BERT_ERRNO_MALLOC, Unset)
    BY <1>8 DEF KeywordIsConstant, With
  <2>2. Loose(heap, Below, <<ret.data>>)
    BY <1>4, <1>8 DEF KeywordIsConstant, Got
  <2>3. type \in {"nil", "boolean"}
    OBVIOUS
  <2> HIDE DEF type
  <2>4. cell \in Cell /\ cell.type # "freed" /\ cell.kids = << >>
    <3>1. << >> \in Seq(Int)
      OBVIOUS
    <3> QED
      BY <2>3, <3>1 DEF Term, Cell
  <2> HIDE DEF cell
  <2>5. CASE ReleaseAndReturn(Append(heap, cell), <<ret.data>>, BERT_SUCCESS, NewId)
    BY <1>1, <1>2, <2>2, <2>4, <2>5, MadeKeeps
  <2>6. CASE ReleaseAndReturn(heap, <<ret.data>>, BERT_ERRNO_MALLOC, Unset)
    BY <1>1, <1>2, <2>2, <2>6, Codes, FailKeeps
  <2> QED
    BY <2>1, <2>5, <2>6
<1>9. CASE KeywordIsComplex
  <2>1. PICK word \in Complexes : stack' = <<Frame(word, Null, 0)>> \o Below
    BY <1>9 DEF KeywordIsComplex
  <2> DEFINE f == Frame(word, Null, 0)
  <2>2. word \in {"complex", "time", "dict", "regex"} /\ word # "tuple" /\ f.fn = word
    BY DEF Complexes, Frame
  <2>3. f \in Frames /\ TopOK(heap', f, Below)
    BY <2>2, BeginsOK
  <2>4. stack' = <<f>> \o Below
    BY <2>1
  <2> HIDE DEF f
  <2>5. heap' = Destroyed(heap, <<ret.data>>) /\ pc' = "pull"
    BY <1>9 DEF KeywordIsComplex, Release
  <2>6. Loose(heap, Below, <<ret.data>>)
    BY <1>4, <1>9 DEF KeywordIsComplex, Got
  <2>7. /\ heap \in Seq(Cell) /\ Sound(heap) /\ StackOK(heap, Below) /\ Below \in Seq(Frames)
        /\ Gaps(heap) \subseteq Open(Below) \union Reach(heap, Range(<<ret.data>>))
    BY <1>1, <1>2, TopHolds
  <2>8. HeapOK(heap', Below)
    BY <2>5, <2>6, <2>7, Releases
  <2>9. Gaps(heap') \subseteq Open(Below) \union (IF f.fn = "tuple" THEN {f.obj} ELSE {})
    BY <2>8 DEF HeapOK
  <2> QED
    BY <2>3, <2>4, <2>5, <2>7, <2>8, <2>9, GoesOnKeeps DEF HeapOK
<1>10. CASE KeywordIsUnknown
  <2>1. ReleaseAndReturn(heap, <<ret.data>>, BERT_ERRNO_INVALID, Unset)
    BY <1>10 DEF KeywordIsUnknown
  <2>2. Loose(heap, Below, <<ret.data>>)
    BY <1>4, <1>10 DEF KeywordIsUnknown, Got
  <2> QED
    BY <1>1, <1>2, <2>1, <2>2, Codes, FailKeeps
<1> QED
  BY <1>5, <1>6, <1>7, <1>8, <1>9, <1>10 DEF Complex

(***************************************************************************)
(* The functions that make a term of the terms they pulled:                *)
(* bert_decode_time, bert_decode_dict and bert_decode_regex.               *)
(***************************************************************************)

\* the fault that a failed pull may lead to in bert_decode_time
TimeFault == pc = "fault" /\ stack # << >> /\ Top.fn = "time" /\ PullFailed

\* One pointer in front of none, one or two.
LEMMA PointersJoined ==
  ASSUME NEW a \in Int, NEW b \in Int, NEW c \in Int
  PROVE  <<a>> \o << >> = <<a>> /\ <<a>> \o <<b>> = <<a, b>> /\ <<a>> \o <<b, c>> = <<a, b, c>>
<1> DEFINE one == <<a>> \o <<b>>
           two == <<a>> \o <<b, c>>
<1>1. <<a>> \o << >> = <<a>>
  <2>1. <<a>> \in Seq(Int)
    OBVIOUS
  <2> QED
    BY <2>1, ConcatEmptySeq
<1>2. one = <<a, b>>
  <2>1. one \in Seq(Int) /\ Len(one) = 2 /\ one[1] = a /\ one[2] = b
    OBVIOUS
  <2> HIDE DEF one
  <2> QED
    BY <2>1
<1>3. two = <<a, b, c>>
  <2>1. two \in Seq(Int) /\ Len(two) = 3 /\ two[1] = a /\ two[2] = b /\ two[3] = c
    OBVIOUS
  <2> HIDE DEF two
  <2> QED
    BY <2>1
<1> QED
  BY <1>1, <1>2, <1>3

\* What bert_decode_time holds is of its own, with a pointer to something else or to nothing.
LEMMA TimeLoose ==
  ASSUME TypeInv, DInv, stack # << >>, Top.fn = "time", NEW x \in Int,
         x # Null => /\ Free(heap, x) /\ x \notin Range(OwnedOf(Below)) /\ x \notin Range(Held(Top))
  PROVE  Loose(heap, Below, <<x>> \o TimeHeld)
<1>1. Top \in Frames /\ TopOK(heap, Top, Below) /\ IsHeap(heap)
  BY TopHolds
<1>2. Top.i \in {0, 1, 2} /\ Top.first \in Int /\ Top.second \in Int
  BY <1>1 DEF Frames
<1>3. \A q \in Range(Held(Top)) : Free(heap, q) /\ q \notin Range(OwnedOf(Below)) /\ q # Null
  BY <1>1 DEF TopOK, Free, Live, IsHeap, Null
<1>4. CASE Top.i = 0
  <2>0. TimeHeld = << >>
    BY <1>4 DEF TimeHeld
  <2>1. <<x>> \o TimeHeld = <<x>>
    BY <1>2, <2>0, PointersJoined
  <2>2. x # Null => Free(heap, x) /\ x \notin Range(OwnedOf(Below))
    OBVIOUS
  <2>3. Loose(heap, Below, <<x>>)
    BY <2>2, LooseOne
  <2> QED
    BY <2>1, <2>3
<1>5. CASE Top.i = 1
  <2>0. TimeHeld = <<Top.first>>
    BY <1>5 DEF TimeHeld
  <2>1. <<x>> \o TimeHeld = <<x, Top.first>>
    BY <1>2, <2>0, PointersJoined
  <2>2. Range(Held(Top)) = {Top.first}
    <3>1. Held(Top) = <<Top.first>>
      BY <1>1, <1>5, HeldIs
    <3> QED
      BY <3>1 DEF Range
  <2>3. Loose(heap, Below, <<x, Top.first>>)
    BY <1>2, <1>3, <2>2, LooseTwo
  <2> QED
    BY <2>1, <2>3
<1>6. CASE Top.i = 2
  <2>0. TimeHeld = <<Top.second, Top.first>>
    BY <1>6 DEF TimeHeld
  <2>1. <<x>> \o TimeHeld = <<x, Top.second, Top.first>>
    BY <1>2, <2>0, PointersJoined
  <2>2. Held(Top) = <<Top.first, Top.second>>
    BY <1>1, <1>6, HeldIs
  <2>3. DOMAIN <<Top.first, Top.second>> = {1, 2}
        /\ <<Top.first, Top.second>>[1] = Top.first /\ <<Top.first, Top.second>>[2] = Top.second
    OBVIOUS
  <2>4. Range(Held(Top)) = {Top.first, Top.second}
    BY <2>2, <2>3 DEF Range
  <2>5. Top.first = Top.second => Top.first = Null
    BY <1>1, <2>2, <2>3 DEF TopOK, Distinct
  <2>6. Loose(heap, Below, <<x, Top.second, Top.first>>)
    BY <1>2, <1>3, <2>4, <2>5, LooseThree
  <2> QED
    BY <2>1, <2>6
<1> QED
  BY <1>2, <1>4, <1>5, <1>6

\* bert_decode_time destroys what it holds, unless a pull failed while it held an unset one.
LEMMA TimeStepsKeep ==
  ASSUME TypeInv, DInv, Time, ~(Wild \in Uninitialised /\ TimeFault')
  PROVE  DInv'
<1>1. pc = "return" /\ stack # << >> /\ Top.fn = "time" /\ Top.fn # "tuple"
  BY DEF Time, TimeFails, TimeIsNoInteger, TimeGoesOn, TimeIsMade, Got, Returned
<1>2. /\ heap \in Seq(Cell) /\ IsHeap(heap) /\ Sound(heap)
      /\ Top \in Frames /\ Below \in Seq(Frames) /\ Top = stack[1]
      /\ StackOK(heap, Below) /\ TopOK(heap, Top, Below) /\ Gaps(heap) \subseteq Open(Below)
  BY <1>1, TopHolds, TopTyped
<1>3. /\ Top.i \in 0 .. 2 /\ Top.i \in Nat /\ Top.first \in Int /\ Top.second \in Int
      /\ Top.fn # "regex"
  BY <1>1, <1>2 DEF Frames
<1>4. ASSUME ~PullFailed
      PROVE  /\ ret.data \in Int /\ ret.data # Null /\ Free(heap, ret.data)
             /\ ret.data \notin Range(OwnedOf(Below)) /\ ret.data \notin Range(Held(Top))
  BY <1>1, <1>4, Pulled
<1>5. CASE TimeFails
  <2>1. PICK unset \in Uninitialised : ReleaseAndReturn(heap, <<unset>> \o TimeHeld, ret.code, Unset)
    BY <1>5 DEF TimeFails
  <2>2. PullFailed
    BY <1>5 DEF TimeFails
  <2>3. ret.code # 1 /\ ret.code # 0
    BY <1>1, <2>2 DEF PullFailed, DInv, Answered
  <2>4. unset \in {Null, Wild} /\ unset \in Int
    BY BuildAssumption DEF Null, Wild
  <2>5. CASE unset = Null
    <3>1. Loose(heap, Below, <<unset>> \o TimeHeld)
      BY <1>1, <2>4, <2>5, TimeLoose
    <3>2. DInv'
      BY <1>1, <2>1, <2>3, <3>1, FailKeeps
    <3> QED
      BY <3>2
  <2>6. CASE unset = Wild
    <3> DEFINE roots == <<unset>> \o TimeHeld
    <3>1. TimeHeld \in Seq(Int)
      BY <1>3 DEF TimeHeld
    <3>2. roots \in Seq(Int) /\ 1 \in DOMAIN roots /\ roots[1] = Wild
      BY <2>4, <2>6, <3>1
    <3> HIDE DEF roots
    <3>3. Wild \in Range(roots) /\ Range(roots) \in SUBSET Int
      BY <3>2 DEF Range
    <3>4. Wild # Null /\ ~Live(heap, Wild)
      BY <1>2 DEF Wild, Null, Live, IsHeap
    <3>5. Wild \in Reach(heap, Range(roots))
      BY <1>2, <3>3, <3>4, ReachStored
    <3>6. ~Destroyable(heap, roots)
      BY <3>4, <3>5 DEF Destroyable
    <3>7. Crash
      BY <2>1, <3>6 DEF ReleaseAndReturn, roots
    <3>8. pc' = "fault" /\ stack' = stack /\ ret' = ret
      BY <3>7 DEF Crash
    <3> QED
      BY <1>1, <2>2, <2>6, <3>8 DEF TimeFault, Top, PullFailed
  <2> QED
    BY <2>4, <2>5, <2>6
<1>6. CASE TimeIsNoInteger
  <2>1. ReleaseAndReturn(heap, <<ret.data>> \o TimeHeld, BERT_ERRNO_INVALID, Unset) /\ ~PullFailed
    BY <1>6 DEF TimeIsNoInteger, Got
  <2>2. Loose(heap, Below, <<ret.data>> \o TimeHeld)
    BY <1>1, <1>4, <2>1, TimeLoose
  <2>3. DInv'
    BY <1>1, <2>1, <2>2, Codes, FailKeeps
  <2> QED
    BY <2>3
<1>7. CASE TimeGoesOn
  <2> DEFINE a == IF Top.i = 0 THEN ret.data ELSE Top.first
             b == IF Top.i = 1 THEN ret.data ELSE Top.second
             f == Advanced(Top, Top.i + 1, a, b)
  <2>1. Top.i < 2 /\ pc' = "pull" /\ heap' = heap /\ ~PullFailed
        /\ stack' = [stack EXCEPT ![1].i = @ + 1,
                                  ![1].first = IF Top.i = 0 THEN ret.data ELSE @,
                                  ![1].second = IF Top.i = 1 THEN ret.data ELSE @]
    BY <1>7 DEF TimeGoesOn, Got
  <2>2. ret.data \in Int /\ ret.data # Null
    BY <1>4, <2>1
  <2>3. stack' = [stack EXCEPT ![1] = f]
    BY <1>2, <2>1 DEF Advanced, Frames
  <2>4. a \in Int /\ b \in Int /\ Top.i + 1 \in 0 .. 2 /\ Top.i + 1 \in Nat
        /\ (Top.i = 0 => a = ret.data) /\ (Top.i = 1 => a = Top.first /\ b = ret.data)
    BY <1>3, <2>1, <2>2
  <2> HIDE DEF a, b
  <2>5. f \in Frames /\ f.fn = "time" /\ f.i = Top.i + 1 /\ f.first = a /\ f.second = b
    BY <1>1, <1>2, <1>3, <2>4, FrameAdvanced
  <2> HIDE DEF f
  <2>6. stack' = <<f>> \o Below
    BY <1>1, <2>3, StackSplit DEF Below, TypeInv, StackIn
  <2>7. FrameOK(heap, f)
    BY <2>5 DEF FrameOK
  <2>8. Distinct(Held(f)) /\ \A q \in Range(Held(f)) : q = ret.data \/ q \in Range(Held(Top))
    <3>1. CASE Top.i = 0
      <4>1. Held(f) = <<ret.data>>
        BY <2>4, <2>5, <3>1, HeldIs
      <4>2. Loose(heap, Below, Held(f)) /\ Range(Held(f)) = {ret.data}
        BY <1>4, <2>1, <4>1, LooseOne
      <4> QED
        BY <4>2 DEF Loose
    <3>2. CASE Top.i = 1
      <4>1. Held(f) = <<Top.first, ret.data>> /\ Held(Top) = <<Top.first>>
        BY <1>1, <1>2, <2>4, <2>5, <3>2, HeldIs
      <4>2. Range(Held(Top)) = {Top.first}
        BY <4>1 DEF Range
      <4>3. Free(heap, Top.first) /\ Top.first \notin Range(OwnedOf(Below)) /\ Top.first # ret.data
        BY <1>2, <1>4, <2>1, <4>2 DEF TopOK
      <4>4. Loose(heap, Below, Held(f)) /\ Range(Held(f)) = {Top.first, ret.data}
        BY <1>3, <1>4, <2>1, <4>1, <4>3, LooseTwo
      <4> QED
        BY <4>2, <4>4 DEF Loose
    <3> QED
      BY <1>3, <2>1, <3>1, <3>2
  <2>9. TopOK(heap, f, Below)
    BY <1>2, <1>4, <2>1, <2>7, <2>8 DEF TopOK
  <2>10. DInv'
    BY <1>2, <2>1, <2>5, <2>6, <2>9, GoesOnKeeps
  <2> QED
    BY <2>10
<1>8. CASE TimeIsMade
  <2> DEFINE text == IF heap[ret.data].type = "int" THEN "integers" ELSE "garbage"
             cell == Term("time", text, << >>)
  <2>1. \/ ReleaseAndReturn(Append(heap, cell), <<ret.data>> \o TimeHeld, BERT_SUCCESS, NewId)
        \/ ReleaseAndReturn(heap, <<ret.data>> \o TimeHeld, BERT_ERRNO_MALLOC, Unset)
    BY <1>8 DEF TimeIsMade, With
  <2>2. ~PullFailed
    BY <1>8 DEF TimeIsMade, Got
  <2>3. Loose(heap, Below, <<ret.data>> \o TimeHeld)
    BY <1>1, <1>4, <2>2, TimeLoose
  <2>4. text \in {"integers", "garbage"}
    OBVIOUS
  <2> HIDE DEF text
  <2>5. cell \in Cell /\ cell.type # "freed" /\ cell.kids = << >>
    <3>1. << >> \in Seq(Int)
      OBVIOUS
    <3> QED
      BY <2>4, <3>1 DEF Term, Cell
  <2> HIDE DEF cell
  <2>6. DInv'
    BY <1>1, <2>1, <2>3, <2>5, Codes, MadeKeeps, FailKeeps
  <2> QED
    BY <2>6
<1> QED
  BY <1>5, <1>6, <1>7, <1>8 DEF Time

\* The elements of the term that a pull returned: live, each in one place, and held by it.
LEMMA EntriesAre ==
  ASSUME TypeInv, DInv, pc = "return", stack # << >>, ~PullFailed
  PROVE  /\ Entries \in Seq(Int) /\ ret.data \in DOMAIN heap
         /\ \A k \in DOMAIN Entries : /\ Entries[k] # Null /\ Live(heap, Entries[k])
                                      /\ ~Free(heap, Entries[k])
         /\ \A k, l \in DOMAIN Entries : Entries[k] = Entries[l] => k = l
         /\ ret.data \notin Range(Entries)
<1>1. /\ ret.data \in 1 .. Len(heap) /\ Free(heap, ret.data) /\ ret.data \notin Gaps(heap)
      /\ heap \in Seq(Cell) /\ Sound(heap)
  BY Pulled, TopHolds
<1>2. ret.data \in DOMAIN heap /\ Entries \in Seq(Int) /\ Entries = heap[ret.data].kids
  BY <1>1, CellIs DEF Entries
<1>3. ASSUME NEW k \in DOMAIN Entries
      PROVE  Entries[k] # Null /\ Live(heap, Entries[k]) /\ Entries[k] \in Range(heap[ret.data].kids)
  <2>1. Entries[k] # Null
    BY <1>1, <1>2 DEF Gaps
  <2>2. Live(heap, Entries[k])
    BY <1>1, <1>2, <2>1 DEF Sound
  <2> QED
    BY <1>2, <2>1, <2>2 DEF Range
<1>4. ASSUME NEW k \in DOMAIN Entries, NEW l \in DOMAIN Entries, Entries[k] = Entries[l]
      PROVE  k = l
  <2>1. Entries[l] # Null
    BY <1>3
  <2> QED
    BY <1>1, <1>2, <1>4, <2>1 DEF Sound
<1>5. \A k \in DOMAIN Entries : ~Free(heap, Entries[k])
  BY <1>2, <1>3 DEF Free
<1>6. ret.data \notin Range(Entries)
  BY <1>1, <1>2 DEF Free
<1> QED
  BY <1>2, <1>3, <1>4, <1>5, <1>6

\* Places are emptied: the heap stays sound.
LEMMA EmptyKeepsSound ==
  ASSUME NEW hp, NEW h, IsHeap(hp), Sound(hp), DOMAIN h = DOMAIN hp,
         \A p \in DOMAIN hp : Live(hp, p) => Live(h, p),
         \A p \in DOMAIN hp : \A k \in DOMAIN h[p].kids :
           \/ h[p].kids[k] = Null
           \/ k \in DOMAIN hp[p].kids /\ h[p].kids[k] = hp[p].kids[k]
  PROVE  /\ Sound(h)
         /\ \A r : Free(hp, r) /\ r # Null => Free(h, r)
<1>1. PICK q, p0, k0 : q = Null
  OBVIOUS
<1>2. \A p \in DOMAIN hp : \A k \in DOMAIN h[p].kids :
        \/ h[p].kids[k] = Null
        \/ k \in DOMAIN hp[p].kids /\ h[p].kids[k] = hp[p].kids[k]
        \/ p = p0 /\ k = k0 /\ h[p].kids[k] = q
  OBVIOUS
<1>3. q # Null => Free(hp, q)
  BY <1>1
<1>4. Sound(h) /\ \A r : Free(hp, r) /\ r # q => Free(h, r)
  BY <1>2, <1>3, StoreKeepsSound
<1> QED
  BY <1>1, <1>4

\* The first pairs are emptied: what they held is held by nobody, and can go to the dict.
LEMMA DictHeap ==
  ASSUME TypeInv, DInv, pc = "return", stack # << >>, ~PullFailed, Top.fn # "tuple",
         NEW taken \in 0 .. Len(Entries), \A k \in 1 .. taken : IsPair(Entries[k])
  PROVE  LET h == EntriesEmptied(SubSeq(Entries, 1, taken))
             moved == KeysAndValues(SubSeq(Entries, 1, taken))
         IN  /\ h \in Seq(Cell) /\ Len(h) = Len(heap) /\ Sound(h) /\ StackOK(h, Below)
             /\ Loose(h, Below, moved) /\ Null \notin Range(moved)
             /\ Free(h, ret.data) /\ ret.data \notin Range(moved) /\ h[ret.data] = heap[ret.data]
             /\ Gaps(h) \subseteq Open(Below) \union Range(Entries)
<1> DEFINE e == SubSeq(Entries, 1, taken)
           h == EntriesEmptied(e)
           moved == KeysAndValues(e)
           n == 2 * Len(e)
           pair(k) == e[(k + 1) \div 2]
           place(k) == 2 - (k % 2)
<1>1. /\ heap \in Seq(Cell) /\ IsHeap(heap) /\ Sound(heap) /\ StackOK(heap, Below)
      /\ Gaps(heap) \subseteq Open(Below) /\ Free(heap, ret.data) /\ ret.data # Null
      /\ DOMAIN heap = 1 .. Len(heap) /\ Len(heap) \in Nat
  BY TopHolds, Pulled DEF IsHeap
<1>2. /\ e \in Seq(Int) /\ ret.data \in DOMAIN heap /\ ret.data \notin Range(e)
      /\ \A k \in DOMAIN e : e[k] # Null /\ Live(heap, e[k]) /\ ~Free(heap, e[k])
      /\ \A k, l \in DOMAIN e : e[k] = e[l] => k = l
      /\ DOMAIN e = 1 .. taken /\ Range(e) \subseteq Range(Entries)
      /\ \A k \in 1 .. taken : e[k] = Entries[k]
  <2>1. /\ Entries \in Seq(Int) /\ ret.data \in DOMAIN heap /\ ret.data \notin Range(Entries)
        /\ \A k \in DOMAIN Entries : /\ Entries[k] # Null /\ Live(heap, Entries[k])
                                     /\ ~Free(heap, Entries[k])
        /\ \A k, l \in DOMAIN Entries : Entries[k] = Entries[l] => k = l
    BY EntriesAre
  <2>2. /\ e \in Seq(Int) /\ DOMAIN e = 1 .. taken /\ 1 .. taken \subseteq DOMAIN Entries
        /\ \A k \in 1 .. taken : e[k] = Entries[k]
        /\ Range(e) \subseteq Range(Entries)
    BY <2>1, Prefix
  <2> HIDE DEF e
  <2> QED
    BY <2>1, <2>2
<1> HIDE DEF e
<1>3. /\ h \in Seq(Cell) /\ Len(h) = Len(heap)
      /\ \A p \in DOMAIN heap : h[p].type = heap[p].type
      /\ \A p \in DOMAIN heap : p \notin Range(e) => h[p] = heap[p]
      /\ \A p \in Range(e) : p \in DOMAIN heap /\ h[p].kids = <<Null, Null>>
      /\ moved \in Seq(Int) /\ Len(moved) = n
      /\ \A k \in 1 .. n : /\ (k + 1) \div 2 \in DOMAIN e /\ place(k) \in 1 .. 2
                           /\ moved[k] = heap[pair(k)].kids[place(k)]
  <2>1. \A k \in DOMAIN e : IsPair(e[k])
    BY <1>2
  <2> QED
    BY <1>1, <1>2, <2>1, DictMoved
<1>4. \A k \in DOMAIN e : IsPair(e[k])
  BY <1>2
<1>5. DOMAIN h = DOMAIN heap /\ DOMAIN moved = 1 .. n /\ Len(e) \in Nat
  BY <1>1, <1>2, <1>3
<1>6. ASSUME NEW k \in 1 .. n, NEW l \in 1 .. n,
             (k + 1) \div 2 = (l + 1) \div 2, place(k) = place(l)
      PROVE  k = l
  BY <1>5, <1>6
<1> HIDE DEF e, h, moved, n
<1>7. ASSUME NEW p \in DOMAIN heap, NEW k \in DOMAIN h[p].kids
      PROVE  \/ h[p].kids[k] = Null
             \/ p \notin Range(e) /\ k \in DOMAIN heap[p].kids /\ h[p].kids[k] = heap[p].kids[k]
  <2>1. CASE p \in Range(e)
    <3>1. DOMAIN <<Null, Null>> = {1, 2} /\ <<Null, Null>>[1] = Null /\ <<Null, Null>>[2] = Null
      OBVIOUS
    <3>2. h[p].kids = <<Null, Null>>
      BY <1>3, <2>1
    <3> QED
      BY <3>1, <3>2
  <2>2. CASE p \notin Range(e)
    BY <1>3, <2>2
  <2> QED
    BY <2>1, <2>2
<1>8. \A p \in DOMAIN heap : Live(heap, p) => Live(h, p)
  BY <1>3, <1>5 DEF Live
<1>9. Sound(h) /\ \A r : Free(heap, r) /\ r # Null => Free(h, r)
  <2>1. \A p \in DOMAIN heap : \A k \in DOMAIN h[p].kids :
          \/ h[p].kids[k] = Null
          \/ k \in DOMAIN heap[p].kids /\ h[p].kids[k] = heap[p].kids[k]
    BY <1>7
  <2>2. IsHeap(heap) /\ Sound(heap) /\ DOMAIN h = DOMAIN heap
    BY <1>1, <1>5
  <2> QED
    BY <1>8, <2>1, <2>2, EmptyKeepsSound
<1>10. \A q : Free(heap, q) => q # Null /\ q \in DOMAIN heap /\ q \notin Range(e)
  BY <1>1, <1>2 DEF Free, Live, IsHeap, Null, Range
<1>11. StackOK(h, Below)
  <2>1. ASSUME NEW r \in Range(OwnedOf(Below)) PROVE Free(h, r) /\ h[r] = heap[r]
    BY <1>1, <1>3, <1>9, <1>10 DEF StackOK
  <2> QED
    BY <1>1, <2>1, StackKept
<1>12. ASSUME NEW k \in 1 .. n
       PROVE  /\ pair(k) \in DOMAIN heap /\ pair(k) \in Range(e)
              /\ place(k) \in DOMAIN heap[pair(k)].kids /\ moved[k] = heap[pair(k)].kids[place(k)]
  <2>1. (k + 1) \div 2 \in DOMAIN e /\ place(k) \in 1 .. 2
    BY <1>3
  <2>2. pair(k) \in Range(e) /\ IsPair(pair(k))
    BY <1>4, <2>1 DEF Range
  <2>3. pair(k) \in DOMAIN heap /\ Len(heap[pair(k)].kids) = 2
    BY <2>2 DEF IsPair, Live
  <2>4. heap[pair(k)].kids \in Seq(Int)
    BY <1>1, <2>3, CellIs
  <2>5. DOMAIN heap[pair(k)].kids = 1 .. 2
    BY <2>3, <2>4
  <2> QED
    BY <1>3, <2>1, <2>2, <2>3, <2>5
<1>13. ASSUME NEW k \in 1 .. n
       PROVE  moved[k] # Null
  <2> SUFFICES ASSUME moved[k] = Null PROVE FALSE
    OBVIOUS
  <2>1. pair(k) \in Gaps(heap)
    BY <1>12 DEF Gaps
  <2>2. pair(k) \in Open(Below)
    BY <1>1, <2>1
  <2>3. Free(heap, pair(k))
    BY <1>1, <2>2, OpenOwned
  <2> QED
    BY <1>10, <1>12, <2>3
<1>14. ASSUME NEW k \in 1 .. n
       PROVE  /\ moved[k] \in Range(heap[pair(k)].kids) /\ ~Free(heap, moved[k]) /\ Free(h, moved[k])
  <2>1. moved[k] \in Range(heap[pair(k)].kids)
    BY <1>12 DEF Range
  <2>2. ~Free(heap, moved[k])
    BY <1>12, <2>1 DEF Free
  <2>3. Live(heap, moved[k])
    BY <1>1, <1>12, <1>13 DEF Sound
  <2>4. Live(h, moved[k])
    BY <1>8, <2>3 DEF Live
  <2>5. ASSUME NEW p \in DOMAIN h, moved[k] \in Range(h[p].kids) PROVE FALSE
    <3>1. PICK l \in DOMAIN h[p].kids : h[p].kids[l] = moved[k]
      BY <2>5 DEF Range
    <3>2. p \in DOMAIN heap /\ p \notin Range(e) /\ l \in DOMAIN heap[p].kids /\ heap[p].kids[l] = moved[k]
      BY <1>5, <1>7, <1>13, <3>1
    <3>3. p = pair(k)
      BY <1>1, <1>12, <1>13, <3>2 DEF Sound
    <3> QED
      BY <1>12, <3>2, <3>3
  <2>6. Free(h, moved[k])
    BY <2>4, <2>5 DEF Free
  <2> QED
    BY <2>1, <2>2, <2>6
<1>15. ASSUME NEW k \in 1 .. n, NEW l \in 1 .. n, moved[k] = moved[l] PROVE k = l
  <2> DEFINE p == pair(k)
             a == place(k)
             r == pair(l)
             b == place(l)
  <2>0. /\ p \in DOMAIN heap /\ a \in DOMAIN heap[p].kids /\ moved[k] = heap[p].kids[a]
        /\ r \in DOMAIN heap /\ b \in DOMAIN heap[r].kids /\ moved[l] = heap[r].kids[b]
        /\ moved[k] # Null
    BY <1>12, <1>13
  <2>1. pair(k) = pair(l) /\ place(k) = place(l)
    <3> HIDE DEF p, a, r, b
    <3>1. heap[p].kids[a] # Null /\ heap[r].kids[b] = heap[p].kids[a]
      BY <1>15, <2>0
    <3>2. \A q \in DOMAIN heap : \A c \in DOMAIN heap[q].kids :
            heap[q].kids[c] = heap[p].kids[a] => q = p /\ c = a
      BY <1>1, <2>0, <3>1 DEF Sound
    <3>3. r = p /\ b = a
      BY <2>0, <3>1, <3>2
    <3> QED
      BY <3>3 DEF p, a, r, b
  <2>2. (k + 1) \div 2 = (l + 1) \div 2
    BY <1>2, <1>3, <2>1
  <2> QED
    BY <1>6, <2>1, <2>2
<1>16. Loose(h, Below, moved)
  <2>1. Distinct(moved)
    BY <1>5, <1>15 DEF Distinct
  <2>2. ASSUME NEW q \in Range(moved) PROVE Free(h, q) /\ q \notin Range(OwnedOf(Below))
    <3>1. PICK k \in 1 .. n : moved[k] = q
      BY <1>5 DEF Range
    <3> QED
      BY <1>1, <1>14, <3>1 DEF StackOK
  <2> QED
    BY <1>3, <2>1, <2>2 DEF Loose
<1>17. Null \notin Range(moved) /\ ret.data \notin Range(moved)
  BY <1>1, <1>5, <1>13, <1>14 DEF Range
<1>18. Free(h, ret.data) /\ h[ret.data] = heap[ret.data]
  BY <1>1, <1>2, <1>3, <1>9
<1>19. Gaps(h) \subseteq Open(Below) \union Range(e)
  <2> SUFFICES ASSUME NEW r \in Gaps(h), r \notin Range(e) PROVE r \in Open(Below)
    OBVIOUS
  <2>1. r \in DOMAIN heap /\ h[r] = heap[r]
    BY <1>3, <1>5 DEF Gaps
  <2>2. r \in Gaps(heap)
    BY <2>1 DEF Gaps
  <2> QED
    BY <1>1, <2>2
<1>20. Gaps(h) \subseteq Open(Below) \union Range(Entries)
  BY <1>2, <1>19
<1> QED
  BY <1>3, <1>9, <1>11, <1>16, <1>17, <1>18, <1>20 DEF e, h, moved

\* The keys and values of the first n pairs come first among those of the first `taken`.
LEMMA MovedPrefix ==
  ASSUME heap \in Seq(Cell), Entries \in Seq(Int),
         NEW taken \in 0 .. Len(Entries), \A k \in 1 .. taken : IsPair(Entries[k]),
         NEW n \in 0 .. taken
  PROVE  LET moved == KeysAndValues(SubSeq(Entries, 1, taken))
             part == KeysAndValues(SubSeq(Entries, 1, n))
         IN  /\ moved \in Seq(Int) /\ Len(moved) = 2 * taken /\ DOMAIN moved = 1 .. 2 * taken
             /\ part \in Seq(Int) /\ Len(part) = 2 * n /\ DOMAIN part = 1 .. 2 * n
             /\ \A k \in 1 .. 2 * n : k \in 1 .. 2 * taken /\ part[k] = moved[k]
<1> DEFINE e == SubSeq(Entries, 1, taken)
           f == SubSeq(Entries, 1, n)
           moved == KeysAndValues(e)
           part == KeysAndValues(f)
<1>1. Len(Entries) \in Nat /\ \A k \in 1 .. n : k \in 1 .. taken
  OBVIOUS
<1>2. /\ e \in Seq(Int) /\ Len(e) = taken /\ DOMAIN e = 1 .. taken
      /\ \A k \in 1 .. taken : e[k] = Entries[k]
  BY <1>1, Prefix
<1>3. /\ f \in Seq(Int) /\ Len(f) = n /\ DOMAIN f = 1 .. n
      /\ \A k \in 1 .. n : f[k] = Entries[k]
  <2>1. n \in 0 .. Len(Entries)
    BY <1>1
  <2> QED
    BY <1>1, <2>1, Prefix
<1> HIDE DEF e, f
<1>4. /\ moved \in Seq(Int) /\ Len(moved) = 2 * taken
      /\ \A k \in 1 .. 2 * taken :
           (k + 1) \div 2 \in DOMAIN e /\ moved[k] = heap[e[(k + 1) \div 2]].kids[2 - (k % 2)]
  <2>1. \A k \in DOMAIN e : IsPair(e[k])
    BY <1>2
  <2> QED
    BY <1>1, <1>2, <2>1, DictMoved
<1>5. /\ part \in Seq(Int) /\ Len(part) = 2 * n
      /\ \A k \in 1 .. 2 * n :
           (k + 1) \div 2 \in DOMAIN f /\ part[k] = heap[f[(k + 1) \div 2]].kids[2 - (k % 2)]
  <2>1. \A k \in DOMAIN f : IsPair(f[k])
    BY <1>1, <1>3
  <2> QED
    BY <1>1, <1>3, <2>1, DictMoved
<1>6. \A k \in 1 .. 2 * n : k \in 1 .. 2 * taken
  BY <1>1
<1> HIDE DEF moved, part
<1>7. ASSUME NEW k \in 1 .. 2 * n PROVE part[k] = moved[k]
  <2> DEFINE j == (k + 1) \div 2
  <2>1. k \in 1 .. 2 * taken /\ j \in 1 .. n /\ j \in 1 .. taken
    BY <1>1, <1>3, <1>5, <1>6
  <2>2. f[j] = e[j]
    BY <1>2, <1>3, <2>1
  <2> HIDE DEF j
  <2>3. part[k] = heap[f[j]].kids[2 - (k % 2)] /\ moved[k] = heap[e[j]].kids[2 - (k % 2)]
    BY <1>4, <1>5, <2>1 DEF j
  <2> QED
    BY <2>2, <2>3
<1>8. DOMAIN moved = 1 .. 2 * taken /\ DOMAIN part = 1 .. 2 * n
  BY <1>1, <1>4, <1>5
<1> QED
  BY <1>4, <1>5, <1>6, <1>7, <1>8 DEF moved, part, e, f

\* The key and the value of the last pair taken are the last of those moved.
LEMMA LastPair ==
  ASSUME heap \in Seq(Cell), Entries \in Seq(Int),
         NEW n \in DOMAIN Entries, \A k \in 1 .. n : IsPair(Entries[k])
  PROVE  LET moved == KeysAndValues(SubSeq(Entries, 1, n))
         IN  /\ moved[2 * n - 1] = heap[Entries[n]].kids[1]
             /\ moved[2 * n] = heap[Entries[n]].kids[2]
             /\ {2 * n - 1, 2 * n} \subseteq 1 .. 2 * n
             /\ 2 * (n - 1) + 1 .. 2 * n = {2 * n - 1, 2 * n} /\ 2 * n - 1 # 2 * n
<1> DEFINE e == SubSeq(Entries, 1, n)
           moved == KeysAndValues(e)
<1>1. n \in Nat /\ n >= 1 /\ n \in 0 .. Len(Entries) /\ n \in 1 .. n
  OBVIOUS
<1>2. e \in Seq(Int) /\ Len(e) = n /\ DOMAIN e = 1 .. n /\ \A k \in 1 .. n : e[k] = Entries[k]
  BY <1>1, Prefix
<1> HIDE DEF e
<1>3. \A k \in DOMAIN e : IsPair(e[k])
  BY <1>2
<1>4. \A k \in 1 .. 2 * n : moved[k] = heap[e[(k + 1) \div 2]].kids[2 - (k % 2)]
  BY <1>2, <1>3, DictMoved
<1> HIDE DEF moved
<1>5. 2 * n - 1 \in 1 .. 2 * n /\ 2 * n \in 1 .. 2 * n /\ 2 * n - 1 # 2 * n
  BY <1>1
<1>6. ((2 * n - 1) + 1) \div 2 = n /\ ((2 * n) + 1) \div 2 = n
  <2>1. ((2 * n - 1) + 1) \div 2 = n
    BY <1>1
  <2>2. ((2 * n) + 1) \div 2 = n
    BY <1>1
  <2> QED
    BY <2>1, <2>2
<1>7. 2 - ((2 * n - 1) % 2) = 1
  <2>1. (2 * n - 1) % 2 = 1
    BY <1>1
  <2> QED
    BY <2>1
<1>8. 2 - ((2 * n) % 2) = 2
  <2>1. (2 * n) % 2 = 0
    BY <1>1
  <2> QED
    BY <2>1
<1>9. e[n] = Entries[n]
  BY <1>1, <1>2
<1>10. moved[2 * n - 1] = heap[e[n]].kids[1]
  BY <1>4, <1>5, <1>6, <1>7
<1>11. moved[2 * n] = heap[e[n]].kids[2]
  BY <1>4, <1>5, <1>6, <1>8
<1>12. 2 * (n - 1) + 1 .. 2 * n = {2 * n - 1, 2 * n}
  <2>1. 2 * (n - 1) + 1 = 2 * n - 1 /\ 2 * n \in Int
    BY <1>1
  <2>2. \A m \in Int : m - 1 .. m = {m - 1, m}
    OBVIOUS
  <2> QED
    BY <2>1, <2>2
<1> QED
  BY <1>5, <1>9, <1>10, <1>11, <1>12 DEF moved, e

\* A dict on its way: it holds what was moved into it, the key and value of the pair just taken
\* are held by nobody yet, and the empty tuples are still in the list.
LEMMA DictHalfWay ==
  ASSUME TypeInv, DInv, pc = "return", stack # << >>, ~PullFailed, Top.fn # "tuple",
         NEW taken \in 0 .. Len(Entries), \A k \in 1 .. taken : IsPair(Entries[k]),
         NEW n \in 0 .. taken
  PROVE  LET more == DictOf(n, taken)
             moved == KeysAndValues(SubSeq(Entries, 1, taken))
         IN  /\ more \in Seq(Cell) /\ Sound(more) /\ StackOK(more, Below)
             /\ Free(more, NewId) /\ NewId \notin Range(OwnedOf(Below)) /\ NewId \in Int
             /\ NewId # Null /\ NewId # ret.data
             /\ Free(more, ret.data) /\ more[ret.data] = heap[ret.data]
             /\ moved \in Seq(Int) /\ Len(moved) = 2 * taken
             /\ \A k \in 2 * n + 1 .. 2 * taken :
                  /\ moved[k] \in Int /\ moved[k] # Null /\ moved[k] # NewId /\ moved[k] # ret.data
                  /\ Free(more, moved[k]) /\ moved[k] \notin Range(OwnedOf(Below))
             /\ \A k, l \in 1 .. 2 * taken : moved[k] = moved[l] => k = l
             /\ Gaps(more) \subseteq Open(Below) \union Range(Entries)
<1> DEFINE e == SubSeq(Entries, 1, taken)
           f == SubSeq(Entries, 1, n)
           h == EntriesEmptied(e)
           moved == KeysAndValues(e)
           part == KeysAndValues(f)
           cell == Term("dict", "", part)
           more == Append(h, cell)
<1>1. /\ heap \in Seq(Cell) /\ Len(heap) \in Nat /\ Entries \in Seq(Int) /\ Len(Entries) \in Nat
  BY EntriesAre, TopHolds
<1>2. /\ moved \in Seq(Int) /\ Len(moved) = 2 * taken /\ DOMAIN moved = 1 .. 2 * taken
      /\ part \in Seq(Int) /\ Len(part) = 2 * n /\ DOMAIN part = 1 .. 2 * n
      /\ \A k \in 1 .. 2 * n : k \in 1 .. 2 * taken /\ part[k] = moved[k]
  BY <1>1, MovedPrefix
<1>3. /\ h \in Seq(Cell) /\ Len(h) = Len(heap) /\ Sound(h) /\ StackOK(h, Below)
      /\ Loose(h, Below, moved) /\ Null \notin Range(moved)
      /\ Free(h, ret.data) /\ ret.data \notin Range(moved) /\ h[ret.data] = heap[ret.data]
      /\ Gaps(h) \subseteq Open(Below) \union Range(Entries)
  BY DictHeap
<1> HIDE DEF e, f, h, moved, part
<1>4. ASSUME NEW k \in 1 .. 2 * taken
      PROVE  moved[k] # Null /\ moved[k] \in Range(moved) /\ moved[k] \in Int
  BY <1>3, <1>2 DEF Range
<1>5. \A k, l \in 1 .. 2 * taken : moved[k] = moved[l] => k = l
  BY <1>3, <1>2, <1>4 DEF Loose, Distinct
<1>6. Loose(h, Below, part) /\ Null \notin Range(part) /\ Range(part) \subseteq Range(moved)
  <2>1. Range(part) \subseteq Range(moved)
    BY <1>2 DEF Range
  <2>2. Distinct(part)
    BY <1>2, <1>5 DEF Distinct
  <2> QED
    BY <1>2, <1>3, <2>1, <2>2 DEF Loose
<1>7. ASSUME NEW k \in 2 * n + 1 .. 2 * taken
      PROVE  k \in 1 .. 2 * taken /\ moved[k] \notin Range(part)
  <2>1. k \in 1 .. 2 * taken /\ \A l \in 1 .. 2 * n : k # l
    BY <1>1
  <2>2. \A l \in 1 .. 2 * n : moved[k] # part[l]
    BY <1>2, <1>5, <2>1
  <2> QED
    BY <1>2, <2>1, <2>2 DEF Range
<1>8. cell \in Cell /\ cell.type # "freed" /\ cell.kids = part
  BY <1>2 DEF Term, Cell
<1> HIDE DEF cell
<1>9. /\ more \in Seq(Cell) /\ Sound(more) /\ StackOK(more, Below)
      /\ \A p \in DOMAIN h : p \in DOMAIN more /\ more[p] = h[p]
      /\ Free(more, NewId) /\ NewId \notin Range(OwnedOf(Below)) /\ ~Free(h, NewId) /\ NewId # Null
      /\ \A q : Free(h, q) /\ q \notin Range(part) => Free(more, q)
      /\ Gaps(more) \subseteq Gaps(h)
  BY <1>3, <1>6, <1>8, AppendKeeps DEF NewId
<1>10. more = DictOf(n, taken)
  BY DEF DictOf, more, h, cell, part, e, f
<1> HIDE DEF more
<1>11. Free(more, ret.data) /\ NewId # ret.data /\ more[ret.data] = heap[ret.data]
  <2>1. ret.data \in DOMAIN h /\ ret.data \notin Range(part)
    BY <1>3, <1>6 DEF Free, Live
  <2> QED
    BY <1>3, <1>9, <2>1
<1>12. ASSUME NEW k \in 2 * n + 1 .. 2 * taken
       PROVE  /\ moved[k] \in Int /\ moved[k] # Null /\ moved[k] # NewId /\ moved[k] # ret.data
              /\ Free(more, moved[k]) /\ moved[k] \notin Range(OwnedOf(Below))
  <2>1. moved[k] \in Range(moved) /\ moved[k] # Null /\ moved[k] \in Int
    BY <1>4, <1>7
  <2>2. Free(h, moved[k]) /\ moved[k] \notin Range(OwnedOf(Below)) /\ moved[k] # ret.data
    BY <1>3, <2>1 DEF Loose
  <2> QED
    BY <1>7, <1>9, <2>1, <2>2
<1>13. NewId \in Int
  BY <1>1 DEF NewId
<1>14. Gaps(more) \subseteq Open(Below) \union Range(Entries)
  BY <1>3, <1>9
<1> QED
  BY <1>2, <1>5, <1>9, <1>10, <1>11, <1>12, <1>13, <1>14 DEF moved, e

\* The tuples emptied on the way go with their list.
LEMMA EntriesGo ==
  ASSUME TypeInv, DInv, pc = "return", stack # << >>, ~PullFailed,
         heap[ret.data].type # "regex",
         NEW more \in Seq(Cell), Free(more, ret.data), more[ret.data] = heap[ret.data],
         NEW roots, Loose(more, Below, roots), ret.data \in Range(roots),
         Gaps(more) \subseteq Open(Below) \union Range(Entries)
  PROVE  Gaps(more) \subseteq Open(Below) \union Reach(more, Range(roots))
<1>1. IsHeap(more) /\ Range(roots) \in SUBSET Int
  <2>1. Range(roots) \subseteq Int
    BY DEF Loose, Range
  <2> QED
    BY <2>1, CellsAreHeap
<1>2. ret.data # Null /\ Live(more, ret.data)
  BY Pulled DEF Free
<1>3. ret.data \in Reach(more, Range(roots))
  BY <1>1, <1>2, ReachStored
<1>4. Followed(more, ret.data) = Entries
  BY <1>2 DEF Followed, Entries
<1>5. Range(Entries) \subseteq Reach(more, Range(roots)) \union {Null}
  BY <1>1, <1>2, <1>3, <1>4, ReachClosed
<1>6. Null \notin Range(Entries)
  BY EntriesAre DEF Range
<1> QED
  BY <1>5, <1>6

\* bert_decode_dict moves keys and values out of the pairs, and destroys what it has with the list.
LEMMA DictStepsKeep == TypeInv /\ DInv /\ Dict => DInv'
<1> SUFFICES ASSUME TypeInv, DInv, Dict PROVE DInv'
  OBVIOUS
<1>1. pc = "return" /\ stack # << >> /\ ~PullFailed /\ Top.fn # "tuple"
  BY DEF Dict, DictIsNoList, DictMallocFails, DictEntryIsNoPair, DictAppendFails, DictIsMade,
         Got, Returned
<1>2. /\ ret.data \in Int /\ ret.data # Null /\ Free(heap, ret.data)
      /\ ret.data \notin Range(OwnedOf(Below)) /\ ret.data \in 1 .. Len(heap)
  BY <1>1, Pulled
<1>3. Loose(heap, Below, <<ret.data>>) /\ Range(<<ret.data>>) = {ret.data}
  BY <1>2, LooseOne
<1>4. Entries \in Seq(Int) /\ Len(Entries) \in Nat /\ DOMAIN Entries = 1 .. Len(Entries)
  BY <1>1, EntriesAre
<1>5. CASE DictIsNoList
  <2>1. ReleaseAndReturn(heap, <<ret.data>>, BERT_ERRNO_INVALID, Unset)
    BY <1>5 DEF DictIsNoList
  <2> QED
    BY <1>1, <1>3, <2>1, Codes, FailKeeps
<1>6. CASE DictMallocFails
  <2>1. ReleaseAndReturn(heap, <<ret.data>>, BERT_ERRNO_MALLOC, Unset)
    BY <1>6 DEF DictMallocFails
  <2> QED
    BY <1>1, <1>3, <2>1, Codes, FailKeeps
<1>7. ASSUME NEW taken \in 0 .. Len(Entries), \A k \in 1 .. taken : IsPair(Entries[k]),
             NEW n \in 0 .. taken, heap[ret.data].type # "regex",
             NEW roots, Loose(DictOf(n, taken), Below, roots), ret.data \in Range(roots),
             NEW code, NEW data, ReleaseAndReturn(DictOf(n, taken), roots, code, data),
             \/ code = BERT_SUCCESS /\ data = NewId /\ NewId \notin Range(roots)
             \/ code # BERT_SUCCESS /\ code # 1 /\ data = Unset
      PROVE  DInv'
  <2>1. /\ DictOf(n, taken) \in Seq(Cell) /\ Sound(DictOf(n, taken)) /\ StackOK(DictOf(n, taken), Below)
        /\ Free(DictOf(n, taken), NewId) /\ NewId \notin Range(OwnedOf(Below))
        /\ Free(DictOf(n, taken), ret.data) /\ DictOf(n, taken)[ret.data] = heap[ret.data]
        /\ Gaps(DictOf(n, taken)) \subseteq Open(Below) \union Range(Entries)
    BY <1>1, <1>7, DictHalfWay
  <2>2. Gaps(DictOf(n, taken)) \subseteq Open(Below) \union Reach(DictOf(n, taken), Range(roots))
    BY <1>1, <1>7, <2>1, EntriesGo
  <2> QED
    BY <1>1, <1>7, <2>1, <2>2, ReturnKeeps
<1>8. CASE DictEntryIsNoPair
  <2> DEFINE bad == FirstNoPair
             more == DictOf(bad - 1, bad - 1)
             roots == <<NewId, ret.data>>
  <2>1. /\ bad # 0 /\ heap[ret.data].type # "regex"
        /\ IF Live(heap, Entries[bad])
             THEN ReleaseAndReturn(more, roots, BERT_ERRNO_INVALID, Unset)
             ELSE Crash
    BY <1>8 DEF DictEntryIsNoPair
  <2>2. /\ bad \in DOMAIN Entries /\ bad - 1 \in 0 .. Len(Entries)
        /\ \A k \in 1 .. bad - 1 : IsPair(Entries[k])
    BY <1>4, <2>1, FirstNoPairIs
  <2> HIDE DEF bad
  <2>3. ReleaseAndReturn(more, roots, BERT_ERRNO_INVALID, Unset)
    BY <1>1, <2>1, <2>2, EntriesAre
  <2>4. bad - 1 \in 0 .. bad - 1
    BY <1>4, <2>2
  <2>5. /\ Free(more, NewId) /\ NewId \notin Range(OwnedOf(Below)) /\ NewId \in Int
        /\ Free(more, ret.data) /\ NewId # ret.data
    BY <1>1, <2>2, <2>4, DictHalfWay
  <2> HIDE DEF more
  <2>6. Loose(more, Below, roots) /\ Range(roots) = {NewId, ret.data}
    <3>1. /\ NewId \in Int /\ ret.data \in Int /\ (NewId = ret.data => NewId = Null)
          /\ NewId # Null => Free(more, NewId) /\ NewId \notin Range(OwnedOf(Below))
          /\ ret.data # Null => Free(more, ret.data) /\ ret.data \notin Range(OwnedOf(Below))
      BY <1>2, <2>5
    <3> DEFINE a == NewId
               b == ret.data
    <3>2. /\ a \in Int /\ b \in Int /\ (a = b => a = Null)
          /\ a # Null => Free(more, a) /\ a \notin Range(OwnedOf(Below))
          /\ b # Null => Free(more, b) /\ b \notin Range(OwnedOf(Below))
      BY <3>1
    <3>3. roots = <<a, b>>
      OBVIOUS
    <3> HIDE DEF a, b, roots
    <3>4. Loose(more, Below, <<a, b>>) /\ Range(<<a, b>>) = {a, b}
      BY <3>2, LooseTwo
    <3> QED
      BY <3>3, <3>4 DEF a, b
  <2> HIDE DEF roots
  <2>7. ret.data \in Range(roots)
    BY <2>6
  <2> QED
    BY <1>7, <2>1, <2>2, <2>3, <2>4, <2>6, <2>7, Codes DEF more
<1>9. CASE DictAppendFails
  <2>1. /\ heap[ret.data].type # "regex"
        /\ \E n \in DOMAIN Entries :
             /\ \A k \in 1 .. n : IsPair(Entries[k])
             /\ ReleaseAndReturn(DictOf(n - 1, n), <<heap[Entries[n]].kids[2], heap[Entries[n]].kids[1],
                                                     NewId, ret.data>>, BERT_ERRNO_MALLOC, Unset)
    BY <1>9 DEF DictAppendFails
  <2>2. PICK n \in DOMAIN Entries :
          /\ \A k \in 1 .. n : IsPair(Entries[k])
          /\ ReleaseAndReturn(DictOf(n - 1, n), <<heap[Entries[n]].kids[2], heap[Entries[n]].kids[1],
                                                  NewId, ret.data>>, BERT_ERRNO_MALLOC, Unset)
    BY <2>1
  <2> DEFINE more == DictOf(n - 1, n)
             e == SubSeq(Entries, 1, n)
             moved == KeysAndValues(e)
             key == heap[Entries[n]].kids[1]
             value == heap[Entries[n]].kids[2]
             roots == <<value, key, NewId, ret.data>>
  <2>3. n \in 0 .. Len(Entries) /\ n - 1 \in 0 .. n /\ n \in 1 .. n
    BY <1>4
  <2>4. /\ Free(more, NewId) /\ NewId \notin Range(OwnedOf(Below)) /\ NewId \in Int
        /\ Free(more, ret.data) /\ NewId # ret.data
        /\ \A k \in 2 * (n - 1) + 1 .. 2 * n :
             /\ moved[k] \in Int /\ moved[k] # Null /\ moved[k] # NewId /\ moved[k] # ret.data
             /\ Free(more, moved[k]) /\ moved[k] \notin Range(OwnedOf(Below))
        /\ \A k, l \in 1 .. 2 * n : moved[k] = moved[l] => k = l
    BY <1>1, <2>2, <2>3, DictHalfWay
  <2>5. /\ moved[2 * n - 1] = key /\ moved[2 * n] = value
        /\ {2 * n - 1, 2 * n} \subseteq 1 .. 2 * n
        /\ 2 * (n - 1) + 1 .. 2 * n = {2 * n - 1, 2 * n} /\ 2 * n - 1 # 2 * n
    <3>1. heap \in Seq(Cell)
      BY <1>1, TopHolds
    <3> QED
      BY <1>4, <2>2, <3>1, LastPair
  <2> HIDE DEF moved, more, key, value
  <2>6. /\ key # value
        /\ key \in Int /\ key # NewId /\ key # ret.data /\ Free(more, key)
        /\ key \notin Range(OwnedOf(Below))
        /\ value \in Int /\ value # NewId /\ value # ret.data /\ Free(more, value)
        /\ value \notin Range(OwnedOf(Below))
    BY <2>4, <2>5
  <2>7. Loose(more, Below, roots) /\ Range(roots) = {value, key, NewId, ret.data}
    BY <1>2, <2>4, <2>6, LooseFour
  <2>8. ReleaseAndReturn(more, roots, BERT_ERRNO_MALLOC, Unset)
    BY <2>2 DEF more, key, value
  <2> HIDE DEF roots
  <2>9. ret.data \in Range(roots)
    BY <2>7
  <2> QED
    BY <1>7, <2>1, <2>2, <2>3, <2>7, <2>8, <2>9, Codes DEF more
<1>10. CASE DictIsMade
  <2> DEFINE n == Len(Entries)
             more == DictOf(n, n)
             roots == <<ret.data>>
  <2>1. /\ heap[ret.data].type # "regex" /\ \A k \in 1 .. n : IsPair(Entries[k])
        /\ ReleaseAndReturn(more, roots, BERT_SUCCESS, NewId)
    BY <1>4, <1>10 DEF DictIsMade
  <2>2. n \in 0 .. Len(Entries) /\ n \in 0 .. n
    BY <1>4
  <2>3. Free(more, ret.data) /\ NewId # ret.data
    BY <1>1, <2>1, <2>2, DictHalfWay
  <2> HIDE DEF more
  <2>4. Loose(more, Below, roots) /\ Range(roots) = {ret.data}
    BY <1>2, <2>3, LooseOne
  <2> HIDE DEF roots
  <2>5. NewId \notin Range(roots)
    BY <2>3, <2>4
  <2> QED
    BY <1>7, <2>1, <2>2, <2>4, <2>5 DEF more
<1> QED
  BY <1>5, <1>6, <1>8, <1>9, <1>10 DEF Dict

\* An option that is looked at is there, and its two parts if it is a pair.
LEMMA OptionsLive ==
  ASSUME TypeInv, DInv, pc = "return", stack # << >>, ~PullFailed, Top.fn # "tuple",
         NEW k \in DOMAIN Entries
  PROVE  ~OptionCrashes(Entries[k])
<1> DEFINE p == Entries[k]
<1>1. heap \in Seq(Cell) /\ Sound(heap) /\ StackOK(heap, Below) /\ Gaps(heap) \subseteq Open(Below)
  BY TopHolds
<1>2. Live(heap, p) /\ ~Free(heap, p) /\ p \in DOMAIN heap
  BY EntriesAre DEF Live
<1> HIDE DEF p
<1>3. p \notin Gaps(heap)
  <2> SUFFICES ASSUME p \in Gaps(heap) PROVE FALSE
    OBVIOUS
  <2>1. Free(heap, p)
    BY <1>1, OpenOwned
  <2> QED
    BY <1>2, <2>1
<1>4. ASSUME NEW s \in DOMAIN heap[p].kids PROVE Live(heap, heap[p].kids[s])
  <2>1. heap[p].kids[s] # Null
    BY <1>2, <1>3 DEF Gaps
  <2> QED
    BY <1>1, <1>2, <2>1 DEF Sound
<1>5. ASSUME IsPair(p) PROVE 1 \in DOMAIN heap[p].kids /\ 2 \in DOMAIN heap[p].kids
  <2>1. heap[p].kids \in Seq(Int) /\ Len(heap[p].kids) = 2
    BY <1>1, <1>2, <1>5, CellIs DEF IsPair
  <2> QED
    BY <2>1
<1>6. ~OptionCrashes(p)
  BY <1>2, <1>4, <1>5 DEF OptionCrashes
<1> QED
  BY <1>6 DEF p

\* bert_decode_regex gives the source to the regex or destroys it, and destroys the options.
LEMMA RegexStepsKeep == TypeInv /\ DInv /\ Regex => DInv'
<1> SUFFICES ASSUME TypeInv, DInv, Regex PROVE DInv'
  OBVIOUS
<1>1. pc = "return" /\ stack # << >> /\ Top.fn = "regex" /\ Top.fn # "tuple"
  BY DEF Regex, RegexSourceIsNoBin, RegexGoesOn, RegexOptionsFail, RegexOptionsAreInvalid,
         RegexIsMade, Got, Returned
<1>2. /\ heap \in Seq(Cell) /\ IsHeap(heap) /\ Sound(heap) /\ Len(heap) \in Nat
      /\ Top \in Frames /\ Below \in Seq(Frames) /\ Top = stack[1]
      /\ StackOK(heap, Below) /\ TopOK(heap, Top, Below) /\ Gaps(heap) \subseteq Open(Below)
  BY <1>1, TopHolds, TopTyped
<1>3. /\ Top.i \in 0 .. 1 /\ Top.i \in Nat /\ Top.first \in Int /\ Top.second \in Int
      /\ Top.fn # "time"
  BY <1>1, <1>2 DEF Frames
<1>4. ASSUME ~PullFailed
      PROVE  /\ ret.data \in Int /\ ret.data # Null /\ Free(heap, ret.data)
             /\ ret.data \notin Range(OwnedOf(Below)) /\ ret.data \notin Range(Held(Top))
             /\ Loose(heap, Below, <<ret.data>>)
  BY <1>1, <1>4, Pulled, LooseOne
<1>5. ASSUME Top.i = 1
      PROVE  /\ Range(Held(Top)) = {Top.first}
             /\ Free(heap, Top.first) /\ Top.first \notin Range(OwnedOf(Below)) /\ Top.first # Null
             /\ Loose(heap, Below, <<Top.first>>)
  <2>1. Held(Top) = <<Top.first>>
    BY <1>1, <1>2, <1>5, HeldIs
  <2>2. Range(Held(Top)) = {Top.first}
    BY <2>1 DEF Range
  <2>3. Free(heap, Top.first) /\ Top.first \notin Range(OwnedOf(Below))
    BY <1>2, <2>2 DEF TopOK
  <2>4. Top.first # Null
    BY <1>2, <2>3 DEF Free, Live, IsHeap, Null
  <2> QED
    BY <1>3, <2>2, <2>3, <2>4, LooseOne
<1>6. ASSUME Top.i = 1, ~PullFailed
      PROVE  Loose(heap, Below, <<ret.data, Top.first>>)
             /\ Range(<<ret.data, Top.first>>) = {ret.data, Top.first}
  BY <1>3, <1>4, <1>5, <1>6, LooseTwo
<1>7. CASE RegexSourceIsNoBin
  <2>1. ReleaseAndReturn(heap, <<ret.data>>, BERT_ERRNO_INVALID, Unset)
    BY <1>7 DEF RegexSourceIsNoBin
  <2>2. Loose(heap, Below, <<ret.data>>)
    BY <1>4, <1>7 DEF RegexSourceIsNoBin, Got
  <2> QED
    BY <1>1, <2>1, <2>2, Codes, FailKeeps
<1>8. CASE RegexOptionsFail
  <2>1. PullFailed /\ Top.i = 1 /\ ReleaseAndReturn(heap, <<Top.first>>, ret.code, Unset)
    BY <1>8 DEF RegexOptionsFail
  <2>2. ret.code # 1 /\ ret.code # 0
    BY <1>1, <2>1 DEF PullFailed, DInv, Answered
  <2>3. Loose(heap, Below, <<Top.first>>)
    BY <1>5, <2>1
  <2> QED
    BY <1>1, <2>1, <2>2, <2>3, FailKeeps
<1>9. CASE RegexOptionsAreInvalid
  <2> DEFINE hits == {k \in 1 .. Len(Entries) : ~OptionOK(Entries[k])}
             roots == <<ret.data, Top.first>>
  <2>1. /\ ~PullFailed /\ Top.i = 1
        /\ heap[ret.data].type # "list" \/ \E k \in DOMAIN Entries : ~OptionOK(Entries[k])
        /\ IF heap[ret.data].type = "list" /\ OptionCrashes(Entries[FirstBadOption])
             THEN Crash
             ELSE ReleaseAndReturn(heap, roots, BERT_ERRNO_INVALID, Unset)
    BY <1>9 DEF RegexOptionsAreInvalid, Got
  <2>2. FirstBadOption = IF hits # {} THEN Min(hits) ELSE 0
    BY DEF SelectInSeq, FirstBadOption
  <2>3. Entries \in Seq(Int)
    BY <1>1, <2>1, EntriesAre
  <2>4. Len(Entries) \in Nat /\ DOMAIN Entries = 1 .. Len(Entries) /\ hits \in SUBSET (1 .. Len(Entries))
    BY <2>3
  <2>5. heap[ret.data].type = "list" => hits # {}
    BY <2>1, <2>4
  <2> HIDE DEF hits, roots
  <2>6. heap[ret.data].type = "list" => ~OptionCrashes(Entries[FirstBadOption])
    <3> SUFFICES ASSUME heap[ret.data].type = "list" PROVE ~OptionCrashes(Entries[FirstBadOption])
      OBVIOUS
    <3>1. FirstBadOption \in DOMAIN Entries
      BY <2>2, <2>4, <2>5, MinOfPositions
    <3> QED
      BY <1>1, <2>1, <3>1, OptionsLive
  <2>7. ReleaseAndReturn(heap, roots, BERT_ERRNO_INVALID, Unset)
    BY <2>1, <2>6
  <2>8. Loose(heap, Below, roots)
    BY <1>6, <2>1 DEF roots
  <2> QED
    BY <1>1, <2>7, <2>8, Codes, FailKeeps
<1>10. CASE RegexGoesOn
  <2> DEFINE f == Advanced(Top, 1, ret.data, Top.second)
  <2>1. /\ stack' = [stack EXCEPT ![1].i = 1, ![1].first = ret.data] /\ pc' = "pull"
        /\ heap' = heap /\ ~PullFailed
    BY <1>10 DEF RegexGoesOn, Got
  <2>2. ret.data \in Int /\ ret.data # Null /\ Free(heap, ret.data)
        /\ ret.data \notin Range(OwnedOf(Below)) /\ Loose(heap, Below, <<ret.data>>)
    BY <1>4, <2>1
  <2>3. stack' = [stack EXCEPT ![1] = f]
    BY <1>2, <2>1 DEF Advanced, Frames
  <2>4. f \in Frames /\ f.fn = "regex" /\ f.i = 1 /\ f.first = ret.data
    <3>1. Top.fn # "time" /\ 1 \in Nat /\ 1 \in 0 .. 1
      BY <1>1
    <3> QED
      BY <1>1, <1>2, <1>3, <2>2, <3>1, FrameAdvanced
  <2> HIDE DEF f
  <2>5. stack' = <<f>> \o Below
    BY <1>1, <2>3, StackSplit DEF Below, TypeInv, StackIn
  <2>6. Held(f) = <<ret.data>>
    BY <2>4, HeldIs
  <2>7. Range(Held(f)) = {ret.data} /\ Distinct(Held(f))
    BY <2>2, <2>6, LooseOne DEF Loose
  <2>8. TopOK(heap, f, Below)
    BY <2>2, <2>4, <2>7 DEF TopOK, FrameOK
  <2> QED
    BY <1>2, <2>1, <2>4, <2>5, <2>8, GoesOnKeeps
<1>11. CASE RegexIsMade
  <2> DEFINE text == Term("text", "", << >>)
             regex == Term("regex", "", <<NewId>>)
             h == Append(heap, text)
             more == Append(h, regex)
             roots == <<ret.data, Top.first>>
  <2>1. \/ ReleaseAndReturn(heap \o <<text, regex>>, roots, BERT_SUCCESS, NewId + 1)
        \/ ReleaseAndReturn(heap, roots, BERT_ERRNO_MALLOC, Unset)
    BY <1>11 DEF RegexIsMade
  <2>2. ~PullFailed /\ Top.i = 1
    BY <1>11 DEF RegexIsMade, Got
  <2>3. Loose(heap, Below, roots) /\ Range(roots) = {ret.data, Top.first}
    BY <1>6, <2>2
  <2>4. /\ text \in Cell /\ text.type # "freed" /\ text.kids = << >>
        /\ regex \in Cell /\ regex.type # "freed" /\ regex.kids = <<NewId>> /\ NewId \in Int
    <3>1. << >> \in Seq(Int) /\ <<NewId>> \in Seq(Int) /\ NewId \in Int
      BY <1>2 DEF NewId
    <3> QED
      BY <3>1 DEF Term, Cell
  <2> HIDE DEF text, regex
  <2>5. heap \o <<text, regex>> = more
    BY <1>2, <2>4
  <2>6. Loose(heap, Below, text.kids) /\ Range(text.kids) = {}
    BY <2>4, LooseNone
  <2>7. /\ h \in Seq(Cell) /\ Sound(h) /\ StackOK(h, Below) /\ DOMAIN h = 1 .. NewId
        /\ Free(h, NewId) /\ NewId \notin Range(OwnedOf(Below)) /\ ~Free(heap, NewId)
        /\ \A q : Free(heap, q) => Free(h, q)
        /\ Gaps(h) \subseteq Gaps(heap) /\ NewId # Null
    BY <1>2, <2>4, <2>6, AppendKeeps DEF NewId
  <2> HIDE DEF h, roots
  <2>8. Loose(h, Below, regex.kids) /\ Range(regex.kids) = {NewId}
    BY <2>4, <2>7, LooseOne
  <2>9. Len(h) + 1 = NewId + 1
    BY <1>2, <2>7 DEF NewId
  <2>10. /\ more \in Seq(Cell) /\ Sound(more) /\ StackOK(more, Below)
         /\ Free(more, NewId + 1) /\ NewId + 1 \notin Range(OwnedOf(Below)) /\ ~Free(h, NewId + 1)
         /\ NewId + 1 # Null
         /\ \A q : Free(h, q) /\ q # NewId => Free(more, q)
         /\ Gaps(more) \subseteq Gaps(h)
    BY <2>4, <2>7, <2>8, <2>9, AppendKeeps
  <2> HIDE DEF more
  <2>11. CASE ReleaseAndReturn(more, roots, BERT_SUCCESS, NewId + 1)
    <3>1. \A q \in Range(roots) : Free(heap, q)
      BY <1>4, <1>5, <2>2, <2>3
    <3>2. \A q \in Range(roots) : Free(more, q) /\ q # NewId + 1
      BY <2>7, <2>10, <3>1
    <3>3. Loose(more, Below, roots)
      BY <2>3, <3>2, StillLoose
    <3>4. Gaps(more) \subseteq Open(Below) \union Reach(more, Range(roots))
      BY <1>2, <2>7, <2>10
    <3>5. NewId + 1 \notin Range(roots)
      BY <3>2
    <3> QED
      BY <1>1, <2>10, <2>11, <3>3, <3>4, <3>5, Codes, ReturnKeeps
  <2>12. CASE ReleaseAndReturn(heap, roots, BERT_ERRNO_MALLOC, Unset)
    BY <1>1, <2>3, <2>12, Codes, FailKeeps
  <2> QED
    BY <2>1, <2>5, <2>11, <2>12
<1> QED
  BY <1>7, <1>8, <1>9, <1>10, <1>11 DEF Regex

(***************************************************************************)
(* What a step keeps.                                                      *)
(***************************************************************************)

\* As long as the input does not end inside a term, a step keeps the invariant, but for the
\* fault of bert_decode_time in a build that leaves its pointers wild.
LEMMA NextKeeps ==
  ASSUME TypeInv, DInv, ~cutOff', [Next]_vars, ~(Wild \in Uninitialised /\ TimeFault')
  PROVE  DInv'
<1>1. CASE UNCHANGED vars
  BY <1>1 DEF DInv, vars
<1>2. CASE ClientPulls \/ ClientUses \/ ClientStops
  BY <1>2, ClientKeeps
<1>3. CASE Pull
  BY <1>3, PullKeeps
<1>4. CASE Tuple
  BY <1>4, TupleStepsKeep
<1>5. CASE List
  BY <1>5, ListStepsKeep
<1>6. CASE Complex
  BY <1>6, ComplexStepsKeep
<1>7. CASE Time
  BY <1>7, TimeStepsKeep
<1>8. CASE Dict
  BY <1>8, DictStepsKeep
<1>9. CASE Regex
  BY <1>9, RegexStepsKeep
<1> QED
  BY <1>1, <1>2, <1>3, <1>4, <1>5, <1>6, <1>7, <1>8, <1>9 DEF Next, Decoding

\* Only a pull that finds the input at its end can say that it ended inside a term.
LEMMA CutOffStays == [Next]_vars /\ ~PullEnds => cutOff' = cutOff
<1> SUFFICES ASSUME [Next]_vars, ~PullEnds PROVE cutOff' = cutOff
  OBVIOUS
<1>1. ASSUME NEW h, NEW roots, NEW code, NEW data, ReleaseAndReturn(h, roots, code, data)
      PROVE  cutOff' = cutOff
  BY <1>1 DEF ReleaseAndReturn, Crash
<1>2. CASE UNCHANGED vars
  BY <1>2 DEF vars
<1>3. CASE ClientPulls \/ ClientUses \/ ClientStops
  BY <1>3 DEF ClientPulls, ClientUses, ClientStops, Crash
<1>4. CASE Pull
  BY <1>4 DEF Pull, PullFails, PullUnknown, PullMallocFails, PullScalar, PullTuple,
              PullList, Finds
<1>5. CASE Tuple
  BY <1>1, <1>5 DEF Tuple, TupleFails, TupleFirstUnset, TupleIsComplex, TupleStores, Crash
<1>6. CASE List
  BY <1>1, <1>6 DEF List, ListFails, ListAppends, ListAppendFails, ListReadsTail, ListTailFails
<1>7. CASE Complex
  BY <1>1, <1>7 DEF Complex, NothingHeldFails, PointerUnset, KeywordIsNoAtom, KeywordIsConstant,
                    KeywordIsComplex, KeywordIsUnknown, Crash
<1>8. CASE Time
  BY <1>1, <1>8 DEF Time, TimeFails, TimeIsNoInteger, TimeGoesOn, TimeIsMade
<1>9. CASE Dict
  BY <1>1, <1>9 DEF Dict, DictIsNoList, DictMallocFails, DictEntryIsNoPair,
                    DictAppendFails, DictIsMade, Crash
<1>10. CASE Regex
  BY <1>1, <1>10 DEF Regex, RegexSourceIsNoBin, RegexGoesOn, RegexOptionsFail,
                     RegexOptionsAreInvalid, RegexIsMade, Crash
<1> QED
  BY <1>2, <1>3, <1>4, <1>5, <1>6, <1>7, <1>8, <1>9, <1>10 DEF Next, Decoding

\* An input that has ended inside a term stays so, and no input does that is not let to.
LEMMA CutOffSteps ==
  ASSUME [Next]_vars
  PROVE  /\ cutOff => cutOff'
         /\ ~EndsInside /\ ~cutOff => ~cutOff'
<1>1. CASE PullEnds
  BY <1>1 DEF PullEnds
<1>2. CASE ~PullEnds
  BY <1>2, CutOffStays
<1> QED
  BY <1>1, <1>2

\* A fault leaves everything else as it was.
LEMMA FaultIsCrash == pc # "fault" /\ [Next]_vars /\ pc' = "fault" => Crash
<1> SUFFICES ASSUME pc # "fault", [Next]_vars, pc' = "fault" PROVE Crash
  OBVIOUS
<1>1. ASSUME NEW code, NEW data, Answer(code, data) PROVE FALSE
  BY <1>1 DEF Answer
<1>2. ASSUME NEW code, NEW data, FunctionReturns(code, data) PROVE FALSE
  BY <1>1, <1>2 DEF FunctionReturns
<1>3. ASSUME NEW h, NEW roots, NEW code, NEW data, ReleaseAndReturn(h, roots, code, data)
      PROVE  Crash
  BY <1>2, <1>3 DEF ReleaseAndReturn
<1>4. CASE UNCHANGED vars
  BY <1>4 DEF vars
<1>5. CASE ClientPulls \/ ClientUses \/ ClientStops
  BY <1>5 DEF ClientPulls, ClientUses, ClientStops
<1>6. CASE Pull
  BY <1>1, <1>6 DEF Pull, PullEnds, PullFails, PullUnknown, PullMallocFails, PullScalar, PullTuple,
                    PullList, Finds
<1>7. CASE Tuple
  BY <1>2, <1>3, <1>7 DEF Tuple, TupleFails, TupleFirstUnset, TupleIsComplex, TupleStores
<1>8. CASE List
  BY <1>2, <1>3, <1>8 DEF List, ListFails, ListAppends, ListAppendFails, ListReadsTail, ListTailFails
<1>9. CASE Complex
  BY <1>2, <1>3, <1>9 DEF Complex, NothingHeldFails, PointerUnset, KeywordIsNoAtom,
                          KeywordIsConstant, KeywordIsComplex, KeywordIsUnknown
<1>10. CASE Time
  BY <1>3, <1>10 DEF Time, TimeFails, TimeIsNoInteger, TimeGoesOn, TimeIsMade
<1>11. CASE Dict
  BY <1>3, <1>11 DEF Dict, DictIsNoList, DictMallocFails, DictEntryIsNoPair, DictAppendFails,
                     DictIsMade
<1>12. CASE Regex
  BY <1>3, <1>12 DEF Regex, RegexSourceIsNoBin, RegexGoesOn, RegexOptionsFail,
                     RegexOptionsAreInvalid, RegexIsMade
<1> QED
  BY <1>4, <1>5, <1>6, <1>7, <1>8, <1>9, <1>10, <1>11, <1>12 DEF Next, Decoding

\* The end of the program is the end.
LEMMA FaultStays == TypeInv /\ pc = "fault" /\ [Next]_vars => UNCHANGED vars
BY DEF TypeInv, Next, Decoding, ClientPulls, ClientUses, ClientStops,
       Pull, PullEnds, PullFails, PullUnknown, PullMallocFails, PullScalar, PullTuple, PullList, Finds,
       Tuple, TupleFails, TupleFirstUnset, TupleIsComplex, TupleStores,
       List, ListFails, ListAppends, ListAppendFails, ListReadsTail, ListTailFails,
       Complex, NothingHeldFails, PointerUnset, KeywordIsNoAtom, KeywordIsConstant, KeywordIsComplex,
       KeywordIsUnknown, Time, TimeFails, TimeIsNoInteger, TimeGoesOn, TimeIsMade,
       Dict, DictIsNoList, DictMallocFails, DictEntryIsNoPair, DictAppendFails, DictIsMade,
       Regex, RegexSourceIsNoBin, RegexGoesOn, RegexOptionsFail, RegexOptionsAreInvalid, RegexIsMade,
       Got, Returned

(***************************************************************************)
(* What the invariant says: a heap with one owner for every term.          *)
(***************************************************************************)

\* What Owned holds.
LEMMA OwnedIs ==
  ASSUME TypeInv
  PROVE  LET last == IF pc = "return" /\ ret.data # Unset THEN <<ret.data>> ELSE << >> IN
         /\ Owned = OwnedOf(stack) \o last
         /\ OwnedOf(stack) \in Seq(Int) /\ last \in Seq(Int) /\ Owned \in Seq(Int)
         /\ Range(Owned) = Range(OwnedOf(stack)) \union Range(last)
<1> DEFINE last == IF pc = "return" /\ ret.data # Unset THEN <<ret.data>> ELSE << >>
<1>1. stack \in Seq(Frames) /\ ret.data \in Int
  BY Values DEF TypeInv, StackIn
<1>2. OwnedOf(stack) \in Seq(Int)
  <2>1. Frame("complex", Null, 0) \in Frames
    BY BeginsOK
  <2> QED
    BY <1>1, <2>1, OwnedFirst
<1>3. last \in Seq(Int)
  BY <1>1
<1>4. Owned = OwnedOf(stack) \o last
  BY DEF Owned, OwnedOf
<1> HIDE DEF last
<1>5. Range(Owned) = Range(OwnedOf(stack)) \union Range(last) /\ Owned \in Seq(Int)
  BY <1>2, <1>3, <1>4, RangeOfJoined
<1> QED
  BY <1>2, <1>3, <1>4, <1>5 DEF last

\* A well-held heap has one owner for every term.
LEMMA OwnerOfEach ==
  ASSUME TypeInv, HeapOK(heap, stack), pc = "return" => Answered(heap, stack, ret)
  PROVE  OneOwner
<1> DEFINE last == IF pc = "return" /\ ret.data # Unset THEN <<ret.data>> ELSE << >>
<1>1. /\ Owned = OwnedOf(stack) \o last
      /\ OwnedOf(stack) \in Seq(Int) /\ last \in Seq(Int) /\ Owned \in Seq(Int)
      /\ Range(Owned) = Range(OwnedOf(stack)) \union Range(last)
  BY OwnedIs
<1>2. /\ heap \in Seq(Cell) /\ IsHeap(heap) /\ Sound(heap) /\ StackOK(heap, stack)
  BY CellsAreHeap DEF HeapOK
<1>3. Loose(heap, stack, last)
  <2>1. CASE pc = "return" /\ ret.data # Unset
    <3>1. Free(heap, ret.data) /\ ret.data \notin Range(OwnedOf(stack))
      BY <2>1 DEF Answered
    <3>2. ret.data \in Int
      BY Values DEF TypeInv
    <3>3. Loose(heap, stack, <<ret.data>>)
      BY <3>1, <3>2, LooseOne
    <3> QED
      BY <2>1, <3>3
  <2>2. CASE ~(pc = "return" /\ ret.data # Unset)
    <3>1. last = << >>
      BY <2>2
    <3> HIDE DEF last
    <3> QED
      BY <3>1, LooseNone
  <2> QED
    BY <2>1, <2>2
<1> HIDE DEF last
<1>4. Distinct(Owned)
  BY <1>1, <1>2, <1>3, DistinctJoined DEF StackOK, Loose
<1>5. AllFree(heap, Range(Owned))
  BY <1>1, <1>2, <1>3 DEF AllFree, StackOK, Loose
<1> QED
  BY <1>1, <1>2, <1>4, <1>5, RootsDestroyable DEF OneOwner

\* What a pull returns with 1 has no empty place and leads to none.
LEMMA DecodedIsWhole == TypeInv /\ DInv => OneMeansDecoded
<1> SUFFICES ASSUME TypeInv, DInv, pc = "return", ret.code = 1 PROVE Whole(heap, ret.data)
  BY DEF OneMeansDecoded
<1>1. /\ heap \in Seq(Cell) /\ IsHeap(heap) /\ Sound(heap) /\ StackOK(heap, stack)
      /\ Gaps(heap) \subseteq Open(stack)
  BY CellsAreHeap DEF DInv, HeapOK
<1>2. Free(heap, ret.data) /\ ret.data \notin Range(OwnedOf(stack)) /\ ret.data \in Int
  BY Values DEF DInv, Answered, TypeInv
<1>3. \A r \in Open(stack) : r # ret.data /\ Free(heap, r)
  BY <1>1, <1>2, OpenOwned
<1>4. \A r \in DOMAIN heap : \A k \in DOMAIN heap[r].kids :
        heap[r].kids[k] = Null => r \in Open(stack)
  BY <1>1 DEF Gaps
<1> QED
  BY <1>1, <1>2, <1>3, <1>4, WholeTerm

(***************************************************************************)
(* The theorems.                                                           *)
(***************************************************************************)

\* Inputs of whole terms: the invariant holds, but for the fault of bert_decode_time, which
\* leaves the terms as they are.
DecodeInv == ~cutOff /\ (DInv \/ (TimeFault /\ HeapOK(heap, stack)))

\* If the input never ends between two elements, the invariant holds but for that fault.
LEMMA DecodeInvariant ==
  ASSUME ~EndsInside
  PROVE  Spec => []DecodeInv
<1>1. Init => DecodeInv
  BY InitDInv DEF DecodeInv, Init
<1>2. TypeInv /\ DecodeInv /\ [Next]_vars => DecodeInv'
  <2> SUFFICES ASSUME TypeInv, DecodeInv, [Next]_vars PROVE DecodeInv'
    OBVIOUS
  <2>1. ~cutOff'
    BY CutOffSteps DEF DecodeInv
  <2>2. CASE DInv /\ ~TimeFault'
    BY <2>1, <2>2, NextKeeps DEF DecodeInv
  <2>3. CASE DInv /\ TimeFault'
    <3>1. Crash
      BY <2>3, FaultIsCrash DEF DInv, TimeFault
    <3>2. heap' = heap /\ stack' = stack /\ HeapOK(heap, stack)
      BY <2>3, <3>1 DEF Crash, DInv
    <3> QED
      BY <2>1, <2>3, <3>2 DEF DecodeInv
  <2>4. CASE TimeFault /\ HeapOK(heap, stack)
    <3>1. UNCHANGED vars
      BY <2>4, FaultStays DEF TimeFault
    <3> QED
      BY <2>1, <2>4, <3>1 DEF vars, DecodeInv, TimeFault, Top, PullFailed
  <2> QED
    BY <2>2, <2>3, <2>4 DEF DecodeInv
<1> QED
  BY <1>1, <1>2, TypeInvariant, PTL DEF Spec

\* Every term has at most one owner, a term that holds it or a variable of a function that is
\* running, and destroying what anyone owns meets no freed term and none twice: at any depth
\* of nesting, wherever a read or a malloc fails (the free-lists of decode.c).
THEOREM OneOwnerEach ==
  ASSUME ~EndsInside
  PROVE  Spec => []OneOwner
<1>1. TypeInv /\ DecodeInv => OneOwner
  BY OwnerOfEach DEF DecodeInv, DInv, TimeFault
<1> QED
  BY <1>1, DecodeInvariant, TypeInvariant, PTL

\* A pull that returns 1 has a term, and the term is whole: no element of it is missing.
THEOREM OneDecodes ==
  ASSUME ~EndsInside
  PROVE  Spec => []OneMeansDecoded
<1>1. TypeInv /\ DecodeInv => OneMeansDecoded
  BY DecodedIsWhole DEF DecodeInv, TimeFault, OneMeansDecoded
<1> QED
  BY <1>1, DecodeInvariant, TypeInvariant, PTL

\* If unset locals hold null, no function uses a pointer that is no term.
THEOREM NothingFaults ==
  ASSUME ~EndsInside, Wild \notin Uninitialised
  PROVE  Spec => []NoFault
<1> DEFINE I == DInv /\ ~cutOff
<1>1. Init => I
  BY InitDInv DEF Init
<1>2. TypeInv /\ I /\ [Next]_vars => I'
  BY NextKeeps, CutOffSteps
<1>3. I => NoFault
  BY DEF DInv, NoFault
<1> QED
  BY <1>1, <1>2, <1>3, TypeInvariant, PTL DEF Spec

\* an input that ended inside a term, the fault of bert_decode_time, or a heap in order
Faults == cutOff \/ TimeFault \/ DInv

\* With no condition on the input or on unset locals: a fault follows the end of the input inside
\* a term, after a nested pull returned 0, or a failed pull in bert_decode_time, and nothing else.
\* While terms come whole nothing is destroyed twice and no bad pointer is followed, whichever
\* path the decoder and the client take, up to the last term of the input.
THEOREM TwoKindsOfFault == Spec => []FaultsOfTwoKinds
<1>1. Init => Faults
  BY InitDInv DEF Faults
<1>2. TypeInv /\ Faults /\ [Next]_vars => Faults'
  <2> SUFFICES ASSUME TypeInv, Faults, [Next]_vars PROVE Faults'
    OBVIOUS
  <2>1. CASE cutOff
    BY <2>1, CutOffSteps DEF Faults
  <2>2. CASE TimeFault
    BY <2>2, FaultStays DEF TimeFault, vars, Top, PullFailed, Faults
  <2>3. CASE DInv
    BY <2>3, NextKeeps DEF Faults
  <2> QED
    BY <2>1, <2>2, <2>3 DEF Faults
<1>3. Faults => FaultsOfTwoKinds
  BY DEF Faults, TimeFault, DInv, FaultsOfTwoKinds
<1> QED
  BY <1>1, <1>2, <1>3, TypeInvariant, PTL DEF Spec

==============================================================================
