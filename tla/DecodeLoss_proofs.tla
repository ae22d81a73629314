-------------------------- MODULE DecodeLoss_proofs --------------------------
(***************************************************************************)
(* Decode loses no term but in the places listed as dropped: on every      *)
(* path, what a function allocated or pulled is stored in its term,        *)
(* returned, or destroyed.                                                 *)
(***************************************************************************)
EXTENDS Decode_proofs

(***************************************************************************)
(* What is not lost: every live term is reached from what the stack holds, *)
(* from what a pull returned, or from what the code is known to abandon    *)
(* (dropped).                                                              *)
(***************************************************************************)

\* what a returning pull passes on, and what is kept
Passed(p, r) == IF p = "return" THEN {r.data} \ {Unset} ELSE {}
Kept == Range(OwnedOf(stack)) \union Passed(pc, ret) \union dropped
LInv == NoLoss(heap, Kept)

\* A term that is kept gets a pointer to a term that was kept otherwise.
LEMMA NoLossGiven ==
  ASSUME NEW hp \in Seq(Cell), NEW h \in Seq(Cell), DOMAIN h = DOMAIN hp,
         NEW o \in DOMAIN hp, hp[o].type \notin {"freed", "regex"}, h[o].type = hp[o].type,
         Range(hp[o].kids) \subseteq Range(h[o].kids) \union {Null},
         \A p \in DOMAIN hp : p # o => h[p] = hp[p],
         NEW q \in Range(h[o].kids), NEW a \in SUBSET Int, o \in a, NoLoss(hp, a \union {q})
  PROVE  NoLoss(h, a)
<1>1. IsHeap(hp) /\ IsHeap(h)
  BY CellsAreHeap
<1>2. o # Null /\ a \ {Null} \subseteq Reach(h, a)
  BY <1>1, ReachStored DEF IsHeap, Null
<1> QED
  BY <1>1, <1>2, NoLossStored

\* What is kept, with a function on top of the stack, by what the pull under it came to.
LEMMA KeptBefore ==
  ASSUME TypeInv, DInv, LInv, stack # << >>
  PROVE  /\ Range(Held(Top)) \in SUBSET Int /\ Range(OwnedOf(Below)) \in SUBSET Int
         /\ dropped \in SUBSET Int /\ heap \in Seq(Cell) /\ Len(heap) \in Nat
         /\ pc # "return" => NoLoss(heap, Range(Held(Top)) \union Range(OwnedOf(Below)) \union dropped)
         /\ pc = "return" /\ PullFailed =>
              NoLoss(heap, Range(Held(Top)) \union Range(OwnedOf(Below)) \union dropped)
         /\ pc = "return" /\ ~PullFailed =>
              /\ ret.data \in Int
              /\ NoLoss(heap, {ret.data} \union Range(Held(Top)) \union Range(OwnedOf(Below))
                                \union dropped)
<1>1. /\ heap \in Seq(Cell) /\ Top \in Frames /\ Below \in Seq(Frames)
      /\ Range(OwnedOf(stack)) = Range(Held(Top)) \union Range(OwnedOf(Below))
  BY TopHolds
<1>2. Range(Held(Top)) \in SUBSET Int /\ Range(OwnedOf(Below)) \in SUBSET Int
  <2>1. Held(Top) \in Seq(Int) /\ OwnedOf(Below) \in Seq(Int)
    BY <1>1, HeldIs, OwnedFirst
  <2> QED
    BY <2>1 DEF Range
<1>3. dropped \in SUBSET Int /\ Len(heap) \in Nat
  BY <1>1 DEF TypeInv
<1>4. pc = "return" /\ PullFailed => ret.data = Unset
  BY DEF DInv, Answered, PullFailed
<1>5. pc = "return" /\ ~PullFailed => ret.data \in Int /\ ret.data # Unset
  BY Pulled
<1> QED
  BY <1>1, <1>2, <1>3, <1>4, <1>5 DEF LInv, Kept, Passed

\* A function returns.
LEMMA PassLoses ==
  ASSUME NEW code, NEW data, FunctionReturns(code, data),
         NoLoss(heap', Range(OwnedOf(Below)) \union ({data} \ {Unset}) \union dropped')
  PROVE  LInv'
<1>1. stack' = Below /\ pc' = "return" /\ ret'.data = data
  BY DEF FunctionReturns, Answer
<1>2. Kept' = Range(OwnedOf(Below)) \union ({data} \ {Unset}) \union dropped'
  BY <1>1 DEF Kept, Passed
<1> QED
  BY <1>2 DEF LInv

\* ... after it destroyed what it held.
LEMMA ReturnLoses ==
  ASSUME TypeInv, DInv, LInv, stack # << >>, NEW h \in Seq(Cell), NEW roots \in Seq(Int),
         NEW code, NEW data \in Int, ReleaseAndReturn(h, roots, code, data), pc' # "fault",
         NoLoss(h, Range(OwnedOf(Below)) \union dropped \union ({data} \ {Unset}) \union Range(roots))
  PROVE  LInv'
<1> DEFINE a == Range(OwnedOf(Below)) \union dropped \union ({data} \ {Unset})
<1>1. a \in SUBSET Int
  BY KeptBefore
<1>2. NoLoss(Destroyed(h, roots), a \union Abandoned(h, Range(roots)))
  <2>1. NoLoss(h, a \union Range(roots))
    OBVIOUS
  <2> HIDE DEF a
  <2> QED
    BY <1>1, <2>1, CellsOfDecode, NoLossDestroyed
<1>3. /\ heap' = Destroyed(h, roots) /\ dropped' = dropped \union Abandoned(h, Range(roots))
      /\ FunctionReturns(code, data)
  BY DEF ReleaseAndReturn, Release, Crash
<1>4. a \union Abandoned(h, Range(roots))
        = Range(OwnedOf(Below)) \union ({data} \ {Unset}) \union dropped'
  BY <1>3
<1>5. NoLoss(heap', Range(OwnedOf(Below)) \union ({data} \ {Unset}) \union dropped')
  BY <1>2, <1>3, <1>4
<1> QED
  BY <1>3, <1>5, PassLoses

\* A function fails, and destroys all that it held and all that it got.
LEMMA FailLoses ==
  ASSUME TypeInv, DInv, LInv, stack # << >>, pc = "return", NEW roots \in Seq(Int),
         Range(Held(Top)) \subseteq Range(roots), ~PullFailed => ret.data \in Range(roots),
         NEW code, ReleaseAndReturn(heap, roots, code, Unset), pc' # "fault"
  PROVE  LInv'
<1> DEFINE below == Range(OwnedOf(Below)) \union dropped
           a == below \union ({Unset} \ {Unset}) \union Range(roots)
<1>1. /\ heap \in Seq(Cell) /\ Range(Held(Top)) \in SUBSET Int /\ below \in SUBSET Int
      /\ Range(roots) \in SUBSET Int /\ Unset \in Int
  BY KeptBefore, Values DEF Range
<1>2. PullFailed => NoLoss(heap, Range(Held(Top)) \union below)
  BY KeptBefore
<1>3. ~PullFailed => NoLoss(heap, {ret.data} \union Range(Held(Top)) \union below) /\ ret.data \in Int
  BY KeptBefore
<1>4. IsHeap(heap) /\ a \in SUBSET Int
  BY <1>1, CellsAreHeap
<1>5. NoLoss(heap, a)
  <2>1. CASE PullFailed
    <3> DEFINE b == Range(Held(Top)) \union below
    <3>1. b \in SUBSET Int /\ b \subseteq a \union {Null} /\ NoLoss(heap, b)
      BY <1>1, <1>2, <2>1
    <3> HIDE DEF a, b
    <3> QED
      BY <1>4, <3>1, NoLossMore
  <2>2. CASE ~PullFailed
    <3> DEFINE b == {ret.data} \union Range(Held(Top)) \union below
    <3>1. b \in SUBSET Int /\ b \subseteq a \union {Null} /\ NoLoss(heap, b)
      BY <1>1, <1>3, <2>2
    <3> HIDE DEF a, b
    <3> QED
      BY <1>4, <3>1, NoLossMore
  <2> QED
    BY <2>1, <2>2
<1>6. NoLoss(heap, Range(OwnedOf(Below)) \union dropped \union ({Unset} \ {Unset}) \union Range(roots))
  BY <1>5
<1> QED
  BY <1>1, <1>6, ReturnLoses

\* A function makes a term without pointers, and destroys what it was made of.
LEMMA MadeLoses ==
  ASSUME TypeInv, DInv, LInv, stack # << >>, pc = "return", ~PullFailed, NEW roots \in Seq(Int),
         Range(Held(Top)) \subseteq Range(roots), ret.data \in Range(roots),
         NEW cell \in Cell, cell.type \notin {"freed", "regex"}, cell.kids = << >>,
         ReleaseAndReturn(Append(heap, cell), roots, BERT_SUCCESS, NewId), pc' # "fault"
  PROVE  LInv'
<1> DEFINE h == Append(heap, cell)
           below == Range(OwnedOf(Below)) \union dropped
           a == below \union Range(roots)
           b == {ret.data} \union Range(Held(Top)) \union below
<1>1. /\ heap \in Seq(Cell) /\ Range(Held(Top)) \in SUBSET Int /\ below \in SUBSET Int
      /\ Range(roots) \in SUBSET Int /\ ret.data \in Int /\ Len(heap) \in Nat /\ NoLoss(heap, b)
  <2>1. Range(roots) \in SUBSET Int
    BY DEF Range
  <2>2. b = {ret.data} \union Range(Held(Top)) \union Range(OwnedOf(Below)) \union dropped
    OBVIOUS
  <2> HIDE DEF b
  <2> QED
    BY <2>1, <2>2, KeptBefore
<1>2. h \in Seq(Cell) /\ NewId \in Int /\ NewId # Unset /\ NewId = Len(heap) + 1
  BY <1>1, AppendProperties DEF NewId, Unset
<1>3. IsHeap(heap) /\ a \in SUBSET Int /\ b \in SUBSET Int /\ b \subseteq a \union {Null}
  BY <1>1, CellsAreHeap
<1>4. Range(cell.kids) = {}
  BY LooseNone
<1> HIDE DEF h
<1>5. NoLoss(heap, a)
  <2> HIDE DEF a, b
  <2> QED
    BY <1>1, <1>3, NoLossMore
<1>6. NoLoss(h, a \union {Len(heap) + 1})
  <2>1. NoLoss(heap, a \union Range(cell.kids))
    BY <1>4, <1>5
  <2> HIDE DEF a
  <2> QED
    BY <1>1, <1>3, <2>1, CellsOfDecode, NoLossAppended DEF h
<1>7. a \union {Len(heap) + 1}
        = Range(OwnedOf(Below)) \union dropped \union ({NewId} \ {Unset}) \union Range(roots)
  BY <1>2
<1>8. NoLoss(h, Range(OwnedOf(Below)) \union dropped \union ({NewId} \ {Unset}) \union Range(roots))
  BY <1>6, <1>7
<1>9. ReleaseAndReturn(h, roots, BERT_SUCCESS, NewId)
  BY DEF h
<1> QED
  BY <1>2, <1>8, <1>9, ReturnLoses

\* The function on top goes on, or another in its place.
LEMMA GoesOnLoses ==
  ASSUME NEW f \in Frames, Below \in Seq(Frames), stack' = <<f>> \o Below, pc' \in {"pull", "tail"},
         NoLoss(heap', Range(Held(f)) \union Range(OwnedOf(Below)) \union dropped')
  PROVE  LInv'
<1> DEFINE new == <<f>> \o Below
<1>1. OwnedOf(new) = Held(f) \o OwnedOf(Below)
      /\ Held(f) \in Seq(Int) /\ OwnedOf(Below) \in Seq(Int)
  BY HeldIs, OwnedFirst
<1>2. Range(OwnedOf(new)) = Range(Held(f)) \union Range(OwnedOf(Below))
  <2> HIDE DEF new
  <2> QED
    BY <1>1, RangeOfJoined
<1>3. Kept' = Range(Held(f)) \union Range(OwnedOf(Below)) \union dropped'
  BY <1>2 DEF Kept, Passed
<1> QED
  BY <1>3 DEF LInv

\* What a sequence of pointers holds.
LEMMA PointersAre == ASSUME NEW s \in Seq(Int) PROVE Range(s) \in SUBSET Int
BY DEF Range

\* The next cell.
LEMMA NewIdIs == TypeInv => NewId \in Int /\ NewId # Unset /\ Len(heap) \in Nat
<1> SUFFICES ASSUME TypeInv PROVE NewId \in Int /\ NewId # Unset /\ Len(heap) \in Nat
  OBVIOUS
<1>1. Len(heap) \in Nat
  BY DEF TypeInv
<1> QED
  BY <1>1 DEF NewId, Unset

\* One pointer is a sequence of it.
LEMMA OnePointer ==
  ASSUME NEW a \in Int
  PROVE  <<a>> \in Seq(Int) /\ Range(<<a>>) = {a}
<1>1. <<a>> \in Seq(Int) /\ DOMAIN <<a>> = {1} /\ <<a>>[1] = a
  OBVIOUS
<1> QED
  BY <1>1 DEF Range

\* Two pointers are a sequence of them.
LEMMA TwoPointers ==
  ASSUME NEW a \in Int, NEW b \in Int
  PROVE  <<a, b>> \in Seq(Int) /\ Range(<<a, b>>) = {a, b}
<1>1. <<a, b>> \in Seq(Int) /\ DOMAIN <<a, b>> = {1, 2} /\ <<a, b>>[1] = a /\ <<a, b>>[2] = b
  OBVIOUS
<1> QED
  BY <1>1 DEF Range

\* Four pointers are a sequence of them.
LEMMA FourPointers ==
  ASSUME NEW a \in Int, NEW b \in Int, NEW c \in Int, NEW d \in Int
  PROVE  <<a, b, c, d>> \in Seq(Int) /\ Range(<<a, b, c, d>>) = {a, b, c, d}
<1>1. /\ <<a, b, c, d>> \in Seq(Int) /\ DOMAIN <<a, b, c, d>> = {1, 2, 3, 4}
      /\ <<a, b, c, d>>[1] = a /\ <<a, b, c, d>>[2] = b
      /\ <<a, b, c, d>>[3] = c /\ <<a, b, c, d>>[4] = d
  OBVIOUS
<1> QED
  BY <1>1 DEF Range

\* A pull that finds no term loses none.
LEMMA ErrorLoses ==
  ASSUME LInv, pc = "pull", NEW code, Answer(code, Unset), UNCHANGED <<heap, stack, dropped>>
  PROVE  LInv'
<1>1. pc' = "return" /\ ret'.data = Unset
  BY DEF Answer
<1>2. Kept' = Kept
  BY <1>1 DEF Kept, Passed
<1> QED
  BY <1>2 DEF LInv

\* A pull finds a term: it is returned, or a function begins to fill it.
LEMMA FoundLoses ==
  ASSUME TypeInv, DInv, LInv, pc = "pull", NEW cell \in Cell, cell.type \notin {"freed", "regex"},
         \A q \in Range(cell.kids) : q = Null, heap' = Append(heap, cell), dropped' = dropped,
         \/ stack' = stack /\ pc' = "return" /\ ret'.data = NewId
         \/ /\ pc' \in {"pull", "tail"}
            /\ \E f \in Frames : stack' = <<f>> \o stack /\ Held(f) = <<NewId>>
  PROVE  LInv'
<1> DEFINE n == Len(heap) + 1
           a == Range(OwnedOf(stack)) \union dropped
<1>1. heap \in Seq(Cell) /\ Len(heap) \in Nat /\ IsHeap(heap) /\ stack \in Seq(Frames)
  <2>1. heap \in Seq(Cell) /\ stack \in Seq(Frames)
    BY DEF TypeInv, StackIn
  <2> QED
    BY <2>1, CellsAreHeap
<1>2. OwnedOf(stack) \in Seq(Int) /\ dropped \in SUBSET Int /\ NewId = n /\ n \in Int /\ n # Unset
  BY <1>1, OwnedIs DEF TypeInv, NewId, Unset
<1>3. a \in SUBSET Int
  BY <1>2, PointersAre
<1>4. NoLoss(heap, a)
  <2>1. Kept = a
    BY DEF Kept, Passed
  <2> QED
    BY <2>1 DEF LInv
<1>5. NoLoss(heap', a \union {n})
  <2>1. Range(cell.kids) \subseteq {Null} /\ Null \in Int
    BY Values
  <2>2. a \union Range(cell.kids) \in SUBSET Int /\ a \subseteq (a \union Range(cell.kids)) \union {Null}
    BY <1>3, <2>1
  <2> HIDE DEF a
  <2>3. NoLoss(heap, a \union Range(cell.kids))
    BY <1>1, <1>3, <1>4, <2>2, NoLossMore
  <2> QED
    BY <1>1, <1>3, <2>3, CellsOfDecode, NoLossAppended
<1>6. CASE stack' = stack /\ pc' = "return" /\ ret'.data = NewId
  <2>1. Kept' = a \union {n}
    BY <1>2, <1>6 DEF Kept, Passed
  <2> QED
    BY <1>5, <2>1 DEF LInv
<1>7. ASSUME NEW f \in Frames, stack' = <<f>> \o stack, Held(f) = <<NewId>>, pc' \in {"pull", "tail"}
      PROVE  LInv'
  <2> DEFINE new == <<f>> \o stack
  <2>1. OwnedOf(new) = Held(f) \o OwnedOf(stack) /\ Held(f) \in Seq(Int)
    BY <1>1, HeldIs, OwnedFirst
  <2>2. Range(OwnedOf(new)) = Range(Held(f)) \union Range(OwnedOf(stack))
    <3> HIDE DEF new
    <3> QED
      BY <1>2, <2>1, RangeOfJoined
  <2>3. Range(Held(f)) = {n}
    BY <1>2, <1>7, OnePointer
  <2>4. Kept' = a \union {n}
    BY <1>7, <2>2, <2>3 DEF Kept, Passed
  <2> QED
    BY <1>5, <2>4 DEF LInv
<1> QED
  BY <1>6, <1>7

\* A pull loses no term.
LEMMA PullLoses == TypeInv /\ DInv /\ LInv /\ Pull => LInv'
<1> SUFFICES ASSUME TypeInv, DInv, LInv, Pull PROVE LInv'
  OBVIOUS
<1>1. CASE PullEnds
  BY <1>1, ErrorLoses DEF PullEnds
<1>2. ASSUME NEW error \in ReadErrors, PullFails(error) PROVE LInv'
  BY <1>2, ErrorLoses DEF PullFails
<1>3. CASE PullUnknown
  BY <1>3, ErrorLoses DEF PullUnknown, Finds
<1>4. CASE PullMallocFails
  BY <1>4, ErrorLoses DEF PullMallocFails, Finds
<1>5. CASE PullScalar
  <2> DEFINE cell == Term(Head(input).type, Head(input).text, << >>)
  <2>1. Head(input).type \in {"nil", "int", "bin", "atom", "other"} /\ Head(input).text \in STRING
    BY <1>5, NextTerm DEF PullScalar
  <2>2. cell \in Cell /\ cell.type \notin {"freed", "regex"} /\ cell.kids = << >>
    <3>1. << >> \in Seq(Int)
      OBVIOUS
    <3> QED
      BY <2>1, <3>1 DEF Term, Cell
  <2>3. /\ heap' = Append(heap, cell) /\ stack' = stack /\ dropped' = dropped
        /\ pc = "pull" /\ pc' = "return" /\ ret'.data = NewId
    BY <1>5 DEF PullScalar, With, Answer, Finds
  <2> HIDE DEF cell
  <2>4. \A q \in Range(cell.kids) : q = Null
    BY <2>2, LooseNone
  <2> QED
    BY <2>2, <2>3, <2>4, FoundLoses
<1>6. CASE PullTuple
  <2> DEFINE size == Head(input).size
             kids == [k \in 1 .. size |-> Null]
             cell == Term("tuple", "", kids)
             f == Frame("tuple", NewId, size)
  <2>1. size \in Nat /\ NewId \in Int
    BY <1>6, NextTerm, NewIdIs DEF PullTuple
  <2>2. /\ heap' = Append(heap, cell) /\ dropped' = dropped /\ pc = "pull"
        /\ (size = 0 => stack' = stack /\ pc' = "return" /\ ret'.data = NewId)
        /\ (size # 0 => stack' = <<f>> \o stack /\ pc' = "pull")
    <3>1. /\ IF size = 0 THEN Answer(1, NewId) /\ stack' = stack
             ELSE stack' = <<f>> \o stack /\ pc' = pc
          /\ heap' = Append(heap, cell) /\ dropped' = dropped /\ pc = "pull"
      BY <1>6 DEF PullTuple, With, Finds
    <3> HIDE DEF size, cell, f
    <3> QED
      BY <3>1 DEF Answer
  <2> HIDE DEF size
  <2>3. kids \in Seq(Int) /\ \A q \in Range(kids) : q = Null
    <3>1. kids \in Seq(Int)
      BY <2>1, Values
    <3>2. \A q \in Range(kids) : q = Null
      BY DEF Range
    <3> QED
      BY <3>1, <3>2
  <2> HIDE DEF kids
  <2>4. cell \in Cell /\ cell.type \notin {"freed", "regex"} /\ cell.kids = kids
    BY <2>3 DEF Term, Cell
  <2>5. f \in Frames
    BY <2>1, FrameIsFrame
  <2>6. f.fn = "tuple" /\ f.obj = NewId
    BY DEF Frame
  <2> HIDE DEF cell, f
  <2>7. Held(f) = <<NewId>>
    BY <2>5, <2>6, HeldIs
  <2>8. \A q \in Range(cell.kids) : q = Null
    BY <2>3, <2>4
  <2>9. \/ stack' = stack /\ pc' = "return" /\ ret'.data = NewId
        \/ /\ pc' \in {"pull", "tail"}
           /\ \E g \in Frames : stack' = <<g>> \o stack /\ Held(g) = <<NewId>>
    BY <2>2, <2>5, <2>7
  <2> QED
    BY <2>2, <2>4, <2>8, <2>9, FoundLoses
<1>7. CASE PullList
  <2> DEFINE size == Head(input).size
             cell == Term("list", "", << >>)
             f == Frame("list", NewId, size)
  <2>1. size \in Nat /\ NewId \in Int
    BY <1>7, NextTerm, NewIdIs DEF PullList
  <2>2. /\ heap' = Append(heap, cell) /\ dropped' = dropped /\ pc = "pull"
        /\ stack' = <<f>> \o stack /\ pc' \in {"pull", "tail"}
    BY <1>7 DEF PullList, With, Finds
  <2> HIDE DEF size
  <2>3. cell \in Cell /\ cell.type \notin {"freed", "regex"} /\ cell.kids = << >>
    <3>1. << >> \in Seq(Int)
      OBVIOUS
    <3> QED
      BY <3>1 DEF Term, Cell
  <2>4. f \in Frames
    BY <2>1, FrameIsFrame
  <2>5. f.fn = "list" /\ f.obj = NewId
    BY DEF Frame
  <2> HIDE DEF cell, f
  <2>6. Held(f) = <<NewId>>
    BY <2>4, <2>5, HeldIs
  <2>7. \A q \in Range(cell.kids) : q = Null
    BY <2>3, LooseNone
  <2>8. \E g \in Frames : stack' = <<g>> \o stack /\ Held(g) = <<NewId>>
    BY <2>2, <2>4, <2>6
  <2> QED
    BY <2>2, <2>3, <2>7, <2>8, FoundLoses
<1> QED
  BY <1>1, <1>2, <1>3, <1>4, <1>5, <1>6, <1>7 DEF Pull

\* The client destroys what it was given.
LEMMA ClientLoses ==
  TypeInv /\ DInv /\ LInv /\ pc' # "fault" /\ (ClientPulls \/ ClientUses \/ ClientStops) => LInv'
<1> SUFFICES ASSUME TypeInv, DInv, LInv, pc' # "fault", ClientPulls \/ ClientUses \/ ClientStops
             PROVE  LInv'
  OBVIOUS
<1>1. CASE ClientPulls
  BY <1>1 DEF ClientPulls, LInv, Kept, Passed
<1>2. CASE ClientStops
  <2>1. pc = "return" /\ PullFailed /\ pc' = "stopped" /\ UNCHANGED <<heap, stack, dropped>>
    BY <1>2 DEF ClientStops
  <2>2. ret.data = Unset
    BY <2>1 DEF DInv, Answered, PullFailed
  <2>3. Kept' = Kept
    BY <2>1, <2>2 DEF Kept, Passed
  <2> QED
    BY <2>1, <2>3 DEF LInv
<1>3. CASE ClientUses
  <2> DEFINE p == ret.data
             a == Range(OwnedOf(stack)) \union dropped
  <2>1. pc = "return" /\ stack = << >> /\ ret.code = 1
    BY <1>3 DEF ClientUses, PullFailed
  <2>2. heap \in Seq(Cell) /\ stack \in Seq(Frames) /\ OwnedOf(stack) \in Seq(Int)
        /\ dropped \in SUBSET Int /\ IsHeap(heap)
    BY OwnedIs, CellsAreHeap DEF TypeInv, StackIn
  <2>3. Free(heap, p) /\ p \in Int /\ p # Unset
    BY <2>1, <2>2, Values DEF DInv, Answered, Free, Live, IsHeap
  <2>4. /\ heap' = Destroyed(heap, <<p>>) /\ pc' = "client" /\ stack' = stack
        /\ dropped' = dropped \union Abandoned(heap, Range(<<p>>))
    BY <1>3, <2>3 DEF ClientUses, Release, Crash
  <2>5. Range(<<p>>) = {p} /\ <<p>> \in Seq(Int)
    BY <2>3, OnePointer
  <2>6. Kept = a \union {p} /\ a \in SUBSET Int
    BY <2>1, <2>2, <2>3, PointersAre DEF Kept, Passed
  <2>7. Kept' = a \union Abandoned(heap, Range(<<p>>))
    BY <2>4 DEF Kept, Passed
  <2> HIDE DEF a, p
  <2>8. NoLoss(heap, a \union Range(<<p>>))
    BY <2>5, <2>6 DEF LInv
  <2>9. NoLoss(Destroyed(heap, <<p>>), a \union Abandoned(heap, Range(<<p>>)))
    BY <2>2, <2>5, <2>6, <2>8, CellsOfDecode, NoLossDestroyed
  <2> QED
    BY <2>4, <2>7, <2>9 DEF LInv
<1> QED
  BY <1>1, <1>2, <1>3

\* A term that is kept is destroyed, and the next function of bert_decode_complex begins.
LEMMA BeginsLoses ==
  ASSUME TypeInv, DInv, LInv, stack # << >>, pc = "return", ~PullFailed, NEW roots \in Seq(Int),
         Range(roots) = {ret.data} \union Range(Held(Top)), Release(heap, roots),
         NEW fn \in {"complex", "time", "dict", "regex"},
         stack' = <<Frame(fn, Null, 0)>> \o Below, pc' = "pull"
  PROVE  LInv'
<1> DEFINE f == Frame(fn, Null, 0)
           a == Range(OwnedOf(Below)) \union dropped
<1>1. /\ heap \in Seq(Cell) /\ a \in SUBSET Int
      /\ NoLoss(heap, {ret.data} \union Range(Held(Top)) \union Range(OwnedOf(Below)) \union dropped)
  BY KeptBefore
<1>2. NoLoss(Destroyed(heap, roots), a \union Abandoned(heap, Range(roots)))
  <2>1. a \union Range(roots)
          = {ret.data} \union Range(Held(Top)) \union Range(OwnedOf(Below)) \union dropped
    OBVIOUS
  <2>2. NoLoss(heap, a \union Range(roots))
    BY <1>1, <2>1
  <2> HIDE DEF a
  <2> QED
    BY <1>1, <2>2, CellsOfDecode, NoLossDestroyed
<1>3. f \in Frames /\ Below \in Seq(Frames)
  BY BeginsOK, TopHolds
<1>4. f.fn = fn /\ f.i = 0
  BY DEF Frame
<1>5. stack' = <<f>> \o Below
  OBVIOUS
<1> HIDE DEF f
<1>6. Range(Held(f)) = {}
  <2>1. Held(f) = << >>
    BY <1>3, <1>4, HeldIs
  <2> QED
    BY <2>1, LooseNone
<1>7. Range(Held(f)) \union Range(OwnedOf(Below)) \union dropped'
        = a \union Abandoned(heap, Range(roots))
  BY <1>6 DEF Release
<1>8. NoLoss(heap', Range(Held(f)) \union Range(OwnedOf(Below)) \union dropped')
  BY <1>2, <1>7 DEF Release
<1> QED
  BY <1>3, <1>5, <1>8, GoesOnLoses

\* bert_decode_tuple loses no term.
LEMMA TupleStepsLose == TypeInv /\ DInv /\ LInv /\ pc' # "fault" /\ Tuple => LInv'
<1> SUFFICES ASSUME TypeInv, DInv, LInv, pc' # "fault", Tuple PROVE LInv'
  OBVIOUS
<1>1. pc = "return" /\ stack # << >> /\ Top.fn = "tuple"
  BY DEF Tuple, TupleFails, TupleFirstUnset, TupleIsComplex, TupleStores, Returned
<1>2. /\ heap \in Seq(Cell) /\ IsHeap(heap)
      /\ Top \in Frames /\ Below \in Seq(Frames)
      /\ TopOK(heap, Top, Below)
  BY <1>1, TopHolds
<1>3. Top.obj \in Int
  BY <1>2 DEF Frames
<1>4. Held(Top) = <<Top.obj>> /\ Range(Held(Top)) = {Top.obj}
  BY <1>1, <1>2, <1>3, HeldIs, OnePointer
<1>5. Free(heap, Top.obj) /\ Top.obj \in DOMAIN heap
  BY <1>2, <1>4 DEF TopOK, Free, Live
<1>6. /\ heap[Top.obj].type = "tuple" /\ Len(heap[Top.obj].kids) = Top.size /\ Top.i < Top.size
      /\ \A k \in 1 .. Top.size : heap[Top.obj].kids[k] = Null <=> k > Top.i
      /\ Top.i \in Nat /\ Top.size \in Nat
  BY <1>1, <1>2 DEF TopOK, FrameOK, Frames
<1>7. /\ Range(Held(Top)) \in SUBSET Int /\ Range(OwnedOf(Below)) \in SUBSET Int
      /\ dropped \in SUBSET Int
      /\ ~PullFailed => /\ ret.data \in Int
                        /\ NoLoss(heap, {ret.data} \union Range(Held(Top))
                                          \union Range(OwnedOf(Below)) \union dropped)
  BY <1>1, KeptBefore
<1>8. CASE TupleFails
  <2>1. PullFailed /\ ReleaseAndReturn(heap, <<Top.obj>>, ret.code, Unset)
    BY <1>8 DEF TupleFails
  <2>2. <<Top.obj>> \in Seq(Int) /\ Range(Held(Top)) \subseteq Range(<<Top.obj>>)
    BY <1>3, <1>4, OnePointer
  <2> QED
    BY <1>1, <2>1, <2>2, FailLoses
<1>9. CASE TupleFirstUnset
  BY <1>1, <1>9, Pulled DEF TupleFirstUnset
<1>10. CASE TupleIsComplex
  <2>1. /\ Release(heap, <<ret.data, Top.obj>>) /\ stack' = <<Frame("complex", Null, 0)>> \o Below
        /\ pc' = "pull" /\ ~PullFailed
    BY <1>10 DEF TupleIsComplex
  <2>2. /\ <<ret.data, Top.obj>> \in Seq(Int)
        /\ Range(<<ret.data, Top.obj>>) = {ret.data} \union Range(Held(Top))
    BY <1>3, <1>4, <1>7, <2>1, TwoPointers
  <2> QED
    BY <1>1, <2>1, <2>2, BeginsLoses
<1>11. CASE TupleStores
  <2> DEFINE q == ret.data
             o == Top.obj
             j == Top.i + 1
             old == heap[o].kids
             kids == [old EXCEPT ![j] = q]
             a == {o} \union Range(OwnedOf(Below)) \union dropped
  <2>1. q \in Int /\ q # Unset /\ ~PullFailed
    BY <1>1, <1>11, Pulled DEF TupleStores
  <2>2. heap' = [heap EXCEPT ![o].kids = kids] /\ dropped' = dropped
    BY <1>11, <2>1 DEF TupleStores
  <2>3. old \in Seq(Int) /\ DOMAIN old = 1 .. Top.size /\ j \in 1 .. Top.size
    <3>1. old \in Seq(Int)
      BY <1>2, <1>5, CellIs
    <3> QED
      BY <1>6, <3>1
  <2>4. \A k \in 1 .. Top.size : k # j => old[k] = Null \/ k < j
    BY <1>6
  <2>5. old[j] = Null
    BY <1>6, <2>3
  <2> HIDE DEF j, old
  <2>6. /\ kids \in Seq(Int) /\ DOMAIN kids = DOMAIN old /\ kids[j] = q
        /\ \A k \in DOMAIN old : k # j => kids[k] = old[k]
    BY <2>1, <2>3, PointerStored
  <2> HIDE DEF kids
  <2>7. q \in Range(kids) /\ Range(old) \subseteq Range(kids) \union {Null}
    BY <2>3, <2>5, <2>6 DEF Range
  <2>8. /\ heap' \in Seq(Cell) /\ DOMAIN heap' = DOMAIN heap
        /\ heap'[o].kids = kids /\ heap'[o].type = "tuple"
        /\ \A p \in DOMAIN heap : p # o => heap'[p] = heap[p]
    BY <1>2, <1>5, <1>6, <2>2, <2>6, StoreIs
  <2>9. a \in SUBSET Int /\ o \in a
    BY <1>3, <1>7
  <2>10. NoLoss(heap, a \union {q})
    <3>1. a \union {q}
            = {ret.data} \union Range(Held(Top)) \union Range(OwnedOf(Below)) \union dropped
      BY <1>4
    <3> QED
      BY <1>7, <2>1, <3>1
  <2>11. NoLoss(heap', a)
    <3>1. q \in Range(heap'[o].kids) /\ Range(heap[o].kids) \subseteq Range(heap'[o].kids) \union {Null}
      BY <2>7, <2>8 DEF old
    <3>2. o \in DOMAIN heap /\ heap[o].type \notin {"freed", "regex"} /\ heap'[o].type = heap[o].type
      BY <1>5, <1>6, <2>8
    <3> HIDE DEF q, o, a
    <3> QED
      BY <1>2, <2>8, <2>9, <2>10, <3>1, <3>2, NoLossGiven
  <2>12. CASE Top.i + 1 = Top.size
    <3>1. FunctionReturns(BERT_SUCCESS, o)
      BY <1>11, <2>12 DEF TupleStores
    <3>2. o # Unset
      BY <1>5, <1>2 DEF IsHeap, Unset
    <3>3. a = Range(OwnedOf(Below)) \union ({o} \ {Unset}) \union dropped'
      BY <2>2, <3>2
    <3>4. NoLoss(heap', Range(OwnedOf(Below)) \union ({o} \ {Unset}) \union dropped')
      BY <2>11, <3>3
    <3> QED
      BY <3>1, <3>4, PassLoses
  <2>13. CASE Top.i + 1 # Top.size
    <3> DEFINE f == Advanced(Top, Top.i + 1, Top.first, Top.second)
    <3>1. stack' = [stack EXCEPT ![1].i = @ + 1] /\ pc' = "pull"
      BY <1>11, <2>13 DEF TupleStores
    <3>2. Top.first \in Int /\ Top.second \in Int /\ Top.i + 1 \in Nat /\ Top = stack[1]
          /\ Top.fn # "time" /\ Top.fn # "regex"
      BY <1>1, <1>2, <1>6, TopTyped DEF Frames
    <3>3. stack' = [stack EXCEPT ![1] = f]
      BY <1>2, <3>1, <3>2 DEF Advanced, Frames
    <3>4. f \in Frames /\ f.fn = "tuple" /\ f.obj = o
      BY <1>1, <1>2, <3>2, FrameAdvanced
    <3> HIDE DEF f
    <3>5. stack' = <<f>> \o Below
      BY <1>1, <3>3, StackSplit DEF Below, TypeInv, StackIn
    <3>6. Range(Held(f)) = {o}
      BY <1>3, <3>4, HeldIs, OnePointer
    <3>7. a = Range(Held(f)) \union Range(OwnedOf(Below)) \union dropped'
      BY <2>2, <3>6
    <3>8. NoLoss(heap', Range(Held(f)) \union Range(OwnedOf(Below)) \union dropped')
      BY <2>11, <3>7
    <3> QED
      BY <1>2, <3>1, <3>4, <3>5, <3>8, GoesOnLoses
  <2> QED
    BY <2>12, <2>13
<1> QED
  BY <1>8, <1>9, <1>10, <1>11 DEF Tuple

\* bert_decode_list loses no term, but for the list itself when its tail cannot be read.
LEMMA ListStepsLose == TypeInv /\ DInv /\ LInv /\ pc' # "fault" /\ List => LInv'
<1> SUFFICES ASSUME TypeInv, DInv, LInv, pc' # "fault", List PROVE LInv'
  OBVIOUS
<1>1. stack # << >> /\ Top.fn = "list"
  BY DEF List, ListFails, ListAppends, ListAppendFails, ListReadsTail, ListTailFails, Returned,
         TypeInv
<1>2. /\ heap \in Seq(Cell) /\ IsHeap(heap)
      /\ Top \in Frames /\ Below \in Seq(Frames) /\ Top = stack[1]
      /\ TopOK(heap, Top, Below)
  BY <1>1, TopHolds, TopTyped
<1>3. Top.obj \in Int
  BY <1>2 DEF Frames
<1>4. Held(Top) = <<Top.obj>> /\ Range(Held(Top)) = {Top.obj}
  BY <1>1, <1>2, <1>3, HeldIs, OnePointer
<1>5. Free(heap, Top.obj) /\ Top.obj \in DOMAIN heap
  BY <1>2, <1>4 DEF TopOK, Free, Live
<1>6. heap[Top.obj].type = "list" /\ Top.i \in Nat /\ Top.size \in Nat /\ Top.obj # Unset
  BY <1>1, <1>2, <1>5 DEF TopOK, FrameOK, Frames, IsHeap, Unset
<1>7. /\ Range(OwnedOf(Below)) \in SUBSET Int /\ dropped \in SUBSET Int
      /\ pc # "return" =>
           NoLoss(heap, Range(Held(Top)) \union Range(OwnedOf(Below)) \union dropped)
      /\ pc = "return" /\ ~PullFailed =>
           /\ ret.data \in Int
           /\ NoLoss(heap, {ret.data} \union Range(Held(Top)) \union Range(OwnedOf(Below))
                             \union dropped)
  BY <1>1, KeptBefore
<1>8. CASE ListFails
  <2>1. PullFailed /\ pc = "return" /\ ReleaseAndReturn(heap, <<Top.obj>>, ret.code, Unset)
    BY <1>8 DEF ListFails, Returned
  <2>2. <<Top.obj>> \in Seq(Int) /\ Range(Held(Top)) \subseteq Range(<<Top.obj>>)
    BY <1>3, <1>4, OnePointer
  <2> QED
    BY <1>1, <2>1, <2>2, FailLoses
<1>9. CASE ListReadsTail
  <2>1. /\ FunctionReturns(BERT_SUCCESS, Top.obj) /\ heap' = heap /\ dropped' = dropped
        /\ pc # "return"
    BY <1>9 DEF ListReadsTail
  <2>2. Range(Held(Top)) \union Range(OwnedOf(Below)) \union dropped
          = Range(OwnedOf(Below)) \union ({Top.obj} \ {Unset}) \union dropped'
    BY <1>4, <1>6, <2>1
  <2>3. NoLoss(heap', Range(OwnedOf(Below)) \union ({Top.obj} \ {Unset}) \union dropped')
    BY <1>7, <2>1, <2>2
  <2> QED
    BY <2>1, <2>3, PassLoses
<1>10. ASSUME NEW error \in ReadErrors, ListTailFails(error) PROVE LInv'
  <2>1. /\ FunctionReturns(error, Unset) /\ heap' = heap /\ dropped' = dropped \union {Top.obj}
        /\ pc # "return"
    BY <1>10 DEF ListTailFails
  <2>2. Range(Held(Top)) \union Range(OwnedOf(Below)) \union dropped
          = Range(OwnedOf(Below)) \union ({Unset} \ {Unset}) \union dropped'
    BY <1>4, <2>1
  <2>3. NoLoss(heap', Range(OwnedOf(Below)) \union ({Unset} \ {Unset}) \union dropped')
    BY <1>7, <2>1, <2>2
  <2> QED
    BY <2>1, <2>3, PassLoses
<1>11. CASE ListAppendFails
  <2>1. pc = "return" /\ ~PullFailed
    BY <1>11 DEF ListAppendFails, Returned
  <2>2. ret.data \in Int /\ ret.data # Unset
    BY <1>1, <2>1, Pulled
  <2>3. ReleaseAndReturn(heap, <<ret.data, Top.obj>>, BERT_ERRNO_MALLOC, Unset)
    BY <1>11, <2>2 DEF ListAppendFails, Elements
  <2>4. /\ <<ret.data, Top.obj>> \in Seq(Int)
        /\ Range(Held(Top)) \subseteq Range(<<ret.data, Top.obj>>)
        /\ ret.data \in Range(<<ret.data, Top.obj>>)
    BY <1>3, <1>4, <2>2, TwoPointers
  <2> QED
    BY <1>1, <2>1, <2>3, <2>4, FailLoses
<1>12. CASE ListAppends
  <2> DEFINE q == ret.data
             o == Top.obj
             old == heap[o].kids
             kids == Append(old, q)
             a == {o} \union Range(OwnedOf(Below)) \union dropped
             f == Advanced(Top, Top.i + 1, q, Top.second)
  <2>1. pc = "return" /\ ~PullFailed
    BY <1>12 DEF ListAppends, Returned
  <2>2. q \in Int /\ q # Unset
    BY <1>1, <2>1, Pulled
  <2>3. /\ heap' = [heap EXCEPT ![o].kids = kids]
        /\ stack' = [stack EXCEPT ![1].i = @ + 1, ![1].first = q]
        /\ pc' \in {"pull", "tail"} /\ dropped' = dropped
    BY <1>5, <1>12, <2>2 DEF ListAppends, Elements
  <2>4. old \in Seq(Int)
    BY <1>2, <1>5, CellIs
  <2> HIDE DEF old, q
  <2>5. kids \in Seq(Int) /\ q \in Range(kids) /\ Range(old) \subseteq Range(kids)
    <3> DEFINE one == <<q>>
    <3>1. one \in Seq(Int) /\ Range(one) = {q}
      BY <2>2, OnePointer
    <3>2. kids = old \o one
      BY <2>2, <2>4
    <3> HIDE DEF one, kids
    <3>3. old \o one \in Seq(Int) /\ Range(old \o one) = Range(old) \union Range(one)
      BY <2>4, <3>1, RangeOfJoined
    <3> QED
      BY <3>1, <3>2, <3>3
  <2> HIDE DEF kids
  <2>6. /\ heap' \in Seq(Cell) /\ DOMAIN heap' = DOMAIN heap
        /\ heap'[o].kids = kids /\ heap'[o].type = "list"
        /\ \A p \in DOMAIN heap : p # o => heap'[p] = heap[p]
    BY <1>2, <1>5, <1>6, <2>3, <2>5, StoreIs
  <2>7. a \in SUBSET Int /\ o \in a
    BY <1>3, <1>7
  <2>8. NoLoss(heap, a \union {q})
    <3>1. a \union {q}
            = {ret.data} \union Range(Held(Top)) \union Range(OwnedOf(Below)) \union dropped
      BY <1>4 DEF q
    <3> QED
      BY <1>7, <2>1, <3>1
  <2>9. NoLoss(heap', a)
    <3>1. q \in Range(heap'[o].kids) /\ Range(heap[o].kids) \subseteq Range(heap'[o].kids) \union {Null}
      BY <2>5, <2>6 DEF old
    <3>2. o \in DOMAIN heap /\ heap[o].type \notin {"freed", "regex"} /\ heap'[o].type = heap[o].type
      BY <1>5, <1>6, <2>6
    <3> HIDE DEF o, a
    <3> QED
      BY <1>2, <2>6, <2>7, <2>8, <3>1, <3>2, NoLossGiven
  <2>10. Top.first \in Int /\ Top.second \in Int /\ Top.i + 1 \in Nat
         /\ Top.fn # "time" /\ Top.fn # "regex"
    BY <1>1, <1>2, <1>6 DEF Frames
  <2>11. stack' = [stack EXCEPT ![1] = f]
    BY <1>2, <2>3, <2>10 DEF Advanced, Frames
  <2>12. f \in Frames /\ f.fn = "list" /\ f.obj = o
    BY <1>1, <1>2, <2>2, <2>10, FrameAdvanced
  <2> HIDE DEF f
  <2>13. stack' = <<f>> \o Below
    BY <1>1, <2>11, StackSplit DEF Below, TypeInv, StackIn
  <2>14. Range(Held(f)) = {o}
    BY <1>3, <2>12, HeldIs, OnePointer
  <2>15. a = Range(Held(f)) \union Range(OwnedOf(Below)) \union dropped'
    BY <2>3, <2>14
  <2>16. NoLoss(heap', Range(Held(f)) \union Range(OwnedOf(Below)) \union dropped')
    BY <2>9, <2>15
  <2> QED
    BY <1>2, <2>3, <2>12, <2>13, <2>16, GoesOnLoses
<1> QED
  BY <1>8, <1>9, <1>10, <1>11, <1>12 DEF List

\* bert_decode_complex loses no term, but for a keyword that is no atom.
LEMMA ComplexStepsLose == TypeInv /\ DInv /\ LInv /\ pc' # "fault" /\ Complex => LInv'
<1> SUFFICES ASSUME TypeInv, DInv, LInv, pc' # "fault", Complex PROVE LInv'
  OBVIOUS
<1>1. pc = "return" /\ stack # << >>
  BY DEF Complex, NothingHeldFails, PointerUnset, KeywordIsNoAtom, KeywordIsConstant,
         KeywordIsComplex, KeywordIsUnknown, Got, Returned
<1>2. Top \in Frames
  BY <1>1, TopHolds
<1>3. /\ Range(OwnedOf(Below)) \in SUBSET Int /\ dropped \in SUBSET Int
      /\ PullFailed => NoLoss(heap, Range(Held(Top)) \union Range(OwnedOf(Below)) \union dropped)
      /\ ~PullFailed => /\ ret.data \in Int
                        /\ NoLoss(heap, {ret.data} \union Range(Held(Top))
                                          \union Range(OwnedOf(Below)) \union dropped)
  BY <1>1, KeptBefore
<1>4. ASSUME Top.fn \in {"complex", "dict"} \/ (Top.fn = "regex" /\ Top.i = 0)
      PROVE  Range(Held(Top)) = {}
  <2>1. Held(Top) = << >>
    BY <1>2, <1>4, HeldIs
  <2> QED
    BY <2>1, LooseNone
<1>5. ASSUME NEW fn \in {"complex", "dict", "regex"}, NothingHeldFails(fn) PROVE LInv'
  <2>1. /\ PullFailed /\ FunctionReturns(ret.code, Unset) /\ heap' = heap /\ dropped' = dropped
        /\ Top.fn = fn /\ (fn = "regex" => Top.i = 0)
    BY <1>5 DEF NothingHeldFails, Returned
  <2>2. Range(Held(Top)) = {}
    BY <1>4, <2>1
  <2>3. Range(Held(Top)) \union Range(OwnedOf(Below)) \union dropped
          = Range(OwnedOf(Below)) \union ({Unset} \ {Unset}) \union dropped'
    BY <2>1, <2>2
  <2>4. NoLoss(heap', Range(OwnedOf(Below)) \union ({Unset} \ {Unset}) \union dropped')
    BY <1>3, <2>1, <2>3
  <2> QED
    BY <2>1, <2>4, PassLoses
<1>6. ASSUME NEW fn \in {"complex", "time", "dict", "regex"}, PointerUnset(fn) PROVE LInv'
  BY <1>6 DEF PointerUnset, Crash
<1>7. CASE KeywordIsNoAtom
  <2>1. /\ ~PullFailed /\ FunctionReturns(BERT_ERRNO_INVALID, Unset) /\ heap' = heap
        /\ dropped' = dropped \union {ret.data} /\ Top.fn = "complex"
    BY <1>7 DEF KeywordIsNoAtom, Got, Returned
  <2>2. Range(Held(Top)) = {}
    BY <1>4, <2>1
  <2>3. {ret.data} \union Range(Held(Top)) \union Range(OwnedOf(Below)) \union dropped
          = Range(OwnedOf(Below)) \union ({Unset} \ {Unset}) \union dropped'
    BY <2>1, <2>2
  <2>4. NoLoss(heap', Range(OwnedOf(Below)) \union ({Unset} \ {Unset}) \union dropped')
    BY <1>3, <2>1, <2>3
  <2> QED
    BY <2>1, <2>4, PassLoses
<1>8. ASSUME ~PullFailed, Top.fn = "complex"
      PROVE  /\ <<ret.data>> \in Seq(Int) /\ ret.data \in Range(<<ret.data>>)
             /\ Range(Held(Top)) \subseteq Range(<<ret.data>>)
             /\ Range(<<ret.data>>) = {ret.data} \union Range(Held(Top))
  <2>1. <<ret.data>> \in Seq(Int) /\ Range(<<ret.data>>) = {ret.data}
    BY <1>3, <1>8, OnePointer
  <2> QED
    BY <1>4, <1>8, <2>1
<1>9. CASE KeywordIsConstant
  <2> DEFINE type == IF heap[ret.data].text = "nil" THEN "nil" ELSE "boolean"
             cell == Term(type, "", << >>)
  <2>1. /\ \/ ReleaseAndReturn(Append(heap, cell), <<ret.data>>, BERT_SUCCESS, NewId)
           \/ ReleaseAndReturn(heap, <<ret.data>>, BERT_ERRNO_MALLOC, Unset)
        /\ ~PullFailed /\ Top.fn = "complex"
    BY <1>9 DEF KeywordIsConstant, With, Got, Returned
  <2>2. type \in {"nil", "boolean"}
    OBVIOUS
  <2> HIDE DEF type
  <2>3. cell \in Cell /\ cell.type \notin {"freed", "regex"} /\ cell.kids = << >>
    <3>1. << >> \in Seq(Int)
      OBVIOUS
    <3> QED
      BY <2>2, <3>1 DEF Term, Cell
  <2> HIDE DEF cell
  <2>4. CASE ReleaseAndReturn(Append(heap, cell), <<ret.data>>, BERT_SUCCESS, NewId)
    BY <1>1, <1>8, <2>1, <2>3, <2>4, MadeLoses
  <2>5. CASE ReleaseAndReturn(heap, <<ret.data>>, BERT_ERRNO_MALLOC, Unset)
    BY <1>1, <1>8, <2>1, <2>5, FailLoses
  <2> QED
    BY <2>1, <2>4, <2>5
<1>10. CASE KeywordIsComplex
  <2>1. PICK word \in Complexes : stack' = <<Frame(word, Null, 0)>> \o Below
    BY <1>10 DEF KeywordIsComplex
  <2>2. word \in {"complex", "time", "dict", "regex"}
    BY DEF Complexes
  <2>3. Release(heap, <<ret.data>>) /\ pc' = "pull" /\ ~PullFailed /\ Top.fn = "complex"
    BY <1>10 DEF KeywordIsComplex, Got, Returned
  <2> QED
    BY <1>1, <1>8, <2>1, <2>2, <2>3, BeginsLoses
<1>11. CASE KeywordIsUnknown
  <2>1. /\ ReleaseAndReturn(heap, <<ret.data>>, BERT_ERRNO_INVALID, Unset)
        /\ ~PullFailed /\ Top.fn = "complex"
    BY <1>11 DEF KeywordIsUnknown, Got, Returned
  <2> QED
    BY <1>1, <1>8, <2>1, FailLoses
<1> QED
  BY <1>5, <1>6, <1>7, <1>9, <1>10, <1>11 DEF Complex

\* What bert_decode_time destroys is all that it holds.
LEMMA TimeRoots ==
  ASSUME NEW x \in Int, Top \in Frames, Top.fn = "time"
  PROVE  /\ <<x>> \o TimeHeld \in Seq(Int) /\ x \in Range(<<x>> \o TimeHeld)
         /\ Range(Held(Top)) \subseteq Range(<<x>> \o TimeHeld)
<1> DEFINE one == <<x>>
<1>1. Top.i \in {0, 1, 2} /\ Top.first \in Int /\ Top.second \in Int
  BY DEF Frames
<1>2. TimeHeld \in Seq(Int) /\ Range(Held(Top)) \subseteq Range(TimeHeld)
  <2>1. CASE Top.i = 0
    <3>1. TimeHeld = << >> /\ Held(Top) = << >>
      BY <2>1, HeldIs DEF TimeHeld
    <3> QED
      BY <3>1
  <2>2. CASE Top.i = 1
    <3>1. TimeHeld = <<Top.first>> /\ Held(Top) = <<Top.first>>
      BY <2>2, HeldIs DEF TimeHeld
    <3> QED
      BY <1>1, <3>1
  <2>3. CASE Top.i = 2
    <3>1. TimeHeld = <<Top.second, Top.first>> /\ Held(Top) = <<Top.first, Top.second>>
      BY <2>3, HeldIs DEF TimeHeld
    <3> QED
      BY <1>1, <3>1, TwoPointers
  <2> QED
    BY <1>1, <2>1, <2>2, <2>3
<1>3. one \in Seq(Int) /\ Range(one) = {x}
  BY OnePointer
<1> HIDE DEF one
<1>4. one \o TimeHeld \in Seq(Int) /\ Range(one \o TimeHeld) = Range(one) \union Range(TimeHeld)
  BY <1>2, <1>3, RangeOfJoined
<1> QED
  BY <1>2, <1>3, <1>4 DEF one

\* bert_decode_time loses no term.
LEMMA TimeStepsLose == TypeInv /\ DInv /\ LInv /\ pc' # "fault" /\ Time => LInv'
<1> SUFFICES ASSUME TypeInv, DInv, LInv, pc' # "fault", Time PROVE LInv'
  OBVIOUS
<1>1. pc = "return" /\ stack # << >> /\ Top.fn = "time"
  BY DEF Time, TimeFails, TimeIsNoInteger, TimeGoesOn, TimeIsMade, Got, Returned
<1>2. Top \in Frames /\ Below \in Seq(Frames) /\ Top = stack[1]
  BY <1>1, TopTyped
<1>3. /\ Top.i \in 0 .. 2 /\ Top.i \in Nat /\ Top.first \in Int /\ Top.second \in Int
      /\ Top.fn # "regex"
  BY <1>1, <1>2 DEF Frames
<1>4. ~PullFailed => /\ ret.data \in Int
                     /\ NoLoss(heap, {ret.data} \union Range(Held(Top))
                                       \union Range(OwnedOf(Below)) \union dropped)
  BY <1>1, KeptBefore
<1>5. ASSUME NEW x \in Int
      PROVE  /\ <<x>> \o TimeHeld \in Seq(Int) /\ x \in Range(<<x>> \o TimeHeld)
             /\ Range(Held(Top)) \subseteq Range(<<x>> \o TimeHeld)
  BY <1>1, <1>2, TimeRoots
<1>6. CASE TimeFails
  <2>1. PICK unset \in Uninitialised : ReleaseAndReturn(heap, <<unset>> \o TimeHeld, ret.code, Unset)
    BY <1>6 DEF TimeFails
  <2>2. PullFailed /\ unset \in Int
    BY <1>6, BuildAssumption DEF TimeFails, Null, Wild
  <2> DEFINE roots == <<unset>> \o TimeHeld
  <2>3. roots \in Seq(Int) /\ Range(Held(Top)) \subseteq Range(roots)
    BY <1>5, <2>2
  <2>4. ReleaseAndReturn(heap, roots, ret.code, Unset)
    BY <2>1
  <2> HIDE DEF roots
  <2> QED
    BY <1>1, <2>2, <2>3, <2>4, FailLoses
<1>7. CASE TimeIsNoInteger
  <2> DEFINE roots == <<ret.data>> \o TimeHeld
  <2>1. ReleaseAndReturn(heap, roots, BERT_ERRNO_INVALID, Unset) /\ ~PullFailed
    BY <1>7 DEF TimeIsNoInteger, Got
  <2>2. roots \in Seq(Int) /\ ret.data \in Range(roots) /\ Range(Held(Top)) \subseteq Range(roots)
    BY <1>4, <1>5, <2>1
  <2> HIDE DEF roots
  <2> QED
    BY <1>1, <2>1, <2>2, FailLoses
<1>8. CASE TimeGoesOn
  <2> DEFINE a == IF Top.i = 0 THEN ret.data ELSE Top.first
             b == IF Top.i = 1 THEN ret.data ELSE Top.second
             f == Advanced(Top, Top.i + 1, a, b)
  <2>1. Top.i < 2 /\ pc' = "pull" /\ heap' = heap /\ dropped' = dropped /\ ~PullFailed
        /\ stack' = [stack EXCEPT ![1].i = @ + 1,
                                  ![1].first = IF Top.i = 0 THEN ret.data ELSE @,
                                  ![1].second = IF Top.i = 1 THEN ret.data ELSE @]
    BY <1>8 DEF TimeGoesOn, Got
  <2>2. ret.data \in Int
    BY <1>4, <2>1
  <2>3. stack' = [stack EXCEPT ![1] = f]
    BY <1>2, <2>1 DEF Advanced, Frames
  <2>4. a \in Int /\ b \in Int /\ Top.i + 1 \in 0 .. 2 /\ Top.i + 1 \in Nat
        /\ (Top.i = 0 => a = ret.data) /\ (Top.i = 1 => a = Top.first /\ b = ret.data)
    BY <1>3, <2>1, <2>2
  <2> HIDE DEF a, b
  <2>5. f \in Frames /\ f.fn = "time" /\ f.i = Top.i + 1 /\ f.first = a /\ f.second = b
    BY <1>1, <1>2, <1>3, <2>4, FrameAdvanced
  <2> HIDE DEF f
  <2>6. stack' = <<f>> \o Below
    BY <1>1, <2>3, StackSplit DEF Below, TypeInv, StackIn
  <2>7. Range(Held(f)) = {ret.data} \union Range(Held(Top))
    <3>1. CASE Top.i = 0
      <4>1. Held(f) = <<ret.data>> /\ Held(Top) = << >>
        BY <1>1, <1>2, <2>4, <2>5, <3>1, HeldIs
      <4> QED
        BY <2>2, <4>1, OnePointer, LooseNone
    <3>2. CASE Top.i = 1
      <4>1. Held(f) = <<Top.first, ret.data>> /\ Held(Top) = <<Top.first>>
        BY <1>1, <1>2, <2>4, <2>5, <3>2, HeldIs
      <4>2. Range(Held(f)) = {Top.first, ret.data} /\ Range(Held(Top)) = {Top.first}
        BY <1>3, <2>2, <4>1, OnePointer, TwoPointers
      <4> QED
        BY <4>2
    <3> QED
      BY <1>3, <2>1, <3>1, <3>2
  <2>8. NoLoss(heap', Range(Held(f)) \union Range(OwnedOf(Below)) \union dropped')
    BY <1>4, <2>1, <2>7
  <2> QED
    BY <1>2, <2>1, <2>5, <2>6, <2>8, GoesOnLoses
<1>9. CASE TimeIsMade
  <2> DEFINE text == IF heap[ret.data].type = "int" THEN "integers" ELSE "garbage"
             cell == Term("time", text, << >>)
             roots == <<ret.data>> \o TimeHeld
  <2>1. \/ ReleaseAndReturn(Append(heap, cell), roots, BERT_SUCCESS, NewId)
        \/ ReleaseAndReturn(heap, roots, BERT_ERRNO_MALLOC, Unset)
    BY <1>9 DEF TimeIsMade, With
  <2>2. ~PullFailed
    BY <1>9 DEF TimeIsMade, Got
  <2>3. roots \in Seq(Int) /\ ret.data \in Range(roots) /\ Range(Held(Top)) \subseteq Range(roots)
    BY <1>4, <1>5, <2>2
  <2>4. text \in {"integers", "garbage"}
    OBVIOUS
  <2> HIDE DEF text, roots
  <2>5. cell \in Cell /\ cell.type \notin {"freed", "regex"} /\ cell.kids = << >>
    <3>1. << >> \in Seq(Int)
      OBVIOUS
    <3> QED
      BY <2>4, <3>1 DEF Term, Cell
  <2> HIDE DEF cell
  <2>6. CASE ReleaseAndReturn(Append(heap, cell), roots, BERT_SUCCESS, NewId)
    BY <1>1, <2>2, <2>3, <2>5, <2>6, MadeLoses
  <2>7. CASE ReleaseAndReturn(heap, roots, BERT_ERRNO_MALLOC, Unset)
    BY <1>1, <2>2, <2>3, <2>7, FailLoses
  <2> QED
    BY <2>1, <2>6, <2>7
<1> QED
  BY <1>6, <1>7, <1>8, <1>9 DEF Time

\* All that the pairs held is moved.
LEMMA AllMoved ==
  ASSUME NEW entries, heap \in Seq(Cell), entries \in Seq(Int),
         \A k \in DOMAIN entries : IsPair(entries[k]), NEW p \in Range(entries)
  PROVE  Range(heap[p].kids) \subseteq Range(KeysAndValues(entries))
<1> DEFINE moved == KeysAndValues(entries)
           n == Len(entries)
<1>1. PICK j \in 1 .. n : entries[j] = p
  BY DEF Range
<1>2. n \in Nat /\ j \in Nat
  OBVIOUS
<1>3. /\ moved \in Seq(Int) /\ Len(moved) = 2 * n
      /\ \A k \in 1 .. 2 * n : moved[k] = heap[entries[(k + 1) \div 2]].kids[2 - (k % 2)]
  BY DictMoved
<1>4. p \in 1 .. Len(heap) /\ Len(heap[p].kids) = 2
  BY <1>1 DEF IsPair, Live
<1>5. heap[p].kids \in Seq(Int)
  BY <1>4, CellIs
<1>6. DOMAIN heap[p].kids = {1, 2} /\ DOMAIN moved = 1 .. 2 * n
  <2>1. DOMAIN heap[p].kids = 1 .. 2
    BY <1>4, <1>5
  <2> HIDE DEF moved, n
  <2>2. DOMAIN moved = 1 .. 2 * n
    BY <1>2, <1>3
  <2> QED
    BY <2>1, <2>2
<1> HIDE DEF moved, n
<1>7. moved[2 * j - 1] = heap[p].kids[1] /\ 2 * j - 1 \in DOMAIN moved
  <2>1. 2 * j - 1 \in 1 .. 2 * n
    BY <1>2
  <2>2. ((2 * j - 1) + 1) \div 2 = j /\ 2 - ((2 * j - 1) % 2) = 1
    BY <1>2
  <2>3. moved[2 * j - 1] = heap[entries[((2 * j - 1) + 1) \div 2]].kids[2 - ((2 * j - 1) % 2)]
    BY <1>3, <2>1
  <2> QED
    BY <1>1, <1>6, <2>1, <2>2, <2>3
<1>8. moved[2 * j] = heap[p].kids[2] /\ 2 * j \in DOMAIN moved
  <2>1. 2 * j \in 1 .. 2 * n
    BY <1>2
  <2>2. (2 * j + 1) \div 2 = j /\ 2 - ((2 * j) % 2) = 2
    BY <1>2
  <2>3. moved[2 * j] = heap[entries[(2 * j + 1) \div 2]].kids[2 - ((2 * j) % 2)]
    BY <1>3, <2>1
  <2> QED
    BY <1>1, <1>6, <2>1, <2>2, <2>3
<1>9. \A k \in DOMAIN heap[p].kids : heap[p].kids[k] \in Range(moved)
  BY <1>6, <1>7, <1>8 DEF Range
<1> QED
  BY <1>9 DEF Range, moved

\* A dict on its way loses no term while the key and the value of the pair just taken are kept.
LEMMA DictOfLoses ==
  ASSUME TypeInv, DInv, LInv, pc = "return", stack # << >>, ~PullFailed, Top.fn = "dict",
         NEW taken \in 0 .. Len(Entries), \A k \in 1 .. taken : IsPair(Entries[k]),
         NEW n \in 0 .. taken
  PROVE  LET moved == KeysAndValues(SubSeq(Entries, 1, taken))
         IN  /\ DictOf(n, taken) \in Seq(Cell)
             /\ NoLoss(DictOf(n, taken),
                       {ret.data, NewId} \union Range(OwnedOf(Below)) \union dropped
                         \union {moved[k] : k \in 2 * n + 1 .. 2 * taken})
<1> DEFINE e == SubSeq(Entries, 1, taken)
           f == SubSeq(Entries, 1, n)
           h == EntriesEmptied(e)
           moved == KeysAndValues(e)
           part == KeysAndValues(f)
           cell == Term("dict", "", part)
           more == Append(h, cell)
           left == {moved[k] : k \in 2 * n + 1 .. 2 * taken}
           a == {ret.data} \union Range(OwnedOf(Below)) \union dropped
           b == a \union left \union Range(part)
<1>1. /\ heap \in Seq(Cell) /\ Range(OwnedOf(Below)) \in SUBSET Int /\ dropped \in SUBSET Int
      /\ ret.data \in Int
      /\ NoLoss(heap, {ret.data} \union Range(Held(Top)) \union Range(OwnedOf(Below)) \union dropped)
  BY KeptBefore
<1>2. Range(Held(Top)) = {}
  <2>1. Held(Top) = << >>
    BY TopTyped, HeldIs
  <2> QED
    BY <2>1, LooseNone
<1>3. Entries \in Seq(Int) /\ Len(Entries) \in Nat
  BY EntriesAre
<1>4. /\ e \in Seq(Int) /\ DOMAIN e = 1 .. taken /\ \A k \in 1 .. taken : e[k] = Entries[k]
  BY <1>3, Prefix
<1>5. \A k \in DOMAIN e : IsPair(e[k])
  BY <1>4
<1>6. /\ moved \in Seq(Int) /\ DOMAIN moved = 1 .. 2 * taken
      /\ part \in Seq(Int) /\ DOMAIN part = 1 .. 2 * n
      /\ \A k \in 1 .. 2 * n : part[k] = moved[k]
  BY <1>1, <1>3, MovedPrefix
<1> HIDE DEF e, f
<1>7. /\ h \in Seq(Cell) /\ Len(h) = Len(heap)
      /\ \A p \in DOMAIN heap : h[p].type = heap[p].type
      /\ \A p \in DOMAIN heap : p \notin Range(e) => h[p] = heap[p]
      /\ \A p \in Range(e) : p \in DOMAIN heap /\ heap[p].type = "tuple"
                             /\ h[p].kids = <<Null, Null>>
  BY <1>1, <1>4, <1>5, DictMoved
<1>8. \A p \in Range(e) : Range(heap[p].kids) \subseteq Range(moved)
  BY <1>1, <1>4, <1>5, AllMoved
<1> HIDE DEF h, moved, part
<1>9. Range(moved) = left \union Range(part) /\ left \subseteq Int
  <2>1. \A k \in 1 .. 2 * taken : k \in 1 .. 2 * n \/ k \in 2 * n + 1 .. 2 * taken
    BY <1>3
  <2>2. /\ \A k \in 1 .. 2 * n : k \in 1 .. 2 * taken
        /\ \A k \in 2 * n + 1 .. 2 * taken : k \in 1 .. 2 * taken
    BY <1>3
  <2>3. \A k \in 2 * n + 1 .. 2 * taken : moved[k] \in Int
    BY <1>6, <2>2
  <2>4. Range(moved) \subseteq left \union Range(part)
    BY <1>6, <2>1 DEF Range
  <2>5. left \subseteq Range(moved) /\ Range(part) \subseteq Range(moved)
    BY <1>6, <2>2 DEF Range
  <2> QED
    BY <2>3, <2>4, <2>5
<1>10. DOMAIN h = DOMAIN heap
  BY <1>1, <1>7
<1>11. IsHeap(heap) /\ IsHeap(h) /\ a \in SUBSET Int /\ Range(part) \in SUBSET Int /\ b \in SUBSET Int
  <2>1. Range(part) \in SUBSET Int
    BY <1>6, PointersAre
  <2> HIDE DEF left
  <2> QED
    BY <1>1, <1>7, <1>9, <2>1, CellsAreHeap
<1>12. b \ {Null} \subseteq Reach(h, b)
  BY <1>11, ReachStored
<1> HIDE DEF left
<1>13. ASSUME NEW p \in DOMAIN heap
       PROVE  /\ p \in DOMAIN h /\ h[p].type = heap[p].type
              /\ heap[p].type = "regex" => h[p] = heap[p]
              /\ Range(heap[p].kids) \subseteq Range(h[p].kids) \union Reach(h, b) \union {Null}
  <2>1. CASE p \in Range(e)
    <3>1. Range(heap[p].kids) \subseteq b
      BY <1>8, <1>9, <2>1
    <3>2. Range(heap[p].kids) \subseteq Reach(h, b) \union {Null}
      BY <1>12, <3>1
    <3>3. heap[p].type = "tuple"
      BY <1>7, <2>1
    <3> QED
      BY <1>7, <1>10, <3>2, <3>3
  <2>2. CASE p \notin Range(e)
    BY <1>7, <1>10, <2>2
  <2> QED
    BY <2>1, <2>2
<1>14. a \subseteq Reach(h, b) \union {Null}
  BY <1>12
<1>15. NoLoss(heap, a)
  <2>1. a = {ret.data} \union Range(Held(Top)) \union Range(OwnedOf(Below)) \union dropped
    BY <1>2
  <2> QED
    BY <1>1, <2>1
<1>16. cell \in Cell /\ cell.type \notin {"freed", "regex"} /\ cell.kids = part
  BY <1>6 DEF Term, Cell
<1> HIDE DEF cell
<1>17. NoLoss(h, (a \union left) \union Range(cell.kids)) /\ a \union left \in SUBSET Int
  <2>1. a \union left \in SUBSET Int
    BY <1>9, <1>11
  <2> HIDE DEF a, b
  <2>2. Covered(heap, a) \subseteq Covered(h, b)
    BY <1>11, <1>13, <1>14, CoverMoved
  <2>3. \A p \in DOMAIN h : Live(h, p) => p \in DOMAIN heap /\ Live(heap, p)
    BY <1>7, <1>10 DEF Live
  <2>4. NoLoss(h, b)
    BY <1>15, <2>2, <2>3 DEF NoLoss
  <2> QED
    BY <1>16, <2>1, <2>4 DEF b
<1>18. NoLoss(more, (a \union left) \union {Len(h) + 1}) /\ more \in Seq(Cell)
  <2>1. more \in Seq(Cell)
    BY <1>7, <1>16, AppendProperties
  <2> HIDE DEF a, b
  <2> QED
    BY <1>7, <1>16, <1>17, <2>1, CellsOfDecode, NoLossAppended
<1>19. (a \union left) \union {Len(h) + 1}
         = {ret.data, NewId} \union Range(OwnedOf(Below)) \union dropped \union left
  BY <1>7 DEF NewId
<1>20. more = DictOf(n, taken)
  BY DEF DictOf, more, h, cell, part, e, f
<1> HIDE DEF more, a, b
<1> QED
  BY <1>18, <1>19, <1>20 DEF left, moved, e

\* bert_decode_dict loses no term.
LEMMA DictStepsLose == TypeInv /\ DInv /\ LInv /\ pc' # "fault" /\ Dict => LInv'
<1> SUFFICES ASSUME TypeInv, DInv, LInv, pc' # "fault", Dict PROVE LInv'
  OBVIOUS
<1>1. pc = "return" /\ stack # << >> /\ ~PullFailed /\ Top.fn = "dict" /\ Top.fn # "tuple"
  BY DEF Dict, DictIsNoList, DictMallocFails, DictEntryIsNoPair, DictAppendFails, DictIsMade,
         Got, Returned
<1>2. Range(Held(Top)) = {}
  <2>1. Held(Top) = << >>
    BY <1>1, TopTyped, HeldIs
  <2> QED
    BY <2>1, LooseNone
<1>3. /\ heap \in Seq(Cell) /\ Range(OwnedOf(Below)) \in SUBSET Int /\ dropped \in SUBSET Int
      /\ ret.data \in Int
      /\ NoLoss(heap, {ret.data} \union Range(Held(Top)) \union Range(OwnedOf(Below)) \union dropped)
  BY <1>1, KeptBefore
<1>4. /\ <<ret.data>> \in Seq(Int) /\ Range(<<ret.data>>) = {ret.data}
      /\ ret.data \in Range(<<ret.data>>) /\ Range(Held(Top)) \subseteq Range(<<ret.data>>)
  BY <1>2, <1>3, OnePointer
<1>5. CASE DictIsNoList
  <2>1. ReleaseAndReturn(heap, <<ret.data>>, BERT_ERRNO_INVALID, Unset)
    BY <1>5 DEF DictIsNoList
  <2> QED
    BY <1>1, <1>4, <2>1, FailLoses
<1>6. CASE DictMallocFails
  <2>1. ReleaseAndReturn(heap, <<ret.data>>, BERT_ERRNO_MALLOC, Unset)
    BY <1>6 DEF DictMallocFails
  <2> QED
    BY <1>1, <1>4, <2>1, FailLoses
<1>7. Entries \in Seq(Int) /\ Len(Entries) \in Nat /\ DOMAIN Entries = 1 .. Len(Entries)
  BY <1>1, EntriesAre
<1>8. NewId \in Int /\ NewId # Unset
  BY NewIdIs
<1>9. ASSUME NEW taken \in 0 .. Len(Entries), \A k \in 1 .. taken : IsPair(Entries[k]),
             NEW n \in 0 .. taken, NEW roots \in Seq(Int), NEW code, NEW data \in {Unset, NewId},
             ReleaseAndReturn(DictOf(n, taken), roots, code, data),
             ret.data \in Range(roots), NewId \in Range(roots) \/ data = NewId,
             \A k \in 2 * n + 1 .. 2 * taken :
               KeysAndValues(SubSeq(Entries, 1, taken))[k] \in Range(roots)
      PROVE  LInv'
  <2> DEFINE kept == Range(OwnedOf(Below)) \union dropped \union ({data} \ {Unset}) \union Range(roots)
  <2>1. /\ DictOf(n, taken) \in Seq(Cell)
        /\ NoLoss(DictOf(n, taken),
                  {ret.data, NewId} \union Range(OwnedOf(Below)) \union dropped
                    \union {KeysAndValues(SubSeq(Entries, 1, taken))[k] :
                              k \in 2 * n + 1 .. 2 * taken})
    BY <1>1, <1>9, DictOfLoses
  <2>2. {ret.data, NewId} \union Range(OwnedOf(Below)) \union dropped
          \union {KeysAndValues(SubSeq(Entries, 1, taken))[k] : k \in 2 * n + 1 .. 2 * taken}
            \subseteq kept
    <3> HIDE DEF kept
    <3>1. ret.data \in kept /\ Range(OwnedOf(Below)) \subseteq kept /\ dropped \subseteq kept
      BY <1>9 DEF kept
    <3>2. NewId \in kept
      BY <1>8, <1>9 DEF kept
    <3>3. \A k \in 2 * n + 1 .. 2 * taken :
            KeysAndValues(SubSeq(Entries, 1, taken))[k] \in kept
      BY <1>9 DEF kept
    <3> QED
      BY <3>1, <3>2, <3>3
  <2>3. kept \in SUBSET Int /\ data \in Int
    <3>1. Range(roots) \in SUBSET Int
      BY PointersAre
    <3>2. data \in Int
      BY <1>8 DEF Unset
    <3>3. {data} \ {Unset} \in SUBSET Int
      BY <3>2
    <3> QED
      BY <1>3, <3>1, <3>2, <3>3
  <2> HIDE DEF kept
  <2>4. NoLoss(DictOf(n, taken), kept)
    BY <2>1, <2>2, <2>3, CellsAreHeap, NoLossMore
  <2> QED
    BY <1>1, <1>9, <2>1, <2>3, <2>4, ReturnLoses DEF kept
<1>10. CASE DictEntryIsNoPair
  <2> DEFINE n == FirstNoPair - 1
             roots == <<NewId, ret.data>>
  <2>1. FirstNoPair # 0 /\ ReleaseAndReturn(DictOf(n, n), roots, BERT_ERRNO_INVALID, Unset)
    BY <1>10 DEF DictEntryIsNoPair, Crash
  <2>2. n \in 0 .. Len(Entries) /\ \A k \in 1 .. n : IsPair(Entries[k])
    BY <1>7, <2>1, FirstNoPairIs
  <2>3. roots \in Seq(Int) /\ Range(roots) = {NewId, ret.data}
    BY <1>3, <1>8, TwoPointers
  <2> HIDE DEF n, roots
  <2>4. n \in 0 .. n /\ 2 * n + 1 .. 2 * n = {}
    BY <1>7, <2>2
  <2> QED
    BY <1>9, <2>1, <2>2, <2>3, <2>4
<1>11. CASE DictAppendFails
  <2>1. PICK n \in DOMAIN Entries :
          /\ \A k \in 1 .. n : IsPair(Entries[k])
          /\ ReleaseAndReturn(DictOf(n - 1, n), <<heap[Entries[n]].kids[2], heap[Entries[n]].kids[1],
                                                  NewId, ret.data>>, BERT_ERRNO_MALLOC, Unset)
    BY <1>11 DEF DictAppendFails
  <2> DEFINE moved == KeysAndValues(SubSeq(Entries, 1, n))
             key == heap[Entries[n]].kids[1]
             value == heap[Entries[n]].kids[2]
             roots == <<value, key, NewId, ret.data>>
  <2>2. n \in 0 .. Len(Entries) /\ n - 1 \in 0 .. n
    BY <1>7
  <2>3. /\ moved[2 * n - 1] = key /\ moved[2 * n] = value
        /\ {2 * n - 1, 2 * n} \subseteq 1 .. 2 * n
        /\ 2 * (n - 1) + 1 .. 2 * n = {2 * n - 1, 2 * n}
    BY <1>3, <1>7, <2>1, LastPair
  <2>4. moved \in Seq(Int) /\ DOMAIN moved = 1 .. 2 * n
    BY <1>3, <1>7, <2>1, <2>2, MovedPrefix
  <2> HIDE DEF moved, key, value
  <2>5. key \in Int /\ value \in Int
    <3>1. \A k \in 1 .. 2 * n : moved[k] \in Int
      BY <2>4
    <3> QED
      BY <2>3, <3>1
  <2>6. roots \in Seq(Int) /\ Range(roots) = {value, key, NewId, ret.data}
    BY <1>3, <1>8, <2>5, FourPointers
  <2>7. \A k \in 2 * (n - 1) + 1 .. 2 * n : moved[k] \in Range(roots)
    BY <2>3, <2>6
  <2>8. ReleaseAndReturn(DictOf(n - 1, n), roots, BERT_ERRNO_MALLOC, Unset)
    BY <2>1 DEF key, value
  <2> HIDE DEF roots
  <2>9. ret.data \in Range(roots) /\ NewId \in Range(roots)
    BY <2>6
  <2> QED
    BY <1>9, <2>1, <2>2, <2>6, <2>7, <2>8, <2>9 DEF moved
<1>12. CASE DictIsMade
  <2> DEFINE n == Len(Entries)
  <2>1. /\ \A k \in 1 .. n : IsPair(Entries[k])
        /\ ReleaseAndReturn(DictOf(n, n), <<ret.data>>, BERT_SUCCESS, NewId)
    BY <1>7, <1>12 DEF DictIsMade
  <2>2. n \in 0 .. Len(Entries) /\ n \in 0 .. n /\ 2 * n + 1 .. 2 * n = {}
    BY <1>7
  <2> HIDE DEF n
  <2> QED
    BY <1>4, <1>9, <2>1, <2>2
<1> QED
  BY <1>5, <1>6, <1>10, <1>11, <1>12 DEF Dict

\* bert_decode_regex loses no term, but for the text that is the source of what it makes.
LEMMA RegexStepsLose == TypeInv /\ DInv /\ LInv /\ pc' # "fault" /\ Regex => LInv'
<1> SUFFICES ASSUME TypeInv, DInv, LInv, pc' # "fault", Regex PROVE LInv'
  OBVIOUS
<1>1. pc = "return" /\ stack # << >> /\ Top.fn = "regex"
  BY DEF Regex, RegexSourceIsNoBin, RegexGoesOn, RegexOptionsFail, RegexOptionsAreInvalid,
         RegexIsMade, Got, Returned
<1>2. Top \in Frames /\ Below \in Seq(Frames) /\ Top = stack[1]
  BY <1>1, TopTyped
<1>3. /\ Top.i \in 0 .. 1 /\ Top.first \in Int /\ Top.second \in Int /\ Top.fn # "time"
  BY <1>1, <1>2 DEF Frames
<1>4. /\ heap \in Seq(Cell) /\ Range(OwnedOf(Below)) \in SUBSET Int /\ dropped \in SUBSET Int
      /\ ~PullFailed => /\ ret.data \in Int
                        /\ NoLoss(heap, {ret.data} \union Range(Held(Top))
                                          \union Range(OwnedOf(Below)) \union dropped)
  BY <1>1, KeptBefore
<1>5. Top.i = 0 => Range(Held(Top)) = {}
  <2>1. Top.i = 0 => Held(Top) = << >>
    BY <1>1, <1>2, HeldIs
  <2> QED
    BY <2>1, LooseNone
<1>6. Top.i = 1 => Range(Held(Top)) = {Top.first}
  <2>1. Top.i = 1 => Held(Top) = <<Top.first>>
    BY <1>1, <1>2, HeldIs
  <2> QED
    BY <1>3, <2>1, OnePointer
<1>7. CASE RegexSourceIsNoBin
  <2>1. ReleaseAndReturn(heap, <<ret.data>>, BERT_ERRNO_INVALID, Unset) /\ ~PullFailed /\ Top.i = 0
    BY <1>7 DEF RegexSourceIsNoBin, Got
  <2>2. /\ <<ret.data>> \in Seq(Int) /\ ret.data \in Range(<<ret.data>>)
        /\ Range(Held(Top)) \subseteq Range(<<ret.data>>)
    BY <1>4, <1>5, <2>1, OnePointer
  <2> QED
    BY <1>1, <2>1, <2>2, FailLoses
<1>8. CASE RegexOptionsFail
  <2>1. PullFailed /\ Top.i = 1 /\ ReleaseAndReturn(heap, <<Top.first>>, ret.code, Unset)
    BY <1>8 DEF RegexOptionsFail
  <2>2. <<Top.first>> \in Seq(Int) /\ Range(Held(Top)) \subseteq Range(<<Top.first>>)
    BY <1>3, <1>6, <2>1, OnePointer
  <2> QED
    BY <1>1, <2>1, <2>2, FailLoses
<1>9. ASSUME ~PullFailed, Top.i = 1
      PROVE  /\ <<ret.data, Top.first>> \in Seq(Int)
             /\ Range(<<ret.data, Top.first>>) = {ret.data} \union Range(Held(Top))
             /\ ret.data \in Range(<<ret.data, Top.first>>)
             /\ Range(Held(Top)) \subseteq Range(<<ret.data, Top.first>>)
  <2>1. /\ <<ret.data, Top.first>> \in Seq(Int)
        /\ Range(<<ret.data, Top.first>>) = {ret.data, Top.first}
    BY <1>3, <1>4, <1>9, TwoPointers
  <2> QED
    BY <1>6, <1>9, <2>1
<1>10. CASE RegexOptionsAreInvalid
  <2>1. /\ ReleaseAndReturn(heap, <<ret.data, Top.first>>, BERT_ERRNO_INVALID, Unset)
        /\ ~PullFailed /\ Top.i = 1
    BY <1>10 DEF RegexOptionsAreInvalid, Got, Crash
  <2> QED
    BY <1>1, <1>9, <2>1, FailLoses
<1>11. CASE RegexGoesOn
  <2> DEFINE f == Advanced(Top, 1, ret.data, Top.second)
  <2>1. /\ stack' = [stack EXCEPT ![1].i = 1, ![1].first = ret.data] /\ pc' = "pull"
        /\ heap' = heap /\ dropped' = dropped /\ ~PullFailed /\ Top.i = 0
    BY <1>11 DEF RegexGoesOn, Got
  <2>2. ret.data \in Int
    BY <1>4, <2>1
  <2>3. stack' = [stack EXCEPT ![1] = f]
    BY <1>2, <2>1 DEF Advanced, Frames
  <2>4. f \in Frames /\ f.fn = "regex" /\ f.i = 1 /\ f.first = ret.data
    <3>1. Top.fn # "time" /\ 1 \in Nat /\ 1 \in 0 .. 1
      BY <1>1
    <3> QED
      BY <1>1, <1>2, <1>3, <2>2, <3>1, FrameAdvanced
  <2> HIDE DEF f
  <2>5. stack' = <<f>> \o Below
    BY <1>1, <2>3, StackSplit DEF Below, TypeInv, StackIn
  <2>6. Range(Held(f)) = {ret.data}
    BY <2>2, <2>4, HeldIs, OnePointer
  <2>7. Range(Held(f)) \union Range(OwnedOf(Below)) \union dropped'
          = {ret.data} \union Range(Held(Top)) \union Range(OwnedOf(Below)) \union dropped
    BY <1>5, <2>1, <2>6
  <2>8. NoLoss(heap', Range(Held(f)) \union Range(OwnedOf(Below)) \union dropped')
    BY <1>4, <2>1, <2>7
  <2> QED
    BY <1>2, <2>1, <2>4, <2>5, <2>8, GoesOnLoses
<1>12. CASE RegexIsMade
  <2> DEFINE text == Term("text", "", << >>)
             regex == Term("regex", "", <<NewId>>)
             h == Append(heap, text)
             more == Append(h, regex)
             roots == <<ret.data, Top.first>>
             a == Range(OwnedOf(Below)) \union dropped \union Range(roots)
  <2>1. \/ ReleaseAndReturn(heap \o <<text, regex>>, roots, BERT_SUCCESS, NewId + 1)
        \/ ReleaseAndReturn(heap, roots, BERT_ERRNO_MALLOC, Unset)
    BY <1>12 DEF RegexIsMade
  <2>2. ~PullFailed /\ Top.i = 1
    BY <1>12 DEF RegexIsMade, Got
  <2>3. /\ roots \in Seq(Int) /\ Range(roots) = {ret.data} \union Range(Held(Top))
        /\ ret.data \in Range(roots) /\ Range(Held(Top)) \subseteq Range(roots)
    BY <1>9, <2>2
  <2>4. /\ text \in Cell /\ text.type = "text" /\ text.kids = << >>
        /\ regex \in Cell /\ regex.type = "regex" /\ regex.kids = <<NewId>>
    <3>1. << >> \in Seq(Int) /\ <<NewId>> \in Seq(Int)
      BY NewIdIs
    <3> QED
      BY <3>1 DEF Term, Cell
  <2> HIDE DEF text, regex, roots
  <2>5. heap \o <<text, regex>> = more
    BY <1>4, <2>4
  <2>6. NewId = Len(heap) + 1 /\ NewId \in Int /\ NewId # Unset /\ NewId + 1 # Unset
        /\ Len(heap) \in Nat
    BY NewIdIs DEF NewId, Unset
  <2>7. /\ h \in Seq(Cell) /\ Len(h) = NewId /\ h[NewId] = text /\ NewId \in DOMAIN h
    <3>1. h \in Seq(Cell) /\ Len(h) = NewId /\ h[NewId] = text
      BY <1>4, <2>4, <2>6, AppendProperties
    <3> HIDE DEF h
    <3>2. NewId \in 1 .. Len(h)
      BY <2>6, <3>1
    <3> QED
      BY <3>1, <3>2
  <2>8. a \in SUBSET Int
    BY <1>4, <2>3, PointersAre
  <2>9. NoLoss(heap, a)
    <3>1. a = {ret.data} \union Range(Held(Top)) \union Range(OwnedOf(Below)) \union dropped
      BY <2>3
    <3> QED
      BY <1>4, <2>2, <3>1
  <2>10. CASE ReleaseAndReturn(more, roots, BERT_SUCCESS, NewId + 1)
    <3> HIDE DEF a
    <3>1. NoLoss(h, a \union {NewId})
      <4>1. Range(text.kids) = {} /\ text.type # "freed" /\ text.type # "regex"
        BY <2>4, LooseNone
      <4>2. NoLoss(heap, a \union Range(text.kids))
        BY <2>9, <4>1
      <4> QED
        BY <1>4, <2>4, <2>6, <2>8, <4>1, <4>2, CellsOfDecode, NoLossAppended
    <3> HIDE DEF h
    <3>2. NoLoss(Append(h, regex), a \union {Len(h) + 1})
      <4>1. Live(h, NewId) /\ h[NewId].kids = << >> /\ h[NewId].type # "regex"
        BY <2>4, <2>7 DEF Live
      <4>2. Range(regex.kids) = {NewId}
        BY <2>4, <2>6, OnePointer
      <4> QED
        BY <2>4, <2>7, <2>8, <3>1, <4>1, <4>2, CellsOfDecode, NoLossRegex
    <3>3. more \in Seq(Cell)
      BY <2>4, <2>7, AppendProperties
    <3>4. a \union {Len(h) + 1}
            = Range(OwnedOf(Below)) \union dropped \union ({NewId + 1} \ {Unset}) \union Range(roots)
      BY <2>6, <2>7 DEF a
    <3>5. NoLoss(more, Range(OwnedOf(Below)) \union dropped \union ({NewId + 1} \ {Unset})
                         \union Range(roots))
      BY <3>2, <3>4
    <3>6. NewId + 1 \in Int
      BY <2>6
    <3> HIDE DEF more
    <3> QED
      BY <1>1, <2>3, <2>10, <3>3, <3>5, <3>6, ReturnLoses
  <2>11. CASE ReleaseAndReturn(heap, roots, BERT_ERRNO_MALLOC, Unset)
    BY <1>1, <2>3, <2>11, FailLoses
  <2> QED
    BY <2>1, <2>5, <2>10, <2>11
<1> QED
  BY <1>7, <1>8, <1>10, <1>11, <1>12 DEF Regex

(***************************************************************************)
(* The theorem.                                                            *)
(***************************************************************************)

\* A step loses no term.
LEMMA NextLoses ==
  ASSUME TypeInv, DInv, LInv, [Next]_vars, pc' # "fault"
  PROVE  LInv'
<1>1. CASE UNCHANGED vars
  BY <1>1 DEF LInv, Kept, Passed, vars
<1>2. CASE ClientPulls \/ ClientUses \/ ClientStops
  BY <1>2, ClientLoses
<1>3. CASE Pull
  BY <1>3, PullLoses
<1>4. CASE Tuple
  BY <1>4, TupleStepsLose
<1>5. CASE List
  BY <1>5, ListStepsLose
<1>6. CASE Complex
  BY <1>6, ComplexStepsLose
<1>7. CASE Time
  BY <1>7, TimeStepsLose
<1>8. CASE Dict
  BY <1>8, DictStepsLose
<1>9. CASE Regex
  BY <1>9, RegexStepsLose
<1> QED
  BY <1>1, <1>2, <1>3, <1>4, <1>5, <1>6, <1>7, <1>8, <1>9 DEF Next, Decoding

\* What is kept is what is held, and what was abandoned.
LEMMA KeptIs == TypeInv => Kept = Range(Owned) \union dropped
<1> SUFFICES ASSUME TypeInv PROVE Kept = Range(Owned) \union dropped
  OBVIOUS
<1> DEFINE last == IF pc = "return" /\ ret.data # Unset THEN <<ret.data>> ELSE << >>
<1>1. Range(Owned) = Range(OwnedOf(stack)) \union Range(last)
  BY OwnedIs
<1>2. Range(last) = Passed(pc, ret)
  <2>1. ret.data \in Int
    BY Values DEF TypeInv
  <2>2. Range(<<ret.data>>) = {ret.data} /\ Range(<< >>) = {}
    BY <2>1, OnePointer, LooseNone
  <2> QED
    BY <2>2 DEF Passed
<1> HIDE DEF last
<1> QED
  BY <1>1, <1>2 DEF Kept

\* The invariant holds until a fault ends the program.
LossInv == pc = "fault" \/ (DInv /\ LInv)

\* No term is lost but in the three places that abandon one: NothingElseLost, for every input of
\* whole terms.
THEOREM NothingLost ==
  ASSUME ~EndsInside
  PROVE  Spec => []NothingElseLost
<1>1. Init => LossInv
  <2> SUFFICES ASSUME Init PROVE LInv
    BY InitDInv DEF LossInv
  <2>1. DOMAIN heap = {}
    BY DEF Init
  <2> QED
    BY <2>1 DEF LInv, NoLoss
<1>2. TypeInv /\ DecodeInv /\ LossInv /\ [Next]_vars /\ DecodeInv' => LossInv'
  BY NextLoses, FaultStays DEF LossInv, DecodeInv, DInv, TimeFault, vars
<1>3. TypeInv /\ LossInv => NothingElseLost
  BY KeptIs DEF LossInv, LInv, NoLoss, Covered, NothingElseLost
<1> QED
  BY <1>1, <1>2, <1>3, TypeInvariant, DecodeInvariant, PTL DEF Spec

==============================================================================
