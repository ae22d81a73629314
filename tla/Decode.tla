------------------------------- MODULE Decode -------------------------------
(***************************************************************************)
(* bert_decoder_pull and the bert_decode_* functions it shares with itself *)
(* by recursion, called in a loop by a client such as bert_dump.           *)
(*                                                                         *)
(* The C stack is the variable `stack`: one frame per bert_decode_tuple,   *)
(* _list, _complex, _time, _dict or _regex that waits for a nested pull.   *)
(* The input is a sequence of terms in the order of the wire: a tuple or a *)
(* list comes before its elements, with the size it declares.  What the    *)
(* input holds need not be what the decoder expects, and any read may fail.*)
(***************************************************************************)
EXTENDS BertErrno, TermHeap, SequencesExt

CONSTANTS
  Inputs,         \* the inputs: sequences of terms, see Terms
  ReadErrors,     \* what a read inside a term may fail with
  MallocFails,    \* whether malloc may return NULL
  EndsInside,     \* whether the input may end before a nested term
  Uninitialised   \* what this build leaves in a local pointer never set

\* a term on the wire: its type, the text of an atom, the size of a tuple or a list
Terms == [type : {"nil", "int", "bin", "atom", "other", "tuple", "list", "unknown"},
          text : STRING, size : Nat]

ASSUME InputsAssumption == \A input \in Inputs : input \in Seq(Terms)
ASSUME ReadErrorsAssumption ==
  /\ ReadErrors # {}
  /\ ReadErrors \subseteq {BERT_ERRNO_SHORT_READ, BERT_ERRNO_READ, BERT_ERRNO_INVALID,
                         BERT_ERRNO_BIGNUM}
ASSUME BuildAssumption ==
  /\ {MallocFails, EndsInside} \subseteq BOOLEAN
  /\ Uninitialised \subseteq {Null, Wild}

VARIABLES
  heap,       \* the terms, live and freed
  stack,      \* the frames that wait for a nested pull, innermost first
  pc,         \* what runs next
  ret,        \* what the last bert_decoder_pull returned, and wrote to *data
  next_data,  \* the client's pointer
  input,      \* what is left of the input
  cutOff,     \* history: whether a nested pull found the input at its end
  dropped     \* history: the terms the code abandoned alive

vars == <<heap, stack, pc, ret, next_data, input, cutOff, dropped>>

Unset == -2  \* the callee left *data, or the function its local, as it was

(***************************************************************************)
(* A frame: the function, the term it fills (obj), the size it was given,  *)
(* how many nested pulls came back (i), and the pointers it holds: first   *)
(* is megaseconds of bert_decode_time, source of bert_decode_regex and     *)
(* element of bert_decode_list, second is seconds of bert_decode_time.     *)
(***************************************************************************)
Frame(fn, obj, size) ==
  [fn |-> fn, obj |-> obj, size |-> size, i |-> 0, first |-> Unset, second |-> Unset]

Init ==
  /\ heap = << >>
  /\ stack = << >>
  /\ pc = "client"
  /\ ret = [code |-> BERT_SUCCESS, data |-> Unset]
  /\ next_data = Unset
  /\ input \in Inputs
  /\ cutOff = FALSE
  /\ dropped = {}

Top    == Head(stack)
Below  == Tail(stack)
NewId  == Len(heap) + 1
With(term) == Append(heap, term)

-----------------------------------------------------------------------------
(* Returning and releasing *)

\* undefined behaviour that ends the program: what follows is not modelled
Crash ==
  /\ pc' = "fault"
  /\ UNCHANGED <<heap, stack, ret, next_data, input, cutOff, dropped>>

\* bert_decoder_pull returns
Answer(code, data) ==
  /\ ret' = [code |-> code, data |-> data]
  /\ pc' = "return"

\* a bert_decode_* function returns to the bert_decoder_pull that called it, which turns
\* BERT_SUCCESS into 1
FunctionReturns(code, data) ==
  /\ stack' = Below
  /\ Answer(IF code = BERT_SUCCESS THEN 1 ELSE code, data)

\* bert_data_destroy of the roots in turn, on heap h
Release(h, roots) ==
  /\ heap' = Destroyed(h, roots)
  /\ dropped' = dropped \union Abandoned(h, Range(roots))

\* ... and the function returns
ReleaseAndReturn(h, roots, code, data) ==
  IF Destroyable(h, roots)
    THEN /\ Release(h, roots)
         /\ FunctionReturns(code, data)
         /\ UNCHANGED <<next_data, input, cutOff>>
    ELSE Crash

\* the function of the innermost frame gets the result of its nested pull
Returned(fn) == pc = "return" /\ stack # << >> /\ Top.fn = fn

\* an unsuccessful pull, or 0 for the end of the input
PullFailed == ret.code # 1

-----------------------------------------------------------------------------
(* bert_decoder_pull *)

\* bert_decoder_read(decoder,1) finds nothing
PullEnds ==
  /\ pc = "pull" /\ input = << >>
  /\ stack = << >> \/ EndsInside
  /\ Answer(0, Unset)
  /\ cutOff' = (cutOff \/ stack # << >>)
  /\ UNCHANGED <<heap, stack, next_data, input, dropped>>

\* a read fails, or a number or a text does not come whole
PullFails(error) ==
  /\ pc = "pull"
  /\ Answer(error, Unset)
  /\ UNCHANGED <<heap, stack, next_data, input, cutOff, dropped>>

\* the next term of the input is of one of these types
Finds(types) == pc = "pull" /\ input # << >> /\ Head(input).type \in types

PullUnknown ==
  /\ Finds({"unknown"})
  /\ Answer(BERT_ERRNO_INVALID, Unset)
  /\ input' = Tail(input)
  /\ UNCHANGED <<heap, stack, next_data, cutOff, dropped>>

PullMallocFails ==
  /\ Finds({"nil", "int", "bin", "atom", "other", "tuple", "list"}) /\ MallocFails
  /\ Answer(BERT_ERRNO_MALLOC, Unset)
  /\ input' = Tail(input)
  /\ UNCHANGED <<heap, stack, next_data, cutOff, dropped>>

\* bert_decode_nil, _small_int, _big_int, _float, _bignum, _string, _atom and _bin
PullScalar ==
  /\ Finds({"nil", "int", "bin", "atom", "other"})
  /\ heap' = With(Term(Head(input).type, Head(input).text, << >>))
  /\ Answer(1, NewId)
  /\ input' = Tail(input)
  /\ UNCHANGED <<stack, next_data, cutOff, dropped>>

\* bert_decode_small_tuple and _large_tuple, and bert_decode_tuple up to its first pull
PullTuple ==
  /\ Finds({"tuple"})
  /\ LET size == Head(input).size IN
     /\ heap' = With(Term("tuple", "", [k \in 1 .. size |-> Null]))
     /\ IF size = 0
          THEN /\ Answer(1, NewId)
               /\ UNCHANGED stack
          ELSE /\ stack' = <<Frame("tuple", NewId, size)>> \o stack
               /\ UNCHANGED <<pc, ret>>
  /\ input' = Tail(input)
  /\ UNCHANGED <<next_data, cutOff, dropped>>

\* bert_decode_list up to its first pull
PullList ==
  /\ Finds({"list"})
  /\ heap' = With(Term("list", "", << >>))
  /\ stack' = <<Frame("list", NewId, Head(input).size)>> \o stack
  /\ pc' = IF Head(input).size = 0 THEN "tail" ELSE "pull"
  /\ input' = Tail(input)
  /\ UNCHANGED <<ret, next_data, cutOff, dropped>>

-----------------------------------------------------------------------------
(* bert_decode_tuple *)

TupleRetries ==
  /\ Returned("tuple") /\ PullFailed
  /\ pc' = "pull"
  /\ UNCHANGED <<heap, stack, ret, next_data, input, cutOff, dropped>>

TupleFails ==
  /\ Returned("tuple") /\ PullFailed
  /\ ReleaseAndReturn(heap, <<Top.obj>>, ret.code, Unset)

\* `first` was never set
TupleFirstUnset ==
  /\ Returned("tuple") /\ ~PullFailed
  /\ Top.i = 0 /\ ret.data = Unset
  /\ Crash

FirstIsBert == Top.i = 0 /\ IsWord(heap, ret.data, "bert")

\* {bert, ...}: the rest is decoded by bert_decode_complex
TupleIsComplex ==
  /\ Returned("tuple") /\ ~PullFailed /\ FirstIsBert
  /\ Release(heap, <<ret.data, Top.obj>>)
  /\ stack' = <<Frame("complex", Null, 0)>> \o Below
  /\ pc' = "pull"
  /\ UNCHANGED <<ret, next_data, input, cutOff>>

FirstNotStored ==
  /\ Returned("tuple") /\ ~PullFailed /\ ~FirstIsBert
  /\ Top.i = 0 => ret.data # Unset
  /\ heap' = IF ret.data = Unset \/ Top.i = 0 THEN heap
             ELSE [heap EXCEPT ![Top.obj].kids[Top.i + 1] = ret.data]
  /\ IF Top.i + 1 = Top.size
       THEN FunctionReturns(BERT_SUCCESS, Top.obj)
       ELSE /\ stack' = [stack EXCEPT ![1].i = @ + 1]
            /\ pc' = "pull"
            /\ UNCHANGED ret
  /\ UNCHANGED <<next_data, input, cutOff, dropped>>

TupleStores ==
  /\ Returned("tuple") /\ ~PullFailed /\ ~FirstIsBert
  /\ Top.i = 0 => ret.data # Unset
  /\ heap' = IF ret.data = Unset THEN heap
             ELSE [heap EXCEPT ![Top.obj].kids[Top.i + 1] = ret.data]
  /\ IF Top.i + 1 = Top.size
       THEN FunctionReturns(BERT_SUCCESS, Top.obj)
       ELSE /\ stack' = [stack EXCEPT ![1].i = @ + 1]
            /\ pc' = "pull"
            /\ UNCHANGED ret
  /\ UNCHANGED <<next_data, input, cutOff, dropped>>

-----------------------------------------------------------------------------
(* bert_decode_list *)

ListFails ==
  /\ Returned("list") /\ PullFailed
  /\ ReleaseAndReturn(heap, <<Top.obj>>, ret.code, Unset)

\* what `element` holds after the pull: the new term, or what it held before
Elements ==
  IF ret.data # Unset THEN {ret.data}
  ELSE IF Top.first # Unset THEN {Top.first}
  ELSE Uninitialised

ListOneTooMany ==
  /\ Returned("list") /\ ~PullFailed
  /\ \E element \in Elements :
       /\ heap' = [heap EXCEPT ![Top.obj].kids = Append(@, element)]
       /\ stack' = [stack EXCEPT ![1].i = @ + 1, ![1].first = element]
  /\ pc' = IF Top.i = Top.size THEN "tail" ELSE "pull"
  /\ UNCHANGED <<ret, next_data, input, cutOff, dropped>>

ListAppends ==
  /\ Returned("list") /\ ~PullFailed
  /\ \E element \in Elements :
       /\ heap' = [heap EXCEPT ![Top.obj].kids = Append(@, element)]
       /\ stack' = [stack EXCEPT ![1].i = @ + 1, ![1].first = element]
  /\ pc' = IF Top.i + 1 = Top.size THEN "tail" ELSE "pull"
  /\ UNCHANGED <<ret, next_data, input, cutOff, dropped>>

\* bert_list_append finds no memory for the node
ListAppendFails ==
  /\ Returned("list") /\ ~PullFailed /\ MallocFails
  /\ \E element \in Elements :
       ReleaseAndReturn(heap, <<element, Top.obj>>, BERT_ERRNO_MALLOC, Unset)

ListReadsTail ==
  /\ pc = "tail"
  /\ FunctionReturns(BERT_SUCCESS, Top.obj)
  /\ UNCHANGED <<heap, next_data, input, cutOff, dropped>>

\* BERT_DECODER_READ returns past the list
ListTailFails(error) ==
  /\ pc = "tail"
  /\ dropped' = dropped \union {Top.obj}
  /\ FunctionReturns(error, Unset)
  /\ UNCHANGED <<heap, next_data, input, cutOff>>

-----------------------------------------------------------------------------
(* bert_decode_complex *)

\* also bert_decode_dict, and bert_decode_regex waiting for its source
NothingHeldFails(fn) ==
  /\ Returned(fn) /\ PullFailed
  /\ fn = "regex" => Top.i = 0
  /\ FunctionReturns(ret.code, Unset)
  /\ UNCHANGED <<heap, next_data, input, cutOff, dropped>>

\* a pointer never set is used: the type of keyword, list_data, source, opt_list, ...
PointerUnset(fn) ==
  /\ Returned(fn) /\ ~PullFailed /\ ret.data = Unset
  /\ Crash

Got(fn) == Returned(fn) /\ ~PullFailed /\ ret.data # Unset

\* the keyword is not an atom, and not destroyed
KeywordIsNoAtom ==
  /\ Got("complex") /\ ~IsAtom(heap, ret.data)
  /\ dropped' = dropped \union {ret.data}
  /\ FunctionReturns(BERT_ERRNO_INVALID, Unset)
  /\ UNCHANGED <<heap, next_data, input, cutOff>>

Constants == {"nil", "true", "false"}
Complexes == {"time", "dict", "regex"}

KeywordIsConstant ==
  /\ Got("complex") /\ \E word \in Constants : IsWord(heap, ret.data, word)
  /\ LET type == IF heap[ret.data].text = "nil" THEN "nil" ELSE "boolean" IN
     \/ ReleaseAndReturn(With(Term(type, "", << >>)), <<ret.data>>, BERT_SUCCESS, NewId)
     \/ /\ MallocFails
        /\ ReleaseAndReturn(heap, <<ret.data>>, BERT_ERRNO_MALLOC, Unset)

KeywordIsComplex ==
  /\ Got("complex")
  /\ \E word \in Complexes :
       /\ IsWord(heap, ret.data, word)
       /\ stack' = <<Frame(word, Null, 0)>> \o Below
  /\ Release(heap, <<ret.data>>)
  /\ pc' = "pull"
  /\ UNCHANGED <<ret, next_data, input, cutOff>>

KeywordIsUnknown ==
  /\ Got("complex") /\ IsAtom(heap, ret.data)
  /\ heap[ret.data].text \notin Constants \union Complexes
  /\ ReleaseAndReturn(heap, <<ret.data>>, BERT_ERRNO_INVALID, Unset)

-----------------------------------------------------------------------------
(* bert_decode_time *)

TimeHeldForgets ==
  IF Top.i = 0 THEN << >> ELSE <<Top.first>>

\* what was decoded before, last first
TimeHeld ==
  CASE Top.i = 0 -> << >>
    [] Top.i = 1 -> <<Top.first>>
    [] Top.i = 2 -> <<Top.second, Top.first>>

\* a failed pull leaves its pointer unset, and the pointer is destroyed
TimeFails ==
  /\ Returned("time") /\ PullFailed
  /\ \E unset \in Uninitialised :
       ReleaseAndReturn(heap, <<unset>> \o TimeHeld, ret.code, Unset)

\* the type that is checked: of the new term, but for microseconds of seconds once more
TimeChecked == IF Top.i = 2 THEN Top.second ELSE ret.data

TimeIsNoInteger ==
  /\ Got("time") /\ heap[TimeChecked].type # "int"
  /\ ReleaseAndReturn(heap, <<ret.data>> \o TimeHeld, BERT_ERRNO_INVALID, Unset)

TimeGoesOn ==
  /\ Got("time") /\ Top.i < 2 /\ heap[TimeChecked].type = "int"
  /\ stack' = [stack EXCEPT ![1].i = @ + 1,
                            ![1].first = IF Top.i = 0 THEN ret.data ELSE @,
                            ![1].second = IF Top.i = 1 THEN ret.data ELSE @]
  /\ pc' = "pull"
  /\ UNCHANGED <<heap, ret, next_data, input, cutOff, dropped>>

\* the text of a time tells whether all three terms were integers
TimeIsMade ==
  /\ Got("time") /\ Top.i = 2 /\ heap[TimeChecked].type = "int"
  /\ LET integers == IF heap[ret.data].type = "int" THEN "integers" ELSE "garbage" IN
     \/ ReleaseAndReturn(With(Term("time", integers, << >>)), <<ret.data>> \o TimeHeld,
                         BERT_SUCCESS, NewId)
     \/ /\ MallocFails
        /\ ReleaseAndReturn(heap, <<ret.data>> \o TimeHeld, BERT_ERRNO_MALLOC, Unset)

-----------------------------------------------------------------------------
(* bert_decode_dict *)

Entries == heap[ret.data].kids

IsPair(p) == Live(heap, p) /\ heap[p].type = "tuple" /\ Len(heap[p].kids) = 2

DictIsNoList ==
  /\ Got("dict") /\ heap[ret.data].type \notin {"nil", "list"}
  /\ ReleaseAndReturn(heap, <<ret.data>>, BERT_ERRNO_INVALID, Unset)

\* bert_data_create_dict finds no memory
DictMallocFails ==
  /\ Got("dict") /\ heap[ret.data].type \in {"nil", "list"} /\ MallocFails
  /\ ReleaseAndReturn(heap, <<ret.data>>, BERT_ERRNO_MALLOC, Unset)

KeysAndValues(entries) ==
  [k \in 1 .. 2 * Len(entries) |-> heap[entries[(k + 1) \div 2]].kids[2 - (k % 2)]]

EntriesKept(entries) == heap

EntriesEmptied(entries) ==
  [p \in DOMAIN heap |-> IF p \in Range(entries)
                           THEN [heap[p] EXCEPT !.kids = <<Null, Null>>]
                           ELSE heap[p]]

\* the new dict, with the keys and values of the first n entries; `taken` tuples are empty
DictOf(n, taken) ==
  Append(EntriesEmptied(SubSeq(Entries, 1, taken)),
         Term("dict", "", KeysAndValues(SubSeq(Entries, 1, n))))

FirstNoPair == SelectInSeq(Entries, LAMBDA p : ~IsPair(p))

\* an entry that is not a pair, behind pairs already moved
DictEntryIsNoPair ==
  /\ Got("dict") /\ heap[ret.data].type = "list" /\ FirstNoPair # 0
  /\ IF Live(heap, Entries[FirstNoPair])
       THEN ReleaseAndReturn(DictOf(FirstNoPair - 1, FirstNoPair - 1), <<NewId, ret.data>>,
                             BERT_ERRNO_INVALID, Unset)
       ELSE Crash

DictForgetsPair ==
  /\ Got("dict") /\ heap[ret.data].type = "list" /\ MallocFails
  /\ \E n \in DOMAIN Entries :
       /\ \A k \in 1 .. n : IsPair(Entries[k])
       /\ ReleaseAndReturn(DictOf(n - 1, n), <<NewId, ret.data>>, BERT_ERRNO_MALLOC, Unset)

DictEmptiesLate ==
  /\ Got("dict") /\ heap[ret.data].type = "list" /\ MallocFails
  /\ \E n \in DOMAIN Entries :
       /\ \A k \in 1 .. n : IsPair(Entries[k])
       /\ LET pair == heap[Entries[n]].kids IN
          ReleaseAndReturn(DictOf(n - 1, n - 1), <<pair[2], pair[1], NewId, ret.data>>,
                           BERT_ERRNO_MALLOC, Unset)

\* bert_dict_append finds no memory for the node of the n-th pair, taken out of its tuple
DictAppendFails ==
  /\ Got("dict") /\ heap[ret.data].type = "list" /\ MallocFails
  /\ \E n \in DOMAIN Entries :
       /\ \A k \in 1 .. n : IsPair(Entries[k])
       /\ LET pair == heap[Entries[n]].kids IN
          ReleaseAndReturn(DictOf(n - 1, n), <<pair[2], pair[1], NewId, ret.data>>,
                           BERT_ERRNO_MALLOC, Unset)

\* the list goes with its emptied tuples
DictIsMade ==
  /\ Got("dict") /\ heap[ret.data].type \in {"nil", "list"}
  /\ \A k \in DOMAIN Entries : IsPair(Entries[k])
  /\ ReleaseAndReturn(DictOf(Len(Entries), Len(Entries)), <<ret.data>>, BERT_SUCCESS, NewId)

-----------------------------------------------------------------------------
(* bert_decode_regex *)

RegexSourceIsNoBin ==
  /\ Got("regex") /\ Top.i = 0 /\ heap[ret.data].type # "bin"
  /\ ReleaseAndReturn(heap, <<ret.data>>, BERT_ERRNO_INVALID, Unset)

RegexGoesOn ==
  /\ Got("regex") /\ Top.i = 0 /\ heap[ret.data].type = "bin"
  /\ stack' = [stack EXCEPT ![1].i = 1, ![1].first = ret.data]
  /\ pc' = "pull"
  /\ UNCHANGED <<heap, ret, next_data, input, cutOff, dropped>>

RegexOptionsFail ==
  /\ Returned("regex") /\ PullFailed /\ Top.i = 1
  /\ ReleaseAndReturn(heap, <<Top.first>>, ret.code, Unset)

Newlines == {"cr", "crlf", "anycrlf", "any"}  \* not "lf": the code tests "cr" twice

\* {newline, N}; any atom is an option
OptionOK(p) ==
  \/ IsAtom(heap, p)
  \/ /\ IsPair(p)
     /\ IsWord(heap, heap[p].kids[1], "newline")
     /\ \E word \in Newlines : IsWord(heap, heap[p].kids[2], word)

\* an option, or a part of one, is looked at through a pointer that leads nowhere
OptionCrashes(p) ==
  \/ ~Live(heap, p)
  \/ /\ IsPair(p)
     /\ \/ ~Live(heap, heap[p].kids[1])
        \/ IsWord(heap, heap[p].kids[1], "newline") /\ ~Live(heap, heap[p].kids[2])

FirstBadOption == SelectInSeq(Entries, LAMBDA p : ~OptionOK(p))

RegexOptionsAreInvalid ==
  /\ Got("regex") /\ Top.i = 1
  /\ \/ heap[ret.data].type # "list"
     \/ \E k \in DOMAIN Entries : ~OptionOK(Entries[k])
  /\ IF heap[ret.data].type = "list" /\ OptionCrashes(Entries[FirstBadOption])
       THEN Crash
       ELSE ReleaseAndReturn(heap, <<ret.data, Top.first>>, BERT_ERRNO_INVALID, Unset)

\* opt_list is destroyed, the regex gets a copy of the source, source is destroyed
RegexIsMade ==
  /\ Got("regex") /\ Top.i = 1
  /\ heap[ret.data].type = "list"
  /\ \A k \in DOMAIN Entries : OptionOK(Entries[k])
  /\ \/ ReleaseAndReturn(heap \o <<Term("text", "", << >>), Term("regex", "", <<NewId>>)>>,
                         <<ret.data, Top.first>>, BERT_SUCCESS, NewId + 1)
     \/ /\ MallocFails
        /\ ReleaseAndReturn(heap, <<ret.data, Top.first>>, BERT_ERRNO_MALLOC, Unset)

-----------------------------------------------------------------------------
(* The client: bert_dump's loop *)

ClientPulls ==
  /\ pc = "client"
  /\ pc' = "pull"
  /\ UNCHANGED <<heap, stack, ret, next_data, input, cutOff, dropped>>

\* bert_print and bert_data_destroy of what next_data points to
ClientUses ==
  /\ pc = "return" /\ stack = << >> /\ ~PullFailed
  /\ LET p == IF ret.data = Unset THEN next_data ELSE ret.data IN
     IF Whole(heap, p)
       THEN /\ Release(heap, <<p>>)
            /\ next_data' = p
            /\ pc' = "client"
            /\ ret' = [code |-> BERT_SUCCESS, data |-> Unset]
            /\ UNCHANGED <<stack, input, cutOff>>
       ELSE Crash

\* 0 or an error ends the loop
ClientStops ==
  /\ pc = "return" /\ stack = << >> /\ PullFailed
  /\ pc' = "stopped"
  /\ UNCHANGED <<heap, stack, ret, next_data, input, cutOff, dropped>>

-----------------------------------------------------------------------------
Pull ==
  \/ PullEnds
  \/ \E error \in ReadErrors : PullFails(error)
  \/ PullUnknown \/ PullMallocFails \/ PullScalar \/ PullTuple \/ PullList

Tuple == TupleFails \/ TupleFirstUnset \/ TupleIsComplex \/ TupleStores

List ==
  \/ ListFails \/ ListAppends \/ ListAppendFails \/ ListReadsTail
  \/ \E error \in ReadErrors : ListTailFails(error)

Complex ==
  \/ \E fn \in {"complex", "dict", "regex"} : NothingHeldFails(fn)
  \/ \E fn \in {"complex", "time", "dict", "regex"} : PointerUnset(fn)
  \/ KeywordIsNoAtom \/ KeywordIsConstant \/ KeywordIsComplex \/ KeywordIsUnknown

Time == TimeFails \/ TimeIsNoInteger \/ TimeGoesOn \/ TimeIsMade

Dict ==
  \/ DictIsNoList \/ DictMallocFails \/ DictEntryIsNoPair \/ DictAppendFails
  \/ DictIsMade

Regex ==
  \/ RegexSourceIsNoBin \/ RegexGoesOn \/ RegexOptionsFail
  \/ RegexOptionsAreInvalid \/ RegexIsMade

Decoding == Pull \/ Tuple \/ List \/ Complex \/ Time \/ Dict \/ Regex

Next == ClientPulls \/ ClientUses \/ ClientStops \/ Decoding

Spec == Init /\ [][Next]_vars

\* a pull runs until it returns: one thread, no waiting but for its reads, which return
FairSpec == Spec /\ WF_vars(Decoding)

-----------------------------------------------------------------------------
(* Properties *)

\* the pointers a function of the stack, or the one that gets ret, must still pass on or
\* destroy: a list's element already belongs to the list
Held(frame) ==
  CASE frame.fn \in {"tuple", "list"} -> <<frame.obj>>
    [] frame.fn = "time"             -> SubSeq(<<frame.first, frame.second>>, 1, frame.i)
    [] frame.fn = "regex"            -> SubSeq(<<frame.first>>, 1, frame.i)
    [] OTHER                         -> << >>

Owned ==
  FlattenSeq([k \in DOMAIN stack |-> Held(stack[k])])
    \o (IF pc = "return" /\ ret.data # Unset THEN <<ret.data>> ELSE << >>)

TypeOK ==
  /\ \A p \in DOMAIN heap : heap[p].kids \in Seq(Int)
  /\ \A k \in DOMAIN stack :
       stack[k].fn \in {"tuple", "list"} => stack[k].i <= stack[k].size
  /\ pc \in {"client", "pull", "tail", "return", "fault", "stopped"}
  /\ input \in Seq(Terms)
  /\ dropped \subseteq DOMAIN heap

\* Every term has one owner: whichever function fails next, in whatever order the frames
\* unwind, nothing is destroyed twice and nothing freed is still held.
OneOwner == Destroyable(heap, Owned)

\* No term is lost: what is alive and held by nobody was abandoned in one of the three
\* places that abandon a term (a keyword that is no atom, a list whose last byte cannot
\* be read, the source of a regex).  Every other error path destroys what it made.
NothingElseLost ==
  LET kept == Range(Owned) \union dropped IN
  pc # "fault" =>
    {p \in DOMAIN heap : Live(heap, p)} \subseteq Reach(heap, kept) \union Abandoned(heap, kept)

\* No function follows or destroys a pointer that leads nowhere, the client included.
NoFault == pc # "fault"

\* A pointer that leads nowhere is followed or destroyed for one of two reasons: the input
\* ended inside a term, so that a nested pull returned 0, or a pull nested in
\* bert_decode_time failed.  A term that came whole is decoded, used and destroyed without
\* a fault, also when it is the last of the input.
FaultsOfTwoKinds ==
  pc = "fault" =>
    \/ cutOff
    \/ stack # << >> /\ Top.fn = "time" /\ PullFailed

\* bert_decoder_pull: "Returns 1 when a bert_data_t has been decoded", to which *data
\* points, with every element in place.
OneMeansDecoded ==
  pc = "return" /\ ret.code = 1 => Whole(heap, ret.data)

\* A call of bert_decoder_pull comes to an end.
PullReturns == pc = "pull" ~> (pc = "return" /\ stack = << >>)
=============================================================================
