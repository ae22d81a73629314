# TLA+ models of libBERT

libBERT decodes and encodes Binary ERlang Terms in C. These modules model its
decoder, its encoder, both against each other, and the terms and containers on
the heap. The model checker TLC checks them on small instances, and the proof
system TLAPS proves what matters most about the decoder, the encoder and the
containers for every input, every depth of nesting and every size.

Run one configuration with `tlc -config X.cfg M`, and check the proofs of one
module with `tlapm M.tla` (the modules whose names end in `_proofs`, and
`RecursionLemmas`). `PROJECT.json` lists the runs, maps every
definition to the lines it models, names a mutant of the code for every
property of every passing run, and lists what is hard to test in this code
("hazards") with the properties that guard it.

## The system

| Component | State | Operations | Correct when | Modelled in |
|---|---|---|---|---|
| Short buffer: read side of a decoder (`src/decoder.c`, `src/private/decoder.c`, first part of `src/private/decode.c`) | mode, source, `short_buffer` with length and index, total | attach a stream, callback or buffer; `bert_decoder_read`; readers of fields and bytes | decoding functions get the input's bytes, each once, in order; errors mean what they say | `ShortBuffer` |
| Term decoder (`bert_decoder_pull`, `bert_decode_*`) | the C stack of recursive calls, terms under construction | one pull, nested pulls, error paths | a pull gives one whole term or an error; every term has one owner and is destroyed once | `Decode` (steps), `BertDecoder` (bytes) |
| Encoder (`src/encoder.c`, `src/private/encode.c`, `src/private/encoder.c`) | mode, sink, `wrote_magic`, total | attach a sink; `bert_encoder_push`; `bert_encoder_write` | success is one whole term; the magic byte comes once; totals count what was written | `Encode` |
| Encoder and decoder together | the stream between them | push, pull | what was pushed is pulled | `Wire` |
| Sizes (`src/private/data.c`, `bert_data_sizeof`) | none | - | the size is what the encoder writes | `Encode` |
| Terms (`src/data.c`) | blocks on the heap | create, destroy | destroy frees everything the term owns; a constructor that fails leaves nothing | `Containers`, `TermHeap` |
| Containers (`src/list.c`, `src/tuple.c`, `src/dict.c`) | linked nodes with head and tail, arrays | append, get, set, length | they behave as sequences | `Containers`, `SequenceStore` |
| Regex options, byte order, magic bytes (`src/private/regex.c`, `src/util.c`) | tables | conversions | what is written is read back | `BertData`, `Words` |
| `bert_dump` (`src/programs/dump.c`) | a decoder per file | pull, print, destroy until 0 or an error | it prints every term | loop in `Decode`, lines in `Wire` |
| Result codes (`errno.h`, `src/errno.c`) | none | texts | every code has one | codes in `BertErrno` |
| Version (`src/bert.c`) | none | a constant | - | - |

The decoder calls itself through `bert_decoder_pull`, the encoder through
`bert_encoder_push`; both touch the outside only through one function
(`bert_decoder_read`, `bert_encoder_write`), which calls `read`, `write` or the
client's callback. Nothing runs concurrently. What makes the code hard is
partial failure in the middle of a recursion or of a constructor, short counts
of `read` and `write`, refills of a bounded window, integers cast between
widths and signs, two halves that must agree on every byte without sharing
code, and result codes that mean different things at different levels (0 is the
end of the input for a pull and success for everything else).

## Modules

Read side:

- `ByteStream` - abstract specification of the read side: bytes arrive, and
  decoding functions take the next ones.
- `ShortBuffer` - the read side. `decoder` is the struct with its union
  flattened; a byte is its position in the input, so that a byte lost,
  repeated or out of order shows. `bert_decoder_read(d, size)` is the set of
  ways in which the call may end; the actions are the calls of the API, the
  readers of 1, 2 and 4 bytes (`DecodeField`), the first read of a pull
  (`Probe`) and one step per turn of the loop of `bert_decode_bytes`. `out`
  (everything handed over) is history. A source may deliver any count that
  `read`, the callback's contract or the buffer allows, and fail at any call.
- `ShortBuffer_proofs` - theorems about `ShortBuffer`: types, every safety
  property of its run, and that it implements `ByteStream`.

Recursion and ownership:

- `TermHeap` - a heap and what `bert_data_destroy` does to it, as operators. A
  cell is never reused, so that a dangling pointer is seen.
- `Decode` - `bert_decoder_pull` and the functions it shares with itself, with
  a cell of `TermHeap` per term. The C stack is the variable `stack`; one
  action per outcome of a nested pull in each function. The input is a sequence
  of terms in wire order, concrete and possibly malformed; any read or `malloc`
  may fail. `bert_decode_dict` moves the pairs of its list into the dict before
  it meets the entry that is no pair, or the node it has no memory for, and
  cleans up from there. The client is `bert_dump`'s loop. `dropped` (what the
  code abandons alive) and `cutOff` (whether a nested pull met the end of the
  input) are history. `MCDecode` has its inputs.
- `TermHeap_proofs` - what destroying meets, frees and leaves, for any heap.
- `Decode_proofs`, `DecodeLoss_proofs` - theorems about `Decode`: types,
  ownership, faults; and that nothing is lost.

Bytes:

- `Words` - integers of a fixed width as sequences of bytes: casts, negation,
  sums, products and quotients that wrap as in C.
- `BertData`, `BertErrno` - what the two halves share: terms, magic bytes, the
  table of regex options, the result codes. A text is spelt with copies of one
  byte that stands for it, of the right length.
- `Encode` - `bert_encoder_push` down to `bert_encoder_write`. `todo` is what
  the C stack holds: the writes and pushes still to do, in order; an error
  drops them all. One token is one call of `bert_encoder_write`, with its
  bytes. `bert_data_sizeof` is a recursive function over the terms. `sink` and
  `pushed` are history. `MCEncode` has its terms.
- `Encode_proofs` - theorems about `Encode`: that a header announces the number
  it was given, that a push leads to exactly one term, that what it writes is
  what `bert_data_sizeof` counts, and with them all the properties of
  `Encode.cfg`.
- `BertDecoder` - the decoder as an operator of a whole stream and a position:
  the result code, the term with its value, and the position afterwards, also
  after an error in the middle of a term.
- `Wire` - composes `Encode` with `BertDecoder`: a client pushes, write by
  write; another pulls from the stream at any time between the pushes and goes
  on after errors. What `bert_dump` prints of each pull is `bert_print`.
  `MCWire` has its terms.

Heap:

- `SequenceStore` - abstract specification of containers: each term holds a
  sequence of terms, an operation takes one step.
- `Containers` - constructors and containers with a cell of `TermHeap` per
  block, one step per `malloc`; a list is searched a node at a step.
  `MCContainers` has its sizes. It implements `SequenceStore`.
- `Containers_proofs`, `ContainersStore_proofs` - theorems about `Containers`:
  its five invariants; and that it implements `SequenceStore`.

Operators such as `ShiftFromWrongEnd` or `TailStays`, each before the
definition it varies, are the mutants: a plausible bug in that definition.

## Runs

| Run | Shows | Bounds |
|---|---|---|
| `ShortBuffer.cfg` | the window is always the next part of the input, bytes come in order, totals agree, 0 means the end, `bert_decode_bytes` returns, `ByteStream` is implemented | short buffer of 8, input of 11, fields of 1, 2, 4, a text of 6, client buffers of 0, 3, 4 |
| `LongBuffer.cfg` (violated) | a client buffer of 9 bytes for a short buffer of 8 is decoded as its own beginning again | input of 13 |
| `ShortCount.cfg` (violated) | a short count of `read` becomes a short read though input is left | input of 13 |
| `Decode.cfg` | ownership, no use of a bad pointer, nothing lost but in three known places, a pull that returns 1 has a whole term, every pull returns | all inputs of two terms; five compound inputs, cut off anywhere or with any one term replaced by any other |
| `DecodeCutOff.cfg` | the same inputs, ending between elements too, with unset locals: a fault follows a nested pull that met the end of the input, or a failed pull in `bert_decode_time`, and nothing else; still nothing more is lost | the same |
| `DecodeOne.cfg` (violated) | a pull returns 1 without a term | the same |
| `Encode.cfg` | success is exactly one complete term, the magic byte comes once, totals agree, `bert_data_sizeof` is enough and mostly exact, a short write means too little room | one term of each type, integers at the edges of their encodings, nested and invalid terms; buffers of 3 and 22; no push begins after 4 tokens |
| `EncodeTotal.cfg` (violated) | a short count of `write` is counted in full | a stream |
| `EncodeSizeof.cfg` (violated) | sizeof of a negative integer is too small | a stream |
| `Wire.cfg` | what was pushed is pulled, the very term exactly if it is portable; no term left over or made up; every pull consumes; a pull gives 1 without a term only at the end of a stream that a push broke; each term pulled is printed as one | two pushes of any of the terms in `MCWire`, a term of 256 elements only first; no push begins after 20 tokens |
| `WireLists.cfg` (violated) | a list that was pushed with success is not what is pulled | two pushes |
| `Containers.cfg` | each block has one owner and none is lost but the source of a regex; tails are last nodes; texts have room for their terminator; `SequenceStore` is implemented | seven blocks ever allocated, sizes 0 and 2, indices 0 to 2; lengths of texts in types of 2 and 4 values |

Why the bounds are enough. What matters in the short buffer is the relation of
its half to the largest field, to what is unread and to what a source
delivers; with 8 cells and fields of 1, 2 and 4 the largest field is exactly a
half, as the largest chunk of `bert_decode_bytes` is in the code, and an input
of 11 takes a refill in place, a shift with an overlap, a shift without one
and an empty window. The theorems cover every other size. In `Decode` each
function behaves the same however deep it is called; the inputs hold every
compound term, terms nested three deep, and every type where another is
expected. In `Encode` every path of a push is taken from a fresh encoder and
from one that failed or succeeded before; 3 bytes is too little for any
second token, 22 is enough for some terms and ends others in the middle.
`Wire` needs a second term to show that the first left the stream aligned, and
a pull that failed needs something behind it to go astray in; the integers are
at both sides of every encoding (2^8, 2^27, 2^63 and zero) and some look
like magic bytes to a decoder that lost the alignment. Seven blocks hold a list
of two elements one of which is replaced, or a container in another; the code
treats the middle node of a longer list as it treats the first of two.

The passing runs rest on these restrictions; the violated runs show what
happens without those that a reader might take for granted:

- `ShortBuffer.cfg`: client buffers of at most half the short buffer, and a
  `memcpy` that copies from the low end (`ShortSources`).
  `LongBuffer.cfg` drops the first. With both orders of copying in
  `CopyOrders`, TLC finds `Delivery` violated in four states.
- `Decode.cfg`: the input ends between terms or amid the bytes of one, not at
  the boundary between two elements (`EndsInside`), and locals never set hold
  `NULL` (`Uninitialised`). `DecodeCutOff.cfg` drops both: `OneOwner` is then
  false too (the list's stale `element` is appended twice).
- `Encode.cfg`: `write` takes all it is given, and integers are not negative.
- `Wire.cfg`: the stream holds whole writes, every read delivers what there is
  and `malloc` succeeds (the other cases are in `ShortBuffer` and `Decode`);
  nothing follows a pull whose behaviour C leaves undefined (an element that
  was never set, a time whose microseconds are no integer).
- `Containers.cfg`: the client gives away only terms it owns, and no container
  to itself or to what it holds; no size is the greatest of its type. With
  `LongSizes` 3 the size 2 is, and TLC finds `TextsTerminated` violated.

Undefined behaviour that does have one meaning in practice is modelled as the
build of `CMakeLists.txt` (no optimisation) executes it on x86: the count of a
shift of an `int` is taken modulo 32, so that `bert_data_sizeof` measures eight
bytes for nearly every bignum, and the negation of -2^63 is itself.

Deadlock is not checked in `Decode` (the client's loop ends), `Wire` (it stops
at undefined behaviour) and `Containers` (blocks are used up); elsewhere it is.

The violated runs for the long buffer, the short count, the cut-off tuple, the
list and the negative integer agree with what the compiled library does.

## What the models show besides

Behaviour that no listed run is violated by, but that a user of the library
should know of:

- A refill shifts with a `memcpy` whose areas may overlap (`decoder.c:34`): a
  first delivery of 257 bytes and a text longer than what is left of it are
  enough. A `memcpy` that copies from the high end then hands out bytes twice.
  Whether a build has one depends on its library and its processor, so that no
  run claims it.
- A binary of 2^32 - 1 bytes gets a block of none, because the one byte more is
  added in 32 bits (`data.c:304`), and a regex likewise (`data.c:363`).
- The type of a time's microseconds is never checked (`decode.c:304`, which
  checks the seconds again).
- Negative integers from -2^27 up are written as unsigned and come back as
  positive ones; timestamps before 1970 or beyond 32 bits of megaseconds come
  back as others; floats of 31 characters and more lose digits (`Portable`).
- A string's length is written in 4 bytes and read in 2; a list has no tail
  byte; so neither leaves the stream aligned (`Aligned`).
- Only the four lowest options of a regex are written (`encode.c:413`), and
  `dupnames` has the mask of `no_auto_capture`.
- `bert_dump` leaves a separator behind a regex option that is followed only by
  newline options (`dump.c:181`, `Dangling`).
- The source of a regex is lost whenever one is destroyed (`dropped` in
  `Containers` and `Decode`).
- A pull that returns 1 without a term leaves `bert_dump` to print and destroy
  what its variable held before, the term of a turn ago or garbage
  (`OneWithoutTerm` says when).

## Fairness

Two liveness properties. `BytesReturns`: the loop of `bert_decode_bytes` ends;
`WF(BytesChunk)` says that a call which has begun keeps running. `PullReturns`:
a pull comes back; `WF(Decoding)` says the same of the decoder. Both assume
that `read` and the callback return, which is for the operating system and the
client. Nothing forces a source to deliver or the client to call.

## Proofs

A theorem holds for every value of the constants that satisfies the named
assumptions of the module (`InputsAssumption`, `TermsAssumption`, ...), which
TLC evaluates in the runs, and under the hypotheses it states.

### The read side (`ShortBuffer_proofs`)

For every size of the short buffer from 8 up, every input and every sequence of
calls:

- With no condition: `TypeCorrect` (no refill overruns `short_buffer`, no step
  passes what is there, a client's buffer is never read past its end);
  `EmptyOnlyAtEnd` and `ShortReadUsesBufferUp` (what the result codes 0 and
  short read mean).
- Under `ShortSources`: `DeliveryCorrect`, and from it `BytesInOrder`,
  `TotalAccounted`, `WindowCorrect`, `BufferAtOnce` and `StreamImplemented`
  (`Spec => ImplementsByteStream`).

`Delivery` alone is not inductive: it says nothing of the bytes waiting in the
window. `DeliveryInv` adds that the window holds the bytes that follow `out`
(`WindowIsNext`), that the total is what was handed out and what is unread
(`Accounting`, so that the next byte of the source follows the window), and
that a client's buffer is either untouched or used up (`BufferFetchedAtOnce`,
because every refill copies from its start). The argument follows the code: a
shift keeps the window (`RoomMade`, `RoomHolds`), a refill extends it
(`FillHolds`), a call of `bert_decoder_read` does both (`ReadHolds`), taking
bytes moves them to `out` (`StepHolds`, `TakeDelivers`), attaching a source
changes neither.

### The decoder (`TermHeap_proofs`, `Decode_proofs`, `DecodeLoss_proofs`)

For inputs of any length, terms nested to any depth, and any read or `malloc`
failing:

- `TypeCorrect` and `TwoKindsOfFault`, with no condition.
- `OneOwnerEach`, `OneDecodes` and `NothingLost`, if the input does not end
  between two elements (`~EndsInside`). Without it the first two are false:
  `DecodeOne.cfg` shows a pull that returns 1 without a term, and the list's
  stale `element` gets two owners. `NothingElseLost` survives in
  `DecodeCutOff.cfg`, but its proof needs the single owner; there it is only
  model-checked.
- `NothingFaults`, if besides unset locals hold `NULL`
  (`Wild \notin Uninitialised`): `bert_decode_time` destroys an unset pointer
  when one of its pulls fails.

`OneOwner` is not inductive. A step that frees a term has to know that nothing
else still points to it, wherever it stands; a step that stores a pointer, that
the place was empty. The invariant `DInv` says

1. `Sound`: every pointer stored in a live term leads to a live term, and no
   two places hold the same one;
2. `StackOK`: what the functions on the stack hold (`Held`) are live terms, all
   different and stored in no term; the tuple of a frame has the size its
   function counts to, with its first `i` places filled and the others empty;
3. the only terms with empty places are those tuples (`Gaps`, `Open`);
4. `Answered`: a pull that returned 1 returned a live term that nobody holds or
   stores, and a failed one nothing.

The proof needs what destroying does: `Reach` is the least set that holds the
roots and what its terms point to, although it is computed by a recursion that
stops after as many rounds as the heap has cells (`TermHeap_proofs`; a
counting argument). Two loose roots then reach disjoint terms, so that the
error path of one function cannot free what a caller holds (`Releases`). Each
function of the decoder has a lemma for its types (`...Typed`), for `DInv`
(`...Keeps`) and for `LInv` (`...Loses`), with one step for each way its nested
pull may end. The input's end and the fault of `bert_decode_time` are handled
apart (`NextKeeps`, `CutOffSteps`, `TimeFault`): `DInv` holds as long as no
nested pull met the end of the input and no time failed, which gives
`TwoKindsOfFault`. A dict that fails half-way has taken n pairs out of their
tuples and put fewer into the dict; `DictHalfWay` shows that the dict, the
emptied list and the pair between them are loose roots that reach disjoint
terms, `EntriesGo` that with the list its tuples go. `LInv` is `NothingElseLost` over the pointers the functions
hold: every live term is reached from the stack, from what a pull returned or
from `dropped`.

### The encoder (`Encode_proofs`)

For terms of any number, width and depth, any sinks and any sequence of calls:

- `MagicInvariant`, `TypeCorrect` and `MagicComesOnce`, with no condition, short
  writes included. `MagicInv` says that an encoder is `Fresh` (no magic byte,
  nothing written, and if a push runs it is about to write the magic byte or to
  begin its term) or `Going` (the magic byte came first, and what was written
  since and is still to be written is made of tokens of terms, none of which
  looks like it).
- `TotalCounts`, if `write` takes all it is given (`~ShortWrites`);
  `EncodeTotal.cfg` shows what happens otherwise.
- `SuccessIsComplete`, if moreover no container has 2^32 elements
  (`Countable`): a header counts them in 4 bytes, and a longer container would
  announce fewer than it has. TLC cannot evaluate 2^32, so it is a hypothesis
  of the theorem and not an assumption of the module.

That success is one term is proved with a calculus of debts. A header of n
elements discharges one term and owes n (`Announces`; its bytes are read back
before), any other token discharges one. `Missing(tokens)` is what
a sequence of tokens still owes and `Leads(jobs, m, n)` says that the writes
and pushes of `jobs` take a debt of m to one of n. `JobsLead`: what a push of an
encodable term puts on the stack leads from 1 to 0. The invariant `TermInv` is
that what a running push has written is not yet a term at any earlier point
(`Open`) and that what it has still to do leads from what is missing to
nothing.

The sizes, `bert_data_sizeof` against the bytes written:

- `SizeofIsEnough` and `ShortWriteIsTrue`, if no integer is negative and small
  (`NoneUndersized`): a push that succeeds has written no more than
  `bert_data_sizeof`, short writes included, and one that fails with
  `BERT_ERRNO_SHORT_WRITE` had less room than that. The hypothesis is needed:
  `EncodeSizeof.cfg` shows a negative integer that takes more.
- `SizeofIsExact`, if `write` takes all it is given: a push of a term that is
  `WellMeasured` has written just `bert_data_sizeof` bytes, whatever the other
  terms are.

All three suppose `Trees`: terms are made of terms that were there before
(a height that falls from a term to its elements), as the constructors and the
containers make them (`OneOwner` of `Containers`). Without it the recursions
over `Terms` need not end. Any finite set of terms TLC can build satisfies it.
With it `SizeofRecursion` and `WellMeasuredRecursion` show that
`bert_data_sizeof` has a number for every term and that both functions satisfy
their equations.

`Weighs(jobs, n)` says that `jobs` write n bytes, if every push among them
writes what `bert_data_sizeof` has for its term. `JobsFit` takes the types one
by one: what a push writes itself, byte for byte as in `encode.c`, together
with the sizes of the elements it pushes, is no more than `SizeWith` of its
term, and just as much where `IntsMeasured`. The integers are where it could go
wrong: `encode.c` looks at the value, `bert_data_sizeof_int` at shifted
magnitudes (`LargeIsMeasuredWhole`, `IntegerLength`), and a time is cast to 32
bits before it is written (`CastMeasured`). The invariant `SizeInv` is that the
bytes a running push has written and the weight of what it has still to do are
together no more than `bert_data_sizeof` of its term, and equal to it where
nothing is lost: a push replaces a term by jobs that fit it (`SizeOfPush`), a
write moves bytes from one side to the other (`SizeOfWrite`).

The names of `BertData` (`NamesAssumption`) are assumed to be of 1 to 15
characters because the provers do not look into strings; TLC evaluates it.

### Constructors and containers (`TermHeap_proofs`, `Containers_proofs`)

For any number of blocks, any sizes, indices and widths of lengths, any `malloc`
failing and any sequence of calls: `TypeCorrect`, `OneOwnerAlways`,
`OnlySourcesLostAlways`, `TextsTerminatedAlways`, `TailIsLastAlways`. Only
`ContainersAssumption` is assumed, that the constants are of the types the code
gives them; `TextsTerminatedAlways` has the hypothesis that no size is the
greatest its type holds, without which it is false.

None of the five is inductive. `TailIsLast` says nothing of a list that shares
a node with another, and `OneOwner` nothing of what a replaced element takes
with it. The invariant `Inv` (`InOrderAlways`) says that

1. the heap is `Sound`, as in the decoder: no block is held twice and none that
   is held was freed;
2. each block is of the shape its type asks for (`Shaped`): a tuple has its
   struct, this its elements, a node the term or terms it holds and the next
   node;
3. each node belongs to one list or dict (`Homed`): a function `home` from nodes
   to lists exists, constant along `next`; the first node of a list is at home in
   it, and so is its tail, which has no next node. The code stores no such
   function, so it is bound by an existential;
4. the terms the client holds are held by nothing else (`ClientOK`); what a
   constructor has so far is what its `malloc`s made, none of it held but by
   itself (`GotOK`); a list that is searched is searched at one of its own nodes
   (`CallOK`), which `bert_list_set` then changes;
5. every live block is reached from the client, from a constructor that runs,
   or is an abandoned source of a regex (`NoLoss`).

`DestroyKeeps` shows that destroying takes a list with all of its nodes or none
of them; `StoreKeeps` and `LinkedKeeps` that storing an element and linking a
node keep the order, `Replaces` that a replaced element goes with what only it
held. Each constructor has a step per allocation (`FirstPart`, `TuplePart`,
`TermOver`, `MallocFailsStep`). `TailIsLast` then follows (`TailHolds`): the walk
from the first node meets no node twice because each is held once, so it ends
before it has taken as many steps as there are blocks (`WalkEnds`). It meets
every node of the list that is reached from what 5 names, because only a node of
the same list or its struct leads there; so it meets the tail, and as nothing
follows the tail it ends there.

### Containers are sequences (`ContainersStore_proofs`)

Under the same assumption, `ImplementsSequencesAlways`
(`Spec => ImplementsSequences`): every step on blocks is one step of
`SequenceStore` with the same reply, or none of its steps. The mapping gives a
term the sequence `Held` reads from its blocks: the elements of a tuple, what
the nodes of a list or dict hold from the first node on, nothing otherwise.

`Held` walks the chain by a recursion that stops after as many steps as there
are blocks. The proof replaces the walk by what it means: `IsChain(h, p, s)`
says that `s` is the sequence of nodes from `p` to the last. In a heap in order
every list has such a chain (`HeapChained`) and only one (`ChainUnique`), without
repetition (`ChainDistinct`), so that what a term holds can be stated without a
recursion (`ListHolds`, `ElementsOf`). What the operations do to it:

- Destroying a term takes exactly the terms that go with it: a set of terms that
  contains what they hold is, with their structs, nodes and arrays, a set of
  blocks that leads nowhere else (`BlocksLeave`), so `Reach` over blocks and
  `Holds` over sequences are the same terms (`HoldsIs`). The other terms keep
  all of their blocks (`PartsSurvive`, `DestroyedContent`).
- An element belongs to one block and that block to one term (`PartsApart`), so
  replacing it changes one place of one sequence (`PutInNode`, `PutInElements`,
  `ReplacedContent`).
- A node linked behind the tail makes the chain of its list longer by one and
  touches no other (`LinkContent`). The tail being the last node is
  `TailIsLast`, which is proved before.
- A new term holds as many nulls as the call asked for (`NewTuple`, `NewList`),
  and the blocks of a term that is not complete are of no term (`PartStore`);
  when `malloc` fails in a constructor, what it frees belongs to none
  (`MallocFailsStore`).

`Inv` does not say enough for this, and the proof adds `Told`: the nodes of a
list have room for one element and those of a dict for two, whichever node it
is (`Widths`); every block of a term is of a type the client makes (`Typed`);
a search that has counted `i` nodes stands at the node behind them, so that what
it finds is in the place of its index (`SearchOK`); and what it looks for is
what it was asked for (`AskedOK`). Each operation has a lemma `...Store`, which
shows its step of `SequenceStore` and `Told` after it; a search is one step of
the store, at its end.

### What the provers were given, and what stays with TLC

`RecursionLemmas` replaces the library's theorems that take an operator as a
parameter, which no installed prover instantiates: induction over the natural
numbers is stated with a set (what holds of 0 and of each successor holds of
all), and from it follow the existence and the equation of a function defined
by recursion on the naturals, the folds and `FlattenSeq` of the community
modules, and a recursion along trees (`TreeRecursion`: where a height falls from
each node to its children, a function with the equation exists). The recursive
functions of `TermHeap`, `Words` and `Encode` are proved with these. Out of reach are

- liveness (`BytesReturns`, `PullReturns`) and `ENABLED`;
- `BertDecoder` and `Wire`, which declare recursive operators.

These are also all that is only model-checked, besides `NothingElseLost` for
inputs that end between two elements. TLC checked `OneOwner` and an earlier
form of `DInv` on `Decode.cfg` and most of `Told` on `Containers.cfg` before
they were proved; the invariants of the encoder quantify over functions TLC
cannot enumerate and were checked in parts.

## Not modelled

- The characters of texts, of floats and of printed numbers: a text is a byte
  repeated, a float a power of ten, a printed term its punctuation.
- Files and options of `bert_dump`; `bert_strerror`, a table of texts.
- `memcpy` into allocated texts; that their room suffices, but for the greatest
  size, is `TextsTerminated`.
- Texts that are longer than the length field the encoder gives them (2^16,
  2^32): `Containers` cuts the length as the constructors do, `Encode` only
  meets shorter ones.
- `bert_list_node_create` and `bert_list_node_destroy` in `data.c`, which
  nothing calls.
- The version string.

## Plan

1. Done: `ShortBuffer` with `ByteStream`; `Decode`; `Encode` byte by byte;
   `Wire`; `Containers` with `SequenceStore`; the proofs about the read side,
   the decoder, the encoder, the constructors and the containers, and both
   refinements.
2. `ShortBuffer` and `BertDecoder` composed: short counts and failures of a
   source in the middle of a term, with the bytes of the term.
