----------------------------- MODULE Containers -----------------------------
(***************************************************************************)
(* The constructors of terms and the containers, block by block: a cell of *)
(* the heap is what one call of malloc or calloc returned.  A client makes *)
(* terms, gives them to containers, asks for them and destroys them; it    *)
(* gives only what it owns, and no container to itself.  malloc may fail   *)
(* at every call.  A list is searched one node at a step.                  *)
(***************************************************************************)
EXTENDS BertErrno, TermHeap, SequencesExt

CONSTANTS
  DataTypes,   \* the types of the terms the client makes
  Sizes,       \* the sizes it asks for: of a tuple, or of a text in bytes
  Indices,     \* the indices it asks for
  ShortSizes,  \* how many sizes an atom and a string can have: 2^16
  LongSizes,   \* how many sizes a binary and a regex can have: 2^32
  MaxBlocks    \* bound: how many blocks are ever allocated

ASSUME ContainersAssumption ==
  /\ DataTypes \subseteq {"int", "atom", "string", "bin", "regex", "tuple", "list", "dict"}
  /\ Sizes \subseteq Nat /\ Indices \subseteq Nat
  /\ {ShortSizes, LongSizes} \subseteq Nat \ {0} /\ MaxBlocks \in Nat

VARIABLES
  heap,    \* the blocks, live and freed
  client,  \* the terms the client owns
  call,    \* the running call
  reply,   \* what the last call came back with
  dropped  \* history: the blocks the code abandoned alive

vars == <<heap, client, call, reply, dropped>>

\* the types that keep a text in a block of its own
IsShort(type) == type \in {"atom", "string"}
IsLong(type)  == type \in {"bin", "regex"}
IsText(text)  == IsShort(text) \/ IsLong(text)

(***************************************************************************)
(* A block.  kids: the pointers in it that are followed when it is         *)
(* destroyed, `next` of a node the last; tail: of a list or a dict; size:  *)
(* of a text in bytes, or the length in a term or a tuple.                 *)
(***************************************************************************)
Block(type, kids, size) == [type |-> type, kids |-> kids, size |-> size, tail |-> Null]

NoCall ==
  [op |-> "none", type |-> "", size |-> 0, got |-> << >>,
   c |-> Null, index |-> 0, data |-> Null, i |-> 0, next_node |-> Null]

Reply(op, c, index, value) == [op |-> op, c |-> c, index |-> index, value |-> value]

NoReply == Reply("none", Null, 0, Null)

Init ==
  /\ heap = << >>
  /\ client = {}
  /\ call = NoCall
  /\ reply = NoReply
  /\ dropped = {}

Idle  == call = NoCall
NewId == Len(heap) + 1
Room(n) == Len(heap) + n <= MaxBlocks

-----------------------------------------------------------------------------
(* bert_data_create_* *)

\* what each constructor allocates, in this order
Allocations(type) ==
  CASE type = "tuple" -> <<"elements", "tuple_t", type>>
    [] type = "list"  -> <<"list_t", type>>
    [] type = "dict"  -> <<"dict_t", type>>
    [] IsText(type)    -> <<"text", type>>
    [] OTHER -> <<type>>

\* strlen into 16 bits; the length of a binary and of a regex comes in 32
Length(type, size) ==
  CASE IsShort(type) -> size % ShortSizes
    [] IsLong(type)  -> size % LongSizes
    [] type = "tuple"      -> size
    [] OTHER               -> 0

NoTerminator(type, length) == length

\* one byte more, in the type of the length: it is wider than 16 bits, but 32 bits may wrap
RoomForText(type, length) == IF IsShort(type) THEN length + 1 ELSE (length + 1) % LongSizes

Fresh(kind) ==
  CASE kind = "text"     -> Block(kind, << >>, RoomForText(call.type, call.size))
    [] kind = "elements" -> Block(kind, [k \in 1 .. call.size |-> Null], 0)
    [] kind \in {"list_t", "dict_t"} -> Block(kind, <<Null>>, 0)
    [] OTHER -> Block(kind, IF call.got = << >> THEN << >> ELSE <<Last(call.got)>>, call.size)

bert_data_create(type, size) ==
  /\ Idle /\ Room(Len(Allocations(type)))
  /\ call' = [NoCall EXCEPT !.op = "create", !.type = type, !.size = Length(type, size)]
  /\ reply' = NoReply
  /\ UNCHANGED <<heap, client, dropped>>

Malloc ==
  /\ call.op = "create"
  /\ LET kind == Allocations(call.type)[Len(call.got) + 1] IN
     /\ heap' = Append(heap, Fresh(kind))
     /\ IF kind = call.type
          THEN /\ client' = client \union {NewId}
               /\ reply' = Reply("create", Null, 0, NewId)
               /\ call' = NoCall
          ELSE /\ call' = [call EXCEPT !.got = Append(@, NewId)]
               /\ UNCHANGED <<client, reply>>
  /\ UNCHANGED dropped

\* the labels cleanup_*, bert_tuple_destroy or bert_list_destroy free what was allocated before
Cleanup(got) == Range(got)

MallocFails ==
  /\ call.op = "create"
  /\ heap' = [p \in DOMAIN heap |-> IF p \in Cleanup(call.got) THEN Freed ELSE heap[p]]
  /\ reply' = Reply("create", Null, 0, Null)
  /\ call' = NoCall
  /\ UNCHANGED <<client, dropped>>

-----------------------------------------------------------------------------
(* What the client may do *)

\* the containers of a type it knows of: its own, and those in them
Known(type) == {c \in Reach(heap, client) : heap[c].type = type}

\* the terms it may put into c
MayGive(c) == {d \in client : c \notin Reach(heap, {d})}

\* the struct a term points to
Struct(c) == heap[c].kids[1]

\* bert_data_destroy, on the terms the roots point to
Destroying(roots) ==
  /\ heap' = Destroyed(heap, roots)
  /\ dropped' = dropped \union Abandoned(heap, Range(roots))

bert_data_destroy(d) ==
  /\ Idle /\ d \in client
  /\ Destroying(<<d>>)
  /\ client' = client \ {d}
  /\ reply' = Reply("destroy", d, 0, Null)
  /\ UNCHANGED call

-----------------------------------------------------------------------------
(* bert_list_append and bert_dict_append *)

TailUnset(c, elements) ==
  LET list == Struct(c)
      tail == heap[list].tail
      with == Append(heap, Block("node", elements \o <<Null>>, 0))
  IN  IF tail # Null
        THEN [with EXCEPT ![tail].kids = Append(Front(@), NewId), ![list].tail = NewId]
        ELSE [with EXCEPT ![list].kids = <<NewId>>]

TailStays(c, elements) ==
  LET list == Struct(c)
      tail == heap[list].tail
      with == Append(heap, Block("node", elements \o <<Null>>, 0))
  IN  IF tail # Null
        THEN [with EXCEPT ![tail].kids = Append(Front(@), NewId)]
        ELSE [with EXCEPT ![list].kids = <<NewId>>, ![list].tail = NewId]

Linked(c, elements) ==
  LET list == Struct(c)
      tail == heap[list].tail
      with == Append(heap, Block("node", elements \o <<Null>>, 0))
  IN  IF tail # Null
        THEN [with EXCEPT ![tail].kids = Append(Front(@), NewId), ![list].tail = NewId]
        ELSE [with EXCEPT ![list].kids = <<NewId>>, ![list].tail = NewId]

Appends(c, elements) ==
  /\ Idle /\ Room(1)
  /\ heap' = Linked(c, elements)
  /\ client' = client \ Range(elements)
  /\ reply' = Reply("append", c, 0, BERT_SUCCESS)
  /\ UNCHANGED <<call, dropped>>

bert_list_append(c) == \E d \in MayGive(c) : Appends(c, <<d>>)

bert_dict_append(c) ==
  \E key, value \in MayGive(c) : key # value /\ Appends(c, <<key, value>>)

\* the client keeps what it wanted to give
AppendFails(c) ==
  /\ Idle
  /\ reply' = Reply("append", c, 0, BERT_ERRNO_MALLOC)
  /\ UNCHANGED <<heap, client, call, dropped>>

-----------------------------------------------------------------------------
(* bert_list_get, bert_list_set and bert_list_length *)

Search(op, c, index, data) ==
  /\ Idle
  /\ call' = [NoCall EXCEPT !.op = op, !.c = c, !.index = index, !.data = data,
                            !.next_node = heap[Struct(c)].kids[1]]
  /\ reply' = NoReply
  /\ UNCHANGED <<heap, client, dropped>>

bert_list_get(c, index) == Search("get", c, index, Null)

bert_list_set(c, index) == \E d \in MayGive(c) : Search("set", c, index, d)

bert_list_length(c) == Search("length", c, 0, Null)

Searching == call.op \in {"get", "set", "length"}

PastIndex == call.next_node # Null /\ (call.op = "length" \/ call.i <= call.index)

\* the condition of the loop
Before == call.next_node # Null /\ (call.op = "length" \/ call.i < call.index)

NextNode ==
  /\ Searching /\ Before
  /\ call' = [call EXCEPT !.next_node = Last(heap[@].kids), !.i = @ + 1]
  /\ UNCHANGED <<heap, client, reply, dropped>>

Replies(value) ==
  /\ reply' = Reply(call.op, call.c, call.index, value)
  /\ call' = NoCall

LengthCounted ==
  /\ call.op = "length" /\ ~Before
  /\ Replies(call.i)
  /\ UNCHANGED <<heap, client, dropped>>

GetFinds ==
  /\ call.op = "get" /\ ~Before
  /\ Replies(IF call.next_node = Null THEN Null ELSE heap[call.next_node].kids[1])
  /\ UNCHANGED <<heap, client, dropped>>

DestroysNew(h, p, k, d) == [Destroyed(h, <<d>>) EXCEPT ![p].kids[k] = d]

KeepsOld(h, p, k, d) == [h EXCEPT ![p].kids[k] = d]

\* the element in place k of block p is destroyed and d put there
Replaced(h, p, k, d) == [Destroyed(h, <<h[p].kids[k]>>) EXCEPT ![p].kids[k] = d]

SetReplaces ==
  /\ call.op = "set" /\ ~Before /\ call.next_node # Null
  /\ heap' = Replaced(heap, call.next_node, 1, call.data)
  /\ dropped' = dropped \union Abandoned(heap, {heap[call.next_node].kids[1]})
  /\ client' = client \ {call.data}
  /\ Replies(1)

SetFindsNone ==
  /\ call.op = "set" /\ ~Before /\ call.next_node = Null
  /\ Replies(0)
  /\ UNCHANGED <<heap, client, dropped>>

-----------------------------------------------------------------------------
(* bert_tuple_get and bert_tuple_set *)

Elements(c) == heap[heap[Struct(c)].kids[1]].kids

InTuple(c, index) == index < heap[Struct(c)].size

bert_tuple_get(c, index) ==
  /\ Idle
  /\ reply' = Reply("get", c, index, IF InTuple(c, index) THEN Elements(c)[index + 1] ELSE Null)
  /\ UNCHANGED <<heap, client, call, dropped>>

TupleSetReplaces(c, index) ==
  /\ Idle /\ InTuple(c, index)
  /\ \E d \in MayGive(c) :
       /\ heap' = Replaced(heap, heap[Struct(c)].kids[1], index + 1, d)
       /\ client' = client \ {d}
  /\ dropped' = dropped \union Abandoned(heap, {Elements(c)[index + 1]})
  /\ reply' = Reply("set", c, index, 1)
  /\ UNCHANGED call

TupleSetRefuses(c, index) ==
  /\ Idle /\ ~InTuple(c, index)
  /\ reply' = Reply("set", c, index, 0)
  /\ UNCHANGED <<heap, client, call, dropped>>

-----------------------------------------------------------------------------
Next ==
  \/ \E type \in DataTypes, size \in Sizes : bert_data_create(type, size)
  \/ Malloc \/ MallocFails
  \/ \E d \in client : bert_data_destroy(d)
  \/ \E c \in Known("list") :
       \/ bert_list_append(c) \/ bert_list_length(c)
       \/ \E index \in Indices : bert_list_get(c, index) \/ bert_list_set(c, index)
  \/ \E c \in Known("dict") : bert_dict_append(c)
  \/ \E c \in Known("list") \union Known("dict") : AppendFails(c)
  \/ \E c \in Known("tuple"), index \in Indices :
       \/ bert_tuple_get(c, index)
       \/ TupleSetReplaces(c, index) \/ TupleSetRefuses(c, index)
  \/ NextNode
  \/ LengthCounted \/ GetFinds \/ SetReplaces \/ SetFindsNone

Spec == Init /\ [][Next]_vars

-----------------------------------------------------------------------------
(* Properties *)

\* the node after each
NextOf ==
  [p \in {Null} \union DOMAIN heap |->
     IF p # Null /\ heap[p].type = "node" THEN Last(heap[p].kids) ELSE Null]

\* the nodes of the list that begins with node p
Chain(p) ==
  LET node[n \in 1 .. Len(heap) + 1] == IF n = 1 THEN p ELSE NextOf[node[n - 1]]
  IN  [n \in {m \in DOMAIN node : node[m] # Null} |-> node[n]]

\* what a term holds: an element per node of a list, a key and a value per node of a dict
Held(c) ==
  CASE heap[c].type \in {"list", "dict"} ->
         LET chain == Chain(heap[Struct(c)].kids[1])
             width == IF heap[c].type = "dict" THEN 2 ELSE 1
         IN  [k \in 1 .. width * Len(chain) |->
                heap[chain[(k - 1) \div width + 1]].kids[((k - 1) % width) + 1]]
    [] heap[c].type = "tuple" -> Elements(c)
    [] OTHER -> << >>

DataCells == {p \in DOMAIN heap : heap[p].type \in DataTypes}

Contents == [p \in DataCells |-> Held(p)]

Sequence == INSTANCE SequenceStore WITH content <- Contents, Sizes <- Sizes \union {0}

\* Pointers lead to blocks; the client's are live terms; a list has a last node if it has a
\* first one.
TypeOK ==
  /\ \A p \in DOMAIN heap : Range(heap[p].kids) \subseteq 0 .. Len(heap)
  /\ client \subseteq DataCells
  /\ \A p \in DOMAIN heap :
       heap[p].type \in {"list_t", "dict_t"} =>
         (heap[p].tail = Null <=> heap[p].kids = <<Null>>)
  /\ call.next_node # Null => Live(heap, call.next_node)
  /\ dropped \subseteq DOMAIN heap

\* The tail a list or a dict keeps is its last node, where the next one is linked: a stale tail
\* would only show two appends later, when the elements between are gone.
TailIsLast ==
  \A p \in DOMAIN heap :
    heap[p].type \in {"list_t", "dict_t"} /\ heap[p].tail # Null =>
      heap[p].tail = Last(Chain(heap[p].kids[1]))

\* Every block has one owner: destroying all that the client owns meets each block once,
\* and none that was freed, whatever was appended, replaced or refused before.
OneOwner == Destroyable(heap, SetToSeq(client))

\* No block is lost: what is live is owned by the client, by a constructor that still runs,
\* or is the source of a regex, which bert_data_destroy leaves behind ("should never get
\* here"): also after a constructor failed half-way, an element was replaced, or a term was
\* refused and stayed with the client.
OnlySourcesLost ==
  /\ {p \in DOMAIN heap : Live(heap, p)}
       = Reach(heap, client) \union Abandoned(heap, client) \union Range(call.got) \union dropped
  /\ \A p \in dropped : heap[p].type = "text"

\* "make sure that there is an extra NULL byte": a text has room for the bytes it says it has
\* and one more.
TextsTerminated ==
  \A p \in DataCells : IsText(heap[p].type) => heap[Struct(p)].size > heap[p].size

\* Lists, dicts and tuples are sequences: whatever their nodes and pointers, an element that
\* was appended or set is found in its place until it is replaced or destroyed, an index past
\* the end changes nothing, and a length is the number of elements.
ImplementsSequences == Sequence!Spec
=============================================================================
