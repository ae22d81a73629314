--------------------------- MODULE SequenceStore ---------------------------
(***************************************************************************)
(* What lists, dicts and tuples promise their client, without memory: each *)
(* term holds a sequence of terms, empty for one that is no container.  An *)
(* operation takes one step and leaves its reply.  A term that is replaced *)
(* or destroyed goes with all it holds.                                    *)
(***************************************************************************)
EXTENDS BertErrno, Sequences, Functions

CONSTANTS Indices, Sizes, Null

VARIABLES
  content,  \* the terms that exist, and the sequence each holds
  reply     \* of the last operation

storeVars == <<content, reply>>

Reply(op, c, index, value) == [op |-> op, c |-> c, index |-> index, value |-> value]

NoReply == Reply("none", Null, 0, Null)

Init ==
  /\ content = << >>
  /\ reply = NoReply

\* what the terms of s hold is in s
Closed(s) == \A q \in s : Range(content[q]) \ {Null} \subseteq s

\* the terms that go with p: p, what it holds, and so on
Holds(p) ==
  {q \in DOMAIN content :
     \A s \in SUBSET DOMAIN content : Closed(s) /\ {p} \ {Null} \subseteq s => q \in s}

Without(p) == Restrict(content, DOMAIN content \ Holds(p))

\* an operation that takes more than a step begins
Begin ==
  /\ reply' = NoReply
  /\ UNCHANGED content

Create(p, n) ==
  /\ reply' = Reply("create", Null, 0, p)
  /\ p \notin DOMAIN content \union {Null}
  /\ content' = [q \in DOMAIN content \union {p} |->
                   IF q = p THEN [k \in 1 .. n |-> Null] ELSE content[q]]

CreateFails ==
  /\ reply' = Reply("create", Null, 0, Null)
  /\ UNCHANGED content

\* one element of a list, or a key and a value of a dict
Extend(c, elements) ==
  /\ reply' = Reply("append", c, 0, BERT_SUCCESS)
  /\ content' = [content EXCEPT ![c] = @ \o elements]

ExtendFails(c) ==
  /\ reply' = Reply("append", c, 0, BERT_ERRNO_MALLOC)
  /\ UNCHANGED content

Get(c, index) ==
  /\ reply'.op = "get" /\ reply'.index = index
  /\ reply' = Reply("get", c, index,
                    IF index < Len(content[c]) THEN content[c][index + 1] ELSE Null)
  /\ UNCHANGED content

SetReplaces(c, index, d) ==
  /\ reply' = Reply("set", c, index, 1)
  /\ index < Len(content[c])
  /\ content' = [Without(content[c][index + 1]) EXCEPT ![c][index + 1] = d]

SetRefuses(c, index) ==
  /\ reply' = Reply("set", c, index, 0)
  /\ index >= Len(content[c])
  /\ UNCHANGED content

Length(c) ==
  /\ reply'.op = "length"
  /\ reply' = Reply("length", c, 0, Len(content[c]))
  /\ UNCHANGED content

Destroy(p) ==
  /\ reply' = Reply("destroy", p, 0, Null)
  /\ content' = Without(p)

\* the reply says which container was asked, if any
Next ==
  \/ Begin
  \/ \E n \in Sizes : Create(reply'.value, n)
  \/ CreateFails
  \/ \E c \in DOMAIN content \intersect {reply'.c} :
       \/ \E d \in DOMAIN content : Extend(c, <<d>>)
       \/ \E k, v \in DOMAIN content : k # v /\ Extend(c, <<k, v>>)
       \/ ExtendFails(c)
       \/ \E index \in Indices :
            \/ Get(c, index)
            \/ \E d \in DOMAIN content : SetReplaces(c, index, d)
            \/ SetRefuses(c, index)
       \/ Length(c) \/ Destroy(c)

Spec == Init /\ [][Next]_storeVars
=============================================================================
