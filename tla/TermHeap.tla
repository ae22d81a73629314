------------------------------ MODULE TermHeap ------------------------------
(***************************************************************************)
(* The heap and bert_data_destroy.  A cell is a term (bert_data_t) with    *)
(* what its type tag says it owns: the elements of a tuple or a list, the  *)
(* keys and values of a dict, the source of a regex; Containers has a cell *)
(* for every block those are kept in.  A cell is never reused, so that a   *)
(* dangling pointer is told from a pointer to a newer term.                *)
(***************************************************************************)
EXTENDS Integers, Sequences, Functions

Null == 0   \* NULL
Wild == -1  \* a pointer never set, which the machine finds not to be NULL

Freed == [type |-> "freed", text |-> "", kids |-> << >>]

Term(type, text, kids) == [type |-> type, text |-> text, kids |-> kids]

Live(heap, p) == p \in DOMAIN heap /\ heap[p].type # "freed"

\* what bert_data_destroy destroys with a cell: the source of a regex is not among it
Followed(heap, p) ==
  IF Live(heap, p) /\ heap[p].type # "regex" THEN heap[p].kids ELSE << >>

\* the pointers met by destroying what `starts` point to
Reach(heap, starts) ==
  LET reach[n \in 0 .. Len(heap)] ==
        IF n = 0 THEN starts
        ELSE LET nearer == reach[n - 1]
             IN  nearer \union UNION {Range(Followed(heap, p)) : p \in nearer}
  IN  reach[Len(heap)] \ {Null}

\* where the pointers met by destroying `roots` in turn are stored: among the roots, or in a
\* term that is destroyed
Slots(heap, roots) ==
  ({0} \X DOMAIN roots)
    \union UNION {{p} \X DOMAIN Followed(heap, p) : p \in Reach(heap, Range(roots))}

Stored(heap, roots, slot) ==
  IF slot[1] = 0 THEN roots[slot[2]] ELSE heap[slot[1]].kids[slot[2]]

\* every pointer met is NULL or a live term, and no term is met twice
Destroyable(heap, roots) ==
  /\ \A p \in Reach(heap, Range(roots)) : Live(heap, p)
  /\ \A s, t \in Slots(heap, roots) :
       Stored(heap, roots, s) = Stored(heap, roots, t) /\ s # t
         => Stored(heap, roots, s) = Null

Destroyed(heap, roots) ==
  [p \in DOMAIN heap |-> IF p \in Reach(heap, Range(roots)) THEN Freed ELSE heap[p]]

\* what bert_data_destroy does not follow: the sources of the regexes it meets
Abandoned(heap, starts) ==
  UNION {Range(heap[p].kids) :
           p \in {q \in Reach(heap, starts) : Live(heap, q) /\ heap[q].type = "regex"}}

\* a term that can be walked to its ends: no pointer in it is NULL
Whole(heap, p) ==
  /\ Live(heap, p)
  /\ Destroyable(heap, <<p>>)
  /\ \A s \in Slots(heap, <<p>>) : Stored(heap, <<p>>, s) # Null

\* bert_data_strequal of an atom
IsAtom(heap, p)       == Live(heap, p) /\ heap[p].type = "atom"
IsWord(heap, p, text) == IsAtom(heap, p) /\ heap[p].text = text
=============================================================================
