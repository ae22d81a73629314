-------------------------- MODULE Containers_proofs --------------------------
(***************************************************************************)
(* Theorems about Containers, for every number of blocks, every size and   *)
(* every order of calls: a block has one owner, nothing is lost but the    *)
(* sources of regexes, a tail is the last node of its list, and texts      *)
(* below the greatest size have room for their NULL byte.                  *)
(***************************************************************************)
EXTENDS Containers, TermHeap_proofs

(***************************************************************************)
(* The inductive invariant.  A heap in order is made of cells, is Sound    *)
(* (no block is held twice, none that is held was freed), every block      *)
(* holds what its type says, and every node belongs to one list or dict,   *)
(* its home: the tail a list keeps is a node of its own with no next one.  *)
(***************************************************************************)

\* what a block is of
Kinds == {"int", "atom", "string", "bin", "regex", "tuple", "list", "dict",
          "text", "elements", "tuple_t", "list_t", "dict_t", "node"}

\* the blocks, live and freed
Cell == [type : Kinds, kids : Seq(Int), size : Nat, tail : Int] \union {Freed}

\* the lengths of binaries and regexes
Longs == {size % LongSizes : size \in Sizes}

\* null, or a block of one of some kinds
Leads(h, q, kinds) == q = Null \/ (q \in DOMAIN h /\ h[q].type \in kinds)

\* a text has the room its length asks for
TextHeld(h, b) ==
  /\ Len(b.kids) = 1 /\ b.kids[1] \in DOMAIN h
  /\ h[b.kids[1]].type = "text" /\ h[b.kids[1]].size = RoomForText(b.type, b.size)
  /\ IsLong(b.type) => b.size \in Longs

\* a block with one pointer, to a block of a kind
StructHeld(h, b, kind) == Len(b.kids) = 1 /\ b.kids[1] \in DOMAIN h /\ h[b.kids[1]].type = kind

\* what a block holds, by its type
Shape(h, p) ==
  LET b == h[p] IN
  /\ b.type \in {"int", "text"} => b.kids = << >>
  /\ IsText(b.type) => TextHeld(h, b)
  /\ b.type = "tuple" => StructHeld(h, b, "tuple_t")
  /\ b.type = "tuple_t" => StructHeld(h, b, "elements") /\ Len(h[b.kids[1]].kids) = b.size
  /\ b.type = "elements" => \A k \in DOMAIN b.kids : Leads(h, b.kids[k], DataTypes)
  /\ b.type = "list" => StructHeld(h, b, "list_t")
  /\ b.type = "dict" => StructHeld(h, b, "dict_t")
  /\ b.type \in {"list_t", "dict_t"} => Len(b.kids) = 1 /\ Leads(h, b.kids[1], {"node"})
  /\ b.type = "node" =>
       /\ Len(b.kids) \in {2, 3} /\ Leads(h, Last(b.kids), {"node"})
       /\ \A k \in 1 .. Len(b.kids) - 1 : Leads(h, b.kids[k], DataTypes)

Shaped(h) == \A p \in DOMAIN h : Shape(h, p)

\* every node of a list or dict has the struct of it as its home, and so have the first and the last
Homed(h, home) ==
  \A p \in DOMAIN h :
    /\ h[p].type \in {"list_t", "dict_t"} =>
         /\ h[p].kids[1] = Null <=> h[p].tail = Null
         /\ h[p].kids[1] # Null => home[h[p].kids[1]] = p
         /\ h[p].tail # Null => /\ h[p].tail \in DOMAIN h /\ h[h[p].tail].type = "node"
                                /\ home[h[p].tail] = p /\ Last(h[h[p].tail].kids) = Null
    /\ h[p].type = "node" /\ Last(h[p].kids) # Null => home[Last(h[p].kids)] = home[p]

\* what a running constructor has allocated
GotOK(h, c) ==
  LET got == c.got IN
  /\ Len(got) < Len(Allocations(c.type))
  /\ IsText(c.type) /\ got # << >> =>
       /\ Free(h, got[1]) /\ h[got[1]].type = "text"
       /\ h[got[1]].size = RoomForText(c.type, c.size)
  /\ IsLong(c.type) => c.size \in Longs
  /\ c.type = "tuple" /\ got # << >> =>
       /\ Live(h, got[1]) /\ h[got[1]].type = "elements" /\ Len(h[got[1]].kids) = c.size
       /\ \A k \in DOMAIN h[got[1]].kids : h[got[1]].kids[k] = Null
       /\ Len(got) = 1 => Free(h, got[1])
       /\ Len(got) = 2 => /\ Free(h, got[2]) /\ h[got[2]].type = "tuple_t"
                          /\ h[got[2]].kids = <<got[1]>>
  /\ c.type \in {"list", "dict"} /\ got # << >> =>
       /\ Free(h, got[1]) /\ h[got[1]].type = (IF c.type = "list" THEN "list_t" ELSE "dict_t")
       /\ h[got[1]].kids = <<Null>>

\* a call that runs: a search has come to a node of its list
CallOK(h, own, c, home) ==
  /\ c.op = "none" => c = NoCall
  /\ c.op = "create" => c.type \in DataTypes /\ GotOK(h, c)
  /\ c.op # "create" => c.got = << >>
  /\ c.op \in {"get", "set", "length"} =>
       /\ c.c \in DOMAIN h /\ h[c.c].type = "list"
       /\ c.next_node # Null =>
            c.next_node \in DOMAIN h /\ h[c.next_node].type = "node" /\ home[c.next_node] = h[c.c].kids[1]
  /\ c.op = "set" => c.data \in own /\ c.c \notin Reach(h, {c.data})
  /\ c.op \notin {"get", "set", "length"} => c.next_node = Null

\* the calls there are
Calls == [op : {"none", "create", "get", "set", "length"}, type : DataTypes \union {""},
          size : Nat, got : Seq(Int), c : Int, index : Int, data : Int, i : Nat, next_node : Int]

\* nothing holds a term of the client's
ClientOK(h, own) ==
  \A d \in own : Free(h, d) /\ h[d].type \in DataTypes

\* what was abandoned are texts that nothing holds
DroppedOK(h, lost, got) ==
  \A p \in lost : Free(h, p) /\ h[p].type = "text" /\ p \notin Range(got)

\* a heap in order
HeapOK(h, home) == h \in Seq(Cell) /\ Sound(h) /\ Shaped(h) /\ Homed(h, home)

\* the heap is in order, with what the client, the running call and the history have of it, and
\* every live block is reached from these
InOrder(h, own, c, lost, home) ==
  /\ HeapOK(h, home)
  /\ c \in Calls
  /\ ClientOK(h, own) /\ CallOK(h, own, c, home)
  /\ DroppedOK(h, lost, c.got)
  /\ NoLoss(h, own \union Range(c.got) \union lost)

Inv == \E home \in [1 .. Len(heap) -> Int] : InOrder(heap, client, call, dropped, home)

\* The types of the client's terms are those of bert_data_t.
LEMMA DataAre ==
  /\ DataTypes \subseteq {"int", "atom", "string", "bin", "regex", "tuple", "list", "dict"}
  /\ DataTypes \subseteq Kinds /\ "freed" \notin DataTypes
  /\ {"text", "elements", "tuple_t", "list_t", "dict_t", "node"} \cap DataTypes = {}
BY ContainersAssumption DEF Kinds

\* What a cell is.
LEMMA CellIs ==
  ASSUME NEW h \in Seq(Cell), NEW p \in DOMAIN h
  PROVE  /\ h[p] \in Cell /\ h[p].kids \in Seq(Int) /\ Len(h[p].kids) \in Nat
         /\ DOMAIN h[p].kids = 1 .. Len(h[p].kids)
         /\ h[p].type = "freed" <=> h[p] = Freed
         /\ h[p].type # "freed" =>
              /\ h[p] \in [type : Kinds, kids : Seq(Int), size : Nat, tail : Int]
              /\ h[p].type \in Kinds /\ h[p].size \in Nat /\ h[p].tail \in Int
<1>1. h[p] \in Cell
  OBVIOUS
<1>2. CASE h[p] = Freed
  <2>1. Freed.type = "freed" /\ Freed.kids = << >>
    BY DEF Freed
  <2>2. << >> \in Seq(Int)
    OBVIOUS
  <2>3. h[p].kids \in Seq(Int)
    BY <1>2, <2>1, <2>2
  <2> QED
    BY <1>1, <1>2, <2>1, <2>3
<1>3. CASE h[p] \in [type : Kinds, kids : Seq(Int), size : Nat, tail : Int]
  <2>1. "freed" \notin Kinds
    BY DEF Kinds
  <2>2. h[p].type \in Kinds /\ Freed.type = "freed"
    BY <1>3 DEF Freed
  <2> QED
    BY <1>1, <1>3, <2>1, <2>2
<1> QED
  BY <1>1, <1>2, <1>3 DEF Cell

\* Blocks are cells.
LEMMA CellsAre == Cells(Cell)
<1>1. Freed \in Cell /\ Freed.kids \in Seq(Int)
  <2>1. Freed.kids = << >>
    BY DEF Freed
  <2> QED
    BY <2>1 DEF Cell
<1> QED
  BY <1>1 DEF Cell, Cells

\* A sequence of cells is a heap.
LEMMA CellsAreHeap == ASSUME NEW h \in Seq(Cell) PROVE IsHeap(h)
BY CellsAre, CellsMakeHeap

\* A block keeps its shape if it and what it points to stay what they are.
LEMMA ShapeStays ==
  ASSUME NEW h, NEW g, NEW p, Shape(h, p), g[p] = h[p], IsHeap(h), p \in DOMAIN h,
         \A q \in DOMAIN h : q \in Range(h[p].kids) =>
           /\ q \in DOMAIN g /\ g[q].type = h[q].type
           /\ h[q].type = "text" => g[q].size = h[q].size
           /\ h[q].type = "elements" => Len(g[q].kids) = Len(h[q].kids)
  PROVE  Shape(g, p)
<1> DEFINE b == h[p]
<1>1. b.kids \in Seq(Int) /\ DOMAIN b.kids = 1 .. Len(b.kids) /\ Len(b.kids) \in Nat
  BY DEF IsHeap
<1>2. \A k \in DOMAIN b.kids : b.kids[k] \in Range(b.kids)
  BY DEF Range
<1>3. \A k \in DOMAIN b.kids : \A kinds : Leads(h, b.kids[k], kinds) => Leads(g, b.kids[k], kinds)
  BY <1>2 DEF Leads
<1>4. \A kind : StructHeld(h, b, kind) => StructHeld(g, b, kind)
  <2> SUFFICES ASSUME NEW kind, StructHeld(h, b, kind) PROVE StructHeld(g, b, kind)
    OBVIOUS
  <2>1. Len(b.kids) = 1 /\ b.kids[1] \in DOMAIN h /\ h[b.kids[1]].type = kind
    BY DEF StructHeld
  <2>2. b.kids[1] \in Range(b.kids)
    BY <1>1, <1>2, <2>1
  <2> QED
    BY <2>1, <2>2 DEF StructHeld
<1>5. TextHeld(h, b) => TextHeld(g, b)
  <2> SUFFICES ASSUME TextHeld(h, b) PROVE TextHeld(g, b)
    OBVIOUS
  <2>1. Len(b.kids) = 1 /\ b.kids[1] \in DOMAIN h /\ h[b.kids[1]].type = "text"
        /\ h[b.kids[1]].size = RoomForText(b.type, b.size) /\ (IsLong(b.type) => b.size \in Longs)
    BY DEF TextHeld
  <2>2. b.kids[1] \in Range(b.kids)
    BY <1>1, <1>2, <2>1
  <2> QED
    BY <2>1, <2>2 DEF TextHeld
<1>6. StructHeld(h, b, "elements") => Len(g[b.kids[1]].kids) = Len(h[b.kids[1]].kids)
  <2> SUFFICES ASSUME StructHeld(h, b, "elements")
               PROVE  Len(g[b.kids[1]].kids) = Len(h[b.kids[1]].kids)
    OBVIOUS
  <2>1. Len(b.kids) = 1 /\ b.kids[1] \in DOMAIN h /\ h[b.kids[1]].type = "elements"
    BY DEF StructHeld
  <2>2. b.kids[1] \in Range(b.kids)
    BY <1>1, <1>2, <2>1
  <2> QED
    BY <2>1, <2>2
<1>7. b.type = "node" => Len(b.kids) \in {2, 3}
  BY DEF Shape
<1>8. b.type \in {"list_t", "dict_t"} => Len(b.kids) = 1
  BY DEF Shape
<1>9. b.type = "node" => Last(b.kids) = b.kids[Len(b.kids)] /\ Len(b.kids) \in DOMAIN b.kids
                         /\ \A k \in 1 .. Len(b.kids) - 1 : k \in DOMAIN b.kids
  <2> DEFINE n == Len(b.kids)
  <2>1. \A m \in {2, 3} : m \in 1 .. m /\ \A k \in 1 .. m - 1 : k \in 1 .. m
    OBVIOUS
  <2>2. Last(b.kids) = b.kids[n]
    BY DEF Last
  <2> QED
    BY <1>1, <1>7, <2>1, <2>2
<1>10. b.type \in {"list_t", "dict_t"} => 1 \in DOMAIN b.kids
  <2>1. \A n : n = 1 => 1 \in 1 .. n
    OBVIOUS
  <2> QED
    BY <1>1, <1>8, <2>1, Zenon
<1>11. g[p] = b
  OBVIOUS
<1>12. /\ b.type \in {"int", "text"} => b.kids = << >>
       /\ IsText(b.type) => TextHeld(g, b)
       /\ b.type = "tuple" => StructHeld(g, b, "tuple_t")
       /\ b.type = "tuple_t" => StructHeld(g, b, "elements") /\ Len(g[b.kids[1]].kids) = b.size
       /\ b.type = "list" => StructHeld(g, b, "list_t")
       /\ b.type = "dict" => StructHeld(g, b, "dict_t")
  BY <1>4, <1>5, <1>6 DEF Shape
<1>13. b.type = "elements" => \A k \in DOMAIN b.kids : Leads(g, b.kids[k], DataTypes)
  BY <1>3 DEF Shape
<1>14. b.type \in {"list_t", "dict_t"} => Len(b.kids) = 1 /\ Leads(g, b.kids[1], {"node"})
  BY <1>3, <1>8, <1>10 DEF Shape
<1>15. b.type = "node" =>
         /\ Len(b.kids) \in {2, 3} /\ Leads(g, Last(b.kids), {"node"})
         /\ \A k \in 1 .. Len(b.kids) - 1 : Leads(g, b.kids[k], DataTypes)
  BY <1>3, <1>7, <1>9 DEF Shape
<1> HIDE DEF b
<1> QED
  BY <1>11, <1>12, <1>13, <1>14, <1>15 DEF Shape

(***************************************************************************)
(* Destroying terms nobody holds                                           *)
(***************************************************************************)

\* What a place of a block may hold, by the kind of the block.
LEMMA KidIs ==
  ASSUME NEW h \in Seq(Cell), Shaped(h), NEW p \in DOMAIN h, NEW k \in DOMAIN h[p].kids,
         NEW q, q = h[p].kids[k], q # Null
  PROVE  /\ q \in Int /\ q \in Range(h[p].kids)
         /\ h[p].type \notin {"int", "text", "freed"}
         /\ IsText(h[p].type) => k = 1 /\ q \in DOMAIN h /\ h[q].type = "text"
         /\ h[p].type = "tuple" => k = 1 /\ q \in DOMAIN h /\ h[q].type = "tuple_t"
         /\ h[p].type = "tuple_t" => k = 1 /\ q \in DOMAIN h /\ h[q].type = "elements"
         /\ h[p].type = "elements" => q \in DOMAIN h /\ h[q].type \in DataTypes
         /\ h[p].type = "list" => k = 1 /\ q \in DOMAIN h /\ h[q].type = "list_t"
         /\ h[p].type = "dict" => k = 1 /\ q \in DOMAIN h /\ h[q].type = "dict_t"
         /\ h[p].type \in {"list_t", "dict_t"} => k = 1 /\ q \in DOMAIN h /\ h[q].type = "node"
         /\ h[p].type = "node" =>
              \/ k = Len(h[p].kids) /\ q = Last(h[p].kids) /\ q \in DOMAIN h /\ h[q].type = "node"
              \/ k < Len(h[p].kids) /\ q \in DOMAIN h /\ h[q].type \in DataTypes
<1> DEFINE b == h[p]
           n == Len(b.kids)
<1>1. b.kids \in Seq(Int) /\ DOMAIN b.kids = 1 .. n /\ n \in Nat /\ (b.type = "freed" <=> b = Freed)
  BY CellIs
<1>2. Shape(h, p)
  BY DEF Shaped
<1>3. q \in Int /\ q \in Range(b.kids)
  BY <1>1 DEF Range
<1>4. b.kids # << >>
  BY <1>3, RangeOfNothing
<1>5. b.type \notin {"int", "text", "freed"}
  <2>1. CASE b.type = "freed"
    <3>1. b = Freed /\ Freed.kids = << >>
      BY <1>1, <2>1 DEF Freed
    <3> QED
      BY <1>4, <3>1
  <2>2. CASE b.type \in {"int", "text"}
    BY <1>2, <1>4, <2>2 DEF Shape
  <2> QED
    BY <2>1, <2>2
<1>6. n = 1 => k = 1
  BY <1>1
<1>7. \A kind : StructHeld(h, b, kind) => k = 1 /\ q \in DOMAIN h /\ h[q].type = kind
  BY <1>6 DEF StructHeld
<1>8. TextHeld(h, b) => k = 1 /\ q \in DOMAIN h /\ h[q].type = "text"
  BY <1>6 DEF TextHeld
<1>9. \A kinds : Leads(h, q, kinds) => q \in DOMAIN h /\ h[q].type \in kinds
  BY DEF Leads
<1>10. k = n \/ k \in 1 .. n - 1
  BY <1>1
<1>11. k \in 1 .. n - 1 => k < n
  BY <1>1
<1>12. b.type = "node" =>
         \/ k = n /\ q = Last(b.kids) /\ q \in DOMAIN h /\ h[q].type = "node"
         \/ k < n /\ q \in DOMAIN h /\ h[q].type \in DataTypes
  <2> SUFFICES ASSUME b.type = "node"
               PROVE  \/ k = n /\ q = Last(b.kids) /\ q \in DOMAIN h /\ h[q].type = "node"
                      \/ k < n /\ q \in DOMAIN h /\ h[q].type \in DataTypes
    OBVIOUS
  <2>1. Leads(h, Last(b.kids), {"node"}) /\ \A j \in 1 .. n - 1 : Leads(h, b.kids[j], DataTypes)
    BY <1>2 DEF Shape
  <2>2. CASE k = n
    <3>1. q = Last(b.kids)
      BY <2>2 DEF Last
    <3> QED
      BY <1>9, <2>1, <2>2, <3>1
  <2>3. CASE k \in 1 .. n - 1
    BY <1>9, <1>11, <2>1, <2>3
  <2> QED
    BY <1>10, <2>2, <2>3
<1>13. b.type \in {"list_t", "dict_t"} => k = 1 /\ q \in DOMAIN h /\ h[q].type = "node"
  BY <1>2, <1>6, <1>9 DEF Shape
<1>14. b.type = "elements" => q \in DOMAIN h /\ h[q].type \in DataTypes
  BY <1>2, <1>9 DEF Shape
<1>15. /\ IsText(b.type) => TextHeld(h, b)
       /\ b.type = "tuple" => StructHeld(h, b, "tuple_t")
       /\ b.type = "tuple_t" => StructHeld(h, b, "elements")
       /\ b.type = "list" => StructHeld(h, b, "list_t")
       /\ b.type = "dict" => StructHeld(h, b, "dict_t")
  BY <1>2 DEF Shape
<1> HIDE DEF b, n
<1>16. \/ b.type \notin {"node"}
       \/ k = n /\ q = Last(b.kids) /\ q \in DOMAIN h /\ h[q].type = "node"
       \/ k < n /\ q \in DOMAIN h /\ h[q].type \in DataTypes
  BY <1>12
<1> QED
  BY <1>3, <1>5, <1>7, <1>8, <1>12, <1>13, <1>14, <1>15 DEF b, n

\* A node is held by the node before it or, the first, by the struct of the list or the dict.
LEMMA NodeHeld ==
  ASSUME NEW h \in Seq(Cell), Shaped(h), NEW p \in DOMAIN h, NEW q \in Range(h[p].kids),
         q # Null, h[q].type = "node"
  PROVE  \/ h[p].type \in {"list_t", "dict_t"} /\ q = h[p].kids[1]
         \/ h[p].type = "node" /\ q = Last(h[p].kids)
<1>1. PICK k \in DOMAIN h[p].kids : q = h[p].kids[k]
  BY DEF Range
<1>2. h[p].type \in Kinds \ {"int", "text"}
  BY <1>1, KidIs, CellIs
<1>3. \/ IsText(h[p].type)
      \/ h[p].type \in {"tuple", "tuple_t", "elements", "list", "dict", "list_t", "dict_t", "node"}
  BY <1>2 DEF Kinds, IsText, IsShort, IsLong
<1>4. "node" \notin DataTypes
  BY DataAre
<1>5. CASE h[p].type \in {"list_t", "dict_t"}
  BY <1>1, <1>5, KidIs
<1>6. CASE h[p].type = "node"
  BY <1>1, <1>4, <1>6, KidIs
<1>7. CASE IsText(h[p].type)
  BY <1>1, <1>7, KidIs
<1>8. CASE h[p].type \in {"tuple", "tuple_t", "list", "dict"}
  BY <1>1, <1>8, KidIs
<1>9. CASE h[p].type = "elements"
  BY <1>1, <1>4, <1>9, KidIs
<1> QED
  BY <1>3, <1>5, <1>6, <1>7, <1>8, <1>9

\* no starting point is a node
NoNode(h, s) == \A q \in s : q \in DOMAIN h => h[q].type # "node"

\* Who reaches a node of a list reaches the list's struct.
LEMMA HomeReached ==
  ASSUME NEW h, NEW home, HeapOK(h, home), NEW starts \in SUBSET Int, AllFree(h, starts),
         NoNode(h, starts), NEW q \in Reach(h, starts), q \in DOMAIN h, h[q].type = "node"
  PROVE  home[q] \in Reach(h, starts)
<1> DEFINE met == Reach(h, starts)
           s == {p \in met : p \in DOMAIN h /\ h[p].type = "node" => home[p] \in met}
<1>1. h \in Seq(Cell) /\ IsHeap(h) /\ Sound(h) /\ Shaped(h) /\ Homed(h, home)
  BY CellsAreHeap DEF HeapOK
<1>2. starts \subseteq s \union {Null}
  BY <1>1, ReachStored DEF NoNode
<1>3. ASSUME NEW p \in s PROVE Range(Followed(h, p)) \subseteq s \union {Null}
  <2> SUFFICES ASSUME NEW r \in Range(Followed(h, p)), r # Null PROVE r \in s
    OBVIOUS
  <2>1. r \in met
    BY <1>1, <1>3, ReachClosed
  <2>2. p \in DOMAIN h /\ r \in Range(h[p].kids)
    BY <1>1, FollowedIs
  <2>3. ASSUME r \in DOMAIN h, h[r].type = "node" PROVE home[r] \in met
    <3>1. CASE h[p].type \in {"list_t", "dict_t"} /\ r = h[p].kids[1]
      <4>1. home[r] = p
        BY <1>1, <2>2, <3>1 DEF Homed
      <4> QED
        BY <1>3, <4>1
    <3>2. CASE h[p].type = "node" /\ r = Last(h[p].kids)
      <4>1. home[r] = home[p]
        BY <1>1, <2>2, <3>2 DEF Homed
      <4> QED
        BY <1>3, <2>2, <3>2, <4>1
    <3> QED
      BY <1>1, <2>2, <2>3, <3>1, <3>2, NodeHeld
  <2> QED
    BY <2>1, <2>3
<1> HIDE DEF s
<1>4. Reach(h, starts) \subseteq s
  BY <1>1, <1>2, <1>3, ReachLeast
<1> QED
  BY <1>4 DEF s

\* g is h without what is reached from s
DestroyedWell(h, g, home, s) ==
  /\ HeapOK(g, home) /\ DOMAIN g = DOMAIN h /\ Len(g) = Len(h)
  /\ \A q : Free(h, q) /\ q \notin s => Free(g, q)
  /\ \A p \in DOMAIN h : g[p] = IF p \in Reach(h, s) THEN Freed ELSE h[p]

\* Destroying terms that nobody holds leaves the heap in order.
LEMMA DestroyKeeps ==
  ASSUME NEW h, NEW home, HeapOK(h, home), NEW roots \in Seq(Int), AllFree(h, Range(roots)),
         NoNode(h, Range(roots))
  PROVE  DestroyedWell(h, Destroyed(h, roots), home, Range(roots))
<1> DEFINE met == Reach(h, Range(roots))
           g == Destroyed(h, roots)
<1>1. h \in Seq(Cell) /\ IsHeap(h) /\ Sound(h) /\ Shaped(h) /\ Homed(h, home)
      /\ Freed \in Cell /\ Range(roots) \in SUBSET Int
  BY CellsAreHeap, CellsAre DEF HeapOK, Cells, Range
<1>2. /\ g \in Seq(Cell) /\ Len(g) = Len(h) /\ DOMAIN g = DOMAIN h
      /\ \A p \in DOMAIN h : g[p] = IF p \in met THEN Freed ELSE h[p]
  BY <1>1, DestroyedIs
<1>3. Sound(g) /\ \A q : Free(h, q) /\ q \notin Range(roots) => Free(g, q)
  BY <1>1, DestroyLeavesSound
<1>4. \A p \in DOMAIN h : \A q \in Range(h[p].kids) : p \notin met => q \notin met
  BY <1>1, KidsStay
<1>5. Freed.type = "freed" /\ Freed.kids = << >>
  BY DEF Freed
<1> HIDE DEF met, g
<1>6. ASSUME NEW p \in DOMAIN h PROVE Shape(g, p)
  <2>1. CASE p \in met
    <3>1. g[p] = Freed
      BY <1>2, <2>1
    <3> QED
      BY <1>5, <3>1 DEF Shape, IsText, IsShort, IsLong
  <2>2. CASE p \notin met
    <3>1. g[p] = h[p] /\ Shape(h, p)
      BY <1>1, <1>2, <2>2 DEF Shaped
    <3>2. \A q \in DOMAIN h : q \in Range(h[p].kids) => g[q] = h[q]
      BY <1>2, <1>4, <2>2
    <3> QED
      BY <1>1, <1>2, <3>1, <3>2, ShapeStays
  <2> QED
    BY <2>1, <2>2
<1>7. ASSUME NEW l \in DOMAIN h, l \notin met, h[l].type \in {"list_t", "dict_t"}, h[l].tail # Null
      PROVE  h[l].tail \in DOMAIN h /\ g[h[l].tail] = h[h[l].tail]
  <2>1. h[l].tail \in DOMAIN h /\ h[h[l].tail].type = "node" /\ home[h[l].tail] = l
    BY <1>1, <1>7 DEF Homed
  <2>2. h[l].tail \notin met
    BY <1>1, <1>7, <2>1, HomeReached DEF met, NoNode
  <2> QED
    BY <1>2, <2>1, <2>2
<1>8. Homed(g, home)
  <2> SUFFICES ASSUME NEW p \in DOMAIN h, g[p].type \in {"list_t", "dict_t", "node"}
      PROVE  /\ g[p].type \in {"list_t", "dict_t"} =>
                  /\ g[p].kids[1] = Null <=> g[p].tail = Null
                  /\ g[p].kids[1] # Null => home[g[p].kids[1]] = p
                  /\ g[p].tail # Null => /\ g[p].tail \in DOMAIN g /\ g[g[p].tail].type = "node"
                                         /\ home[g[p].tail] = p /\ Last(g[g[p].tail].kids) = Null
             /\ g[p].type = "node" /\ Last(g[p].kids) # Null => home[Last(g[p].kids)] = home[p]
    BY <1>2 DEF Homed
  <2>1. p \notin met
    BY <1>2, <1>5
  <2>2. g[p] = h[p]
    BY <1>2, <2>1
  <2>3. h[p].type \in {"list_t", "dict_t"} /\ h[p].tail # Null => g[h[p].tail] = h[h[p].tail]
    BY <1>7, <2>1
  <2> QED
    BY <1>1, <1>2, <2>2, <2>3 DEF Homed
<1> QED
  BY <1>2, <1>3, <1>6, <1>8 DEF HeapOK, Shaped, met, g, DestroyedWell

(***************************************************************************)
(* Storing a pointer to a term in a node or a tuple                        *)
(***************************************************************************)

\* block p is now c
Changed(h, p, c) == [h EXCEPT ![p] = c]

\* A block becomes another.
LEMMA BlockChanged ==
  ASSUME NEW h \in Seq(Cell), NEW p \in DOMAIN h, NEW c \in Cell, NEW g, g = Changed(h, p, c)
  PROVE  /\ g \in Seq(Cell) /\ DOMAIN g = DOMAIN h /\ Len(g) = Len(h)
         /\ g[p] = c /\ \A q \in DOMAIN h : q # p => g[q] = h[q]
<1>1. DOMAIN h = 1 .. Len(h) /\ Len(h) \in Nat
  OBVIOUS
<1>2. p \in 1 .. Len(h)
  BY <1>1
<1>3. /\ g \in Seq(Cell) /\ Len(g) = Len(h) /\ \A j \in 1 .. Len(h) : g[j] = IF j = p THEN c ELSE h[j]
  BY <1>2, ExceptSeq DEF Changed
<1>4. DOMAIN g = DOMAIN h
  BY DEF Changed
<1>5. g[p] = c /\ \A q \in DOMAIN h : q # p => g[q] = h[q]
  BY <1>1, <1>2, <1>3
<1> QED
  BY <1>3, <1>4, <1>5

\* where a container keeps an element
DataPlace(h, p, k) ==
  /\ p \in DOMAIN h /\ k \in DOMAIN h[p].kids
  /\ h[p].type = "elements" \/ (h[p].type = "node" /\ k < Len(h[p].kids))

\* place k of block p now points to d
Put(h, p, k, d) == [h EXCEPT ![p].kids[k] = d]

\* What one pointer stored changes.
LEMMA Stores ==
  ASSUME NEW h \in Seq(Cell), NEW p \in DOMAIN h, NEW k \in DOMAIN h[p].kids, h[p].type # "freed",
         NEW d \in Int, NEW g, g = Put(h, p, k, d)
  PROVE  /\ g \in Seq(Cell) /\ DOMAIN g = DOMAIN h /\ Len(g) = Len(h)
         /\ \A q \in DOMAIN h : q # p => g[q] = h[q]
         /\ g[p].type = h[p].type /\ g[p].size = h[p].size /\ g[p].tail = h[p].tail
         /\ g[p].kids \in Seq(Int) /\ DOMAIN g[p].kids = DOMAIN h[p].kids
         /\ Len(g[p].kids) = Len(h[p].kids)
         /\ g[p].kids[k] = d /\ \A j \in DOMAIN h[p].kids : j # k => g[p].kids[j] = h[p].kids[j]
<1> DEFINE s == h[p].kids
           t == [s EXCEPT ![k] = d]
           c == [h[p] EXCEPT !.kids = t]
<1>1. /\ h[p] \in [type : Kinds, kids : Seq(Int), size : Nat, tail : Int]
      /\ s \in Seq(Int) /\ DOMAIN s = 1 .. Len(s) /\ Len(s) \in Nat
  BY CellIs
<1> HIDE DEF s
<1>2. k \in 1 .. Len(s)
  BY <1>1 DEF s
<1>3. /\ t \in Seq(Int) /\ Len(t) = Len(s) /\ \A j \in 1 .. Len(s) : t[j] = IF j = k THEN d ELSE s[j]
  BY <1>1, <1>2, ExceptSeq
<1>4. DOMAIN t = DOMAIN s
  OBVIOUS
<1>5. t[k] = d /\ \A j \in DOMAIN s : j # k => t[j] = s[j]
  BY <1>1, <1>2, <1>3
<1>6. g = Changed(h, p, c)
  BY DEF s, Put, Changed
<1> HIDE DEF t
<1>7. c \in Cell /\ c.kids = t /\ c.type = h[p].type /\ c.size = h[p].size /\ c.tail = h[p].tail
  BY <1>1, <1>3 DEF Cell
<1> HIDE DEF c
<1>8. /\ g \in Seq(Cell) /\ DOMAIN g = DOMAIN h /\ Len(g) = Len(h)
      /\ g[p] = c /\ \A q \in DOMAIN h : q # p => g[q] = h[q]
  BY <1>6, <1>7, BlockChanged
<1> QED
  BY <1>3, <1>4, <1>5, <1>7, <1>8 DEF s

\* A term that nothing holds is put in the place of an element: it is held there, and what was
\* there before is held no more.
LEMMA StoreKeeps ==
  ASSUME NEW h, NEW home, HeapOK(h, home), NEW p, NEW k, DataPlace(h, p, k),
         NEW d \in Int, Free(h, d), h[d].type \in DataTypes, NEW g, g = Put(h, p, k, d)
  PROVE  /\ HeapOK(g, home)
         /\ \A r : Free(h, r) /\ r # d => Free(g, r)
         /\ h[p].kids[k] # Null => Free(g, h[p].kids[k])
<1> DEFINE s == h[p].kids
           old == s[k]
<1>1. h \in Seq(Cell) /\ IsHeap(h) /\ Sound(h) /\ Shaped(h) /\ Homed(h, home)
  BY CellsAreHeap DEF HeapOK
<1>2. p \in DOMAIN h /\ k \in DOMAIN h[p].kids /\ h[p].type \in {"elements", "node"}
  BY DEF DataPlace
<1>3. /\ g \in Seq(Cell) /\ DOMAIN g = DOMAIN h /\ Len(g) = Len(h)
      /\ \A q \in DOMAIN h : q # p => g[q] = h[q]
      /\ g[p].type = h[p].type /\ g[p].size = h[p].size /\ g[p].tail = h[p].tail
      /\ g[p].kids \in Seq(Int) /\ DOMAIN g[p].kids = DOMAIN s
      /\ Len(g[p].kids) = Len(s)
      /\ g[p].kids[k] = d /\ \A j \in DOMAIN s : j # k => g[p].kids[j] = s[j]
  <2>1. h[p].type # "freed"
    BY <1>2
  <2> HIDE DEF s
  <2>2. /\ g \in Seq(Cell) /\ DOMAIN g = DOMAIN h /\ Len(g) = Len(h)
        /\ \A q \in DOMAIN h : q # p => g[q] = h[q]
        /\ g[p].type = h[p].type /\ g[p].size = h[p].size /\ g[p].tail = h[p].tail
        /\ g[p].kids \in Seq(Int) /\ DOMAIN g[p].kids = DOMAIN h[p].kids
        /\ Len(g[p].kids) = Len(h[p].kids)
        /\ g[p].kids[k] = d /\ \A j \in DOMAIN h[p].kids : j # k => g[p].kids[j] = h[p].kids[j]
    BY <1>1, <1>2, <2>1, Stores
  <2> QED
    BY <2>2 DEF s
<1>4. s \in Seq(Int) /\ DOMAIN s = 1 .. Len(s) /\ Len(s) \in Nat
  BY <1>1, <1>2, CellIs
<1>5. d \in DOMAIN h /\ d # Null
  BY <1>1 DEF Free, Live, IsHeap, Null
<1>6. \A q \in DOMAIN h : g[q].type = h[q].type /\ g[q].size = h[q].size /\ Len(g[q].kids) = Len(h[q].kids)
  BY <1>3
<1>7. \A q : Live(h, q) <=> Live(g, q)
  BY <1>3, <1>6 DEF Live
<1> HIDE DEF s, old
<1>8. \A q \in DOMAIN h : \A j \in DOMAIN g[q].kids :
        \/ j \in DOMAIN h[q].kids /\ g[q].kids[j] = h[q].kids[j]
        \/ q = p /\ j = k /\ g[q].kids[j] = d
  BY <1>3 DEF s
<1>9. Sound(g) /\ \A r : Free(h, r) /\ r # d => Free(g, r)
  <2>1. \A q \in DOMAIN h : Live(h, q) => Live(g, q)
    BY <1>7
  <2>2. d # Null => Free(h, d)
    OBVIOUS
  <2>3. \A q \in DOMAIN h : \A j \in DOMAIN g[q].kids :
          \/ g[q].kids[j] = Null
          \/ j \in DOMAIN h[q].kids /\ g[q].kids[j] = h[q].kids[j]
          \/ q = p /\ j = k /\ g[q].kids[j] = d
    BY <1>8
  <2>4. IsHeap(h) /\ Sound(h) /\ DOMAIN g = DOMAIN h
    BY <1>1, <1>3
  <2> QED
    BY <2>1, <2>2, <2>3, <2>4, StoreKeepsSound
<1>10. ASSUME old # Null PROVE Free(g, old)
  <2>1. Live(h, old) /\ \A r \in DOMAIN h : \A l \in DOMAIN h[r].kids : h[r].kids[l] = old => r = p /\ l = k
    BY <1>1, <1>2, <1>10 DEF Sound, s, old
  <2>2. old # d
    BY <1>2 DEF Free, Range, s, old
  <2>3. ASSUME NEW r \in DOMAIN g, NEW l \in DOMAIN g[r].kids, g[r].kids[l] = old PROVE FALSE
    BY <1>3, <1>8, <2>1, <2>2, <2>3
  <2> QED
    BY <1>7, <2>1, <2>3 DEF Free, Range
<1>11. ASSUME NEW q \in DOMAIN h PROVE Shape(g, q)
  <2>1. CASE q # p
    <3>1. Shape(h, q) /\ g[q] = h[q]
      BY <1>1, <1>3, <2>1 DEF Shaped
    <3> QED
      BY <1>1, <1>3, <1>6, <3>1, ShapeStays
  <2>2. CASE q = p /\ h[p].type = "elements"
    <3>1. \A j \in DOMAIN s : Leads(h, s[j], DataTypes)
      BY <1>1, <1>2, <2>2 DEF Shaped, Shape, s
    <3>2. ASSUME NEW j \in DOMAIN s PROVE Leads(g, g[p].kids[j], DataTypes)
      <4>1. CASE j = k
        BY <1>3, <1>5, <1>6, <4>1 DEF Leads
      <4>2. CASE j # k
        <5>1. g[p].kids[j] = s[j]
          BY <1>3, <4>2
        <5> QED
          BY <1>3, <1>6, <3>1, <5>1 DEF Leads
      <4> QED
        BY <4>1, <4>2
    <3> QED
      BY <1>3, <2>2, <3>2 DEF Shape, IsText, IsShort, IsLong
  <2>3. CASE q = p /\ h[p].type = "node"
    <3>1. Len(s) \in {2, 3} /\ Leads(h, Last(s), {"node"}) /\ \A j \in 1 .. Len(s) - 1 : Leads(h, s[j], DataTypes)
      BY <1>1, <1>2, <2>3 DEF Shaped, Shape, s
    <3>2. k < Len(s)
      BY <2>3 DEF DataPlace, s
    <3>3. Last(g[p].kids) = Last(s)
      <4>1. \A n \in {2, 3} : n \in 1 .. n
        OBVIOUS
      <4>2. Len(s) \in DOMAIN s /\ Len(s) # k
        BY <1>4, <3>1, <3>2, <4>1
      <4> QED
        BY <1>3, <4>2 DEF Last
    <3>4. \A j \in 1 .. Len(s) - 1 : j \in DOMAIN s
      BY <1>4
    <3>5. \A j \in 1 .. Len(s) - 1 : Leads(g, g[p].kids[j], DataTypes)
      <4>1. ASSUME NEW j \in 1 .. Len(s) - 1 PROVE Leads(g, g[p].kids[j], DataTypes)
        <5>1. j \in DOMAIN s /\ Leads(h, s[j], DataTypes)
          BY <3>1, <3>4
        <5>2. CASE j = k
          BY <1>3, <1>5, <1>6, <5>2 DEF Leads
        <5>3. CASE j # k
          <6>1. g[p].kids[j] = s[j]
            BY <1>3, <5>1, <5>3
          <6> QED
            BY <1>3, <1>6, <5>1, <6>1 DEF Leads
        <5> QED
          BY <5>2, <5>3
      <4> QED
        BY <4>1
    <3>6. Leads(g, Last(g[p].kids), {"node"})
      BY <1>3, <1>6, <3>1, <3>3 DEF Leads
    <3> QED
      BY <1>3, <2>3, <3>1, <3>5, <3>6 DEF Shape, IsText, IsShort, IsLong
  <2> QED
    BY <1>2, <2>1, <2>2, <2>3
<1>12. ASSUME NEW q \in DOMAIN h, h[q].type = "node" PROVE Last(g[q].kids) = Last(h[q].kids)
  <2>1. CASE q = p
    <3>1. Len(s) \in {2, 3}
      BY <1>1, <1>2, <1>12, <2>1 DEF Shaped, Shape, s
    <3>2. \A n \in {2, 3} : n \in 1 .. n
      OBVIOUS
    <3>3. Len(s) \in DOMAIN s /\ Len(s) # k
      <4>1. k < Len(s)
        BY <1>12, <2>1 DEF DataPlace, s
      <4> QED
        BY <1>4, <3>1, <3>2, <4>1
    <3> QED
      BY <1>3, <2>1, <3>3 DEF Last, s
  <2>2. CASE q # p
    BY <1>3, <2>2
  <2> QED
    BY <2>1, <2>2
<1>13. Homed(g, home)
  <2> SUFFICES ASSUME NEW q \in DOMAIN h, g[q].type \in {"list_t", "dict_t", "node"}
      PROVE  /\ g[q].type \in {"list_t", "dict_t"} =>
                  /\ g[q].kids[1] = Null <=> g[q].tail = Null
                  /\ g[q].kids[1] # Null => home[g[q].kids[1]] = q
                  /\ g[q].tail # Null => /\ g[q].tail \in DOMAIN g /\ g[g[q].tail].type = "node"
                                         /\ home[g[q].tail] = q /\ Last(g[g[q].tail].kids) = Null
             /\ g[q].type = "node" /\ Last(g[q].kids) # Null => home[Last(g[q].kids)] = home[q]
    BY <1>3 DEF Homed
  <2>1. CASE h[q].type \in {"list_t", "dict_t"}
    <3>1. q # p /\ g[q] = h[q]
      BY <1>2, <1>3, <2>1
    <3>2. h[q].type \in {"list_t", "dict_t"} =>
                  /\ h[q].kids[1] = Null <=> h[q].tail = Null
                  /\ h[q].kids[1] # Null => home[h[q].kids[1]] = q
                  /\ h[q].tail # Null => /\ h[q].tail \in DOMAIN h /\ h[h[q].tail].type = "node"
                                         /\ home[h[q].tail] = q /\ Last(h[h[q].tail].kids) = Null
      BY <1>1 DEF Homed
    <3>3. h[q].tail # Null => h[q].tail \in DOMAIN g /\ g[h[q].tail].type = "node"
                              /\ Last(g[h[q].tail].kids) = Null
      BY <1>3, <1>6, <1>12, <2>1, <3>2
    <3> QED
      BY <2>1, <3>1, <3>2, <3>3
  <2>2. CASE h[q].type = "node"
    <3>1. Last(h[q].kids) # Null => home[Last(h[q].kids)] = home[q]
      BY <1>1, <2>2 DEF Homed
    <3>2. Last(g[q].kids) = Last(h[q].kids) /\ g[q].type = "node"
      BY <1>6, <1>12, <2>2
    <3> QED
      BY <3>1, <3>2
  <2> QED
    BY <1>6, <2>1, <2>2
<1>14. HeapOK(g, home)
  BY <1>3, <1>9, <1>11, <1>13 DEF HeapOK, Shaped
<1> QED
  BY <1>9, <1>10, <1>14 DEF old, s

(***************************************************************************)
(* Destroying and replacing terms, and what is lost                        *)
(***************************************************************************)

\* g is h without the term d, and a still leads to the rest
TermDestroyed(h, g, home, a, d) ==
  /\ HeapOK(g, home) /\ DOMAIN g = DOMAIN h /\ Len(g) = Len(h)
  /\ \A q : Free(h, q) /\ q # d => Free(g, q) /\ g[q] = h[q]
  /\ NoLoss(g, a \union Abandoned(h, {d}))
  /\ \A q \in Abandoned(h, {d}) : Free(g, q) /\ g[q].type = "text"

\* Destroying a term frees what it leads to, and leaves behind the sources of its regexes, which
\* nothing holds any more.
LEMMA DestroysTerm ==
  ASSUME NEW h, NEW home, HeapOK(h, home), NEW d \in Int,
         d # Null => Free(h, d) /\ h[d].type \in DataTypes,
         NEW a \in SUBSET Int, NoLoss(h, a \union {d}), NEW roots \in Seq(Int), Range(roots) = {d}
  PROVE  TermDestroyed(h, Destroyed(h, roots), home, a, d)
<1> DEFINE met == Reach(h, {d})
           g == Destroyed(h, roots)
<1> HIDE DEF g
<1>1. h \in Seq(Cell) /\ IsHeap(h) /\ Sound(h) /\ Shaped(h)
  BY CellsAreHeap DEF HeapOK
<1>2. {d} \in SUBSET Int /\ Range(roots) = {d}
  OBVIOUS
<1>3. AllFree(h, Range(roots))
  BY <1>2 DEF AllFree
<1>4. NoNode(h, Range(roots))
  BY <1>1, <1>2, DataAre DEF IsHeap, Null, NoNode
<1>5. /\ HeapOK(g, home) /\ DOMAIN g = DOMAIN h /\ Len(g) = Len(h)
      /\ \A q : Free(h, q) /\ q \notin Range(roots) => Free(g, q)
      /\ \A p \in DOMAIN h : g[p] = IF p \in Reach(h, Range(roots)) THEN Freed ELSE h[p]
  <2>1. HeapOK(h, home) /\ NoNode(h, Range(roots)) /\ AllFree(h, Range(roots))
    BY <1>3, <1>4
  <2>2. DestroyedWell(h, g, home, Range(roots))
    BY <2>1, DestroyKeeps DEF g
  <2> QED
    BY <2>2 DEF DestroyedWell
<1>6. \A q \in met : q = d \/ \E p \in met : q \in Range(Followed(h, p))
  BY <1>1, <1>2, ReachStored
<1>7. ASSUME NEW q, Free(h, q), q # d PROVE Free(g, q) /\ g[q] = h[q]
  <2>1. Free(g, q)
    BY <1>2, <1>5, <1>7
  <2>2. q \in DOMAIN h /\ g[q] # Freed
    <3>1. Live(h, q) /\ Live(g, q) /\ Freed.type = "freed"
      BY <1>7, <2>1 DEF Free, Freed
    <3> QED
      BY <3>1 DEF Live
  <2> QED
    BY <1>5, <2>1, <2>2
<1>8. NoLoss(g, a \union Abandoned(h, {d}))
  <2>1. NoLoss(h, a \union Range(roots))
    BY <1>2
  <2>2. NoLoss(Destroyed(h, roots), a \union Abandoned(h, Range(roots)))
    BY <1>1, <1>2, <2>1, CellsAre, NoLossDestroyed
  <2> QED
    BY <1>2, <2>2 DEF g
<1>9. ASSUME NEW q \in Abandoned(h, {d}) PROVE Free(g, q) /\ g[q].type = "text"
  <2>1. PICK r \in met : Live(h, r) /\ h[r].type = "regex" /\ q \in Range(h[r].kids)
    BY <1>1, AbandonedIs
  <2>2. r \in DOMAIN h
    BY <2>1 DEF Live
  <2>3. PICK k \in DOMAIN h[r].kids : h[r].kids[k] = q
    BY <2>1 DEF Range
  <2>4. TextHeld(h, h[r])
    BY <1>1, <2>1, <2>2 DEF Shaped, Shape, IsText, IsLong
  <2>5. q \in DOMAIN h /\ h[q].type = "text" /\ q # Null
    <3>1. DOMAIN h[r].kids = 1 .. Len(h[r].kids)
      BY <1>1, <2>2, CellIs
    <3>2. k = 1
      BY <2>3, <2>4, <3>1 DEF TextHeld
    <3> QED
      BY <1>1, <2>3, <2>4, <3>2 DEF TextHeld, IsHeap, Null
  <2>6. /\ Live(h, q)
        /\ \A m \in DOMAIN h : \A l \in DOMAIN h[m].kids : h[m].kids[l] = q => m = r
    BY <1>1, <2>2, <2>3, <2>5 DEF Sound
  <2>7. q # d
    BY <2>5, DataAre
  <2>8. q \notin met
    <3>1. ASSUME NEW m \in met, q \in Range(Followed(h, m)) PROVE FALSE
      <4>1. m \in DOMAIN h /\ q \in Range(h[m].kids)
        BY <1>1, <3>1, FollowedIs
      <4>2. m = r
        BY <2>6, <4>1 DEF Range
      <4>3. Followed(h, m) = << >>
        BY <2>1, <4>2 DEF Followed
      <4> QED
        BY <3>1, <4>3, RangeOfNothing
    <3> QED
      BY <1>6, <2>7, <3>1
  <2>9. g[q] = h[q] /\ g[r] = Freed
    BY <1>2, <1>5, <2>1, <2>2, <2>5, <2>8
  <2>10. ASSUME NEW m \in DOMAIN g, q \in Range(g[m].kids) PROVE FALSE
    <3>1. CASE g[m] = Freed
      <4>1. Freed.kids = << >>
        BY DEF Freed
      <4> QED
        BY <2>10, <3>1, <4>1, RangeOfNothing
    <3>2. CASE g[m] = h[m]
      <4>1. m = r
        BY <1>5, <2>6, <2>10, <3>2 DEF Range
      <4> QED
        BY <2>9, <3>1, <4>1
    <3> QED
      BY <1>5, <2>10, <3>1, <3>2
  <2>11. Live(g, q)
    BY <1>5, <2>5, <2>9 DEF Live
  <2> QED
    BY <2>5, <2>9, <2>10, <2>11 DEF Free
<1> QED
  BY <1>5, <1>7, <1>8, <1>9 DEF TermDestroyed, g

\* What a place that is not reached holds does not matter to what is.
LEMMA ReachElsewhere ==
  ASSUME NEW h, IsHeap(h), NEW g, IsHeap(g), DOMAIN g = DOMAIN h, NEW p,
         \A q \in DOMAIN h : q # p => g[q] = h[q],
         NEW starts \in SUBSET Int, p \notin Reach(h, starts)
  PROVE  Reach(g, starts) = Reach(h, starts)
<1> DEFINE s == Reach(h, starts)
           t == Reach(g, starts)
<1>1. \A q : q # p => Followed(g, q) = Followed(h, q)
  BY DEF Followed, Live
<1>2. starts \subseteq s \union {Null} /\ \A q \in s : Range(Followed(h, q)) \subseteq s \union {Null}
  BY ReachStored, ReachClosed
<1>3. starts \subseteq t \union {Null} /\ \A q \in t : Range(Followed(g, q)) \subseteq t \union {Null}
  BY ReachStored, ReachClosed
<1>4. p \notin s
  OBVIOUS
<1> HIDE DEF s, t
<1>5. \A q \in s : Range(Followed(g, q)) \subseteq s \union {Null}
  BY <1>1, <1>2, <1>4
<1>6. t \subseteq s
  BY <1>2, <1>5, ReachLeast DEF t
<1>7. \A q \in t : Range(Followed(h, q)) \subseteq t \union {Null}
  BY <1>1, <1>3, <1>4, <1>6
<1>8. s \subseteq t
  BY <1>3, <1>7, ReachLeast DEF s
<1> QED
  BY <1>6, <1>8 DEF s, t

\* Destroying the element in a place and putting another there is putting it there first.
LEMMA ReplacedIs ==
  ASSUME NEW h \in Seq(Cell), NEW p \in DOMAIN h, NEW k \in DOMAIN h[p].kids, NEW d,
         p \notin Reach(h, {h[p].kids[k]}),
         Reach(Put(h, p, k, d), {h[p].kids[k]}) = Reach(h, {h[p].kids[k]})
  PROVE  Replaced(h, p, k, d) = Destroyed(Put(h, p, k, d), <<h[p].kids[k]>>)
<1> DEFINE old == h[p].kids[k]
           c == [h[p] EXCEPT !.kids = [@ EXCEPT ![k] = d]]
           met == Reach(h, {old})
           hs == Put(h, p, k, d)
           hd == Destroyed(h, <<old>>)
<1>1. Range(<<old>>) = {old}
  <2>1. DOMAIN <<old>> = {1} /\ <<old>>[1] = old
    OBVIOUS
  <2> QED
    BY <2>1 DEF Range
<1>2. hs = [q \in DOMAIN h |-> IF q = p THEN c ELSE h[q]]
  <2>1. h = [q \in DOMAIN h |-> h[q]]
    OBVIOUS
  <2> QED
    BY <2>1 DEF Put
<1>3. hd = [q \in DOMAIN h |-> IF q \in met THEN Freed ELSE h[q]]
  BY <1>1 DEF Destroyed
<1>4. hd[p] = h[p] /\ DOMAIN hd = DOMAIN h
  BY <1>3
<1>5. Replaced(h, p, k, d) = [q \in DOMAIN h |-> IF q = p THEN c ELSE hd[q]]
  <2>1. Replaced(h, p, k, d) = [hd EXCEPT ![p] = [hd[p] EXCEPT !.kids = [hd[p].kids EXCEPT ![k] = d]]]
    BY DEF Replaced
  <2>2. Replaced(h, p, k, d) = [hd EXCEPT ![p] = c]
    BY <1>4, <2>1
  <2> HIDE DEF hd, c
  <2>3. hd = [q \in DOMAIN h |-> hd[q]]
    BY <1>3
  <2> QED
    BY <1>4, <2>2, <2>3
<1>6. Destroyed(hs, <<old>>) = [q \in DOMAIN hs |-> IF q \in met THEN Freed ELSE hs[q]]
  BY <1>1 DEF Destroyed
<1>7. DOMAIN hs = DOMAIN h /\ \A q \in DOMAIN h : hs[q] = IF q = p THEN c ELSE h[q]
  BY <1>2
<1>8. p \notin met
  OBVIOUS
<1> HIDE DEF hs, hd, met, c, old
<1>9. \A q \in DOMAIN h : (IF q = p THEN c ELSE hd[q]) = IF q \in met THEN Freed ELSE hs[q]
  BY <1>3, <1>7, <1>8
<1> QED
  BY <1>5, <1>6, <1>7, <1>9 DEF hs, old

\* what is left of heap h when an element is destroyed whose sources of regexes are `sources`,
\* and d is given away
ReplacedWell(h, g, home, a, d, sources) ==
  /\ HeapOK(g, home) /\ Len(g) = Len(h)
  /\ \A q : Free(h, q) /\ q # d => Free(g, q) /\ g[q].type = h[q].type
  /\ NoLoss(g, a \union sources)
  /\ \A q \in sources : Free(g, q) /\ g[q].type = "text"

\* A term that does not lead to the place of an element takes it, and the element is destroyed.
LEMMA Replaces ==
  ASSUME NEW h, NEW home, HeapOK(h, home), NEW p, NEW k, DataPlace(h, p, k),
         NEW d \in Int, Free(h, d), h[d].type \in DataTypes,
         NEW a \in SUBSET Int, AllFree(h, a), p \in Reach(h, a \union {d}), p \notin Reach(h, {d}),
         NoLoss(h, a \union {d})
  PROVE  ReplacedWell(h, Replaced(h, p, k, d), home, a, d, Abandoned(h, {h[p].kids[k]}))
<1> DEFINE old == h[p].kids[k]
           hs == Put(h, p, k, d)
           g == Replaced(h, p, k, d)
           met == Reach(h, {old})
           b == a \union {old}
<1>1. h \in Seq(Cell) /\ IsHeap(h) /\ Sound(h) /\ Shaped(h)
  BY CellsAreHeap DEF HeapOK
<1>2. p \in DOMAIN h /\ k \in DOMAIN h[p].kids /\ h[p].type \in {"elements", "node"}
  BY DEF DataPlace
<1>3. old \in Int /\ old \in Range(h[p].kids) /\ {old} \in SUBSET Int /\ b \in SUBSET Int
      /\ a \union {d} \in SUBSET Int
  <2>1. h[p].kids \in Seq(Int)
    BY <1>1, <1>2, CellIs
  <2>2. old \in Int
    BY <1>2, <2>1
  <2>3. old \in Range(h[p].kids)
    BY <1>2 DEF Range
  <2> QED
    BY <2>2, <2>3
<1>4. old # Null => old \in DOMAIN h /\ h[old].type \in DataTypes /\ old # d
  <2> SUFFICES ASSUME old # Null PROVE old \in DOMAIN h /\ h[old].type \in DataTypes /\ old # d
    OBVIOUS
  <2>1. old # d
    BY <1>2, <1>3 DEF Free
  <2>2. CASE h[p].type = "elements"
    BY <1>1, <1>2, <2>1, <2>2, KidIs
  <2>3. CASE h[p].type = "node"
    <3>1. k < Len(h[p].kids) /\ Len(h[p].kids) \in Nat /\ k \in 1 .. Len(h[p].kids)
      BY <1>1, <1>2, <2>3, CellIs DEF DataPlace
    <3>2. k # Len(h[p].kids)
      BY <3>1
    <3> QED
      BY <1>1, <1>2, <2>1, <2>3, <3>2, KidIs
  <2> QED
    BY <1>2, <2>2, <2>3
<1>5. AllFree(h, a \union {d})
  BY DEF AllFree
<1>6. p \notin met
  BY <1>1, <1>2, <1>3, <1>5, NoCycle
<1>7. /\ hs \in Seq(Cell) /\ DOMAIN hs = DOMAIN h /\ Len(hs) = Len(h)
      /\ \A q \in DOMAIN h : q # p => hs[q] = h[q]
      /\ hs[p].type = h[p].type /\ DOMAIN hs[p].kids = DOMAIN h[p].kids
      /\ hs[p].kids[k] = d /\ \A j \in DOMAIN h[p].kids : j # k => hs[p].kids[j] = h[p].kids[j]
  <2>1. h[p].type # "freed"
    BY <1>2
  <2> HIDE DEF hs
  <2>2. PICK x : x = Put(h, p, k, d)
    OBVIOUS
  <2>3. /\ x \in Seq(Cell) /\ DOMAIN x = DOMAIN h /\ Len(x) = Len(h)
        /\ \A q \in DOMAIN h : q # p => x[q] = h[q]
        /\ x[p].type = h[p].type /\ DOMAIN x[p].kids = DOMAIN h[p].kids
        /\ x[p].kids[k] = d /\ \A j \in DOMAIN h[p].kids : j # k => x[p].kids[j] = h[p].kids[j]
    BY <1>1, <1>2, <2>1, <2>2, Stores
  <2> QED
    BY <2>2, <2>3 DEF hs
<1>8. /\ HeapOK(hs, home)
      /\ \A r : Free(h, r) /\ r # d => Free(hs, r)
      /\ old # Null => Free(hs, old)
  <2>1. PICK x : x = Put(h, p, k, d)
    OBVIOUS
  <2>2. /\ HeapOK(x, home)
        /\ \A r : Free(h, r) /\ r # d => Free(x, r)
        /\ h[p].kids[k] # Null => Free(x, h[p].kids[k])
    BY <2>1, StoreKeeps
  <2> QED
    BY <2>1, <2>2
<1> HIDE DEF hs, old
<1>9. IsHeap(hs)
  BY <1>7, CellsAreHeap
<1>10. Reach(hs, {old}) = met
  BY <1>1, <1>3, <1>6, <1>7, <1>9, ReachElsewhere
<1>11. g = Destroyed(hs, <<old>>)
  BY <1>1, <1>2, <1>6, <1>10, ReplacedIs DEF hs, old
<1> HIDE DEF met, g, b
<1>12. \A q \in DOMAIN h : hs[q].type = h[q].type
  BY <1>7
<1>13. \A q \in DOMAIN h : Range(h[q].kids) \subseteq Range(hs[q].kids) \union {old}
  <2> SUFFICES ASSUME NEW q \in DOMAIN h, NEW r \in Range(h[q].kids)
               PROVE  r \in Range(hs[q].kids) \/ r = old
    OBVIOUS
  <2>1. CASE q # p
    BY <1>7, <2>1
  <2>2. CASE q = p
    <3>1. PICK j \in DOMAIN h[p].kids : r = h[p].kids[j]
      BY <2>2 DEF Range
    <3>2. CASE j = k
      BY <3>1, <3>2 DEF old
    <3>3. CASE j # k
      BY <1>7, <2>2, <3>1, <3>3 DEF Range
    <3> QED
      BY <3>2, <3>3
  <2> QED
    BY <2>1, <2>2
<1>14. b \ {Null} \subseteq Reach(hs, b)
       /\ \A q \in Reach(hs, b) : Range(Followed(hs, q)) \subseteq Reach(hs, b) \union {Null}
  BY <1>3, <1>9, ReachStored, ReachClosed DEF b
<1>15. \A q \in DOMAIN h :
         Range(h[q].kids) \subseteq Range(hs[q].kids) \union Reach(hs, b) \union {Null}
  <2>1. old \in Reach(hs, b) \union {Null}
    BY <1>14 DEF b
  <2> QED
    BY <1>13, <2>1
<1>16. p \in Reach(h, a)
  <2>1. p \in Reach(h, a) \union Reach(h, {d})
    BY <1>1, ReachTwo
  <2> QED
    BY <2>1
<1>17. Reach(h, a) \subseteq Reach(hs, b)
  <2>1. \A q \in DOMAIN h : Live(h, q) /\ h[q].type # "regex" =>
          /\ Live(hs, q) /\ hs[q].type # "regex"
          /\ Range(h[q].kids) \subseteq Range(hs[q].kids) \union Reach(hs, b) \union {Null}
    BY <1>7, <1>12, <1>15 DEF Live
  <2>2. a \subseteq Reach(hs, b) \union {Null}
    BY <1>14 DEF b
  <2> QED
    BY <1>1, <1>3, <1>9, <2>1, <2>2, ReachMoved
<1>18. d \in Reach(hs, b) \union {Null}
  <2>1. p \in Reach(hs, b)
    BY <1>16, <1>17
  <2>2. Followed(hs, p) = hs[p].kids
    BY <1>2, <1>7 DEF Followed, Live
  <2>3. d \in Range(hs[p].kids)
    BY <1>2, <1>7 DEF Range
  <2> QED
    BY <1>14, <2>1, <2>2, <2>3
<1>19. NoLoss(hs, b)
  <2>1. \A q \in DOMAIN h :
          /\ q \in DOMAIN hs /\ hs[q].type = h[q].type
          /\ h[q].type = "regex" => hs[q] = h[q]
          /\ Range(h[q].kids) \subseteq Range(hs[q].kids) \union Reach(hs, b) \union {Null}
    BY <1>2, <1>7, <1>12, <1>15
  <2>2. a \union {d} \subseteq Reach(hs, b) \union {Null}
    BY <1>14, <1>18 DEF b
  <2>3. Covered(h, a \union {d}) \subseteq Covered(hs, b)
    BY <1>1, <1>3, <1>9, <2>1, <2>2, CoverMoved
  <2>4. \A q \in DOMAIN hs : Live(hs, q) => q \in DOMAIN h /\ Live(h, q)
    BY <1>7, <1>12 DEF Live
  <2> QED
    BY <2>3, <2>4 DEF NoLoss
<1>20. Abandoned(hs, {old}) = Abandoned(h, {old})
  <2>1. \A q \in met : q # p
    BY <1>6
  <2>2. \A q \in met : Live(hs, q) <=> Live(h, q)
    BY <1>7, <2>1 DEF Live
  <2>3. \A q \in met : Live(h, q) => hs[q] = h[q]
    BY <1>7, <2>1 DEF Live
  <2>4. Reach(h, {old}) = met
    BY DEF met
  <2>5. \A q : q \in Abandoned(hs, {old}) <=>
          \E r \in met : Live(hs, r) /\ hs[r].type = "regex" /\ q \in Range(hs[r].kids)
    BY <1>9, <1>10, AbandonedIs
  <2>6. \A q : q \in Abandoned(h, {old}) <=>
          \E r \in met : Live(h, r) /\ h[r].type = "regex" /\ q \in Range(h[r].kids)
    BY <1>1, <2>4, AbandonedIs
  <2>7. \A q : q \in Abandoned(hs, {old}) <=> q \in Abandoned(h, {old})
    BY <2>2, <2>3, <2>5, <2>6
  <2> QED
    BY <2>7
<1>21. /\ HeapOK(g, home) /\ DOMAIN g = DOMAIN hs /\ Len(g) = Len(hs)
       /\ \A q : Free(hs, q) /\ q # old => Free(g, q) /\ g[q] = hs[q]
       /\ NoLoss(g, a \union Abandoned(hs, {old}))
       /\ \A q \in Abandoned(hs, {old}) : Free(g, q) /\ g[q].type = "text"
  <2>1. old # Null => Free(hs, old) /\ hs[old].type \in DataTypes
    BY <1>4, <1>8, <1>12
  <2>2. NoLoss(hs, a \union {old})
    BY <1>19 DEF b
  <2>3. PICK roots : roots = <<old>>
    OBVIOUS
  <2>4. roots \in Seq(Int) /\ Range(roots) = {old}
    <3>1. DOMAIN <<old>> = {1} /\ <<old>>[1] = old /\ <<old>> \in Seq(Int)
      BY <1>3
    <3> QED
      BY <2>3, <3>1 DEF Range
  <2>5. old \in Int /\ HeapOK(hs, home)
    BY <1>3, <1>8
  <2>6. TermDestroyed(hs, Destroyed(hs, roots), home, a, old)
    BY <2>1, <2>2, <2>4, <2>5, DestroysTerm
  <2> QED
    BY <1>11, <2>3, <2>6 DEF TermDestroyed
<1>22. ASSUME NEW q, Free(h, q), q # d PROVE Free(g, q) /\ g[q].type = h[q].type
  <2>1. Free(hs, q) /\ q # old
    BY <1>2, <1>3, <1>8, <1>22 DEF Free
  <2>2. Free(g, q) /\ g[q] = hs[q]
    BY <1>21, <2>1
  <2>3. q \in DOMAIN h
    BY <1>22 DEF Free, Live
  <2> QED
    BY <1>12, <2>2, <2>3
<1> QED
  BY <1>7, <1>20, <1>21, <1>22 DEF ReplacedWell, g, old

(***************************************************************************)
(* A new block                                                             *)
(***************************************************************************)

\* a new list is empty, and a new node leads to no other
NewlyMade(cell) ==
  /\ cell.type \in {"list_t", "dict_t"} => cell.kids[1] = Null /\ cell.tail = Null
  /\ cell.type = "node" => Last(cell.kids) = Null

\* a block that can be added to the heap: what it holds is free, and of the right kind
CellWell(h, cell) ==
  /\ cell \in Cell /\ cell.type # "freed" /\ NewlyMade(cell)
  /\ Distinct(cell.kids) /\ AllFree(h, Range(cell.kids))
  /\ Shape(Append(h, cell), Len(h) + 1)

\* g is h with one block more
AppendedWell(h, g, home, cell) ==
  /\ HeapOK(g, home) /\ Len(g) = Len(h) + 1 /\ DOMAIN g = 1 .. Len(h) + 1
  /\ g[Len(h) + 1] = cell /\ Free(g, Len(h) + 1)
  /\ \A q \in DOMAIN h : q \in DOMAIN g /\ g[q] = h[q]
  /\ \A q : Free(h, q) /\ q \notin Range(cell.kids) => Free(g, q)

\* A new block is in order if what it holds nothing held before.
LEMMA AppendKeeps ==
  ASSUME NEW h, NEW home, HeapOK(h, home), NEW cell \in Cell, cell.type # "freed", NewlyMade(cell),
         Distinct(cell.kids), AllFree(h, Range(cell.kids)), Shape(Append(h, cell), Len(h) + 1),
         NEW home2, \A q \in DOMAIN h : home2[q] = home[q]
  PROVE  AppendedWell(h, Append(h, cell), home2, cell)
<1> DEFINE g == Append(h, cell)
           n == Len(h) + 1
<1>1. h \in Seq(Cell) /\ IsHeap(h) /\ Sound(h) /\ Shaped(h) /\ Homed(h, home)
  BY CellsAreHeap DEF HeapOK
<1>2. cell.kids \in Seq(Int)
  BY CellsAre DEF Cells
<1>3. /\ g \in Seq(Cell) /\ Len(g) = n /\ IsHeap(g)
      /\ g[n] = cell /\ \A p \in DOMAIN h : p \in DOMAIN g /\ g[p] = h[p]
      /\ Sound(g)
      /\ Free(g, n)
      /\ \A q : Free(h, q) /\ q \notin Range(cell.kids) => Free(g, q)
  BY <1>1, <1>2, AppendKeepsSound
<1>4. DOMAIN h = 1 .. Len(h) /\ Len(h) \in Nat /\ DOMAIN g = 1 .. n
  BY <1>1, <1>3 DEF IsHeap
<1>5. Shape(g, n)
  OBVIOUS
<1> HIDE DEF g
<1>6. \A p \in DOMAIN g : p \in DOMAIN h \/ p = n
  BY <1>4
<1> HIDE DEF n
<1>7. ASSUME NEW p \in DOMAIN h PROVE Shape(g, p)
  <2>1. Shape(h, p) /\ g[p] = h[p]
    BY <1>1, <1>3 DEF Shaped
  <2>2. \A q \in DOMAIN h : q \in DOMAIN g /\ g[q] = h[q]
    BY <1>3
  <2> QED
    BY <1>1, <2>1, <2>2, ShapeStays
<1>8. \A p \in DOMAIN h : Shape(h, p)
  BY <1>1 DEF Shaped
<1>9. Homed(g, home2)
  <2> SUFFICES ASSUME NEW q \in DOMAIN g
      PROVE  /\ g[q].type \in {"list_t", "dict_t"} =>
                  /\ g[q].kids[1] = Null <=> g[q].tail = Null
                  /\ g[q].kids[1] # Null => home2[g[q].kids[1]] = q
                  /\ g[q].tail # Null => /\ g[q].tail \in DOMAIN g /\ g[g[q].tail].type = "node"
                                         /\ home2[g[q].tail] = q /\ Last(g[g[q].tail].kids) = Null
             /\ g[q].type = "node" /\ Last(g[q].kids) # Null => home2[Last(g[q].kids)] = home2[q]
    BY DEF Homed
  <2>1. CASE q = n
    BY <1>3, <2>1 DEF NewlyMade
  <2>2. CASE q \in DOMAIN h
    <3>1. g[q] = h[q] /\ home2[q] = home[q]
      BY <1>3, <2>2
    <3>2. h[q].type \in {"list_t", "dict_t"} =>
                  /\ h[q].kids[1] = Null <=> h[q].tail = Null
                  /\ h[q].kids[1] # Null => home[h[q].kids[1]] = q
                  /\ h[q].tail # Null => /\ h[q].tail \in DOMAIN h /\ h[h[q].tail].type = "node"
                                         /\ home[h[q].tail] = q /\ Last(h[h[q].tail].kids) = Null
      BY <1>1, <2>2 DEF Homed
    <3>3. h[q].type = "node" /\ Last(h[q].kids) # Null => home[Last(h[q].kids)] = home[q]
      BY <1>1, <2>2 DEF Homed
    <3>4. h[q].type \in {"list_t", "dict_t"} /\ h[q].kids[1] # Null => h[q].kids[1] \in DOMAIN h
      BY <1>8, <2>2 DEF Shape, Leads
    <3>5. h[q].type = "node" /\ Last(h[q].kids) # Null => Last(h[q].kids) \in DOMAIN h
      BY <1>8, <2>2 DEF Shape, Leads
    <3>6. \A r \in DOMAIN h : r \in DOMAIN g /\ g[r] = h[r] /\ home2[r] = home[r]
      BY <1>3
    <3> QED
      BY <3>1, <3>2, <3>3, <3>4, <3>5, <3>6
  <2> QED
    BY <1>6, <2>1, <2>2
<1>10. HeapOK(g, home2)
  BY <1>3, <1>5, <1>6, <1>7, <1>9 DEF HeapOK, Shaped
<1> QED
  BY <1>3, <1>4, <1>10 DEF AppendedWell, g, n

(***************************************************************************)
(* A new node is linked behind the last                                    *)
(***************************************************************************)

\* the new node n is linked in the last place of o, and is the tail of l
Links(h, g, l, n, o) ==
  LET j == Len(h[o].kids) IN
  /\ g \in Seq(Cell) /\ DOMAIN g = DOMAIN h /\ Len(g) = Len(h)
  /\ \A q \in DOMAIN h : q # o /\ q # l => g[q] = h[q]
  /\ \A q \in DOMAIN h :
       /\ g[q].type = h[q].type /\ g[q].size = h[q].size
       /\ DOMAIN g[q].kids = DOMAIN h[q].kids /\ Len(g[q].kids) = Len(h[q].kids)
       /\ \A k \in DOMAIN h[q].kids :
            g[q].kids[k] = IF q = o /\ k = j THEN n ELSE h[q].kids[k]
  /\ g[l].tail = n
  /\ o \in DOMAIN h /\ j \in DOMAIN h[o].kids /\ h[o].kids[j] = Null

\* where the next node of the list or dict l is linked
LinkPlace(h, l) == IF h[l].tail # Null THEN h[l].tail ELSE l

\* A node that nothing holds becomes the last of a list.
LEMMA LinkKeeps ==
  ASSUME NEW h, NEW home, HeapOK(h, home), NEW l \in DOMAIN h, h[l].type \in {"list_t", "dict_t"},
         NEW n, Free(h, n), h[n].type = "node", Last(h[n].kids) = Null, home[n] = l,
         n # h[l].tail, NEW g, Links(h, g, l, n, LinkPlace(h, l))
  PROVE  /\ HeapOK(g, home)
         /\ \A r : Free(h, r) /\ r # n => Free(g, r)
<1> DEFINE o == LinkPlace(h, l)
           j == Len(h[o].kids)
<1>1. h \in Seq(Cell) /\ IsHeap(h) /\ Sound(h) /\ Shaped(h) /\ Homed(h, home)
  BY CellsAreHeap DEF HeapOK
<1>2. /\ g \in Seq(Cell) /\ DOMAIN g = DOMAIN h /\ Len(g) = Len(h)
      /\ \A q \in DOMAIN h : q # o /\ q # l => g[q] = h[q]
      /\ \A q \in DOMAIN h :
           /\ g[q].type = h[q].type /\ g[q].size = h[q].size
           /\ DOMAIN g[q].kids = DOMAIN h[q].kids /\ Len(g[q].kids) = Len(h[q].kids)
           /\ \A k \in DOMAIN h[q].kids :
                g[q].kids[k] = IF q = o /\ k = j THEN n ELSE h[q].kids[k]
      /\ g[l].tail = n
      /\ o \in DOMAIN h /\ j \in DOMAIN h[o].kids /\ h[o].kids[j] = Null
  BY DEF Links
<1>3. n \in DOMAIN h /\ n # Null
  BY <1>1 DEF Free, Live, IsHeap, Null
<1>4. /\ h[l].kids[1] = Null <=> h[l].tail = Null
      /\ h[l].kids[1] # Null => home[h[l].kids[1]] = l
      /\ h[l].tail # Null => /\ h[l].tail \in DOMAIN h /\ h[h[l].tail].type = "node"
                             /\ home[h[l].tail] = l /\ Last(h[h[l].tail].kids) = Null
  BY <1>1 DEF Homed
<1>5. \/ o = l /\ h[l].tail = Null
      \/ o # l /\ h[l].tail = o /\ h[o].type = "node" /\ home[o] = l
  BY <1>4 DEF LinkPlace
<1>6. o # n /\ l # n
  BY <1>5
<1> HIDE DEF o
<1>7. \A q \in DOMAIN h : Shape(h, q)
  BY <1>1 DEF Shaped
<1>8. Len(h[l].kids) = 1 /\ Leads(h, h[l].kids[1], {"node"})
  BY <1>7 DEF Shape
<1>9. \A q \in DOMAIN h : h[q].type = "node" =>
        /\ Len(h[q].kids) \in {2, 3} /\ Leads(h, Last(h[q].kids), {"node"})
        /\ \A k \in 1 .. Len(h[q].kids) - 1 : Leads(h, h[q].kids[k], DataTypes)
  BY <1>7 DEF Shape
<1>10. \A q \in DOMAIN h : DOMAIN h[q].kids = 1 .. Len(h[q].kids) /\ Len(h[q].kids) \in Nat
  BY <1>1, CellIs
<1> HIDE DEF j
<1>11. j = Len(h[o].kids)
  BY DEF j
<1>12. Sound(g) /\ \A r : Free(h, r) /\ r # n => Free(g, r)
  <2>1. \A q \in DOMAIN h : Live(h, q) => Live(g, q)
    BY <1>2 DEF Live
  <2>2. \A q \in DOMAIN h : \A k \in DOMAIN g[q].kids :
          \/ g[q].kids[k] = Null
          \/ k \in DOMAIN h[q].kids /\ g[q].kids[k] = h[q].kids[k]
          \/ q = o /\ k = j /\ g[q].kids[k] = n
    <3> SUFFICES ASSUME NEW q \in DOMAIN h, NEW k \in DOMAIN g[q].kids
        PROVE \/ k \in DOMAIN h[q].kids /\ g[q].kids[k] = h[q].kids[k]
              \/ q = o /\ k = j /\ g[q].kids[k] = n
      OBVIOUS
    <3>1. k \in DOMAIN h[q].kids
      BY <1>2
    <3>2. g[q].kids[k] = IF q = o /\ k = j THEN n ELSE h[q].kids[k]
      BY <1>2, <3>1
    <3> QED
      BY <3>1, <3>2
  <2>3. IsHeap(h) /\ Sound(h) /\ DOMAIN g = DOMAIN h /\ (n # Null => Free(h, n))
    BY <1>1, <1>2
  <2> HIDE <1>1, <1>2, <1>4, <1>7, <1>9
  <2> QED
    BY <2>1, <2>2, <2>3, StoreKeepsSound
<1>13. \A q \in DOMAIN h : g[q].type = h[q].type /\ g[q].size = h[q].size /\ Len(g[q].kids) = Len(h[q].kids)
  BY <1>2
<1>14. \A q : \A kinds : Leads(h, q, kinds) => Leads(g, q, kinds)
  BY <1>2, <1>13 DEF Leads
<1>15. Leads(g, n, {"node"})
  BY <1>2, <1>3, <1>13 DEF Leads
\* a list has one place, the last of a node is the one for the next
<1>16. ASSUME NEW q \in DOMAIN h, h[q].type = "node"
       PROVE  /\ Last(g[q].kids) = IF q = o THEN n ELSE Last(h[q].kids)
              /\ \A k \in 1 .. Len(h[q].kids) - 1 : g[q].kids[k] = h[q].kids[k]
  <2>1. Len(h[q].kids) \in {2, 3} /\ DOMAIN h[q].kids = 1 .. Len(h[q].kids)
    BY <1>9, <1>10, <1>16
  <2>2. \A m \in {2, 3} : m \in 1 .. m /\ \A k \in 1 .. m - 1 : k \in 1 .. m /\ k # m
    OBVIOUS
  <2>3. Len(h[q].kids) \in DOMAIN h[q].kids
        /\ \A k \in 1 .. Len(h[q].kids) - 1 : k \in DOMAIN h[q].kids /\ k # Len(h[q].kids)
    BY <2>1, <2>2
  <2>4. Last(g[q].kids) = IF q = o THEN n ELSE Last(h[q].kids)
    BY <1>2, <1>11, <2>3 DEF Last
  <2>5. \A k \in 1 .. Len(h[q].kids) - 1 : g[q].kids[k] = h[q].kids[k]
    BY <1>2, <1>11, <2>3
  <2> QED
    BY <2>4, <2>5
<1>17. g[l].kids[1] = IF l = o THEN n ELSE h[l].kids[1]
  <2>1. 1 \in DOMAIN h[l].kids
    BY <1>8, <1>10
  <2> QED
    BY <1>2, <1>8, <1>11, <2>1
<1>18. ASSUME NEW q \in DOMAIN h PROVE Shape(g, q)
  <2>1. CASE q # o /\ q # l
    <3>1. Shape(h, q) /\ g[q] = h[q]
      BY <1>2, <1>7, <2>1
    <3>2. \A r \in DOMAIN h : r \in Range(h[q].kids) =>
            /\ r \in DOMAIN g /\ g[r].type = h[r].type
            /\ h[r].type = "text" => g[r].size = h[r].size
            /\ h[r].type = "elements" => Len(g[r].kids) = Len(h[r].kids)
      BY <1>2, <1>13
    <3>3. IsHeap(h)
      BY <1>1
    <3> QED
      BY <3>1, <3>2, <3>3, ShapeStays
  <2>2. CASE q = l
    <3>1. Leads(g, g[l].kids[1], {"node"})
      BY <1>8, <1>14, <1>15, <1>17
    <3>2. g[l].type \in {"list_t", "dict_t"} /\ Len(g[l].kids) = 1
      BY <1>8, <1>13
    <3> QED
      BY <2>2, <3>1, <3>2 DEF Shape, IsText, IsShort, IsLong
  <2>3. CASE q = o /\ o # l
    <3>1. h[q].type = "node"
      BY <1>5, <2>3
    <3>2. Len(g[q].kids) \in {2, 3} /\ g[q].type = "node"
      BY <1>9, <1>13, <3>1
    <3>3. Leads(g, Last(g[q].kids), {"node"})
      BY <1>15, <1>16, <2>3, <3>1
    <3>4. \A k \in 1 .. Len(g[q].kids) - 1 : Leads(g, g[q].kids[k], DataTypes)
      BY <1>9, <1>13, <1>14, <1>16, <3>1
    <3> QED
      BY <3>2, <3>3, <3>4 DEF Shape, IsText, IsShort, IsLong
  <2> QED
    BY <2>1, <2>2, <2>3
<1>19. Homed(g, home)
  <2> SUFFICES ASSUME NEW q \in DOMAIN h
      PROVE  /\ g[q].type \in {"list_t", "dict_t"} =>
                  /\ g[q].kids[1] = Null <=> g[q].tail = Null
                  /\ g[q].kids[1] # Null => home[g[q].kids[1]] = q
                  /\ g[q].tail # Null => /\ g[q].tail \in DOMAIN g /\ g[g[q].tail].type = "node"
                                         /\ home[g[q].tail] = q /\ Last(g[g[q].tail].kids) = Null
             /\ g[q].type = "node" /\ Last(g[q].kids) # Null => home[Last(g[q].kids)] = home[q]
    BY <1>2 DEF Homed
  <2>1. CASE q = l
    <3>1. g[l].kids[1] # Null /\ home[g[l].kids[1]] = l
      <4>1. CASE o = l
        BY <1>3, <1>17, <4>1
      <4>2. CASE o # l
        <5>1. h[l].tail # Null
          <6>1. o # Null
            BY <1>1, <1>2 DEF IsHeap, Null
          <6> QED
            BY <1>5, <4>2, <6>1
        <5> QED
          BY <1>4, <1>17, <4>2, <5>1
      <4> QED
        BY <4>1, <4>2
    <3>2. g[n].type = "node" /\ Last(g[n].kids) = Null
      BY <1>3, <1>6, <1>13, <1>16
    <3>3. g[l].type # "node" /\ g[l].tail = n
      BY <1>2, <1>13
    <3> QED
      BY <1>2, <1>3, <2>1, <3>1, <3>2, <3>3
  <2>2. CASE q # l /\ h[q].type \in {"list_t", "dict_t"}
    <3>1. q # o
      BY <1>5, <2>2
    <3>2. g[q] = h[q]
      BY <1>2, <2>2, <3>1
    <3>3. /\ h[q].kids[1] = Null <=> h[q].tail = Null
          /\ h[q].kids[1] # Null => home[h[q].kids[1]] = q
          /\ h[q].tail # Null => /\ h[q].tail \in DOMAIN h /\ h[h[q].tail].type = "node"
                                 /\ home[h[q].tail] = q /\ Last(h[h[q].tail].kids) = Null
      BY <1>1, <2>2 DEF Homed
    <3>4. ASSUME h[q].tail # Null
          PROVE  g[h[q].tail].type = "node" /\ Last(g[h[q].tail].kids) = Null
      <4>1. h[q].tail # o
        BY <1>5, <2>2, <3>3, <3>4
      <4> QED
        BY <1>13, <1>16, <3>3, <3>4, <4>1
    <3> QED
      BY <1>2, <2>2, <3>2, <3>3, <3>4
  <2>3. CASE h[q].type = "node"
    <3>1. Last(h[q].kids) # Null => home[Last(h[q].kids)] = home[q]
      BY <1>1, <2>3 DEF Homed
    <3>2. q # l
      BY <2>3
    <3>3. CASE q = o
      BY <1>5, <1>13, <1>16, <2>3, <3>2, <3>3
    <3>4. CASE q # o
      BY <1>13, <1>16, <2>3, <3>1, <3>4
    <3> QED
      BY <3>3, <3>4
  <2>4. CASE h[q].type \notin {"list_t", "dict_t", "node"}
    BY <1>13, <2>4
  <2> QED
    BY <2>1, <2>2, <2>3, <2>4
<1> QED
  BY <1>2, <1>12, <1>18, <1>19 DEF HeapOK, Shaped

\* the node made for these
Node(elements) == Block("node", elements \o <<Null>>, 0)

\* A new node: its elements, and no next one.
LEMMA NodeIs ==
  ASSUME NEW elements \in Seq(Int), Len(elements) \in {1, 2}
  PROVE  /\ Node(elements) \in Cell /\ Node(elements).type = "node"
         /\ Len(Node(elements).kids) = Len(elements) + 1
         /\ DOMAIN Node(elements).kids = 1 .. Len(elements) + 1
         /\ Last(Node(elements).kids) = Null
         /\ \A k \in 1 .. Len(elements) : Node(elements).kids[k] = elements[k]
         /\ Range(Node(elements).kids) = Range(elements) \union {Null}
<1> DEFINE kids == elements \o <<Null>>
           m == Len(elements)
<1>1. <<Null>> \in Seq(Int) /\ Len(<<Null>>) = 1 /\ <<Null>>[1] = Null
  BY DEF Null
<1>2. /\ kids \in Seq(Int) /\ Len(kids) = m + 1
      /\ \A k \in 1 .. m : kids[k] = elements[k]
      /\ kids[m + 1] = Null
  <2>1. m \in Nat /\ m + 1 \in 1 .. m + 1
    OBVIOUS
  <2>2. /\ kids \in Seq(Int) /\ Len(kids) = m + Len(<<Null>>)
        /\ \A k \in 1 .. m + Len(<<Null>>) : kids[k] = IF k <= m THEN elements[k] ELSE <<Null>>[k - m]
    BY <1>1, ConcatProperties
  <2>3. kids[m + 1] = Null
    <3> HIDE DEF kids, m
    <3>1. ~(m + 1 <= m) /\ (m + 1) - m = 1
      BY <2>1
    <3> QED
      BY <1>1, <2>1, <2>2, <3>1
  <2>4. \A k \in 1 .. m : kids[k] = elements[k]
    <3> HIDE DEF kids, m
    <3>1. \A k \in 1 .. m : k \in 1 .. m + 1 /\ k <= m
      BY <2>1
    <3> QED
      BY <1>1, <2>2, <3>1
  <2> QED
    BY <1>1, <2>2, <2>3, <2>4
<1>3. m \in Nat /\ DOMAIN elements = 1 .. m
  OBVIOUS
<1>4. Node(elements) = [type |-> "node", kids |-> kids, size |-> 0, tail |-> Null]
  BY DEF Node, Block
<1> HIDE DEF kids, m
<1>5. Node(elements) \in Cell
  BY <1>2, <1>4 DEF Cell, Kinds, Null
<1>6. DOMAIN kids = 1 .. m + 1
  BY <1>2
<1>7. Range(kids) = Range(elements) \union {Null}
  <2>1. \A k \in 1 .. m + 1 : k \in 1 .. m \/ k = m + 1
    BY <1>3
  <2>2. ASSUME NEW x \in Range(kids) PROVE x \in Range(elements) \union {Null}
    BY <1>2, <1>3, <1>6, <2>1, <2>2 DEF Range
  <2>3. Range(elements) \subseteq Range(kids)
    <3>1. \A k \in 1 .. m : k \in 1 .. m + 1
      BY <1>3
    <3> QED
      BY <1>2, <1>3, <1>6, <3>1 DEF Range
  <2>4. Null \in Range(kids)
    <3>1. m + 1 \in 1 .. m + 1
      BY <1>3
    <3> QED
      BY <1>2, <1>6, <3>1 DEF Range
  <2> QED
    BY <2>2, <2>3, <2>4
<1>8. Last(kids) = Null
  BY <1>2 DEF Last
<1> QED
  BY <1>2, <1>4, <1>5, <1>6, <1>7, <1>8 DEF m

\* The last place of a sequence gets a value.
LEMMA LastPlace ==
  ASSUME NEW s \in Seq(Int), Len(s) # 0, NEW n \in Int
  PROVE  LET t == Append(Front(s), n) IN
         /\ t \in Seq(Int) /\ Len(t) = Len(s) /\ DOMAIN t = DOMAIN s
         /\ \A k \in DOMAIN s : t[k] = IF k = Len(s) THEN n ELSE s[k]
<1> DEFINE m == Len(s)
           f == Front(s)
           t == Append(f, n)
<1>1. m \in Nat /\ m # 0 /\ m - 1 \in Int /\ DOMAIN s = 1 .. m
  OBVIOUS
<1>2. \A i \in 1 .. m - 1 : s[i] \in Int
  BY <1>1
<1>3. /\ f \in Seq(Int) /\ Len(f) = (IF 1 <= m - 1 THEN m - 1 - 1 + 1 ELSE 0)
      /\ \A i \in 1 .. m - 1 - 1 + 1 : f[i] = s[1 + i - 1]
  BY <1>1, <1>2, SubSeqProperties DEF Front
<1> HIDE DEF f, m
<1>4. Len(f) = m - 1 /\ \A i \in 1 .. m - 1 : f[i] = s[i]
  <2>1. \A i \in 1 .. m - 1 : i \in 1 .. m - 1 - 1 + 1 /\ 1 + i - 1 = i
    BY <1>1
  <2>2. Len(f) = m - 1
    BY <1>1, <1>3
  <2> QED
    BY <1>3, <2>1, <2>2
<1>5. t \in Seq(Int) /\ Len(t) = Len(f) + 1 /\ (\A i \in 1 .. Len(f) : t[i] = f[i]) /\ t[Len(f) + 1] = n
  BY <1>3, AppendProperties
<1> HIDE DEF t
<1>6. Len(f) + 1 = m
  BY <1>1, <1>4
<1>7. \A k \in 1 .. m : k = m \/ k \in 1 .. m - 1
  BY <1>1
<1>8. \A k \in 1 .. m : t[k] = IF k = m THEN n ELSE s[k]
  <2> SUFFICES ASSUME NEW k \in 1 .. m PROVE t[k] = IF k = m THEN n ELSE s[k]
    OBVIOUS
  <2>1. CASE k = m
    BY <1>5, <1>6, <2>1
  <2>2. CASE k # m
    <3>1. k \in 1 .. m - 1
      BY <1>7, <2>2
    <3> QED
      BY <1>4, <1>5, <2>2, <3>1
  <2> QED
    BY <2>1, <2>2
<1>9. DOMAIN t = 1 .. m
  BY <1>5, <1>6
<1> QED
  BY <1>1, <1>5, <1>6, <1>8, <1>9 DEF m, t, f

\* the heap with it, not yet linked
WithNode(elements) == Append(heap, Node(elements))

\* bert_list_append links the new node behind the tail, or as the first.
LEMMA LinkedIs ==
  ASSUME NEW home, HeapOK(heap, home), NEW c \in DOMAIN heap, heap[c].type \in {"list", "dict"},
         NEW elements, NEW with, with = WithNode(elements), NEW home2,
         AppendedWell(heap, with, home2, Node(elements)), NEW l, l = Struct(c)
  PROVE  /\ l \in DOMAIN heap /\ heap[l].type \in {"list_t", "dict_t"}
         /\ with[l] = heap[l] /\ l \in DOMAIN with
         /\ Links(with, Linked(c, elements), l, NewId, LinkPlace(with, l))
<1> DEFINE n == NewId
           g == Linked(c, elements)
           t == with[l].tail
<1>1. /\ with \in Seq(Cell) /\ IsHeap(with) /\ Shaped(with) /\ Homed(with, home2) /\ DOMAIN with = 1 .. n
      /\ \A q \in DOMAIN heap : q \in DOMAIN with /\ with[q] = heap[q]
      /\ n \in DOMAIN with /\ n \in Int
  <2>1. HeapOK(with, home2) /\ DOMAIN with = 1 .. n /\ Len(heap) \in Nat
        /\ \A q \in DOMAIN heap : q \in DOMAIN with /\ with[q] = heap[q]
    BY DEF AppendedWell, HeapOK, NewId
  <2>2. n \in 1 .. n
    BY <2>1 DEF NewId
  <2> QED
    <3>1. with \in Seq(Cell) /\ Shaped(with) /\ Homed(with, home2)
      BY <2>1 DEF HeapOK
    <3>2. IsHeap(with)
      BY <3>1, CellsAreHeap
    <3>3. n \in Int
      BY <2>1 DEF NewId
    <3> QED
      BY <2>1, <2>2, <3>1, <3>2, <3>3
<1>2. l \in DOMAIN heap /\ heap[l].type \in {"list_t", "dict_t"}
  <2>1. \/ StructHeld(heap, heap[c], "list_t")
        \/ StructHeld(heap, heap[c], "dict_t")
    BY DEF HeapOK, Shaped, Shape
  <2> QED
    BY <2>1 DEF StructHeld, Struct
<1>3. with[l] = heap[l] /\ l \in DOMAIN with /\ with[l].type \in {"list_t", "dict_t"}
  BY <1>1, <1>2
<1>4. /\ with[l] \in [type : Kinds, kids : Seq(Int), size : Nat, tail : Int]
      /\ Len(with[l].kids) = 1
      /\ with[l].kids[1] = Null <=> t = Null
      /\ t # Null => t \in DOMAIN with /\ with[t].type = "node" /\ Last(with[t].kids) = Null
  <2>1. with[l] \in [type : Kinds, kids : Seq(Int), size : Nat, tail : Int]
    BY <1>1, <1>3, CellIs
  <2>2. Len(with[l].kids) = 1
    BY <1>1, <1>3 DEF Shaped, Shape
  <2> QED
    BY <1>1, <1>3, <2>1, <2>2 DEF Homed
<1>5. with = [q \in DOMAIN with |-> with[q]]
  BY <1>1
<1> HIDE DEF n
<1>6. CASE t = Null
  <2> DEFINE cl == [with[l] EXCEPT !.kids = <<n>>, !.tail = n]
  <2>1. g = [with EXCEPT ![l].kids = <<n>>, ![l].tail = n]
    BY <1>3, <1>6 DEF Linked, Node, WithNode, n
  <2>2. g = [q \in DOMAIN with |-> IF q = l THEN cl ELSE with[q]]
    BY <1>3, <1>5, <2>1
  <2>3. cl.kids = <<n>> /\ cl.tail = n /\ cl.type = with[l].type /\ cl.size = with[l].size
    BY <1>4
  <2>4. cl \in Cell
    <3>1. <<n>> \in Seq(Int)
      BY <1>1
    <3> QED
      BY <1>1, <1>4, <3>1 DEF Cell
  <2> HIDE DEF cl, g
  <2>5. DOMAIN g = DOMAIN with /\ g[l] = cl /\ \A q \in DOMAIN with : q # l => g[q] = with[q]
    BY <1>3, <2>2
  <2>6. g \in Seq(Cell) /\ Len(g) = Len(with)
    <3>1. DOMAIN with = 1 .. Len(with) /\ Len(with) \in Nat /\ \A q \in DOMAIN with : with[q] \in Cell
      BY <1>1
    <3>2. \A q \in DOMAIN with : g[q] \in Cell
      BY <2>4, <2>5, <3>1
    <3>3. g \in [1 .. Len(with) -> Cell]
      BY <2>2, <2>5, <3>1, <3>2
    <3> QED
      BY <3>1, <3>3
  <2>7. DOMAIN with[l].kids = 1 .. 1 /\ DOMAIN <<n>> = 1 .. 1 /\ Len(<<n>>) = 1 /\ <<n>>[1] = n
    BY <1>1, <1>3, <1>4, CellIs
  <2>8. with[l].kids[1] = Null /\ 1 \in 1 .. 1 /\ \A k \in 1 .. 1 : k = 1
    <3>1. 1 \in 1 .. 1 /\ \A k \in 1 .. 1 : k = 1
      OBVIOUS
    <3>2. with[l].kids[1] = Null
      BY <1>4, <1>6
    <3> QED
      BY <3>1, <3>2
  <2>9. LinkPlace(with, l) = l
    BY <1>6 DEF LinkPlace
  <2>10. ASSUME NEW q \in DOMAIN with
         PROVE  /\ g[q].type = with[q].type /\ g[q].size = with[q].size
                /\ DOMAIN g[q].kids = DOMAIN with[q].kids /\ Len(g[q].kids) = Len(with[q].kids)
                /\ \A k \in DOMAIN with[q].kids :
                     g[q].kids[k] = IF q = l /\ k = Len(with[l].kids) THEN n ELSE with[q].kids[k]
    <3>1. CASE q = l
      <4>1. \A k \in 1 .. 1 : <<n>>[k] = n
        BY <2>7, <2>8
      <4> QED
        BY <1>4, <2>3, <2>5, <2>7, <2>8, <3>1, <4>1
    <3>2. CASE q # l
      BY <2>5, <3>2
    <3> QED
      BY <3>1, <3>2
  <2>11. Links(with, g, l, n, l)
    BY <1>3, <1>4, <2>3, <2>5, <2>6, <2>7, <2>8, <2>10 DEF Links
  <2> QED
    BY <1>2, <1>3, <2>9, <2>11 DEF n, g
<1>7. CASE t # Null
  <2> DEFINE s == with[t].kids
             r == Append(Front(s), n)
             ct == [with[t] EXCEPT !.kids = r]
             cl == [with[l] EXCEPT !.tail = n]
  <2>0. t = heap[l].tail /\ Struct(c) = l /\ t # l
    BY <1>3, <1>4, <1>7
  <2>1. g = [with EXCEPT ![t].kids = Append(Front(@), n), ![l].tail = n]
    BY <1>3, <1>7, <2>0 DEF Linked, Node, WithNode, n
  <2>2. g = [q \in DOMAIN with |-> IF q = l THEN cl ELSE IF q = t THEN ct ELSE with[q]]
    <3> HIDE DEF t
    <3>1. t \in DOMAIN with /\ l \in DOMAIN with /\ t # l
      BY <1>3, <1>4, <1>7, <2>0 DEF t
    <3>2. g = [[with EXCEPT ![t].kids = r] EXCEPT ![l].tail = n]
      BY <2>1 DEF s, r
    <3> DEFINE w == [with EXCEPT ![t].kids = r]
    <3>3. w = [q \in DOMAIN with |-> IF q = t THEN ct ELSE with[q]]
      <4> HIDE DEF r
      <4> QED
        BY <1>5, <3>1
    <3> HIDE DEF w, ct
    <3>4. w[l] = with[l] /\ DOMAIN w = DOMAIN with
      BY <3>1, <3>3
    <3>5. g = [w EXCEPT ![l].tail = n]
      BY <3>2 DEF w
    <3>6. g = [q \in DOMAIN with |-> IF q = l THEN cl ELSE w[q]]
      BY <3>1, <3>3, <3>4, <3>5
    <3> QED
      BY <3>1, <3>3, <3>6
  <2>3. with[t] \in [type : Kinds, kids : Seq(Int), size : Nat, tail : Int]
        /\ s \in Seq(Int) /\ Len(s) \in {2, 3} /\ DOMAIN s = 1 .. Len(s) /\ Last(s) = Null
    <3>1. t \in DOMAIN with /\ with[t].type = "node" /\ Last(with[t].kids) = Null
      BY <1>4, <1>7
    <3>2. with[t].type # "freed"
      BY <3>1
    <3> HIDE DEF t
    <3>3. with[t] \in [type : Kinds, kids : Seq(Int), size : Nat, tail : Int]
          /\ s \in Seq(Int) /\ DOMAIN s = 1 .. Len(s)
      BY <1>1, <3>1, <3>2, CellIs
    <3>4. Len(s) \in {2, 3}
      BY <1>1, <3>1 DEF Shaped, Shape
    <3> QED
      BY <3>1, <3>3, <3>4
  <2> HIDE DEF t, s
  <2>4. /\ r \in Seq(Int) /\ Len(r) = Len(s) /\ DOMAIN r = DOMAIN s
        /\ \A k \in DOMAIN s : r[k] = IF k = Len(s) THEN n ELSE s[k]
    <3>1. Len(s) # 0 /\ n \in Int /\ s \in Seq(Int)
      BY <1>1, <2>3
    <3> QED
      BY <3>1, LastPlace
  <2> HIDE DEF r
  <2>5. ct \in Cell /\ ct.kids = r /\ ct.type = with[t].type /\ ct.size = with[t].size
    BY <2>3, <2>4 DEF Cell
  <2>6. /\ cl \in Cell /\ cl.kids = with[l].kids /\ cl.type = with[l].type /\ cl.size = with[l].size
        /\ cl.tail = n
    BY <1>1, <1>4 DEF Cell
  <2> HIDE DEF ct, cl, g
  <2>7. t \in DOMAIN with /\ with[t].type = "node" /\ t # l
    BY <1>3, <1>4, <1>7
  <2>8. DOMAIN g = DOMAIN with /\ g[l] = cl /\ g[t] = ct
        /\ \A q \in DOMAIN with : q # l /\ q # t => g[q] = with[q]
    BY <1>3, <2>2, <2>7
  <2>9. g \in Seq(Cell) /\ Len(g) = Len(with)
    <3>1. DOMAIN with = 1 .. Len(with) /\ Len(with) \in Nat /\ \A q \in DOMAIN with : with[q] \in Cell
      BY <1>1
    <3>2. \A q \in DOMAIN with : g[q] \in Cell
      BY <2>5, <2>6, <2>8, <3>1
    <3>3. g \in [1 .. Len(with) -> Cell]
      BY <2>2, <2>8, <3>1, <3>2
    <3> QED
      BY <3>1, <3>3
  <2>10. LinkPlace(with, l) = t
    BY <1>7 DEF LinkPlace, t
  <2>11. ASSUME NEW q \in DOMAIN with
         PROVE  /\ g[q].type = with[q].type /\ g[q].size = with[q].size
                /\ DOMAIN g[q].kids = DOMAIN with[q].kids /\ Len(g[q].kids) = Len(with[q].kids)
                /\ \A k \in DOMAIN with[q].kids :
                     g[q].kids[k] = IF q = t /\ k = Len(with[t].kids) THEN n ELSE with[q].kids[k]
    <3>1. CASE q = t
      BY <2>4, <2>5, <2>8, <3>1 DEF s
    <3>2. CASE q = l
      BY <2>6, <2>7, <2>8, <3>2
    <3>3. CASE q # l /\ q # t
      BY <2>8, <3>3
    <3> QED
      BY <3>1, <3>2, <3>3
  <2>12. Len(s) \in DOMAIN s /\ s[Len(s)] = Null
    <3>1. \A m \in {2, 3} : m \in 1 .. m
      OBVIOUS
    <3> QED
      BY <2>3, <3>1 DEF Last
  <2>13. Links(with, g, l, n, t)
    BY <1>3, <2>6, <2>7, <2>8, <2>9, <2>11, <2>12 DEF Links, s
  <2> QED
    BY <1>2, <1>3, <2>10, <2>13 DEF n, g
<1> QED
  BY <1>6, <1>7

\* all are terms of the client's types
AllData(h, s) == \A q \in s : q \in DOMAIN h => h[q].type \in DataTypes

\* What is not lost is reached, but for texts.
LEMMA AllReached ==
  ASSUME NEW h, NEW home, HeapOK(h, home), NEW s \in SUBSET Int, NoLoss(h, s),
         NEW p \in DOMAIN h, h[p].type \notin {"freed", "text"}
  PROVE  p \in Reach(h, s)
<1>1. h \in Seq(Cell) /\ IsHeap(h) /\ Shaped(h)
  BY CellsAreHeap DEF HeapOK
<1>2. p \in Reach(h, s) \/ p \in Abandoned(h, s)
  BY DEF NoLoss, Covered, Live
<1>3. ASSUME p \in Abandoned(h, s) PROVE FALSE
  <2>1. PICK r \in Reach(h, s) : Live(h, r) /\ h[r].type = "regex" /\ p \in Range(h[r].kids)
    BY <1>1, <1>3, AbandonedIs
  <2>2. PICK k \in DOMAIN h[r].kids : h[r].kids[k] = p
    BY <2>1 DEF Range
  <2>3. p # Null /\ r \in DOMAIN h /\ IsText(h[r].type)
    BY <1>1, <2>1 DEF IsHeap, Null, Live, IsText, IsLong
  <2>4. h[p].type = "text"
    BY <1>1, <2>2, <2>3, KidIs
  <2> QED
    BY <2>4
<1> QED
  BY <1>2, <1>3

\* What a list holds is not reached from terms that do not lead to the list.
LEMMA NotUnder ==
  ASSUME NEW h, NEW home, HeapOK(h, home), NEW s \in SUBSET Int, AllFree(h, s), AllData(h, s),
         NEW c \in DOMAIN h, h[c].type \in {"list", "dict"}, c \notin Reach(h, s),
         NEW l, l = h[c].kids[1]
  PROVE  /\ l \notin Reach(h, s)
         /\ \A q \in DOMAIN h : h[q].type = "node" /\ home[q] = l => q \notin Reach(h, s)
<1>1. h \in Seq(Cell) /\ IsHeap(h) /\ Sound(h) /\ Shaped(h)
  BY CellsAreHeap DEF HeapOK
<1>2. l \in Range(h[c].kids)
  <2>1. Len(h[c].kids) = 1
    BY <1>1 DEF Shaped, Shape, StructHeld
  <2>2. DOMAIN h[c].kids = 1 .. Len(h[c].kids)
    BY <1>1, CellIs
  <2>3. 1 \in DOMAIN h[c].kids
    BY <2>1, <2>2
  <2> QED
    BY <2>3 DEF Range
<1>3. l \notin Reach(h, s)
  BY <1>1, <1>2, KidsStay
<1>4. NoNode(h, s)
  BY DataAre DEF NoNode, AllData
<1>6. ASSUME NEW q \in DOMAIN h, h[q].type = "node", home[q] = l, q \in Reach(h, s) PROVE FALSE
  BY <1>3, <1>4, <1>6, HomeReached
<1> QED
  BY <1>3, <1>6

\* g is h with a node that holds what was given
GrownWell(h, g, home, a, given) ==
  /\ HeapOK(g, home) /\ Len(g) = Len(h) + 1
  /\ \A q : Free(h, q) /\ q \notin given => Free(g, q) /\ g[q].type = h[q].type
  /\ NoLoss(g, a)

\* A node for terms that nothing holds can be added to the heap.
LEMMA NodeWell ==
  ASSUME heap \in Seq(Cell),
         NEW elements \in Seq(Int), Len(elements) \in {1, 2}, Distinct(elements), Null \notin Range(elements),
         AllFree(heap, Range(elements)), AllData(heap, Range(elements))
  PROVE  CellWell(heap, Node(elements))
<1> DEFINE n == Len(heap) + 1
           E == Range(elements)
           node == Node(elements)
           w == Append(heap, node)
<1>1. Len(heap) \in Nat /\ DOMAIN heap = 1 .. Len(heap)
  OBVIOUS
<1>2. /\ node \in Cell /\ node.type = "node" /\ Len(node.kids) = Len(elements) + 1
      /\ DOMAIN node.kids = 1 .. Len(elements) + 1
      /\ Last(node.kids) = Null
      /\ \A k \in 1 .. Len(elements) : node.kids[k] = elements[k]
      /\ Range(node.kids) = E \union {Null}
  BY NodeIs
<1> HIDE DEF n, node, E
<1>3. node.type # "freed" /\ NewlyMade(node)
  BY <1>2 DEF NewlyMade
<1>4. Distinct(node.kids)
  <2>1. \A m \in {1, 2} : \A k \in 1 .. m + 1 : k \in 1 .. m \/ k = m + 1
    OBVIOUS
  <2>2. \A k \in DOMAIN node.kids : node.kids[k] = Null \/ (k \in 1 .. Len(elements) /\ node.kids[k] = elements[k])
    BY <1>2, <2>1 DEF Last
  <2>3. DOMAIN elements = 1 .. Len(elements)
    OBVIOUS
  <2> QED
    BY <2>2, <2>3 DEF Distinct
<1>5. AllFree(heap, Range(node.kids))
  BY <1>2 DEF AllFree, E
<1>6. w[n] = node /\ DOMAIN w = 1 .. n /\ \A q \in DOMAIN heap : q \in DOMAIN w /\ w[q] = heap[q]
  <2>1. /\ w \in Seq(Cell) /\ Len(w) = Len(heap) + 1
        /\ \A i \in 1 .. Len(heap) : w[i] = heap[i]
        /\ w[Len(heap) + 1] = node
    BY <1>2, AppendProperties
  <2>2. \A q \in 1 .. Len(heap) : q \in 1 .. Len(heap) + 1
    BY <1>1
  <2> HIDE DEF w
  <2> QED
    BY <1>1, <2>1, <2>2 DEF n
<1> HIDE DEF w
<1>7. Len(node.kids) \in {2, 3} /\ Len(node.kids) - 1 = Len(elements)
  <2>1. \A m \in {1, 2} : m + 1 \in {2, 3} /\ (m + 1) - 1 = m
    OBVIOUS
  <2> QED
    BY <1>2, <2>1
<1>8. \A k \in 1 .. Len(elements) : Leads(w, node.kids[k], DataTypes)
  <2> SUFFICES ASSUME NEW k \in 1 .. Len(elements) PROVE Leads(w, node.kids[k], DataTypes)
    OBVIOUS
  <2>1. elements[k] \in E /\ elements[k] # Null
    BY DEF E, Range
  <2>2. Free(heap, elements[k])
    BY <2>1 DEF AllFree, E
  <2>3. elements[k] \in DOMAIN heap
    BY <2>2 DEF Free, Live
  <2>4. heap[elements[k]].type \in DataTypes
    BY <2>1, <2>3 DEF AllData, E
  <2> QED
    BY <1>2, <1>6, <2>3, <2>4 DEF Leads
<1>9. Shape(w, n)
  BY <1>2, <1>6, <1>7, <1>8 DEF Shape, Leads, IsText, IsShort, IsLong
<1> QED
  BY <1>2, <1>3, <1>4, <1>5, <1>9 DEF CellWell, w, n, node

\* Appending keeps the heap in order and loses nothing.
LEMMA LinkedKeeps ==
  ASSUME NEW home \in [1 .. Len(heap) -> Int], HeapOK(heap, home),
         NEW c \in DOMAIN heap, heap[c].type \in {"list", "dict"},
         NEW elements \in Seq(Int), Len(elements) \in {1, 2}, Distinct(elements), Null \notin Range(elements),
         NEW a \in SUBSET Int, AllFree(heap, a \union Range(elements)), AllData(heap, Range(elements)),
         c \notin Reach(heap, Range(elements)), NoLoss(heap, a \union Range(elements))
  PROVE  \E home2 \in [1 .. NewId -> Int] :
           GrownWell(heap, Linked(c, elements), home2, a, Range(elements))
<1> DEFINE n == NewId
           E == Range(elements)
           all == a \union E
           node == Node(elements)
           l == Struct(c)
           home2 == [q \in 1 .. n |-> IF q = n THEN l ELSE home[q]]
           g == Linked(c, elements)
<1>1. heap \in Seq(Cell) /\ IsHeap(heap) /\ Sound(heap) /\ Shaped(heap) /\ Homed(heap, home)
  BY CellsAreHeap DEF HeapOK
<1>2. Len(heap) \in Nat /\ DOMAIN heap = 1 .. Len(heap) /\ n = Len(heap) + 1
  BY <1>1 DEF NewId
<1>3. E \in SUBSET Int /\ all \in SUBSET Int
  <2>1. E \subseteq Int
    BY DEF Range
  <2> QED
    BY <2>1
<1>4. /\ node \in Cell /\ node.type = "node" /\ Len(node.kids) = Len(elements) + 1
      /\ DOMAIN node.kids = 1 .. Len(elements) + 1
      /\ Last(node.kids) = Null
      /\ \A k \in 1 .. Len(elements) : node.kids[k] = elements[k]
      /\ Range(node.kids) = E \union {Null}
  BY NodeIs
<1>5. PICK with : with = WithNode(elements)
  OBVIOUS
<1>6. l \in DOMAIN heap /\ heap[l].type \in {"list_t", "dict_t"} /\ l = heap[c].kids[1] /\ l \in Int
  <2>1. \/ StructHeld(heap, heap[c], "list_t")
        \/ StructHeld(heap, heap[c], "dict_t")
    BY <1>1 DEF Shaped, Shape
  <2>2. l \in DOMAIN heap /\ heap[l].type \in {"list_t", "dict_t"}
    BY <2>1 DEF StructHeld, Struct
  <2> QED
    BY <1>2, <2>2 DEF Struct
<1> HIDE DEF l, n, node, E
<1>7. /\ \A q \in DOMAIN heap : home2[q] = home[q]
      /\ home2[n] = l /\ home2 \in [1 .. n -> Int]
  <2>1. \A q \in DOMAIN heap : q \in 1 .. n /\ q # n
    BY <1>2
  <2>2. n \in 1 .. n
    BY <1>2
  <2>3. \A q \in 1 .. n : q # n => q \in 1 .. Len(heap)
    BY <1>2
  <2>4. \A q \in 1 .. n : (IF q = n THEN l ELSE home[q]) \in Int
    BY <1>6, <2>3
  <2> QED
    BY <2>1, <2>2, <2>4
<1> HIDE DEF home2
<1>8. AppendedWell(heap, with, home2, node)
  <2>1. AllFree(heap, E)
    BY DEF AllFree, E
  <2>2. CellWell(heap, node)
    BY <1>1, <2>1, NodeWell DEF E, node
  <2>3. AppendedWell(heap, Append(heap, node), home2, node)
    BY <1>7, <2>2, AppendKeeps DEF CellWell
  <2> QED
    BY <1>5, <2>3 DEF WithNode, node
<1>9. /\ with[l] = heap[l] /\ l \in DOMAIN with
      /\ Links(with, g, l, n, LinkPlace(with, l))
  BY <1>5, <1>8, LinkedIs DEF l, n, node
<1> HIDE DEF g
<1>10. /\ HeapOK(with, home2) /\ Len(with) = Len(heap) + 1 /\ DOMAIN with = 1 .. n
       /\ with[n] = node /\ Free(with, n)
       /\ \A q \in DOMAIN heap : q \in DOMAIN with /\ with[q] = heap[q]
       /\ \A q : Free(heap, q) /\ q \notin Range(node.kids) => Free(with, q)
  BY <1>2, <1>8 DEF AppendedWell
<1>11. n # heap[l].tail
  <2>1. heap[l].tail # Null => heap[l].tail \in DOMAIN heap
    BY <1>1, <1>6 DEF Homed
  <2>2. n \notin DOMAIN heap /\ n # Null
    BY <1>2 DEF Null
  <2> QED
    BY <2>1, <2>2
<1>12. HeapOK(g, home2) /\ \A r : Free(with, r) /\ r # n => Free(g, r)
  <2>1. /\ l \in DOMAIN with /\ with[l].type \in {"list_t", "dict_t"}
        /\ with[n].type = "node" /\ Last(with[n].kids) = Null /\ home2[n] = l
        /\ n # with[l].tail /\ Free(with, n) /\ HeapOK(with, home2)
    BY <1>4, <1>6, <1>7, <1>9, <1>10, <1>11
  <2> QED
    BY <1>9, <2>1, LinkKeeps
<1> DEFINE o == LinkPlace(heap, l)
<1>13. LinkPlace(with, l) = o
  BY <1>9 DEF LinkPlace
<1> HIDE DEF o
<1>14. /\ g \in Seq(Cell) /\ DOMAIN g = DOMAIN with /\ Len(g) = Len(with)
       /\ \A q \in DOMAIN with : q # o /\ q # l => g[q] = with[q]
       /\ \A q \in DOMAIN with :
            /\ g[q].type = with[q].type
            /\ DOMAIN g[q].kids = DOMAIN with[q].kids
            /\ \A k \in DOMAIN with[q].kids :
                 g[q].kids[k] = IF q = o /\ k = Len(with[o].kids) THEN n ELSE with[q].kids[k]
       /\ o \in DOMAIN with /\ Len(with[o].kids) \in DOMAIN with[o].kids
       /\ with[o].kids[Len(with[o].kids)] = Null
  BY <1>9, <1>13 DEF Links
<1>15. \A q \in DOMAIN with : Range(with[q].kids) \subseteq Range(g[q].kids) \union {Null}
  <2> SUFFICES ASSUME NEW q \in DOMAIN with, NEW k \in DOMAIN with[q].kids
               PROVE  with[q].kids[k] \in Range(g[q].kids) \union {Null}
    BY DEF Range
  <2>1. CASE q = o /\ k = Len(with[o].kids)
    BY <1>14, <2>1
  <2>2. CASE ~(q = o /\ k = Len(with[o].kids))
    <3>1. k \in DOMAIN g[q].kids /\ g[q].kids[k] = with[q].kids[k]
      BY <1>14, <2>2
    <3> QED
      BY <3>1 DEF Range
  <2> QED
    BY <2>1, <2>2
<1>16. IsHeap(with) /\ IsHeap(g)
  <2>1. with \in Seq(Cell)
    BY <1>10 DEF HeapOK
  <2> QED
    BY <1>14, <2>1, CellsAreHeap
<1>17. o \in DOMAIN heap /\ heap[o].type \in {"list_t", "dict_t", "node"} /\ o \in Reach(heap, a)
  <2>1. o = l \/ (o \in DOMAIN heap /\ heap[o].type = "node" /\ home[o] = l)
    BY <1>1, <1>6 DEF Homed, LinkPlace, o
  <2>2. o \in DOMAIN heap /\ heap[o].type \in {"list_t", "dict_t", "node"}
    BY <1>6, <2>1
  <2>3. o \in Reach(heap, all)
    BY <1>3, <2>2, AllReached DEF E
  <2>4. AllFree(heap, E)
    BY DEF AllFree, E
  <2>5. o \notin Reach(heap, E)
    <3>1. /\ l \notin Reach(heap, E)
          /\ \A q \in DOMAIN heap : heap[q].type = "node" /\ home[q] = l => q \notin Reach(heap, E)
      BY <1>3, <1>6, <2>4, NotUnder DEF E
    <3> QED
      BY <2>1, <3>1
  <2>6. Reach(heap, all) = Reach(heap, a) \union Reach(heap, E)
    BY <1>1, <1>3, ReachTwo
  <2> QED
    BY <2>2, <2>3, <2>5, <2>6
<1>18. o \in Reach(g, a)
  <2>1. \A p \in DOMAIN heap : Live(heap, p) /\ heap[p].type # "regex" =>
          /\ Live(g, p) /\ g[p].type # "regex"
          /\ Range(heap[p].kids) \subseteq Range(g[p].kids) \union Reach(g, a) \union {Null}
    BY <1>10, <1>14, <1>15 DEF Live
  <2>2. a \subseteq Reach(g, a) \union {Null}
    BY <1>16, ReachStored
  <2>3. Reach(heap, a) \subseteq Reach(g, a)
    BY <1>1, <1>16, <2>1, <2>2, ReachMoved
  <2> QED
    BY <1>17, <2>3
<1>19. NoLoss(with, a \union {n})
  <2>1. all \subseteq (a \union Range(node.kids)) \union {Null} /\ a \union Range(node.kids) \in SUBSET Int
    BY <1>3, <1>4 DEF Null
  <2>2. NoLoss(heap, all)
    BY DEF E
  <2> HIDE DEF all
  <2>3. NoLoss(heap, a \union Range(node.kids))
    <3>1. all \in SUBSET Int /\ IsHeap(heap)
      BY <1>1, <1>3
    <3> QED
      BY <2>1, <2>2, <3>1, NoLossMore
  <2>4. NoLoss(Append(heap, node), a \union {Len(heap) + 1})
    BY <1>1, <1>4, <2>3, CellsAre, NoLossAppended
  <2> QED
    BY <1>2, <1>5, <2>4 DEF WithNode, node
<1>20. NoLoss(g, a)
  <2>1. o \in DOMAIN with /\ with[o].type \notin {"freed", "regex"} /\ g[o].type = with[o].type
    BY <1>10, <1>14, <1>17
  <2>2. Range(with[o].kids) \subseteq Range(g[o].kids) \union {Null}
    BY <1>14, <1>15
  <2>3. \A p \in DOMAIN with : p # o =>
          g[p].type = with[p].type /\ Range(with[p].kids) \subseteq Range(g[p].kids) \union {Null}
    BY <1>14, <1>15
  <2>4. n \in Range(g[o].kids)
    BY <1>14 DEF Range
  <2>5. n \in Reach(g, a) \union {Null}
    <3>1. Followed(g, o) = g[o].kids
      BY <1>14, <2>1 DEF Followed, Live
    <3>2. Range(Followed(g, o)) \subseteq Reach(g, a) \union {Null}
      BY <1>16, <1>18, ReachClosed
    <3> QED
      BY <2>4, <3>1, <3>2
  <2>6. a \union {n} \subseteq Reach(g, a) \union {Null} /\ a \union {n} \in SUBSET Int
    <3>1. a \ {Null} \subseteq Reach(g, a)
      BY <1>16, ReachStored
    <3> QED
      <4>1. n \in Int
        BY <1>2
      <4> QED
        BY <2>5, <3>1, <4>1
  <2>7. \A p \in DOMAIN with :
          /\ p \in DOMAIN g /\ g[p].type = with[p].type
          /\ with[p].type = "regex" => g[p] = with[p]
          /\ Range(with[p].kids) \subseteq Range(g[p].kids) \union Reach(g, a) \union {Null}
    BY <1>6, <1>9, <1>14, <1>15, <2>1
  <2>8. Covered(with, a \union {n}) \subseteq Covered(g, a)
    BY <1>16, <2>6, <2>7, CoverMoved
  <2>9. \A p \in DOMAIN g : Live(g, p) => p \in DOMAIN with /\ Live(with, p)
    BY <1>14 DEF Live
  <2> QED
    BY <1>19, <2>8, <2>9 DEF NoLoss
<1>21. ASSUME NEW q, Free(heap, q), q \notin E PROVE Free(g, q) /\ g[q].type = heap[q].type
  <2>1. q \in DOMAIN heap /\ q # Null
    BY <1>2, <1>21 DEF Free, Live, Null
  <2>2. Free(with, q)
    BY <1>4, <1>10, <1>21, <2>1
  <2>3. q # n
    BY <1>2, <2>1
  <2>4. Free(g, q)
    BY <1>12, <2>2, <2>3
  <2>5. g[q].type = heap[q].type
    BY <1>10, <1>14, <2>1
  <2> QED
    BY <2>4, <2>5
<1>22. GrownWell(heap, g, home2, a, E)
  BY <1>10, <1>12, <1>14, <1>20, <1>21 DEF GrownWell
<1> QED
  BY <1>7, <1>22 DEF g, E, n

(***************************************************************************)
(* The steps of the client: destroying, replacing and appending            *)
(***************************************************************************)

\* Between two calls nothing is being made and nothing searched.
LEMMA NoCallIs ==
  /\ NoCall \in Calls /\ NoCall.got = << >> /\ NoCall.op = "none" /\ NoCall.next_node = Null
  /\ \A h, own, home : CallOK(h, own, NoCall, home)
<1>1. << >> \in Seq(Int)
  OBVIOUS
<1>2. NoCall = [op |-> "none", type |-> "", size |-> 0, got |-> << >>,
                c |-> Null, index |-> 0, data |-> Null, i |-> 0, next_node |-> Null]
  BY DEF NoCall
<1>3. NoCall \in Calls
  BY <1>1 DEF NoCall, Calls, Null
<1>4. NoCall.got = << >> /\ NoCall.op = "none" /\ NoCall.next_node = Null
  BY <1>2
<1> QED
  BY <1>3, <1>4 DEF CallOK

\* A call begins, goes on or ends that makes nothing.
LEMMA CallChanges ==
  ASSUME NEW h, NEW own, NEW c, NEW lost, NEW home, InOrder(h, own, c, lost, home), c.got = << >>,
         NEW d \in Calls, d.got = << >>, CallOK(h, own, d, home)
  PROVE  InOrder(h, own, d, lost, home)
BY DEF InOrder

\* What the client and the history have are pointers to terms that nothing holds.
LEMMA RootsAre ==
  ASSUME NEW h, NEW own, NEW c, NEW lost, NEW home, InOrder(h, own, c, lost, home)
  PROVE  /\ h \in Seq(Cell) /\ IsHeap(h) /\ Sound(h) /\ Shaped(h) /\ Homed(h, home)
         /\ own \in SUBSET Int /\ lost \in SUBSET Int
         /\ Range(c.got) \in SUBSET Int
         /\ \A q \in own : Free(h, q) /\ q \in DOMAIN h /\ q # Null /\ h[q].type \in DataTypes
         /\ \A q \in lost : Free(h, q) /\ q \in DOMAIN h /\ q # Null /\ h[q].type = "text"
                            /\ q \notin Range(c.got)
         /\ AllFree(h, own \union lost)
<1>1. h \in Seq(Cell) /\ IsHeap(h) /\ Sound(h) /\ Shaped(h) /\ Homed(h, home)
  BY CellsAreHeap DEF InOrder, HeapOK
<1>2. \A q : Free(h, q) => q \in DOMAIN h /\ q \in Int /\ q # Null
  BY <1>1 DEF Free, Live, IsHeap, Null
<1>3. \A q \in own : Free(h, q) /\ h[q].type \in DataTypes
  BY DEF InOrder, ClientOK
<1>4. \A q \in lost : Free(h, q) /\ h[q].type = "text" /\ q \notin Range(c.got)
  BY DEF InOrder, DroppedOK
<1>5. Range(c.got) \in SUBSET Int
  <2>1. c.got \in Seq(Int)
    BY DEF InOrder, Calls
  <2> QED
    BY <2>1 DEF Range
<1> QED
  BY <1>1, <1>2, <1>3, <1>4, <1>5 DEF AllFree

\* What is reached from terms that nothing holds is live.
LEMMA ReachLive ==
  ASSUME NEW h, IsHeap(h), Sound(h), NEW s \in SUBSET Int, AllFree(h, s), NEW q \in Reach(h, s)
  PROVE  Live(h, q) /\ q \in DOMAIN h
<1>1. q # Null
  BY DEF Reach
<1>2. CASE q \in s
  BY <1>1, <1>2 DEF AllFree, Free, Live
<1>3. ASSUME NEW p \in Reach(h, s), q \in Range(Followed(h, p)) PROVE Live(h, q)
  <2>1. p \in DOMAIN h /\ q \in Range(h[p].kids)
    BY <1>3, FollowedIs
  <2>2. PICK k \in DOMAIN h[p].kids : h[p].kids[k] = q
    BY <2>1 DEF Range
  <2> QED
    BY <1>1, <2>1, <2>2 DEF Sound
<1> QED
  BY <1>2, <1>3, ReachStored DEF Live

\* What is reached stays covered.
LEMMA NoLossReached ==
  ASSUME NEW h, IsHeap(h), NEW a \in SUBSET Int, NEW b \in SUBSET Int,
         a \subseteq Reach(h, b) \union {Null}, NoLoss(h, a)
  PROVE  NoLoss(h, b)
<1>1. Covered(h, a) \subseteq Covered(h, b)
  BY CoverMoved
<1> QED
  BY <1>1 DEF NoLoss

\* bert_data_destroy keeps the heap in order.
LEMMA DestroyStep ==
  ASSUME NEW home, InOrder(heap, client, call, dropped, home), NEW d, bert_data_destroy(d)
  PROVE  Len(heap') = Len(heap) /\ InOrder(heap', client', call', dropped', home)
<1> DEFINE own == client \ {d}
           a == own \union dropped
<1>1. /\ IsHeap(heap) /\ HeapOK(heap, home)
      /\ client \in SUBSET Int /\ dropped \in SUBSET Int
      /\ \A q \in client : Free(heap, q) /\ q \in DOMAIN heap /\ q # Null /\ heap[q].type \in DataTypes
      /\ \A q \in dropped : Free(heap, q) /\ q \in DOMAIN heap /\ heap[q].type = "text"
  BY RootsAre DEF InOrder
<1>2. /\ call = NoCall /\ d \in client /\ client' = own /\ call' = NoCall
      /\ heap' = Destroyed(heap, <<d>>)
      /\ dropped' = dropped \union Abandoned(heap, Range(<<d>>))
  BY DEF bert_data_destroy, Destroying, Idle
<1>3. d \in Int /\ a \in SUBSET Int /\ a \union {d} = client \union dropped
  BY <1>1, <1>2
<1>4. PICK roots : roots = <<d>>
  OBVIOUS
<1>5. roots \in Seq(Int) /\ Range(roots) = {d}
  <2>1. DOMAIN <<d>> = {1} /\ <<d>>[1] = d /\ <<d>> \in Seq(Int)
    BY <1>3
  <2> QED
    BY <1>4, <2>1 DEF Range
<1>6. NoLoss(heap, a \union {d})
  <2>1. Range(call.got) = {}
    BY <1>2, NoCallIs, RangeOfNothing
  <2>2. client \union Range(call.got) \union dropped = client \union dropped
    BY <2>1
  <2> QED
    BY <1>3, <2>2 DEF InOrder
<1>7. d # Null => Free(heap, d) /\ heap[d].type \in DataTypes
  BY <1>1, <1>2
<1> HIDE DEF a
<1>8. TermDestroyed(heap, Destroyed(heap, roots), home, a, d)
  BY <1>1, <1>3, <1>5, <1>6, <1>7, DestroysTerm
<1>9. /\ HeapOK(heap', home) /\ DOMAIN heap' = DOMAIN heap /\ Len(heap') = Len(heap)
      /\ \A q : Free(heap, q) /\ q # d => Free(heap', q) /\ heap'[q] = heap[q]
      /\ NoLoss(heap', a \union Abandoned(heap, {d}))
      /\ \A q \in Abandoned(heap, {d}) : Free(heap', q) /\ heap'[q].type = "text"
  BY <1>2, <1>4, <1>8 DEF TermDestroyed
<1>10. dropped' = dropped \union Abandoned(heap, {d})
  BY <1>2, <1>4, <1>5
<1>11. ClientOK(heap', client')
  BY <1>1, <1>2, <1>9 DEF ClientOK
<1>12. call' \in Calls /\ CallOK(heap', client', call', home) /\ Range(call'.got) = {}
  BY <1>2, NoCallIs, RangeOfNothing
<1>13. DroppedOK(heap', dropped', call'.got)
  <2>1. \A q \in dropped : q # d
    BY <1>1, <1>2, DataAre
  <2> QED
    BY <1>1, <1>9, <1>10, <1>12, <2>1 DEF DroppedOK
<1>14. NoLoss(heap', client' \union Range(call'.got) \union dropped')
  <2>1. client' \union Range(call'.got) \union dropped' = a \union Abandoned(heap, {d})
    BY <1>2, <1>10, <1>12 DEF a
  <2> QED
    BY <1>9, <2>1
<1> QED
  BY <1>9, <1>11, <1>12, <1>13, <1>14 DEF InOrder

\* Setting an element keeps the heap in order.
LEMMA ReplaceStep ==
  ASSUME NEW home, InOrder(heap, client, call, dropped, home), call.got = << >>,
         NEW p, NEW k, DataPlace(heap, p, k), NEW d \in client, p \notin Reach(heap, {d}),
         NEW h2, h2 = Replaced(heap, p, k, d)
  PROVE  Len(h2) = Len(heap)
         /\ InOrder(h2, client \ {d}, NoCall, dropped \union Abandoned(heap, {heap[p].kids[k]}), home)
<1> DEFINE own == client \ {d}
           a == own \union dropped
           left == Abandoned(heap, {heap[p].kids[k]})
<1>1. /\ IsHeap(heap) /\ HeapOK(heap, home)
      /\ client \in SUBSET Int /\ dropped \in SUBSET Int
      /\ \A q \in client : Free(heap, q) /\ q \in DOMAIN heap /\ q # Null /\ heap[q].type \in DataTypes
      /\ \A q \in dropped : Free(heap, q) /\ q \in DOMAIN heap /\ heap[q].type = "text"
      /\ AllFree(heap, client \union dropped)
  BY RootsAre DEF InOrder
<1>2. d \in Int /\ a \in SUBSET Int /\ a \union {d} = client \union dropped
  BY <1>1
<1>3. NoLoss(heap, a \union {d})
  <2>1. Range(call.got) = {}
    BY RangeOfNothing
  <2>2. client \union Range(call.got) \union dropped = client \union dropped
    BY <2>1
  <2> QED
    BY <1>2, <2>2 DEF InOrder
<1>4. AllFree(heap, a) /\ Free(heap, d) /\ heap[d].type \in DataTypes
  BY <1>1 DEF AllFree
<1>5. p \in Reach(heap, a \union {d})
  <2>1. p \in DOMAIN heap /\ heap[p].type \notin {"freed", "text"}
    BY DEF DataPlace
  <2>2. a \union {d} \in SUBSET Int
    BY <1>2
  <2> HIDE DEF a
  <2> QED
    BY <1>1, <1>3, <2>1, <2>2, AllReached
<1> HIDE DEF a
<1>6. ReplacedWell(heap, Replaced(heap, p, k, d), home, a, d, Abandoned(heap, {heap[p].kids[k]}))
  BY <1>1, <1>2, <1>3, <1>4, <1>5, Replaces
<1> HIDE DEF left
<1>7. /\ HeapOK(h2, home) /\ Len(h2) = Len(heap)
      /\ \A q : Free(heap, q) /\ q # d => Free(h2, q) /\ h2[q].type = heap[q].type
      /\ NoLoss(h2, a \union left)
      /\ \A q \in left : Free(h2, q) /\ h2[q].type = "text"
  BY <1>6 DEF ReplacedWell, left
<1>8. ClientOK(h2, own)
  BY <1>1, <1>7 DEF ClientOK
<1>9. NoCall \in Calls /\ CallOK(h2, own, NoCall, home) /\ Range(NoCall.got) = {}
  BY NoCallIs, RangeOfNothing
<1>10. DroppedOK(h2, dropped \union left, NoCall.got)
  <2>1. \A q \in dropped : q # d
    BY <1>1, DataAre
  <2> QED
    BY <1>1, <1>7, <1>9, <2>1 DEF DroppedOK
<1>11. NoLoss(h2, own \union Range(NoCall.got) \union (dropped \union left))
  <2>1. own \union Range(NoCall.got) \union (dropped \union left) = a \union left
    BY <1>9 DEF a
  <2> QED
    BY <1>7, <2>1
<1> QED
  BY <1>7, <1>8, <1>9, <1>10, <1>11 DEF InOrder, left

\* The containers the client knows of are live.
LEMMA KnownIs ==
  ASSUME NEW home, InOrder(heap, client, call, dropped, home), NEW type, NEW c \in Known(type),
         type # "freed"
  PROVE  c \in DOMAIN heap /\ heap[c].type = type
<1>1. /\ IsHeap(heap) /\ Sound(heap) /\ client \in SUBSET Int /\ AllFree(heap, client)
  BY RootsAre DEF AllFree
<1> QED
  BY <1>1, ReachLive DEF Known

\* The elements given are terms of the client's.
LEMMA AppendStep ==
  ASSUME NEW home \in [1 .. Len(heap) -> Int], InOrder(heap, client, call, dropped, home),
         NEW c \in DOMAIN heap, heap[c].type \in {"list", "dict"},
         NEW elements \in Seq(Int), Len(elements) \in {1, 2}, Range(elements) \subseteq client,
         Distinct(elements), c \notin Reach(heap, Range(elements)), Appends(c, elements)
  PROVE  \E home2 \in [1 .. Len(heap') -> Int] : InOrder(heap', client', call', dropped', home2)
<1> DEFINE E == Range(elements)
           own == client \ E
           a == own \union dropped
<1>1. /\ IsHeap(heap) /\ HeapOK(heap, home)
      /\ client \in SUBSET Int /\ dropped \in SUBSET Int
      /\ \A q \in client : Free(heap, q) /\ q \in DOMAIN heap /\ q # Null /\ heap[q].type \in DataTypes
      /\ \A q \in dropped : Free(heap, q) /\ q \in DOMAIN heap /\ heap[q].type = "text"
      /\ AllFree(heap, client \union dropped)
  BY RootsAre DEF InOrder
<1>2. call = NoCall /\ client' = own /\ call' = call /\ dropped' = dropped /\ heap' = Linked(c, elements)
  BY DEF Appends, Idle
<1>3. a \in SUBSET Int /\ a \union E = client \union dropped
  BY <1>1
<1>4. NoLoss(heap, a \union E)
  <2>1. Range(call.got) = {}
    BY <1>2, NoCallIs, RangeOfNothing
  <2>2. client \union Range(call.got) \union dropped = client \union dropped
    BY <2>1
  <2> QED
    BY <1>3, <2>2 DEF InOrder
<1>5. AllFree(heap, a \union E) /\ AllData(heap, E) /\ Null \notin E
  BY <1>1, <1>3 DEF AllData
<1> HIDE DEF a, E
<1>6. PICK home2 \in [1 .. NewId -> Int] : GrownWell(heap, Linked(c, elements), home2, a, E)
  <2>1. c \notin Reach(heap, E)
    BY DEF E
  <2>2. \E home2 \in [1 .. NewId -> Int] :
           GrownWell(heap, Linked(c, elements), home2, a, Range(elements))
    BY <1>1, <1>3, <1>4, <1>5, <2>1, LinkedKeeps DEF E
  <2> QED
    BY <2>2 DEF E
<1>7. /\ HeapOK(heap', home2) /\ Len(heap') = NewId
      /\ \A q : Free(heap, q) /\ q \notin E => Free(heap', q) /\ heap'[q].type = heap[q].type
      /\ NoLoss(heap', a)
  BY <1>2, <1>6 DEF GrownWell, NewId
<1>8. ClientOK(heap', client')
  BY <1>1, <1>2, <1>7 DEF ClientOK
<1>9. call' \in Calls /\ CallOK(heap', client', call', home2) /\ Range(call'.got) = {}
  BY <1>2, NoCallIs, RangeOfNothing
<1>10. DroppedOK(heap', dropped', call'.got)
  <2>1. \A q \in dropped : q \notin E
    BY <1>1, DataAre DEF E
  <2> QED
    BY <1>1, <1>2, <1>7, <1>9, <2>1 DEF DroppedOK
<1>11. NoLoss(heap', client' \union Range(call'.got) \union dropped')
  <2>1. client' \union Range(call'.got) \union dropped' = a
    BY <1>2, <1>9 DEF a
  <2> QED
    BY <1>7, <2>1
<1>12. InOrder(heap', client', call', dropped', home2)
  BY <1>7, <1>8, <1>9, <1>10, <1>11 DEF InOrder
<1> QED
  BY <1>6, <1>7, <1>12

\* bert_list_append gives one term, bert_dict_append two.
LEMMA AppendSteps ==
  ASSUME NEW home \in [1 .. Len(heap) -> Int], InOrder(heap, client, call, dropped, home),
         NEW c, \/ c \in Known("list") /\ bert_list_append(c)
                \/ c \in Known("dict") /\ bert_dict_append(c)
  PROVE  \E home2 \in [1 .. Len(heap') -> Int] : InOrder(heap', client', call', dropped', home2)
<1>1. c \in DOMAIN heap /\ heap[c].type \in {"list", "dict"}
  BY KnownIs
<1>2. IsHeap(heap) /\ client \in SUBSET Int /\ \A q \in client : q # Null
  BY RootsAre
<1>3. CASE bert_list_append(c)
  <2>1. PICK d \in MayGive(c) : Appends(c, <<d>>)
    BY <1>3 DEF bert_list_append
  <2>2. d \in client /\ d \in Int /\ c \notin Reach(heap, {d})
    BY <1>2, <2>1 DEF MayGive
  <2> DEFINE s == <<d>>
  <2>3. s \in Seq(Int) /\ Len(s) = 1 /\ DOMAIN s = {1} /\ s[1] = d
    BY <2>2
  <2>4. Appends(c, s)
    BY <2>1
  <2> HIDE DEF s
  <2>5. Range(s) = {d} /\ Distinct(s)
    BY <2>3 DEF Range, Distinct
  <2>6. Len(s) \in {1, 2} /\ Range(s) \subseteq client /\ c \notin Reach(heap, Range(s))
    BY <2>2, <2>3, <2>5
  <2> QED
    BY <1>1, <2>3, <2>4, <2>5, <2>6, AppendStep
<1>4. CASE bert_dict_append(c)
  <2>1. PICK k \in MayGive(c), v \in MayGive(c) : k # v /\ Appends(c, <<k, v>>)
    BY <1>4 DEF bert_dict_append
  <2>2. k \in client /\ k \in Int /\ c \notin Reach(heap, {k}) /\ {k} \in SUBSET Int
        /\ v \in client /\ v \in Int /\ c \notin Reach(heap, {v}) /\ {v} \in SUBSET Int
    BY <1>2, <2>1 DEF MayGive
  <2> DEFINE s == <<k, v>>
  <2>3. s \in Seq(Int) /\ Len(s) = 2 /\ DOMAIN s = {1, 2} /\ s[1] = k /\ s[2] = v
    BY <2>2
  <2>4. Appends(c, s)
    BY <2>1
  <2> HIDE DEF s
  <2>5. Range(s) = {k} \union {v} /\ Distinct(s)
    BY <2>1, <2>3 DEF Range, Distinct
  <2>6. c \notin Reach(heap, {k} \union {v})
    <3>1. Reach(heap, {k} \union {v}) = Reach(heap, {k}) \union Reach(heap, {v})
      BY <1>2, <2>2, ReachTwo
    <3> QED
      BY <2>2, <3>1
  <2>7. Len(s) \in {1, 2} /\ Range(s) \subseteq client /\ c \notin Reach(heap, Range(s))
    BY <2>2, <2>3, <2>5, <2>6
  <2> QED
    BY <1>1, <2>3, <2>4, <2>5, <2>7, AppendStep
<1> QED
  BY <1>3, <1>4

\* A search begins at the first node of the list.
LEMMA SearchBegins ==
  ASSUME NEW home, InOrder(heap, client, call, dropped, home), NEW c \in Known("list"),
         NEW op \in {"get", "set", "length"}, NEW index \in Nat, NEW d \in Int,
         op = "set" => d \in MayGive(c), Search(op, c, index, d)
  PROVE  heap' = heap /\ InOrder(heap, client, call', dropped, home) /\ client' = client /\ dropped' = dropped
<1> DEFINE first == heap[Struct(c)].kids[1]
<1>1. c \in DOMAIN heap /\ heap[c].type = "list"
  BY KnownIs
<1>2. heap \in Seq(Cell) /\ IsHeap(heap) /\ Shaped(heap) /\ Homed(heap, home)
  BY RootsAre
<1>3. Struct(c) = heap[c].kids[1] /\ Struct(c) \in DOMAIN heap /\ heap[Struct(c)].type = "list_t"
  BY <1>1, <1>2 DEF Struct, Shaped, Shape, StructHeld
<1>4. Leads(heap, first, {"node"}) /\ (first # Null => home[first] = Struct(c)) /\ first \in Int
  <2>1. Leads(heap, first, {"node"})
    BY <1>2, <1>3 DEF Shaped, Shape
  <2>2. first # Null => home[first] = Struct(c)
    BY <1>2, <1>3 DEF Homed
  <2>3. first \in Int
    BY <1>2, <2>1 DEF Leads, IsHeap, Null
  <2> QED
    BY <2>1, <2>2, <2>3
<1>5. c \in Int
  BY <1>1, <1>2 DEF IsHeap
<1>6. call = NoCall /\ call' = [NoCall EXCEPT !.op = op, !.c = c, !.index = index, !.data = d, !.next_node = first]
      /\ heap' = heap /\ client' = client /\ dropped' = dropped
  BY DEF Search, Idle
<1> HIDE DEF first
<1>7. /\ call' \in Calls /\ call'.got = << >> /\ call'.op = op /\ call'.c = c /\ call'.data = d
      /\ call'.next_node = first
  <2>1. call' = [op |-> op, type |-> "", size |-> 0, got |-> << >>,
                 c |-> c, index |-> index, data |-> d, i |-> 0, next_node |-> first]
    BY <1>6 DEF NoCall
  <2>2. << >> \in Seq(Int) /\ op \in {"none", "create", "get", "set", "length"} /\ index \in Int
    OBVIOUS
  <2>3. call' \in Calls
    BY <1>4, <1>5, <2>1, <2>2 DEF Calls
  <2> QED
    BY <2>1, <2>3
<1>8. CallOK(heap, client, call', home)
  <2>1. op = "set" => d \in client /\ c \notin Reach(heap, {d})
    BY DEF MayGive
  <2> QED
    BY <1>1, <1>3, <1>4, <1>7, <2>1 DEF CallOK, Leads
<1>9. call.got = << >>
  BY <1>6, NoCallIs
<1> QED
  BY <1>6, <1>7, <1>8, <1>9, CallChanges

\* A search goes on to the next node.
LEMMA SearchGoesOn ==
  ASSUME NEW home, InOrder(heap, client, call, dropped, home), NextNode
  PROVE  heap' = heap /\ InOrder(heap, client, call', dropped, home) /\ client' = client /\ dropped' = dropped
<1> DEFINE p == call.next_node
           next == Last(heap[p].kids)
<1>1. heap \in Seq(Cell) /\ IsHeap(heap) /\ Shaped(heap) /\ Homed(heap, home)
  BY RootsAre
<1>2. call \in Calls /\ CallOK(heap, client, call, home) /\ call.op \in {"get", "set", "length"} /\ p # Null
  BY DEF InOrder, NextNode, Searching, Before
<1>3. p \in DOMAIN heap /\ heap[p].type = "node" /\ home[p] = heap[call.c].kids[1] /\ call.got = << >>
  BY <1>2 DEF CallOK
<1>4. Leads(heap, next, {"node"}) /\ (next # Null => home[next] = home[p]) /\ next \in Int
  <2>1. Leads(heap, next, {"node"})
    BY <1>1, <1>3 DEF Shaped, Shape
  <2>2. next # Null => home[next] = home[p]
    BY <1>1, <1>3 DEF Homed
  <2>3. next \in Int
    BY <1>1, <2>1 DEF Leads, IsHeap, Null
  <2> QED
    BY <2>1, <2>2, <2>3
<1>5. call' = [call EXCEPT !.next_node = next, !.i = @ + 1]
      /\ heap' = heap /\ client' = client /\ dropped' = dropped
  BY DEF NextNode
<1> HIDE DEF next, p
<1>6. /\ call' \in Calls /\ call'.got = << >> /\ call'.op = call.op /\ call'.c = call.c
      /\ call'.data = call.data /\ call'.next_node = next
  <2>1. call \in [op : {"none", "create", "get", "set", "length"}, type : DataTypes \union {""},
          size : Nat, got : Seq(Int), c : Int, index : Int, data : Int, i : Nat, next_node : Int]
    BY <1>2 DEF Calls
  <2>2. call.i + 1 \in Nat
    <3>1. PICK i : i = call.i
      OBVIOUS
    <3>2. i \in Nat
      BY <2>1, <3>1
    <3>3. i + 1 \in Nat
      BY <3>2
    <3> QED
      BY <3>1, <3>3
  <2>3. call' \in Calls
    BY <1>4, <1>5, <2>1, <2>2 DEF Calls
  <2>4. /\ call'.got = call.got /\ call'.op = call.op /\ call'.c = call.c
        /\ call'.data = call.data /\ call'.next_node = next
    BY <1>5, <2>1
  <2> QED
    BY <1>3, <2>3, <2>4
<1>7. CallOK(heap, client, call', home)
  BY <1>2, <1>3, <1>4, <1>6 DEF CallOK, Leads
<1> QED
  BY <1>3, <1>5, <1>6, <1>7, CallChanges

\* A search that finds the node replaces its element.
LEMMA SetStep ==
  ASSUME NEW home, InOrder(heap, client, call, dropped, home), SetReplaces
  PROVE  Len(heap') = Len(heap) /\ InOrder(heap', client', call', dropped', home)
<1> DEFINE p == call.next_node
           d == call.data
<1>1. heap \in Seq(Cell) /\ IsHeap(heap) /\ Shaped(heap) /\ HeapOK(heap, home)
      /\ client \in SUBSET Int
      /\ \A q \in client : Free(heap, q) /\ q # Null /\ heap[q].type \in DataTypes
  BY RootsAre DEF InOrder
<1>2. CallOK(heap, client, call, home) /\ call.op = "set" /\ p # Null
  BY DEF InOrder, SetReplaces
<1>3. /\ p \in DOMAIN heap /\ heap[p].type = "node" /\ home[p] = heap[call.c].kids[1] /\ call.got = << >>
      /\ call.c \in DOMAIN heap /\ heap[call.c].type = "list"
      /\ d \in client /\ call.c \notin Reach(heap, {d})
  BY <1>2 DEF CallOK
<1>4. DataPlace(heap, p, 1)
  <2>1. Len(heap[p].kids) \in {2, 3}
    BY <1>1, <1>3 DEF Shaped, Shape
  <2>2. \A m \in {2, 3} : 1 \in 1 .. m /\ 1 < m
    OBVIOUS
  <2>3. DOMAIN heap[p].kids = 1 .. Len(heap[p].kids)
    BY <1>1, <1>3, CellIs
  <2> QED
    BY <1>3, <2>1, <2>2, <2>3 DEF DataPlace
<1>5. p \notin Reach(heap, {d})
  <2>1. AllFree(heap, {d}) /\ AllData(heap, {d}) /\ {d} \in SUBSET Int
    BY <1>1, <1>3 DEF AllFree, AllData
  <2> HIDE DEF p, d
  <2>2. \A q \in DOMAIN heap : heap[q].type = "node" /\ home[q] = heap[call.c].kids[1] => q \notin Reach(heap, {d})
    BY <1>1, <1>3, <2>1, NotUnder
  <2> QED
    BY <1>3, <2>2
<1>6. /\ heap' = Replaced(heap, p, 1, d)
      /\ dropped' = dropped \union Abandoned(heap, {heap[p].kids[1]})
      /\ client' = client \ {d} /\ call' = NoCall
  BY DEF SetReplaces, Replies
<1> HIDE DEF p, d
<1>7. Len(heap') = Len(heap)
         /\ InOrder(heap', client \ {d}, NoCall, dropped \union Abandoned(heap, {heap[p].kids[1]}), home)
  BY <1>3, <1>4, <1>5, <1>6, ReplaceStep
<1> QED
  BY <1>6, <1>7

\* An element of a tuple is replaced in its place.
LEMMA TupleSetStep ==
  ASSUME NEW home, InOrder(heap, client, call, dropped, home), NEW c \in Known("tuple"),
         NEW index \in Nat, TupleSetReplaces(c, index)
  PROVE  Len(heap') = Len(heap) /\ InOrder(heap', client', call', dropped', home)
<1> DEFINE t == heap[c].kids[1]
           p == heap[t].kids[1]
           k == index + 1
<1>1. heap \in Seq(Cell) /\ IsHeap(heap) /\ Sound(heap) /\ Shaped(heap)
      /\ client \in SUBSET Int
      /\ \A q \in client : Free(heap, q) /\ q # Null /\ heap[q].type \in DataTypes
  BY RootsAre
<1>2. c \in DOMAIN heap /\ heap[c].type = "tuple"
  BY KnownIs
<1>3. Len(heap[c].kids) = 1 /\ t \in DOMAIN heap /\ heap[t].type = "tuple_t"
  BY <1>1, <1>2 DEF Shaped, Shape, StructHeld
<1>4. Len(heap[t].kids) = 1 /\ p \in DOMAIN heap /\ heap[p].type = "elements"
      /\ Len(heap[p].kids) = heap[t].size
  BY <1>1, <1>3 DEF Shaped, Shape, StructHeld
<1>5. PICK d \in MayGive(c) : heap' = Replaced(heap, p, k, d) /\ client' = client \ {d}
  BY DEF TupleSetReplaces, Struct
<1>6. /\ call = NoCall /\ call' = call /\ index < heap[t].size
      /\ dropped' = dropped \union Abandoned(heap, {heap[p].kids[k]})
  BY DEF TupleSetReplaces, Struct, Elements, InTuple, Idle
<1>7. d \in client /\ c \notin Reach(heap, {d}) /\ {d} \in SUBSET Int /\ AllFree(heap, {d})
      /\ heap[d].type \in DataTypes
  BY <1>1, <1>5 DEF MayGive, AllFree
<1>8. DataPlace(heap, p, k)
  <2>1. DOMAIN heap[p].kids = 1 .. Len(heap[p].kids) /\ Len(heap[p].kids) \in Nat
    BY <1>1, <1>4, CellIs
  <2>2. k \in 1 .. Len(heap[p].kids)
    <3> DEFINE m == Len(heap[p].kids)
    <3>1. m \in Nat /\ index < m
      BY <1>4, <1>6, <2>1
    <3> HIDE DEF m
    <3>2. k \in 1 .. m
      BY <3>1
    <3> QED
      BY <3>2 DEF m
  <2> QED
    BY <1>4, <2>1, <2>2 DEF DataPlace
<1> HIDE DEF k, p, t
<1>9. t \in Range(heap[c].kids) /\ p \in Range(heap[t].kids)
  <2>1. DOMAIN heap[c].kids = 1 .. 1 /\ DOMAIN heap[t].kids = 1 .. 1
    BY <1>1, <1>2, <1>3, <1>4, CellIs
  <2>2. 1 \in 1 .. 1
    OBVIOUS
  <2> QED
    BY <2>1, <2>2 DEF Range, t, p
<1>10. t \notin Reach(heap, {d})
  BY <1>1, <1>2, <1>7, <1>9, KidsStay
<1>11. p \notin Reach(heap, {d})
  BY <1>1, <1>3, <1>7, <1>9, <1>10, KidsStay
<1>12. Len(heap') = Len(heap)
         /\ InOrder(heap', client \ {d}, NoCall, dropped \union Abandoned(heap, {heap[p].kids[k]}), home)
  <2>1. call.got = << >>
    BY <1>6, NoCallIs
  <2> QED
    BY <1>5, <1>7, <1>8, <1>11, <2>1, ReplaceStep
<1> QED
  BY <1>5, <1>6, <1>12

(***************************************************************************)
(* The steps of a constructor                                              *)
(***************************************************************************)

\* What each constructor allocates: the term itself at last.
LEMMA AllocationsAre ==
  ASSUME NEW type \in DataTypes
  PROVE  /\ type = "int" => Len(Allocations(type)) = 1 /\ Allocations(type)[1] = type
         /\ IsText(type) => /\ Len(Allocations(type)) = 2
                            /\ Allocations(type)[1] = "text" /\ Allocations(type)[2] = type
         /\ type = "tuple" => /\ Len(Allocations(type)) = 3 /\ Allocations(type)[1] = "elements"
                              /\ Allocations(type)[2] = "tuple_t" /\ Allocations(type)[3] = type
         /\ type = "list" => /\ Len(Allocations(type)) = 2
                             /\ Allocations(type)[1] = "list_t" /\ Allocations(type)[2] = type
         /\ type = "dict" => /\ Len(Allocations(type)) = 2
                             /\ Allocations(type)[1] = "dict_t" /\ Allocations(type)[2] = type
         /\ \/ type = "int"
            \/ IsText(type)
            \/ type \in {"tuple", "list", "dict"}
<1>1. type \in {"int", "atom", "string", "bin", "regex", "tuple", "list", "dict"}
  BY DataAre
<1>2. CASE type = "int"
  <2>1. ~IsText(type)
    BY <1>2 DEF IsText, IsShort, IsLong
  <2>2. Allocations(type) = <<type>>
    BY <1>2, <2>1 DEF Allocations
  <2> QED
    BY <1>2, <2>1, <2>2
<1>3. CASE type \in {"atom", "string", "bin", "regex"}
  <2>1. IsText(type) /\ type \notin {"int", "tuple", "list", "dict"}
    BY <1>3 DEF IsText, IsShort, IsLong
  <2>2. Allocations(type) = <<"text", type>>
    BY <2>1 DEF Allocations
  <2> QED
    BY <2>1, <2>2
<1>4. CASE type \in {"tuple", "list", "dict"}
  <2>1. ~IsText(type) /\ type # "int"
    BY <1>4 DEF IsText, IsShort, IsLong
  <2>3. CASE type = "tuple"
    <3>1. type # "list" /\ type # "dict"
      BY <2>3
    <3>2. Allocations(type) = <<"elements", "tuple_t", type>>
      BY <2>1, <2>3, <3>1 DEF Allocations
    <3> QED
      BY <2>1, <2>3, <3>1, <3>2
  <2>4. CASE type = "list"
    <3>1. type # "tuple" /\ type # "dict"
      BY <2>4
    <3>2. Allocations(type) = <<"list_t", type>>
      BY <2>1, <2>4, <3>1 DEF Allocations
    <3> QED
      BY <2>1, <2>4, <3>1, <3>2
  <2>5. CASE type = "dict"
    <3>1. type # "tuple" /\ type # "list"
      BY <2>5
    <3>2. Allocations(type) = <<"dict_t", type>>
      BY <2>1, <2>5, <3>1 DEF Allocations
    <3> QED
      BY <2>1, <2>5, <3>1, <3>2
  <2> QED
    BY <1>4, <2>3, <2>4, <2>5
<1> QED
  BY <1>1, <1>2, <1>3, <1>4

\* The length a constructor keeps.
LEMMA LengthIs ==
  ASSUME NEW type \in DataTypes, NEW size \in Sizes
  PROVE  /\ Length(type, size) \in Nat
         /\ IsLong(type) => Length(type, size) \in Longs
<1>1. size \in Nat /\ ShortSizes \in Nat \ {0} /\ LongSizes \in Nat \ {0}
  BY ContainersAssumption
<1>2. size % LongSizes \in Nat /\ size % ShortSizes \in Nat
  BY <1>1
<1>3. IsLong(type) => ~IsShort(type) /\ type # "tuple"
  BY DEF IsLong, IsShort
<1>4. Length(type, size) \in {size % ShortSizes, size % LongSizes, size, 0}
  BY DEF Length
<1>5. IsLong(type) => Length(type, size) = size % LongSizes
  BY <1>3 DEF Length
<1>6. size % LongSizes \in Longs
  BY DEF Longs
<1> QED
  BY <1>1, <1>2, <1>4, <1>5, <1>6

\* The room for a text is a number.
LEMMA RoomIs ==
  ASSUME NEW type, NEW length \in Nat
  PROVE  RoomForText(type, length) \in Nat
<1>1. \A m \in Nat \ {0} : (length + 1) % m \in Nat
  OBVIOUS
<1>2. LongSizes \in Nat \ {0}
  BY ContainersAssumption
<1>3. (length + 1) % LongSizes \in Nat /\ length + 1 \in Nat
  BY <1>1, <1>2
<1> QED
  BY <1>3 DEF RoomForText

\* A constructor begins with nothing allocated.
LEMMA CreateBegins ==
  ASSUME NEW home, InOrder(heap, client, call, dropped, home), NEW type \in DataTypes,
         NEW size \in Sizes, bert_data_create(type, size)
  PROVE  heap' = heap /\ InOrder(heap, client, call', dropped, home) /\ client' = client /\ dropped' = dropped
<1> DEFINE length == Length(type, size)
<1>1. call = NoCall /\ call' = [NoCall EXCEPT !.op = "create", !.type = type, !.size = length]
      /\ heap' = heap /\ client' = client /\ dropped' = dropped
  BY DEF bert_data_create, Idle
<1>2. length \in Nat /\ (IsLong(type) => length \in Longs)
  BY LengthIs
<1> HIDE DEF length
<1>3. /\ call' \in Calls /\ call'.got = << >> /\ call'.op = "create" /\ call'.type = type
      /\ call'.size = length /\ call'.next_node = Null
  <2>1. call' = [op |-> "create", type |-> type, size |-> length, got |-> << >>,
                 c |-> Null, index |-> 0, data |-> Null, i |-> 0, next_node |-> Null]
    BY <1>1 DEF NoCall
  <2>2. << >> \in Seq(Int)
    OBVIOUS
  <2>3. type \in DataTypes \union {""} /\ Null \in Int /\ "create" \in {"none", "create", "get", "set", "length"}
    <3>1. Null \in Int
      BY DEF Null
    <3>2. type \in DataTypes \union {""}
      OBVIOUS
    <3>3. "create" \in {"none", "create", "get", "set", "length"}
      OBVIOUS
    <3> QED
      BY <3>1, <3>2, <3>3
  <2>4. PICK op : op = "create"
    OBVIOUS
  <2>5. op \in {"none", "create", "get", "set", "length"} /\ 0 \in Int /\ 0 \in Nat
    BY <2>4
  <2>6. call' = [op |-> op, type |-> type, size |-> length, got |-> << >>,
                 c |-> Null, index |-> 0, data |-> Null, i |-> 0, next_node |-> Null]
    BY <2>1, <2>4
  <2>7. call' \in Calls
    BY <1>2, <2>2, <2>3, <2>5, <2>6 DEF Calls
  <2> QED
    BY <2>1, <2>7
<1>4. Len(<< >>) < Len(Allocations(type))
  <2>1. Len(<< >>) = 0
    OBVIOUS
  <2>2. Len(Allocations(type)) \in {1, 2, 3}
    BY AllocationsAre
  <2> QED
    BY <2>1, <2>2
<1>5. CallOK(heap, client, call', home)
  BY <1>2, <1>3, <1>4 DEF CallOK, GotOK
<1>6. call.got = << >>
  BY <1>1, NoCallIs
<1> QED
  BY <1>1, <1>3, <1>5, <1>6, CallChanges

\* What a running constructor has allocated hangs together: all of it is reached from the last.
LEMMA GotIs ==
  ASSUME NEW home, InOrder(heap, client, call, dropped, home), call.op = "create",
         NEW got, got = call.got, got # << >>, NEW l, l = Last(got)
  PROVE  /\ l \in Int /\ l \in Range(got) /\ Free(heap, l)
         /\ heap[l].type \in {"text", "elements", "tuple_t", "list_t", "dict_t"}
         /\ Reach(heap, {l}) = Range(got)
         /\ \A q \in Range(got) : heap[q].type \in {"text", "elements", "tuple_t", "list_t", "dict_t"}
<1> DEFINE type == call.type
           Parts == {"text", "elements", "tuple_t", "list_t", "dict_t"}
<1>1. heap \in Seq(Cell) /\ IsHeap(heap) /\ Sound(heap) /\ Shaped(heap)
  BY RootsAre
<1> HIDE DEF Parts
<1>11. \A t : t \in Parts <=> t \in {"text", "elements", "tuple_t", "list_t", "dict_t"}
  BY DEF Parts
<1>2. type \in DataTypes /\ GotOK(heap, call) /\ got \in Seq(Int)
  BY DEF InOrder, CallOK, Calls
<1>3. Len(got) \in Nat /\ DOMAIN got = 1 .. Len(got) /\ Len(got) # 0 /\ l = got[Len(got)]
      /\ \A k \in DOMAIN got : got[k] \in Int
  BY <1>2 DEF Last
<1>4. /\ type = "int" => Len(got) < 1
      /\ IsText(type) \/ type \in {"list", "dict"} => Len(got) < 2
      /\ type = "tuple" => Len(got) < 3
  <2>1. Len(got) < Len(Allocations(type))
    BY <1>2 DEF GotOK, type
  <2>2. /\ type = "int" => Len(Allocations(type)) = 1
        /\ IsText(type) \/ type \in {"list", "dict"} => Len(Allocations(type)) = 2
        /\ type = "tuple" => Len(Allocations(type)) = 3
    BY <1>2, AllocationsAre
  <2> QED
    BY <2>1, <2>2
<1> HIDE DEF type
<1>5. \A q : Free(heap, q) => q \in DOMAIN heap /\ q \in Int /\ q # Null
  BY <1>1 DEF Free, Live, IsHeap, Null
<1>6. ASSUME Len(got) = 1, Free(heap, got[1]), heap[got[1]].type \in Parts,
             Range(heap[got[1]].kids) \subseteq {Null}
      PROVE  /\ l \in Int /\ l \in Range(got) /\ Free(heap, l) /\ heap[l].type \in Parts
             /\ Reach(heap, {l}) = Range(got)
             /\ \A q \in Range(got) : heap[q].type \in Parts
  <2>1. l = got[1] /\ Range(got) = {l}
    <3>1. DOMAIN got = {1} /\ l = got[1]
      BY <1>3, <1>6
    <3> QED
      BY <3>1 DEF Range
  <2>2. {l} \in SUBSET Int /\ l # Null /\ l \in DOMAIN heap
    BY <1>5, <1>6, <2>1
  <2>3. Range(Followed(heap, l)) \subseteq {l} \union {Null}
    BY <1>1, <1>6, <2>1, <2>2, FollowedIs
  <2>4. Reach(heap, {l}) \subseteq {l}
    <3>1. \A p \in {l} : Range(Followed(heap, p)) \subseteq {l} \union {Null}
      BY <2>3
    <3> QED
      BY <1>1, <2>2, <3>1, ReachLeast
  <2>5. l \in Reach(heap, {l})
    BY <1>1, <2>2, ReachStored
  <2>6. Reach(heap, {l}) = Range(got)
    BY <2>1, <2>4, <2>5
  <2> QED
    BY <1>6, <2>1, <2>2, <2>6
<1>7. CASE type = "int"
  BY <1>3, <1>4, <1>7
<1>8. CASE IsText(type)
  <2>1. Len(got) = 1
    <3>1. \A n \in Nat : n # 0 /\ n < 2 => n = 1
      OBVIOUS
    <3>2. Len(got) < 2
      BY <1>4, <1>8
    <3> QED
      BY <1>3, <3>1, <3>2
  <2>2. Free(heap, got[1]) /\ heap[got[1]].type = "text"
    BY <1>2, <1>8 DEF GotOK, type
  <2>3. heap[got[1]].kids = << >>
    BY <1>1, <1>5, <2>2 DEF Shaped, Shape
  <2>4. Range(heap[got[1]].kids) \subseteq {Null}
    BY <2>3, RangeOfNothing
  <2> QED
    BY <1>6, <1>11, <2>1, <2>2, <2>4
<1>9. CASE type \in {"list", "dict"}
  <2>1. Len(got) = 1
    <3>1. \A n \in Nat : n # 0 /\ n < 2 => n = 1
      OBVIOUS
    <3>2. Len(got) < 2
      BY <1>4, <1>9
    <3> QED
      BY <1>3, <3>1, <3>2
  <2>2. Free(heap, got[1]) /\ heap[got[1]].type \in Parts /\ heap[got[1]].kids = <<Null>>
    BY <1>2, <1>9, <1>11 DEF GotOK, type
  <2>3. Range(heap[got[1]].kids) \subseteq {Null}
    BY <2>2 DEF Range
  <2> QED
    BY <1>6, <1>11, <2>1, <2>2, <2>3
<1>10. CASE type = "tuple"
  <2>1. Len(got) \in {1, 2}
    <3>1. \A n \in Nat : n # 0 /\ n < 3 => n \in {1, 2}
      OBVIOUS
    <3>2. Len(got) < 3
      BY <1>4, <1>10
    <3> QED
      BY <1>3, <3>1, <3>2
  <2>2. /\ Live(heap, got[1]) /\ heap[got[1]].type = "elements"
        /\ \A k \in DOMAIN heap[got[1]].kids : heap[got[1]].kids[k] = Null
        /\ Len(got) = 1 => Free(heap, got[1])
        /\ Len(got) = 2 => /\ Free(heap, got[2]) /\ heap[got[2]].type = "tuple_t"
                           /\ heap[got[2]].kids = <<got[1]>>
    BY <1>2, <1>10 DEF GotOK, type
  <2>3. Range(heap[got[1]].kids) \subseteq {Null}
    BY <2>2 DEF Range
  <2>4. CASE Len(got) = 1
    BY <1>6, <1>11, <2>2, <2>3, <2>4
  <2>5. CASE Len(got) = 2
    <3>1. l = got[2] /\ DOMAIN got = {1, 2}
      BY <1>3, <2>5
    <3>2. Range(got) = {got[1], l}
      BY <3>1 DEF Range
    <3>3. Free(heap, l) /\ l \in DOMAIN heap /\ l \in Int /\ l # Null
      BY <1>5, <2>2, <2>5, <3>1
    <3>4. got[1] \in Int /\ got[1] \in DOMAIN heap /\ got[1] # Null
      BY <1>1, <1>3, <2>2, <3>1 DEF Live, IsHeap, Null
    <3>5. Range(heap[l].kids) = {got[1]}
      <4>1. heap[l].kids = <<got[1]>>
        BY <2>2, <2>5, <3>1
      <4>2. Range(<<got[1]>>) = {got[1]}
        BY DEF Range
      <4> QED
        BY <4>1, <4>2
    <3>6. Followed(heap, l) = heap[l].kids
      BY <2>2, <2>5, <3>1, <3>3 DEF Followed, Free
    <3>7. Reach(heap, {l}) \subseteq Range(got)
      <4>1. Range(Followed(heap, l)) \subseteq Range(got) \union {Null}
        BY <3>2, <3>5, <3>6
      <4>2. Range(Followed(heap, got[1])) \subseteq Range(got) \union {Null}
        BY <1>1, <2>3, <3>4, FollowedIs
      <4>3. {l} \in SUBSET Int /\ {l} \subseteq Range(got) \union {Null}
            /\ \A p \in Range(got) : Range(Followed(heap, p)) \subseteq Range(got) \union {Null}
        BY <3>2, <3>3, <4>1, <4>2
      <4> QED
        BY <1>1, <4>3, ReachLeast
    <3>8. l \in Reach(heap, {l}) /\ {l} \in SUBSET Int
      BY <1>1, <3>3, ReachStored
    <3>9. got[1] \in Reach(heap, {l})
      BY <1>1, <3>4, <3>5, <3>6, <3>8, ReachClosed
    <3>10. heap[l].type = "tuple_t"
      BY <2>2, <2>5, <3>1
    <3> QED
      BY <1>11, <2>2, <3>2, <3>3, <3>7, <3>8, <3>9, <3>10
  <2> QED
    BY <2>1, <2>4, <2>5
<1> QED
  <2>1. type = "int" \/ IsText(type) \/ type \in {"list", "dict"} \/ type = "tuple"
    BY <1>2, AllocationsAre
  <2> QED
    BY <1>7, <1>8, <1>9, <1>10, <2>1, Zenon

\* What a new block has, and where it is.
LEMMA BlockIs ==
  ASSUME NEW h \in Seq(Cell), NEW t \in Kinds, NEW kids \in Seq(Int), NEW size \in Nat
  PROVE  LET cell == Block(t, kids, size)
             g == Append(h, cell)
         IN  /\ cell \in Cell /\ cell.type = t /\ cell.kids = kids /\ cell.size = size /\ cell.tail = Null
             /\ t # "freed"
             /\ g[Len(h) + 1] = cell
             /\ \A q \in DOMAIN h : q \in DOMAIN g /\ g[q] = h[q]
<1> DEFINE cell == Block(t, kids, size)
           g == Append(h, cell)
<1>1. cell = [type |-> t, kids |-> kids, size |-> size, tail |-> Null]
  BY DEF Block
<1>2. Null \in Int
  BY DEF Null
<1>3. cell \in Cell /\ cell.type = t /\ cell.kids = kids /\ cell.size = size /\ cell.tail = Null
  BY <1>1, <1>2 DEF Cell
<1>4. t # "freed"
  BY DEF Kinds
<1> HIDE DEF cell
<1>5. g[Len(h) + 1] = cell /\ \A q \in DOMAIN h : q \in DOMAIN g /\ g[q] = h[q]
  BY <1>3
<1> QED
  BY <1>3, <1>4, <1>5 DEF cell

\* A block that holds no pointer yet.
LEMMA NullsWell ==
  ASSUME NEW h \in Seq(Cell), NEW t \in {"int", "text", "elements", "list_t", "dict_t"},
         NEW kids \in Seq(Int), NEW size \in Nat,
         \A k \in DOMAIN kids : kids[k] = Null,
         t \in {"int", "text"} => kids = << >>,
         t \in {"list_t", "dict_t"} => Len(kids) = 1
  PROVE  CellWell(h, Block(t, kids, size))
<1> DEFINE n == Len(h) + 1
<1>1. t \in Kinds /\ ~IsText(t) /\ t \notin {"tuple", "tuple_t", "list", "dict", "node"}
  BY DEF Kinds, IsText, IsShort, IsLong
<1>2. PICK cell : cell = Block(t, kids, size)
  OBVIOUS
<1>3. PICK g : g = Append(h, cell)
  OBVIOUS
<1>4. /\ cell \in Cell /\ cell.type = t /\ cell.kids = kids /\ cell.size = size /\ cell.tail = Null
      /\ t # "freed" /\ g[n] = cell
  BY <1>1, <1>2, <1>3, BlockIs
<1>5. Distinct(kids) /\ AllFree(h, Range(kids))
  BY DEF Distinct, AllFree, Range
<1>6. t \in {"list_t", "dict_t"} => kids[1] = Null
  <2>1. Len(kids) = 1 => 1 \in DOMAIN kids
    OBVIOUS
  <2> QED
    BY <2>1
<1>7. NewlyMade(cell)
  BY <1>1, <1>4, <1>6 DEF NewlyMade
<1> HIDE DEF n
<1>8. Shape(g, n)
  BY <1>1, <1>4, <1>6 DEF Shape, Leads
<1> QED
  BY <1>2, <1>3, <1>4, <1>5, <1>7, <1>8 DEF CellWell, n

\* A block that holds one that nothing held before.
LEMMA OverWell ==
  ASSUME NEW h \in Seq(Cell), NEW t \in {"atom", "string", "bin", "regex", "tuple_t", "tuple", "list", "dict"},
         NEW l \in DOMAIN h, Free(h, l), NEW size \in Nat,
         IsText(t) => h[l].type = "text" /\ h[l].size = RoomForText(t, size),
         IsLong(t) => size \in Longs,
         t = "tuple" => h[l].type = "tuple_t",
         t = "tuple_t" => h[l].type = "elements" /\ Len(h[l].kids) = size,
         t = "list" => h[l].type = "list_t",
         t = "dict" => h[l].type = "dict_t"
  PROVE  CellWell(h, Block(t, <<l>>, size))
<1> DEFINE n == Len(h) + 1
<1>1. t \in Kinds /\ t \notin {"int", "text", "elements", "list_t", "dict_t", "node"}
  BY DEF Kinds
<1>2. PICK kids : kids = <<l>>
  OBVIOUS
<1>3. kids \in Seq(Int) /\ Len(kids) = 1 /\ DOMAIN kids = {1} /\ kids[1] = l
  <2>1. l \in Int
    OBVIOUS
  <2> QED
    BY <1>2, <2>1
<1>4. PICK cell : cell = Block(t, kids, size)
  OBVIOUS
<1>5. PICK g : g = Append(h, cell)
  OBVIOUS
<1>6. /\ cell \in Cell /\ cell.type = t /\ cell.kids = kids /\ cell.size = size /\ cell.tail = Null
      /\ t # "freed" /\ g[n] = cell
      /\ \A q \in DOMAIN h : q \in DOMAIN g /\ g[q] = h[q]
  BY <1>1, <1>3, <1>4, <1>5, BlockIs
<1>7. Distinct(kids) /\ AllFree(h, Range(kids))
  BY <1>3 DEF Distinct, AllFree, Range
<1>8. NewlyMade(cell)
  BY <1>1, <1>6 DEF NewlyMade
<1> HIDE DEF n
<1>9. g[l] = h[l] /\ l \in DOMAIN g
  BY <1>6
<1>10. \A kind : h[l].type = kind => StructHeld(g, cell, kind)
  BY <1>3, <1>6, <1>9 DEF StructHeld
<1>11. IsText(t) => TextHeld(g, cell)
  BY <1>3, <1>6, <1>9 DEF TextHeld
<1>12. t = "tuple_t" => StructHeld(g, cell, "elements") /\ Len(g[cell.kids[1]].kids) = cell.size
  BY <1>3, <1>6, <1>9, <1>10
<1>13. Shape(g, n)
  BY <1>1, <1>6, <1>10, <1>11, <1>12 DEF Shape
<1> QED
  BY <1>2, <1>4, <1>5, <1>6, <1>7, <1>8, <1>13 DEF CellWell, n

\* the next block of a constructor
WithPart(c, id) == [c EXCEPT !.got = Append(@, id)]

\* The next block is kept with those before.
LEMMA WithPartIs ==
  ASSUME NEW c \in Calls, NEW id \in Int
  PROVE  /\ WithPart(c, id) \in Calls /\ WithPart(c, id).got = Append(c.got, id)
         /\ WithPart(c, id).op = c.op /\ WithPart(c, id).type = c.type /\ WithPart(c, id).size = c.size
         /\ WithPart(c, id).next_node = c.next_node
         /\ Range(WithPart(c, id).got) = Range(c.got) \union {id}
<1> DEFINE d == WithPart(c, id)
<1>1. c \in [op : {"none", "create", "get", "set", "length"}, type : DataTypes \union {""},
          size : Nat, got : Seq(Int), c : Int, index : Int, data : Int, i : Nat, next_node : Int]
  BY DEF Calls
<1>2. d = [c EXCEPT !.got = Append(c.got, id)]
  BY DEF WithPart
<1>3. c.got \in Seq(Int)
  BY <1>1
<1>4. PICK s : s = Append(c.got, id)
  OBVIOUS
<1>5. /\ s \in Seq(Int) /\ DOMAIN s = DOMAIN c.got \union {Len(c.got) + 1}
      /\ s[Len(c.got) + 1] = id /\ \A k \in DOMAIN c.got : s[k] = c.got[k]
  BY <1>3, <1>4
<1>6. Range(s) = Range(c.got) \union {id}
  BY <1>5 DEF Range
<1>7. d = [c EXCEPT !.got = s]
  BY <1>2, <1>4
<1> HIDE DEF d
<1>8. d \in Calls /\ d.got = s /\ d.op = c.op /\ d.type = c.type /\ d.size = c.size /\ d.next_node = c.next_node
  BY <1>1, <1>5, <1>7 DEF Calls
<1> QED
  BY <1>4, <1>6, <1>8 DEF d

\* The home of the nodes is the same with one block more.
LEMMA HomeGrows ==
  ASSUME NEW h \in Seq(Cell), NEW home \in [1 .. Len(h) -> Int]
  PROVE  \E home2 \in [1 .. Len(h) + 1 -> Int] : \A q \in DOMAIN h : home2[q] = home[q]
<1> DEFINE f == [q \in 1 .. Len(h) + 1 |-> IF q \in DOMAIN h THEN home[q] ELSE 0]
<1>1. DOMAIN h = 1 .. Len(h) /\ Len(h) \in Nat
  OBVIOUS
<1>2. \A q \in 1 .. Len(h) + 1 : (IF q \in DOMAIN h THEN home[q] ELSE 0) \in Int
  BY <1>1
<1>3. f \in [1 .. Len(h) + 1 -> Int]
  BY <1>2
<1>4. \A q \in DOMAIN h : f[q] = home[q]
  BY <1>1
<1> QED
  BY <1>3, <1>4

\* A constructor allocates a part of a term.
LEMMA PartMade ==
  ASSUME NEW home, InOrder(heap, client, call, dropped, home), call.op = "create",
         NEW cell, CellWell(heap, cell), cell.type \notin DataTypes, cell.type # "regex",
         Range(cell.kids) \subseteq Range(call.got) \union {Null},
         NEW home2, \A q \in DOMAIN heap : home2[q] = home[q],
         GotOK(Append(heap, cell), WithPart(call, NewId))
  PROVE  InOrder(Append(heap, cell), client, WithPart(call, NewId), dropped, home2)
<1> DEFINE g == Append(heap, cell)
           c == WithPart(call, NewId)
           a == client \union Range(call.got) \union dropped
<1>1. /\ heap \in Seq(Cell) /\ HeapOK(heap, home) /\ client \in SUBSET Int /\ dropped \in SUBSET Int
      /\ Range(call.got) \in SUBSET Int /\ IsHeap(heap)
      /\ \A q \in client : Free(heap, q) /\ q \in DOMAIN heap /\ q # Null /\ heap[q].type \in DataTypes
      /\ \A q \in dropped : Free(heap, q) /\ q \in DOMAIN heap /\ q # Null /\ heap[q].type = "text"
                            /\ q \notin Range(call.got)
  BY RootsAre DEF InOrder
<1>2. call \in Calls /\ CallOK(heap, client, call, home)
  BY DEF InOrder
<1>3. NewId = Len(heap) + 1 /\ NewId \in Int /\ NewId \notin DOMAIN heap
  BY <1>1 DEF NewId
<1>4. AppendedWell(heap, g, home2, cell)
  BY <1>1, AppendKeeps DEF CellWell
<1>5. /\ HeapOK(g, home2) /\ Free(g, NewId)
      /\ \A q \in DOMAIN heap : q \in DOMAIN g /\ g[q] = heap[q]
      /\ \A q : Free(heap, q) /\ q \notin Range(cell.kids) => Free(g, q)
  BY <1>3, <1>4 DEF AppendedWell
<1>6. /\ c \in Calls /\ c.op = "create" /\ c.type = call.type /\ c.next_node = call.next_node
      /\ Range(c.got) = Range(call.got) \union {NewId}
  BY <1>2, <1>3, WithPartIs
<1>7. \A q \in Range(cell.kids) : q = Null \/ heap[q].type \notin DataTypes
  <2>1. \A q \in Range(call.got) :
           heap[q].type \in {"text", "elements", "tuple_t", "list_t", "dict_t"}
    <3>1. CASE call.got = << >>
      BY <3>1, RangeOfNothing
    <3>2. CASE call.got # << >>
      BY <3>2, GotIs
    <3> QED
      BY <3>1, <3>2
  <2> QED
    BY <2>1, DataAre
<1>8. ClientOK(g, client)
  <2>1. \A q \in client : q \notin Range(cell.kids)
    BY <1>1, <1>7
  <2> QED
    BY <1>1, <1>5, <2>1 DEF ClientOK
<1>9. CallOK(g, client, c, home2)
  BY <1>2, <1>6 DEF CallOK
<1>10. DroppedOK(g, dropped, c.got)
  <2>1. \A q \in dropped : q \notin Range(cell.kids) /\ q \notin Range(c.got)
    BY <1>1, <1>3, <1>6
  <2> QED
    BY <1>1, <1>5, <2>1 DEF DroppedOK
<1>11. NoLoss(g, a \union {NewId})
  <2>1. a \in SUBSET Int /\ NoLoss(heap, a) /\ cell \in Cell
    BY <1>1 DEF InOrder, CellWell
  <2>2. a \union Range(cell.kids) \in SUBSET Int
    <3>1. Range(cell.kids) \in SUBSET Int
      <4>1. cell.kids \in Seq(Int)
        BY <2>1, CellsAre DEF Cells
      <4> QED
        BY <4>1 DEF Range
    <3> QED
      BY <2>1, <3>1
  <2> HIDE DEF a
  <2>3. a \subseteq (a \union Range(cell.kids)) \union {Null}
    OBVIOUS
  <2>4. NoLoss(heap, a \union Range(cell.kids))
    BY <1>1, <2>1, <2>2, <2>3, NoLossMore
  <2>5. cell.type # "freed"
    BY DEF CellWell
  <2> QED
    BY <1>1, <1>3, <2>1, <2>4, <2>5, CellsAre, NoLossAppended
<1>12. NoLoss(g, client \union Range(c.got) \union dropped)
  <2>1. client \union Range(c.got) \union dropped = a \union {NewId}
    BY <1>6
  <2> QED
    BY <1>11, <2>1
<1> HIDE DEF g, c, a
<1>13. InOrder(g, client, c, dropped, home2)
  BY <1>5, <1>6, <1>8, <1>9, <1>10, <1>12 DEF InOrder
<1> QED
  BY <1>13 DEF g, c

\* A constructor allocates the term itself, which holds what was allocated last.
LEMMA TermMade ==
  ASSUME NEW home, InOrder(heap, client, call, dropped, home), call.op = "create",
         NEW cell, CellWell(heap, cell), cell.type \in DataTypes,
         Range(cell.kids) = (IF call.got = << >> THEN {} ELSE {Last(call.got)}),
         cell.type = "regex" => call.got # << >> /\ heap[Last(call.got)].type = "text",
         NEW home2, \A q \in DOMAIN heap : home2[q] = home[q]
  PROVE  InOrder(Append(heap, cell), client \union {NewId}, NoCall, dropped, home2)
<1> DEFINE g == Append(heap, cell)
           l == Last(call.got)
           own == client \union {NewId}
           a == client \union dropped
<1>1. /\ heap \in Seq(Cell) /\ HeapOK(heap, home) /\ client \in SUBSET Int /\ dropped \in SUBSET Int
      /\ Range(call.got) \in SUBSET Int /\ IsHeap(heap) /\ Shaped(heap)
      /\ \A q \in client : Free(heap, q) /\ q \in DOMAIN heap /\ q # Null /\ heap[q].type \in DataTypes
      /\ \A q \in dropped : Free(heap, q) /\ q \in DOMAIN heap /\ q # Null /\ heap[q].type = "text"
                            /\ q \notin Range(call.got)
  BY RootsAre DEF InOrder
<1>2. NoLoss(heap, client \union Range(call.got) \union dropped)
  BY DEF InOrder
<1>3. NewId = Len(heap) + 1 /\ NewId \in Int /\ NewId \notin DOMAIN heap
  BY <1>1 DEF NewId
<1>4. AppendedWell(heap, g, home2, cell)
  BY <1>1, AppendKeeps DEF CellWell
<1>5. /\ HeapOK(g, home2) /\ Free(g, NewId) /\ g[NewId] = cell
      /\ \A q \in DOMAIN heap : q \in DOMAIN g /\ g[q] = heap[q]
      /\ \A q : Free(heap, q) /\ q \notin Range(cell.kids) => Free(g, q)
  BY <1>3, <1>4 DEF AppendedWell
<1>6. call.got # << >> => /\ l \in Int /\ l \in Range(call.got) /\ Free(heap, l)
                          /\ heap[l].type \in {"text", "elements", "tuple_t", "list_t", "dict_t"}
                          /\ Reach(heap, {l}) = Range(call.got)
  BY GotIs
<1>7. \A q \in Range(cell.kids) : q \in Range(call.got) /\ heap[q].type \notin DataTypes
  BY <1>6, DataAre
<1> HIDE DEF l
<1>8. ClientOK(g, own)
  <2>1. \A q \in client : q \notin Range(cell.kids)
    BY <1>1, <1>7
  <2> QED
    BY <1>1, <1>5, <2>1 DEF ClientOK
<1>9. NoCall \in Calls /\ CallOK(g, own, NoCall, home2) /\ NoCall.got = << >> /\ Range(NoCall.got) = {}
  BY NoCallIs, RangeOfNothing
<1>10. DroppedOK(g, dropped, NoCall.got)
  <2>1. \A q \in dropped : q \notin Range(cell.kids)
    BY <1>1, <1>7
  <2> QED
    BY <1>1, <1>5, <1>9, <2>1 DEF DroppedOK
<1>11. a \in SUBSET Int /\ cell \in Cell /\ cell.type # "freed" /\ cell.kids \in Seq(Int)
       /\ Range(cell.kids) \in SUBSET Int
  <2>1. cell \in Cell /\ cell.type # "freed"
    BY DEF CellWell
  <2>2. cell.kids \in Seq(Int)
    BY <2>1, CellsAre DEF Cells
  <2>3. Range(cell.kids) \in SUBSET Int
    BY <2>2 DEF Range
  <2> QED
    BY <1>1, <2>1, <2>2, <2>3
<1>12. NoLoss(heap, a \union Range(cell.kids))
  <2>1. a \union Range(cell.kids) \in SUBSET Int
    BY <1>11
  <2>2. client \union Range(call.got) \union dropped \in SUBSET Int
    BY <1>1
  <2>3. Range(call.got) \subseteq Reach(heap, a \union Range(cell.kids))
    <3>1. CASE call.got = << >>
      BY <3>1, RangeOfNothing
    <3>2. CASE call.got # << >>
      <4>1. Range(cell.kids) = {l} /\ Reach(heap, {l}) = Range(call.got) /\ {l} \in SUBSET Int
        BY <1>6, <3>2 DEF l
      <4>2. Reach(heap, a \union {l}) = Reach(heap, a) \union Reach(heap, {l})
        BY <1>1, <1>11, <4>1, ReachTwo
      <4> QED
        BY <4>1, <4>2
    <3> QED
      BY <3>1, <3>2
  <2>4. a \subseteq Reach(heap, a \union Range(cell.kids))
    <3>1. Null \notin a
      BY <1>1
    <3> HIDE DEF a
    <3>2. (a \union Range(cell.kids)) \ {Null} \subseteq Reach(heap, a \union Range(cell.kids))
      BY <1>1, <2>1, ReachStored
    <3> QED
      BY <3>1, <3>2
  <2>5. client \union Range(call.got) \union dropped \subseteq Reach(heap, a \union Range(cell.kids)) \union {Null}
    BY <2>3, <2>4
  <2> HIDE DEF a
  <2> QED
    BY <1>1, <1>2, <2>1, <2>2, <2>5, NoLossReached
<1> HIDE DEF a
<1>13. NoLoss(g, a \union {NewId})
  <2>1. CASE cell.type # "regex"
    BY <1>1, <1>3, <1>11, <1>12, <2>1, CellsAre, NoLossAppended
  <2>2. CASE cell.type = "regex"
    <3>1. /\ l \in DOMAIN heap /\ Live(heap, l) /\ heap[l].type = "text" /\ Range(cell.kids) = {l}
      BY <1>6, <2>2 DEF Free, Live, l
    <3>2. heap[l].kids = << >>
      BY <1>1, <3>1 DEF Shaped, Shape
    <3>3. NoLoss(heap, a \union {l})
      BY <1>12, <3>1
    <3>4. heap[l].type # "regex"
      BY <3>1
    <3> QED
      BY <1>1, <1>3, <1>11, <2>2, <3>1, <3>2, <3>3, <3>4, CellsAre, NoLossRegex
  <2> QED
    BY <2>1, <2>2
<1>14. NoLoss(g, own \union Range(NoCall.got) \union dropped)
  <2>1. own \union Range(NoCall.got) \union dropped = a \union {NewId}
    BY <1>9 DEF a
  <2> QED
    BY <1>13, <2>1
<1> HIDE DEF g, own
<1>15. InOrder(g, own, NoCall, dropped, home2)
  BY <1>5, <1>8, <1>9, <1>10, <1>14 DEF InOrder
<1> QED
  BY <1>15 DEF g, own

\* What each call of malloc is for.
LEMMA FreshIs ==
  ASSUME NEW kind
  PROVE  /\ kind = "text" => Fresh(kind) = Block("text", << >>, RoomForText(call.type, call.size))
         /\ kind = "elements" => Fresh(kind) = Block("elements", [k \in 1 .. call.size |-> Null], 0)
         /\ kind \in {"list_t", "dict_t"} => Fresh(kind) = Block(kind, <<Null>>, 0)
         /\ kind \notin {"text", "elements", "list_t", "dict_t"} =>
              /\ call.got = << >> => Fresh(kind) = Block(kind, << >>, call.size)
              /\ call.got # << >> => Fresh(kind) = Block(kind, <<Last(call.got)>>, call.size)
<1>1. CASE kind = "text"
  <2>1. kind # "elements" /\ kind \notin {"list_t", "dict_t"}
    BY <1>1
  <2> QED
    BY <1>1, <2>1 DEF Fresh
<1>2. CASE kind = "elements"
  <2>1. kind # "text" /\ kind \notin {"list_t", "dict_t"}
    BY <1>2
  <2>2. Fresh(kind) = Block(kind, [k \in 1 .. call.size |-> Null], 0)
    BY <1>2, <2>1 DEF Fresh
  <2> QED
    BY <1>2, <2>1, <2>2
<1>3. CASE kind \in {"list_t", "dict_t"}
  <2>1. kind # "text" /\ kind # "elements"
    BY <1>3
  <2>2. Fresh(kind) = Block(kind, <<Null>>, 0)
    BY <1>3, <2>1 DEF Fresh
  <2> QED
    BY <1>3, <2>1, <2>2
<1>4. CASE kind \notin {"text", "elements", "list_t", "dict_t"}
  <2>1. kind # "text" /\ kind # "elements" /\ kind \notin {"list_t", "dict_t"}
    BY <1>4
  <2>2. Fresh(kind) = Block(kind, IF call.got = << >> THEN << >> ELSE <<Last(call.got)>>, call.size)
    BY <2>1 DEF Fresh
  <2> QED
    BY <2>1, <2>2
<1> QED
  BY <1>1, <1>2, <1>3, <1>4

\* the block allocated next: a part, which is kept with what was got, or the term itself
NextPart(cell) ==
  /\ CellWell(heap, cell) /\ cell.type \notin DataTypes /\ cell.type # "regex"
  /\ Range(cell.kids) \subseteq Range(call.got) \union {Null}
  /\ GotOK(Append(heap, cell), WithPart(call, NewId))

NextTerm(cell) ==
  /\ CellWell(heap, cell) /\ cell.type \in DataTypes
  /\ Range(cell.kids) = (IF call.got = << >> THEN {} ELSE {Last(call.got)})
  /\ cell.type = "regex" => call.got # << >> /\ heap[Last(call.got)].type = "text"

\* The terms that hold what was got.
LEMMA TermOver ==
  ASSUME NEW home, InOrder(heap, client, call, dropped, home), call.op = "create", call.got # << >>,
         NEW type, type = call.type,
         NEW l, l = Last(call.got),
         IsText(type) => heap[l].type = "text" /\ heap[l].size = RoomForText(type, call.size),
         type \in {"atom", "string", "bin", "regex", "tuple", "list", "dict"},
         IsLong(type) => call.size \in Longs,
         type = "tuple" => heap[l].type = "tuple_t",
         type = "list" => heap[l].type = "list_t",
         type = "dict" => heap[l].type = "dict_t"
  PROVE  NextTerm(Fresh(type))
<1>1. heap \in Seq(Cell) /\ IsHeap(heap)
  BY RootsAre
<1>2. Free(heap, l) /\ l \in DOMAIN heap
  BY <1>1, GotIs DEF Free, Live
<1>3. call.size \in Nat /\ type \in DataTypes /\ type \in Kinds
  <2>1. call \in Calls
    BY DEF InOrder
  <2>2. call.size \in Nat
    BY <2>1 DEF Calls
  <2>3. call.type \in DataTypes
    BY DEF InOrder, CallOK
  <2> QED
    BY <2>2, <2>3 DEF Kinds
<1>4. CellWell(heap, Block(type, <<l>>, call.size))
  <2>1. type # "tuple_t"
    OBVIOUS
  <2>2. type \in {"atom", "string", "bin", "regex", "tuple_t", "tuple", "list", "dict"}
    OBVIOUS
  <2> QED
    BY <1>1, <1>2, <1>3, <2>1, <2>2, OverWell
<1>5. Fresh(type) = Block(type, <<l>>, call.size)
  <2>1. type \notin {"text", "elements", "list_t", "dict_t"}
    OBVIOUS
  <2> QED
    BY <2>1, FreshIs
<1>6. PICK s : s = <<l>>
  OBVIOUS
<1>7. s \in Seq(Int) /\ Range(s) = {l}
  <2>1. l \in Int
    BY <1>1, <1>2 DEF IsHeap
  <2>2. DOMAIN s = {1} /\ s[1] = l
    BY <1>6
  <2> QED
    BY <1>6, <2>1, <2>2 DEF Range
<1>8. PICK cell : cell = Block(type, s, call.size)
  OBVIOUS
<1>9. cell.kids = s /\ cell.type = type
  BY <1>1, <1>3, <1>7, <1>8, BlockIs
<1>10. CellWell(heap, cell) /\ Fresh(type) = cell
  BY <1>4, <1>5, <1>6, <1>8
<1>11. type = "regex" => IsText(type)
  BY DEF IsText, IsLong
<1>12. NextTerm(cell)
  BY <1>3, <1>7, <1>9, <1>10, <1>11 DEF NextTerm
<1> QED
  BY <1>10, <1>12

\* block id is there and nothing holds it
Stands(g, id, t, kids, size) ==
  Free(g, id) /\ g[id].type = t /\ g[id].kids = kids /\ g[id].size = size

\* A new block that holds nothing is there, and nothing holds it.
LEMMA NullsStand ==
  ASSUME NEW h \in Seq(Cell), IsHeap(h), Sound(h), NEW t \in Kinds,
         NEW kids \in Seq(Int), NEW size \in Nat, \A k \in DOMAIN kids : kids[k] = Null
  PROVE  Stands(Append(h, Block(t, kids, size)), Len(h) + 1, t, kids, size)
<1>1. PICK cell : cell = Block(t, kids, size)
  OBVIOUS
<1>2. PICK g : g = Append(h, cell)
  OBVIOUS
<1>3. /\ cell \in Cell /\ cell.type = t /\ cell.kids = kids /\ cell.size = size /\ t # "freed"
      /\ g[Len(h) + 1] = cell
  BY <1>1, <1>2, BlockIs
<1>4. Distinct(kids) /\ AllFree(h, Range(kids))
  BY DEF Distinct, AllFree, Range
<1>5. Free(g, Len(h) + 1)
  BY <1>2, <1>3, <1>4, AppendKeepsSound
<1>6. Stands(g, Len(h) + 1, t, kids, size)
  BY <1>3, <1>5 DEF Stands
<1> QED
  BY <1>1, <1>2, <1>6

\* What the first call allocates, if it is not the term.
LEMMA FirstPart ==
  ASSUME NEW home, InOrder(heap, client, call, dropped, home), call.op = "create", call.got = << >>,
         NEW type, type = call.type, type # "int",
         NEW kind, kind = Allocations(type)[1]
  PROVE  NextPart(Fresh(kind))
<1>1. heap \in Seq(Cell) /\ IsHeap(heap)
  BY RootsAre
<1>2. call \in Calls /\ type \in DataTypes /\ GotOK(heap, call)
  BY DEF InOrder, CallOK
<1>3. call.size \in Nat
  BY <1>2 DEF Calls
<1>4. IsLong(type) => call.size \in Longs
  BY <1>2 DEF GotOK
<1>5. NewId = Len(heap) + 1 /\ NewId \in Int
  BY <1>1 DEF NewId
<1> DEFINE c == WithPart(call, NewId)
<1>6. c.got = Append(call.got, NewId) /\ c.type = type /\ c.size = call.size
  BY <1>2, <1>5, WithPartIs
<1>7. c.got = <<NewId>> /\ Len(c.got) = 1 /\ c.got[1] = NewId /\ c.got # << >>
  BY <1>6
<1> HIDE DEF c
<1>8. ASSUME NEW t \in {"text", "elements", "list_t", "dict_t"}, NEW kids \in Seq(Int), NEW size \in Nat,
             \A k \in DOMAIN kids : kids[k] = Null, NEW cell, cell = Block(t, kids, size),
             t = "text" => kids = << >>,
             t \in {"list_t", "dict_t"} => Len(kids) = 1,
             GotOK(Append(heap, cell), c)
      PROVE  NextPart(cell)
  <2>1. t \in Kinds /\ t \in {"int", "text", "elements", "list_t", "dict_t"} /\ t # "int"
    BY DEF Kinds
  <2>2. CellWell(heap, cell)
    BY <1>1, <1>8, <2>1, NullsWell
  <2>3. cell.type = t /\ cell.kids = kids
    BY <1>1, <1>8, <2>1, BlockIs
  <2>4. t \notin DataTypes /\ t # "regex"
    BY DataAre
  <2>5. Range(kids) \subseteq {Null}
    BY <1>8 DEF Range
  <2> QED
    BY <1>8, <2>2, <2>3, <2>4, <2>5 DEF NextPart, c
<1>9. \A t \in Kinds, kids \in Seq(Int), size \in Nat :
        (\A k \in DOMAIN kids : kids[k] = Null) =>
          Stands(Append(heap, Block(t, kids, size)), NewId, t, kids, size)
  BY <1>1, <1>5, NullsStand, RootsAre
<1>10. Len(c.got) < 2 /\ Len(c.got) < 3
  BY <1>7
<1>11. CASE IsText(type)
  <2>1. kind = "text" /\ Len(Allocations(type)) = 2
    BY <1>2, <1>11, AllocationsAre
  <2>2. PICK kids : kids = << >>
    OBVIOUS
  <2>3. kids \in Seq(Int) /\ \A k \in DOMAIN kids : kids[k] = Null
    BY <2>2
  <2>4. PICK size : size = RoomForText(type, call.size)
    OBVIOUS
  <2>5. size \in Nat
    BY <1>3, <2>4, RoomIs
  <2>6. PICK cell : cell = Block("text", kids, size)
    OBVIOUS
  <2>7. Fresh(kind) = cell
    BY <2>1, <2>2, <2>4, <2>6, FreshIs
  <2>8. PICK g : g = Append(heap, cell)
    OBVIOUS
  <2>9. "text" \in Kinds /\ "text" # "freed"
    BY DEF Kinds
  <2>10. Free(g, NewId) /\ g[NewId].type = "text" /\ g[NewId].size = size
    <3>1. Stands(g, NewId, "text", kids, size)
      BY <1>9, <2>3, <2>5, <2>6, <2>8, <2>9, Zenon
    <3> QED
      BY <3>1 DEF Stands
  <2>11. type \notin {"tuple", "list", "dict"}
    BY <1>11 DEF IsText, IsShort, IsLong
  <2>12. GotOK(g, c)
    BY <1>4, <1>6, <1>7, <1>10, <2>1, <2>4, <2>10, <2>11 DEF GotOK
  <2>13. "text" \in {"text", "elements", "list_t", "dict_t"} /\ "text" \notin {"list_t", "dict_t"}
    OBVIOUS
  <2> QED
    BY <1>8, <2>2, <2>3, <2>5, <2>6, <2>7, <2>8, <2>12, <2>13
<1>12. CASE type = "tuple"
  <2>1. kind = "elements" /\ Len(Allocations(type)) = 3
    BY <1>2, <1>12, AllocationsAre
  <2>2. PICK kids : kids = [k \in 1 .. call.size |-> Null]
    OBVIOUS
  <2>3. kids \in Seq(Int) /\ (\A k \in DOMAIN kids : kids[k] = Null) /\ Len(kids) = call.size
    <3>1. Null \in Int
      BY DEF Null
    <3> QED
      BY <1>3, <2>2, <3>1
  <2>4. PICK cell : cell = Block("elements", kids, 0)
    OBVIOUS
  <2>5. Fresh(kind) = cell
    BY <2>1, <2>2, <2>4, FreshIs
  <2>6. PICK g : g = Append(heap, cell)
    OBVIOUS
  <2>7. "elements" \in Kinds /\ "elements" # "freed" /\ 0 \in Nat
    BY DEF Kinds
  <2>8. Free(g, NewId) /\ g[NewId].type = "elements" /\ g[NewId].kids = kids
    <3>1. Stands(g, NewId, "elements", kids, 0)
      BY <1>9, <2>3, <2>4, <2>6, <2>7, Zenon
    <3> QED
      BY <3>1 DEF Stands
  <2>9. ~IsText(type) /\ ~IsLong(type) /\ type \notin {"list", "dict"}
    BY <1>12 DEF IsText, IsShort, IsLong
  <2>10. Live(g, NewId)
    BY <2>8 DEF Free
  <2>11. GotOK(g, c)
    BY <1>6, <1>7, <1>10, <2>1, <2>3, <2>8, <2>9, <2>10 DEF GotOK
  <2>12. "elements" \in {"text", "elements", "list_t", "dict_t"} /\ "elements" \notin {"list_t", "dict_t"}
         /\ "elements" # "text"
    OBVIOUS
  <2> QED
    BY <1>8, <2>3, <2>4, <2>5, <2>6, <2>7, <2>11, <2>12
<1>13. CASE type \in {"list", "dict"}
  <2>1. kind = (IF type = "list" THEN "list_t" ELSE "dict_t") /\ Len(Allocations(type)) = 2
    BY <1>2, <1>13, AllocationsAre
  <2>2. PICK kids : kids = <<Null>>
    OBVIOUS
  <2>3. kids \in Seq(Int) /\ (\A k \in DOMAIN kids : kids[k] = Null) /\ Len(kids) = 1
    <3>1. Null \in Int
      BY DEF Null
    <3> QED
      BY <2>2, <3>1
  <2>4. kind \in {"list_t", "dict_t"}
    BY <2>1
  <2>5. PICK cell : cell = Block(kind, kids, 0)
    OBVIOUS
  <2>6. Fresh(kind) = cell
    BY <2>2, <2>4, <2>5, FreshIs
  <2>7. PICK g : g = Append(heap, cell)
    OBVIOUS
  <2>8. kind \in Kinds /\ kind # "freed" /\ 0 \in Nat
    BY <2>4 DEF Kinds
  <2>9. Free(g, NewId) /\ g[NewId].type = kind /\ g[NewId].kids = kids
    <3>1. Stands(g, NewId, kind, kids, 0)
      BY <1>9, <2>3, <2>5, <2>7, <2>8, Zenon
    <3> QED
      BY <3>1 DEF Stands
  <2>10. ~IsText(type) /\ ~IsLong(type) /\ type # "tuple"
    BY <1>13 DEF IsText, IsShort, IsLong
  <2>11. GotOK(g, c)
    BY <1>6, <1>7, <1>10, <2>1, <2>2, <2>9, <2>10 DEF GotOK
  <2>12. kind \in {"text", "elements", "list_t", "dict_t"} /\ kind # "text"
    BY <2>4
  <2> QED
    BY <1>8, <2>3, <2>5, <2>6, <2>7, <2>8, <2>11, <2>12
<1> QED
  BY <1>2, <1>11, <1>12, <1>13, AllocationsAre

\* What a sequence of ids holds after one more id.
LEMMA AppendedId ==
  ASSUME NEW s \in Seq(Int), NEW m \in Int
  PROVE  /\ Append(s, m) \in Seq(Int) /\ Len(Append(s, m)) = Len(s) + 1
         /\ Append(s, m)[Len(s) + 1] = m
         /\ \A j \in DOMAIN s : Append(s, m)[j] = s[j]
<1>1. Append(s, m) \in Seq(Int)
  OBVIOUS
<1>2. Len(Append(s, m)) = Len(s) + 1
  OBVIOUS
<1>3. Append(s, m)[Len(s) + 1] = m
  OBVIOUS
<1>4. \A j \in DOMAIN s : Append(s, m)[j] = s[j]
  OBVIOUS
<1> QED
  BY <1>1, <1>2, <1>3, <1>4

\* The second part of a tuple points to its elements.
LEMMA TuplePart ==
  ASSUME NEW home, InOrder(heap, client, call, dropped, home), call.op = "create",
         call.type = "tuple", Len(call.got) = 1
  PROVE  NextPart(Fresh("tuple_t"))
<1> DEFINE c == WithPart(call, NewId)
           l == call.got[1]
<1>1. heap \in Seq(Cell) /\ IsHeap(heap) /\ Sound(heap)
  BY RootsAre
<1>2. call \in Calls /\ "tuple" \in DataTypes /\ GotOK(heap, call)
  BY DEF InOrder, CallOK
<1>3. call.size \in Nat /\ call.got \in Seq(Int)
  BY <1>2 DEF Calls
<1>4. NewId = Len(heap) + 1 /\ NewId \in Int
  BY <1>1 DEF NewId
<1>5. call.got # << >> /\ l = Last(call.got) /\ DOMAIN call.got = {1} /\ l \in Range(call.got)
  <2>1. << >> \in Seq(Int) /\ Len(<< >>) = 0
    OBVIOUS
  <2>2. call.got # << >>
    BY <2>1
  <2>3. DOMAIN call.got = 1 .. 1
    BY <1>3
  <2> QED
    BY <2>2, <2>3 DEF Last, Range
<1>6. /\ Free(heap, l) /\ Live(heap, l) /\ heap[l].type = "elements" /\ Len(heap[l].kids) = call.size
      /\ \A k \in DOMAIN heap[l].kids : heap[l].kids[k] = Null
  BY <1>2, <1>5 DEF GotOK
<1>7. l \in DOMAIN heap
  BY <1>6 DEF Live
<1>8. PICK kids : kids = <<l>>
  OBVIOUS
<1>9. kids \in Seq(Int) /\ Range(kids) = {l} /\ Distinct(kids)
  <2>1. l \in Int
    BY <1>1, <1>7 DEF IsHeap
  <2>2. DOMAIN kids = {1} /\ kids[1] = l
    BY <1>8
  <2> QED
    BY <1>8, <2>1, <2>2 DEF Range, Distinct
<1> HIDE DEF l
<1>10. PICK t : t = "tuple_t"
  OBVIOUS
<1>11. t \in Kinds /\ t \notin DataTypes /\ t # "regex" /\ ~IsText(t) /\ ~IsLong(t) /\ t \notin {"tuple", "list", "dict"}
       /\ t \in {"atom", "string", "bin", "regex", "tuple_t", "tuple", "list", "dict"}
       /\ t \notin {"text", "elements", "list_t", "dict_t"} /\ t # "freed"
  BY <1>10, DataAre DEF Kinds, IsText, IsLong, IsShort
<1>12. PICK cell : cell = Block(t, kids, call.size)
  OBVIOUS
<1>13. Fresh(t) = cell
  BY <1>5, <1>8, <1>11, <1>12, FreshIs
<1>14. CellWell(heap, cell)
  BY <1>1, <1>3, <1>6, <1>7, <1>8, <1>10, <1>11, <1>12, OverWell
<1>15. PICK g : g = Append(heap, cell)
  OBVIOUS
<1>16. /\ cell \in Cell /\ cell.type = t /\ cell.kids = kids
       /\ g[NewId] = cell /\ \A q \in DOMAIN heap : q \in DOMAIN g /\ g[q] = heap[q]
  BY <1>1, <1>3, <1>4, <1>9, <1>11, <1>12, <1>15, BlockIs
<1>17. Free(g, NewId)
  <2>1. AllFree(heap, Range(kids))
    BY <1>6, <1>9 DEF AllFree
  <2> QED
    BY <1>1, <1>4, <1>9, <1>11, <1>15, <1>16, <2>1, AppendKeepsSound
<1>18. c.got = Append(call.got, NewId) /\ c.type = "tuple" /\ c.size = call.size
  BY <1>2, <1>4, WithPartIs
<1> HIDE DEF c
<1>19. c.got \in Seq(Int) /\ Len(c.got) = 2 /\ c.got[1] = l /\ c.got[2] = NewId /\ c.got # << >>
  <2>1. PICK s : s = call.got
    OBVIOUS
  <2>2. PICK m : m = NewId
    OBVIOUS
  <2>3. s \in Seq(Int) /\ Len(s) = 1 /\ m \in Int
    BY <1>3, <1>4, <2>1, <2>2
  <2>4. Append(s, m) \in Seq(Int) /\ Len(Append(s, m)) = 2
        /\ Append(s, m)[1] = s[1] /\ Append(s, m)[2] = m
    <3>1. 1 \in DOMAIN s
      BY <1>5, <2>1
    <3>2. Len(s) + 1 = 2
      BY <2>3
    <3> QED
      BY <2>3, <3>1, <3>2, AppendedId
  <2>5. Len(<< >>) = 0
    OBVIOUS
  <2>6. Append(s, m) # << >>
    BY <2>4, <2>5
  <2>7. s[1] = l
    BY <2>1 DEF l
  <2> QED
    BY <1>18, <2>1, <2>2, <2>4, <2>6, <2>7
<1>20. GotOK(g, c)
  <2>1. Live(g, l) /\ g[l].type = "elements" /\ Len(g[l].kids) = c.size
        /\ \A k \in DOMAIN g[l].kids : g[l].kids[k] = Null
    BY <1>6, <1>7, <1>16, <1>18 DEF Live
  <2>2. g[NewId].type = "tuple_t" /\ g[NewId].kids = <<l>>
    BY <1>8, <1>10, <1>16
  <2>3. Len(Allocations("tuple")) = 3
    BY <1>2, AllocationsAre
  <2>4. ~IsText("tuple") /\ ~IsLong("tuple") /\ "tuple" \notin {"list", "dict"}
    BY DEF IsText, IsLong, IsShort
  <2>5. Len(c.got) < Len(Allocations(c.type)) /\ Len(c.got) # 1
    <3>1. 2 < 3 /\ 2 # 1
      OBVIOUS
    <3>2. Len(c.got) = 2 /\ Allocations(c.type) = Allocations("tuple")
      BY <1>18, <1>19
    <3> QED
      BY <2>3, <3>1, <3>2
  <2> QED
    BY <1>17, <1>18, <1>19, <2>1, <2>2, <2>4, <2>5 DEF GotOK
<1>21. Range(cell.kids) \subseteq Range(call.got) \union {Null}
  BY <1>5, <1>9, <1>16
<1>22. NextPart(cell)
  BY <1>11, <1>14, <1>15, <1>16, <1>20, <1>21 DEF NextPart, c
<1> QED
  BY <1>10, <1>13, <1>22

\* An integer is one block.
LEMMA IntTerm ==
  ASSUME NEW home, InOrder(heap, client, call, dropped, home), call.op = "create",
         call.type = "int", call.got = << >>
  PROVE  NextTerm(Fresh("int"))
<1>1. heap \in Seq(Cell)
  BY RootsAre
<1>2. call \in Calls /\ "int" \in DataTypes
  BY DEF InOrder, CallOK
<1>3. call.size \in Nat
  BY <1>2 DEF Calls
<1>4. PICK t : t = "int"
  OBVIOUS
<1>5. PICK kids : kids = << >>
  OBVIOUS
<1>6. kids \in Seq(Int) /\ Range(kids) = {} /\ \A k \in DOMAIN kids : kids[k] = Null
  BY <1>5, RangeOfNothing
<1>7. t \in Kinds /\ t \in {"int", "text", "elements", "list_t", "dict_t"}
      /\ t \notin {"text", "elements", "list_t", "dict_t"} /\ t # "regex"
  BY <1>4 DEF Kinds
<1>8. PICK cell : cell = Block(t, kids, call.size)
  OBVIOUS
<1>9. Fresh(t) = cell
  BY <1>5, <1>7, <1>8, FreshIs
<1>10. CellWell(heap, cell)
  BY <1>1, <1>3, <1>5, <1>6, <1>7, <1>8, NullsWell
<1>11. cell.type = t /\ cell.kids = kids
  BY <1>1, <1>3, <1>6, <1>7, <1>8, BlockIs
<1>12. NextTerm(cell)
  BY <1>2, <1>4, <1>6, <1>7, <1>10, <1>11 DEF NextTerm
<1> QED
  BY <1>4, <1>9, <1>12

\* What malloc is called for next.
LEMMA NextAllocation ==
  ASSUME NEW home, InOrder(heap, client, call, dropped, home), call.op = "create",
         NEW kind, kind = Allocations(call.type)[Len(call.got) + 1]
  PROVE  \/ kind # call.type /\ NextPart(Fresh(kind))
         \/ kind = call.type /\ NextTerm(Fresh(kind))
<1>1. call \in Calls /\ call.type \in DataTypes /\ GotOK(heap, call)
  BY DEF InOrder, CallOK
<1>2. PICK type : type = call.type
  OBVIOUS
<1>3. PICK n : n = Len(call.got)
  OBVIOUS
<1>4. call.got \in Seq(Int) /\ n \in Nat /\ (n = 0 <=> call.got = << >>)
  <2>1. call.got \in Seq(Int)
    BY <1>1 DEF Calls
  <2>2. \A s \in Seq(Int) : Len(s) \in Nat /\ (Len(s) = 0 <=> s = << >>)
    OBVIOUS
  <2> QED
    BY <1>3, <2>1, <2>2
<1>5. kind = Allocations(type)[n + 1] /\ n < Len(Allocations(type)) /\ type \in DataTypes
  BY <1>1, <1>2, <1>3 DEF GotOK
<1>6. "text" \notin DataTypes /\ "elements" \notin DataTypes /\ "tuple_t" \notin DataTypes
      /\ "list_t" \notin DataTypes /\ "dict_t" \notin DataTypes
  BY DataAre
<1>7. n > 0 => Last(call.got) = call.got[n]
  BY <1>3 DEF Last
<1>8. CASE n = 0 /\ type # "int"
  <2>1. kind = Allocations(type)[1]
    BY <1>5, <1>8
  <2>2. kind \in {"text", "elements", "list_t", "dict_t"}
    BY <1>5, <1>8, <2>1, AllocationsAre
  <2>3. kind # type
    BY <1>5, <1>6, <2>2
  <2>4. NextPart(Fresh(kind))
    BY <1>2, <1>4, <1>8, <2>1, FirstPart
  <2> QED
    BY <1>2, <2>3, <2>4
<1>9. CASE type = "int"
  <2>1. Len(Allocations(type)) = 1 /\ Allocations(type)[1] = type
    BY <1>5, <1>9, AllocationsAre
  <2>2. n = 0 /\ kind = type
    <3>1. n < 1
      BY <1>5, <2>1
    <3>2. n = 0
      BY <1>4, <3>1
    <3> QED
      BY <1>5, <2>1, <3>2
  <2>3. NextTerm(Fresh("int"))
    BY <1>2, <1>4, <1>9, <2>2, IntTerm
  <2> QED
    BY <1>2, <1>9, <2>2, <2>3
<1>10. CASE n # 0 /\ IsText(type)
  <2>1. Len(Allocations(type)) = 2 /\ Allocations(type)[2] = type
    BY <1>5, <1>10, AllocationsAre
  <2>2. n = 1 /\ kind = type
    <3>1. n < 2
      BY <1>5, <2>1
    <3>2. n = 1
      BY <1>4, <1>10, <3>1
    <3> QED
      BY <1>5, <2>1, <3>2
  <2>3. PICK l : l = Last(call.got)
    OBVIOUS
  <2>4. /\ heap[l].type = "text" /\ heap[l].size = RoomForText(type, call.size)
        /\ IsLong(type) => call.size \in Longs
    BY <1>1, <1>2, <1>4, <1>7, <1>10, <2>2, <2>3 DEF GotOK
  <2>5. type \in {"atom", "string", "bin", "regex"}
    BY <1>10 DEF IsText, IsShort, IsLong
  <2>6. NextTerm(Fresh(type))
    BY <1>2, <1>4, <1>10, <2>3, <2>4, <2>5, TermOver
  <2> QED
    BY <1>2, <2>2, <2>6
<1>11. CASE n # 0 /\ type \in {"list", "dict"}
  <2>1. Len(Allocations(type)) = 2 /\ Allocations(type)[2] = type
    BY <1>5, <1>11, AllocationsAre
  <2>2. n = 1 /\ kind = type
    <3>1. n < 2
      BY <1>5, <2>1
    <3>2. n = 1
      BY <1>4, <1>11, <3>1
    <3> QED
      BY <1>5, <2>1, <3>2
  <2>3. PICK l : l = Last(call.got)
    OBVIOUS
  <2>4. heap[l].type = (IF type = "list" THEN "list_t" ELSE "dict_t")
    BY <1>1, <1>2, <1>4, <1>7, <1>11, <2>2, <2>3 DEF GotOK
  <2>5. ~IsText(type) /\ ~IsLong(type) /\ type # "tuple"
    BY <1>11 DEF IsText, IsShort, IsLong
  <2>6. NextTerm(Fresh(type))
    BY <1>2, <1>4, <1>11, <2>3, <2>4, <2>5, TermOver
  <2> QED
    BY <1>2, <2>2, <2>6
<1>12. CASE n # 0 /\ type = "tuple"
  <2>1. Len(Allocations(type)) = 3 /\ Allocations(type)[2] = "tuple_t" /\ Allocations(type)[3] = type
    BY <1>5, <1>12, AllocationsAre
  <2>2. n = 1 \/ n = 2
    <3>1. n < 3
      BY <1>5, <2>1
    <3> QED
      BY <1>4, <1>12, <3>1
  <2>3. CASE n = 1
    <3>1. kind = "tuple_t"
      BY <1>5, <2>1, <2>3
    <3>2. NextPart(Fresh("tuple_t"))
      BY <1>2, <1>3, <1>12, <2>3, TuplePart
    <3> QED
      BY <1>2, <1>12, <3>1, <3>2
  <2>4. CASE n = 2
    <3>1. kind = type
      BY <1>5, <2>1, <2>4
    <3>2. PICK l : l = Last(call.got)
      OBVIOUS
    <3>3. heap[l].type = "tuple_t"
      BY <1>1, <1>2, <1>3, <1>4, <1>7, <1>12, <2>4, <3>2 DEF GotOK
    <3>4. ~IsText(type) /\ ~IsLong(type) /\ type \notin {"list", "dict"}
      BY <1>12 DEF IsText, IsShort, IsLong
    <3>5. NextTerm(Fresh(type))
      BY <1>2, <1>4, <1>12, <3>2, <3>3, <3>4, TermOver
    <3> QED
      BY <1>2, <3>1, <3>5
  <2> QED
    BY <2>2, <2>3, <2>4
<1> QED
  BY <1>5, <1>8, <1>9, <1>10, <1>11, <1>12, AllocationsAre

\* malloc adds a part, or the term, which the client gets.
LEMMA MallocStep ==
  ASSUME NEW home \in [1 .. Len(heap) -> Int], InOrder(heap, client, call, dropped, home), Malloc
  PROVE  \E home2 \in [1 .. Len(heap') -> Int] : InOrder(heap', client', call', dropped', home2)
<1>1. PICK kind : kind = Allocations(call.type)[Len(call.got) + 1]
  OBVIOUS
<1>2. /\ call.op = "create" /\ heap' = Append(heap, Fresh(kind)) /\ dropped' = dropped
      /\ kind = call.type => client' = client \union {NewId} /\ call' = NoCall
      /\ kind # call.type => client' = client /\ call' = WithPart(call, NewId)
  BY <1>1 DEF Malloc, WithPart
<1>3. heap \in Seq(Cell)
  BY RootsAre
<1>4. PICK cell : cell = Fresh(kind)
  OBVIOUS
<1>5. heap' = Append(heap, cell)
  BY <1>2, <1>4
<1>6. PICK home2 \in [1 .. Len(heap) + 1 -> Int] : \A q \in DOMAIN heap : home2[q] = home[q]
  BY <1>3, HomeGrows
<1>7. \/ kind # call.type /\ NextPart(cell)
      \/ kind = call.type /\ NextTerm(cell)
  BY <1>1, <1>2, <1>4, NextAllocation
<1>8. cell \in Cell
  BY <1>7 DEF NextPart, NextTerm, CellWell
<1>9. Len(heap') = Len(heap) + 1
  BY <1>3, <1>5, <1>8
<1>10. CASE kind # call.type /\ NextPart(cell)
  <2>1. /\ CellWell(heap, cell) /\ cell.type \notin DataTypes /\ cell.type # "regex"
        /\ Range(cell.kids) \subseteq Range(call.got) \union {Null}
        /\ GotOK(Append(heap, cell), WithPart(call, NewId))
    BY <1>10 DEF NextPart
  <2>2. InOrder(Append(heap, cell), client, WithPart(call, NewId), dropped, home2)
    BY <1>2, <1>6, <2>1, PartMade
  <2> QED
    BY <1>2, <1>5, <1>6, <1>9, <1>10, <2>2
<1>11. CASE kind = call.type /\ NextTerm(cell)
  <2>1. /\ CellWell(heap, cell) /\ cell.type \in DataTypes
        /\ Range(cell.kids) = (IF call.got = << >> THEN {} ELSE {Last(call.got)})
        /\ cell.type = "regex" => call.got # << >> /\ heap[Last(call.got)].type = "text"
    BY <1>11 DEF NextTerm
  <2>2. InOrder(Append(heap, cell), client \union {NewId}, NoCall, dropped, home2)
    BY <1>2, <1>6, <2>1, TermMade
  <2> QED
    BY <1>2, <1>5, <1>6, <1>9, <1>11, <2>2
<1> QED
  BY <1>7, <1>10, <1>11

\* A constructor that fails frees what it had allocated, and nothing else.
LEMMA MallocFailsStep ==
  ASSUME NEW home, InOrder(heap, client, call, dropped, home), MallocFails
  PROVE  Len(heap') = Len(heap) /\ InOrder(heap', client', call', dropped', home)
<1> DEFINE a == client \union dropped
           l == Last(call.got)
<1>1. /\ heap \in Seq(Cell) /\ HeapOK(heap, home) /\ client \in SUBSET Int /\ dropped \in SUBSET Int
      /\ IsHeap(heap) /\ DOMAIN heap = 1 .. Len(heap)
      /\ \A q \in client : Free(heap, q) /\ q \in DOMAIN heap /\ q # Null /\ heap[q].type \in DataTypes
      /\ \A q \in dropped : Free(heap, q) /\ q \in DOMAIN heap /\ q # Null /\ heap[q].type = "text"
                            /\ q \notin Range(call.got)
  BY RootsAre DEF InOrder, IsHeap
<1>2. /\ call.op = "create" /\ call' = NoCall /\ client' = client /\ dropped' = dropped
      /\ heap' = [p \in DOMAIN heap |-> IF p \in Range(call.got) THEN Freed ELSE heap[p]]
  BY DEF MallocFails, Cleanup
<1>3. NoLoss(heap, a \union Range(call.got))
  <2>1. client \union Range(call.got) \union dropped = a \union Range(call.got)
    OBVIOUS
  <2> QED
    BY <2>1 DEF InOrder
<1>4. NoCall \in Calls /\ CallOK(heap', client, NoCall, home) /\ NoCall.got = << >> /\ Range(NoCall.got) = {}
  BY NoCallIs, RangeOfNothing
<1>5. CASE call.got = << >>
  <2>1. heap' = heap
    <3>1. Range(call.got) = {}
      BY <1>5, RangeOfNothing
    <3>2. heap' = [p \in DOMAIN heap |-> heap[p]]
      BY <1>2, <3>1
    <3> QED
      BY <1>1, <3>2
  <2>2. CallOK(heap, client, NoCall, home)
    BY <1>4, <2>1
  <2> QED
    BY <1>2, <1>4, <1>5, <2>1, <2>2, CallChanges
<1>6. CASE call.got # << >>
  <2>1. /\ l \in Int /\ l \in Range(call.got) /\ Free(heap, l)
        /\ heap[l].type \in {"text", "elements", "tuple_t", "list_t", "dict_t"}
        /\ Reach(heap, {l}) = Range(call.got)
        /\ \A q \in Range(call.got) : heap[q].type \in {"text", "elements", "tuple_t", "list_t", "dict_t"}
    BY <1>2, <1>6, GotIs
  <2> HIDE DEF l, a
  <2>2. PICK roots \in Seq(Int) : Range(roots) = {l}
    <3>1. DOMAIN <<l>> = {1} /\ <<l>>[1] = l /\ <<l>> \in Seq(Int)
      BY <2>1
    <3>2. Range(<<l>>) = {l}
      BY <3>1 DEF Range
    <3> QED
      BY <3>1, <3>2
  <2>3. heap' = Destroyed(heap, roots)
    BY <1>2, <2>1, <2>2 DEF Destroyed
  <2>4. DestroyedWell(heap, Destroyed(heap, roots), home, {l})
    <3>1. AllFree(heap, Range(roots)) /\ NoNode(heap, Range(roots))
      BY <2>1, <2>2 DEF AllFree, NoNode
    <3> QED
      BY <1>1, <2>2, <3>1, DestroyKeeps
  <2>5. /\ HeapOK(heap', home) /\ Len(heap') = Len(heap)
        /\ \A q : Free(heap, q) /\ q # l => Free(heap', q)
        /\ \A q \in DOMAIN heap : q \notin Range(call.got) => heap'[q] = heap[q]
    BY <2>1, <2>3, <2>4 DEF DestroyedWell
  <2>6. \A q \in client : q \notin Range(call.got) /\ q # l
    BY <1>1, <2>1, DataAre
  <2>7. ClientOK(heap', client)
    BY <1>1, <2>5, <2>6 DEF ClientOK
  <2>8. DroppedOK(heap', dropped, NoCall.got)
    <3>1. \A q \in dropped : q # l
      BY <1>1, <2>1
    <3> QED
      BY <1>1, <1>4, <2>5, <3>1 DEF DroppedOK
  <2>9. a \in SUBSET Int /\ Null \notin a
    BY <1>1 DEF a
  <2>10. NoLoss(heap, a \union Range(roots))
    <3>1. {l} \in SUBSET Int /\ Range(call.got) \in SUBSET Int /\ a \union {l} \in SUBSET Int
          /\ a \union Range(call.got) \in SUBSET Int
      BY <2>1, <2>9, RootsAre
    <3>2. Reach(heap, a \union {l}) = Reach(heap, a) \union Reach(heap, {l})
      BY <1>1, <2>9, <3>1, ReachTwo
    <3>3. a \subseteq Reach(heap, a)
      BY <1>1, <2>9, ReachStored
    <3>4. a \union Range(call.got) \subseteq Reach(heap, a \union {l}) \union {Null}
      BY <2>1, <3>2, <3>3
    <3> QED
      BY <1>1, <1>3, <2>2, <3>1, <3>4, NoLossReached
  <2>11. NoLoss(heap', a \union Abandoned(heap, Range(roots)))
    BY <1>1, <2>2, <2>3, <2>9, <2>10, CellsAre, NoLossDestroyed
  <2>12. Abandoned(heap, {l}) = {}
    <3>1. \A q : q \in Abandoned(heap, {l}) <=>
              \E r \in Reach(heap, {l}) : Live(heap, r) /\ heap[r].type = "regex" /\ q \in Range(heap[r].kids)
      BY <1>1, AbandonedIs
    <3>2. \A r \in Reach(heap, {l}) : heap[r].type # "regex"
      BY <2>1
    <3> QED
      BY <3>1, <3>2
  <2>13. NoLoss(heap', client \union Range(NoCall.got) \union dropped)
    <3>1. client \union Range(NoCall.got) \union dropped = a \union Abandoned(heap, Range(roots))
      BY <1>4, <2>2, <2>12 DEF a
    <3> QED
      BY <2>11, <3>1
  <2> QED
    BY <1>2, <1>4, <2>5, <2>7, <2>8, <2>13 DEF InOrder
<1> QED
  BY <1>5, <1>6

(***************************************************************************)
(* The invariant holds, and what follows from it                           *)
(***************************************************************************)

\* Nothing is made, owned or lost at first.
LEMMA InitInv == Init => Inv
<1> SUFFICES ASSUME Init PROVE Inv
  OBVIOUS
<1>1. heap = << >> /\ client = {} /\ call = NoCall /\ dropped = {}
  BY DEF Init
<1>2. PICK h \in Seq(Cell) : h = << >>
  <2>1. \A C : << >> \in Seq(C)
    OBVIOUS
  <2> QED
    BY <2>1
<1>3. DOMAIN h = {} /\ Len(h) = 0
  BY <1>2
<1>4. \E home \in [1 .. Len(h) -> Int] : TRUE
  <2>1. [q \in 1 .. Len(h) |-> 0] \in [1 .. Len(h) -> Int]
    OBVIOUS
  <2> QED
    BY <2>1
<1>5. PICK home \in [1 .. Len(h) -> Int] : TRUE
  BY <1>4
<1>6. HeapOK(h, home)
  BY <1>2, <1>3 DEF HeapOK, Sound, Shaped, Homed
<1>7. ClientOK(h, {}) /\ DroppedOK(h, {}, NoCall.got) /\ CallOK(h, {}, NoCall, home) /\ NoCall \in Calls
  BY NoCallIs DEF ClientOK, DroppedOK
<1>8. NoLoss(h, {} \union Range(NoCall.got) \union {})
  BY <1>3 DEF NoLoss
<1>9. InOrder(h, {}, NoCall, {}, home)
  BY <1>6, <1>7, <1>8 DEF InOrder
<1> QED
  BY <1>1, <1>2, <1>5, <1>9 DEF Inv

\* A step that leaves the heap alone, or changes it in place.
LEMMA InPlace ==
  ASSUME NEW home \in [1 .. Len(heap) -> Int], Len(heap') = Len(heap),
         InOrder(heap', client', call', dropped', home)
  PROVE  Inv'
BY DEF Inv

\* A call that only looks ends.
LEMMA LookEnds ==
  ASSUME NEW home \in [1 .. Len(heap) -> Int], InOrder(heap, client, call, dropped, home),
         heap' = heap, client' = client, dropped' = dropped,
         (call.op # "create" /\ call' = NoCall) \/ call' = call
  PROVE  Inv'
<1>1. CASE call' = call
  <2>1. InOrder(heap', client', call', dropped', home)
    BY <1>1
  <2> QED
    BY <2>1, InPlace
<1>2. CASE call.op # "create" /\ call' = NoCall
  <2>1. call.got = << >>
    BY <1>2 DEF InOrder, CallOK
  <2>2. InOrder(heap, client, NoCall, dropped, home)
    BY <2>1, NoCallIs, CallChanges
  <2>3. InOrder(heap', client', call', dropped', home)
    BY <1>2, <2>2
  <2> QED
    BY <2>3, InPlace
<1> QED
  BY <1>1, <1>2

\* Every step keeps the heap in order.
LEMMA NextInv == Inv /\ [Next]_vars => Inv'
<1> SUFFICES ASSUME Inv, [Next]_vars PROVE Inv'
  OBVIOUS
<1>1. PICK home \in [1 .. Len(heap) -> Int] : InOrder(heap, client, call, dropped, home)
  BY DEF Inv
<1>2. Sizes \subseteq Nat /\ Indices \subseteq Nat
  BY ContainersAssumption
<1>3. ASSUME NEW type \in DataTypes, NEW size \in Sizes, bert_data_create(type, size) PROVE Inv'
  <2>1. heap' = heap /\ InOrder(heap, client, call', dropped, home) /\ client' = client /\ dropped' = dropped
    BY <1>1, <1>2, <1>3, CreateBegins
  <2> QED
    BY <2>1, InPlace
<1>4. CASE Malloc
  BY <1>1, <1>4, MallocStep DEF Inv
<1>5. CASE MallocFails
  BY <1>1, <1>5, MallocFailsStep, InPlace
<1>6. ASSUME NEW d \in client, bert_data_destroy(d) PROVE Inv'
  BY <1>1, <1>6, DestroyStep, InPlace
<1>7. ASSUME NEW c \in Known("list"), bert_list_append(c) PROVE Inv'
  BY <1>1, <1>7, AppendSteps DEF Inv
<1>8. ASSUME NEW c \in Known("list"), bert_list_length(c) PROVE Inv'
  <2>1. Search("length", c, 0, Null)
    BY <1>8 DEF bert_list_length
  <2>2. Null \in Int /\ 0 \in Nat
    BY DEF Null
  <2>3. PICK op \in {"get", "set", "length"} : op = "length"
    OBVIOUS
  <2>4. Search(op, c, 0, Null) /\ op # "set"
    BY <2>1, <2>3
  <2>5. heap' = heap /\ InOrder(heap, client, call', dropped, home) /\ client' = client /\ dropped' = dropped
    BY <1>1, <2>2, <2>4, SearchBegins
  <2> QED
    BY <2>5, InPlace
<1>9. ASSUME NEW c \in Known("list"), NEW index \in Indices, bert_list_get(c, index) PROVE Inv'
  <2>1. Search("get", c, index, Null)
    BY <1>9 DEF bert_list_get
  <2>2. Null \in Int /\ index \in Nat
    BY <1>2 DEF Null
  <2>3. PICK op \in {"get", "set", "length"} : op = "get"
    OBVIOUS
  <2>4. Search(op, c, index, Null) /\ op # "set"
    BY <2>1, <2>3
  <2>5. heap' = heap /\ InOrder(heap, client, call', dropped, home) /\ client' = client /\ dropped' = dropped
    BY <1>1, <2>2, <2>4, SearchBegins
  <2> QED
    BY <2>5, InPlace
<1>10. ASSUME NEW c \in Known("list"), NEW index \in Indices, bert_list_set(c, index) PROVE Inv'
  <2>1. PICK d \in MayGive(c) : Search("set", c, index, d)
    BY <1>10 DEF bert_list_set
  <2>2. d \in Int /\ index \in Nat
    <3>1. client \in SUBSET Int
      BY <1>1, RootsAre
    <3> QED
      BY <1>2, <3>1 DEF MayGive
  <2>3. PICK op \in {"get", "set", "length"} : op = "set"
    OBVIOUS
  <2>4. Search(op, c, index, d)
    BY <2>1, <2>3
  <2>5. heap' = heap /\ InOrder(heap, client, call', dropped, home) /\ client' = client /\ dropped' = dropped
    BY <1>1, <2>1, <2>2, <2>4, SearchBegins
  <2> QED
    BY <2>5, InPlace
<1>11. ASSUME NEW c \in Known("dict"), bert_dict_append(c) PROVE Inv'
  BY <1>1, <1>11, AppendSteps DEF Inv
<1>12. ASSUME NEW c, AppendFails(c) PROVE Inv'
  BY <1>1, <1>12, LookEnds DEF AppendFails
<1>13. ASSUME NEW c, NEW index, bert_tuple_get(c, index) PROVE Inv'
  BY <1>1, <1>13, LookEnds DEF bert_tuple_get
<1>14. ASSUME NEW c \in Known("tuple"), NEW index \in Indices, TupleSetReplaces(c, index) PROVE Inv'
  <2>1. index \in Nat
    BY <1>2
  <2>2. Len(heap') = Len(heap) /\ InOrder(heap', client', call', dropped', home)
    BY <1>1, <1>14, <2>1, TupleSetStep
  <2> QED
    BY <2>2, InPlace
<1>15. ASSUME NEW c, NEW index, TupleSetRefuses(c, index) PROVE Inv'
  BY <1>1, <1>15, LookEnds DEF TupleSetRefuses
<1>16. CASE NextNode
  <2>1. heap' = heap /\ InOrder(heap, client, call', dropped, home) /\ client' = client /\ dropped' = dropped
    BY <1>1, <1>16, SearchGoesOn
  <2> QED
    BY <2>1, InPlace
<1>17. CASE LengthCounted
  <2>1. heap' = heap /\ client' = client /\ dropped' = dropped /\ call.op = "length" /\ call' = NoCall
    BY <1>17 DEF LengthCounted, Replies
  <2> QED
    BY <1>1, <2>1, LookEnds
<1>18. CASE GetFinds
  <2>1. heap' = heap /\ client' = client /\ dropped' = dropped /\ call.op = "get" /\ call' = NoCall
    BY <1>18 DEF GetFinds, Replies
  <2> QED
    BY <1>1, <2>1, LookEnds
<1>19. CASE SetReplaces
  BY <1>1, <1>19, SetStep, InPlace
<1>20. CASE SetFindsNone
  <2>1. heap' = heap /\ client' = client /\ dropped' = dropped /\ call.op = "set" /\ call' = NoCall
    BY <1>20 DEF SetFindsNone, Replies
  <2> QED
    BY <1>1, <2>1, LookEnds
<1>21. CASE UNCHANGED vars
  BY <1>1, <1>21, LookEnds DEF vars
<1> QED
  BY <1>3, <1>4, <1>5, <1>6, <1>7, <1>8, <1>9, <1>10, <1>11, <1>12, <1>13, <1>14, <1>15, <1>16,
     <1>17, <1>18, <1>19, <1>20, <1>21 DEF Next

\* The heap is in order in every state.
THEOREM InOrderAlways == Spec => []Inv
<1>1. Init => Inv
  BY InitInv
<1>2. Inv /\ [Next]_vars => Inv'
  BY NextInv
<1> QED
  BY <1>1, <1>2, PTL DEF Spec

\* A heap in order is of the right types.
LEMMA TypeHolds == Inv => TypeOK
<1> SUFFICES ASSUME Inv PROVE TypeOK
  OBVIOUS
<1>1. PICK home \in [1 .. Len(heap) -> Int] : InOrder(heap, client, call, dropped, home)
  BY DEF Inv
<1>2. /\ heap \in Seq(Cell) /\ IsHeap(heap) /\ Sound(heap) /\ Shaped(heap) /\ Homed(heap, home)
      /\ \A q \in client : q \in DOMAIN heap /\ heap[q].type \in DataTypes
      /\ \A q \in dropped : q \in DOMAIN heap
  BY <1>1, RootsAre
<1>3. DOMAIN heap = 1 .. Len(heap) /\ Len(heap) \in Nat
  BY <1>2 DEF IsHeap
<1>4. \A p \in DOMAIN heap : Range(heap[p].kids) \subseteq 0 .. Len(heap)
  <2> SUFFICES ASSUME NEW p \in DOMAIN heap, NEW k \in DOMAIN heap[p].kids
               PROVE  heap[p].kids[k] \in 0 .. Len(heap)
    BY DEF Range
  <2>1. CASE heap[p].kids[k] = Null
    BY <1>3, <2>1 DEF Null
  <2>2. CASE heap[p].kids[k] # Null
    <3>1. heap[p].kids[k] \in DOMAIN heap
      BY <1>2, <2>2 DEF Sound, Live
    <3> QED
      BY <1>3, <3>1
  <2> QED
    BY <2>1, <2>2
<1>5. client \subseteq DataCells
  BY <1>2 DEF DataCells
<1>6. ASSUME NEW p \in DOMAIN heap, heap[p].type \in {"list_t", "dict_t"}
      PROVE  heap[p].tail = Null <=> heap[p].kids = <<Null>>
  <2>1. heap[p].kids[1] = Null <=> heap[p].tail = Null
    BY <1>2, <1>6 DEF Homed
  <2>2. heap[p].kids \in Seq(Int) /\ Len(heap[p].kids) = 1
    BY <1>2, <1>6, CellIs DEF Shaped, Shape
  <2>3. \A s \in Seq(Int) : Len(s) = 1 => (s[1] = Null <=> s = <<Null>>)
    <3>1. ASSUME NEW s \in Seq(Int), Len(s) = 1, s[1] = Null PROVE s = <<Null>>
      BY <3>1
    <3>2. <<Null>>[1] = Null
      OBVIOUS
    <3> QED
      BY <3>1, <3>2
  <2> QED
    BY <2>1, <2>2, <2>3
<1>7. call.next_node # Null => Live(heap, call.next_node)
  <2>1. CallOK(heap, client, call, home)
    BY <1>1 DEF InOrder
  <2> QED
    BY <2>1 DEF CallOK, Live
<1>8. dropped \subseteq DOMAIN heap
  BY <1>2
<1> QED
  BY <1>4, <1>5, <1>6, <1>7, <1>8 DEF TypeOK

\* A finite set of numbers can be counted out.
LEMMA CountedOut ==
  ASSUME NEW n \in Nat, NEW S \in SUBSET (1 .. n)
  PROVE  SetToSeq(S) \in Seq(Int) /\ Range(SetToSeq(S)) \subseteq S /\ IsInjective(SetToSeq(S))
<1>1. IsFiniteSet(S)
  <2>1. IsFiniteSet(1 .. n)
    BY FS_Interval
  <2> QED
    BY <2>1, FS_Subset
<1>2. Cardinality(S) \in Nat /\ ExistsBijection(1 .. Cardinality(S), S)
  BY <1>1, FS_CardinalityType
<1>3. PICK f \in [1 .. Cardinality(S) -> S] : IsInjective(f)
  BY <1>2 DEF ExistsBijection, Bijection, Injection
<1>4. SetToSeq(S) \in [1 .. Cardinality(S) -> S] /\ IsInjective(SetToSeq(S))
  BY <1>3 DEF SetToSeq
<1>5. SetToSeq(S) \in Seq(Int)
  <2>1. S \subseteq Int
    OBVIOUS
  <2>2. PICK f2 : f2 = SetToSeq(S)
    OBVIOUS
  <2>3. f2 \in [1 .. Cardinality(S) -> Int]
    BY <1>4, <2>1, <2>2
  <2>4. f2 \in Seq(Int)
    BY <1>2, <2>3
  <2> QED
    BY <2>2, <2>4
<1>6. Range(SetToSeq(S)) \subseteq S
  BY <1>4 DEF Range
<1> QED
  BY <1>4, <1>5, <1>6

\* In a heap in order what the client owns can be destroyed.
LEMMA OwnerHolds == Inv => OneOwner
<1> SUFFICES ASSUME Inv PROVE OneOwner
  OBVIOUS
<1>1. PICK home \in [1 .. Len(heap) -> Int] : InOrder(heap, client, call, dropped, home)
  BY DEF Inv
<1>2. /\ IsHeap(heap) /\ Sound(heap) /\ client \in SUBSET Int
      /\ \A q \in client : Free(heap, q) /\ q \in DOMAIN heap
  BY <1>1, RootsAre
<1>3. Len(heap) \in Nat /\ client \in SUBSET (1 .. Len(heap))
  BY <1>2 DEF IsHeap
<1>4. PICK s : s = SetToSeq(client)
  OBVIOUS
<1>5. s \in Seq(Int) /\ Range(s) \subseteq client /\ IsInjective(s)
  BY <1>3, <1>4, CountedOut
<1>6. Distinct(s) /\ AllFree(heap, Range(s))
  BY <1>2, <1>5 DEF Distinct, AllFree, IsInjective
<1>7. Destroyable(heap, s)
  BY <1>2, <1>5, <1>6, RootsDestroyable
<1> QED
  BY <1>4, <1>7 DEF OneOwner

\* The length of a binary or a regex is a number one less than which the 32 bits can hold, if no
\* size asked for is the greatest.
LEMMA LongIs ==
  ASSUME \A size \in Sizes : size % LongSizes # LongSizes - 1, NEW length \in Longs
  PROVE  length \in Nat /\ (length + 1) % LongSizes = length + 1
<1>1. PICK size \in Sizes : length = size % LongSizes
  BY DEF Longs
<1>2. size \in Nat /\ LongSizes \in Nat \ {0}
  BY ContainersAssumption
<1>3. \A a \in Nat, m \in Nat \ {0} : a % m \in Nat /\ a % m < m
  OBVIOUS
<1>4. length \in Nat /\ length < LongSizes /\ length # LongSizes - 1
  BY <1>1, <1>2, <1>3
<1>5. length + 1 \in Nat /\ length + 1 < LongSizes
  BY <1>2, <1>4
<1>6. \A a \in Nat, m \in Nat \ {0} : a < m => a % m = a
  OBVIOUS
<1> QED
  BY <1>2, <1>4, <1>5, <1>6

\* A text has room for its length and one byte more.
LEMMA TextsHold ==
  ASSUME \A size \in Sizes : size % LongSizes # LongSizes - 1
  PROVE  Inv => TextsTerminated
<1> SUFFICES ASSUME Inv, NEW p \in DataCells, IsText(heap[p].type)
    PROVE  heap[Struct(p)].size > heap[p].size
  BY DEF TextsTerminated
<1>1. PICK home \in [1 .. Len(heap) -> Int] : InOrder(heap, client, call, dropped, home)
  BY DEF Inv
<1>2. heap \in Seq(Cell) /\ Shaped(heap) /\ p \in DOMAIN heap /\ heap[p].type \in DataTypes
  BY <1>1, RootsAre DEF DataCells
<1>3. /\ heap[Struct(p)].size = RoomForText(heap[p].type, heap[p].size)
      /\ IsLong(heap[p].type) => heap[p].size \in Longs
  BY <1>2 DEF Shaped, Shape, TextHeld, Struct
<1>4. heap[p].size \in Nat
  BY <1>2, DataAre, CellIs
<1>5. PICK size \in Nat : size = heap[p].size
  BY <1>4
<1>6. size + 1 > size
  OBVIOUS
<1>7. CASE IsShort(heap[p].type)
  <2>1. heap[Struct(p)].size = size + 1
    BY <1>3, <1>5, <1>7 DEF RoomForText
  <2> QED
    BY <1>5, <1>6, <2>1
<1>8. CASE IsLong(heap[p].type)
  <2>1. ~IsShort(heap[p].type)
    BY <1>8 DEF IsShort, IsLong
  <2>2. heap[Struct(p)].size = (size + 1) % LongSizes
    BY <1>3, <1>5, <2>1 DEF RoomForText
  <2>3. (size + 1) % LongSizes = size + 1
    BY <1>3, <1>5, <1>8, LongIs
  <2> QED
    BY <1>5, <1>6, <2>2, <2>3
<1> QED
  BY <1>7, <1>8 DEF IsText

\* In a heap in order only sources of regexes are lost.
LEMMA SourcesHold == Inv => OnlySourcesLost
<1> SUFFICES ASSUME Inv PROVE OnlySourcesLost
  OBVIOUS
<1> DEFINE got == Range(call.got)
           roots == client \union got \union dropped
           live == {p \in DOMAIN heap : Live(heap, p)}
           kept == Reach(heap, client) \union Abandoned(heap, client) \union got \union dropped
<1>1. PICK home \in [1 .. Len(heap) -> Int] : InOrder(heap, client, call, dropped, home)
  BY DEF Inv
<1>2. /\ heap \in Seq(Cell) /\ IsHeap(heap) /\ Sound(heap) /\ Shaped(heap)
      /\ client \in SUBSET Int /\ dropped \in SUBSET Int /\ got \in SUBSET Int
      /\ \A q \in dropped : Free(heap, q) /\ q \in DOMAIN heap /\ q # Null /\ heap[q].type = "text"
      /\ AllFree(heap, client)
  BY <1>1, RootsAre DEF AllFree
<1>3. NoLoss(heap, roots)
  BY <1>1 DEF InOrder
<1>4. /\ got \subseteq live
      /\ \A q \in got : heap[q].type \in {"text", "elements", "tuple_t", "list_t", "dict_t"}
      /\ \A p \in got : Range(Followed(heap, p)) \subseteq got \union {Null}
  <2>1. CASE call.got = << >>
    BY <2>1, RangeOfNothing
  <2>2. CASE call.got # << >>
    <3>1. call.op = "create"
      BY <1>1, <2>2 DEF InOrder, CallOK
    <3>2. PICK l : l = Last(call.got)
      OBVIOUS
    <3>3. /\ l \in Int /\ Free(heap, l) /\ Reach(heap, {l}) = got
          /\ \A q \in got : heap[q].type \in {"text", "elements", "tuple_t", "list_t", "dict_t"}
      BY <1>1, <2>2, <3>1, <3>2, GotIs
    <3>4. {l} \in SUBSET Int /\ AllFree(heap, {l})
      BY <3>3 DEF AllFree
    <3>5. got \subseteq live
      BY <1>2, <3>3, <3>4, ReachLive
    <3>6. \A p \in got : Range(Followed(heap, p)) \subseteq got \union {Null}
      BY <1>2, <3>3, <3>4, ReachClosed
    <3> QED
      BY <3>3, <3>5, <3>6
  <2> QED
    BY <2>1, <2>2
<1> HIDE DEF got
<1>5. Reach(heap, got) \subseteq got
  <2>1. got \subseteq got \union {Null}
    OBVIOUS
  <2> QED
    BY <1>2, <1>4, <2>1, ReachLeast
<1>6. Reach(heap, dropped) \subseteq dropped
  <2>1. \A q \in dropped : Range(Followed(heap, q)) = {}
    <3> SUFFICES ASSUME NEW q \in dropped PROVE Range(Followed(heap, q)) = {}
      OBVIOUS
    <3>1. heap[q].kids = << >>
      BY <1>2 DEF Shaped, Shape
    <3>2. Followed(heap, q) = << >>
      BY <3>1 DEF Followed
    <3> QED
      BY <3>2, RangeOfNothing
  <2>2. dropped \subseteq dropped \union {Null} /\ \A q \in dropped : Range(Followed(heap, q)) \subseteq dropped \union {Null}
    BY <2>1
  <2> QED
    BY <1>2, <2>2, ReachLeast
<1>7. Reach(heap, roots) \subseteq Reach(heap, client) \union got \union dropped
  <2>1. client \union got \in SUBSET Int
    BY <1>2
  <2>2. Reach(heap, roots) = Reach(heap, client \union got) \union Reach(heap, dropped)
    BY <1>2, <2>1, ReachTwo
  <2>3. Reach(heap, client \union got) = Reach(heap, client) \union Reach(heap, got)
    BY <1>2, ReachTwo
  <2> QED
    BY <1>5, <1>6, <2>2, <2>3
<1>8. \A s : \A q : q \in Abandoned(heap, s) <=>
        \E r \in Reach(heap, s) : Live(heap, r) /\ heap[r].type = "regex" /\ q \in Range(heap[r].kids)
  BY <1>2, AbandonedIs
<1>9. Abandoned(heap, roots) \subseteq Abandoned(heap, client)
  <2> SUFFICES ASSUME NEW q \in Abandoned(heap, roots) PROVE q \in Abandoned(heap, client)
    OBVIOUS
  <2>1. PICK r \in Reach(heap, roots) : Live(heap, r) /\ heap[r].type = "regex" /\ q \in Range(heap[r].kids)
    BY <1>8
  <2>2. r \notin got /\ r \notin dropped
    BY <1>2, <1>4, <2>1
  <2>3. r \in Reach(heap, client)
    BY <1>7, <2>1, <2>2
  <2> QED
    BY <1>8, <2>1, <2>3
<1>10. live \subseteq kept
  BY <1>3, <1>7, <1>9 DEF NoLoss, Covered
<1>11. Reach(heap, client) \subseteq live
  BY <1>2, ReachLive
<1>12. Abandoned(heap, client) \subseteq live
  <2> SUFFICES ASSUME NEW q \in Abandoned(heap, client) PROVE q \in live
    OBVIOUS
  <2>1. PICK r \in Reach(heap, client) : Live(heap, r) /\ heap[r].type = "regex" /\ q \in Range(heap[r].kids)
    BY <1>8
  <2>2. r \in DOMAIN heap /\ IsText(heap[r].type)
    BY <2>1 DEF Live, IsText, IsLong
  <2>3. TextHeld(heap, heap[r]) /\ heap[r].kids \in Seq(Int)
    BY <1>2, <2>2, CellIs DEF Shaped, Shape
  <2>4. PICK k \in DOMAIN heap[r].kids : heap[r].kids[k] = q
    BY <2>1 DEF Range
  <2>5. k = 1
    BY <2>3, <2>4 DEF TextHeld
  <2>6. q \in DOMAIN heap /\ heap[q].type = "text"
    BY <2>3, <2>4, <2>5 DEF TextHeld
  <2> QED
    BY <2>6 DEF Live
<1>13. dropped \subseteq live
  BY <1>2 DEF Live
<1>14. live = kept
  BY <1>4, <1>10, <1>11, <1>12, <1>13
<1> QED
  BY <1>2, <1>14 DEF OnlySourcesLost, got

(***************************************************************************)
(* The chain of nodes of a list                                            *)
(***************************************************************************)

\* null and the nodes
Stops(h) == {Null} \union {q \in DOMAIN h : h[q].type = "node"}

\* the nodes met from p on, and null when there are no more
Walk(node, p) ==
  /\ node \in [1 .. Len(heap) + 1 -> Stops(heap)]
  /\ node[1] = p
  /\ \A i \in 1 .. Len(heap) : node[i + 1] = NextOf[node[i]]

\* The node after a node, and null after null.
LEMMA NextOfIs ==
  ASSUME heap \in Seq(Cell), Shaped(heap)
  PROVE  /\ NextOf[Null] = Null
         /\ \A q \in Stops(heap) : NextOf[q] \in Stops(heap)
         /\ \A q \in Stops(heap) : q # Null => NextOf[q] = Last(heap[q].kids)
<1> DEFINE next(q) == IF q # Null /\ heap[q].type = "node" THEN Last(heap[q].kids) ELSE Null
<1>1. NextOf = [q \in {Null} \union DOMAIN heap |-> next(q)]
  BY DEF NextOf
<1>2. \A q \in Stops(heap) : q \in {Null} \union DOMAIN heap
  BY DEF Stops
<1>3. \A q \in {Null} \union DOMAIN heap : NextOf[q] = next(q)
  BY <1>1
<1>4. NextOf[Null] = Null
  BY <1>3
<1>5. \A q \in Stops(heap) : q # Null => NextOf[q] = Last(heap[q].kids)
  BY <1>2, <1>3 DEF Stops
<1>6. \A q \in Stops(heap) : q # Null => Last(heap[q].kids) \in Stops(heap)
  BY DEF Shaped, Shape, Leads, Stops
<1>7. Null \in Stops(heap)
  BY DEF Stops
<1> HIDE DEF next
<1> QED
  BY <1>4, <1>5, <1>6, <1>7

\* A chain is a walk, without the nulls at its end.
LEMMA ChainIs ==
  ASSUME heap \in Seq(Cell), Shaped(heap), NEW p \in Stops(heap)
  PROVE  \E node : Walk(node, p)
           /\ Chain(p) = [n \in {m \in 1 .. Len(heap) + 1 : node[m] # Null} |-> node[n]]
<1> DEFINE n == Len(heap)
           V == Stops(heap)
           near == [v \in V |-> NextOf[v]]
           step == [i \in 1 .. n |-> near]
           node == CHOOSE f : f = [i \in 1 .. n + 1 |-> IF i = 1 THEN p ELSE NextOf[f[i - 1]]]
<1>1. n \in Nat
  OBVIOUS
<1>2. near \in [V -> V]
  BY NextOfIs
<1> HIDE DEF near
<1>3. step \in [1 .. n -> [V -> V]]
  BY <1>2
<1>4. PICK f \in [0 .. n -> V] : Follows(f, n, p, step)
  <2> HIDE DEF n, step, V
  <2>1. p \in V
    BY DEF V
  <2> QED
    BY <1>1, <1>3, <2>1, RecursionExists
<1>5. \A i \in 1 .. n : f[i] = NextOf[f[i - 1]]
  <2> SUFFICES ASSUME NEW i \in 1 .. n PROVE f[i] = NextOf[f[i - 1]]
    OBVIOUS
  <2>1. i - 1 \in 0 .. n /\ f[i - 1] \in V
    BY <1>1, <1>4
  <2>2. f[i] = step[i][f[i - 1]]
    BY <1>4 DEF Follows
  <2>3. step[i] = near
    OBVIOUS
  <2>4. near[f[i - 1]] = NextOf[f[i - 1]]
    BY <2>1 DEF near
  <2> QED
    BY <2>2, <2>3, <2>4
<1>6. f[0] = p
  BY <1>4 DEF Follows
<1> HIDE DEF step, V
<1>7. PICK g \in [1 .. n + 1 -> V] : \A i \in 1 .. n + 1 : g[i] = f[i - 1]
  <2>1. \A i \in 1 .. n + 1 : f[i - 1] \in V
    BY <1>1, <1>4
  <2>2. [i \in 1 .. n + 1 |-> f[i - 1]] \in [1 .. n + 1 -> V]
    BY <2>1
  <2> QED
    BY <2>2
<1>8. g = [i \in 1 .. n + 1 |-> IF i = 1 THEN p ELSE NextOf[g[i - 1]]]
  <2>1. \A i \in 1 .. n + 1 : g[i] = IF i = 1 THEN p ELSE NextOf[g[i - 1]]
    <3> SUFFICES ASSUME NEW i \in 1 .. n + 1, i # 1 PROVE g[i] = NextOf[g[i - 1]]
      <4>1. 1 \in 1 .. n + 1 /\ 1 - 1 = 0
        BY <1>1
      <4>2. g[1] = p
        BY <1>6, <1>7, <4>1
      <4> QED
        BY <4>2
    <3>1. i - 1 \in 1 .. n /\ i - 1 \in 1 .. n + 1
      BY <1>1
    <3> QED
      BY <1>5, <1>7, <3>1
  <2> QED
    BY <1>7, <2>1
<1>9. node = [i \in 1 .. n + 1 |-> IF i = 1 THEN p ELSE NextOf[node[i - 1]]]
  BY <1>8
<1>10. Chain(p) = [k \in {m \in DOMAIN node : node[m] # Null} |-> node[k]]
  BY DEF Chain
<1> HIDE DEF node
<1>11. DOMAIN node = 1 .. n + 1
  BY <1>9
<1>12. node[1] = p
  <2>1. 1 \in 1 .. n + 1
    BY <1>1
  <2> QED
    BY <1>9, <2>1
<1>13. \A i \in 1 .. n : node[i + 1] = NextOf[node[i]]
  <2> SUFFICES ASSUME NEW i \in 1 .. n PROVE node[i + 1] = NextOf[node[i]]
    OBVIOUS
  <2>1. i + 1 \in 1 .. n + 1 /\ i + 1 # 1 /\ (i + 1) - 1 = i
    BY <1>1
  <2> QED
    BY <1>9, <2>1
<1>14. \A i \in 1 .. n + 1 : node[i] \in V
  <2> DEFINE good == {k \in Nat : k <= n => node[k + 1] \in V}
  <2>1. 0 \in good
    <3>1. 0 + 1 = 1 /\ p \in V
      BY DEF V
    <3> QED
      BY <1>12, <3>1
  <2>2. ASSUME NEW k \in Nat, k \in good PROVE k + 1 \in good
    <3> SUFFICES ASSUME k + 1 <= n PROVE node[(k + 1) + 1] \in V
      OBVIOUS
    <3>1. k + 1 \in 1 .. n /\ node[k + 1] \in V
      BY <1>1, <2>2
    <3>2. node[(k + 1) + 1] = NextOf[node[k + 1]]
      BY <1>13, <3>1
    <3> QED
      BY <3>1, <3>2, NextOfIs DEF V
  <2> HIDE DEF good
  <2>3. \A k \in Nat : k \in good
    BY <2>1, <2>2, Induction
  <2> SUFFICES ASSUME NEW i \in 1 .. n + 1 PROVE node[i] \in V
    OBVIOUS
  <2>4. i - 1 \in Nat /\ i - 1 <= n /\ (i - 1) + 1 = i
    BY <1>1
  <2> QED
    BY <2>3, <2>4 DEF good
<1>15. node \in [1 .. n + 1 -> V]
  BY <1>9, <1>14
<1>16. Walk(node, p)
  BY <1>12, <1>13, <1>15 DEF Walk, V
<1> QED
  BY <1>10, <1>11, <1>16

\* the struct of a list or a dict that has a first node
HasFirst(h, p) == p \in DOMAIN h /\ h[p].type \in {"list_t", "dict_t"} /\ h[p].kids[1] # Null

\* Only one block leads to a node.
LEMMA OneBefore ==
  ASSUME heap \in Seq(Cell), Shaped(heap), Sound(heap),
         NEW a \in Stops(heap), a # Null, NextOf[a] # Null
  PROVE  /\ \A b \in Stops(heap) : b # Null /\ NextOf[b] = NextOf[a] => b = a
         /\ \A p : HasFirst(heap, p) => heap[p].kids[1] # NextOf[a]
<1>1. \A b \in Stops(heap) : b # Null =>
        /\ b \in DOMAIN heap /\ heap[b].type = "node" /\ NextOf[b] = heap[b].kids[Len(heap[b].kids)]
        /\ Len(heap[b].kids) \in DOMAIN heap[b].kids
  <2> SUFFICES ASSUME NEW b \in Stops(heap), b # Null
      PROVE  /\ b \in DOMAIN heap /\ heap[b].type = "node" /\ NextOf[b] = heap[b].kids[Len(heap[b].kids)]
             /\ Len(heap[b].kids) \in DOMAIN heap[b].kids
    OBVIOUS
  <2>1. b \in DOMAIN heap /\ heap[b].type = "node"
    BY DEF Stops
  <2>2. NextOf[b] = heap[b].kids[Len(heap[b].kids)]
    BY NextOfIs DEF Last
  <2>3. Len(heap[b].kids) \in {2, 3} /\ DOMAIN heap[b].kids = 1 .. Len(heap[b].kids)
    BY <2>1, CellIs DEF Shaped, Shape
  <2>4. \A m \in {2, 3} : m \in 1 .. m
    OBVIOUS
  <2> QED
    BY <2>1, <2>2, <2>3, <2>4
<1>2. a \in DOMAIN heap /\ heap[a].type = "node" /\ NextOf[a] = heap[a].kids[Len(heap[a].kids)]
      /\ Len(heap[a].kids) \in DOMAIN heap[a].kids
  BY <1>1
<1>3. PICK k \in DOMAIN heap[a].kids : heap[a].kids[k] = NextOf[a]
  BY <1>2
<1>4. \A r \in DOMAIN heap : \A l \in DOMAIN heap[r].kids : heap[r].kids[l] = NextOf[a] => r = a /\ l = k
  BY <1>2, <1>3 DEF Sound
<1>5. \A b \in Stops(heap) : b # Null /\ NextOf[b] = NextOf[a] => b = a
  BY <1>1, <1>4
<1>6. ASSUME NEW p, HasFirst(heap, p) PROVE heap[p].kids[1] # NextOf[a]
  <2>1. Len(heap[p].kids) = 1 /\ DOMAIN heap[p].kids = 1 .. Len(heap[p].kids)
    BY <1>6, CellIs DEF HasFirst, Shaped, Shape
  <2>2. 1 \in DOMAIN heap[p].kids
    BY <2>1
  <2>3. p # a
    BY <1>2, <1>6 DEF HasFirst
  <2> QED
    BY <1>4, <1>6, <2>2, <2>3 DEF HasFirst
<1> QED
  BY <1>5, <1>6

\* After the end of a walk there is nothing.
LEMMA WalkStays ==
  ASSUME heap \in Seq(Cell), Shaped(heap), NEW node, NEW p, Walk(node, p),
         NEW i \in 1 .. Len(heap) + 1, node[i] = Null
  PROVE  \A j \in i .. Len(heap) + 1 : node[j] = Null
<1> DEFINE n == Len(heap)
           good == {k \in Nat : i + k <= n + 1 => node[i + k] = Null}
<1>1. n \in Nat
  OBVIOUS
<1>2. \A j \in 1 .. n : node[j + 1] = NextOf[node[j]]
  BY DEF Walk
<1>3. 0 \in good
  <2>1. i + 0 = i
    OBVIOUS
  <2> QED
    BY <2>1
<1>4. ASSUME NEW k \in Nat, k \in good PROVE k + 1 \in good
  <2> SUFFICES ASSUME i + (k + 1) <= n + 1 PROVE node[i + (k + 1)] = Null
    OBVIOUS
  <2>1. i + k \in 1 .. n /\ i + k <= n + 1 /\ i + (k + 1) = (i + k) + 1
    BY <1>1
  <2>2. node[i + k] = Null
    BY <1>4, <2>1
  <2>3. node[(i + k) + 1] = NextOf[Null]
    BY <1>2, <2>1, <2>2
  <2> QED
    BY <2>1, <2>3, NextOfIs
<1> HIDE DEF good
<1>5. \A k \in Nat : k \in good
  BY <1>3, <1>4, Induction
<1> SUFFICES ASSUME NEW j \in i .. n + 1 PROVE node[j] = Null
  OBVIOUS
<1>6. j - i \in Nat /\ i + (j - i) = j /\ j <= n + 1
  BY <1>1
<1> QED
  BY <1>5, <1>6 DEF good

\* The walk from the first node of a list meets no node twice, and ends.
LEMMA WalkEnds ==
  ASSUME heap \in Seq(Cell), Shaped(heap), Sound(heap), NEW p, HasFirst(heap, p),
         NEW node, Walk(node, heap[p].kids[1])
  PROVE  node[Len(heap) + 1] = Null
<1> DEFINE n == Len(heap)
           D == 1 .. n + 1
           twice == {x \in D : \E y \in D : y # x /\ node[x] = node[y]}
<1>1. n \in Nat /\ DOMAIN heap = 1 .. n
  OBVIOUS
<1> SUFFICES ASSUME node[n + 1] # Null PROVE FALSE
  OBVIOUS
<1>2. /\ node \in [D -> Stops(heap)] /\ node[1] = heap[p].kids[1]
      /\ \A i \in 1 .. n : node[i + 1] = NextOf[node[i]]
  BY DEF Walk
<1>3. \A i \in D : node[i] # Null
  <2> SUFFICES ASSUME NEW i \in D, node[i] = Null PROVE FALSE
    OBVIOUS
  <2>1. n + 1 \in i .. n + 1
    BY <1>1
  <2> QED
    BY <2>1, WalkStays
<1>4. node \in [D -> 1 .. n]
  <2>1. \A i \in D : node[i] \in 1 .. n
    BY <1>1, <1>2, <1>3 DEF Stops
  <2> QED
    BY <1>2, <2>1
<1>5. \E x, y \in D : x # y /\ node[x] = node[y]
  <2>1. IsFiniteSet(D) /\ Cardinality(D) = n + 1
    <3>1. n + 1 \in Int /\ 1 \in Int
      BY <1>1
    <3>2. IsFiniteSet(1 .. n + 1) /\ Cardinality(1 .. n + 1) = IF 1 > n + 1 THEN 0 ELSE (n + 1) - 1 + 1
      BY <3>1, FS_Interval
    <3>3. ~(1 > n + 1) /\ (n + 1) - 1 + 1 = n + 1
      BY <1>1
    <3> QED
      BY <3>2, <3>3
  <2>2. IsFiniteSet(1 .. n) /\ Cardinality(1 .. n) = n
    <3>1. n \in Int /\ 1 \in Int
      BY <1>1
    <3>2. IsFiniteSet(1 .. n) /\ Cardinality(1 .. n) = IF 1 > n THEN 0 ELSE n - 1 + 1
      BY <3>1, FS_Interval
    <3>3. (1 > n => n = 0) /\ n - 1 + 1 = n
      BY <1>1
    <3> QED
      BY <3>2, <3>3
  <2>3. Cardinality(1 .. n) < Cardinality(D)
    <3>1. n < n + 1
      BY <1>1
    <3> QED
      BY <2>1, <2>2, <3>1
  <2> HIDE DEF D, n
  <2> QED
    BY <1>4, <2>1, <2>2, <2>3, FS_PigeonHole
<1>6. twice \subseteq Nat /\ twice # {}
  BY <1>1, <1>5
<1>7. PICK x \in twice : \A y \in twice : x <= y
  <2> HIDE DEF twice
  <2> QED
    BY <1>6, LeastNatural
<1>8. PICK y \in D : y # x /\ node[x] = node[y]
  BY <1>7
<1>9. y \in twice /\ x \in D
  BY <1>7, <1>8
<1>10. y > x /\ y > 1
  BY <1>1, <1>7, <1>8, <1>9
<1>11. y - 1 \in 1 .. n /\ y - 1 \in D /\ (y - 1) + 1 = y
  BY <1>1, <1>8, <1>10
<1>12. node[y] = NextOf[node[y - 1]]
  BY <1>2, <1>11
<1>13. node[y - 1] \in Stops(heap) /\ node[y - 1] # Null /\ NextOf[node[y - 1]] # Null
  BY <1>2, <1>3, <1>8, <1>11, <1>12
<1>14. CASE x = 1
  <2>1. heap[p].kids[1] = NextOf[node[y - 1]]
    BY <1>2, <1>8, <1>12, <1>14
  <2> QED
    BY <1>13, <2>1, OneBefore
<1>15. CASE x # 1
  <2>1. x - 1 \in 1 .. n /\ x - 1 \in D /\ (x - 1) + 1 = x /\ x - 1 # y - 1 /\ ~(x <= x - 1)
    BY <1>1, <1>9, <1>8, <1>11, <1>15
  <2>2. NextOf[node[x - 1]] = NextOf[node[y - 1]]
    BY <1>2, <1>8, <1>12, <2>1
  <2>3. node[x - 1] \in Stops(heap) /\ node[x - 1] # Null
    BY <1>2, <1>3, <2>1
  <2>4. node[x - 1] = node[y - 1]
    BY <1>13, <2>2, <2>3, OneBefore
  <2>5. x - 1 \in twice
    BY <1>11, <2>1, <2>4
  <2> QED
    BY <1>7, <2>1, <2>5
<1> QED
  BY <1>14, <1>15

\* The chain of a list is its nodes in order, and no node follows the last.
LEMMA ChainOf ==
  ASSUME heap \in Seq(Cell), Shaped(heap), Sound(heap), NEW p, HasFirst(heap, p)
  PROVE  \E node : \E k \in 1 .. Len(heap) :
           /\ Walk(node, heap[p].kids[1])
           /\ Chain(heap[p].kids[1]) \in [1 .. k -> Int]
           /\ \A i \in 1 .. k : Chain(heap[p].kids[1])[i] = node[i]
           /\ \A i \in 1 .. Len(heap) + 1 : node[i] # Null <=> i <= k
<1> DEFINE n == Len(heap)
           first == heap[p].kids[1]
<1>1. n \in Nat /\ DOMAIN heap = 1 .. n
  OBVIOUS
<1>2. first \in Stops(heap) /\ first # Null
  BY DEF HasFirst, Shaped, Shape, Leads, Stops
<1>3. PICK node : Walk(node, first)
        /\ Chain(first) = [m \in {i \in 1 .. n + 1 : node[i] # Null} |-> node[m]]
  BY <1>2, ChainIs
<1> DEFINE over == {i \in 1 .. n + 1 : node[i] = Null}
<1>4. over \subseteq Nat /\ over # {}
  <2>1. node[n + 1] = Null
    BY <1>3, WalkEnds
  <2> QED
    BY <1>1, <2>1
<1>5. PICK e \in over : \A i \in over : e <= i
  <2> HIDE DEF over
  <2> QED
    BY <1>4, LeastNatural
<1>6. e # 1
  BY <1>2, <1>3, <1>5 DEF Walk
<1>7. PICK k : k = e - 1
  OBVIOUS
<1>8. k \in 1 .. n /\ k + 1 = e
  BY <1>1, <1>5, <1>6, <1>7
<1>9. \A i \in 1 .. n + 1 : node[i] # Null <=> i <= k
  <2> SUFFICES ASSUME NEW i \in 1 .. n + 1 PROVE node[i] # Null <=> i <= k
    OBVIOUS
  <2>1. CASE i <= k
    <3>1. ~(e <= i)
      BY <1>1, <1>8, <2>1
    <3> QED
      BY <1>5, <2>1, <3>1
  <2>2. CASE ~(i <= k)
    <3>1. i \in e .. n + 1 /\ e \in 1 .. n + 1 /\ node[e] = Null
      BY <1>1, <1>5, <1>8, <2>2
    <3>2. node[i] = Null
      BY <1>3, <3>1, WalkStays
    <3> QED
      BY <2>2, <3>2
  <2> QED
    BY <2>1, <2>2
<1>10. {i \in 1 .. n + 1 : node[i] # Null} = 1 .. k
  <2>1. 1 .. k \subseteq 1 .. n + 1 /\ \A i \in 1 .. n + 1 : i <= k <=> i \in 1 .. k
    BY <1>1, <1>8
  <2> HIDE DEF n
  <2> QED
    BY <1>9, <2>1
<1>11. Chain(first) = [m \in 1 .. k |-> node[m]]
  BY <1>3, <1>10
<1>12. \A m \in 1 .. k : node[m] \in Int
  <2>1. 1 .. k \subseteq 1 .. n + 1
    BY <1>1, <1>8
  <2>2. \A v \in Stops(heap) : v \in Int
    BY <1>1 DEF Stops, Null
  <2> QED
    BY <1>3, <2>1, <2>2 DEF Walk
<1>13. Chain(first) \in [1 .. k -> Int] /\ \A i \in 1 .. k : Chain(first)[i] = node[i]
  BY <1>11, <1>12
<1> HIDE DEF first, n
<1> QED
  BY <1>3, <1>8, <1>9, <1>13 DEF first, n

\* In a heap in order the tail of a list is its last node: it is held by another block, and so
\* are the nodes before it, back to the list.
LEMMA TailHolds == Inv => TailIsLast
<1> SUFFICES ASSUME Inv, NEW p \in DOMAIN heap, heap[p].type \in {"list_t", "dict_t"}, heap[p].tail # Null
             PROVE  heap[p].tail = Last(Chain(heap[p].kids[1]))
  BY DEF TailIsLast
<1> DEFINE first == heap[p].kids[1]
           t == heap[p].tail
           n == Len(heap)
           got == Range(call.got)
           roots == client \union got \union dropped
<1>1. PICK home \in [1 .. Len(heap) -> Int] : InOrder(heap, client, call, dropped, home)
  BY DEF Inv
<1>2. /\ heap \in Seq(Cell) /\ IsHeap(heap) /\ Sound(heap) /\ Shaped(heap) /\ Homed(heap, home)
      /\ HeapOK(heap, home)
      /\ client \in SUBSET Int /\ dropped \in SUBSET Int /\ got \in SUBSET Int
      /\ \A q \in client : heap[q].type \in DataTypes
      /\ \A q \in dropped : heap[q].type = "text"
  BY <1>1, RootsAre DEF InOrder
<1>3. NoLoss(heap, roots) /\ roots \in SUBSET Int
  BY <1>1, <1>2 DEF InOrder
<1>4. \A q \in roots : heap[q].type # "node"
  <2>1. \A q \in got : heap[q].type # "node"
    <3>1. CASE call.got = << >>
      BY <3>1, RangeOfNothing
    <3>2. CASE call.got # << >>
      <4>1. call.op = "create"
        BY <1>1, <3>2 DEF InOrder, CallOK
      <4>2. PICK l : l = Last(call.got)
        OBVIOUS
      <4>3. \A q \in got : heap[q].type \in {"text", "elements", "tuple_t", "list_t", "dict_t"}
        BY <1>1, <3>2, <4>1, <4>2, GotIs
      <4> QED
        BY <4>3
    <3> QED
      BY <3>1, <3>2
  <2> QED
    BY <1>2, <2>1, DataAre
<1>5. /\ first # Null /\ home[first] = p
      /\ t \in DOMAIN heap /\ heap[t].type = "node" /\ home[t] = p /\ Last(heap[t].kids) = Null
  BY <1>2 DEF Homed
<1>6. HasFirst(heap, p)
  BY <1>5 DEF HasFirst
<1>7. PICK node : \E k \in 1 .. n :
           /\ Walk(node, first)
           /\ Chain(first) \in [1 .. k -> Int]
           /\ \A i \in 1 .. k : Chain(first)[i] = node[i]
           /\ \A i \in 1 .. n + 1 : node[i] # Null <=> i <= k
  BY <1>2, <1>6, ChainOf
<1>8. PICK k \in 1 .. n :
           /\ Walk(node, first)
           /\ Chain(first) \in [1 .. k -> Int]
           /\ \A i \in 1 .. k : Chain(first)[i] = node[i]
           /\ \A i \in 1 .. n + 1 : node[i] # Null <=> i <= k
  BY <1>7
<1>9. n \in Nat
  BY <1>2 DEF IsHeap
<1> DEFINE met == {node[i] : i \in 1 .. k}
           s == {q \in Int : q \in DOMAIN heap /\ heap[q].type = "node" /\ home[q] = p => q \in met}
<1>10. first \in met
  <2>1. 1 \in 1 .. k /\ node[1] = first
    BY <1>8, <1>9 DEF Walk
  <2> QED
    BY <2>1
<1>11. \A q \in met : q \in Stops(heap) /\ q # Null /\ NextOf[q] \in met \union {Null}
  <2> SUFFICES ASSUME NEW i \in 1 .. k
               PROVE  node[i] \in Stops(heap) /\ node[i] # Null /\ NextOf[node[i]] \in met \union {Null}
    OBVIOUS
  <2>1. i \in 1 .. n /\ i \in 1 .. n + 1 /\ i <= k /\ i + 1 \in 1 .. n + 1 /\ (i + 1 <= k => i + 1 \in 1 .. k)
    BY <1>8, <1>9
  <2>2. node[i] # Null /\ node[i] \in Stops(heap) /\ NextOf[node[i]] = node[i + 1]
    BY <1>8, <2>1 DEF Walk
  <2>3. node[i + 1] # Null => node[i + 1] \in met
    BY <1>8, <2>1
  <2> QED
    BY <2>2, <2>3
<1> HIDE DEF met
<1>12. \A q : Range(Followed(heap, q)) \subseteq Int
  BY <1>2, FollowedIs
<1>13. \A q \in s : Range(Followed(heap, q)) \subseteq s \union {Null}
  <2> SUFFICES ASSUME NEW q \in s, NEW r \in Range(Followed(heap, q)), r # Null,
                      r \in DOMAIN heap, heap[r].type = "node", home[r] = p
               PROVE  r \in met
    BY <1>12
  <2>1. q \in DOMAIN heap /\ r \in Range(heap[q].kids)
    BY <1>2, FollowedIs
  <2>2. \/ heap[q].type \in {"list_t", "dict_t"} /\ r = heap[q].kids[1]
        \/ heap[q].type = "node" /\ r = Last(heap[q].kids)
    BY <1>2, <2>1, NodeHeld
  <2>3. CASE heap[q].type \in {"list_t", "dict_t"} /\ r = heap[q].kids[1]
    <3>1. home[r] = q
      BY <1>2, <2>1, <2>3 DEF Homed
    <3> QED
      BY <1>10, <2>3, <3>1
  <2>4. CASE heap[q].type = "node" /\ r = Last(heap[q].kids)
    <3>1. home[r] = home[q]
      BY <1>2, <2>1, <2>4 DEF Homed
    <3>2. q \in met
      BY <2>1, <2>4, <3>1
    <3>3. NextOf[q] = r
      BY <1>2, <1>11, <2>4, <3>2, NextOfIs
    <3> QED
      BY <1>11, <3>2, <3>3
  <2> QED
    BY <2>2, <2>3, <2>4
<1>14. t \in Reach(heap, roots)
  <2>1. heap[t].type \notin {"freed", "text"}
    BY <1>5
  <2> HIDE DEF roots, t
  <2> QED
    BY <1>2, <1>3, <1>5, <2>1, AllReached
<1>15. Reach(heap, roots) \subseteq s
  <2>1. roots \subseteq s \union {Null}
    BY <1>3, <1>4
  <2> HIDE DEF roots, s
  <2> QED
    BY <1>2, <1>3, <1>13, <2>1, ReachLeast
<1>16. PICK i \in 1 .. k : node[i] = t
  <2>1. t \in met
    BY <1>5, <1>14, <1>15
  <2> QED
    BY <2>1 DEF met
<1>17. i = k
  <2>1. i \in 1 .. n /\ i + 1 \in 1 .. n + 1 /\ (i # k => i + 1 <= k)
    BY <1>8, <1>9, <1>16
  <2>2. node[i + 1] = NextOf[t]
    BY <1>8, <1>16, <2>1 DEF Walk
  <2>3. t \in Stops(heap) /\ t # Null
    BY <1>5 DEF Stops
  <2>4. NextOf[t] = Null
    BY <1>2, <1>5, <2>3, NextOfIs
  <2> QED
    BY <1>8, <2>1, <2>2, <2>4
<1>18. Last(Chain(first)) = node[k]
  <2>1. k \in Nat /\ k \in 1 .. k
    BY <1>8, <1>9
  <2>2. PICK c : c = Chain(first)
    OBVIOUS
  <2>3. c \in [1 .. k -> Int] /\ c[k] = node[k]
    BY <1>8, <2>1, <2>2
  <2>4. c \in Seq(Int) /\ Len(c) = k
    BY <2>1, <2>3
  <2> QED
    BY <2>2, <2>3, <2>4 DEF Last
<1> QED
  BY <1>16, <1>17, <1>18

\* Pointers lead to blocks, the client's are live terms, and a list has a last node if it has a
\* first one: bert_data_create_*, bert_list_*, bert_tuple_*, bert_dict_* and bert_data_destroy.
THEOREM TypeCorrect == Spec => []TypeOK
BY InOrderAlways, TypeHolds, PTL

\* Destroying all that the client owns meets every block once, and none that was freed, whatever
\* was appended, replaced, refused or failed before.
THEOREM OneOwnerAlways == Spec => []OneOwner
BY InOrderAlways, OwnerHolds, PTL

\* Every live block is owned by the client or by a constructor that still runs, or is the source
\* of a regex, which bert_data_destroy does not free: malloc failing at any call loses nothing.
THEOREM OnlySourcesLostAlways == Spec => []OnlySourcesLost
BY InOrderAlways, SourcesHold, PTL

\* If no binary or regex of the greatest size of its type is asked for, a text has room for its
\* bytes and the NULL byte the constructors put behind them, also one whose length was cut.
THEOREM TextsTerminatedAlways ==
  ASSUME \A size \in Sizes : size % LongSizes # LongSizes - 1
  PROVE  Spec => []TextsTerminated
BY InOrderAlways, TextsHold, PTL

\* The tail a list or a dict keeps is its last node: bert_list_append and bert_dict_append move it
\* with every node, and no other call touches it.
THEOREM TailIsLastAlways == Spec => []TailIsLast
BY InOrderAlways, TailHolds, PTL
=============================================================================
