------------------------ MODULE ContainersStore_proofs ------------------------
(***************************************************************************)
(* Containers implements SequenceStore: what lists, dicts and tuples hold, *)
(* read from their blocks, changes as the sequences of the store do, for   *)
(* any types, sizes, indices and heaps, and any failure of malloc.         *)
(***************************************************************************)
EXTENDS Containers_proofs

(***************************************************************************)
(* What a term holds, read from the heap without a recursive function: a   *)
(* list is the chain of its nodes.                                         *)
(***************************************************************************)

\* NextOf, Chain, Held and Contents of Containers, in any heap
NextIn(h) ==
  [p \in {Null} \union DOMAIN h |->
     IF p # Null /\ h[p].type = "node" THEN Last(h[p].kids) ELSE Null]

ChainIn(h, p) ==
  LET node[n \in 1 .. Len(h) + 1] == IF n = 1 THEN p ELSE NextIn(h)[node[n - 1]]
  IN  [n \in {m \in DOMAIN node : node[m] # Null} |-> node[n]]

ListIn(h, c) ==
  LET chain == ChainIn(h, h[h[c].kids[1]].kids[1])
      width == IF h[c].type = "dict" THEN 2 ELSE 1
  IN  [k \in 1 .. width * Len(chain) |->
         h[chain[(k - 1) \div width + 1]].kids[((k - 1) % width) + 1]]

HeldIn(h, c) ==
  CASE h[c].type \in {"list", "dict"} -> ListIn(h, c)
    [] h[c].type = "tuple" -> h[h[h[c].kids[1]].kids[1]].kids
    [] OTHER -> << >>

TermsIn(h) == {p \in DOMAIN h : h[p].type \in DataTypes}

ContentIn(h) == [p \in TermsIn(h) |-> HeldIn(h, p)]

\* What the terms hold before and after a step.
LEMMA ContentsAre == Contents = ContentIn(heap) /\ Contents' = ContentIn(heap')
<1>1. NextOf = NextIn(heap) /\ NextOf' = NextIn(heap')
  BY DEF NextOf, NextIn
<1>2. \A p : Chain(p) = ChainIn(heap, p)
  BY <1>1 DEF Chain, ChainIn
<1>3. \A p : Chain(p)' = ChainIn(heap', p)
  BY <1>1 DEF Chain, ChainIn
<1>4. \A c : Held(c) = HeldIn(heap, c)
  BY <1>2 DEF Held, HeldIn, ListIn, Elements, Struct
<1>5. \A c : Held(c)' = HeldIn(heap', c)
  BY <1>3 DEF Held, HeldIn, ListIn, Elements, Struct
<1>6. DataCells = TermsIn(heap) /\ DataCells' = TermsIn(heap')
  BY DEF DataCells, TermsIn
<1>7. Contents = ContentIn(heap)
  BY <1>4, <1>6 DEF Contents, ContentIn
<1>8. Contents' = ContentIn(heap')
  BY <1>5, <1>6 DEF Contents, ContentIn
<1> QED
  BY <1>7, <1>8

\* the i-th of a sequence, and null past its end
At(s, i) == IF i \in DOMAIN s THEN s[i] ELSE Null

\* the nodes from p on are those of s
IsChain(h, p, s) ==
  /\ s \in Seq(Int) /\ Len(s) <= Len(h)
  /\ \A i \in DOMAIN s : s[i] # Null /\ s[i] \in DOMAIN h /\ h[s[i]].type = "node"
  /\ p = At(s, 1)
  /\ \A i \in DOMAIN s : Last(h[s[i]].kids) = At(s, i + 1)

\* There is one chain from a node.
LEMMA ChainUnique ==
  ASSUME NEW h, Len(h) \in Nat, NEW p, NEW s, IsChain(h, p, s)
  PROVE  ChainIn(h, p) = s
<1> DEFINE n == Len(h)
           k == Len(s)
           f == [i \in 1 .. n + 1 |-> At(s, i)]
           node == CHOOSE g : g = [i \in 1 .. n + 1 |-> IF i = 1 THEN p ELSE NextIn(h)[g[i - 1]]]
<1>1. n \in Nat /\ k \in Nat /\ k <= n /\ DOMAIN s = 1 .. k /\ s \in [1 .. k -> Int]
  BY DEF IsChain
<1>2. NextIn(h)[Null] = Null
  BY DEF NextIn
<1>3. \A q \in DOMAIN h : q # Null /\ h[q].type = "node" => NextIn(h)[q] = Last(h[q].kids)
  BY DEF NextIn
<1>4. \A i \in 1 .. n : NextIn(h)[At(s, i)] = At(s, i + 1)
  <2> SUFFICES ASSUME NEW i \in 1 .. n PROVE NextIn(h)[At(s, i)] = At(s, i + 1)
    OBVIOUS
  <2>1. CASE i \in DOMAIN s
    <3>1. At(s, i) = s[i] /\ s[i] # Null /\ s[i] \in DOMAIN h /\ h[s[i]].type = "node"
          /\ Last(h[s[i]].kids) = At(s, i + 1)
      BY <2>1 DEF IsChain, At
    <3> QED
      BY <1>3, <3>1
  <2>2. CASE i \notin DOMAIN s
    <3>1. i + 1 \notin DOMAIN s
      BY <1>1, <2>2
    <3> QED
      BY <1>2, <2>2, <3>1 DEF At
  <2> QED
    BY <2>1, <2>2
<1>5. f = [i \in 1 .. n + 1 |-> IF i = 1 THEN p ELSE NextIn(h)[f[i - 1]]]
  <2>1. \A i \in 1 .. n + 1 : At(s, i) = IF i = 1 THEN p ELSE NextIn(h)[f[i - 1]]
    <3> SUFFICES ASSUME NEW i \in 1 .. n + 1 PROVE At(s, i) = IF i = 1 THEN p ELSE NextIn(h)[f[i - 1]]
      OBVIOUS
    <3>1. CASE i = 1
      BY <3>1 DEF IsChain
    <3>2. CASE i # 1
      <4>1. i - 1 \in 1 .. n /\ i - 1 \in 1 .. n + 1 /\ (i - 1) + 1 = i
        BY <1>1, <3>2
      <4>2. f[i - 1] = At(s, i - 1)
        BY <4>1
      <4>3. NextIn(h)[At(s, i - 1)] = At(s, i)
        BY <1>4, <4>1
      <4> QED
        BY <3>2, <4>2, <4>3
    <3> QED
      BY <3>1, <3>2
  <2> QED
    BY <2>1
<1>6. node = [i \in 1 .. n + 1 |-> IF i = 1 THEN p ELSE NextIn(h)[node[i - 1]]]
  <2> HIDE DEF f
  <2> QED
    BY <1>5
<1>7. ChainIn(h, p) = [i \in {m \in DOMAIN node : node[m] # Null} |-> node[i]]
  BY DEF ChainIn
<1> HIDE DEF node
<1>8. \A i \in 1 .. n + 1 : node[i] = At(s, i)
  <2> DEFINE good == {m \in Nat : m <= n => node[m + 1] = At(s, m + 1)}
  <2>1. 0 \in good
    <3>1. 0 + 1 = 1 /\ 1 \in 1 .. n + 1
      BY <1>1
    <3>2. node[1] = p
      BY <1>6, <3>1
    <3> QED
      BY <3>1, <3>2 DEF IsChain
  <2>2. ASSUME NEW m \in Nat, m \in good PROVE m + 1 \in good
    <3> SUFFICES ASSUME m + 1 <= n PROVE node[(m + 1) + 1] = At(s, (m + 1) + 1)
      OBVIOUS
    <3>1. (m + 1) + 1 \in 1 .. n + 1 /\ (m + 1) + 1 # 1 /\ ((m + 1) + 1) - 1 = m + 1 /\ m + 1 \in 1 .. n /\ m <= n
      BY <1>1
    <3>2. node[(m + 1) + 1] = NextIn(h)[node[m + 1]]
      BY <1>6, <3>1
    <3>3. node[m + 1] = At(s, m + 1)
      BY <2>2, <3>1
    <3> QED
      BY <1>4, <3>1, <3>2, <3>3
  <2> HIDE DEF good
  <2>3. \A m \in Nat : m \in good
    BY <2>1, <2>2, Induction
  <2> SUFFICES ASSUME NEW i \in 1 .. n + 1 PROVE node[i] = At(s, i)
    OBVIOUS
  <2>4. i - 1 \in Nat /\ i - 1 <= n /\ (i - 1) + 1 = i
    BY <1>1
  <2> QED
    BY <2>3, <2>4 DEF good
<1>9. DOMAIN node = 1 .. n + 1
  BY <1>6
<1>10. {m \in DOMAIN node : node[m] # Null} = DOMAIN s
  <2>1. DOMAIN s \subseteq 1 .. n + 1
    BY <1>1
  <2>2. \A m \in 1 .. n + 1 : node[m] # Null <=> m \in DOMAIN s
    BY <1>8 DEF IsChain, At
  <2> QED
    BY <1>9, <2>1, <2>2
<1>11. \A m \in DOMAIN s : node[m] = s[m]
  <2>1. DOMAIN s \subseteq 1 .. n + 1
    BY <1>1
  <2> QED
    BY <1>8, <2>1 DEF At
<1>12. s = [i \in DOMAIN s |-> s[i]]
  BY <1>1
<1> QED
  BY <1>7, <1>10, <1>11, <1>12

\* No node is met twice.
LEMMA ChainDistinct ==
  ASSUME NEW h, NEW p, NEW s, IsChain(h, p, s), NEW i \in DOMAIN s, NEW j \in DOMAIN s, s[i] = s[j]
  PROVE  i = j
<1> DEFINE k == Len(s)
<1>1. k \in Nat /\ DOMAIN s = 1 .. k
  BY DEF IsChain
<1>2. ASSUME NEW x \in DOMAIN s, NEW y \in DOMAIN s, s[x] = s[y], x < y PROVE FALSE
  <2> DEFINE good == {m \in Nat : y + m <= k => s[x + m] = s[y + m]}
  <2>1. 0 \in good
    <3>1. x + 0 = x /\ y + 0 = y
      BY <1>1
    <3> QED
      BY <1>2, <3>1
  <2>2. ASSUME NEW m \in Nat, m \in good PROVE m + 1 \in good
    <3> SUFFICES ASSUME y + (m + 1) <= k PROVE s[x + (m + 1)] = s[y + (m + 1)]
      OBVIOUS
    <3>1. /\ x + m \in DOMAIN s /\ y + m \in DOMAIN s /\ (x + m) + 1 \in DOMAIN s /\ (y + m) + 1 \in DOMAIN s
          /\ (x + m) + 1 = x + (m + 1) /\ (y + m) + 1 = y + (m + 1) /\ y + m <= k
      <4>1. DOMAIN s = 1 .. k /\ k \in Nat /\ x \in 1 .. k /\ y \in 1 .. k
        BY <1>1
      <4>2. (x + m) + 1 = x + (m + 1) /\ (y + m) + 1 = y + (m + 1) /\ y + m <= k
        BY <4>1
      <4>3. y + m \in 1 .. k /\ (y + m) + 1 \in 1 .. k
        BY <4>1
      <4>4. x + m \in 1 .. k /\ (x + m) + 1 \in 1 .. k
        BY <1>2, <4>1
      <4> QED
        BY <4>1, <4>2, <4>3, <4>4
    <3>2. s[x + m] = s[y + m]
      BY <2>2, <3>1
    <3>3. Last(h[s[x + m]].kids) = At(s, (x + m) + 1) /\ Last(h[s[y + m]].kids) = At(s, (y + m) + 1)
      BY <3>1 DEF IsChain
    <3> QED
      BY <3>1, <3>2, <3>3 DEF At
  <2> HIDE DEF good
  <2>3. k - y \in Nat /\ y + (k - y) = k /\ x + (k - y) \in DOMAIN s /\ (x + (k - y)) + 1 \in DOMAIN s
        /\ k \in DOMAIN s /\ k + 1 \notin DOMAIN s /\ y + (k - y) <= k
    BY <1>1, <1>2
  <2>4. k - y \in good
    BY <2>1, <2>2, <2>3, Induction
  <2>5. s[x + (k - y)] = s[k]
    BY <2>3, <2>4 DEF good
  <2>6. Last(h[s[k]].kids) = At(s, k + 1) /\ Last(h[s[x + (k - y)]].kids) = At(s, (x + (k - y)) + 1)
    BY <2>3 DEF IsChain
  <2>7. s[(x + (k - y)) + 1] # Null
    BY <2>3 DEF IsChain
  <2> HIDE DEF k
  <2> QED
    BY <2>3, <2>5, <2>6, <2>7 DEF At
<1>3. i < j \/ j < i \/ i = j
  BY <1>1
<1> QED
  BY <1>2, <1>3

\* every list and dict has a chain of nodes
Chained(h) ==
  \A l \in DOMAIN h : h[l].type \in {"list_t", "dict_t"} => \E s : IsChain(h, h[l].kids[1], s)

\* In a heap in order they have.
LEMMA HeapChained ==
  ASSUME heap \in Seq(Cell), Shaped(heap), Sound(heap)
  PROVE  Chained(heap)
<1> SUFFICES ASSUME NEW l \in DOMAIN heap, heap[l].type \in {"list_t", "dict_t"}
             PROVE  \E s : IsChain(heap, heap[l].kids[1], s)
  BY DEF Chained
<1> DEFINE first == heap[l].kids[1]
           n == Len(heap)
<1>1. n \in Nat /\ DOMAIN heap = 1 .. n
  OBVIOUS
<1>2. CASE first = Null
  <2>1. PICK s : s = << >>
    OBVIOUS
  <2>2. s \in Seq(Int) /\ Len(s) = 0 /\ DOMAIN s = {}
    BY <2>1
  <2>3. At(s, 1) = Null
    BY <2>2 DEF At
  <2>4. 0 <= n
    BY <1>1
  <2> QED
    BY <1>2, <2>2, <2>3, <2>4 DEF IsChain
<1>3. CASE first # Null
  <2>1. HasFirst(heap, l)
    BY <1>3 DEF HasFirst
  <2>2. PICK node : \E k \in 1 .. n :
           /\ Walk(node, first)
           /\ Chain(first) \in [1 .. k -> Int]
           /\ \A i \in 1 .. k : Chain(first)[i] = node[i]
           /\ \A i \in 1 .. n + 1 : node[i] # Null <=> i <= k
    BY <2>1, ChainOf
  <2>3. PICK k \in 1 .. n :
           /\ Walk(node, first)
           /\ Chain(first) \in [1 .. k -> Int]
           /\ \A i \in 1 .. k : Chain(first)[i] = node[i]
           /\ \A i \in 1 .. n + 1 : node[i] # Null <=> i <= k
    BY <2>2
  <2>4. PICK s : s = Chain(first)
    OBVIOUS
  <2>5. s \in Seq(Int) /\ Len(s) = k /\ DOMAIN s = 1 .. k /\ Len(s) <= n /\ k \in Nat
    BY <1>1, <2>3, <2>4
  <2>6. \A i \in 1 .. n + 1 : At(s, i) = node[i]
    <3> SUFFICES ASSUME NEW i \in 1 .. n + 1 PROVE At(s, i) = node[i]
      OBVIOUS
    <3>1. i \in 1 .. k <=> i <= k
      BY <1>1
    <3> QED
      BY <2>3, <2>4, <2>5, <3>1 DEF At
  <2>7. /\ node \in [1 .. n + 1 -> Stops(heap)] /\ node[1] = first
        /\ \A i \in 1 .. n : node[i + 1] = NextOf[node[i]]
    BY <2>3 DEF Walk
  <2>8. \A i \in DOMAIN s : i \in 1 .. n /\ i \in 1 .. n + 1 /\ i + 1 \in 1 .. n + 1 /\ i <= k
    BY <1>1, <2>5
  <2>9. 1 \in 1 .. n + 1
    BY <1>1
  <2> HIDE DEF n, first
  <2>10. \A i \in DOMAIN s : s[i] = node[i] /\ s[i] # Null
    BY <2>3, <2>4, <2>5, <2>8
  <2>11. \A i \in DOMAIN s : s[i] \in DOMAIN heap /\ heap[s[i]].type = "node"
    BY <2>7, <2>8, <2>10 DEF Stops
  <2>12. \A i \in DOMAIN s : Last(heap[s[i]].kids) = At(s, i + 1)
    <3> SUFFICES ASSUME NEW i \in DOMAIN s PROVE Last(heap[s[i]].kids) = At(s, i + 1)
      OBVIOUS
    <3>1. s[i] \in Stops(heap) /\ s[i] # Null
      BY <2>10, <2>11 DEF Stops
    <3>2. NextOf[s[i]] = Last(heap[s[i]].kids)
      BY <3>1, NextOfIs
    <3> QED
      BY <2>6, <2>7, <2>8, <2>10, <3>2
  <2>13. first = At(s, 1)
    BY <2>6, <2>7, <2>9
  <2> QED
    BY <2>5, <2>10, <2>11, <2>12, <2>13 DEF IsChain, first, n
<1> QED
  BY <1>2, <1>3

\* the node of the k-th element, and which of its elements that is
Place(w, k) == (k - 1) \div w + 1
Side(w, k) == ((k - 1) % w) + 1

\* Nodes of w elements each have w times as many.
LEMMA Places ==
  ASSUME NEW w \in {1, 2}, NEW n \in Nat
  PROVE  /\ \A k \in 1 .. w * n : Place(w, k) \in 1 .. n /\ Side(w, k) \in 1 .. w
         /\ \A i \in 1 .. n, j \in 1 .. w :
              /\ w * (i - 1) + j \in 1 .. w * n
              /\ Place(w, w * (i - 1) + j) = i /\ Side(w, w * (i - 1) + j) = j
         /\ \A j \in 1 .. w : Place(w, w * n + j) = n + 1 /\ Side(w, w * n + j) = j
<1>1. CASE w = 1
  BY <1>1 DEF Place, Side
<1>2. CASE w = 2
  <2>1. \A k \in 1 .. 2 * n : Place(2, k) \in 1 .. n /\ Side(2, k) \in 1 .. 2
    BY DEF Place, Side
  <2>2. \A j \in 1 .. 2 : j = 1 \/ j = 2
    OBVIOUS
  <2>3. \A i \in 1 .. n + 1 : Place(2, 2 * (i - 1) + 1) = i /\ Side(2, 2 * (i - 1) + 1) = 1
    BY DEF Place, Side
  <2>4. \A i \in 1 .. n + 1 : Place(2, 2 * (i - 1) + 2) = i /\ Side(2, 2 * (i - 1) + 2) = 2
    BY DEF Place, Side
  <2>5. \A i \in 1 .. n : 2 * (i - 1) + 1 \in 1 .. 2 * n /\ 2 * (i - 1) + 2 \in 1 .. 2 * n
    OBVIOUS
  <2>6. n + 1 \in 1 .. n + 1 /\ 2 * ((n + 1) - 1) = 2 * n /\ \A i \in 1 .. n : i \in 1 .. n + 1
    OBVIOUS
  <2>7. \A j \in 1 .. 2 : Place(2, 2 * n + j) = n + 1 /\ Side(2, 2 * n + j) = j
    BY <2>2, <2>3, <2>4, <2>6
  <2>8. \A i \in 1 .. n, j \in 1 .. 2 :
          /\ 2 * (i - 1) + j \in 1 .. 2 * n
          /\ Place(2, 2 * (i - 1) + j) = i /\ Side(2, 2 * (i - 1) + j) = j
    BY <2>2, <2>3, <2>4, <2>5, <2>6
  <2> QED
    BY <1>2, <2>1, <2>7, <2>8
<1> QED
  BY <1>1, <1>2

\* the elements in the nodes of s, w in each
ElementsOf(h, s, w) == [k \in 1 .. w * Len(s) |-> h[s[Place(w, k)]].kids[Side(w, k)]]

Width(h, c) == IF h[c].type = "dict" THEN 2 ELSE 1

\* What a list or a dict holds is in the nodes of its chain.
LEMMA ListHolds ==
  ASSUME NEW h, Len(h) \in Nat, NEW c, h[c].type \in {"list", "dict"},
         NEW s, IsChain(h, h[h[c].kids[1]].kids[1], s)
  PROVE  HeldIn(h, c) = ElementsOf(h, s, Width(h, c))
<1>1. ChainIn(h, h[h[c].kids[1]].kids[1]) = s
  BY ChainUnique
<1> QED
  BY <1>1 DEF HeldIn, ListIn, ElementsOf, Width, Place, Side

\* the blocks of a term
Nodes(h, c) == IF h[c].type \in {"list", "dict"} THEN Range(ChainIn(h, h[h[c].kids[1]].kids[1])) ELSE {}
Structs(h, c) == IF h[c].type \in {"list", "dict", "tuple"} THEN {h[c].kids[1]} ELSE {}
Arrays(h, c) == IF h[c].type = "tuple" THEN {h[h[c].kids[1]].kids[1]} ELSE {}

Parts(h, c) == {c} \union Structs(h, c) \union Nodes(h, c) \union Arrays(h, c)

\* A term whose blocks stay holds what it held.
LEMMA HeldSame ==
  ASSUME NEW h, NEW g, Len(h) \in Nat, Len(g) \in Nat, Len(h) <= Len(g), Shaped(h), Chained(h),
         NEW c \in DOMAIN h, \A q \in Parts(h, c) : q \in DOMAIN g /\ g[q] = h[q]
  PROVE  HeldIn(g, c) = HeldIn(h, c)
<1>1. g[c] = h[c]
  BY DEF Parts
<1>2. CASE h[c].type \in {"list", "dict"}
  <2> DEFINE l == h[c].kids[1]
             w == Width(h, c)
  <2>1. l \in DOMAIN h /\ h[l].type \in {"list_t", "dict_t"} /\ g[l] = h[l]
    BY <1>2 DEF Shaped, Shape, StructHeld, Parts, Structs
  <2>2. PICK s : IsChain(h, h[l].kids[1], s)
    BY <2>1 DEF Chained
  <2>3. ChainIn(h, h[l].kids[1]) = s
    BY <2>2, ChainUnique
  <2>4. \A i \in DOMAIN s : s[i] \in DOMAIN g /\ g[s[i]] = h[s[i]]
    BY <1>2, <2>3 DEF Parts, Nodes, Range
  <2>5. IsChain(g, g[l].kids[1], s)
    <3>1. Len(s) <= Len(g)
      <4>1. Len(s) \in Nat /\ Len(s) <= Len(h)
        BY <2>2 DEF IsChain
      <4> QED
        BY <4>1
    <3> QED
      BY <2>1, <2>2, <2>4, <3>1 DEF IsChain
  <2>6. HeldIn(g, c) = ElementsOf(g, s, Width(g, c)) /\ HeldIn(h, c) = ElementsOf(h, s, w)
    BY <1>1, <1>2, <2>2, <2>5, ListHolds
  <2>7. Width(g, c) = w /\ w \in {1, 2}
    BY <1>1 DEF Width
  <2> HIDE DEF w
  <2>8. \A k \in 1 .. w * Len(s) : Place(w, k) \in DOMAIN s
    <3>1. Len(s) \in Nat /\ DOMAIN s = 1 .. Len(s)
      BY <2>2 DEF IsChain
    <3> QED
      BY <2>7, <3>1, Places
  <2> QED
    BY <2>4, <2>6, <2>7, <2>8 DEF ElementsOf
<1>3. CASE h[c].type = "tuple"
  BY <1>1, <1>3 DEF HeldIn, Parts, Structs, Arrays
<1>4. CASE h[c].type \notin {"list", "dict", "tuple"}
  BY <1>1, <1>4 DEF HeldIn
<1> QED
  BY <1>2, <1>3, <1>4

\* term c is a list or a dict with struct l and the nodes of s
IsList(h, c, l, s) ==
  /\ h[c].type \in {"list", "dict"} /\ l = h[c].kids[1] /\ 1 \in DOMAIN h[c].kids
  /\ l \in DOMAIN h /\ h[l].type = (IF h[c].type = "list" THEN "list_t" ELSE "dict_t")
  /\ 1 \in DOMAIN h[l].kids /\ DOMAIN h[l].kids = {1} /\ DOMAIN h[c].kids = {1}
  /\ IsChain(h, h[l].kids[1], s)
  /\ Parts(h, c) = {c, l} \union Range(s)
  /\ HeldIn(h, c) = ElementsOf(h, s, Width(h, c))

\* Every list is.
LEMMA ListIs ==
  ASSUME NEW h \in Seq(Cell), Shaped(h), Chained(h), NEW c \in DOMAIN h, h[c].type \in {"list", "dict"}
  PROVE  \E s : IsList(h, c, h[c].kids[1], s)
<1> DEFINE l == h[c].kids[1]
<1>1. /\ Len(h[c].kids) = 1 /\ l \in DOMAIN h
      /\ h[l].type = (IF h[c].type = "list" THEN "list_t" ELSE "dict_t")
  BY DEF Shaped, Shape, StructHeld
<1>2. Len(h[l].kids) = 1
  BY <1>1 DEF Shaped, Shape
<1>3. DOMAIN h[c].kids = 1 .. 1 /\ DOMAIN h[l].kids = 1 .. 1
  BY <1>1, <1>2, CellIs
<1>4. PICK s : IsChain(h, h[l].kids[1], s)
  BY <1>1 DEF Chained
<1>5. ChainIn(h, h[l].kids[1]) = s
  BY <1>4, ChainUnique
<1>6. Parts(h, c) = {c, l} \union Range(s)
  BY <1>5 DEF Parts, Structs, Nodes, Arrays
<1>7. HeldIn(h, c) = ElementsOf(h, s, Width(h, c))
  BY <1>4, ListHolds
<1>8. IsList(h, c, l, s)
  BY <1>1, <1>3, <1>4, <1>6, <1>7 DEF IsList
<1> QED
  BY <1>8

\* term c is a tuple with struct t and the elements e
IsTuple(h, c, t, e) ==
  /\ h[c].type = "tuple" /\ t = h[c].kids[1] /\ DOMAIN h[c].kids = {1}
  /\ t \in DOMAIN h /\ h[t].type = "tuple_t" /\ e = h[t].kids[1] /\ DOMAIN h[t].kids = {1}
  /\ e \in DOMAIN h /\ h[e].type = "elements" /\ Len(h[e].kids) = h[t].size
  /\ Parts(h, c) = {c, t, e}
  /\ HeldIn(h, c) = h[e].kids

\* Every tuple is.
LEMMA TupleIs ==
  ASSUME NEW h \in Seq(Cell), Shaped(h), NEW c \in DOMAIN h, h[c].type = "tuple"
  PROVE  IsTuple(h, c, h[c].kids[1], h[h[c].kids[1]].kids[1])
<1> DEFINE t == h[c].kids[1]
           e == h[t].kids[1]
<1>1. Len(h[c].kids) = 1 /\ t \in DOMAIN h /\ h[t].type = "tuple_t"
  BY DEF Shaped, Shape, StructHeld
<1>2. Len(h[t].kids) = 1 /\ e \in DOMAIN h /\ h[e].type = "elements" /\ Len(h[e].kids) = h[t].size
  BY <1>1 DEF Shaped, Shape, StructHeld
<1>3. DOMAIN h[c].kids = 1 .. 1 /\ DOMAIN h[t].kids = 1 .. 1
  BY <1>1, <1>2, CellIs
<1>4. Parts(h, c) = {c, t, e} /\ HeldIn(h, c) = h[e].kids
  BY DEF Parts, Structs, Nodes, Arrays, HeldIn
<1> QED
  BY <1>1, <1>2, <1>3, <1>4 DEF IsTuple

\* Any other term is one block, or has a text.
LEMMA OtherIs ==
  ASSUME NEW h, NEW c, h[c].type \notin {"list", "dict", "tuple"}
  PROVE  HeldIn(h, c) = << >> /\ Parts(h, c) = {c}
BY DEF HeldIn, Parts, Structs, Nodes, Arrays

\* a node of a list has room for an element, one of a dict for a key and a value
Widths(h) ==
  \A p \in DOMAIN h :
    /\ h[p].type \in {"list_t", "dict_t"} /\ h[p].kids[1] # Null =>
         Len(h[h[p].kids[1]].kids) = IF h[p].type = "dict_t" THEN 3 ELSE 2
    /\ h[p].type = "node" /\ Last(h[p].kids) # Null => Len(h[Last(h[p].kids)].kids) = Len(h[p].kids)

\* What holds along a chain.
LEMMA AlongChain ==
  ASSUME NEW h, NEW p, NEW s, IsChain(h, p, s), NEW good,
         p # Null => p \in good,
         \A i \in DOMAIN s : s[i] \in good /\ At(s, i + 1) # Null => At(s, i + 1) \in good
  PROVE  \A i \in DOMAIN s : s[i] \in good
<1> DEFINE k == Len(s)
           so == {m \in Nat : m + 1 \in DOMAIN s => s[m + 1] \in good}
<1>1. k \in Nat /\ DOMAIN s = 1 .. k
  BY DEF IsChain
<1>2. 0 \in so
  <2>1. 0 + 1 = 1
    OBVIOUS
  <2>2. ASSUME 1 \in DOMAIN s PROVE s[1] \in good
    BY <2>2 DEF IsChain, At
  <2> QED
    BY <2>1, <2>2
<1>3. ASSUME NEW m \in Nat, m \in so PROVE m + 1 \in so
  <2> SUFFICES ASSUME (m + 1) + 1 \in DOMAIN s PROVE s[(m + 1) + 1] \in good
    OBVIOUS
  <2>1. m + 1 \in DOMAIN s
    BY <1>1
  <2>2. At(s, (m + 1) + 1) = s[(m + 1) + 1] /\ s[(m + 1) + 1] # Null
    BY DEF At, IsChain
  <2> QED
    BY <1>3, <2>1, <2>2
<1> HIDE DEF so
<1>4. \A m \in Nat : m \in so
  BY <1>2, <1>3, Induction
<1> SUFFICES ASSUME NEW i \in DOMAIN s PROVE s[i] \in good
  OBVIOUS
<1>5. i - 1 \in Nat /\ (i - 1) + 1 = i
  BY <1>1
<1> QED
  BY <1>4, <1>5 DEF so

\* The nodes of a list have an element each, those of a dict two.
LEMMA ChainWide ==
  ASSUME NEW h, Widths(h), NEW l \in DOMAIN h, h[l].type \in {"list_t", "dict_t"},
         NEW s, IsChain(h, h[l].kids[1], s), NEW i \in DOMAIN s
  PROVE  Len(h[s[i]].kids) = IF h[l].type = "dict_t" THEN 3 ELSE 2
<1> DEFINE n == IF h[l].type = "dict_t" THEN 3 ELSE 2
           p == h[l].kids[1]
           good == {q \in DOMAIN h : Len(h[q].kids) = n}
<1>1. p # Null => p \in good
  <2> SUFFICES ASSUME p # Null PROVE p \in good
    OBVIOUS
  <2>1. Len(h[p].kids) = n
    BY DEF Widths
  <2>2. p \in DOMAIN h
    BY DEF IsChain, At
  <2> QED
    BY <2>1, <2>2
<1>2. ASSUME NEW j \in DOMAIN s, s[j] \in good, At(s, j + 1) # Null PROVE At(s, j + 1) \in good
  <2>1. s[j] \in DOMAIN h /\ h[s[j]].type = "node" /\ Last(h[s[j]].kids) = At(s, j + 1)
    BY DEF IsChain
  <2>2. At(s, j + 1) \in DOMAIN h
    BY <1>2 DEF At, IsChain
  <2>3. Len(h[At(s, j + 1)].kids) = Len(h[s[j]].kids)
    BY <1>2, <2>1 DEF Widths
  <2> QED
    BY <1>2, <2>2, <2>3
<1> HIDE DEF good, n, p
<1>3. IsChain(h, p, s)
  BY DEF p
<1>4. \A j \in DOMAIN s : s[j] \in good
  BY <1>1, <1>2, <1>3, AlongChain
<1> QED
  BY <1>4 DEF good, n

\* What a list holds: what is in its nodes, but the next nodes.
LEMMA ListElements ==
  ASSUME NEW h \in Seq(Cell), Widths(h), NEW c \in DOMAIN h, NEW l, NEW s, IsList(h, c, l, s)
  PROVE  /\ \A q : q \in Range(HeldIn(h, c)) <=>
                     \E i \in DOMAIN s : \E j \in 1 .. Width(h, c) : q = h[s[i]].kids[j]
         /\ \A i \in DOMAIN s : /\ Len(h[s[i]].kids) = Width(h, c) + 1
                                /\ DOMAIN h[s[i]].kids = 1 .. Width(h, c) + 1
<1> DEFINE w == Width(h, c)
<1>1. w \in {1, 2} /\ (h[c].type = "dict" => w = 2) /\ (h[c].type = "list" => w = 1)
  BY DEF Width
<1>2. HeldIn(h, c) = [k \in 1 .. w * Len(s) |-> h[s[Place(w, k)]].kids[Side(w, k)]]
  BY DEF IsList, ElementsOf
<1>3. Len(s) \in Nat /\ DOMAIN s = 1 .. Len(s)
  BY DEF IsList, IsChain
<1>4. \A i \in DOMAIN s : Len(h[s[i]].kids) = w + 1 /\ DOMAIN h[s[i]].kids = 1 .. w + 1
  <2> SUFFICES ASSUME NEW i \in DOMAIN s
               PROVE  Len(h[s[i]].kids) = w + 1 /\ DOMAIN h[s[i]].kids = 1 .. w + 1
    OBVIOUS
  <2>1. Len(h[s[i]].kids) = IF h[l].type = "dict_t" THEN 3 ELSE 2
    BY ChainWide DEF IsList
  <2>2. h[l].type = "dict_t" <=> h[c].type = "dict"
    BY DEF IsList
  <2>3. h[c].type \in {"list", "dict"}
    BY DEF IsList
  <2>4. s[i] \in DOMAIN h
    BY DEF IsList, IsChain
  <2>5. DOMAIN h[s[i]].kids = 1 .. Len(h[s[i]].kids)
    BY <2>4, CellIs
  <2>6. 1 + 1 = 2 /\ 2 + 1 = 3
    OBVIOUS
  <2>7. Len(h[s[i]].kids) = w + 1
    BY <1>1, <2>1, <2>2, <2>3, <2>6
  <2> QED
    BY <2>5, <2>7
<1> HIDE DEF w
<1>5. ASSUME NEW q, q \in Range(HeldIn(h, c))
      PROVE  \E i \in DOMAIN s : \E j \in 1 .. w : q = h[s[i]].kids[j]
  <2>1. PICK k \in 1 .. w * Len(s) : q = h[s[Place(w, k)]].kids[Side(w, k)]
    BY <1>2, <1>5 DEF Range
  <2>2. Place(w, k) \in DOMAIN s /\ Side(w, k) \in 1 .. w
    BY <1>1, <1>3, Places
  <2> QED
    BY <2>1, <2>2
<1>6. ASSUME NEW i \in DOMAIN s, NEW j \in 1 .. w PROVE h[s[i]].kids[j] \in Range(HeldIn(h, c))
  <2>1. PICK k : k = w * (i - 1) + j
    OBVIOUS
  <2>2. k \in 1 .. w * Len(s) /\ Place(w, k) = i /\ Side(w, k) = j
    <3>1. PICK n \in Nat : n = Len(s)
      BY <1>3
    <3>2. i \in 1 .. n
      BY <1>3, <3>1
    <3>3. w * (i - 1) + j \in 1 .. w * n /\ Place(w, w * (i - 1) + j) = i /\ Side(w, w * (i - 1) + j) = j
      <4>1. \A i2 \in 1 .. n, j2 \in 1 .. w :
              /\ w * (i2 - 1) + j2 \in 1 .. w * n
              /\ Place(w, w * (i2 - 1) + j2) = i2 /\ Side(w, w * (i2 - 1) + j2) = j2
        BY <1>1, Places
      <4> QED
        BY <3>2, <4>1, Zenon
    <3> QED
      BY <2>1, <3>1, <3>3
  <2>3. HeldIn(h, c)[k] = h[s[i]].kids[j]
    BY <1>2, <2>2
  <2> QED
    BY <1>2, <2>2, <2>3 DEF Range
<1> QED
  BY <1>4, <1>5, <1>6 DEF w

(***************************************************************************)
(* Destroying: what a term holds goes with it, and the other terms keep    *)
(* what they hold.                                                         *)
(***************************************************************************)

\* a heap whose blocks can be read as sequences
Readable(h) == h \in Seq(Cell) /\ Shaped(h) /\ Chained(h) /\ Widths(h)

\* a set of blocks that leads nowhere else
Leaves(h, X) == \A p \in X : Range(Followed(h, p)) \subseteq X \union {Null}

\* Such a set has with a block what its pointers lead to.
LEMMA KidFollowed ==
  ASSUME NEW h, NEW X, Leaves(h, X), NEW p \in X, p \in DOMAIN h, h[p].type \notin {"freed", "regex"},
         NEW k \in DOMAIN h[p].kids
  PROVE  h[p].kids[k] \in X \union {Null}
<1>1. Followed(h, p) = h[p].kids
  BY DEF Followed, Live
<1> QED
  BY <1>1 DEF Leaves, Range

\* It has the blocks of a term with the term, and what the term holds.
LEMMA PartsFollow ==
  ASSUME NEW h, Readable(h), NEW X, Null \notin DOMAIN h, Leaves(h, X), NEW c \in TermsIn(h), c \in X
  PROVE  Parts(h, c) \subseteq X /\ Range(HeldIn(h, c)) \subseteq X \union {Null}
<1>1. h \in Seq(Cell) /\ Shaped(h) /\ Chained(h) /\ Widths(h) /\ c \in DOMAIN h
  BY DEF Readable, TermsIn
<1>2. CASE h[c].type \in {"list", "dict"}
  <2> DEFINE l == h[c].kids[1]
             w == Width(h, c)
  <2>1. PICK s : IsList(h, c, l, s)
    BY <1>1, <1>2, ListIs
  <2> HIDE DEF l
  <2>2. l \in X
    <3>1. h[c].type \notin {"freed", "regex"} /\ 1 \in DOMAIN h[c].kids /\ l = h[c].kids[1]
          /\ l \in DOMAIN h
      BY <1>2, <2>1 DEF IsList
    <3> QED
      BY <1>1, <3>1, KidFollowed
  <2>3. h[l].kids[1] # Null => h[l].kids[1] \in X
    <3>1. l \in DOMAIN h /\ h[l].type \notin {"freed", "regex"} /\ 1 \in DOMAIN h[l].kids
      BY <2>1 DEF IsList
    <3>2. h[l].kids[1] \in X \union {Null}
      BY <2>2, <3>1, KidFollowed
    <3> QED
      BY <3>2
  <2>4. /\ \A q : q \in Range(HeldIn(h, c)) <=> \E i \in DOMAIN s : \E j \in 1 .. w : q = h[s[i]].kids[j]
        /\ \A i \in DOMAIN s : Len(h[s[i]].kids) = w + 1 /\ DOMAIN h[s[i]].kids = 1 .. w + 1
    BY <1>1, <2>1, ListElements
  <2>5. w \in {1, 2}
    BY DEF Width
  <2> HIDE DEF w
  <2>6. \A i \in DOMAIN s : s[i] \in DOMAIN h /\ h[s[i]].type \notin {"freed", "regex"}
                            /\ Last(h[s[i]].kids) = At(s, i + 1)
    BY <2>1 DEF IsList, IsChain
  <2>7. ASSUME NEW i \in DOMAIN s, s[i] \in X, At(s, i + 1) # Null PROVE At(s, i + 1) \in X
    <3>1. Last(h[s[i]].kids) = h[s[i]].kids[w + 1]
      BY <2>4 DEF Last
    <3>2. w + 1 \in 1 .. w + 1
      BY <2>5
    <3>3. h[s[i]].kids[w + 1] \in X \union {Null}
      BY <2>4, <2>6, <2>7, <3>2, KidFollowed
    <3> QED
      BY <2>6, <2>7, <3>1, <3>3
  <2>8. IsChain(h, h[l].kids[1], s)
    BY <2>1 DEF IsList
  <2>9. \A i \in DOMAIN s : s[i] \in X
    BY <2>3, <2>7, <2>8, AlongChain
  <2>10. Parts(h, c) \subseteq X
    <3>1. Parts(h, c) = {c, l} \union Range(s)
      BY <2>1 DEF IsList
    <3> QED
      BY <2>2, <2>9, <3>1 DEF Range
  <2>11. ASSUME NEW q \in Range(HeldIn(h, c)) PROVE q \in X \union {Null}
    <3>1. PICK i \in DOMAIN s : \E j \in 1 .. w : q = h[s[i]].kids[j]
      BY <2>4
    <3>2. PICK j \in 1 .. w : q = h[s[i]].kids[j]
      BY <3>1
    <3>3. j \in DOMAIN h[s[i]].kids
      BY <2>4, <2>5
    <3> QED
      BY <2>6, <2>9, <3>2, <3>3, KidFollowed
  <2> QED
    BY <2>10, <2>11
<1>3. CASE h[c].type = "tuple"
  <2> DEFINE t == h[c].kids[1]
             e == h[t].kids[1]
  <2>1. IsTuple(h, c, t, e)
    BY <1>1, <1>3, TupleIs
  <2> HIDE DEF t, e
  <2>2. t \in X
    <3>1. h[c].type \notin {"freed", "regex"} /\ 1 \in DOMAIN h[c].kids /\ t = h[c].kids[1]
          /\ t \in DOMAIN h
      BY <1>3, <2>1 DEF IsTuple
    <3> QED
      BY <1>1, <3>1, KidFollowed
  <2>3. e \in X
    <3>1. h[t].type \notin {"freed", "regex"} /\ 1 \in DOMAIN h[t].kids /\ e = h[t].kids[1]
          /\ e \in DOMAIN h /\ t \in DOMAIN h
      BY <2>1 DEF IsTuple
    <3> QED
      BY <2>2, <3>1, KidFollowed
  <2>4. h[e].type \notin {"freed", "regex"} /\ e \in DOMAIN h /\ Parts(h, c) = {c, t, e}
        /\ HeldIn(h, c) = h[e].kids
    BY <2>1 DEF IsTuple
  <2>5. \A k \in DOMAIN h[e].kids : h[e].kids[k] \in X \union {Null}
    BY <2>3, <2>4, KidFollowed
  <2> QED
    BY <2>2, <2>3, <2>4, <2>5 DEF Range
<1>4. CASE h[c].type \notin {"list", "dict", "tuple"}
  BY <1>4, OtherIs, RangeOfNothing
<1> QED
  BY <1>2, <1>3, <1>4

\* What a term holds are terms, or null.
LEMMA HeldTerms ==
  ASSUME NEW h, Readable(h), NEW c \in TermsIn(h)
  PROVE  Range(HeldIn(h, c)) \subseteq TermsIn(h) \union {Null}
<1>1. h \in Seq(Cell) /\ Shaped(h) /\ Chained(h) /\ Widths(h) /\ c \in DOMAIN h
  BY DEF Readable, TermsIn
<1>2. CASE h[c].type \in {"list", "dict"}
  <2> DEFINE l == h[c].kids[1]
             w == Width(h, c)
  <2>1. PICK s : IsList(h, c, l, s)
    BY <1>1, <1>2, ListIs
  <2>2. /\ \A q : q \in Range(HeldIn(h, c)) <=> \E i \in DOMAIN s : \E j \in 1 .. w : q = h[s[i]].kids[j]
        /\ \A i \in DOMAIN s : Len(h[s[i]].kids) = w + 1 /\ DOMAIN h[s[i]].kids = 1 .. w + 1
    BY <1>1, <2>1, ListElements
  <2>3. w \in {1, 2}
    BY DEF Width
  <2> HIDE DEF w
  <2> SUFFICES ASSUME NEW q \in Range(HeldIn(h, c)), q # Null PROVE q \in TermsIn(h)
    OBVIOUS
  <2>4. PICK i \in DOMAIN s : \E j \in 1 .. w : q = h[s[i]].kids[j]
    BY <2>2
  <2>5. PICK j \in 1 .. w : q = h[s[i]].kids[j]
    BY <2>4
  <2>6. s[i] \in DOMAIN h /\ h[s[i]].type = "node"
    BY <2>1 DEF IsList, IsChain
  <2>7. j \in DOMAIN h[s[i]].kids /\ j # Len(h[s[i]].kids)
    BY <2>2, <2>3
  <2> QED
    BY <1>1, <2>5, <2>6, <2>7, KidIs DEF TermsIn
<1>3. CASE h[c].type = "tuple"
  <2> DEFINE t == h[c].kids[1]
             e == h[t].kids[1]
  <2>1. IsTuple(h, c, t, e)
    BY <1>1, <1>3, TupleIs
  <2>2. e \in DOMAIN h /\ h[e].type = "elements" /\ HeldIn(h, c) = h[e].kids
    BY <2>1 DEF IsTuple
  <2> HIDE DEF e
  <2>3. \A k \in DOMAIN h[e].kids : h[e].kids[k] # Null => h[e].kids[k] \in TermsIn(h)
    <3> SUFFICES ASSUME NEW k \in DOMAIN h[e].kids, h[e].kids[k] # Null PROVE h[e].kids[k] \in TermsIn(h)
      OBVIOUS
    <3>1. h[e].kids[k] \in DOMAIN h /\ h[h[e].kids[k]].type \in DataTypes
      BY <1>1, <2>2, KidIs
    <3> QED
      BY <3>1 DEF TermsIn
  <2> QED
    BY <2>2, <2>3 DEF Range
<1>4. CASE h[c].type \notin {"list", "dict", "tuple"}
  BY <1>4, OtherIs, RangeOfNothing
<1> QED
  BY <1>2, <1>3, <1>4

\* Holds of SequenceStore, of any content
HoldsIn(f, p) ==
  {q \in DOMAIN f :
     \A s \in SUBSET DOMAIN f :
       (\A x \in s : Range(f[x]) \ {Null} \subseteq s) /\ {p} \ {Null} \subseteq s => q \in s}

\* the blocks of the terms of s, and the texts
BlocksOf(h, s) ==
  (UNION {Parts(h, c) : c \in s}) \union {q \in DOMAIN h : h[q].type = "text"}

\* If what the terms of s hold is in s, then their blocks lead nowhere else.
LEMMA BlocksLeave ==
  ASSUME NEW h, Readable(h), NEW s, s \subseteq TermsIn(h), Null \notin DOMAIN h,
         \A x \in s : Range(HeldIn(h, x)) \ {Null} \subseteq s
  PROVE  Leaves(h, BlocksOf(h, s)) /\ s \subseteq BlocksOf(h, s)
         /\ \A q \in BlocksOf(h, s) : q \in TermsIn(h) => q \in s
<1> DEFINE X == BlocksOf(h, s)
<1>1. h \in Seq(Cell) /\ Shaped(h) /\ Chained(h) /\ Widths(h) /\ s \subseteq DOMAIN h /\ IsHeap(h)
  BY CellsAreHeap DEF Readable, TermsIn
<1>2. \A c \in s : Parts(h, c) \subseteq X /\ c \in X
  BY DEF BlocksOf, Parts
<1>3. \A q \in DOMAIN h : h[q].type = "text" => q \in X
  BY DEF BlocksOf
<1>4. \A c \in s : \A q : q \in Range(HeldIn(h, c)) /\ q # Null => q \in X
  BY <1>2
<1>5. ASSUME NEW q \in X, NEW x \in Range(Followed(h, q)), x # Null PROVE x \in X
  <2>1. q \in DOMAIN h /\ x \in Range(h[q].kids)
    BY <1>1, <1>5, FollowedIs
  <2>2. PICK k \in DOMAIN h[q].kids : x = h[q].kids[k]
    BY <2>1 DEF Range
  <2>3. CASE h[q].type = "text"
    BY <1>1, <1>5, <2>1, <2>2, <2>3, KidIs
  <2>4. ASSUME NEW c \in s, q \in Parts(h, c) PROVE x \in X
    <3>1. c \in DOMAIN h
      BY <1>1
    <3>2. CASE h[c].type \in {"list", "dict"}
      <4> DEFINE l == h[c].kids[1]
                 w == Width(h, c)
      <4>1. PICK chain : IsList(h, c, l, chain)
        BY <1>1, <3>1, <3>2, ListIs
      <4>2. /\ \A y : y \in Range(HeldIn(h, c)) <=>
                        \E i \in DOMAIN chain : \E j \in 1 .. w : y = h[chain[i]].kids[j]
            /\ \A i \in DOMAIN chain : /\ Len(h[chain[i]].kids) = w + 1
                                       /\ DOMAIN h[chain[i]].kids = 1 .. w + 1
        BY <1>1, <3>1, <4>1, ListElements
      <4>3. w \in {1, 2}
        BY DEF Width
      <4> HIDE DEF w, l, X
      <4>4. Parts(h, c) = {c, l} \union Range(chain)
        BY <4>1 DEF IsList
      <4>5. CASE q = c
        <5>1. x = l
          BY <2>2, <4>1, <4>5 DEF IsList
        <5> QED
          BY <1>2, <4>4, <5>1
      <4>6. CASE q = l
        <5>1. x = h[l].kids[1] /\ x = At(chain, 1)
          BY <2>2, <4>1, <4>6 DEF IsList, IsChain
        <5>2. x \in Range(chain)
          BY <1>5, <5>1 DEF At, Range
        <5> QED
          BY <1>2, <4>4, <5>2
      <4>7. CASE q \in Range(chain)
        <5>1. PICK i \in DOMAIN chain : q = chain[i]
          BY <4>7 DEF Range
        <5>2. CASE k = w + 1
          <6>1. x = Last(h[q].kids)
            BY <2>2, <4>2, <5>1, <5>2 DEF Last
          <6>2. x = At(chain, i + 1)
            BY <4>1, <5>1, <6>1 DEF IsList, IsChain
          <6>3. x \in Range(chain)
            BY <1>5, <6>2 DEF At, Range
          <6> QED
            BY <1>2, <4>4, <6>3
        <5>3. CASE k # w + 1
          <6>1. k \in 1 .. w
            BY <4>2, <4>3, <5>1, <5>3
          <6>2. x \in Range(HeldIn(h, c))
            BY <2>2, <4>2, <5>1, <6>1
          <6> QED
            BY <1>4, <1>5, <6>2
        <5> QED
          BY <5>2, <5>3
      <4> QED
        BY <2>4, <4>4, <4>5, <4>6, <4>7
    <3>3. CASE h[c].type = "tuple"
      <4> DEFINE t == h[c].kids[1]
                 e == h[t].kids[1]
      <4>1. IsTuple(h, c, t, e)
        BY <1>1, <3>1, <3>3, TupleIs
      <4> HIDE DEF t, e, X
      <4>2. Parts(h, c) = {c, t, e} /\ HeldIn(h, c) = h[e].kids
        BY <4>1 DEF IsTuple
      <4>3. CASE q = c
        <5>1. x = t
          BY <2>2, <4>1, <4>3 DEF IsTuple
        <5> QED
          BY <1>2, <4>2, <5>1
      <4>4. CASE q = t
        <5>1. x = e
          BY <2>2, <4>1, <4>4 DEF IsTuple
        <5> QED
          BY <1>2, <4>2, <5>1
      <4>5. CASE q = e
        <5>1. x \in Range(HeldIn(h, c))
          BY <2>1, <4>2, <4>5
        <5> QED
          BY <1>4, <1>5, <5>1
      <4> QED
        BY <2>4, <4>2, <4>3, <4>4, <4>5
    <3>4. CASE h[c].type \notin {"list", "dict", "tuple"}
      <4>1. q = c
        BY <2>4, <3>4, OtherIs
      <4>2. h[c].type \in DataTypes
        BY DEF TermsIn
      <4>3. h[c].type \in {"int", "atom", "string", "bin", "regex"}
        BY <3>4, <4>2, DataAre
      <4>4. h[c].type # "int"
        BY <1>1, <1>5, <2>2, <3>1, <4>1, KidIs
      <4>5. IsText(h[q].type)
        BY <4>1, <4>3, <4>4 DEF IsText, IsShort, IsLong
      <4>6. x \in DOMAIN h /\ h[x].type = "text"
        BY <1>1, <1>5, <2>1, <2>2, <4>5, KidIs
      <4> QED
        BY <1>3, <4>6
    <3> QED
      BY <3>2, <3>3, <3>4
  <2> QED
    BY <1>5, <2>3, <2>4 DEF BlocksOf
<1>6. ASSUME NEW q \in X, q \in TermsIn(h) PROVE q \in s
  <2>1. h[q].type \in DataTypes /\ q \in DOMAIN h
    BY <1>6 DEF TermsIn
  <2>2. h[q].type \notin {"text", "elements", "tuple_t", "list_t", "dict_t", "node"}
    BY <2>1, DataAre
  <2>3. PICK c \in s : q \in Parts(h, c)
    BY <2>2 DEF BlocksOf
  <2>4. c \in DOMAIN h
    BY <1>1
  <2>5. CASE h[c].type \in {"list", "dict"}
    <3>1. PICK chain : IsList(h, c, h[c].kids[1], chain)
      BY <1>1, <2>4, <2>5, ListIs
    <3>2. \A y \in Range(chain) : h[y].type = "node"
      BY <3>1 DEF IsList, IsChain, Range
    <3> QED
      BY <2>2, <2>3, <3>1, <3>2 DEF IsList
  <2>6. CASE h[c].type = "tuple"
    <3>1. IsTuple(h, c, h[c].kids[1], h[h[c].kids[1]].kids[1])
      BY <1>1, <2>4, <2>6, TupleIs
    <3> QED
      BY <2>2, <2>3, <3>1 DEF IsTuple
  <2>7. CASE h[c].type \notin {"list", "dict", "tuple"}
    BY <2>3, <2>7, OtherIs
  <2> QED
    BY <2>5, <2>6, <2>7
<1>7. Leaves(h, X)
  BY <1>5 DEF Leaves
<1> QED
  BY <1>2, <1>6, <1>7

\* The terms that go with a term, or with none, are those bert_data_destroy meets.
LEMMA HoldsIs ==
  ASSUME NEW h, Readable(h), NEW p \in TermsIn(h) \union {Null}
  PROVE  HoldsIn(ContentIn(h), p) = TermsIn(h) \intersect Reach(h, {p})
<1> DEFINE f == ContentIn(h)
           D == TermsIn(h)
           R == Reach(h, {p})
<1>1. h \in Seq(Cell) /\ IsHeap(h) /\ Null \notin DOMAIN h /\ D \subseteq DOMAIN h
  BY CellsAreHeap DEF Readable, TermsIn, IsHeap, Null
<1>2. DOMAIN f = D /\ \A x \in D : f[x] = HeldIn(h, x)
  BY DEF ContentIn
<1>3. {p} \in SUBSET Int
  BY <1>1 DEF IsHeap, Null
<1>4. {p} \ {Null} \subseteq R
  BY <1>1, <1>3, ReachStored
<1>5. Leaves(h, R)
  BY <1>1, <1>3, ReachClosed DEF Leaves
<1> HIDE DEF R
<1>6. ASSUME NEW q \in HoldsIn(f, p) PROVE q \in D /\ q \in R
  <2> DEFINE s == D \intersect R
  <2>1. \A x \in s : Range(f[x]) \ {Null} \subseteq s
    <3> SUFFICES ASSUME NEW x \in s PROVE Range(f[x]) \ {Null} \subseteq s
      OBVIOUS
    <3>1. Range(HeldIn(h, x)) \subseteq R \union {Null}
      BY <1>1, <1>5, PartsFollow
    <3>2. Range(HeldIn(h, x)) \subseteq D \union {Null}
      BY HeldTerms
    <3> QED
      BY <1>2, <3>1, <3>2
  <2>2. {p} \ {Null} \subseteq s
    BY <1>4
  <2>3. s \in SUBSET DOMAIN f
    BY <1>2
  <2> QED
    BY <1>2, <2>1, <2>2, <2>3 DEF HoldsIn
<1>7. ASSUME NEW q \in D, q \in R PROVE q \in HoldsIn(f, p)
  <2> SUFFICES ASSUME NEW s \in SUBSET D, \A x \in s : Range(f[x]) \ {Null} \subseteq s,
                      {p} \ {Null} \subseteq s
               PROVE  q \in s
    BY <1>2 DEF HoldsIn
  <2> DEFINE X == BlocksOf(h, s)
  <2>1. \A x \in s : Range(HeldIn(h, x)) \ {Null} \subseteq s
    BY <1>2
  <2>2. Leaves(h, X) /\ s \subseteq X /\ \A y \in X : y \in D => y \in s
    BY <1>1, <2>1, BlocksLeave
  <2> HIDE DEF X
  <2>3. {p} \subseteq X \union {Null}
    BY <2>2
  <2>4. R \subseteq X
    BY <1>1, <1>3, <2>2, <2>3, ReachLeast DEF Leaves, R
  <2> QED
    BY <1>7, <2>2, <2>4
<1> HIDE DEF f, D
<1>8. HoldsIn(f, p) = D \intersect R
  BY <1>6, <1>7
<1> QED
  BY <1>8 DEF f, D, R

\* What holds of the blocks of a term, if it holds of the term and goes from a block to a block
\* it points to that is no term.
LEMMA PartsHave ==
  ASSUME NEW h, Readable(h), NEW X, NEW c \in TermsIn(h), c \in X,
         \A p \in DOMAIN h : \A k \in DOMAIN h[p].kids :
           p \in X /\ h[p].kids[k] # Null /\ h[p].kids[k] \in DOMAIN h /\ h[p].kids[k] \notin TermsIn(h)
             => h[p].kids[k] \in X
  PROVE  Parts(h, c) \subseteq X /\ Parts(h, c) \subseteq DOMAIN h
<1>1. h \in Seq(Cell) /\ Shaped(h) /\ Chained(h) /\ Widths(h) /\ c \in DOMAIN h
  BY DEF Readable, TermsIn
<1>2. \A p \in DOMAIN h : p # Null
  BY <1>1 DEF Null
<1> DEFINE other == {"elements", "tuple_t", "list_t", "dict_t", "node"}
<1>3. \A q \in DOMAIN h : h[q].type \in other => q \notin TermsIn(h)
  BY DataAre DEF TermsIn
<1>4. CASE h[c].type \in {"list", "dict"}
  <2> DEFINE l == h[c].kids[1]
             w == Width(h, c)
  <2>1. PICK s : IsList(h, c, l, s)
    BY <1>1, <1>4, ListIs
  <2> HIDE DEF l
  <2>2. l \in X
    <3>1. 1 \in DOMAIN h[c].kids /\ l = h[c].kids[1] /\ l \in DOMAIN h /\ h[l].type \in other
      BY <2>1 DEF IsList
    <3> QED
      BY <1>1, <1>2, <1>3, <3>1
  <2>3. h[l].kids[1] # Null => h[l].kids[1] \in X
    <3>1. l \in DOMAIN h /\ 1 \in DOMAIN h[l].kids /\ h[l].kids[1] = At(s, 1)
      BY <2>1 DEF IsList, IsChain
    <3>2. At(s, 1) # Null => At(s, 1) \in DOMAIN h /\ h[At(s, 1)].type \in other
      BY <2>1 DEF At, IsList, IsChain
    <3> QED
      BY <1>3, <2>2, <3>1, <3>2
  <2>4. \A i \in DOMAIN s : Len(h[s[i]].kids) = w + 1 /\ DOMAIN h[s[i]].kids = 1 .. w + 1
    BY <1>1, <2>1, ListElements
  <2>5. w + 1 \in 1 .. w + 1
    BY DEF Width
  <2> HIDE DEF w
  <2>6. \A i \in DOMAIN s : s[i] \in DOMAIN h /\ h[s[i]].type \in other /\ Last(h[s[i]].kids) = At(s, i + 1)
    BY <2>1 DEF IsList, IsChain
  <2>7. ASSUME NEW i \in DOMAIN s, s[i] \in X, At(s, i + 1) # Null PROVE At(s, i + 1) \in X
    <3>1. At(s, i + 1) = h[s[i]].kids[w + 1] /\ w + 1 \in DOMAIN h[s[i]].kids
      BY <2>4, <2>5, <2>6 DEF Last
    <3>2. At(s, i + 1) \in DOMAIN h /\ h[At(s, i + 1)].type \in other
      BY <2>6, <2>7 DEF At
    <3> QED
      BY <1>3, <2>6, <2>7, <3>1, <3>2
  <2>8. IsChain(h, h[l].kids[1], s)
    BY <2>1 DEF IsList
  <2>9. \A i \in DOMAIN s : s[i] \in X
    BY <2>3, <2>7, <2>8, AlongChain
  <2>10. Parts(h, c) = {c, l} \union Range(s) /\ l \in DOMAIN h
    BY <2>1 DEF IsList
  <2> QED
    BY <1>1, <2>2, <2>6, <2>9, <2>10 DEF Range
<1>5. CASE h[c].type = "tuple"
  <2> DEFINE t == h[c].kids[1]
             e == h[t].kids[1]
  <2>1. IsTuple(h, c, t, e)
    BY <1>1, <1>5, TupleIs
  <2> HIDE DEF t, e
  <2>2. /\ 1 \in DOMAIN h[c].kids /\ t = h[c].kids[1] /\ t \in DOMAIN h
        /\ 1 \in DOMAIN h[t].kids /\ e = h[t].kids[1] /\ e \in DOMAIN h
        /\ Parts(h, c) = {c, t, e} /\ h[t].type \in other /\ h[e].type \in other
    BY <2>1 DEF IsTuple
  <2>3. t \in X
    BY <1>1, <1>2, <1>3, <2>2
  <2>4. e \in X
    BY <1>2, <1>3, <2>2, <2>3
  <2> QED
    BY <1>1, <2>2, <2>3, <2>4
<1>6. CASE h[c].type \notin {"list", "dict", "tuple"}
  BY <1>1, <1>6, OtherIs
<1> QED
  BY <1>4, <1>5, <1>6

\* Terms that are not destroyed keep all of their blocks.
LEMMA PartsSurvive ==
  ASSUME NEW h, Readable(h), Sound(h), NEW starts \in SUBSET Int, AllFree(h, starts),
         NEW c \in TermsIn(h), c \notin Reach(h, starts)
  PROVE  \A q \in Parts(h, c) : q \in DOMAIN h /\ q \notin Reach(h, starts)
<1> DEFINE R == Reach(h, starts)
           X == {q \in DOMAIN h : q \notin R}
<1>1. IsHeap(h) /\ c \in DOMAIN h
  BY CellsAreHeap DEF Readable, TermsIn
<1>2. \A q \in R : q \in starts \/ \E p \in R : q \in Range(Followed(h, p))
  BY <1>1, ReachStored
<1> HIDE DEF R
<1>3. ASSUME NEW p \in DOMAIN h, NEW k \in DOMAIN h[p].kids, p \in X,
             h[p].kids[k] # Null, h[p].kids[k] \in DOMAIN h
      PROVE  h[p].kids[k] \in X
  <2> DEFINE q == h[p].kids[k]
  <2> SUFFICES ASSUME q \in R PROVE FALSE
    BY <1>3
  <2>1. CASE q \in starts
    <3>1. q \notin Range(h[p].kids)
      BY <1>3, <2>1 DEF AllFree, Free
    <3> QED
      BY <3>1 DEF Range
  <2>2. ASSUME NEW r \in R, q \in Range(Followed(h, r)) PROVE FALSE
    <3>1. r \in DOMAIN h /\ q \in Range(h[r].kids)
      BY <1>1, <2>2, FollowedIs
    <3>2. PICK j \in DOMAIN h[r].kids : q = h[r].kids[j]
      BY <3>1 DEF Range
    <3>3. r = p
      BY <1>3, <3>1, <3>2 DEF Sound
    <3> QED
      BY <1>3, <2>2, <3>3
  <2> QED
    BY <1>2, <2>1, <2>2
<1>4. c \in X
  BY <1>1 DEF R
<1> HIDE DEF X
<1>5. Parts(h, c) \subseteq X /\ Parts(h, c) \subseteq DOMAIN h
  BY <1>3, <1>4, PartsHave
<1> QED
  BY <1>5 DEF X, R

\* Destroying terms that nothing holds takes them and what goes with them, and leaves the others
\* with what they hold.
LEMMA DestroyedContent ==
  ASSUME NEW h, Readable(h), Sound(h), NEW roots, Range(roots) \in SUBSET Int,
         AllFree(h, Range(roots))
  PROVE  ContentIn(Destroyed(h, roots))
           = Restrict(ContentIn(h), TermsIn(h) \ Reach(h, Range(roots)))
<1> DEFINE g == Destroyed(h, roots)
           R == Reach(h, Range(roots))
<1>1. h \in Seq(Cell) /\ Shaped(h) /\ Chained(h) /\ Len(h) \in Nat
  BY DEF Readable
<1>2. Freed \in Cell
  BY DEF Cell
<1>3. /\ g \in Seq(Cell) /\ Len(g) = Len(h) /\ DOMAIN g = DOMAIN h
      /\ \A p \in DOMAIN h : g[p] = IF p \in R THEN Freed ELSE h[p]
  BY <1>1, <1>2, DestroyedIs
<1> HIDE DEF g, R
<1>4. Freed.type \notin DataTypes
  BY DataAre DEF Freed
<1>5. TermsIn(g) = TermsIn(h) \ R
  BY <1>3, <1>4 DEF TermsIn
<1>6. ASSUME NEW c \in TermsIn(h) \ R PROVE HeldIn(g, c) = HeldIn(h, c)
  <2>1. \A q \in Parts(h, c) : q \in DOMAIN h /\ q \notin R
    BY <1>6, PartsSurvive DEF R
  <2>2. \A q \in Parts(h, c) : q \in DOMAIN g /\ g[q] = h[q]
    BY <1>3, <2>1
  <2>3. c \in DOMAIN h /\ Len(g) \in Nat /\ Len(h) <= Len(g)
    BY <1>1, <1>3 DEF TermsIn
  <2> QED
    BY <1>1, <2>2, <2>3, HeldSame
<1> QED
  BY <1>5, <1>6 DEF ContentIn, Restrict, g, R

\* g is h with cell as block n, and the terms hold what they held
GrownTerms(h, g, n, cell) ==
  /\ DOMAIN g = DOMAIN h \union {n} /\ n \notin DOMAIN h /\ g[n] = cell
  /\ \A q \in DOMAIN h : g[q] = h[q]
  /\ \A c \in TermsIn(h) : HeldIn(g, c) = HeldIn(h, c)

\* A new block leaves the terms what they hold ...
LEMMA AppendedHeld ==
  ASSUME NEW h, Readable(h), NEW cell \in Cell, NEW g, g = Append(h, cell), NEW n, n = Len(h) + 1
  PROVE  GrownTerms(h, g, n, cell)
<1>1. h \in Seq(Cell) /\ Shaped(h) /\ Chained(h) /\ Len(h) \in Nat /\ DOMAIN h = 1 .. Len(h)
  BY DEF Readable
<1>2. /\ g \in Seq(Cell) /\ Len(g) = n /\ DOMAIN g = DOMAIN h \union {n} /\ n \notin DOMAIN h /\ g[n] = cell
      /\ \A q \in DOMAIN h : g[q] = h[q]
  BY <1>1
<1>3. ASSUME NEW c \in TermsIn(h) PROVE HeldIn(g, c) = HeldIn(h, c)
  <2>1. c \in DOMAIN h /\ Len(h) <= Len(g) /\ Len(g) \in Nat
    BY <1>1, <1>2 DEF TermsIn
  <2>2. Parts(h, c) \subseteq DOMAIN h
    <3> DEFINE X == DOMAIN h
    <3>1. c \in X
      BY <2>1
    <3>2. \A p \in DOMAIN h : \A k \in DOMAIN h[p].kids :
           p \in X /\ h[p].kids[k] # Null /\ h[p].kids[k] \in DOMAIN h => h[p].kids[k] \in X
      OBVIOUS
    <3> HIDE DEF X
    <3> QED
      BY <3>1, <3>2, PartsHave
  <2>3. \A q \in Parts(h, c) : q \in DOMAIN g /\ g[q] = h[q]
    BY <1>2, <2>2
  <2> QED
    BY <1>1, <2>1, <2>3, HeldSame
<1> QED
  BY <1>2, <1>3 DEF GrownTerms

\* ... changes nothing if it is no term ...
LEMMA AppendedContent ==
  ASSUME NEW h, Readable(h), NEW cell \in Cell, cell.type \notin DataTypes, NEW g, g = Append(h, cell)
  PROVE  ContentIn(g) = ContentIn(h)
<1> PICK n : n = Len(h) + 1
  OBVIOUS
<1>1. GrownTerms(h, g, n, cell)
  BY AppendedHeld
<1>2. TermsIn(g) = TermsIn(h)
  BY <1>1 DEF GrownTerms, TermsIn
<1> QED
  BY <1>1, <1>2 DEF GrownTerms, ContentIn

\* what the terms of h hold, and the term n of g
PlusTerm(h, g, n) == [q \in TermsIn(h) \union {n} |-> IF q = n THEN HeldIn(g, n) ELSE HeldIn(h, q)]

\* ... and comes with what it holds if it is one.
LEMMA AppendedTerm ==
  ASSUME NEW h, Readable(h), NEW cell \in Cell, cell.type \in DataTypes, NEW g, g = Append(h, cell),
         NEW n, n = Len(h) + 1
  PROVE  ContentIn(g) = PlusTerm(h, g, n) /\ n \notin TermsIn(h)
<1>1. GrownTerms(h, g, n, cell)
  BY AppendedHeld
<1>2. TermsIn(g) = TermsIn(h) \union {n}
  BY <1>1 DEF GrownTerms, TermsIn
<1>3. \A q \in TermsIn(g) : HeldIn(g, q) = IF q = n THEN HeldIn(g, n) ELSE HeldIn(h, q)
  BY <1>1, <1>2 DEF GrownTerms
<1> QED
  BY <1>1, <1>2, <1>3 DEF GrownTerms, ContentIn, PlusTerm, TermsIn

\* A block of a term is held by another, but for the term itself.
LEMMA PartHeld ==
  ASSUME NEW h, Readable(h), NEW c \in TermsIn(h), NEW q \in Parts(h, c), q # c
  PROVE  \E r \in Parts(h, c) : r \in DOMAIN h /\ q # Null /\ q \in Range(h[r].kids)
<1>1. h \in Seq(Cell) /\ Shaped(h) /\ Chained(h) /\ Widths(h) /\ c \in DOMAIN h
  BY DEF Readable, TermsIn
<1>2. \A p \in DOMAIN h : p # Null
  BY <1>1 DEF Null
<1>3. CASE h[c].type \in {"list", "dict"}
  <2> DEFINE l == h[c].kids[1]
  <2>1. PICK s : IsList(h, c, l, s)
    BY <1>1, <1>3, ListIs
  <2> HIDE DEF l
  <2>2. /\ Parts(h, c) = {c, l} \union Range(s) /\ l \in DOMAIN h /\ l = h[c].kids[1]
        /\ 1 \in DOMAIN h[c].kids /\ 1 \in DOMAIN h[l].kids
    BY <2>1 DEF IsList
  <2>3. CASE q = l
    BY <1>1, <1>2, <2>2, <2>3 DEF Range
  <2>4. ASSUME NEW i \in DOMAIN s, q = s[i] PROVE \E r \in Parts(h, c) : r \in DOMAIN h /\ q # Null /\ q \in Range(h[r].kids)
    <3>1. q \in DOMAIN h /\ Len(s) \in Nat /\ DOMAIN s = 1 .. Len(s)
      BY <2>1, <2>4 DEF IsList, IsChain
    <3>2. CASE i = 1
      <4>1. q = h[l].kids[1]
        BY <2>1, <2>4, <3>2 DEF IsList, IsChain, At
      <4> QED
        BY <1>2, <2>2, <3>1, <4>1 DEF Range
    <3>3. CASE i # 1
      <4>1. i - 1 \in DOMAIN s /\ (i - 1) + 1 = i
        BY <3>1, <3>3
      <4>2. PICK j \in DOMAIN s : j = i - 1
        BY <4>1
      <4>3. s[j] \in DOMAIN h /\ q = Last(h[s[j]].kids) /\ h[s[j]].type = "node"
        BY <2>1, <2>4, <4>1, <4>2 DEF IsList, IsChain, At
      <4>4. Len(h[s[j]].kids) \in {2, 3} /\ DOMAIN h[s[j]].kids = 1 .. Len(h[s[j]].kids)
        BY <1>1, <4>3, CellIs DEF Shaped, Shape
      <4>5. \A m \in {2, 3} : m \in 1 .. m
        OBVIOUS
      <4>6. q \in Range(h[s[j]].kids)
        BY <4>3, <4>4, <4>5 DEF Range, Last
      <4>7. s[j] \in Parts(h, c)
        BY <2>2 DEF Range
      <4> QED
        BY <1>2, <3>1, <4>3, <4>6, <4>7
    <3> QED
      BY <3>2, <3>3
  <2>5. CASE q \in Range(s)
    BY <2>4, <2>5 DEF Range
  <2> QED
    BY <2>2, <2>3, <2>5
<1>4. CASE h[c].type = "tuple"
  <2> DEFINE t == h[c].kids[1]
             e == h[t].kids[1]
  <2>1. IsTuple(h, c, t, e)
    BY <1>1, <1>4, TupleIs
  <2> HIDE DEF t, e
  <2>2. /\ 1 \in DOMAIN h[c].kids /\ t = h[c].kids[1] /\ t \in DOMAIN h
        /\ 1 \in DOMAIN h[t].kids /\ e = h[t].kids[1] /\ e \in DOMAIN h
        /\ Parts(h, c) = {c, t, e}
    BY <2>1 DEF IsTuple
  <2> QED
    BY <1>1, <1>2, <2>2 DEF Range
<1>5. CASE h[c].type \notin {"list", "dict", "tuple"}
  BY <1>5, OtherIs
<1> QED
  BY <1>3, <1>4, <1>5

\* No block is of two terms.
LEMMA PartsApart ==
  ASSUME NEW h, Readable(h), Sound(h), NEW c \in TermsIn(h), NEW d \in TermsIn(h), c # d
  PROVE  Parts(h, c) \intersect Parts(h, d) = {}
<1> DEFINE X == {q \in DOMAIN h : q \notin Parts(h, c)}
<1>1. h \in Seq(Cell) /\ Shaped(h) /\ Chained(h) /\ Widths(h) /\ c \in DOMAIN h /\ d \in DOMAIN h
  BY DEF Readable, TermsIn
<1>2. d \notin Parts(h, c)
  <2> SUFFICES ASSUME d \in Parts(h, c) PROVE FALSE
    OBVIOUS
  <2>1. h[d].type \notin {"elements", "tuple_t", "list_t", "dict_t", "node"}
    BY DataAre DEF TermsIn
  <2>2. CASE h[c].type \in {"list", "dict"}
    <3>1. PICK s : IsList(h, c, h[c].kids[1], s)
      BY <1>1, <2>2, ListIs
    <3>2. \A y \in Range(s) : h[y].type = "node"
      BY <3>1 DEF IsList, IsChain, Range
    <3> QED
      BY <2>1, <3>1, <3>2 DEF IsList
  <2>3. CASE h[c].type = "tuple"
    <3>1. IsTuple(h, c, h[c].kids[1], h[h[c].kids[1]].kids[1])
      BY <1>1, <2>3, TupleIs
    <3> QED
      BY <2>1, <3>1 DEF IsTuple
  <2>4. CASE h[c].type \notin {"list", "dict", "tuple"}
    BY <2>4, OtherIs
  <2> QED
    BY <2>2, <2>3, <2>4
<1>3. d \in X
  BY <1>1, <1>2
<1>4. ASSUME NEW p \in DOMAIN h, NEW k \in DOMAIN h[p].kids, p \in X, h[p].kids[k] # Null,
             h[p].kids[k] \in DOMAIN h, h[p].kids[k] \notin TermsIn(h)
      PROVE  h[p].kids[k] \in X
  <2> DEFINE q == h[p].kids[k]
  <2> SUFFICES ASSUME q \in Parts(h, c) PROVE FALSE
    BY <1>4
  <2>1. q # c
    BY <1>4
  <2>2. PICK r \in Parts(h, c) : r \in DOMAIN h /\ q # Null /\ q \in Range(h[r].kids)
    BY <2>1, PartHeld
  <2>3. PICK j \in DOMAIN h[r].kids : q = h[r].kids[j]
    BY <2>2 DEF Range
  <2>4. r = p
    BY <1>4, <2>2, <2>3 DEF Sound
  <2> QED
    BY <1>4, <2>4
<1> HIDE DEF X
<1>5. Parts(h, d) \subseteq X
  BY <1>3, <1>4, PartsHave
<1> QED
  BY <1>5 DEF X

(***************************************************************************)
(* Replacing an element: one place of one container changes.               *)
(***************************************************************************)

\* g is h with d in place k of block p, where a container keeps an element
PutIn(h, g, p, k, d) ==
  /\ DataPlace(h, p, k)
  /\ g \in Seq(Cell) /\ DOMAIN g = DOMAIN h /\ Len(g) = Len(h)
  /\ \A q \in DOMAIN h : q # p => g[q] = h[q]
  /\ g[p].type = h[p].type /\ g[p].size = h[p].size
  /\ Len(g[p].kids) = Len(h[p].kids) /\ DOMAIN g[p].kids = DOMAIN h[p].kids
  /\ g[p].kids[k] = d /\ \A j \in DOMAIN h[p].kids : j # k => g[p].kids[j] = h[p].kids[j]

\* Blocks keep their type, how much they hold, and all pointers to blocks that are no terms.
LEMMA PutLeaves ==
  ASSUME NEW h \in Seq(Cell), NEW g, NEW p, NEW k, NEW d, PutIn(h, g, p, k, d)
  PROVE  \A q \in DOMAIN h :
           /\ q \in DOMAIN g /\ g[q].type = h[q].type
           /\ Len(g[q].kids) = Len(h[q].kids) /\ DOMAIN g[q].kids = DOMAIN h[q].kids
           /\ h[q].type \notin {"node", "elements"} => g[q] = h[q]
           /\ h[q].type = "node" => Last(g[q].kids) = Last(h[q].kids)
           /\ \A j \in DOMAIN h[q].kids : q # p \/ j # k => g[q].kids[j] = h[q].kids[j]
<1> SUFFICES ASSUME NEW q \in DOMAIN h
             PROVE  /\ q \in DOMAIN g /\ g[q].type = h[q].type
                    /\ Len(g[q].kids) = Len(h[q].kids) /\ DOMAIN g[q].kids = DOMAIN h[q].kids
                    /\ h[q].type \notin {"node", "elements"} => g[q] = h[q]
                    /\ h[q].type = "node" => Last(g[q].kids) = Last(h[q].kids)
                    /\ \A j \in DOMAIN h[q].kids : q # p \/ j # k => g[q].kids[j] = h[q].kids[j]
  OBVIOUS
<1>1. CASE q # p
  BY <1>1 DEF PutIn
<1>2. CASE q = p
  <2>1. DataPlace(h, p, k)
    BY DEF PutIn
  <2>2. h[p].type \in {"node", "elements"} /\ (h[p].type = "node" => k < Len(h[p].kids))
    BY <2>1 DEF DataPlace
  <2>3. Len(h[p].kids) \in Nat /\ DOMAIN h[p].kids = 1 .. Len(h[p].kids) /\ k \in DOMAIN h[p].kids
    BY <1>2, <2>1, CellIs DEF DataPlace
  <2>4. h[p].type = "node" => Last(g[p].kids) = Last(h[p].kids)
    <3> HAVE h[p].type = "node"
    <3>1. Len(h[p].kids) \in DOMAIN h[p].kids /\ Len(h[p].kids) # k
      BY <2>2, <2>3
    <3>2. Len(g[p].kids) = Len(h[p].kids) /\ g[p].kids[Len(h[p].kids)] = h[p].kids[Len(h[p].kids)]
      BY <3>1 DEF PutIn
    <3> QED
      BY <3>2 DEF Last
  <2> QED
    BY <1>2, <2>2, <2>4 DEF PutIn
<1> QED
  BY <1>1, <1>2

\* Chains stay as they are.
LEMMA PutChain ==
  ASSUME NEW h \in Seq(Cell), NEW g, NEW p, NEW k, NEW d, PutIn(h, g, p, k, d),
         NEW q, NEW s, IsChain(h, q, s)
  PROVE  IsChain(g, q, s)
<1>1. \A r \in DOMAIN h : /\ r \in DOMAIN g /\ g[r].type = h[r].type
                          /\ h[r].type = "node" => Last(g[r].kids) = Last(h[r].kids)
  BY PutLeaves
<1>2. Len(g) = Len(h)
  BY DEF PutIn
<1> QED
  BY <1>1, <1>2 DEF IsChain

\* The heap can still be read as sequences.
LEMMA PutReadable ==
  ASSUME NEW h, Readable(h), NEW g, Shaped(g), NEW p, NEW k, NEW d, PutIn(h, g, p, k, d)
  PROVE  Readable(g)
<1>0. h \in Seq(Cell) /\ Shaped(h) /\ Chained(h) /\ Widths(h)
  BY DEF Readable
<1>1. \A q \in DOMAIN h :
        /\ q \in DOMAIN g /\ g[q].type = h[q].type /\ Len(g[q].kids) = Len(h[q].kids)
        /\ h[q].type \notin {"node", "elements"} => g[q] = h[q]
        /\ h[q].type = "node" => Last(g[q].kids) = Last(h[q].kids)
  BY <1>0, PutLeaves
<1>2. g \in Seq(Cell) /\ DOMAIN g = DOMAIN h
  BY DEF PutIn
<1>3. Chained(g)
  <2> SUFFICES ASSUME NEW l \in DOMAIN g, g[l].type \in {"list_t", "dict_t"}
               PROVE  \E s : IsChain(g, g[l].kids[1], s)
    BY DEF Chained
  <2>1. l \in DOMAIN h /\ h[l].type \in {"list_t", "dict_t"} /\ g[l] = h[l]
    BY <1>1, <1>2
  <2>2. PICK s : IsChain(h, h[l].kids[1], s)
    BY <1>0, <2>1 DEF Chained
  <2>3. IsChain(g, h[l].kids[1], s)
    BY <1>0, <2>2, PutChain
  <2> QED
    BY <2>1, <2>3
<1>4. Widths(g)
  <2> SUFFICES ASSUME NEW q \in DOMAIN g
               PROVE  /\ g[q].type \in {"list_t", "dict_t"} /\ g[q].kids[1] # Null =>
                           Len(g[g[q].kids[1]].kids) = IF g[q].type = "dict_t" THEN 3 ELSE 2
                      /\ g[q].type = "node" /\ Last(g[q].kids) # Null =>
                           Len(g[Last(g[q].kids)].kids) = Len(g[q].kids)
    BY DEF Widths
  <2>0. q \in DOMAIN h /\ Shape(h, q)
    BY <1>0, <1>2 DEF Shaped
  <2>1. ASSUME g[q].type \in {"list_t", "dict_t"}, g[q].kids[1] # Null
        PROVE  Len(g[g[q].kids[1]].kids) = IF g[q].type = "dict_t" THEN 3 ELSE 2
    <3>1. h[q].type \in {"list_t", "dict_t"} /\ g[q] = h[q]
      BY <1>1, <2>0, <2>1
    <3>2. h[q].kids[1] \in DOMAIN h
      BY <2>0, <2>1, <3>1 DEF Shape, Leads
    <3>3. Len(h[h[q].kids[1]].kids) = IF h[q].type = "dict_t" THEN 3 ELSE 2
      BY <1>0, <2>0, <2>1, <3>1 DEF Widths
    <3> QED
      BY <1>1, <3>1, <3>2, <3>3
  <2>2. ASSUME g[q].type = "node", Last(g[q].kids) # Null
        PROVE  Len(g[Last(g[q].kids)].kids) = Len(g[q].kids)
    <3>1. h[q].type = "node" /\ Last(g[q].kids) = Last(h[q].kids) /\ Len(g[q].kids) = Len(h[q].kids)
      BY <1>1, <2>0, <2>2
    <3>2. Last(h[q].kids) \in DOMAIN h
      BY <2>0, <2>2, <3>1 DEF Shape, Leads
    <3>3. Len(h[Last(h[q].kids)].kids) = Len(h[q].kids)
      BY <1>0, <2>0, <2>2, <3>1 DEF Widths
    <3> QED
      BY <1>1, <3>1, <3>2, <3>3
  <2> QED
    BY <2>1, <2>2
<1> QED
  BY <1>2, <1>3, <1>4 DEF Readable

\* Terms that block p is not of hold what they held.
LEMMA PutElsewhere ==
  ASSUME NEW h, Readable(h), NEW g, NEW p, NEW k, NEW d, PutIn(h, g, p, k, d),
         NEW c \in TermsIn(h), p \notin Parts(h, c), NEW X, X = DOMAIN h, Parts(h, c) \subseteq X
  PROVE  HeldIn(g, c) = HeldIn(h, c)
<1>1. \A q \in Parts(h, c) : q \in DOMAIN g /\ g[q] = h[q]
  BY DEF PutIn
<1>2. h \in Seq(Cell) /\ Shaped(h) /\ Chained(h) /\ g \in Seq(Cell) /\ Len(g) = Len(h)
  BY DEF Readable, PutIn
<1>3. Len(h) \in Nat /\ Len(g) \in Nat /\ Len(h) <= Len(g)
  BY <1>2
<1>4. c \in DOMAIN h
  BY DEF TermsIn
<1> QED
  BY <1>1, <1>2, <1>3, <1>4, HeldSame

\* The elements in nodes of one each.
LEMMA OneEach ==
  ASSUME NEW h, NEW s, Len(s) \in Nat
  PROVE  ElementsOf(h, s, 1) = [k \in 1 .. Len(s) |-> h[s[k]].kids[1]]
<1>1. \A k \in 1 .. 1 * Len(s) : Place(1, k) = k /\ Side(1, k) = 1
  BY DEF Place, Side
<1>2. 1 .. 1 * Len(s) = 1 .. Len(s)
  OBVIOUS
<1> HIDE DEF Place, Side
<1> QED
  BY <1>1, <1>2 DEF ElementsOf

\* The terms are the same, and each but c holds what it held.
LEMMA PutOthers ==
  ASSUME NEW h, Readable(h), Sound(h), NEW g, NEW p, NEW k, NEW d, PutIn(h, g, p, k, d),
         NEW c \in TermsIn(h), p \in Parts(h, c)
  PROVE  TermsIn(g) = TermsIn(h) /\ \A b \in TermsIn(h) : b # c => HeldIn(g, b) = HeldIn(h, b)
<1>1. h \in Seq(Cell) /\ DOMAIN g = DOMAIN h
  BY DEF Readable, PutIn
<1>2. \A q \in DOMAIN h : g[q].type = h[q].type
  BY <1>1, PutLeaves
<1>3. ASSUME NEW b \in TermsIn(h), b # c PROVE HeldIn(g, b) = HeldIn(h, b)
  <2>1. p \notin Parts(h, b)
    BY <1>3, PartsApart
  <2>2. PICK X : X = DOMAIN h
    OBVIOUS
  <2>3. \A q \in DOMAIN h : \A j \in DOMAIN h[q].kids :
          q \in DOMAIN h /\ h[q].kids[j] # Null /\ h[q].kids[j] \in DOMAIN h
            /\ h[q].kids[j] \notin TermsIn(h) => h[q].kids[j] \in DOMAIN h
    OBVIOUS
  <2>4. b \in DOMAIN h
    BY DEF TermsIn
  <2>5. Parts(h, b) \subseteq DOMAIN h
    BY <2>3, <2>4, PartsHave
  <2> QED
    BY <2>1, <2>2, <2>5, PutElsewhere
<1> QED
  BY <1>1, <1>2, <1>3 DEF TermsIn

\* f with d in the i-th place of what c holds
WithIn(f, c, i, d) == [f EXCEPT ![c][i] = d]

\* putting d in place k of block p puts it in the i-th place of what c holds
PutsIn(h, p, k, d, c, i) == \A g : PutIn(h, g, p, k, d) => ContentIn(g) = WithIn(ContentIn(h), c, i, d)

\* The element of a node is replaced in the place of the node.
LEMMA PutInNode ==
  ASSUME NEW h, Readable(h), Sound(h), NEW c \in TermsIn(h), h[c].type = "list",
         NEW l, NEW s, IsList(h, c, l, s), NEW i \in DOMAIN s, NEW p, p = s[i], NEW d
  PROVE  PutsIn(h, p, 1, d, c, i)
<1> SUFFICES ASSUME NEW g, PutIn(h, g, s[i], 1, d)
             PROVE  ContentIn(g) = WithIn(ContentIn(h), c, i, d)
  BY DEF PutsIn
<1>1. h \in Seq(Cell) /\ c \in DOMAIN h /\ g \in Seq(Cell) /\ Len(h) \in Nat /\ Len(g) \in Nat
  BY DEF Readable, TermsIn, PutIn
<1>2. l = h[c].kids[1] /\ l \in DOMAIN h /\ h[l].type = "list_t" /\ IsChain(h, h[l].kids[1], s)
      /\ Parts(h, c) = {c, l} \union Range(s) /\ HeldIn(h, c) = ElementsOf(h, s, Width(h, c))
  BY DEF IsList
<1>3. \A q \in DOMAIN h : /\ q \in DOMAIN g /\ g[q].type = h[q].type
                          /\ h[q].type \notin {"node", "elements"} => g[q] = h[q]
                          /\ \A j \in DOMAIN h[q].kids : q # s[i] \/ j # 1 => g[q].kids[j] = h[q].kids[j]
  BY <1>1, PutLeaves
<1>4. g[c] = h[c] /\ g[l] = h[l]
  BY <1>1, <1>2, <1>3
<1>5. IsChain(g, g[l].kids[1], s)
  BY <1>1, <1>2, <1>4, PutChain
<1>6. HeldIn(g, c) = ElementsOf(g, s, Width(g, c))
  BY <1>1, <1>2, <1>4, <1>5, ListHolds
<1>7. Width(h, c) = 1 /\ Width(g, c) = 1
  BY <1>4 DEF Width
<1>8. Len(s) \in Nat /\ DOMAIN s = 1 .. Len(s)
  BY <1>2 DEF IsChain
<1>9. HeldIn(h, c) = [k \in DOMAIN s |-> h[s[k]].kids[1]] /\ HeldIn(g, c) = [k \in DOMAIN s |-> g[s[k]].kids[1]]
  BY <1>2, <1>6, <1>7, <1>8, OneEach
<1>10. \A k \in DOMAIN s : k # i => g[s[k]].kids[1] = h[s[k]].kids[1]
  <2> SUFFICES ASSUME NEW k \in DOMAIN s, k # i PROVE g[s[k]].kids[1] = h[s[k]].kids[1]
    OBVIOUS
  <2>1. s[k] # s[i]
    BY <1>2, ChainDistinct
  <2>2. s[k] \in DOMAIN h
    BY <1>2 DEF IsChain
  <2> QED
    BY <2>1, <2>2 DEF PutIn
<1>11. g[s[i]].kids[1] = d
  BY DEF PutIn
<1>12. HeldIn(g, c) = [HeldIn(h, c) EXCEPT ![i] = d]
  BY <1>9, <1>10, <1>11
<1>13. s[i] \in Parts(h, c)
  BY <1>2 DEF Range
<1>14. TermsIn(g) = TermsIn(h) /\ \A b \in TermsIn(h) : b # c => HeldIn(g, b) = HeldIn(h, b)
  BY <1>13, PutOthers
<1>15. ContentIn(g) = [ContentIn(h) EXCEPT ![c] = [HeldIn(h, c) EXCEPT ![i] = d]]
  BY <1>12, <1>14 DEF ContentIn
<1>16. ContentIn(h)[c] = HeldIn(h, c)
  BY DEF ContentIn
<1> QED
  BY <1>9, <1>15, <1>16 DEF WithIn

\* The element of a tuple is replaced in its place.
LEMMA PutInElements ==
  ASSUME NEW h, Readable(h), Sound(h), NEW c \in TermsIn(h),
         NEW t, NEW e, IsTuple(h, c, t, e), NEW i \in DOMAIN h[e].kids, NEW d
  PROVE  PutsIn(h, e, i, d, c, i)
<1> SUFFICES ASSUME NEW g, PutIn(h, g, e, i, d)
             PROVE  ContentIn(g) = WithIn(ContentIn(h), c, i, d)
  BY DEF PutsIn
<1>1. h \in Seq(Cell) /\ c \in DOMAIN h /\ g \in Seq(Cell)
  BY DEF Readable, TermsIn, PutIn
<1>2. /\ t = h[c].kids[1] /\ t \in DOMAIN h /\ h[t].type = "tuple_t" /\ e = h[t].kids[1] /\ e \in DOMAIN h
      /\ h[c].type = "tuple" /\ Parts(h, c) = {c, t, e} /\ HeldIn(h, c) = h[e].kids
  BY DEF IsTuple
<1>3. \A q \in DOMAIN h : h[q].type \notin {"node", "elements"} => g[q] = h[q]
  BY <1>1, PutLeaves
<1>4. g[c] = h[c] /\ g[t] = h[t]
  BY <1>1, <1>2, <1>3
<1>5. HeldIn(g, c) = g[e].kids
  BY <1>2, <1>4 DEF HeldIn
<1>6. h[e].kids \in Seq(Int) /\ g[e].kids \in Seq(Int) /\ DOMAIN g[e].kids = DOMAIN h[e].kids
      /\ g[e].kids[i] = d /\ \A j \in DOMAIN h[e].kids : j # i => g[e].kids[j] = h[e].kids[j]
  BY <1>1, <1>2, CellIs DEF PutIn
<1>7. g[e].kids = [h[e].kids EXCEPT ![i] = d]
  <2>1. PICK a : a = h[e].kids
    OBVIOUS
  <2>2. PICK b : b = g[e].kids
    OBVIOUS
  <2>3. a = [j \in DOMAIN a |-> a[j]] /\ b = [j \in DOMAIN b |-> b[j]]
    BY <1>6, <2>1, <2>2
  <2>4. DOMAIN b = DOMAIN a /\ b[i] = d /\ \A j \in DOMAIN a : j # i => b[j] = a[j]
    BY <1>6, <2>1, <2>2
  <2>5. b = [a EXCEPT ![i] = d]
    BY <2>3, <2>4
  <2> QED
    BY <2>1, <2>2, <2>5
<1>8. TermsIn(g) = TermsIn(h) /\ \A b \in TermsIn(h) : b # c => HeldIn(g, b) = HeldIn(h, b)
  BY <1>2, PutOthers
<1>9. ContentIn(g) = [ContentIn(h) EXCEPT ![c] = [HeldIn(h, c) EXCEPT ![i] = d]]
  <2>1. HeldIn(g, c) = [HeldIn(h, c) EXCEPT ![i] = d]
    BY <1>2, <1>5, <1>7
  <2> QED
    BY <1>8, <2>1 DEF ContentIn
<1>10. ContentIn(h)[c] = HeldIn(h, c)
  BY DEF ContentIn
<1> QED
  BY <1>2, <1>9, <1>10 DEF WithIn

\* f is given by its values
IsAFunction(f) == f = [x \in DOMAIN f |-> f[x]]

\* Restrict of a function that is changed at a point it keeps.
LEMMA RestrictChanged ==
  ASSUME NEW f, IsAFunction(f), NEW Y, Y \subseteq DOMAIN f, NEW c \in Y, NEW i, NEW d
  PROVE  Restrict(WithIn(f, c, i, d), Y) = WithIn(Restrict(f, Y), c, i, d)
<1> DEFINE v == [f[c] EXCEPT ![i] = d]
<1>0. f = [x \in DOMAIN f |-> f[x]]
  BY DEF IsAFunction
<1>1. [f EXCEPT ![c][i] = d] = [f EXCEPT ![c] = v]
  OBVIOUS
<1>2. Restrict(f, Y) = [x \in Y |-> f[x]]
  BY DEF Restrict
<1>3. Restrict(f, Y)[c] = f[c]
  BY <1>2
<1>4. [Restrict(f, Y) EXCEPT ![c][i] = d] = [Restrict(f, Y) EXCEPT ![c] = v]
  BY <1>3
<1> HIDE DEF v
<1>5. Restrict([f EXCEPT ![c] = v], Y) = [x \in Y |-> [f EXCEPT ![c] = v][x]]
  BY DEF Restrict
<1>6. \A x \in Y : [f EXCEPT ![c] = v][x] = IF x = c THEN v ELSE f[x]
  BY <1>0
<1>7. [Restrict(f, Y) EXCEPT ![c] = v] = [x \in Y |-> IF x = c THEN v ELSE f[x]]
  BY <1>2
<1> QED
  BY <1>1, <1>4, <1>5, <1>6, <1>7 DEF WithIn

\* What a place for elements holds is a term, or null.
LEMMA PlaceHolds ==
  ASSUME NEW h \in Seq(Cell), Shaped(h), NEW p, NEW k, DataPlace(h, p, k), NEW old, old = h[p].kids[k]
  PROVE  /\ old \in Int /\ old \in Range(h[p].kids)
         /\ old \in TermsIn(h) \union {Null}
<1>1. p \in DOMAIN h /\ k \in DOMAIN h[p].kids /\ h[p].type \in {"elements", "node"}
  BY DEF DataPlace
<1>2. old \in Int /\ old \in Range(h[p].kids)
  <2>1. h[p].kids \in Seq(Int)
    BY <1>1, CellIs
  <2> QED
    BY <1>1, <2>1 DEF Range
<1>3. old # Null => old \in DOMAIN h /\ h[old].type \in DataTypes
  <2> SUFFICES ASSUME old # Null PROVE old \in DOMAIN h /\ h[old].type \in DataTypes
    OBVIOUS
  <2>1. CASE h[p].type = "elements"
    BY <1>1, <2>1, KidIs
  <2>2. CASE h[p].type = "node"
    <3>1. k < Len(h[p].kids) /\ Len(h[p].kids) \in Nat /\ k \in 1 .. Len(h[p].kids)
      BY <1>1, <2>2, CellIs DEF DataPlace
    <3>2. k # Len(h[p].kids)
      BY <3>1
    <3> QED
      BY <1>1, <2>2, <3>2, KidIs
  <2> QED
    BY <1>1, <2>1, <2>2
<1> QED
  BY <1>2, <1>3 DEF TermsIn

\* what is left of f without a term and what goes with it
LeftIn(f, p) == Restrict(f, DOMAIN f \ HoldsIn(f, p))

\* which is destroying `old` where d is already put
DestroysOld(h, p, k, d, old) ==
  \E g : /\ PutIn(h, g, p, k, d) /\ Readable(g) /\ Sound(g) /\ AllFree(g, {old})
         /\ Replaced(h, p, k, d) = Destroyed(g, <<old>>)

\* terms that nothing holds lead to p
LedTo(h, p) == \E starts \in SUBSET Int : AllFree(h, starts) /\ p \in Reach(h, starts)

\* A place of a container's term gets the term d: what was there goes with what it holds, the
\* container holds d in its place, and the other terms hold what they held.
LEMMA ReplacedContent ==
  ASSUME NEW h, NEW home, HeapOK(h, home), Readable(h), NEW p, NEW k, DataPlace(h, p, k),
         NEW d \in Int, Free(h, d), h[d].type \in DataTypes,
         LedTo(h, p), NEW c \in TermsIn(h), p \in Parts(h, c), NEW i, NEW old, old = h[p].kids[k],
         PutsIn(h, p, k, d, c, i)
  PROVE  /\ ContentIn(Replaced(h, p, k, d)) = WithIn(LeftIn(ContentIn(h), old), c, i, d)
         /\ DestroysOld(h, p, k, d, old)
<1> PICK f : f = ContentIn(h)
  OBVIOUS
<1> PICK starts \in SUBSET Int : AllFree(h, starts) /\ p \in Reach(h, starts)
  BY DEF LedTo
<1>1. h \in Seq(Cell) /\ Shaped(h) /\ Sound(h) /\ IsHeap(h)
  BY CellsAreHeap DEF HeapOK
<1>2. p \in DOMAIN h /\ k \in DOMAIN h[p].kids /\ h[p].type # "freed"
  BY DEF DataPlace
<1>3. old \in Int /\ old \in Range(h[p].kids) /\ old \in TermsIn(h) \union {Null}
  BY <1>1, PlaceHolds
<1>4. p \notin Reach(h, {old})
  BY <1>1, <1>2, <1>3, NoCycle
<1>5. PICK g : g = Put(h, p, k, d)
  OBVIOUS
<1>6. /\ g \in Seq(Cell) /\ DOMAIN g = DOMAIN h /\ Len(g) = Len(h)
      /\ \A q \in DOMAIN h : q # p => g[q] = h[q]
      /\ g[p].type = h[p].type /\ g[p].size = h[p].size /\ g[p].tail = h[p].tail
      /\ g[p].kids \in Seq(Int) /\ DOMAIN g[p].kids = DOMAIN h[p].kids
      /\ Len(g[p].kids) = Len(h[p].kids)
      /\ g[p].kids[k] = d /\ \A j \in DOMAIN h[p].kids : j # k => g[p].kids[j] = h[p].kids[j]
  BY <1>1, <1>2, <1>5, Stores
<1>7. PutIn(h, g, p, k, d)
  BY <1>6 DEF PutIn
<1>8. HeapOK(g, home) /\ (old # Null => Free(g, old))
  BY <1>5, StoreKeeps
<1>9. Readable(g) /\ Sound(g) /\ IsHeap(g)
  <2>1. Shaped(g) /\ Sound(g)
    BY <1>8 DEF HeapOK
  <2> QED
    BY <1>6, <1>7, <2>1, PutReadable, CellsAreHeap
<1>10. Reach(g, {old}) = Reach(h, {old})
  <2>1. {old} \in SUBSET Int
    BY <1>3
  <2>2. DOMAIN g = DOMAIN h /\ \A q \in DOMAIN h : q # p => g[q] = h[q]
    BY <1>6
  <2>3. IsHeap(h) /\ IsHeap(g)
    BY <1>1, <1>9
  <2> QED
    BY <1>4, <2>1, <2>2, <2>3, ReachElsewhere
<1>11. Replaced(h, p, k, d) = Destroyed(g, <<old>>)
  BY <1>1, <1>2, <1>4, <1>5, <1>10, ReplacedIs
<1>12. PICK roots : roots = <<old>>
  OBVIOUS
<1>13. Range(roots) = {old}
  <2>1. DOMAIN <<old>> = {1} /\ <<old>>[1] = old
    OBVIOUS
  <2> QED
    BY <1>12, <2>1 DEF Range
<1>14. AllFree(g, {old}) /\ {old} \in SUBSET Int
  BY <1>3, <1>8 DEF AllFree
<1>15. ContentIn(Destroyed(g, roots)) = Restrict(ContentIn(g), TermsIn(g) \ Reach(g, Range(roots)))
  BY <1>9, <1>13, <1>14, DestroyedContent
<1>16. TermsIn(g) = TermsIn(h)
  <2>1. \A q \in DOMAIN h : g[q].type = h[q].type
    BY <1>6
  <2> QED
    BY <1>6, <2>1 DEF TermsIn
<1>17. DOMAIN f = TermsIn(h) /\ f = [x \in DOMAIN f |-> f[x]]
  BY DEF ContentIn
<1>18. TermsIn(h) \ Reach(h, {old}) = DOMAIN f \ HoldsIn(f, old)
  <2>1. HoldsIn(f, old) = TermsIn(h) \intersect Reach(h, {old})
    BY <1>3, HoldsIs
  <2> QED
    BY <1>17, <2>1
<1>19. c \notin Reach(h, {old})
  <2>1. \A q \in Reach(h, {old}) : Range(Followed(h, q)) \subseteq Reach(h, {old}) \union {Null}
    BY <1>1, <1>3, ReachClosed
  <2>2. PICK X : X = Reach(h, {old})
    OBVIOUS
  <2>3. Leaves(h, X)
    BY <2>1, <2>2 DEF Leaves
  <2>4. Null \notin DOMAIN h
    BY <1>1 DEF Null
  <2>5. c \in X => Parts(h, c) \subseteq X
    BY <2>3, <2>4, PartsFollow
  <2> QED
    BY <1>4, <2>2, <2>5
<1>20. ContentIn(g) = WithIn(f, c, i, d)
  BY <1>7 DEF PutsIn
<1>21. PICK Y : Y = DOMAIN f \ HoldsIn(f, old)
  OBVIOUS
<1>22. Restrict(WithIn(f, c, i, d), Y) = WithIn(Restrict(f, Y), c, i, d)
  <2>1. c \in Y /\ Y \subseteq DOMAIN f
    BY <1>17, <1>18, <1>19, <1>21
  <2>2. IsAFunction(f)
    BY <1>17 DEF IsAFunction
  <2> QED
    BY <2>1, <2>2, RestrictChanged
<1>23. ContentIn(Replaced(h, p, k, d)) = Restrict(WithIn(f, c, i, d), Y)
  BY <1>10, <1>11, <1>12, <1>13, <1>15, <1>16, <1>18, <1>20, <1>21
<1>24. DestroysOld(h, p, k, d, old)
  BY <1>7, <1>9, <1>11, <1>14 DEF DestroysOld
<1> QED
  BY <1>21, <1>22, <1>23, <1>24 DEF LeftIn

(***************************************************************************)
(* Appending: a list has one node more behind its last one.                *)
(***************************************************************************)

\* g is h with node n linked in block o, behind the nodes s of the list or dict c
LinkIn(h, g, c, l, s, n, o) ==
  /\ h \in Seq(Cell) /\ IsList(h, c, l, s) /\ Len(s) < Len(h)
  /\ n \in DOMAIN h /\ n # Null /\ h[n].type = "node"
  /\ Last(h[n].kids) = Null /\ Len(h[n].kids) = Width(h, c) + 1
  /\ n # o /\ n # l
  /\ Links(h, g, l, n, o)
  /\ IF Len(s) = 0 THEN o = l ELSE o = s[Len(s)]

\* What linking leaves as it is, and what it changes.
LEMMA LinkChanges ==
  ASSUME NEW h, NEW g, NEW c, NEW l, NEW s, NEW n, NEW o, LinkIn(h, g, c, l, s, n, o)
  PROVE  /\ g \in Seq(Cell) /\ DOMAIN g = DOMAIN h /\ Len(g) = Len(h) /\ Len(h) \in Nat
         /\ \A q \in DOMAIN h :
              /\ g[q].type = h[q].type /\ Len(g[q].kids) = Len(h[q].kids)
              /\ DOMAIN g[q].kids = DOMAIN h[q].kids /\ DOMAIN h[q].kids = 1 .. Len(h[q].kids)
              /\ Len(h[q].kids) \in Nat
              /\ q # o => g[q].kids = h[q].kids
              /\ q # o /\ q # l => g[q] = h[q]
         /\ o \in DOMAIN h /\ Len(h[o].kids) \in DOMAIN h[o].kids
         /\ Last(g[o].kids) = n
         /\ \A k \in DOMAIN h[o].kids : k # Len(h[o].kids) => g[o].kids[k] = h[o].kids[k]
<1>1. h \in Seq(Cell) /\ Links(h, g, l, n, o)
  BY DEF LinkIn
<1>2. /\ g \in Seq(Cell) /\ DOMAIN g = DOMAIN h /\ Len(g) = Len(h)
      /\ \A q \in DOMAIN h : q # o /\ q # l => g[q] = h[q]
      /\ \A q \in DOMAIN h :
           /\ g[q].type = h[q].type
           /\ DOMAIN g[q].kids = DOMAIN h[q].kids /\ Len(g[q].kids) = Len(h[q].kids)
           /\ \A k \in DOMAIN h[q].kids :
                g[q].kids[k] = IF q = o /\ k = Len(h[o].kids) THEN n ELSE h[q].kids[k]
      /\ o \in DOMAIN h /\ Len(h[o].kids) \in DOMAIN h[o].kids
  BY <1>1 DEF Links
<1>3. \A q \in DOMAIN h : /\ h[q].kids \in Seq(Int) /\ g[q].kids \in Seq(Int)
                          /\ DOMAIN h[q].kids = 1 .. Len(h[q].kids) /\ Len(h[q].kids) \in Nat
  BY <1>1, <1>2, CellIs
<1>4. ASSUME NEW q \in DOMAIN h, q # o PROVE g[q].kids = h[q].kids
  <2>1. PICK a : a = h[q].kids
    OBVIOUS
  <2>2. PICK b : b = g[q].kids
    OBVIOUS
  <2>3. a \in Seq(Int) /\ b \in Seq(Int) /\ DOMAIN b = DOMAIN a
    BY <1>2, <1>3, <2>1, <2>2
  <2>4. \A k \in DOMAIN a : b[k] = a[k]
    BY <1>2, <1>4, <2>1, <2>2
  <2>5. a = b
    BY <2>3, <2>4
  <2> QED
    BY <2>1, <2>2, <2>5
<1>5. Last(g[o].kids) = n
  BY <1>2 DEF Last
<1>6. Len(h) \in Nat
  BY <1>1
<1> QED
  BY <1>2, <1>3, <1>4, <1>5, <1>6

\* the nodes of a list, with one more
Longer(s, n) == Append(s, n)

\* The nodes of the list are those before, and the new one.
LEMMA LinkChain ==
  ASSUME NEW h, NEW g, NEW c, NEW l, NEW s, NEW n, NEW o, LinkIn(h, g, c, l, s, n, o),
         NEW t, t = Longer(s, n)
  PROVE  /\ IsChain(g, g[l].kids[1], t)
         /\ Len(t) = Len(s) + 1 /\ t[Len(s) + 1] = n /\ \A i \in DOMAIN s : t[i] = s[i]
<1> DEFINE k == Len(s)
<1>1. /\ IsList(h, c, l, s) /\ Len(s) < Len(h)
      /\ n \in DOMAIN h /\ n # Null /\ h[n].type = "node" /\ Last(h[n].kids) = Null
      /\ n # o /\ n # l
      /\ IF Len(s) = 0 THEN o = l ELSE o = s[Len(s)]
  BY DEF LinkIn
<1>2. /\ g \in Seq(Cell) /\ DOMAIN g = DOMAIN h /\ Len(g) = Len(h) /\ Len(h) \in Nat
      /\ \A q \in DOMAIN h : g[q].type = h[q].type /\ (q # o => g[q].kids = h[q].kids)
      /\ o \in DOMAIN h /\ Last(g[o].kids) = n
      /\ Len(h[o].kids) \in DOMAIN h[o].kids
  BY LinkChanges
<1>3. /\ IsChain(h, h[l].kids[1], s) /\ l \in DOMAIN h /\ h[l].type \in {"list_t", "dict_t"}
      /\ DOMAIN h[l].kids = {1}
  BY <1>1 DEF IsList
<1>4. /\ s \in Seq(Int) /\ k \in Nat /\ DOMAIN s = 1 .. k
      /\ \A i \in DOMAIN s : s[i] # Null /\ s[i] \in DOMAIN h /\ h[s[i]].type = "node"
      /\ h[l].kids[1] = At(s, 1)
      /\ \A i \in DOMAIN s : Last(h[s[i]].kids) = At(s, i + 1)
  BY <1>3 DEF IsChain
<1>5. h \in Seq(Cell) /\ n \in Int
  <2>1. h \in Seq(Cell)
    BY DEF LinkIn
  <2> QED
    BY <1>1, <2>1
<1>6. /\ t \in Seq(Int) /\ Len(t) = k + 1 /\ t[k + 1] = n /\ \A i \in DOMAIN s : t[i] = s[i]
      /\ DOMAIN t = 1 .. k + 1
  <2>1. /\ Append(s, n) \in Seq(Int) /\ Len(Append(s, n)) = Len(s) + 1
        /\ Append(s, n)[Len(s) + 1] = n
        /\ \A j \in DOMAIN s : Append(s, n)[j] = s[j]
    BY <1>4, <1>5, AppendedId
  <2>2. DOMAIN t = 1 .. Len(t)
    BY <2>1
  <2> QED
    BY <2>1, <2>2 DEF Longer
<1> HIDE DEF k
<1>7. \A i \in DOMAIN t : i \in DOMAIN s \/ i = k + 1
  BY <1>4, <1>6
<1>8. \A i \in DOMAIN t : t[i] # Null /\ t[i] \in DOMAIN g /\ g[t[i]].type = "node"
  <2> SUFFICES ASSUME NEW i \in DOMAIN t PROVE t[i] # Null /\ t[i] \in DOMAIN g /\ g[t[i]].type = "node"
    OBVIOUS
  <2>1. t[i] # Null /\ t[i] \in DOMAIN h /\ h[t[i]].type = "node"
    <3>1. CASE i \in DOMAIN s
      BY <1>4, <1>6, <3>1
    <3>2. CASE i = k + 1
      BY <1>1, <1>6, <3>2
    <3> QED
      BY <1>7, <3>1, <3>2
  <2> QED
    BY <1>2, <2>1
<1>9. g[l].kids[1] = At(t, 1)
  <2>1. CASE k = 0
    <3>1. o = l /\ 1 \in DOMAIN t /\ t[1] = n
      BY <1>1, <1>6, <2>1 DEF k
    <3>2. Len(g[l].kids) = 1
      <4>1. Len(h[l].kids) = 1
        BY <1>2, <1>3, <3>1
      <4> QED
        BY <1>3, <4>1, LinkChanges
    <3>3. g[l].kids[1] = n
      BY <1>2, <3>1, <3>2 DEF Last
    <3> QED
      BY <3>1, <3>3 DEF At
  <2>2. CASE k # 0
    <3>1. o = s[k] /\ k \in DOMAIN s /\ 1 \in DOMAIN s /\ 1 \in DOMAIN t
      BY <1>1, <1>4, <1>6, <2>2 DEF k
    <3>2. l # o
      BY <1>3, <1>4, <3>1
    <3>3. g[l].kids[1] = s[1]
      BY <1>2, <1>3, <1>4, <3>1, <3>2 DEF At
    <3> QED
      BY <1>6, <3>1, <3>3 DEF At
  <2> QED
    BY <2>1, <2>2
<1>10. ASSUME NEW i \in DOMAIN t PROVE Last(g[t[i]].kids) = At(t, i + 1)
  <2>1. CASE i \in DOMAIN s /\ i # k
    <3>1. i + 1 \in DOMAIN s /\ i + 1 \in DOMAIN t /\ k \in DOMAIN s /\ k # 0
      BY <1>4, <1>6, <2>1
    <3>2. s[i] # o
      <4>1. s[i] = s[k] => i = k
        BY <1>3, <2>1, <3>1, ChainDistinct
      <4> QED
        BY <1>1, <2>1, <3>1, <4>1 DEF k
    <3>3. Last(g[s[i]].kids) = s[i + 1]
      <4>1. g[s[i]].kids = h[s[i]].kids
        BY <1>2, <1>4, <2>1, <3>2
      <4> QED
        BY <1>4, <2>1, <3>1, <4>1 DEF At
    <3> QED
      BY <1>6, <2>1, <3>1, <3>3 DEF At
  <2>2. CASE i \in DOMAIN s /\ i = k
    <3>1. k # 0 /\ k + 1 \in DOMAIN t
      BY <1>4, <1>6, <2>2
    <3>2. t[i] = o
      BY <1>1, <1>6, <2>2, <3>1 DEF k
    <3> QED
      BY <1>2, <1>6, <2>2, <3>1, <3>2 DEF At
  <2>3. CASE i = k + 1
    <3>1. i + 1 \notin DOMAIN t
      BY <1>4, <1>6, <2>3
    <3>2. g[n].kids = h[n].kids
      BY <1>1, <1>2
    <3> QED
      BY <1>1, <1>6, <2>3, <3>1, <3>2 DEF At
  <2> QED
    BY <1>7, <2>1, <2>2, <2>3
<1>11. Len(t) <= Len(g)
  <2>1. k < Len(h)
    BY <1>1 DEF k
  <2> QED
    BY <1>2, <1>4, <1>6, <2>1
<1> QED
  BY <1>6, <1>8, <1>9, <1>10, <1>11 DEF IsChain, k

\* sequence b behind a
Behind(a, b) == a \o b

\* z is b behind a
IsBehind(z, a, b) ==
  /\ Len(z) = Len(a) + Len(b)
  /\ \A k \in 1 .. Len(a) : z[k] = a[k]
  /\ \A j \in 1 .. Len(b) : z[Len(a) + j] = b[j]

\* Two sequences joined are a sequence.
LEMMA BehindSeq ==
  ASSUME NEW S, NEW a \in Seq(S), NEW b \in Seq(S)
  PROVE  Behind(a, b) \in Seq(S) /\ IsBehind(Behind(a, b), a, b)
<1>1. Behind(a, b) \in Seq(S) /\ Len(Behind(a, b)) = Len(a) + Len(b)
  BY ConcatProperties DEF Behind
<1>2. \A k \in 1 .. Len(a) : Behind(a, b)[k] = a[k]
  BY DEF Behind
<1>3. \A j \in 1 .. Len(b) : Behind(a, b)[Len(a) + j] = b[j]
  BY DEF Behind
<1> QED
  BY <1>1, <1>2, <1>3 DEF IsBehind

\* There is one sequence like it.
LEMMA BehindUnique ==
  ASSUME NEW S, NEW a \in Seq(S), NEW b \in Seq(S), NEW y \in Seq(S), NEW z \in Seq(S),
         IsBehind(y, a, b), IsBehind(z, a, b)
  PROVE  z = y
<1>1. Len(z) = Len(y) /\ Len(a) \in Nat /\ Len(b) \in Nat /\ Len(z) = Len(a) + Len(b)
  BY DEF IsBehind
<1>2. ASSUME NEW k \in 1 .. Len(z) PROVE z[k] = y[k]
  <2>1. CASE k <= Len(a)
    <3>1. k \in 1 .. Len(a)
      BY <1>1, <2>1
    <3> QED
      BY <3>1 DEF IsBehind
  <2>2. CASE ~(k <= Len(a))
    <3>1. k - Len(a) \in 1 .. Len(b) /\ Len(a) + (k - Len(a)) = k
      BY <1>1, <2>2
    <3>2. z[Len(a) + (k - Len(a))] = b[k - Len(a)] /\ y[Len(a) + (k - Len(a))] = b[k - Len(a)]
      BY <3>1 DEF IsBehind
    <3> QED
      BY <3>1, <3>2
  <2> QED
    BY <2>1, <2>2
<1>3. z = [k \in 1 .. Len(z) |-> z[k]] /\ y = [k \in 1 .. Len(y) |-> y[k]]
  OBVIOUS
<1> QED
  BY <1>1, <1>2, <1>3

\* The list holds what it held, and the elements of the new node.
LEMMA LinkElements ==
  ASSUME NEW h, Widths(h), NEW g, NEW c, c \in DOMAIN h, h[c].type \in {"list", "dict"},
         NEW l, NEW s, NEW n, NEW o, LinkIn(h, g, c, l, s, n, o),
         NEW elements \in Seq(Int), Len(elements) = Width(h, c),
         \A j \in 1 .. Len(elements) : h[n].kids[j] = elements[j]
  PROVE  HeldIn(g, c) = Behind(HeldIn(h, c), elements)
<1> DEFINE w == Width(h, c)
<1>1. /\ h \in Seq(Cell) /\ IsList(h, c, l, s)
      /\ n \in DOMAIN h /\ n # Null /\ h[n].type = "node" /\ Len(h[n].kids) = w + 1
      /\ n # o /\ n # l
      /\ IF Len(s) = 0 THEN o = l ELSE o = s[Len(s)]
  BY DEF LinkIn
<1>2. /\ g \in Seq(Cell) /\ DOMAIN g = DOMAIN h /\ Len(g) = Len(h) /\ Len(h) \in Nat
      /\ \A q \in DOMAIN h : /\ g[q].type = h[q].type /\ (q # o => g[q].kids = h[q].kids)
                             /\ DOMAIN h[q].kids = 1 .. Len(h[q].kids)
      /\ o \in DOMAIN h
      /\ \A k \in DOMAIN h[o].kids : k # Len(h[o].kids) => g[o].kids[k] = h[o].kids[k]
  BY LinkChanges
<1>3. PICK t : t = Longer(s, n)
  OBVIOUS
<1>4. /\ IsChain(g, g[l].kids[1], t)
      /\ Len(t) = Len(s) + 1 /\ t[Len(s) + 1] = n /\ \A i \in DOMAIN s : t[i] = s[i]
  BY <1>3, LinkChain
<1>5. /\ l = h[c].kids[1] /\ l \in DOMAIN h /\ h[l].type \in {"list_t", "dict_t"}
      /\ HeldIn(h, c) = ElementsOf(h, s, w) /\ IsChain(h, h[l].kids[1], s)
  BY <1>1 DEF IsList
<1>6. c # o /\ c # l
  <2>1. \A i \in DOMAIN s : h[s[i]].type = "node"
    BY <1>5 DEF IsChain
  <2>2. DOMAIN s = 1 .. Len(s) /\ Len(s) \in Nat
    BY <1>5 DEF IsChain
  <2>3. c # l
    BY <1>5
  <2>4. CASE Len(s) = 0
    BY <1>1, <2>3, <2>4
  <2>5. CASE Len(s) # 0
    <3>1. Len(s) \in DOMAIN s
      BY <2>2, <2>5
    <3>2. o = s[Len(s)]
      BY <1>1, <2>5
    <3>3. h[o].type = "node"
      BY <2>1, <3>1, <3>2
    <3>4. c # o
      BY <3>3
    <3> QED
      BY <2>3, <3>4
  <2> QED
    BY <2>4, <2>5
<1>7. g[c].type = h[c].type /\ g[c].kids[1] = l
  BY <1>2, <1>5, <1>6
<1>8. HeldIn(g, c) = ElementsOf(g, t, w)
  <2>1. HeldIn(g, c) = ElementsOf(g, t, Width(g, c))
    <3>1. IsChain(g, g[g[c].kids[1]].kids[1], t) /\ g[c].type \in {"list", "dict"}
      BY <1>4, <1>7
    <3>2. Len(g) \in Nat
      BY <1>2
    <3> QED
      BY <3>1, <3>2, ListHolds
  <2>2. Width(g, c) = w
    BY <1>7 DEF Width
  <2> QED
    BY <2>1, <2>2
<1>9. w \in {1, 2}
  BY DEF Width
<1>10. Len(s) \in Nat /\ DOMAIN s = 1 .. Len(s)
  BY <1>5 DEF IsChain
<1>11. \A i \in DOMAIN s : Len(h[s[i]].kids) = w + 1 /\ DOMAIN h[s[i]].kids = 1 .. w + 1
  BY <1>1, ListElements
<1>12. \A i \in DOMAIN s : s[i] \in DOMAIN h
  BY <1>5 DEF IsChain
<1> HIDE DEF w
<1>13. \A j \in 1 .. w : j \in 1 .. w + 1 /\ j # w + 1
  BY <1>9
<1>14. ASSUME NEW i \in DOMAIN s, NEW j \in 1 .. w PROVE g[t[i]].kids[j] = h[s[i]].kids[j]
  <2>1. t[i] = s[i] /\ s[i] \in DOMAIN h
    BY <1>4, <1>12
  <2>2. CASE s[i] # o
    BY <1>2, <2>1, <2>2
  <2>3. CASE s[i] = o
    <3>1. j \in DOMAIN h[o].kids /\ j # Len(h[o].kids)
      BY <1>11, <1>13, <2>3
    <3> QED
      BY <1>2, <2>1, <2>3, <3>1
  <2> QED
    BY <2>2, <2>3
<1>15. PICK a : a = ElementsOf(h, s, w)
  OBVIOUS
<1>16. PICK z : z = ElementsOf(g, t, w)
  OBVIOUS
<1>17. /\ a = [k \in 1 .. w * Len(s) |-> h[s[Place(w, k)]].kids[Side(w, k)]]
       /\ z = [k \in 1 .. w * Len(t) |-> g[t[Place(w, k)]].kids[Side(w, k)]]
  BY <1>15, <1>16 DEF ElementsOf
<1>18. /\ \A k \in 1 .. w * Len(s) : Place(w, k) \in 1 .. Len(s) /\ Side(w, k) \in 1 .. w
       /\ \A j \in 1 .. w : Place(w, w * Len(s) + j) = Len(s) + 1 /\ Side(w, w * Len(s) + j) = j
  BY <1>9, <1>10, Places
<1>19. /\ w * Len(s) \in Nat /\ w * Len(t) \in Nat /\ w * Len(t) = w * Len(s) + w
       /\ \A k \in 1 .. w * Len(s) : k \in 1 .. w * Len(t)
       /\ \A j \in 1 .. w : w * Len(s) + j \in 1 .. w * Len(t)
       /\ \A k \in 1 .. w * Len(t) : k \in 1 .. w * Len(s) \/ \E j \in 1 .. w : k = w * Len(s) + j
  <2>1. PICK m : m = Len(s)
    OBVIOUS
  <2>2. m \in Nat
    BY <1>10, <2>1
  <2>3. CASE w = 1
    <3>1. \A k \in 1 .. 1 * (m + 1) : k \in 1 .. 1 * m \/ \E j \in 1 .. 1 : k = 1 * m + j
      <4> SUFFICES ASSUME NEW k \in 1 .. 1 * (m + 1), k \notin 1 .. 1 * m PROVE \E j \in 1 .. 1 : k = 1 * m + j
        OBVIOUS
      <4>1. k = 1 * m + 1 /\ 1 \in 1 .. 1
        BY <2>2
      <4> QED
        BY <4>1
    <3>2. /\ 1 * m \in Nat /\ 1 * (m + 1) \in Nat /\ 1 * (m + 1) = 1 * m + 1
          /\ \A k \in 1 .. 1 * m : k \in 1 .. 1 * (m + 1)
          /\ \A j \in 1 .. 1 : 1 * m + j \in 1 .. 1 * (m + 1)
      BY <2>2
    <3> QED
      BY <1>4, <2>1, <2>3, <3>1, <3>2
  <2>4. CASE w = 2
    <3>1. \A k \in 1 .. 2 * (m + 1) : k \in 1 .. 2 * m \/ \E j \in 1 .. 2 : k = 2 * m + j
      <4> SUFFICES ASSUME NEW k \in 1 .. 2 * (m + 1), k \notin 1 .. 2 * m PROVE \E j \in 1 .. 2 : k = 2 * m + j
        OBVIOUS
      <4>1. (k = 2 * m + 1 \/ k = 2 * m + 2) /\ 1 \in 1 .. 2 /\ 2 \in 1 .. 2
        BY <2>2
      <4> QED
        BY <4>1
    <3>2. /\ 2 * m \in Nat /\ 2 * (m + 1) \in Nat /\ 2 * (m + 1) = 2 * m + 2
          /\ \A k \in 1 .. 2 * m : k \in 1 .. 2 * (m + 1)
          /\ \A j \in 1 .. 2 : 2 * m + j \in 1 .. 2 * (m + 1)
      BY <2>2
    <3> QED
      BY <1>4, <2>1, <2>4, <3>1, <3>2
  <2> QED
    BY <1>9, <2>3, <2>4
<1>20. \A k \in 1 .. w * Len(s) : z[k] = a[k]
  <2> SUFFICES ASSUME NEW k \in 1 .. w * Len(s) PROVE z[k] = a[k]
    OBVIOUS
  <2>1. Place(w, k) \in DOMAIN s /\ Side(w, k) \in 1 .. w /\ k \in 1 .. w * Len(t)
    BY <1>10, <1>18, <1>19
  <2>2. z[k] = g[t[Place(w, k)]].kids[Side(w, k)] /\ a[k] = h[s[Place(w, k)]].kids[Side(w, k)]
    BY <1>17, <2>1
  <2> QED
    BY <1>14, <2>1, <2>2
<1>21. \A j \in 1 .. w : z[w * Len(s) + j] = elements[j]
  <2> SUFFICES ASSUME NEW j \in 1 .. w PROVE z[w * Len(s) + j] = elements[j]
    OBVIOUS
  <2>1. z[w * Len(s) + j] = g[t[Len(s) + 1]].kids[j]
    BY <1>17, <1>18, <1>19
  <2>2. g[n].kids = h[n].kids
    BY <1>1, <1>2
  <2>3. j \in 1 .. Len(elements)
    BY DEF w
  <2> QED
    BY <1>4, <2>1, <2>2, <2>3
<1>22. /\ DOMAIN a = 1 .. w * Len(s) /\ DOMAIN z = 1 .. w * Len(t)
       /\ \A k \in DOMAIN a : a[k] \in Int
  <2>1. \A q \in DOMAIN h : h[q].kids \in Seq(Int)
    BY <1>1, CellIs
  <2>2. ASSUME NEW k \in 1 .. w * Len(s) PROVE a[k] \in Int
    <3>1. Place(w, k) \in DOMAIN s /\ Side(w, k) \in 1 .. w
      BY <1>10, <1>18
    <3>2. a[k] = h[s[Place(w, k)]].kids[Side(w, k)]
      BY <1>17
    <3>3. Side(w, k) \in DOMAIN h[s[Place(w, k)]].kids /\ h[s[Place(w, k)]].kids \in Seq(Int)
      BY <1>11, <1>12, <1>13, <2>1, <3>1
    <3> QED
      BY <3>2, <3>3
  <2>3. DOMAIN a = 1 .. w * Len(s) /\ DOMAIN z = 1 .. w * Len(t)
    BY <1>17
  <2> QED
    BY <2>2, <2>3
<1>23. \A k \in DOMAIN z : z[k] \in Int
  <2> SUFFICES ASSUME NEW k \in 1 .. w * Len(t) PROVE z[k] \in Int
    BY <1>22
  <2>1. CASE k \in 1 .. w * Len(s)
    BY <1>20, <1>22, <2>1
  <2>2. ASSUME NEW j \in 1 .. w, k = w * Len(s) + j PROVE z[k] \in Int
    <3>1. elements[j] \in Int
      BY DEF w
    <3> QED
      BY <1>21, <2>2, <3>1
  <2>3. k \in 1 .. w * Len(s) \/ \E j \in 1 .. w : k = w * Len(s) + j
    BY <1>19
  <2> QED
    BY <2>1, <2>2, <2>3, Zenon
<1>24. a \in Seq(Int) /\ z \in Seq(Int) /\ Len(a) = w * Len(s) /\ Len(z) = w * Len(t)
  <2>1. a = [k \in 1 .. w * Len(s) |-> a[k]] /\ z = [k \in 1 .. w * Len(t) |-> z[k]]
    BY <1>17
  <2>2. a \in [1 .. w * Len(s) -> Int] /\ z \in [1 .. w * Len(t) -> Int]
    BY <1>22, <1>23, <2>1
  <2>3. \A size \in Nat : \A y \in [1 .. size -> Int] : y \in Seq(Int) /\ Len(y) = size
    OBVIOUS
  <2>4. w * Len(s) \in Nat /\ w * Len(t) \in Nat
    BY <1>19
  <2> QED
    BY <2>2, <2>3, <2>4
<1>25. Len(elements) = w
  BY DEF w
<1>26. z = Behind(a, elements)
  <2>1. Len(z) = Len(a) + Len(elements)
    BY <1>19, <1>24, <1>25
  <2>2. \A k \in 1 .. Len(a) : z[k] = a[k]
    BY <1>20, <1>24
  <2>3. \A j \in 1 .. Len(elements) : z[Len(a) + j] = elements[j]
    BY <1>21, <1>24, <1>25
  <2>4. IsBehind(z, a, elements)
    BY <2>1, <2>2, <2>3 DEF IsBehind
  <2>5. PICK y : y = Behind(a, elements)
    OBVIOUS
  <2>6. y \in Seq(Int) /\ IsBehind(y, a, elements)
    <3>1. a \in Seq(Int)
      BY <1>24
    <3> QED
      BY <2>5, <3>1, BehindSeq, Zenon
  <2>7. a \in Seq(Int) /\ z \in Seq(Int) /\ elements \in Seq(Int)
    BY <1>24
  <2>8. z = y
    BY <2>4, <2>6, <2>7, BehindUnique, Zenon
  <2> QED
    BY <2>5, <2>8
<1> QED
  BY <1>5, <1>8, <1>15, <1>16, <1>26

\* f with the elements e behind what c holds
WithMore(f, c, e) == [f EXCEPT ![c] = Behind(@, e)]

\* Linking a node extends what its list holds, and nothing else.
LEMMA LinkContent ==
  ASSUME NEW h, Readable(h), Sound(h), NEW g, NEW c \in TermsIn(h), h[c].type \in {"list", "dict"},
         NEW l, NEW s, NEW n, NEW o, LinkIn(h, g, c, l, s, n, o),
         NEW elements \in Seq(Int), Len(elements) = Width(h, c),
         \A j \in 1 .. Len(elements) : h[n].kids[j] = elements[j]
  PROVE  ContentIn(g) = WithMore(ContentIn(h), c, elements)
<1>1. h \in Seq(Cell) /\ Shaped(h) /\ Chained(h) /\ Widths(h) /\ c \in DOMAIN h
  BY DEF Readable, TermsIn
<1>2. HeldIn(g, c) = Behind(HeldIn(h, c), elements)
  BY <1>1, LinkElements
<1>3. /\ g \in Seq(Cell) /\ DOMAIN g = DOMAIN h /\ Len(g) = Len(h) /\ Len(h) \in Nat
      /\ \A q \in DOMAIN h : g[q].type = h[q].type /\ (q # o /\ q # l => g[q] = h[q])
  BY LinkChanges
<1>4. IsList(h, c, l, s) /\ IF Len(s) = 0 THEN o = l ELSE o = s[Len(s)]
  BY DEF LinkIn
<1>5. l \in Parts(h, c) /\ o \in Parts(h, c)
  <2>1. Parts(h, c) = {c, l} \union Range(s) /\ IsChain(h, h[l].kids[1], s)
    BY <1>4 DEF IsList
  <2>2. DOMAIN s = 1 .. Len(s) /\ Len(s) \in Nat
    BY <2>1 DEF IsChain
  <2>3. CASE Len(s) = 0
    BY <1>4, <2>1, <2>3
  <2>4. CASE Len(s) # 0
    <3>1. Len(s) \in DOMAIN s /\ o = s[Len(s)]
      BY <1>4, <2>2, <2>4
    <3> QED
      BY <2>1, <3>1 DEF Range
  <2> QED
    BY <2>3, <2>4
<1>6. TermsIn(g) = TermsIn(h)
  BY <1>3 DEF TermsIn
<1>7. ASSUME NEW b \in TermsIn(h), b # c PROVE HeldIn(g, b) = HeldIn(h, b)
  <2>1. Parts(h, c) \intersect Parts(h, b) = {}
    BY <1>7, PartsApart
  <2>2. l \notin Parts(h, b) /\ o \notin Parts(h, b)
    BY <1>5, <2>1
  <2>3. PICK X : X = DOMAIN h
    OBVIOUS
  <2>4. \A q \in DOMAIN h : \A j \in DOMAIN h[q].kids :
          q \in X /\ h[q].kids[j] # Null /\ h[q].kids[j] \in DOMAIN h
            /\ h[q].kids[j] \notin TermsIn(h) => h[q].kids[j] \in X
    BY <2>3
  <2>5. b \in DOMAIN h /\ b \in X
    BY <2>3 DEF TermsIn
  <2>6. Parts(h, b) \subseteq DOMAIN h
    BY <2>4, <2>5, PartsHave
  <2>7. \A q \in Parts(h, b) : q \in DOMAIN g /\ g[q] = h[q]
    BY <1>3, <2>2, <2>6
  <2>8. Len(g) \in Nat /\ Len(h) <= Len(g)
    BY <1>3
  <2> QED
    BY <1>1, <1>3, <2>5, <2>7, <2>8, HeldSame
<1> DEFINE v == Behind(HeldIn(h, c), elements)
<1>8. ContentIn(g) = [q \in TermsIn(h) |-> IF q = c THEN v ELSE HeldIn(h, q)]
  BY <1>2, <1>6, <1>7 DEF ContentIn
<1>9. ContentIn(h)[c] = HeldIn(h, c)
  BY DEF ContentIn
<1>10. WithMore(ContentIn(h), c, elements) = [ContentIn(h) EXCEPT ![c] = v]
  BY <1>9 DEF WithMore
<1> HIDE DEF v
<1>11. [ContentIn(h) EXCEPT ![c] = v] = [q \in TermsIn(h) |-> IF q = c THEN v ELSE HeldIn(h, q)]
  BY DEF ContentIn
<1> QED
  BY <1>8, <1>10, <1>11

\* Linking keeps the nodes of a list as wide as they are.
LEMMA LinkWidths ==
  ASSUME NEW h, Widths(h), Shaped(h), NEW g, NEW c, h[c].type \in {"list", "dict"},
         NEW l, NEW s, NEW n, NEW o, LinkIn(h, g, c, l, s, n, o)
  PROVE  Widths(g)
<1>1. /\ h \in Seq(Cell) /\ IsList(h, c, l, s)
      /\ n \in DOMAIN h /\ n # Null /\ Last(h[n].kids) = Null /\ Len(h[n].kids) = Width(h, c) + 1
      /\ IF Len(s) = 0 THEN o = l ELSE o = s[Len(s)]
  BY DEF LinkIn
<1>2. /\ g \in Seq(Cell) /\ DOMAIN g = DOMAIN h
      /\ \A q \in DOMAIN h : /\ g[q].type = h[q].type /\ Len(g[q].kids) = Len(h[q].kids)
                             /\ (q # o => g[q].kids = h[q].kids)
      /\ o \in DOMAIN h /\ Last(g[o].kids) = n
      /\ Len(h[o].kids) \in DOMAIN h[o].kids
  BY LinkChanges
<1>3. /\ IsChain(h, h[l].kids[1], s) /\ l \in DOMAIN h
      /\ h[l].type = (IF h[c].type = "list" THEN "list_t" ELSE "dict_t")
      /\ DOMAIN h[l].kids = {1}
  BY <1>1 DEF IsList
<1>4. Len(h[n].kids) = IF h[l].type = "dict_t" THEN 3 ELSE 2
  BY <1>1, <1>3 DEF Width
<1>5. \/ o = l
      \/ h[o].type = "node" /\ Len(h[o].kids) = IF h[l].type = "dict_t" THEN 3 ELSE 2
  <2>1. DOMAIN s = 1 .. Len(s) /\ Len(s) \in Nat /\ \A i \in DOMAIN s : h[s[i]].type = "node"
    BY <1>3 DEF IsChain
  <2>2. CASE Len(s) = 0
    BY <1>1, <2>2
  <2>3. CASE Len(s) # 0
    <3>1. Len(s) \in DOMAIN s /\ o = s[Len(s)]
      BY <1>1, <2>1, <2>3
    <3>2. h[l].type \in {"list_t", "dict_t"}
      BY <1>3
    <3>3. Len(h[s[Len(s)]].kids) = IF h[l].type = "dict_t" THEN 3 ELSE 2
      BY <1>3, <3>1, <3>2, ChainWide
    <3> QED
      BY <2>1, <3>1, <3>3
  <2> QED
    BY <2>2, <2>3
<1> SUFFICES ASSUME NEW q \in DOMAIN g
             PROVE  /\ g[q].type \in {"list_t", "dict_t"} /\ g[q].kids[1] # Null =>
                         Len(g[g[q].kids[1]].kids) = IF g[q].type = "dict_t" THEN 3 ELSE 2
                    /\ g[q].type = "node" /\ Last(g[q].kids) # Null =>
                         Len(g[Last(g[q].kids)].kids) = Len(g[q].kids)
  BY DEF Widths
<1>6. q \in DOMAIN h /\ Shape(h, q)
  BY <1>2 DEF Shaped
<1>7. CASE q # o
  <2>1. ASSUME g[q].type \in {"list_t", "dict_t"}, g[q].kids[1] # Null
        PROVE  Len(g[g[q].kids[1]].kids) = IF g[q].type = "dict_t" THEN 3 ELSE 2
    <3>1. h[q].type \in {"list_t", "dict_t"} /\ g[q].kids = h[q].kids /\ g[q].type = h[q].type
      BY <1>2, <1>6, <1>7, <2>1
    <3>2. h[q].kids[1] \in DOMAIN h
      BY <1>6, <2>1, <3>1 DEF Shape, Leads
    <3>3. Len(h[h[q].kids[1]].kids) = IF h[q].type = "dict_t" THEN 3 ELSE 2
      BY <1>6, <2>1, <3>1 DEF Widths
    <3> QED
      BY <1>2, <3>1, <3>2, <3>3
  <2>2. ASSUME g[q].type = "node", Last(g[q].kids) # Null
        PROVE  Len(g[Last(g[q].kids)].kids) = Len(g[q].kids)
    <3>1. h[q].type = "node" /\ g[q].kids = h[q].kids
      BY <1>2, <1>6, <1>7, <2>2
    <3>2. Last(h[q].kids) \in DOMAIN h
      BY <1>6, <2>2, <3>1 DEF Shape, Leads
    <3>3. Len(h[Last(h[q].kids)].kids) = Len(h[q].kids)
      BY <1>6, <2>2, <3>1 DEF Widths
    <3> QED
      BY <1>2, <3>1, <3>2, <3>3
  <2> QED
    BY <2>1, <2>2
<1>8. CASE q = o /\ o = l
  <2>1. g[l].type = h[l].type /\ h[l].type \in {"list_t", "dict_t"}
    BY <1>2, <1>3
  <2>2. g[l].kids[1] = n
    <3>1. Len(h[l].kids) = 1 /\ Len(g[l].kids) = 1
      BY <1>2, <1>3, <1>8
    <3> QED
      BY <1>2, <1>8, <3>1 DEF Last
  <2>3. Len(g[n].kids) = Len(h[n].kids)
    BY <1>1, <1>2
  <2> QED
    BY <1>4, <1>8, <2>1, <2>2, <2>3
<1>9. CASE q = o /\ o # l
  <2>1. g[o].type = "node" /\ Len(g[o].kids) = IF h[l].type = "dict_t" THEN 3 ELSE 2
    BY <1>2, <1>5, <1>9
  <2>2. Len(g[n].kids) = Len(h[n].kids)
    BY <1>1, <1>2
  <2> QED
    BY <1>2, <1>4, <1>9, <2>1, <2>2
<1> QED
  BY <1>7, <1>8, <1>9

\* A node has a last place, a list a first one.
LEMMA HasPlaces ==
  ASSUME NEW g \in Seq(Cell), Shaped(g), NEW q \in DOMAIN g
  PROVE  /\ g[q].type = "node" => Len(g[q].kids) \in DOMAIN g[q].kids
         /\ g[q].type \in {"list_t", "dict_t"} => 1 \in DOMAIN g[q].kids
<1>1. Shape(g, q)
  BY DEF Shaped
<1>2. DOMAIN g[q].kids = 1 .. Len(g[q].kids)
  BY CellIs
<1>3. g[q].type = "node" => Len(g[q].kids) \in {2, 3}
  BY <1>1 DEF Shape
<1>4. g[q].type \in {"list_t", "dict_t"} => Len(g[q].kids) = 1
  BY <1>1 DEF Shape
<1>5. \A m \in {1, 2, 3} : m \in 1 .. m /\ 1 \in 1 .. m
  OBVIOUS
<1> QED
  BY <1>2, <1>3, <1>4, <1>5

\* blocks are as in h, or freed, or new; and old blocks lead to blocks that are as in h
Keeps(h, g, new) ==
  /\ \A q \in DOMAIN g : \/ q \in DOMAIN h /\ g[q] = h[q]
                         \/ g[q].type = "freed"
                         \/ q = new /\ q \notin DOMAIN h /\ NewlyMade(g[q])
  /\ \A q \in DOMAIN g : \A k \in DOMAIN g[q].kids :
       q \in DOMAIN h /\ g[q].kids[k] # Null => g[g[q].kids[k]] = h[g[q].kids[k]]

\* Blocks that are freed, and new blocks, keep the nodes as wide as they are.
LEMMA WidthsStay ==
  ASSUME NEW h, Widths(h), NEW g \in Seq(Cell), Shaped(g), NEW new, Keeps(h, g, new)
  PROVE  Widths(g)
<1>0. /\ \A q \in DOMAIN g : \/ q \in DOMAIN h /\ g[q] = h[q]
                             \/ g[q].type = "freed"
                             \/ q = new /\ q \notin DOMAIN h /\ NewlyMade(g[q])
      /\ \A q \in DOMAIN g : \A k \in DOMAIN g[q].kids :
           q \in DOMAIN h /\ g[q].kids[k] # Null => g[g[q].kids[k]] = h[g[q].kids[k]]
      /\ \A q \in DOMAIN g : g[q].type = "node" => Len(g[q].kids) \in DOMAIN g[q].kids
      /\ \A q \in DOMAIN g : g[q].type \in {"list_t", "dict_t"} => 1 \in DOMAIN g[q].kids
  BY HasPlaces DEF Keeps
<1> SUFFICES ASSUME NEW q \in DOMAIN g
             PROVE  /\ g[q].type \in {"list_t", "dict_t"} /\ g[q].kids[1] # Null =>
                         Len(g[g[q].kids[1]].kids) = IF g[q].type = "dict_t" THEN 3 ELSE 2
                    /\ g[q].type = "node" /\ Last(g[q].kids) # Null =>
                         Len(g[Last(g[q].kids)].kids) = Len(g[q].kids)
  BY DEF Widths
<1>1. CASE g[q].type = "freed"
  BY <1>1
<1>2. CASE q = new /\ q \notin DOMAIN h /\ NewlyMade(g[q])
  BY <1>2 DEF NewlyMade
<1>3. CASE q \in DOMAIN h /\ g[q] = h[q]
  <2>1. ASSUME g[q].type \in {"list_t", "dict_t"}, g[q].kids[1] # Null
        PROVE  Len(g[g[q].kids[1]].kids) = IF g[q].type = "dict_t" THEN 3 ELSE 2
    <3>1. Len(h[h[q].kids[1]].kids) = IF h[q].type = "dict_t" THEN 3 ELSE 2
      BY <1>3, <2>1 DEF Widths
    <3>2. g[g[q].kids[1]] = h[g[q].kids[1]]
      BY <1>0, <1>3, <2>1
    <3> QED
      BY <1>3, <3>1, <3>2
  <2>2. ASSUME g[q].type = "node", Last(g[q].kids) # Null
        PROVE  Len(g[Last(g[q].kids)].kids) = Len(g[q].kids)
    <3>1. Len(h[Last(h[q].kids)].kids) = Len(h[q].kids)
      BY <1>3, <2>2 DEF Widths
    <3>2. g[Last(g[q].kids)] = h[Last(g[q].kids)]
      BY <1>0, <1>3, <2>2 DEF Last
    <3> QED
      BY <1>3, <3>1, <3>2
  <2> QED
    BY <2>1, <2>2
<1> QED
  BY <1>0, <1>1, <1>2, <1>3

(***************************************************************************)
(* What is told of the heap and of the running call, beside the inductive  *)
(* invariant: nodes are as wide as their lists, terms of types the client  *)
(* makes, and a search as far as it has counted.                           *)
(***************************************************************************)

\* ... also when some terms were destroyed
LEMMA WidthsDestroyed ==
  ASSUME NEW h, Readable(h), Sound(h), NEW roots \in Seq(Int), AllFree(h, Range(roots)),
         NEW g, g = Destroyed(h, roots), Shaped(g)
  PROVE  Widths(g) /\ g \in Seq(Cell) /\ DOMAIN g = DOMAIN h
         /\ \A q \in DOMAIN h : g[q] = h[q] \/ g[q] = Freed
<1>1. h \in Seq(Cell) /\ Shaped(h) /\ Widths(h) /\ IsHeap(h)
  BY CellsAreHeap DEF Readable
<1>2. Freed \in Cell
  BY DEF Cell
<1>3. /\ g \in Seq(Cell) /\ DOMAIN g = DOMAIN h
      /\ \A p \in DOMAIN h : g[p] = IF p \in Reach(h, Range(roots)) THEN Freed ELSE h[p]
  BY <1>1, <1>2, DestroyedIs
<1>4. Sound(g)
  BY <1>1, <1>2, DestroyLeavesSound
<1>5. \A p \in DOMAIN h : g[p] = h[p] \/ g[p] = Freed
  BY <1>3
<1>6. Freed.type = "freed"
  BY DEF Freed
<1>7. \A q \in DOMAIN g : \A k \in DOMAIN g[q].kids :
        q \in DOMAIN h /\ g[q].kids[k] # Null => g[g[q].kids[k]] = h[g[q].kids[k]]
  <2> SUFFICES ASSUME NEW q \in DOMAIN g, NEW k \in DOMAIN g[q].kids, g[q].kids[k] # Null
               PROVE  g[g[q].kids[k]] = h[g[q].kids[k]]
    OBVIOUS
  <2>1. Live(g, g[q].kids[k])
    BY <1>4 DEF Sound
  <2> QED
    BY <1>3, <1>5, <1>6, <2>1 DEF Live
<1>9. \A q \in DOMAIN g : (q \in DOMAIN h /\ g[q] = h[q]) \/ g[q].type = "freed"
  BY <1>3, <1>5, <1>6
<1>10. Keeps(h, g, Null)
  BY <1>7, <1>9 DEF Keeps
<1>11. Widths(g)
  BY <1>1, <1>3, <1>10, WidthsStay
<1> QED
  BY <1>3, <1>5, <1>11

\* ... and when a block is new.
LEMMA WidthsAppended ==
  ASSUME NEW h \in Seq(Cell), Widths(h), Shaped(h), Sound(h), NEW cell, CellWell(h, cell),
         NEW g, g = Append(h, cell), Shaped(g)
  PROVE  Widths(g) /\ g \in Seq(Cell) /\ g[Len(h) + 1] = cell /\ DOMAIN g = 1 .. Len(h) + 1
         /\ \A q \in DOMAIN h : q \in DOMAIN g /\ g[q] = h[q]
<1>1. IsHeap(h) /\ cell \in Cell /\ NewlyMade(cell)
  BY CellsAreHeap DEF CellWell
<1>2. PICK n : n = Len(h) + 1
  OBVIOUS
<1>3. /\ g \in Seq(Cell) /\ Len(g) = n /\ g[n] = cell
      /\ \A q \in 1 .. Len(h) : g[q] = h[q]
  BY <1>1, <1>2, AppendProperties
<1>4. DOMAIN h = 1 .. Len(h) /\ Len(h) \in Nat /\ DOMAIN g = 1 .. n
  BY <1>3
<1>5. \A q \in DOMAIN h : q \in DOMAIN g /\ g[q] = h[q]
  BY <1>2, <1>3, <1>4
<1>6. \A q \in DOMAIN g : q \in DOMAIN h \/ (q = n /\ q \notin DOMAIN h)
  BY <1>2, <1>4
<1>7. \A q \in DOMAIN g : \/ q \in DOMAIN h /\ g[q] = h[q]
                          \/ q = n /\ q \notin DOMAIN h /\ NewlyMade(g[q])
  BY <1>1, <1>3, <1>5, <1>6
<1>8. \A q \in DOMAIN g : \A k \in DOMAIN g[q].kids :
        q \in DOMAIN h /\ g[q].kids[k] # Null => g[g[q].kids[k]] = h[g[q].kids[k]]
  <2> SUFFICES ASSUME NEW q \in DOMAIN g, NEW k \in DOMAIN g[q].kids, g[q].kids[k] # Null, q \in DOMAIN h
               PROVE  g[g[q].kids[k]] = h[g[q].kids[k]]
    OBVIOUS
  <2>1. g[q] = h[q]
    BY <1>5
  <2>2. Live(h, h[q].kids[k])
    BY <2>1 DEF Sound
  <2> QED
    BY <1>5, <2>1, <2>2 DEF Live
<1>9. Keeps(h, g, n)
  BY <1>7, <1>8 DEF Keeps
<1>10. Widths(g)
  BY <1>3, <1>9, WidthsStay
<1> QED
  BY <1>2, <1>3, <1>4, <1>5, <1>10

\* the blocks of terms are of the types the client makes
Typed(h) ==
  \A p \in DOMAIN h :
    h[p].type \in {"int", "atom", "string", "bin", "regex", "tuple", "list", "dict"} => h[p].type \in DataTypes

\* a search has come as many nodes far as it has counted
SearchOK(h, c) ==
  c.op \in {"get", "set", "length"} =>
    \E s : /\ IsChain(h, h[h[c.c].kids[1]].kids[1], s)
           /\ c.i <= Len(s) /\ c.next_node = At(s, c.i + 1)

\* a tuple has a size, and a search an index, that was asked for
AskedOK(c) ==
  /\ c.op = "create" /\ c.type = "tuple" => c.size \in Sizes
  /\ c.op \in {"get", "set"} => c.index \in Indices /\ c.i <= c.index
  /\ c.op = "length" => c.index = 0

\* what the terms hold can be read from the heap, and where a search is from the call
Told(h, c) == Widths(h) /\ Typed(h) /\ SearchOK(h, c) /\ AskedOK(c)

\* A heap in order whose nodes are as wide as their lists can be read.
LEMMA ToldReadable ==
  ASSUME NEW home, HeapOK(heap, home), Widths(heap)
  PROVE  Readable(heap)
BY HeapChained DEF HeapOK, Readable

\* Where nothing is made or searched there is nothing to tell of the call.
LEMMA NoCallTold ==
  ASSUME NEW h, Widths(h), Typed(h)
  PROVE  Told(h, NoCall)
BY NoCallIs DEF Told, SearchOK, AskedOK, NoCall

(***************************************************************************)
(* The steps of SequenceStore, stated on the heap.                         *)
(***************************************************************************)

\* a step of SequenceStore, or none
StoreStep == Sequence!Next \/ UNCHANGED Sequence!storeVars

\* what a new tuple of size n holds
Nulls(n) == [k \in 1 .. n |-> Null]

\* What the store has before and after a step.
LEMMA StoreHas ==
  ASSUME NEW f, f = ContentIn(heap), NEW g, g = ContentIn(heap')
  PROVE  /\ Contents = f /\ Contents' = g /\ DOMAIN Contents = TermsIn(heap)
         /\ \A c \in TermsIn(heap) : Contents[c] = HeldIn(heap, c)
<1>1. Contents = f /\ Contents' = g
  BY ContentsAre
<1> QED
  BY <1>1 DEF ContentIn

\* A step that changes no content and no reply is none of the store.
LEMMA StoreStays ==
  ASSUME ContentIn(heap') = ContentIn(heap), reply' = reply
  PROVE  StoreStep
<1>1. Contents' = Contents
  BY ContentsAre
<1> QED
  BY <1>1 DEF StoreStep, Sequence!storeVars

\* A call begins.
LEMMA StoreBegins ==
  ASSUME ContentIn(heap') = ContentIn(heap), reply' = NoReply
  PROVE  StoreStep
<1>1. Contents' = Contents
  BY ContentsAre
<1>2. Sequence!Begin
  BY <1>1 DEF Sequence!Begin, Sequence!NoReply, NoReply, Sequence!Reply, Reply
<1> QED
  BY <1>2 DEF StoreStep, Sequence!Next

\* A term is made.
LEMMA StoreCreates ==
  ASSUME NEW n \in Sizes \union {0}, NEW p, reply' = Reply("create", Null, 0, p),
         p \notin TermsIn(heap) \union {Null},
         ContentIn(heap') = [q \in TermsIn(heap) \union {p} |-> IF q = p THEN Nulls(n) ELSE HeldIn(heap, q)]
  PROVE  StoreStep
<1>1. /\ Contents = ContentIn(heap) /\ Contents' = ContentIn(heap') /\ DOMAIN Contents = TermsIn(heap)
      /\ \A c \in TermsIn(heap) : Contents[c] = HeldIn(heap, c)
  BY StoreHas
<1>2. Contents' = [q \in DOMAIN Contents \union {p} |-> IF q = p THEN [k \in 1 .. n |-> Null] ELSE Contents[q]]
  BY <1>1 DEF Nulls
<1>3. reply' = Sequence!Reply("create", Null, 0, p) /\ reply'.value = p
  BY DEF Reply, Sequence!Reply
<1>4. Sequence!Create(p, n)
  BY <1>1, <1>2, <1>3 DEF Sequence!Create
<1> QED
  BY <1>3, <1>4 DEF StoreStep, Sequence!Next

\* A term is not made.
LEMMA StoreCreateFails ==
  ASSUME ContentIn(heap') = ContentIn(heap), reply' = Reply("create", Null, 0, Null)
  PROVE  StoreStep
<1>1. Contents' = Contents
  BY ContentsAre
<1>2. Sequence!CreateFails
  BY <1>1 DEF Sequence!CreateFails, Sequence!Reply, Reply
<1> QED
  BY <1>2 DEF StoreStep, Sequence!Next

\* the steps that ask the term c
Asks(c) ==
  \/ \E d \in DOMAIN Contents : Sequence!Extend(c, <<d>>)
  \/ \E k, v \in DOMAIN Contents : k # v /\ Sequence!Extend(c, <<k, v>>)
  \/ Sequence!ExtendFails(c)
  \/ \E index \in Indices :
       \/ Sequence!Get(c, index)
       \/ \E d \in DOMAIN Contents : Sequence!SetReplaces(c, index, d)
       \/ Sequence!SetRefuses(c, index)
  \/ Sequence!Length(c) \/ Sequence!Destroy(c)

\* They are steps of the store.
LEMMA StoreAsked ==
  ASSUME NEW c \in TermsIn(heap), reply'.c = c, Asks(c)
  PROVE  StoreStep
<1>1. DOMAIN Contents = TermsIn(heap)
  BY StoreHas
<1>2. c \in DOMAIN Contents \intersect {reply'.c}
  BY <1>1
<1> QED
  BY <1>2 DEF Asks, StoreStep, Sequence!Next

\* Elements are appended.
LEMMA StoreExtends ==
  ASSUME NEW c \in TermsIn(heap), NEW elements,
         \/ \E d \in TermsIn(heap) : elements = <<d>>
         \/ \E k, v \in TermsIn(heap) : k # v /\ elements = <<k, v>>,
         reply' = Reply("append", c, 0, BERT_SUCCESS),
         ContentIn(heap') = WithMore(ContentIn(heap), c, elements)
  PROVE  StoreStep
<1>1. Contents = ContentIn(heap) /\ Contents' = ContentIn(heap') /\ DOMAIN Contents = TermsIn(heap)
  BY StoreHas
<1>2. Contents' = [Contents EXCEPT ![c] = @ \o elements]
  BY <1>1 DEF WithMore, Behind
<1>3. reply' = Sequence!Reply("append", c, 0, Sequence!BERT_SUCCESS) /\ reply'.c = c
  BY DEF Reply, Sequence!Reply, BERT_SUCCESS, Sequence!BERT_SUCCESS
<1>4. Sequence!Extend(c, elements)
  BY <1>2, <1>3 DEF Sequence!Extend
<1>5. Asks(c)
  BY <1>1, <1>4 DEF Asks
<1> QED
  BY <1>3, <1>5, StoreAsked

\* Nothing is appended.
LEMMA StoreExtendFails ==
  ASSUME NEW c \in TermsIn(heap), ContentIn(heap') = ContentIn(heap),
         reply' = Reply("append", c, 0, BERT_ERRNO_MALLOC)
  PROVE  StoreStep
<1>1. Contents' = Contents
  BY ContentsAre
<1>2. reply'.c = c
  BY DEF Reply
<1>3. Sequence!ExtendFails(c)
  BY <1>1 DEF Sequence!ExtendFails, Sequence!Reply, Reply, BERT_ERRNO_MALLOC, Sequence!BERT_ERRNO_MALLOC
<1> QED
  BY <1>2, <1>3, StoreAsked DEF Asks

\* An element is asked for.
LEMMA StoreGets ==
  ASSUME NEW c \in TermsIn(heap), NEW index \in Indices, ContentIn(heap') = ContentIn(heap),
         reply' = Reply("get", c, index, IF index < Len(HeldIn(heap, c)) THEN HeldIn(heap, c)[index + 1] ELSE Null)
  PROVE  StoreStep
<1>1. Contents' = Contents /\ Contents[c] = HeldIn(heap, c)
  BY ContentsAre, StoreHas
<1>2. reply'.c = c /\ reply'.op = "get" /\ reply'.index = index
  BY DEF Reply
<1>3. Sequence!Get(c, index)
  BY <1>1, <1>2 DEF Sequence!Get, Sequence!Reply, Reply
<1> QED
  BY <1>2, <1>3, StoreAsked DEF Asks

\* What is left without a term and what it holds.
LEMMA WithoutIs ==
  ASSUME NEW p
  PROVE  Sequence!Without(p) = LeftIn(ContentIn(heap), p)
<1> PICK f : f = ContentIn(heap)
  OBVIOUS
<1>1. Contents = f
  BY ContentsAre
<1>2. \A x : Sequence!Range(Contents[x]) = Range(f[x])
  BY <1>1 DEF Sequence!Range, Range
<1>3. \A s : Sequence!Closed(s) <=> \A x \in s : Range(f[x]) \ {Null} \subseteq s
  BY <1>2 DEF Sequence!Closed
<1>4. Sequence!Holds(p) = HoldsIn(f, p)
  <2>1. \A q : q \in Sequence!Holds(p) <=> q \in HoldsIn(f, p)
    BY <1>1, <1>3 DEF Sequence!Holds, HoldsIn
  <2> QED
    BY <2>1
<1>5. \A X : Sequence!Restrict(Contents, X) = Restrict(f, X)
  BY <1>1 DEF Sequence!Restrict, Restrict
<1> QED
  BY <1>1, <1>4, <1>5 DEF Sequence!Without, LeftIn

\* An element is replaced.
LEMMA StoreSets ==
  ASSUME NEW c \in TermsIn(heap), NEW index \in Indices, NEW d \in TermsIn(heap),
         index < Len(HeldIn(heap, c)),
         ContentIn(heap') = WithIn(LeftIn(ContentIn(heap), HeldIn(heap, c)[index + 1]), c, index + 1, d),
         reply' = Reply("set", c, index, 1)
  PROVE  StoreStep
<1>1. Contents' = ContentIn(heap') /\ DOMAIN Contents = TermsIn(heap) /\ Contents[c] = HeldIn(heap, c)
  BY StoreHas
<1>2. reply'.c = c /\ reply' = Sequence!Reply("set", c, index, 1)
  BY DEF Reply, Sequence!Reply
<1>3. Sequence!Without(Contents[c][index + 1]) = LeftIn(ContentIn(heap), HeldIn(heap, c)[index + 1])
  BY <1>1, WithoutIs
<1>4. Contents' = [Sequence!Without(Contents[c][index + 1]) EXCEPT ![c][index + 1] = d]
  BY <1>1, <1>3 DEF WithIn
<1>5. Sequence!SetReplaces(c, index, d)
  BY <1>1, <1>2, <1>4 DEF Sequence!SetReplaces
<1>6. Asks(c)
  BY <1>1, <1>5 DEF Asks
<1> QED
  BY <1>2, <1>6, StoreAsked

\* An element past the end is not replaced.
LEMMA StoreRefuses ==
  ASSUME NEW c \in TermsIn(heap), NEW index \in Indices, index >= Len(HeldIn(heap, c)),
         ContentIn(heap') = ContentIn(heap), reply' = Reply("set", c, index, 0)
  PROVE  StoreStep
<1>1. Contents' = Contents /\ Contents[c] = HeldIn(heap, c)
  BY ContentsAre, StoreHas
<1>2. reply'.c = c /\ reply' = Sequence!Reply("set", c, index, 0)
  BY DEF Reply, Sequence!Reply
<1>3. Sequence!SetRefuses(c, index)
  BY <1>1, <1>2 DEF Sequence!SetRefuses
<1> QED
  BY <1>2, <1>3, StoreAsked DEF Asks

\* The elements are counted.
LEMMA StoreCounts ==
  ASSUME NEW c \in TermsIn(heap), ContentIn(heap') = ContentIn(heap),
         reply' = Reply("length", c, 0, Len(HeldIn(heap, c)))
  PROVE  StoreStep
<1>1. Contents' = Contents /\ Contents[c] = HeldIn(heap, c)
  BY ContentsAre, StoreHas
<1>2. reply'.c = c /\ reply'.op = "length"
  BY DEF Reply
<1>3. Sequence!Length(c)
  BY <1>1, <1>2 DEF Sequence!Length, Sequence!Reply, Reply
<1> QED
  BY <1>2, <1>3, StoreAsked DEF Asks

\* A term is destroyed, with what it holds.
LEMMA StoreDestroys ==
  ASSUME NEW p \in TermsIn(heap), ContentIn(heap') = LeftIn(ContentIn(heap), p),
         reply' = Reply("destroy", p, 0, Null)
  PROVE  StoreStep
<1>1. Contents' = ContentIn(heap')
  BY StoreHas
<1>2. reply'.c = p
  BY DEF Reply
<1>3. Sequence!Without(p) = LeftIn(ContentIn(heap), p)
  BY WithoutIs
<1>4. Sequence!Destroy(p)
  BY <1>1, <1>3 DEF Sequence!Destroy, Sequence!Reply, Reply
<1> QED
  BY <1>2, <1>4, StoreAsked DEF Asks

(***************************************************************************)
(* What each call is to the store.                                         *)
(***************************************************************************)

\* the heap is in order and can be read, and so can the running call
Clear(home) == InOrder(heap, client, call, dropped, home) /\ Readable(heap) /\ Told(heap, call)

\* A call that only looks ends, or was none.
LEMMA ToldEnds ==
  ASSUME Told(heap, call), heap' = heap, call' = NoCall \/ call' = call
  PROVE  Told(heap', call')
<1>1. Widths(heap) /\ Typed(heap)
  BY DEF Told
<1>2. Told(heap, NoCall)
  BY <1>1, NoCallTold
<1> QED
  BY <1>2

\* The list a search is in, and where it has come.
LEMMA SearchIs ==
  ASSUME NEW home, Clear(home), Searching
  PROVE  /\ call.c \in TermsIn(heap) /\ call.c \in DOMAIN heap /\ heap[call.c].type = "list"
         /\ call.i \in Nat /\ call.index \in Int /\ DataTypes \subseteq Kinds
         /\ \E s : /\ IsList(heap, call.c, heap[call.c].kids[1], s)
                   /\ s \in Seq(Int) /\ Len(s) \in Nat /\ DOMAIN s = 1 .. Len(s)
                   /\ HeldIn(heap, call.c) = ElementsOf(heap, s, 1)
                   /\ call.i <= Len(s) /\ call.next_node = At(s, call.i + 1)
<1>1. /\ HeapOK(heap, home) /\ heap \in Seq(Cell) /\ call \in Calls /\ Shaped(heap) /\ Chained(heap)
      /\ Typed(heap) /\ SearchOK(heap, call) /\ CallOK(heap, client, call, home)
  BY DEF Clear, InOrder, Readable, Told, HeapOK
<1>2. call.c \in DOMAIN heap /\ heap[call.c].type = "list" /\ call.i \in Nat /\ call.index \in Int
  BY <1>1 DEF CallOK, Searching, Calls
<1>3. call.c \in TermsIn(heap) /\ DataTypes \subseteq Kinds
  BY <1>1, <1>2, DataAre DEF Typed, TermsIn
<1>4. PICK t : /\ IsChain(heap, heap[heap[call.c].kids[1]].kids[1], t)
               /\ call.i <= Len(t) /\ call.next_node = At(t, call.i + 1)
  BY <1>1 DEF SearchOK, Searching
<1>5. PICK s : IsList(heap, call.c, heap[call.c].kids[1], s)
  BY <1>1, <1>2, ListIs
<1>6. IsChain(heap, heap[heap[call.c].kids[1]].kids[1], s)
  BY <1>5 DEF IsList
<1>7. Len(heap) \in Nat
  BY <1>1
<1>8. s = t
  BY <1>4, <1>6, <1>7, ChainUnique
<1>9. s \in Seq(Int)
  BY <1>6 DEF IsChain
<1>10. Len(s) \in Nat /\ DOMAIN s = 1 .. Len(s)
  BY <1>9
<1>11. HeldIn(heap, call.c) = ElementsOf(heap, s, 1)
  <2>1. HeldIn(heap, call.c) = ElementsOf(heap, s, Width(heap, call.c))
    BY <1>5 DEF IsList
  <2>2. Width(heap, call.c) = 1
    BY <1>2 DEF Width
  <2> QED
    BY <2>1, <2>2
<1> QED
  BY <1>2, <1>3, <1>4, <1>5, <1>8, <1>9, <1>10, <1>11

\* A search ends at the node of the index, or behind the last one.
LEMMA SearchFinds ==
  ASSUME NEW home, Clear(home), Searching, ~Before
  PROVE  /\ call.c \in TermsIn(heap) /\ call.c \in DOMAIN heap /\ heap[call.c].type = "list"
         /\ \E s : /\ IsList(heap, call.c, heap[call.c].kids[1], s)
                   /\ Len(HeldIn(heap, call.c)) = Len(s)
                   /\ call.next_node = Null =>
                        /\ call.i = Len(s)
                        /\ call.op # "length" => call.index >= Len(s)
                   /\ call.next_node # Null =>
                        /\ call.op # "length" /\ call.index < Len(s) /\ call.index + 1 \in DOMAIN s
                        /\ call.next_node = s[call.index + 1]
                        /\ HeldIn(heap, call.c)[call.index + 1] = heap[call.next_node].kids[1]
<1>1. /\ call.c \in TermsIn(heap) /\ call.c \in DOMAIN heap /\ heap[call.c].type = "list"
      /\ call.i \in Nat /\ call.index \in Int
  BY SearchIs
<1>2. PICK s : /\ IsList(heap, call.c, heap[call.c].kids[1], s)
               /\ s \in Seq(Int) /\ Len(s) \in Nat /\ DOMAIN s = 1 .. Len(s)
               /\ HeldIn(heap, call.c) = ElementsOf(heap, s, 1)
               /\ call.i <= Len(s) /\ call.next_node = At(s, call.i + 1)
  BY SearchIs
<1>3. HeldIn(heap, call.c) = [k \in 1 .. Len(s) |-> heap[s[k]].kids[1]]
  BY <1>2, OneEach
<1>4. Len(HeldIn(heap, call.c)) = Len(s)
  BY <1>2, <1>3
<1>5. \A i \in DOMAIN s : s[i] # Null
  BY <1>2 DEF IsList, IsChain
<1>6. call.op \in {"get", "set"} => call.i <= call.index
  BY DEF Clear, Told, AskedOK
<1>7. call.op \in {"get", "set", "length"}
  BY DEF Searching
<1>8. CASE call.next_node = Null
  <2>1. call.i + 1 \notin DOMAIN s
    BY <1>2, <1>5, <1>8 DEF At
  <2>2. call.i = Len(s)
    BY <1>1, <1>2, <2>1
  <2> QED
    BY <1>1, <1>2, <1>4, <1>6, <1>7, <1>8, <2>2
<1>9. CASE call.next_node # Null
  <2>1. call.i + 1 \in DOMAIN s /\ call.next_node = s[call.i + 1]
    BY <1>2, <1>9 DEF At
  <2>2. call.op # "length" /\ ~(call.i < call.index)
    BY <1>9 DEF Before
  <2>3. call.i = call.index
    BY <1>1, <1>6, <1>7, <2>2
  <2>4. call.index + 1 \in DOMAIN s /\ call.next_node = s[call.index + 1] /\ call.index < Len(s)
    BY <1>1, <1>2, <2>1, <2>3
  <2>5. HeldIn(heap, call.c)[call.index + 1] = heap[call.next_node].kids[1]
    BY <1>2, <1>3, <2>4
  <2> QED
    BY <1>1, <1>2, <1>4, <1>9, <2>2, <2>4, <2>5
<1> QED
  BY <1>8, <1>9

\* The constructor begins.
LEMMA CreateBeginsStore ==
  ASSUME NEW home, Clear(home), NEW type \in DataTypes, NEW size \in Sizes, bert_data_create(type, size)
  PROVE  StoreStep /\ Told(heap', call')
<1>1. heap' = heap /\ reply' = NoReply
  BY DEF bert_data_create
<1>2. StoreStep
  BY <1>1, StoreBegins
<1>3. PICK n : n = Length(type, size)
  OBVIOUS
<1>4. call' = [NoCall EXCEPT !.op = "create", !.type = type, !.size = n]
  BY <1>3 DEF bert_data_create
<1>5. call'.op = "create" /\ call'.type = type /\ call'.size = n
  BY <1>4 DEF NoCall
<1>6. type = "tuple" => n = size
  BY <1>3 DEF Length, IsShort, IsLong
<1>7. AskedOK(call') /\ SearchOK(heap', call')
  BY <1>5, <1>6 DEF AskedOK, SearchOK
<1> QED
  BY <1>1, <1>2, <1>7 DEF Clear, Told

\* A search begins.
LEMMA SearchBeginsStore ==
  ASSUME NEW home, Clear(home), NEW c \in Known("list"), NEW op \in {"get", "set", "length"},
         NEW index, NEW data, op # "length" => index \in Indices, op = "length" => index = 0,
         Search(op, c, index, data)
  PROVE  StoreStep /\ Told(heap', call')
<1>1. heap' = heap /\ reply' = NoReply
  BY DEF Search
<1>2. StoreStep
  BY <1>1, StoreBegins
<1>3. InOrder(heap, client, call, dropped, home) /\ Shaped(heap) /\ Chained(heap) /\ heap \in Seq(Cell)
      /\ Widths(heap) /\ Typed(heap)
  BY DEF Clear, Readable, Told
<1>4. c \in DOMAIN heap /\ heap[c].type = "list"
  BY <1>3, KnownIs
<1>5. PICK s : IsList(heap, c, heap[c].kids[1], s)
  BY <1>3, <1>4, ListIs
<1>6. IsChain(heap, heap[heap[c].kids[1]].kids[1], s)
  BY <1>5 DEF IsList
<1>7. s \in Seq(Int) /\ heap[heap[c].kids[1]].kids[1] = At(s, 1)
  BY <1>6 DEF IsChain
<1>8. /\ call'.op = op /\ call'.c = c /\ call'.index = index /\ call'.i = 0
      /\ call'.next_node = heap[heap[c].kids[1]].kids[1]
  BY DEF Search, NoCall, Struct
<1>9. call'.i <= Len(s) /\ call'.next_node = At(s, call'.i + 1)
  BY <1>7, <1>8
<1>10. SearchOK(heap, call')
  BY <1>6, <1>8, <1>9 DEF SearchOK
<1>11. op # "length" => index \in Nat
  BY ContainersAssumption
<1>12. AskedOK(call')
  BY <1>8, <1>11 DEF AskedOK
<1> QED
  BY <1>1, <1>2, <1>3, <1>10, <1>12 DEF Told

\* A search goes on.
LEMMA NextNodeStore ==
  ASSUME NEW home, Clear(home), NextNode
  PROVE  StoreStep /\ Told(heap', call')
<1>1. heap' = heap /\ reply' = reply /\ Searching /\ Before
  BY DEF NextNode
<1>2. StoreStep
  BY <1>1, StoreStays
<1>3. call.i \in Nat /\ call.index \in Int
  BY <1>1, SearchIs
<1>4. PICK s : /\ IsList(heap, call.c, heap[call.c].kids[1], s)
               /\ s \in Seq(Int) /\ Len(s) \in Nat /\ DOMAIN s = 1 .. Len(s)
               /\ HeldIn(heap, call.c) = ElementsOf(heap, s, 1)
               /\ call.i <= Len(s) /\ call.next_node = At(s, call.i + 1)
  BY <1>1, SearchIs
<1>5. IsChain(heap, heap[heap[call.c].kids[1]].kids[1], s)
  BY <1>4 DEF IsList
<1>6. call.next_node # Null
  BY <1>1 DEF Before
<1>7. call.i + 1 \in DOMAIN s /\ call.next_node = s[call.i + 1]
  BY <1>4, <1>6 DEF At
<1>8. Last(heap[s[call.i + 1]].kids) = At(s, call.i + 1 + 1)
  BY <1>5, <1>7 DEF IsChain
<1>9. call' = [call EXCEPT !.next_node = Last(heap[call.next_node].kids), !.i = call.i + 1]
  BY DEF NextNode
<1>10. /\ call'.op = call.op /\ call'.c = call.c /\ call'.index = call.index /\ call'.i = call.i + 1
       /\ call'.next_node = Last(heap[call.next_node].kids) /\ call'.type = call.type
  <2>1. call \in Calls
    BY DEF Clear, InOrder
  <2> QED
    BY <1>9, <2>1 DEF Calls
<1>11. call'.i <= Len(s) /\ call'.next_node = At(s, call'.i + 1)
  <2>1. call'.i <= Len(s)
    BY <1>3, <1>4, <1>7, <1>10
  <2> QED
    BY <1>7, <1>8, <1>10, <2>1
<1>12. SearchOK(heap', call')
  BY <1>1, <1>5, <1>10, <1>11 DEF SearchOK
<1>13. AskedOK(call')
  <2>1. AskedOK(call) /\ call.op \in {"get", "set", "length"}
    BY <1>1 DEF Clear, Told, Searching
  <2>2. call.op # "length" => call.i < call.index
    BY <1>1 DEF Before
  <2> QED
    BY <1>3, <1>10, <2>1, <2>2 DEF AskedOK
<1> QED
  BY <1>1, <1>2, <1>12, <1>13 DEF Clear, Told

\* The elements are counted.
LEMMA LengthStore ==
  ASSUME NEW home, Clear(home), LengthCounted
  PROVE  StoreStep /\ Told(heap', call')
<1>1. /\ heap' = heap /\ call.op = "length" /\ ~Before /\ call' = NoCall
      /\ reply' = Reply(call.op, call.c, call.index, call.i)
  BY DEF LengthCounted, Replies
<1>2. Told(heap', call')
  BY <1>1, ToldEnds DEF Clear
<1>3. Searching
  BY <1>1 DEF Searching
<1>4. call.index = 0
  BY <1>1 DEF Clear, Told, AskedOK
<1>5. call.c \in TermsIn(heap) /\ call.i = Len(HeldIn(heap, call.c))
  BY <1>1, <1>3, SearchFinds
<1>6. reply' = Reply("length", call.c, 0, Len(HeldIn(heap, call.c)))
  BY <1>1, <1>4, <1>5
<1>7. StoreStep
  BY <1>1, <1>5, <1>6, StoreCounts
<1> QED
  BY <1>2, <1>7

\* The element is found, or there is none.
LEMMA GetStore ==
  ASSUME NEW home, Clear(home), GetFinds
  PROVE  StoreStep /\ Told(heap', call')
<1>1. /\ heap' = heap /\ call.op = "get" /\ ~Before /\ call' = NoCall
      /\ reply' = Reply(call.op, call.c, call.index,
                        IF call.next_node = Null THEN Null ELSE heap[call.next_node].kids[1])
  BY DEF GetFinds, Replies
<1>2. Told(heap', call')
  BY <1>1, ToldEnds DEF Clear
<1>3. Searching
  BY <1>1 DEF Searching
<1>4. call.index \in Indices /\ call.c \in TermsIn(heap) /\ call.index \in Int
  BY <1>1, <1>3, SearchFinds, SearchIs DEF Clear, Told, AskedOK
<1>5. PICK s : /\ IsList(heap, call.c, heap[call.c].kids[1], s)
               /\ Len(HeldIn(heap, call.c)) = Len(s)
               /\ call.next_node = Null /\ call.op # "length" => call.index >= Len(s)
               /\ call.next_node # Null =>
                    /\ call.index < Len(s)
                    /\ HeldIn(heap, call.c)[call.index + 1] = heap[call.next_node].kids[1]
  BY <1>1, <1>3, SearchFinds
<1>6. Len(s) \in Nat
  BY <1>5 DEF IsList, IsChain
<1>7. reply' = Reply("get", call.c, call.index,
                     IF call.index < Len(HeldIn(heap, call.c)) THEN HeldIn(heap, call.c)[call.index + 1] ELSE Null)
  BY <1>1, <1>4, <1>5, <1>6
<1>8. StoreStep
  BY <1>1, <1>4, <1>7, StoreGets
<1> QED
  BY <1>2, <1>8

\* There is no element to set.
LEMMA SetFindsNoneStore ==
  ASSUME NEW home, Clear(home), SetFindsNone
  PROVE  StoreStep /\ Told(heap', call')
<1>1. /\ heap' = heap /\ call.op = "set" /\ ~Before /\ call' = NoCall /\ call.next_node = Null
      /\ reply' = Reply(call.op, call.c, call.index, 0)
  BY DEF SetFindsNone, Replies
<1>2. Told(heap', call')
  BY <1>1, ToldEnds DEF Clear
<1>3. Searching
  BY <1>1 DEF Searching
<1>4. call.index \in Indices /\ call.c \in TermsIn(heap) /\ call.index >= Len(HeldIn(heap, call.c))
  BY <1>1, <1>3, SearchFinds DEF Clear, Told, AskedOK
<1>5. StoreStep
  BY <1>1, <1>4, StoreRefuses
<1> QED
  BY <1>2, <1>5

\* The terms the client knows of are of the types it makes.
LEMMA KnownTerms ==
  ASSUME NEW home, Clear(home), NEW type \in {"list", "dict", "tuple"}, NEW c \in Known(type)
  PROVE  c \in DOMAIN heap /\ heap[c].type = type /\ c \in TermsIn(heap)
<1>1. c \in DOMAIN heap /\ heap[c].type = type
  BY KnownIs DEF Clear
<1>2. Typed(heap)
  BY DEF Clear, Told
<1> QED
  BY <1>1, <1>2 DEF Typed, TermsIn

\* The client's own terms, too, and nothing holds them.
LEMMA OwnTerms ==
  ASSUME NEW home, Clear(home), NEW d \in client
  PROVE  d \in TermsIn(heap) /\ d \in Int /\ d # Null /\ Free(heap, d) /\ heap[d].type \in DataTypes
<1>1. d \in Int /\ d # Null /\ Free(heap, d) /\ heap[d].type \in DataTypes /\ d \in DOMAIN heap
  BY RootsAre DEF Clear
<1> QED
  BY <1>1 DEF TermsIn

\* A tuple has as many elements as it says.
LEMMA TupleElements ==
  ASSUME NEW home, Clear(home), NEW c \in Known("tuple"), NEW index \in Indices
  PROVE  /\ IsTuple(heap, c, Struct(c), heap[Struct(c)].kids[1])
         /\ HeldIn(heap, c) = Elements(c) /\ Elements(c) = heap[heap[Struct(c)].kids[1]].kids
         /\ Len(HeldIn(heap, c)) \in Nat /\ index \in Nat
         /\ InTuple(c, index) <=> index < Len(HeldIn(heap, c))
<1>1. c \in DOMAIN heap /\ heap[c].type = "tuple"
  BY KnownTerms
<1>2. heap \in Seq(Cell) /\ Shaped(heap)
  BY DEF Clear, Readable
<1>3. IsTuple(heap, c, Struct(c), heap[Struct(c)].kids[1])
  BY <1>1, <1>2, TupleIs DEF Struct
<1>4. PICK e : e = heap[Struct(c)].kids[1]
  OBVIOUS
<1>5. e \in DOMAIN heap /\ Len(heap[e].kids) = heap[Struct(c)].size /\ HeldIn(heap, c) = heap[e].kids
  BY <1>3, <1>4 DEF IsTuple
<1>6. Len(heap[e].kids) \in Nat
  BY <1>2, <1>5, CellIs
<1> QED
  BY <1>3, <1>4, <1>5, <1>6, ContainersAssumption DEF Elements, InTuple

\* An element of a tuple is asked for.
LEMMA TupleGetStore ==
  ASSUME NEW home, Clear(home), NEW c \in Known("tuple"), NEW index \in Indices, bert_tuple_get(c, index)
  PROVE  StoreStep /\ Told(heap', call')
<1>1. /\ heap' = heap /\ call' = call
      /\ reply' = Reply("get", c, index, IF InTuple(c, index) THEN Elements(c)[index + 1] ELSE Null)
  BY DEF bert_tuple_get
<1>2. Told(heap', call')
  BY <1>1, ToldEnds DEF Clear
<1>3. c \in TermsIn(heap) /\ HeldIn(heap, c) = Elements(c)
      /\ (InTuple(c, index) <=> index < Len(HeldIn(heap, c)))
  BY KnownTerms, TupleElements
<1>4. reply' = Reply("get", c, index, IF index < Len(HeldIn(heap, c)) THEN HeldIn(heap, c)[index + 1] ELSE Null)
  BY <1>1, <1>3
<1>5. StoreStep
  BY <1>1, <1>3, <1>4, StoreGets
<1> QED
  BY <1>2, <1>5

\* A tuple has no element in this place.
LEMMA TupleRefusesStore ==
  ASSUME NEW home, Clear(home), NEW c \in Known("tuple"), NEW index \in Indices,
         TupleSetRefuses(c, index)
  PROVE  StoreStep /\ Told(heap', call')
<1>1. heap' = heap /\ call' = call /\ reply' = Reply("set", c, index, 0) /\ ~InTuple(c, index)
  BY DEF TupleSetRefuses
<1>2. Told(heap', call')
  BY <1>1, ToldEnds DEF Clear
<1>3. c \in TermsIn(heap) /\ index >= Len(HeldIn(heap, c))
  BY <1>1, KnownTerms, TupleElements
<1>4. StoreStep
  BY <1>1, <1>3, StoreRefuses
<1> QED
  BY <1>2, <1>4

\* malloc fails, and nothing is appended.
LEMMA AppendFailsStore ==
  ASSUME NEW home, Clear(home), NEW c \in Known("list") \union Known("dict"), AppendFails(c)
  PROVE  StoreStep /\ Told(heap', call')
<1>1. heap' = heap /\ call' = call /\ reply' = Reply("append", c, 0, BERT_ERRNO_MALLOC)
  BY DEF AppendFails
<1>2. Told(heap', call')
  BY <1>1, ToldEnds DEF Clear
<1>3. c \in TermsIn(heap)
  BY KnownTerms
<1>4. StoreStep
  BY <1>1, <1>3, StoreExtendFails
<1> QED
  BY <1>2, <1>4

\* Where blocks are left or freed, what was told of the heap still is.
LEMMA ToldDestroyed ==
  ASSUME NEW h, Readable(h), Sound(h), Typed(h), NEW roots \in Seq(Int), AllFree(h, Range(roots)),
         NEW g, g = Destroyed(h, roots), Shaped(g)
  PROVE  Told(g, NoCall)
<1>1. Widths(g) /\ DOMAIN g = DOMAIN h /\ \A q \in DOMAIN h : g[q] = h[q] \/ g[q] = Freed
  BY WidthsDestroyed
<1>2. Freed.type = "freed"
  BY DEF Freed
<1>3. Typed(g)
  BY <1>1, <1>2 DEF Typed
<1> QED
  BY <1>1, <1>3, NoCallTold

\* A term is destroyed.
LEMMA DestroyStore ==
  ASSUME NEW home, Clear(home), NEW d \in client, bert_data_destroy(d)
  PROVE  StoreStep /\ Told(heap', call')
<1>1. /\ Idle /\ heap' = Destroyed(heap, <<d>>) /\ call' = call /\ reply' = Reply("destroy", d, 0, Null)
  BY DEF bert_data_destroy, Destroying
<1>2. InOrder(heap, client, call, dropped, home) /\ Readable(heap) /\ Sound(heap) /\ Typed(heap)
  BY DEF Clear, InOrder, HeapOK, Told
<1>3. InOrder(heap', client', call', dropped', home)
  BY <1>2, DestroyStep
<1>4. Shaped(heap')
  BY <1>3 DEF InOrder, HeapOK
<1>5. d \in TermsIn(heap) /\ d \in Int /\ Free(heap, d)
  BY OwnTerms
<1>6. PICK roots : roots = <<d>>
  OBVIOUS
<1>7. roots \in Seq(Int) /\ Range(roots) = {d}
  BY <1>5, <1>6 DEF Range
<1>8. AllFree(heap, Range(roots)) /\ Range(roots) \in SUBSET Int
  BY <1>5, <1>7 DEF AllFree
<1>9. Told(heap', NoCall)
  BY <1>1, <1>2, <1>4, <1>6, <1>7, <1>8, ToldDestroyed
<1>10. Told(heap', call')
  BY <1>1, <1>9 DEF Idle
<1>11. PICK f : f = ContentIn(heap)
  OBVIOUS
<1>12. ContentIn(heap') = Restrict(f, TermsIn(heap) \ Reach(heap, {d}))
  BY <1>1, <1>2, <1>6, <1>7, <1>8, <1>11, DestroyedContent
<1>13. HoldsIn(f, d) = TermsIn(heap) \intersect Reach(heap, {d})
  BY <1>2, <1>5, <1>11, HoldsIs
<1>14. DOMAIN f = TermsIn(heap)
  BY <1>11 DEF ContentIn
<1>15. TermsIn(heap) \ Reach(heap, {d}) = DOMAIN f \ HoldsIn(f, d)
  BY <1>13, <1>14
<1>16. ContentIn(heap') = LeftIn(ContentIn(heap), d)
  BY <1>11, <1>12, <1>15 DEF LeftIn
<1>17. StoreStep
  BY <1>1, <1>5, <1>11, <1>16, StoreDestroys
<1> QED
  BY <1>10, <1>17

\* An element is replaced, in a node or in the elements of a tuple.
LEMMA SetInPlace ==
  ASSUME NEW home, Clear(home), call.got = << >>,
         NEW p, NEW k, DataPlace(heap, p, k), NEW d \in client,
         NEW c \in TermsIn(heap), p \in Parts(heap, c), NEW index \in Indices,
         index < Len(HeldIn(heap, c)), HeldIn(heap, c)[index + 1] = heap[p].kids[k],
         PutsIn(heap, p, k, d, c, index + 1),
         heap' = Replaced(heap, p, k, d), Shaped(heap'),
         reply' = Reply("set", c, index, 1), call' = NoCall
  PROVE  StoreStep /\ Told(heap', call')
<1>1. /\ InOrder(heap, client, call, dropped, home) /\ HeapOK(heap, home) /\ Readable(heap)
      /\ Shaped(heap) /\ heap \in Seq(Cell) /\ Typed(heap)
  BY DEF Clear, InOrder, Readable, Told
<1>2. d \in Int /\ Free(heap, d) /\ heap[d].type \in DataTypes /\ d \in TermsIn(heap)
  BY OwnTerms
<1>3. PICK starts : starts = client \union dropped
  OBVIOUS
<1>4. starts \in SUBSET Int /\ AllFree(heap, starts)
  BY <1>1, <1>3, RootsAre
<1>5. NoLoss(heap, starts)
  <2>1. Range(call.got) = {}
    BY RangeOfNothing
  <2>2. client \union Range(call.got) \union dropped = starts
    BY <1>3, <2>1
  <2> QED
    BY <1>1, <2>2 DEF InOrder
<1>6. LedTo(heap, p)
  <2>1. p \in DOMAIN heap /\ heap[p].type \notin {"freed", "text"}
    BY DEF DataPlace
  <2>2. p \in Reach(heap, starts)
    BY <1>1, <1>4, <1>5, <2>1, AllReached
  <2> QED
    BY <1>4, <2>2 DEF LedTo
<1>7. PICK old : old = heap[p].kids[k]
  OBVIOUS
<1>9. PICK i : i = index + 1
  OBVIOUS
<1>10. PutsIn(heap, p, k, d, c, i)
  BY <1>9
<1>11. /\ ContentIn(Replaced(heap, p, k, d)) = WithIn(LeftIn(ContentIn(heap), old), c, i, d)
       /\ DestroysOld(heap, p, k, d, old)
  <2>1. HeapOK(heap, home) /\ Readable(heap)
    BY <1>1
  <2>2. d \in Int /\ Free(heap, d) /\ heap[d].type \in DataTypes
    BY <1>2
  <2>3. ContentIn(Replaced(heap, p, k, d)) = WithIn(LeftIn(ContentIn(heap), old), c, i, d)
    BY <1>6, <1>7, <1>10, <2>1, <2>2, ReplacedContent
  <2>4. DestroysOld(heap, p, k, d, old)
    BY <1>6, <1>7, <1>10, <2>1, <2>2, ReplacedContent
  <2> QED
    BY <2>3, <2>4
<1>12. ContentIn(heap') = WithIn(LeftIn(ContentIn(heap), HeldIn(heap, c)[index + 1]), c, index + 1, d)
  BY <1>7, <1>9, <1>11
<1>13. StoreStep
  BY <1>2, <1>12, StoreSets
<1>14. PICK g : /\ PutIn(heap, g, p, k, d) /\ Readable(g) /\ Sound(g) /\ AllFree(g, {old})
                /\ heap' = Destroyed(g, <<old>>)
  BY <1>11 DEF DestroysOld
<1>15. Typed(g)
  <2>1. DOMAIN g = DOMAIN heap /\ \A q \in DOMAIN heap : g[q].type = heap[q].type
    BY <1>14 DEF PutIn
  <2> QED
    BY <1>1, <2>1 DEF Typed
<1>16. PICK roots : roots = <<old>>
  OBVIOUS
<1>17. roots \in Seq(Int) /\ Range(roots) = {old}
  <2>1. old \in Int
    BY <1>1, <1>7, PlaceHolds
  <2> QED
    BY <1>16, <2>1 DEF Range
<1>18. Told(heap', NoCall)
  BY <1>14, <1>15, <1>16, <1>17, ToldDestroyed
<1> QED
  BY <1>13, <1>18

\* An element of a list is replaced.
LEMMA SetStore ==
  ASSUME NEW home, Clear(home), SetReplaces, Shaped(heap')
  PROVE  StoreStep /\ Told(heap', call')
<1>1. /\ call.op = "set" /\ ~Before /\ call.next_node # Null /\ call' = NoCall
      /\ heap' = Replaced(heap, call.next_node, 1, call.data)
      /\ reply' = Reply("set", call.c, call.index, 1)
  BY DEF SetReplaces, Replies
<1>2. Searching
  BY <1>1 DEF Searching
<1>3. /\ call.index \in Indices /\ CallOK(heap, client, call, home) /\ heap \in Seq(Cell) /\ Shaped(heap)
      /\ Readable(heap) /\ Sound(heap)
  BY <1>1 DEF Clear, Told, AskedOK, InOrder, HeapOK
<1>4. call.data \in client /\ call.got = << >> /\ call.next_node \in DOMAIN heap
      /\ heap[call.next_node].type = "node"
  BY <1>1, <1>3 DEF CallOK
<1>5. call.c \in TermsIn(heap) /\ call.c \in DOMAIN heap /\ heap[call.c].type = "list"
  BY <1>1, <1>2, SearchFinds
<1>6. PICK s : /\ IsList(heap, call.c, heap[call.c].kids[1], s)
               /\ Len(HeldIn(heap, call.c)) = Len(s)
               /\ call.index < Len(s) /\ call.index + 1 \in DOMAIN s
               /\ call.next_node = s[call.index + 1]
               /\ HeldIn(heap, call.c)[call.index + 1] = heap[call.next_node].kids[1]
  BY <1>1, <1>2, SearchFinds
<1>7. PICK i \in DOMAIN s : i = call.index + 1
  BY <1>6
<1>8. DataPlace(heap, call.next_node, 1)
  <2>1. Len(heap[call.next_node].kids) \in {2, 3}
    BY <1>3, <1>4 DEF Shaped, Shape
  <2>2. \A m \in {2, 3} : 1 \in 1 .. m /\ 1 < m
    OBVIOUS
  <2>3. DOMAIN heap[call.next_node].kids = 1 .. Len(heap[call.next_node].kids)
    BY <1>3, <1>4, CellIs
  <2> QED
    BY <1>4, <2>1, <2>2, <2>3 DEF DataPlace
<1>9. call.next_node \in Parts(heap, call.c)
  <2>1. Parts(heap, call.c) = {call.c, heap[call.c].kids[1]} \union Range(s)
    BY <1>6 DEF IsList
  <2>2. s[i] \in Range(s)
    BY <1>7 DEF Range
  <2> QED
    BY <1>6, <1>7, <2>1, <2>2
<1>10. PutsIn(heap, call.next_node, 1, call.data, call.c, call.index + 1)
  <2>1. PICK l : l = heap[call.c].kids[1]
    OBVIOUS
  <2>2. IsList(heap, call.c, l, s) /\ call.next_node = s[i]
    BY <1>6, <1>7, <2>1
  <2>3. PutsIn(heap, call.next_node, 1, call.data, call.c, i)
    BY <1>3, <1>5, <2>2, PutInNode
  <2> QED
    BY <1>7, <2>3
<1>11. call.index < Len(HeldIn(heap, call.c))
  BY <1>6
<1> QED
  BY <1>1, <1>3, <1>4, <1>5, <1>6, <1>8, <1>9, <1>10, <1>11, SetInPlace

\* An element of a tuple is replaced.
LEMMA TupleSetStore ==
  ASSUME NEW home, Clear(home), NEW c \in Known("tuple"), NEW index \in Indices,
         TupleSetReplaces(c, index), Shaped(heap')
  PROVE  StoreStep /\ Told(heap', call')
<1>1. PICK e : e = heap[Struct(c)].kids[1]
  OBVIOUS
<1>2. PICK i : i = index + 1
  OBVIOUS
<1>3. /\ IsTuple(heap, c, Struct(c), e) /\ HeldIn(heap, c) = heap[e].kids
      /\ Len(HeldIn(heap, c)) \in Nat /\ index \in Nat
      /\ InTuple(c, index) <=> index < Len(HeldIn(heap, c))
  BY <1>1, TupleElements
<1>4. Idle /\ InTuple(c, index) /\ reply' = Reply("set", c, index, 1) /\ call' = call
  BY DEF TupleSetReplaces
<1>5. PICK d \in MayGive(c) : heap' = Replaced(heap, e, i, d)
  BY <1>1, <1>2 DEF TupleSetReplaces
<1>6. d \in client /\ call = NoCall /\ call.got = << >>
  BY <1>4, NoCallIs DEF MayGive, Idle
<1>7. c \in TermsIn(heap)
  BY KnownTerms
<1>8. heap \in Seq(Cell) /\ Readable(heap) /\ Sound(heap)
  BY DEF Clear, InOrder, HeapOK
<1>9. e \in DOMAIN heap /\ heap[e].type = "elements" /\ Parts(heap, c) = {c, Struct(c), e}
  BY <1>3 DEF IsTuple
<1>10. DOMAIN heap[e].kids = 1 .. Len(heap[e].kids)
  BY <1>8, <1>9, CellIs
<1>11. index < Len(HeldIn(heap, c))
  BY <1>3, <1>4
<1>12. i \in DOMAIN heap[e].kids
  <2>1. PICK m \in Nat : m = Len(HeldIn(heap, c))
    BY <1>3
  <2>2. i \in 1 .. m
    BY <1>2, <1>3, <1>11, <2>1
  <2> QED
    BY <1>3, <1>10, <2>1, <2>2
<1>13. DataPlace(heap, e, i)
  BY <1>9, <1>12 DEF DataPlace
<1>14. PutsIn(heap, e, i, d, c, i)
  <2>1. PICK t : t = Struct(c)
    OBVIOUS
  <2>2. IsTuple(heap, c, t, e)
    BY <1>3, <2>1
  <2> QED
    BY <1>7, <1>8, <1>12, <2>2, PutInElements
<1>15. HeldIn(heap, c)[index + 1] = heap[e].kids[i]
  BY <1>2, <1>3
<1>16. e \in Parts(heap, c)
  BY <1>9
<1>17. call' = NoCall
  BY <1>4, <1>6
<1>18. PutsIn(heap, e, i, d, c, index + 1)
  BY <1>2, <1>14
<1> QED
  BY <1>4, <1>5, <1>6, <1>7, <1>11, <1>13, <1>15, <1>16, <1>17, <1>18, SetInPlace

\* A block that is no list leaves the chains of lists as they are.
LEMMA AppendChained ==
  ASSUME NEW h \in Seq(Cell), Chained(h), NEW g \in Seq(Cell), NEW n, n = Len(h) + 1,
         DOMAIN g = 1 .. n, g[n].type \notin {"list_t", "dict_t"},
         \A q \in DOMAIN h : q \in DOMAIN g /\ g[q] = h[q]
  PROVE  /\ Chained(g)
         /\ \A p, s : IsChain(h, p, s) => IsChain(g, p, s)
<1>1. Len(h) \in Nat /\ DOMAIN h = 1 .. Len(h) /\ Len(g) = Len(h) + 1
  <2>1. n \in Nat /\ Len(g) \in Nat /\ DOMAIN g = 1 .. Len(g)
    OBVIOUS
  <2> QED
    BY <2>1
<1>2. ASSUME NEW p, NEW s, IsChain(h, p, s) PROVE IsChain(g, p, s)
  <2>1. /\ s \in Seq(Int) /\ Len(s) <= Len(h)
        /\ \A i \in DOMAIN s : s[i] # Null /\ s[i] \in DOMAIN h /\ h[s[i]].type = "node"
        /\ p = At(s, 1)
        /\ \A i \in DOMAIN s : Last(h[s[i]].kids) = At(s, i + 1)
    BY <1>2 DEF IsChain
  <2>2. Len(s) <= Len(g)
    BY <1>1, <2>1
  <2>3. \A i \in DOMAIN s : s[i] \in DOMAIN g /\ g[s[i]] = h[s[i]]
    BY <2>1
  <2> QED
    BY <2>1, <2>2, <2>3 DEF IsChain
<1>3. Chained(g)
  <2> SUFFICES ASSUME NEW l \in DOMAIN g, g[l].type \in {"list_t", "dict_t"}
               PROVE  \E s : IsChain(g, g[l].kids[1], s)
    BY DEF Chained
  <2>1. l \in DOMAIN h
    BY <1>1
  <2>2. g[l] = h[l]
    BY <2>1
  <2>3. PICK s : IsChain(h, h[l].kids[1], s)
    BY <2>1, <2>2 DEF Chained
  <2> QED
    BY <1>2, <2>2, <2>3
<1> QED
  BY <1>2, <1>3

\* Behind the last node of its list, or in the list itself: there the new node is linked.
LEMMA PlaceIsLast ==
  ASSUME NEW home, HeapOK(heap, home), TailIsLast,
         NEW l \in DOMAIN heap, heap[l].type \in {"list_t", "dict_t"},
         NEW s, IsChain(heap, heap[l].kids[1], s), NEW o, o = LinkPlace(heap, l)
  PROVE  (IF Len(s) = 0 THEN o = l ELSE o = s[Len(s)]) /\ o \in DOMAIN heap
<1>1. heap \in Seq(Cell) /\ Homed(heap, home) /\ Len(heap) \in Nat
  BY DEF HeapOK
<1>2. heap[l].kids[1] = Null <=> heap[l].tail = Null
  BY <1>1 DEF Homed
<1>3. s \in Seq(Int) /\ heap[l].kids[1] = At(s, 1) /\ \A i \in DOMAIN s : s[i] # Null /\ s[i] \in DOMAIN heap
  BY DEF IsChain
<1>4. Len(s) \in Nat /\ DOMAIN s = 1 .. Len(s)
  BY <1>3
<1>5. CASE Len(s) = 0
  <2>1. 1 \notin DOMAIN s
    BY <1>4, <1>5
  <2> QED
    BY <1>2, <1>3, <1>5, <2>1 DEF At, LinkPlace
<1>6. CASE Len(s) # 0
  <2>1. 1 \in DOMAIN s /\ Len(s) \in DOMAIN s
    BY <1>4, <1>6
  <2>2. heap[l].tail # Null
    BY <1>2, <1>3, <2>1 DEF At
  <2>3. heap[l].tail = Last(Chain(heap[l].kids[1]))
    BY <2>2 DEF TailIsLast
  <2>4. ChainIn(heap, heap[l].kids[1]) = s
    BY <1>1, ChainUnique
  <2>5. Chain(heap[l].kids[1]) = ChainIn(heap, heap[l].kids[1])
    BY DEF Chain, ChainIn, NextOf, NextIn
  <2>6. heap[l].tail = s[Len(s)]
    BY <2>3, <2>4, <2>5 DEF Last
  <2> QED
    BY <1>3, <1>6, <2>1, <2>2, <2>6 DEF LinkPlace
<1> QED
  BY <1>5, <1>6

\* The heap with the new node, before it is linked: the terms hold what they held.
LEMMA NodeMade ==
  ASSUME NEW home, Clear(home),
         NEW elements \in Seq(Int), Len(elements) \in {1, 2}, Range(elements) \subseteq client,
         Distinct(elements), NEW with, with = WithNode(elements)
  PROVE  /\ AppendedWell(heap, with, home, Node(elements)) /\ Readable(with) /\ Sound(with) /\ Typed(with)
         /\ ContentIn(with) = ContentIn(heap)
         /\ \A p, s : IsChain(heap, p, s) => IsChain(with, p, s)
<1>1. /\ HeapOK(heap, home) /\ Readable(heap) /\ heap \in Seq(Cell) /\ Shaped(heap) /\ Sound(heap)
      /\ Chained(heap) /\ Widths(heap) /\ Typed(heap)
  BY DEF Clear, InOrder, HeapOK, Readable, Told
<1>2. PICK node : node = Node(elements)
  OBVIOUS
<1>3. node \in Cell /\ node.type = "node"
  BY <1>2, NodeIs
<1>4. CellWell(heap, node)
  <2>1. \A q \in client : Free(heap, q) /\ q # Null /\ heap[q].type \in DataTypes
    BY RootsAre DEF Clear
  <2>2. Null \notin Range(elements) /\ AllFree(heap, Range(elements)) /\ AllData(heap, Range(elements))
    BY <2>1 DEF AllFree, AllData
  <2> QED
    BY <1>1, <1>2, <2>2, NodeWell
<1>5. with = Append(heap, node)
  BY <1>2 DEF WithNode
<1>6. AppendedWell(heap, with, home, node)
  BY <1>1, <1>4, <1>5, AppendKeeps DEF CellWell
<1>7. HeapOK(with, home)
  BY <1>6 DEF AppendedWell
<1>8. Shaped(with) /\ Sound(with)
  BY <1>7 DEF HeapOK
<1>9. PICK n : n = Len(heap) + 1
  OBVIOUS
<1>10. /\ Widths(with) /\ with \in Seq(Cell) /\ with[n] = node /\ DOMAIN with = 1 .. n
       /\ \A q \in DOMAIN heap : q \in DOMAIN with /\ with[q] = heap[q]
  <2>1. heap \in Seq(Cell) /\ Widths(heap) /\ Shaped(heap) /\ Sound(heap)
    BY <1>1
  <2>2. Shaped(with)
    BY <1>8
  <2>3. Widths(with)
    BY <1>4, <1>5, <2>1, <2>2, WidthsAppended
  <2> QED
    BY <1>6, <1>7, <1>9, <2>3 DEF AppendedWell, HeapOK
<1>11. Chained(with) /\ \A p, s : IsChain(heap, p, s) => IsChain(with, p, s)
  <2>1. with[n].type \notin {"list_t", "dict_t"}
    BY <1>3, <1>10
  <2> QED
    BY <1>1, <1>9, <1>10, <2>1, AppendChained
<1>12. Typed(with)
  <2>1. \A q \in DOMAIN with : q \in DOMAIN heap \/ q = n
    BY <1>1, <1>9, <1>10
  <2> QED
    BY <1>1, <1>3, <1>10, <2>1 DEF Typed
<1>13. ContentIn(with) = ContentIn(heap)
  <2>1. node.type \notin DataTypes
    BY <1>3, DataAre
  <2> QED
    BY <1>1, <1>3, <1>5, <1>9, <2>1, AppendedContent
<1> QED
  BY <1>2, <1>6, <1>8, <1>10, <1>11, <1>12, <1>13 DEF Readable

\* The new node is linked behind the last of the list or dict.
LEMMA NodeLinked ==
  ASSUME NEW home, Clear(home), TailIsLast,
         NEW c \in TermsIn(heap), heap[c].type \in {"list", "dict"},
         NEW elements \in Seq(Int), Len(elements) = Width(heap, c), Range(elements) \subseteq client,
         Distinct(elements), NEW with, with = WithNode(elements), NEW g, g = Linked(c, elements)
  PROVE  /\ Len(elements) = Width(with, c) /\ with[c] = heap[c] /\ c \in TermsIn(with)
         /\ \A j \in 1 .. Len(elements) : with[NewId].kids[j] = elements[j]
         /\ with[NewId].type = "node" /\ DOMAIN with = 1 .. Len(heap) + 1
         /\ \E l, s, o : LinkIn(with, g, c, l, s, NewId, o)
<1>1. /\ HeapOK(heap, home) /\ heap \in Seq(Cell) /\ Shaped(heap) /\ Chained(heap) /\ Len(heap) \in Nat
      /\ DOMAIN heap = 1 .. Len(heap)
  BY DEF Clear, InOrder, HeapOK, Readable
<1>2. c \in DOMAIN heap /\ heap[c].type \in DataTypes
  BY DEF TermsIn
<1>3. Len(elements) \in {1, 2}
  BY DEF Width
<1>4. /\ AppendedWell(heap, with, home, Node(elements)) /\ Readable(with)
      /\ \A p, s : IsChain(heap, p, s) => IsChain(with, p, s)
  BY <1>3, NodeMade
<1>5. PICK node : node = Node(elements)
  OBVIOUS
<1>6. /\ node.type = "node" /\ Len(node.kids) = Len(elements) + 1 /\ Last(node.kids) = Null
      /\ \A j \in 1 .. Len(elements) : node.kids[j] = elements[j]
  BY <1>3, <1>5, NodeIs
<1>7. PICK n : n = NewId
  OBVIOUS
<1>8. n = Len(heap) + 1
  BY <1>7 DEF NewId
<1>9. /\ with \in Seq(Cell) /\ Len(with) = n /\ DOMAIN with = 1 .. n /\ with[n] = node
      /\ \A q \in DOMAIN heap : q \in DOMAIN with /\ with[q] = heap[q]
  BY <1>4, <1>5, <1>8 DEF AppendedWell, HeapOK
<1>10. n \notin DOMAIN heap /\ n # Null /\ n \in DOMAIN with
  BY <1>1, <1>8, <1>9 DEF Null
<1>11. PICK l : l = Struct(c)
  OBVIOUS
<1>12. PICK o : o = LinkPlace(heap, l)
  OBVIOUS
<1>13. /\ l \in DOMAIN heap /\ heap[l].type \in {"list_t", "dict_t"} /\ with[l] = heap[l]
       /\ Links(with, g, l, n, LinkPlace(with, l))
  BY <1>1, <1>2, <1>4, <1>7, <1>11, LinkedIs
<1>14. LinkPlace(with, l) = o
  BY <1>12, <1>13 DEF LinkPlace
<1>15. PICK s : IsList(heap, c, l, s)
  BY <1>1, <1>2, <1>11, ListIs DEF Struct
<1>16. IsChain(heap, heap[l].kids[1], s)
  BY <1>15 DEF IsList
<1>17. (IF Len(s) = 0 THEN o = l ELSE o = s[Len(s)]) /\ o \in DOMAIN heap
  BY <1>1, <1>12, <1>13, <1>16, PlaceIsLast
<1>18. with[c] = heap[c] /\ c \in DOMAIN with
  BY <1>2, <1>9
<1>19. IsChain(with, with[l].kids[1], s)
  BY <1>4, <1>13, <1>16
<1>20. IsList(with, c, l, s)
  <2>1. PICK t : IsList(with, c, l, t)
    BY <1>4, <1>11, <1>18, ListIs DEF Struct, Readable
  <2>2. IsChain(with, with[l].kids[1], t)
    BY <2>1 DEF IsList
  <2>3. Len(with) \in Nat
    BY <1>9
  <2>4. s = t
    BY <1>19, <2>2, <2>3, ChainUnique
  <2> QED
    BY <2>1, <2>4
<1>21. Width(with, c) = Width(heap, c)
  BY <1>18 DEF Width
<1>22. Len(s) < Len(with)
  <2>1. Len(s) <= Len(heap) /\ s \in Seq(Int)
    BY <1>16 DEF IsChain
  <2>2. Len(s) \in Nat
    BY <2>1
  <2> QED
    BY <1>1, <1>8, <1>9, <2>1, <2>2
<1>23. n # o /\ n # l
  BY <1>10, <1>13, <1>17
<1>24. LinkIn(with, g, c, l, s, n, o)
  <2>1. Last(with[n].kids) = Null /\ Len(with[n].kids) = Width(with, c) + 1 /\ with[n].type = "node"
    BY <1>6, <1>9, <1>21
  <2> QED
    BY <1>9, <1>10, <1>13, <1>14, <1>17, <1>20, <1>22, <1>23, <2>1 DEF LinkIn
<1>25. c \in TermsIn(with)
  BY <1>2, <1>18 DEF TermsIn
<1> QED
  BY <1>6, <1>7, <1>8, <1>9, <1>18, <1>21, <1>24, <1>25

\* Appending extends what the list or dict holds.
LEMMA AppendsMore ==
  ASSUME NEW home, Clear(home), TailIsLast,
         NEW c \in TermsIn(heap), heap[c].type \in {"list", "dict"},
         NEW elements \in Seq(Int), Len(elements) = Width(heap, c), Range(elements) \subseteq client,
         Distinct(elements), Appends(c, elements)
  PROVE  /\ ContentIn(heap') = WithMore(ContentIn(heap), c, elements)
         /\ reply' = Reply("append", c, 0, BERT_SUCCESS) /\ Told(heap', call')
<1>1. /\ heap' = Linked(c, elements) /\ call' = call /\ Idle
      /\ reply' = Reply("append", c, 0, BERT_SUCCESS)
  BY DEF Appends
<1>2. PICK with : with = WithNode(elements)
  OBVIOUS
<1>3. PICK g : g = Linked(c, elements)
  OBVIOUS
<1>4. Len(elements) \in {1, 2}
  BY DEF Width
<1>5. Readable(with) /\ Sound(with) /\ Typed(with) /\ ContentIn(with) = ContentIn(heap)
  BY <1>2, <1>4, NodeMade
<1>6. /\ Len(elements) = Width(with, c) /\ with[c] = heap[c] /\ c \in TermsIn(with)
      /\ \A j \in 1 .. Len(elements) : with[NewId].kids[j] = elements[j]
      /\ \E l, s, o : LinkIn(with, g, c, l, s, NewId, o)
  BY <1>2, <1>3, NodeLinked
<1>7. PICK n : n = NewId
  OBVIOUS
<1>8. PICK l, s, o : LinkIn(with, g, c, l, s, n, o)
  BY <1>6, <1>7
<1>9. with[c].type \in {"list", "dict"} /\ \A j \in 1 .. Len(elements) : with[n].kids[j] = elements[j]
  BY <1>6, <1>7
<1>10. ContentIn(g) = WithMore(ContentIn(with), c, elements)
  <2>1. Readable(with) /\ Sound(with) /\ c \in TermsIn(with) /\ Len(elements) = Width(with, c)
    BY <1>5, <1>6
  <2> QED
    BY <1>8, <1>9, <2>1, LinkContent
<1>11. Widths(g)
  BY <1>5, <1>8, <1>9, LinkWidths DEF Readable
<1>12. Typed(g)
  <2>1. DOMAIN g = DOMAIN with /\ \A q \in DOMAIN with : g[q].type = with[q].type
    BY <1>8, LinkChanges
  <2> QED
    BY <1>5, <2>1 DEF Typed
<1>13. Told(g, NoCall)
  BY <1>11, <1>12, NoCallTold
<1> QED
  BY <1>1, <1>3, <1>5, <1>10, <1>13 DEF Idle

\* bert_list_append gives one term, bert_dict_append two.
LEMMA AppendStore ==
  ASSUME NEW home, Clear(home), TailIsLast,
         NEW c, \/ c \in Known("list") /\ bert_list_append(c)
                \/ c \in Known("dict") /\ bert_dict_append(c)
  PROVE  StoreStep /\ Told(heap', call')
<1>1. \A d \in client : d \in TermsIn(heap) /\ d \in Int /\ d # Null
  BY OwnTerms
<1>2. CASE c \in Known("list") /\ bert_list_append(c)
  <2>1. PICK d \in MayGive(c) : Appends(c, <<d>>)
    BY <1>2 DEF bert_list_append
  <2>2. d \in client /\ d \in Int /\ d \in TermsIn(heap)
    BY <1>1, <2>1 DEF MayGive
  <2>3. PICK s : s = <<d>>
    OBVIOUS
  <2>4. s \in Seq(Int) /\ Len(s) = 1 /\ DOMAIN s = {1} /\ s[1] = d
    BY <2>2, <2>3
  <2>5. Range(s) \subseteq client /\ Distinct(s)
    BY <2>2, <2>4 DEF Range, Distinct
  <2>6. c \in TermsIn(heap) /\ heap[c].type = "list"
    BY <1>2, KnownTerms
  <2>7. Len(s) = Width(heap, c) /\ heap[c].type \in {"list", "dict"}
    BY <2>4, <2>6 DEF Width
  <2>8. Appends(c, s)
    BY <2>1, <2>3
  <2>9. /\ ContentIn(heap') = WithMore(ContentIn(heap), c, s)
        /\ reply' = Reply("append", c, 0, BERT_SUCCESS) /\ Told(heap', call')
    BY <2>4, <2>5, <2>6, <2>7, <2>8, AppendsMore
  <2> QED
    BY <2>2, <2>3, <2>6, <2>9, StoreExtends
<1>3. CASE c \in Known("dict") /\ bert_dict_append(c)
  <2>1. PICK k \in MayGive(c), v \in MayGive(c) : k # v /\ Appends(c, <<k, v>>)
    BY <1>3 DEF bert_dict_append
  <2>2. k \in client /\ k \in Int /\ k \in TermsIn(heap) /\ v \in client /\ v \in Int /\ v \in TermsIn(heap)
    BY <1>1, <2>1 DEF MayGive
  <2>3. PICK s : s = <<k, v>>
    OBVIOUS
  <2>4. s \in Seq(Int) /\ Len(s) = 2 /\ DOMAIN s = {1, 2} /\ s[1] = k /\ s[2] = v
    BY <2>2, <2>3
  <2>5. Range(s) \subseteq client /\ Distinct(s)
    BY <2>1, <2>2, <2>4 DEF Range, Distinct
  <2>6. c \in TermsIn(heap) /\ heap[c].type = "dict"
    BY <1>3, KnownTerms
  <2>7. Len(s) = Width(heap, c) /\ heap[c].type \in {"list", "dict"}
    BY <2>4, <2>6 DEF Width
  <2>8. Appends(c, s)
    BY <2>1, <2>3
  <2>9. /\ ContentIn(heap') = WithMore(ContentIn(heap), c, s)
        /\ reply' = Reply("append", c, 0, BERT_SUCCESS) /\ Told(heap', call')
    BY <2>4, <2>5, <2>6, <2>7, <2>8, AppendsMore
  <2> QED
    BY <2>1, <2>2, <2>3, <2>6, <2>9, StoreExtends
<1> QED
  BY <1>2, <1>3

(***************************************************************************)
(* The constructors: a term is there when its last block is.               *)
(***************************************************************************)

\* what bert_data_t's enumeration has no type for
PartKinds == {"text", "elements", "tuple_t", "list_t", "dict_t"}

\* A block of one kind after the other is made, and at last the term.
LEMMA KindIs ==
  ASSUME NEW home, Clear(home), call.op = "create",
         NEW kind, kind = Allocations(call.type)[Len(call.got) + 1]
  PROVE  /\ Fresh(kind).type = kind /\ call.type \in DataTypes
         /\ kind \in PartKinds \/ kind = call.type
         /\ kind = call.type /\ kind = "tuple" => Len(call.got) = 2
         /\ kind = call.type /\ kind \in {"list", "dict"} => Len(call.got) = 1
<1>1. InOrder(heap, client, call, dropped, home)
  BY DEF Clear
<1>2. call \in Calls /\ call.type \in DataTypes /\ GotOK(heap, call)
  BY <1>1 DEF InOrder, CallOK
<1>3. PICK type : type = call.type
  OBVIOUS
<1>4. PICK n : n = Len(call.got)
  OBVIOUS
<1>5. n \in Nat
  <2>1. call.got \in Seq(Int)
    BY <1>2 DEF Calls
  <2>2. \A s \in Seq(Int) : Len(s) \in Nat
    OBVIOUS
  <2> QED
    BY <1>4, <2>1, <2>2
<1>6. kind = Allocations(type)[n + 1] /\ n < Len(Allocations(type)) /\ type \in DataTypes
  BY <1>2, <1>3, <1>4 DEF GotOK
<1>7. Fresh(kind).type = kind
  BY DEF Fresh, Block
<1>8. \A m \in {1, 2, 3} : n < m => n \in 0 .. m - 1
  BY <1>5
<1>9. CASE type = "int"
  <2>1. n = 0 /\ kind = type
    BY <1>5, <1>6, <1>9, AllocationsAre
  <2> QED
    BY <1>2, <1>3, <1>7, <1>9, <2>1
<1>10. CASE IsText(type)
  <2>1. n = 0 \/ n = 1
    BY <1>5, <1>6, <1>10, AllocationsAre
  <2>2. kind = "text" \/ kind = type
    BY <1>6, <1>10, <2>1, AllocationsAre
  <2>3. type \notin {"tuple", "list", "dict"}
    BY <1>10 DEF IsText, IsShort, IsLong
  <2> QED
    BY <1>2, <1>3, <1>7, <2>2, <2>3 DEF PartKinds
<1>11. CASE type = "tuple"
  <2>1. /\ Len(Allocations(type)) = 3 /\ Allocations(type)[1] = "elements"
        /\ Allocations(type)[2] = "tuple_t" /\ Allocations(type)[3] = type
    BY <1>6, <1>11, AllocationsAre
  <2>2. n = 0 \/ n = 1 \/ n = 2
    BY <1>5, <1>6, <2>1
  <2>3. CASE n = 0
    <3>1. kind = "elements"
      BY <1>6, <2>1, <2>3
    <3> QED
      BY <1>2, <1>3, <1>7, <1>11, <3>1 DEF PartKinds
  <2>4. CASE n = 1
    <3>1. kind = "tuple_t"
      BY <1>6, <2>1, <2>4
    <3> QED
      BY <1>2, <1>3, <1>7, <1>11, <3>1 DEF PartKinds
  <2>5. CASE n = 2
    <3>1. kind = type
      BY <1>6, <2>1, <2>5
    <3> QED
      BY <1>2, <1>3, <1>4, <1>7, <1>11, <2>5, <3>1
  <2> QED
    BY <2>2, <2>3, <2>4, <2>5
<1>12. CASE type \in {"list", "dict"}
  <2>1. /\ Len(Allocations(type)) = 2 /\ Allocations(type)[1] \in {"list_t", "dict_t"}
        /\ Allocations(type)[2] = type
    BY <1>6, <1>12, AllocationsAre
  <2>2. n = 0 \/ n = 1
    BY <1>5, <1>6, <2>1
  <2>3. CASE n = 0
    <3>1. kind \in {"list_t", "dict_t"}
      BY <1>6, <2>1, <2>3
    <3> QED
      BY <1>2, <1>3, <1>7, <1>12, <3>1 DEF PartKinds
  <2>4. CASE n = 1
    <3>1. kind = type
      BY <1>6, <2>1, <2>4
    <3> QED
      BY <1>2, <1>3, <1>4, <1>7, <1>12, <2>4, <3>1
  <2> QED
    BY <2>2, <2>3, <2>4
<1> QED
  BY <1>6, <1>9, <1>10, <1>11, <1>12, AllocationsAre

\* What a new tuple holds: null in each place.
LEMMA NewTuple ==
  ASSUME NEW home, Clear(home), call.op = "create", call.type = "tuple", Len(call.got) = 2,
         NEW g, NEW n, n \notin DOMAIN heap, g[n] = Fresh("tuple"), \A q \in DOMAIN heap : g[q] = heap[q]
  PROVE  HeldIn(g, n) = Nulls(call.size) /\ call.size \in Sizes
<1>1. call \in Calls /\ GotOK(heap, call) /\ heap \in Seq(Cell) /\ AskedOK(call)
  BY DEF Clear, InOrder, CallOK, Told, Readable
<1>2. call.size \in Sizes
  BY <1>1 DEF AskedOK
<1>3. PICK got \in Seq(Int) : got = call.got
  BY <1>1 DEF Calls
<1>4. got # << >> /\ Last(got) = got[2]
  <2>1. Len(got) = 2
    BY <1>3
  <2>2. Last(got) = got[2]
    BY <2>1 DEF Last
  <2>3. Len(<< >>) = 0 /\ 1 # 0 /\ 2 # 0
    OBVIOUS
  <2>4. got # << >>
    BY <2>1, <2>3, Zenon
  <2> QED
    BY <2>2, <2>4
<1>5. /\ Live(heap, got[1]) /\ Len(heap[got[1]].kids) = call.size
      /\ \A k \in DOMAIN heap[got[1]].kids : heap[got[1]].kids[k] = Null
      /\ Free(heap, got[2]) /\ heap[got[2]].kids = <<got[1]>>
  BY <1>1, <1>3, <1>4 DEF GotOK
<1>6. got[1] \in DOMAIN heap /\ got[2] \in DOMAIN heap
  BY <1>5 DEF Free, Live
<1>7. Fresh("tuple") = Block("tuple", <<got[2]>>, call.size)
  BY <1>3, <1>4, FreshIs
<1>8. g[n].type = "tuple" /\ g[n].kids[1] = got[2]
  BY <1>7 DEF Block
<1>9. g[got[2]].kids[1] = got[1] /\ g[got[1]] = heap[got[1]]
  BY <1>5, <1>6
<1>10. HeldIn(g, n) = heap[got[1]].kids
  BY <1>8, <1>9 DEF HeldIn
<1>11. PICK e : e = heap[got[1]].kids
  OBVIOUS
<1>12. e \in Seq(Int) /\ Len(e) = call.size /\ \A k \in DOMAIN e : e[k] = Null
  BY <1>1, <1>5, <1>6, <1>11, CellIs
<1>13. e = [k \in 1 .. Len(e) |-> e[k]] /\ DOMAIN e = 1 .. Len(e)
  BY <1>12
<1>14. e = Nulls(call.size)
  BY <1>12, <1>13 DEF Nulls
<1> QED
  BY <1>2, <1>10, <1>11, <1>14

\* No elements are none.
LEMMA NoNulls == Nulls(0) = << >>
<1>1. 1 .. 0 = {}
  OBVIOUS
<1>2. Nulls(0) \in Seq(Int) /\ Len(Nulls(0)) = 0
  BY DEF Nulls, Null
<1> QED
  BY <1>2

\* A new list or dict holds nothing.
LEMMA NewList ==
  ASSUME NEW home, Clear(home), call.op = "create", call.type \in {"list", "dict"}, Len(call.got) = 1,
         NEW g \in Seq(Cell), NEW n, n \notin DOMAIN heap, g[n] = Fresh(call.type),
         \A q \in DOMAIN heap : g[q] = heap[q]
  PROVE  HeldIn(g, n) = Nulls(0)
<1>1. call \in Calls /\ GotOK(heap, call)
  BY DEF Clear, InOrder, CallOK
<1>2. PICK got \in Seq(Int) : got = call.got
  BY <1>1 DEF Calls
<1>3. got # << >> /\ Last(got) = got[1]
  <2>1. Len(got) = 1
    BY <1>2
  <2>2. Last(got) = got[1]
    BY <2>1 DEF Last
  <2>3. Len(<< >>) = 0 /\ 1 # 0 /\ 2 # 0
    OBVIOUS
  <2>4. got # << >>
    BY <2>1, <2>3, Zenon
  <2> QED
    BY <2>2, <2>4
<1>4. Free(heap, got[1]) /\ heap[got[1]].kids = <<Null>>
  BY <1>1, <1>2, <1>3 DEF GotOK
<1>5. got[1] \in DOMAIN heap
  BY <1>4 DEF Free, Live
<1>6. PICK type : type = call.type
  OBVIOUS
<1>7. Fresh(type) = Block(type, <<got[1]>>, call.size)
  BY <1>2, <1>3, <1>6, FreshIs
<1>8. g[n].type = type /\ g[n].kids[1] = got[1]
  BY <1>6, <1>7 DEF Block
<1>9. g[g[n].kids[1]].kids[1] = Null
  BY <1>4, <1>5, <1>8
<1>10. PICK s : s = << >>
  OBVIOUS
<1>11. Len(g) \in Nat /\ s \in Seq(Int) /\ Len(s) = 0 /\ DOMAIN s = {}
  BY <1>10
<1>12. IsChain(g, Null, s)
  BY <1>11 DEF IsChain, At
<1>13. HeldIn(g, n) = ElementsOf(g, s, Width(g, n))
  BY <1>6, <1>8, <1>9, <1>11, <1>12, ListHolds
<1>14. ElementsOf(g, s, Width(g, n)) = Nulls(0)
  <2>1. \A w \in {1, 2} : w * 0 = 0
    OBVIOUS
  <2>2. Width(g, n) * Len(s) = 0
    BY <1>11, <2>1 DEF Width
  <2>3. 1 .. 0 = {}
    OBVIOUS
  <2> QED
    BY <2>2, <2>3 DEF ElementsOf, Nulls
<1> QED
  BY <1>13, <1>14

\* Where a block is new, what was told of the heap still is.
LEMMA FreshTold ==
  ASSUME Widths(heap), Typed(heap), heap \in Seq(Cell), Sound(heap), Shaped(heap),
         NEW cell, CellWell(heap, cell), cell.type \in PartKinds \union DataTypes,
         NEW g, g = Append(heap, cell), Shaped(g)
  PROVE  Widths(g) /\ Typed(g)
<1>1. Widths(g)
  BY WidthsAppended
<1>2. /\ g[Len(heap) + 1] = cell /\ DOMAIN g = 1 .. Len(heap) + 1
      /\ \A q \in DOMAIN heap : q \in DOMAIN g /\ g[q] = heap[q]
  BY WidthsAppended
<1>3. Len(heap) \in Nat /\ DOMAIN heap = 1 .. Len(heap)
  OBVIOUS
<1>4. \A q \in DOMAIN g : q \in DOMAIN heap \/ q = Len(heap) + 1
  BY <1>2, <1>3
<1>5. \A q \in DOMAIN g : (q \in DOMAIN heap /\ g[q] = heap[q]) \/ g[q].type \in PartKinds \union DataTypes
  BY <1>2, <1>4
<1>6. Typed(g)
  BY <1>5 DEF Typed, PartKinds
<1> QED
  BY <1>1, <1>6

\* malloc makes a part of a term: the terms hold what they held.
LEMMA PartStore ==
  ASSUME NEW home, Clear(home), call.op = "create", Shaped(heap'),
         NEW cell, NextPart(cell), cell.type \in PartKinds, heap' = Append(heap, cell),
         reply' = reply, call' = WithPart(call, NewId)
  PROVE  StoreStep /\ Told(heap', call')
<1>1. /\ Readable(heap) /\ heap \in Seq(Cell) /\ Sound(heap) /\ Shaped(heap) /\ Widths(heap)
      /\ Typed(heap) /\ AskedOK(call) /\ call \in Calls
  BY DEF Clear, InOrder, HeapOK, Readable, Told
<1>2. CellWell(heap, cell) /\ cell.type \notin DataTypes /\ cell \in Cell
  BY DEF NextPart, CellWell
<1>3. Widths(heap') /\ Typed(heap')
  BY <1>1, <1>2, FreshTold
<1>4. NewId \in Int
  BY <1>1 DEF NewId
<1>5. call'.op = call.op /\ call'.type = call.type /\ call'.size = call.size
  BY <1>1, <1>4, WithPartIs
<1>6. SearchOK(heap', call') /\ AskedOK(call')
  BY <1>1, <1>5 DEF SearchOK, AskedOK
<1>7. ContentIn(heap') = ContentIn(heap)
  BY <1>1, <1>2, AppendedContent
<1>8. StoreStep
  BY <1>7, StoreStays
<1> QED
  BY <1>3, <1>6, <1>8 DEF Told

\* malloc makes a term.
LEMMA TermStore ==
  ASSUME NEW home, Clear(home), call.op = "create", Shaped(heap'),
         NEW cell, cell = Fresh(call.type), NextTerm(cell), cell.type = call.type,
         call.type = "tuple" => Len(call.got) = 2,
         call.type \in {"list", "dict"} => Len(call.got) = 1,
         heap' = Append(heap, cell), reply' = Reply("create", Null, 0, NewId), call' = NoCall
  PROVE  StoreStep /\ Told(heap', call')
<1>1. /\ Readable(heap) /\ heap \in Seq(Cell) /\ Sound(heap) /\ Shaped(heap) /\ Widths(heap)
      /\ Typed(heap)
  BY DEF Clear, InOrder, HeapOK, Readable, Told
<1>2. CellWell(heap, cell) /\ cell.type \in DataTypes /\ cell \in Cell
  BY DEF NextTerm, CellWell
<1>3. Widths(heap') /\ Typed(heap')
  BY <1>1, <1>2, FreshTold
<1>4. Told(heap', call')
  BY <1>3, NoCallTold
<1>5. PICK n : n = NewId
  OBVIOUS
<1>6. n = Len(heap) + 1
  BY <1>5 DEF NewId
<1>7. /\ heap'[n] = cell /\ heap' \in Seq(Cell) /\ \A q \in DOMAIN heap : heap'[q] = heap[q]
      /\ n \notin DOMAIN heap /\ n # Null
  <2>1. /\ heap'[Len(heap) + 1] = cell /\ heap' \in Seq(Cell)
        /\ \A q \in DOMAIN heap : q \in DOMAIN heap' /\ heap'[q] = heap[q]
    BY <1>1, <1>2, WidthsAppended
  <2>2. Len(heap) \in Nat /\ DOMAIN heap = 1 .. Len(heap)
    BY <1>1
  <2> QED
    BY <1>6, <2>1, <2>2 DEF Null
<1>8. /\ ContentIn(heap') = [q \in TermsIn(heap) \union {n} |-> IF q = n THEN HeldIn(heap', n) ELSE HeldIn(heap, q)]
      /\ n \notin TermsIn(heap)
  <2>1. PICK g : g = heap'
    OBVIOUS
  <2>2. g = Append(heap, cell)
    BY <2>1
  <2>3. ContentIn(g) = [q \in TermsIn(heap) \union {n} |-> IF q = n THEN HeldIn(g, n) ELSE HeldIn(heap, q)]
    <3>1. PICK h : h = heap
      OBVIOUS
    <3>2. Readable(h) /\ cell \in Cell /\ cell.type \in DataTypes /\ g = Append(h, cell) /\ n = Len(h) + 1
      BY <1>1, <1>2, <1>6, <2>2, <3>1
    <3>3. ContentIn(g) = PlusTerm(h, g, n)
      BY <3>2, AppendedTerm
    <3> QED
      BY <3>1, <3>3 DEF PlusTerm
  <2>4. n \notin TermsIn(heap)
    BY <1>7 DEF TermsIn
  <2> QED
    BY <2>1, <2>3, <2>4
<1>9. \E m \in Sizes \union {0} : HeldIn(heap', n) = Nulls(m)
  <2>1. CASE call.type = "tuple"
    <3>1. HeldIn(heap', n) = Nulls(call.size) /\ call.size \in Sizes
      BY <1>7, <2>1, NewTuple
    <3> QED
      BY <3>1
  <2>2. CASE call.type \in {"list", "dict"}
    <3>1. HeldIn(heap', n) = Nulls(0)
      BY <1>7, <2>2, NewList
    <3> QED
      BY <3>1
  <2>3. CASE call.type \notin {"tuple", "list", "dict"}
    <3>1. heap'[n].type \notin {"list", "dict", "tuple"}
      BY <1>7, <2>3
    <3>2. HeldIn(heap', n) = << >>
      BY <3>1, OtherIs
    <3> QED
      BY <3>2, NoNulls
  <2> QED
    BY <2>1, <2>2, <2>3
<1>10. PICK m \in Sizes \union {0} : HeldIn(heap', n) = Nulls(m)
  BY <1>9
<1>11. ContentIn(heap') = [q \in TermsIn(heap) \union {n} |-> IF q = n THEN Nulls(m) ELSE HeldIn(heap, q)]
  BY <1>8, <1>10
<1>12. reply' = Reply("create", Null, 0, n) /\ n \notin TermsIn(heap) \union {Null}
  BY <1>5, <1>7, <1>8
<1>13. StoreStep
  BY <1>11, <1>12, StoreCreates
<1> QED
  BY <1>4, <1>13

\* malloc comes back with a block.
LEMMA MallocStore ==
  ASSUME NEW home, Clear(home), Malloc, Shaped(heap')
  PROVE  StoreStep /\ Told(heap', call')
<1>1. PICK kind : kind = Allocations(call.type)[Len(call.got) + 1]
  OBVIOUS
<1>2. PICK cell : cell = Fresh(kind)
  OBVIOUS
<1>3. /\ call.op = "create" /\ heap' = Append(heap, cell)
      /\ kind = call.type => reply' = Reply("create", Null, 0, NewId) /\ call' = NoCall
      /\ kind # call.type => reply' = reply /\ call' = WithPart(call, NewId)
  BY <1>1, <1>2 DEF Malloc, WithPart
<1>4. /\ cell.type = kind /\ (kind \in PartKinds \/ kind = call.type)
      /\ kind = call.type /\ kind = "tuple" => Len(call.got) = 2
      /\ kind = call.type /\ kind \in {"list", "dict"} => Len(call.got) = 1
  BY <1>1, <1>2, <1>3, KindIs
<1>5. \/ kind # call.type /\ NextPart(cell)
      \/ kind = call.type /\ NextTerm(cell)
  BY <1>1, <1>2, <1>3, NextAllocation DEF Clear
<1>6. CASE kind # call.type /\ NextPart(cell)
  BY <1>3, <1>4, <1>6, PartStore
<1>7. CASE kind = call.type /\ NextTerm(cell)
  BY <1>2, <1>3, <1>4, <1>7, TermStore
<1> QED
  BY <1>5, <1>6, <1>7

\* malloc fails, and no term is made: the blocks that are freed are of none.
LEMMA MallocFailsStore ==
  ASSUME NEW home, Clear(home), MallocFails, Shaped(heap')
  PROVE  StoreStep /\ Told(heap', call')
<1>1. /\ Readable(heap) /\ heap \in Seq(Cell) /\ Sound(heap) /\ Widths(heap) /\ Typed(heap)
      /\ InOrder(heap, client, call, dropped, home)
  BY DEF Clear, InOrder, HeapOK, Readable, Told
<1>2. /\ call.op = "create" /\ call' = NoCall /\ reply' = Reply("create", Null, 0, Null)
      /\ heap' = [p \in DOMAIN heap |-> IF p \in Range(call.got) THEN Freed ELSE heap[p]]
  BY DEF MallocFails, Cleanup
<1>3. CASE call.got = << >>
  <2>1. Range(call.got) = {}
    BY <1>3, RangeOfNothing
  <2>2. heap' = [p \in DOMAIN heap |-> heap[p]]
    BY <1>2, <2>1
  <2>3. heap' = heap
    BY <1>1, <2>2
  <2>4. StoreStep
    BY <1>2, <2>3, StoreCreateFails
  <2>5. Told(heap', call')
    BY <1>2, <2>3, ToldEnds DEF Clear
  <2> QED
    BY <2>4, <2>5
<1>4. CASE call.got # << >>
  <2>1. PICK l : l = Last(call.got)
    OBVIOUS
  <2>2. /\ l \in Int /\ Free(heap, l) /\ Reach(heap, {l}) = Range(call.got)
        /\ \A q \in Range(call.got) : heap[q].type \in {"text", "elements", "tuple_t", "list_t", "dict_t"}
    BY <1>1, <1>2, <1>4, <2>1, GotIs
  <2>3. PICK roots \in Seq(Int) : Range(roots) = {l}
    <3>1. DOMAIN <<l>> = {1} /\ <<l>>[1] = l /\ <<l>> \in Seq(Int)
      BY <2>2
    <3>2. Range(<<l>>) = {l}
      BY <3>1 DEF Range
    <3> QED
      BY <3>1, <3>2
  <2>4. heap' = Destroyed(heap, roots)
    BY <1>2, <2>2, <2>3 DEF Destroyed
  <2>5. AllFree(heap, Range(roots)) /\ Range(roots) \in SUBSET Int
    BY <2>2, <2>3 DEF AllFree
  <2>6. Told(heap', call')
    BY <1>1, <1>2, <2>3, <2>4, <2>5, ToldDestroyed
  <2>7. PICK f : f = ContentIn(heap)
    OBVIOUS
  <2>8. ContentIn(heap') = Restrict(f, TermsIn(heap) \ Reach(heap, Range(roots)))
    BY <1>1, <2>3, <2>4, <2>5, <2>7, DestroyedContent
  <2>9. TermsIn(heap) \ Reach(heap, Range(roots)) = TermsIn(heap)
    BY <2>2, <2>3, DataAre DEF TermsIn
  <2>10. f = [q \in TermsIn(heap) |-> f[q]] /\ DOMAIN f = TermsIn(heap)
    BY <2>7 DEF ContentIn
  <2>11. ContentIn(heap') = f
    BY <2>8, <2>9, <2>10 DEF Restrict
  <2>12. StoreStep
    BY <1>2, <2>7, <2>11, StoreCreateFails
  <2> QED
    BY <2>6, <2>12
<1> QED
  BY <1>3, <1>4

(***************************************************************************)
(* Every step of Containers is one of SequenceStore, or none.              *)
(***************************************************************************)

\* What a term holds is shown by the steps of the client ...
LEMMA ClientSteps ==
  ASSUME NEW home \in [1 .. Len(heap) -> Int], Clear(home), TailIsLast, Shaped(heap'),
         \/ \E type \in DataTypes, size \in Sizes : bert_data_create(type, size)
         \/ Malloc \/ MallocFails
         \/ \E d \in client : bert_data_destroy(d)
         \/ \E c \in Known("list") :
              \/ bert_list_append(c) \/ bert_list_length(c)
              \/ \E index \in Indices : bert_list_get(c, index) \/ bert_list_set(c, index)
         \/ \E c \in Known("dict") : bert_dict_append(c)
         \/ \E c \in Known("list") \union Known("dict") : AppendFails(c)
  PROVE  StoreStep /\ Told(heap', call')
<1>1. ASSUME NEW type \in DataTypes, NEW size \in Sizes, bert_data_create(type, size)
      PROVE  StoreStep /\ Told(heap', call')
  BY <1>1, CreateBeginsStore
<1>2. CASE Malloc
  BY <1>2, MallocStore
<1>3. CASE MallocFails
  BY <1>3, MallocFailsStore
<1>4. ASSUME NEW d \in client, bert_data_destroy(d) PROVE StoreStep /\ Told(heap', call')
  BY <1>4, DestroyStore
<1>5. ASSUME NEW c \in Known("list"), bert_list_append(c) PROVE StoreStep /\ Told(heap', call')
  BY <1>5, AppendStore
<1>6. ASSUME NEW c \in Known("list"), bert_list_length(c) PROVE StoreStep /\ Told(heap', call')
  <2>1. PICK op \in {"get", "set", "length"} : op = "length"
    OBVIOUS
  <2>2. PICK index : index = 0
    OBVIOUS
  <2>3. Search(op, c, index, Null)
    BY <1>6, <2>1, <2>2 DEF bert_list_length
  <2> QED
    BY <2>1, <2>2, <2>3, SearchBeginsStore
<1>7. ASSUME NEW c \in Known("list"), NEW index \in Indices, bert_list_get(c, index)
      PROVE  StoreStep /\ Told(heap', call')
  <2>1. PICK op \in {"get", "set", "length"} : op = "get"
    OBVIOUS
  <2>2. Search(op, c, index, Null) /\ op # "length"
    BY <1>7, <2>1 DEF bert_list_get
  <2> QED
    BY <2>2, SearchBeginsStore
<1>8. ASSUME NEW c \in Known("list"), NEW index \in Indices, bert_list_set(c, index)
      PROVE  StoreStep /\ Told(heap', call')
  <2>1. PICK op \in {"get", "set", "length"} : op = "set"
    OBVIOUS
  <2>2. PICK d : Search(op, c, index, d)
    BY <1>8, <2>1 DEF bert_list_set
  <2>3. op # "length"
    BY <2>1
  <2> QED
    BY <2>2, <2>3, SearchBeginsStore
<1>9. ASSUME NEW c \in Known("dict"), bert_dict_append(c) PROVE StoreStep /\ Told(heap', call')
  BY <1>9, AppendStore
<1>10. ASSUME NEW c \in Known("list") \union Known("dict"), AppendFails(c)
       PROVE  StoreStep /\ Told(heap', call')
  BY <1>10, AppendFailsStore
<1> QED
  BY <1>1, <1>2, <1>3, <1>4, <1>5, <1>6, <1>7, <1>8, <1>9, <1>10

\* ... and by all of them.
LEMMA NextStore ==
  ASSUME NEW home \in [1 .. Len(heap) -> Int], Clear(home), TailIsLast, Shaped(heap'), [Next]_vars
  PROVE  StoreStep /\ Told(heap', call')
<1>1. CASE \/ \E type \in DataTypes, size \in Sizes : bert_data_create(type, size)
           \/ Malloc \/ MallocFails
           \/ \E d \in client : bert_data_destroy(d)
           \/ \E c \in Known("list") :
                \/ bert_list_append(c) \/ bert_list_length(c)
                \/ \E index \in Indices : bert_list_get(c, index) \/ bert_list_set(c, index)
           \/ \E c \in Known("dict") : bert_dict_append(c)
           \/ \E c \in Known("list") \union Known("dict") : AppendFails(c)
  BY <1>1, ClientSteps
<1>2. ASSUME NEW c \in Known("tuple"), NEW index \in Indices, bert_tuple_get(c, index)
      PROVE  StoreStep /\ Told(heap', call')
  BY <1>2, TupleGetStore
<1>3. ASSUME NEW c \in Known("tuple"), NEW index \in Indices, TupleSetReplaces(c, index)
      PROVE  StoreStep /\ Told(heap', call')
  BY <1>3, TupleSetStore
<1>4. ASSUME NEW c \in Known("tuple"), NEW index \in Indices, TupleSetRefuses(c, index)
      PROVE  StoreStep /\ Told(heap', call')
  BY <1>4, TupleRefusesStore
<1>5. CASE NextNode
  BY <1>5, NextNodeStore
<1>6. CASE LengthCounted
  BY <1>6, LengthStore
<1>7. CASE GetFinds
  BY <1>7, GetStore
<1>8. CASE SetReplaces
  BY <1>8, SetStore
<1>9. CASE SetFindsNone
  BY <1>9, SetFindsNoneStore
<1>10. CASE UNCHANGED vars
  <2>1. heap' = heap /\ call' = call /\ reply' = reply
    BY <1>10 DEF vars
  <2>2. StoreStep
    BY <2>1, StoreStays
  <2>3. Told(heap', call')
    BY <2>1 DEF Clear
  <2> QED
    BY <2>2, <2>3
<1> QED
  BY <1>1, <1>2, <1>3, <1>4, <1>5, <1>6, <1>7, <1>8, <1>9, <1>10 DEF Next

\* At first there is nothing to tell.
LEMMA InitStore == Init => Sequence!Init /\ Told(heap, call)
<1> SUFFICES ASSUME Init PROVE Sequence!Init /\ Told(heap, call)
  OBVIOUS
<1>1. heap = << >> /\ call = NoCall /\ reply = NoReply
  BY DEF Init
<1>2. DOMAIN heap = {}
  BY <1>1
<1>3. Told(heap, NoCall)
  BY <1>2, NoCallTold DEF Widths, Typed
<1>4. DataCells = {}
  BY <1>2 DEF DataCells
<1>5. Contents = << >>
  <2>1. \A f : f = [p \in {} |-> f[p]] => f = << >>
    OBVIOUS
  <2> QED
    BY <1>4, <2>1 DEF Contents
<1>6. reply = Sequence!NoReply
  BY <1>1 DEF NoReply, Sequence!NoReply, Reply, Sequence!Reply
<1> QED
  BY <1>1, <1>3, <1>5, <1>6 DEF Sequence!Init

\* the heap is in order, and what is told of it holds
ToldInv == Inv /\ Told(heap, call)

\* A step of Containers is one of SequenceStore, or none.
LEMMA StepsAreStored == ToldInv /\ [Next]_vars => ToldInv' /\ [Sequence!Next]_(Sequence!storeVars)
<1> SUFFICES ASSUME ToldInv, [Next]_vars
             PROVE  ToldInv' /\ [Sequence!Next]_(Sequence!storeVars)
  OBVIOUS
<1>1. PICK home \in [1 .. Len(heap) -> Int] : InOrder(heap, client, call, dropped, home)
  BY DEF ToldInv, Inv
<1>2. Inv'
  BY NextInv DEF ToldInv
<1>3. Shaped(heap')
  BY <1>2 DEF Inv, InOrder, HeapOK
<1>4. HeapOK(heap, home) /\ Told(heap, call) /\ Widths(heap)
  BY <1>1 DEF ToldInv, InOrder, Told
<1>5. Readable(heap)
  BY <1>4, ToldReadable
<1>6. Clear(home)
  BY <1>1, <1>4, <1>5 DEF Clear
<1>7. TailIsLast
  BY TailHolds DEF ToldInv
<1>8. StoreStep /\ Told(heap', call')
  BY <1>3, <1>6, <1>7, NextStore
<1> QED
  BY <1>2, <1>8 DEF StoreStep, ToldInv

\* Lists, dicts and tuples are sequences, however many blocks and terms there are: whatever the
\* code does to nodes, tails and elements, its client sees a step of SequenceStore, or none.
THEOREM ImplementsSequencesAlways == Spec => ImplementsSequences
<1>1. Init => Sequence!Init /\ ToldInv
  BY InitStore, InitInv DEF ToldInv
<1>2. ToldInv /\ [Next]_vars => ToldInv' /\ [Sequence!Next]_(Sequence!storeVars)
  BY StepsAreStored
<1> QED
  BY <1>1, <1>2, PTL DEF Spec, ImplementsSequences, Sequence!Spec
===============================================================================
