--------------------------- MODULE TermHeap_proofs ---------------------------
(***************************************************************************)
(* What bert_data_destroy meets, frees and leaves, for heaps of every      *)
(* size.  Reach is a recursion that stops after as many steps as the heap  *)
(* has cells; the lemmas show that this is enough, and that Reach is the   *)
(* least set of pointers that holds the starts and what its terms hold.    *)
(* A heap whose stored pointers lead to live terms, each to one of its     *)
(* own, can be destroyed from any roots that no term holds.                *)
(***************************************************************************)
EXTENDS TermHeap, RecursionLemmas, FiniteSetTheorems

\* cells 1 .. n, each with a sequence of pointers
IsHeap(heap) ==
  /\ Len(heap) \in Nat /\ DOMAIN heap = 1 .. Len(heap)
  /\ \A p \in DOMAIN heap : heap[p].kids \in Seq(Int)

Nearer(heap, s) == s \union UNION {Range(Followed(heap, p)) : p \in s}

\* Only live terms are followed, and what they hold are pointers.
LEMMA FollowedIs ==
  ASSUME NEW heap, IsHeap(heap), NEW p
  PROVE  /\ Followed(heap, p) \in Seq(Int)
         /\ Range(Followed(heap, p)) \subseteq Int
         /\ p \notin DOMAIN heap => Range(Followed(heap, p)) = {}
         /\ p \in DOMAIN heap => Range(Followed(heap, p)) \subseteq Range(heap[p].kids)
<1>1. Followed(heap, p) \in Seq(Int)
  BY DEF Followed, Live, IsHeap
<1>2. \A s \in Seq(Int) : Range(s) \subseteq Int
  BY DEF Range
<1>3. p \notin DOMAIN heap => Followed(heap, p) = << >>
  BY DEF Followed, Live
<1>4. Range(<< >>) = {}
  BY DEF Range
<1>5. p \in DOMAIN heap => Range(Followed(heap, p)) \subseteq Range(heap[p].kids)
  <2> SUFFICES ASSUME p \in DOMAIN heap PROVE Range(Followed(heap, p)) \subseteq Range(heap[p].kids)
    OBVIOUS
  <2>1. Followed(heap, p) = << >> \/ Followed(heap, p) = heap[p].kids
    BY DEF Followed
  <2> QED
    BY <2>1, <1>4
<1> QED
  BY <1>1, <1>2, <1>3, <1>4, <1>5

\* Reach is computed step by step.
LEMMA ReachValue ==
  ASSUME NEW heap, IsHeap(heap), NEW starts \in SUBSET Int
  PROVE  \E f \in [0 .. Len(heap) -> SUBSET Int] :
           /\ f[0] = starts
           /\ \A i \in 1 .. Len(heap) : f[i] = Nearer(heap, f[i - 1])
           /\ Reach(heap, starts) = f[Len(heap)] \ {Null}
<1> DEFINE n == Len(heap)
           near == [s \in SUBSET Int |-> Nearer(heap, s)]
           step == [i \in 1 .. n |-> near]
           reach == CHOOSE f : f = [i \in 0 .. n |-> IF i = 0 THEN starts ELSE Nearer(heap, f[i - 1])]
<1>1. n \in Nat
  BY DEF IsHeap
<1>2. near \in [SUBSET Int -> SUBSET Int]
  <2> SUFFICES ASSUME NEW s \in SUBSET Int PROVE Nearer(heap, s) \in SUBSET Int
    OBVIOUS
  <2>1. \A p \in s : Range(Followed(heap, p)) \subseteq Int
    BY FollowedIs
  <2> QED
    BY <2>1 DEF Nearer
<1>3. step \in [1 .. n -> [SUBSET Int -> SUBSET Int]]
  BY <1>2
<1> HIDE DEF near
<1>4. PICK f \in [0 .. n -> SUBSET Int] : Follows(f, n, starts, step)
  <2> HIDE DEF n, step
  <2> QED
    BY <1>1, <1>3, RecursionExists
<1>5. \A i \in 1 .. n : f[i] = Nearer(heap, f[i - 1])
  <2> SUFFICES ASSUME NEW i \in 1 .. n PROVE f[i] = Nearer(heap, f[i - 1])
    OBVIOUS
  <2>1. i - 1 \in 0 .. n /\ f[i - 1] \in SUBSET Int
    BY <1>1, <1>4
  <2>2. f[i] = step[i][f[i - 1]]
    BY <1>4 DEF Follows
  <2>3. step[i] = near
    OBVIOUS
  <2>4. near[f[i - 1]] = Nearer(heap, f[i - 1])
    BY <2>1 DEF near
  <2> QED
    BY <2>2, <2>3, <2>4
<1>6. f[0] = starts
  BY <1>4 DEF Follows
<1> HIDE DEF step
<1>7. f = [i \in 0 .. n |-> IF i = 0 THEN starts ELSE Nearer(heap, f[i - 1])]
  <2>1. \A i \in 0 .. n : f[i] = IF i = 0 THEN starts ELSE Nearer(heap, f[i - 1])
    <3> SUFFICES ASSUME NEW i \in 0 .. n, i # 0 PROVE f[i] = Nearer(heap, f[i - 1])
      BY <1>6
    <3>1. i \in 1 .. n
      BY <1>1
    <3> QED
      BY <3>1, <1>5
  <2> QED
    BY <2>1, <1>4
<1>8. reach = [i \in 0 .. n |-> IF i = 0 THEN starts ELSE Nearer(heap, reach[i - 1])]
  BY <1>7
<1>9. \A i \in 0 .. n : reach[i] = f[i]
  <2> DEFINE same == {k \in Nat : k <= n => reach[k] = f[k]}
  <2> HIDE DEF reach
  <2>1. 0 \in same
    <3>1. 0 \in 0 .. n
      BY <1>1
    <3>2. reach[0] = starts
      BY <1>8, <3>1
    <3> QED
      BY <3>2, <1>6
  <2>2. ASSUME NEW k \in Nat, k \in same PROVE k + 1 \in same
    <3> SUFFICES ASSUME k + 1 <= n PROVE reach[k + 1] = f[k + 1]
      OBVIOUS
    <3>1. k + 1 \in 1 .. n /\ k + 1 \in 0 .. n /\ (k + 1) - 1 = k /\ k + 1 # 0
      BY <1>1
    <3>2. reach[k] = f[k]
      BY <2>2, <3>1, <1>1
    <3>3. reach[k + 1] = Nearer(heap, reach[(k + 1) - 1])
      BY <1>8, <3>1
    <3> QED
      BY <3>1, <3>2, <3>3, <1>5
  <2> HIDE DEF same
  <2>3. \A k \in Nat : k \in same
    BY <2>1, <2>2, Induction
  <2> QED
    BY <2>3, <1>1 DEF same
<1>10. Reach(heap, starts) = reach[n] \ {Null}
  BY DEF Reach, Nearer
<1>11. n \in 0 .. n
  BY <1>1
<1> QED
  BY <1>4, <1>5, <1>6, <1>9, <1>10, <1>11

\* what the pointers of s lead to is in s
Closed(heap, s) == \A p \in s : Range(Followed(heap, p)) \subseteq s

\* Reach holds what it starts from, and each other pointer in it is held by one of its terms.
LEMMA ReachStored ==
  ASSUME NEW heap, IsHeap(heap), NEW starts \in SUBSET Int
  PROVE  /\ starts \ {Null} \subseteq Reach(heap, starts)
         /\ \A q \in Reach(heap, starts) :
              q \in starts \/ \E p \in Reach(heap, starts) : q \in Range(Followed(heap, p))
<1> DEFINE n == Len(heap)
<1>1. PICK f \in [0 .. n -> SUBSET Int] :
           /\ f[0] = starts
           /\ \A i \in 1 .. n : f[i] = Nearer(heap, f[i - 1])
           /\ Reach(heap, starts) = f[n] \ {Null}
  BY ReachValue
<1>2. n \in Nat /\ n \in 0 .. n
  BY DEF IsHeap
<1> DEFINE good ==
             {k \in Nat : k <= n =>
                /\ \A i \in 0 .. k : f[i] \subseteq f[k]
                /\ \A q \in f[k] : q \in starts \/ \E p \in f[k] : q \in Range(Followed(heap, p))}
<1> HIDE DEF n
<1>3. 0 \in good
  <2>1. \A i \in 0 .. 0 : i = 0
    OBVIOUS
  <2> QED
    BY <2>1, <1>1
<1>4. ASSUME NEW k \in Nat, k \in good PROVE k + 1 \in good
  <2> SUFFICES ASSUME k + 1 <= n
               PROVE  /\ \A i \in 0 .. k + 1 : f[i] \subseteq f[k + 1]
                      /\ \A q \in f[k + 1] :
                           q \in starts \/ \E p \in f[k + 1] : q \in Range(Followed(heap, p))
    OBVIOUS
  <2>1. k + 1 \in 1 .. n /\ (k + 1) - 1 = k /\ k <= n
    BY <1>2
  <2>2. f[k + 1] = Nearer(heap, f[k])
    BY <2>1, <1>1
  <2>3. f[k] \subseteq f[k + 1]
    BY <2>2 DEF Nearer
  <2>4. \A i \in 0 .. k : f[i] \subseteq f[k]
    BY <1>4, <2>1
  <2>5. \A i \in 0 .. k + 1 : i \in 0 .. k \/ i = k + 1
    OBVIOUS
  <2>6. \A q \in f[k] : q \in starts \/ \E p \in f[k] : q \in Range(Followed(heap, p))
    BY <1>4, <2>1
  <2>7. \A q \in f[k + 1] : q \in f[k] \/ \E p \in f[k] : q \in Range(Followed(heap, p))
    BY <2>2 DEF Nearer
  <2>8. \A i \in 0 .. k + 1 : f[i] \subseteq f[k + 1]
    BY <2>3, <2>4, <2>5
  <2>9. ASSUME NEW q \in f[k + 1]
        PROVE  q \in starts \/ \E p \in f[k + 1] : q \in Range(Followed(heap, p))
    BY <2>3, <2>6, <2>7
  <2> QED
    BY <2>8, <2>9
<1> HIDE DEF good
<1>5. n \in good
  BY <1>2, <1>3, <1>4, Induction
<1>6. /\ \A i \in 0 .. n : f[i] \subseteq f[n]
      /\ \A q \in f[n] : q \in starts \/ \E p \in f[n] : q \in Range(Followed(heap, p))
  BY <1>5, <1>2 DEF good
<1>7. f[0] \subseteq f[n]
  BY <1>6, <1>2
<1>8. Null \notin DOMAIN heap
  BY DEF Null, IsHeap
<1>9. Range(Followed(heap, Null)) = {}
  BY <1>8, FollowedIs
<1> QED
  BY <1>1, <1>6, <1>7, <1>9

\* ... and nothing else: a closed set that holds the starts holds all of it.
LEMMA ReachLeast ==
  ASSUME NEW heap, IsHeap(heap), NEW starts \in SUBSET Int, NEW s,
         starts \subseteq s \union {Null},
         \A p \in s : Range(Followed(heap, p)) \subseteq s \union {Null}
  PROVE  Reach(heap, starts) \subseteq s
<1> DEFINE n == Len(heap)
<1>1. PICK f \in [0 .. n -> SUBSET Int] :
           /\ f[0] = starts
           /\ \A i \in 1 .. n : f[i] = Nearer(heap, f[i - 1])
           /\ Reach(heap, starts) = f[n] \ {Null}
  BY ReachValue
<1>2. n \in Nat
  BY DEF IsHeap
<1>3. Null \notin DOMAIN heap
  BY DEF Null, IsHeap
<1>4. Range(Followed(heap, Null)) = {}
  BY <1>3, FollowedIs
<1> DEFINE good == {k \in Nat : k <= n => f[k] \subseteq s \union {Null}}
<1> HIDE DEF n
<1>5. 0 \in good
  BY <1>1
<1>6. ASSUME NEW k \in Nat, k \in good PROVE k + 1 \in good
  <2> SUFFICES ASSUME k + 1 <= n PROVE f[k + 1] \subseteq s \union {Null}
    OBVIOUS
  <2>1. k + 1 \in 1 .. n /\ (k + 1) - 1 = k /\ k <= n
    BY <1>2
  <2>2. f[k + 1] = Nearer(heap, f[k])
    BY <2>1, <1>1
  <2>3. f[k] \subseteq s \union {Null}
    BY <1>6, <2>1
  <2>4. \A p \in f[k] : Range(Followed(heap, p)) \subseteq s \union {Null}
    BY <2>3, <1>4
  <2> QED
    BY <2>2, <2>3, <2>4 DEF Nearer
<1> HIDE DEF good
<1>7. n \in good
  BY <1>2, <1>5, <1>6, Induction
<1> QED
  BY <1>1, <1>2, <1>7 DEF good

\* The steps are enough: as long as a step meets a new pointer, it has met as many cells as
\* steps were made.
LEMMA ReachClosed ==
  ASSUME NEW heap, IsHeap(heap), NEW starts \in SUBSET Int
  PROVE  \A p \in Reach(heap, starts) :
           Range(Followed(heap, p)) \subseteq Reach(heap, starts) \union {Null}
<1> DEFINE n == Len(heap)
<1>1. PICK f \in [0 .. n -> SUBSET Int] :
           /\ f[0] = starts
           /\ \A i \in 1 .. n : f[i] = Nearer(heap, f[i - 1])
           /\ Reach(heap, starts) = f[n] \ {Null}
  BY ReachValue
<1>2. n \in Nat
  BY DEF IsHeap
<1>3. DOMAIN heap = 1 .. n
  BY DEF IsHeap
<1> DEFINE cells(k) == f[k] \intersect (1 .. n)
           good == {k \in Nat : k <= n => Closed(heap, f[k]) \/ Cardinality(cells(k)) > k}
<1> HIDE DEF n
<1>4. \A k : IsFiniteSet(cells(k)) /\ Cardinality(cells(k)) \in Nat /\ Cardinality(cells(k)) <= n
  <2> SUFFICES ASSUME NEW k PROVE IsFiniteSet(cells(k)) /\ Cardinality(cells(k)) \in Nat
                                  /\ Cardinality(cells(k)) <= n
    OBVIOUS
  <2>1. IsFiniteSet(1 .. n) /\ Cardinality(1 .. n) = n
    BY <1>2, FS_Interval
  <2>2. cells(k) \in SUBSET (1 .. n)
    OBVIOUS
  <2>3. IsFiniteSet(cells(k)) /\ Cardinality(cells(k)) <= n
    BY <2>1, <2>2, FS_Subset
  <2> QED
    BY <2>3, FS_CardinalityType
<1>5. 0 \in good
  <2>1. CASE cells(0) = {}
    <3>1. \A p \in f[0] : p \notin DOMAIN heap
      BY <2>1, <1>3
    <3>2. Closed(heap, f[0])
      BY <3>1, FollowedIs DEF Closed
    <3> QED
      BY <3>2
  <2>2. CASE cells(0) # {}
    <3>1. Cardinality(cells(0)) # 0
      BY <2>2, <1>4, FS_EmptySet
    <3>2. Cardinality(cells(0)) > 0
      <4> HIDE DEF cells
      <4> QED
        BY <3>1, <1>4
    <3> QED
      BY <3>2
  <2> QED
    BY <2>1, <2>2
<1>6. ASSUME NEW k \in Nat, k \in good PROVE k + 1 \in good
  <2> SUFFICES ASSUME k + 1 <= n
               PROVE  Closed(heap, f[k + 1]) \/ Cardinality(cells(k + 1)) > k + 1
    OBVIOUS
  <2>1. k + 1 \in 1 .. n /\ (k + 1) - 1 = k /\ k <= n
    BY <1>2
  <2>2. f[k + 1] = Nearer(heap, f[k])
    BY <2>1, <1>1
  <2>3. f[k] \subseteq f[k + 1]
    BY <2>2 DEF Nearer
  <2>4. CASE Closed(heap, f[k])
    <3>1. f[k + 1] = f[k]
      BY <2>2, <2>3, <2>4 DEF Nearer, Closed
    <3> QED
      BY <3>1, <2>4
  <2>5. CASE cells(k + 1) = cells(k)
    <3>1. \A p \in f[k + 1] : p \in f[k] \/ p \notin DOMAIN heap
      BY <2>5, <1>3
    <3>2. \A p \in f[k] : Range(Followed(heap, p)) \subseteq f[k + 1]
      BY <2>2 DEF Nearer
    <3>3. \A p : p \notin DOMAIN heap => Range(Followed(heap, p)) = {}
      BY FollowedIs
    <3> QED
      BY <3>1, <3>2, <3>3 DEF Closed
  <2>6. CASE ~Closed(heap, f[k]) /\ cells(k + 1) # cells(k)
    <3>1. Cardinality(cells(k)) > k
      BY <1>6, <2>1, <2>6
    <3>2. cells(k) \in SUBSET cells(k + 1)
      BY <2>3
    <3> HIDE DEF cells
    <3>3. /\ Cardinality(cells(k)) <= Cardinality(cells(k + 1))
          /\ Cardinality(cells(k + 1)) # Cardinality(cells(k))
      BY <3>2, <1>4, <2>6, FS_Subset
    <3>4. Cardinality(cells(k)) \in Nat /\ Cardinality(cells(k + 1)) \in Nat
      BY <1>4
    <3> QED
      BY <3>1, <3>3, <3>4
  <2> QED
    BY <2>4, <2>5, <2>6
<1>7. n \in good
  <2> HIDE DEF good
  <2> QED
    BY <1>2, <1>5, <1>6, Induction
<1>8. ~(Cardinality(cells(n)) > n)
  <2> HIDE DEF cells
  <2> QED
    BY <1>4, <1>2
<1>9. Closed(heap, f[n])
  BY <1>7, <1>8, <1>2
<1> QED
  BY <1>1, <1>9 DEF Closed

-----------------------------------------------------------------------------
(* Each term in one place *)

\* Every pointer stored is NULL or leads to a live term, to one of its own.
Sound(heap) ==
  \A p \in DOMAIN heap : \A k \in DOMAIN heap[p].kids :
    heap[p].kids[k] # Null =>
      /\ Live(heap, heap[p].kids[k])
      /\ \A r \in DOMAIN heap : \A l \in DOMAIN heap[r].kids :
           heap[r].kids[l] = heap[p].kids[k] => r = p /\ l = k

\* a live term that no term holds
Free(heap, q) == Live(heap, q) /\ \A p \in DOMAIN heap : q \notin Range(heap[p].kids)

AllFree(heap, s) == \A q \in s : q # Null => Free(heap, q)

\* no pointer twice, but for NULL
Distinct(s) == \A k, l \in DOMAIN s : s[k] = s[l] /\ k # l => s[k] = Null

\* A slot is a root or a place in a term that is met.
LEMMA SlotIs ==
  ASSUME NEW heap, IsHeap(heap), NEW roots \in Seq(Int), NEW s \in Slots(heap, roots)
  PROVE  /\ s = <<s[1], s[2]>>
         /\ \/ s[1] = 0 /\ s[2] \in DOMAIN roots /\ Stored(heap, roots, s) = roots[s[2]]
            \/ /\ s[1] # 0 /\ s[1] \in Reach(heap, Range(roots)) /\ s[1] \in DOMAIN heap
               /\ s[2] \in DOMAIN heap[s[1]].kids
               /\ Stored(heap, roots, s) = heap[s[1]].kids[s[2]]
<1> DEFINE met == Reach(heap, Range(roots))
<1>1. CASE s \in {0} \X DOMAIN roots
  BY <1>1 DEF Stored
<1>2. ASSUME NEW p \in met, s \in {p} \X DOMAIN Followed(heap, p)
      PROVE  /\ s = <<s[1], s[2]>>
             /\ s[1] # 0 /\ s[1] \in met /\ s[1] \in DOMAIN heap
             /\ s[2] \in DOMAIN heap[s[1]].kids
             /\ Stored(heap, roots, s) = heap[s[1]].kids[s[2]]
  <2>1. p # 0
    BY DEF Reach, Null
  <2>2. s = <<s[1], s[2]>> /\ s[1] = p /\ s[2] \in DOMAIN Followed(heap, p)
    BY <1>2
  <2>3. Followed(heap, p) = << >> => FALSE
    BY <2>2
  <2>4. Live(heap, p) /\ Followed(heap, p) = heap[p].kids
    BY <2>3 DEF Followed
  <2> QED
    BY <2>1, <2>2, <2>4 DEF Live, Stored
<1> QED
  BY <1>1, <1>2 DEF Slots

\* Roots of their own, on a sound heap, can be destroyed: nothing freed is met, nothing twice.
LEMMA RootsDestroyable ==
  ASSUME NEW heap, IsHeap(heap), Sound(heap),
         NEW roots \in Seq(Int), Distinct(roots), AllFree(heap, Range(roots))
  PROVE  Destroyable(heap, roots)
<1> DEFINE met == Reach(heap, Range(roots))
<1>1. Range(roots) \in SUBSET Int
  BY DEF Range
<1>2. ASSUME NEW q \in met PROVE Live(heap, q)
  <2>1. q # Null
    BY DEF Reach
  <2>2. CASE q \in Range(roots)
    BY <2>1, <2>2 DEF AllFree, Free
  <2>3. ASSUME NEW p \in met, q \in Range(Followed(heap, p)) PROVE Live(heap, q)
    <3>1. p \in DOMAIN heap /\ q \in Range(heap[p].kids)
      BY <2>3, FollowedIs
    <3>2. PICK k \in DOMAIN heap[p].kids : heap[p].kids[k] = q
      BY <3>1 DEF Range
    <3> QED
      BY <3>1, <3>2, <2>1 DEF Sound
  <2> QED
    BY <1>1, <2>2, <2>3, ReachStored
<1>3. ASSUME NEW s \in Slots(heap, roots), NEW t \in Slots(heap, roots),
             Stored(heap, roots, s) = Stored(heap, roots, t), s # t,
             Stored(heap, roots, s) # Null
      PROVE  FALSE
  <2>1. s = <<s[1], s[2]>> /\ t = <<t[1], t[2]>>
    BY SlotIs
  <2>2. CASE s[1] = 0 /\ t[1] = 0
    <3>1. s[2] \in DOMAIN roots /\ t[2] \in DOMAIN roots /\ s[2] # t[2]
      BY <2>1, <2>2, <1>3, SlotIs
    <3>2. Stored(heap, roots, s) = roots[s[2]] /\ Stored(heap, roots, t) = roots[t[2]]
      BY <2>2, SlotIs
    <3> QED
      BY <1>3, <3>1, <3>2 DEF Distinct
  <2>3. ASSUME NEW a \in Slots(heap, roots), NEW b \in Slots(heap, roots), a[1] = 0, b[1] # 0
        PROVE  Stored(heap, roots, a) = Stored(heap, roots, b) => Stored(heap, roots, a) = Null
    <3>1. a[2] \in DOMAIN roots /\ Stored(heap, roots, a) = roots[a[2]]
      BY <2>3, SlotIs
    <3>2. /\ b[1] \in DOMAIN heap /\ b[2] \in DOMAIN heap[b[1]].kids
          /\ Stored(heap, roots, b) = heap[b[1]].kids[b[2]]
      BY <2>3, SlotIs
    <3> QED
      BY <3>1, <3>2 DEF AllFree, Free, Range
  <2>4. CASE s[1] # 0 /\ t[1] # 0
    <3>1. /\ s[1] \in DOMAIN heap /\ s[2] \in DOMAIN heap[s[1]].kids
          /\ Stored(heap, roots, s) = heap[s[1]].kids[s[2]]
      BY <2>4, SlotIs
    <3>2. /\ t[1] \in DOMAIN heap /\ t[2] \in DOMAIN heap[t[1]].kids
          /\ Stored(heap, roots, t) = heap[t[1]].kids[t[2]]
      BY <2>4, SlotIs
    <3>3. s[1] = t[1] /\ s[2] = t[2]
      <4>1. heap[s[1]].kids[s[2]] # Null /\ heap[t[1]].kids[t[2]] = heap[s[1]].kids[s[2]]
        BY <1>3, <3>1, <3>2
      <4> QED
        BY <4>1, <3>1, <3>2, Zenon DEF Sound
    <3> QED
      BY <3>3, <2>1, <1>3
  <2> QED
    BY <2>2, <2>3, <2>4, <1>3
<1> QED
  BY <1>2, <1>3 DEF Destroyable

\* Destroying leaves each cell or frees it.
LEMMA DestroyedIs ==
  ASSUME NEW Cell, Freed \in Cell, NEW heap \in Seq(Cell), NEW roots
  PROVE  /\ Destroyed(heap, roots) \in Seq(Cell)
         /\ Len(Destroyed(heap, roots)) = Len(heap)
         /\ DOMAIN Destroyed(heap, roots) = DOMAIN heap
         /\ \A p \in DOMAIN heap :
              Destroyed(heap, roots)[p] = IF p \in Reach(heap, Range(roots)) THEN Freed ELSE heap[p]
<1> DEFINE h == Destroyed(heap, roots)
<1>1. DOMAIN heap = 1 .. Len(heap) /\ Len(heap) \in Nat
  OBVIOUS
<1>2. /\ DOMAIN h = DOMAIN heap
      /\ \A p \in DOMAIN heap : h[p] = IF p \in Reach(heap, Range(roots)) THEN Freed ELSE heap[p]
  BY DEF Destroyed
<1>3. h = [p \in 1 .. Len(heap) |-> h[p]]
  BY <1>1 DEF Destroyed
<1> HIDE DEF h
<1>4. \A p \in 1 .. Len(heap) : h[p] \in Cell
  BY <1>1, <1>2
<1>5. h \in [1 .. Len(heap) -> Cell]
  BY <1>3, <1>4
<1>6. h \in Seq(Cell) /\ Len(h) = Len(heap)
  BY <1>1, <1>5
<1> QED
  BY <1>2, <1>6 DEF h

\* What is left of a sound heap when roots of their own are destroyed is sound, and the other
\* terms that no term held are still there.
LEMMA DestroyLeavesSound ==
  ASSUME NEW Cell, Freed \in Cell, NEW heap \in Seq(Cell), IsHeap(heap), Sound(heap),
         NEW roots \in Seq(Int), AllFree(heap, Range(roots))
  PROVE  /\ Sound(Destroyed(heap, roots))
         /\ \A q : Free(heap, q) /\ q \notin Range(roots) => Free(Destroyed(heap, roots), q)
<1> DEFINE met == Reach(heap, Range(roots))
           h == Destroyed(heap, roots)
<1>1. Range(roots) \in SUBSET Int
  BY DEF Range
<1>2. DOMAIN h = DOMAIN heap /\ \A p \in DOMAIN heap : h[p] = IF p \in met THEN Freed ELSE heap[p]
  BY DestroyedIs
<1>3. \A q \in met : q \in Range(roots) \/ \E p \in met : q \in Range(Followed(heap, p))
  BY <1>1, ReachStored
<1>4. Null \notin met
  BY DEF Reach
<1> HIDE DEF h, met
<1>5. \A p \in DOMAIN heap : \A k \in DOMAIN h[p].kids :
        p \notin met /\ h[p] = heap[p] /\ k \in DOMAIN heap[p].kids
  <2>1. DOMAIN Freed.kids = {}
    <3>1. Freed.kids = << >>
      BY DEF Freed
    <3>2. DOMAIN << >> = {}
      OBVIOUS
    <3> QED
      BY <3>1, <3>2
  <2> QED
    BY <1>2, <2>1
<1>6. ASSUME NEW q, q \notin met PROVE Live(heap, q) <=> Live(h, q)
  BY <1>2, <1>6 DEF Live
\* a place that is left holds nothing that is met
<1>7. ASSUME NEW p \in DOMAIN heap, p \notin met, NEW k \in DOMAIN heap[p].kids,
             heap[p].kids[k] \in met
      PROVE  FALSE
  <2> DEFINE q == heap[p].kids[k]
  <2>1. q # Null /\ q \in Range(heap[p].kids)
    BY <1>4, <1>7 DEF Range
  <2>2. CASE q \in Range(roots)
    BY <2>1, <2>2 DEF AllFree, Free
  <2>3. ASSUME NEW r \in met, q \in Range(Followed(heap, r)) PROVE FALSE
    <3>1. r \in DOMAIN heap /\ q \in Range(heap[r].kids)
      BY <2>3, FollowedIs
    <3>2. PICK l \in DOMAIN heap[r].kids : heap[r].kids[l] = q
      BY <3>1 DEF Range
    <3>3. r = p
      BY <3>1, <3>2, <2>1 DEF Sound
    <3> QED
      BY <3>3, <1>7
  <2> QED
    BY <1>3, <1>7, <2>2, <2>3
<1>8. Sound(h)
  <2> SUFFICES ASSUME NEW p \in DOMAIN h, NEW k \in DOMAIN h[p].kids, h[p].kids[k] # Null
               PROVE  /\ Live(h, h[p].kids[k])
                      /\ \A r \in DOMAIN h : \A l \in DOMAIN h[r].kids :
                           h[r].kids[l] = h[p].kids[k] => r = p /\ l = k
    BY DEF Sound
  <2>1. p \in DOMAIN heap /\ p \notin met /\ h[p] = heap[p] /\ k \in DOMAIN heap[p].kids
    BY <1>2, <1>5
  <2>2. heap[p].kids[k] \notin met
    BY <2>1, <1>7
  <2>3. Live(h, h[p].kids[k])
    BY <2>1, <2>2, <1>6 DEF Sound
  <2>4. ASSUME NEW r \in DOMAIN h, NEW l \in DOMAIN h[r].kids, h[r].kids[l] = h[p].kids[k]
        PROVE  r = p /\ l = k
    <3>1. r \in DOMAIN heap /\ h[r] = heap[r] /\ l \in DOMAIN heap[r].kids
      BY <1>2, <1>5
    <3> QED
      BY <3>1, <2>1, <2>4 DEF Sound
  <2> QED
    BY <2>3, <2>4
<1>9. ASSUME NEW q, Free(heap, q), q \notin Range(roots) PROVE Free(h, q)
  <2>1. q \notin met
    <3>1. \A p : q \notin Range(Followed(heap, p))
      BY <1>9, FollowedIs DEF Free
    <3> QED
      BY <3>1, <1>3, <1>9
  <2>2. Live(h, q)
    BY <2>1, <1>6, <1>9 DEF Free
  <2>3. \A p \in DOMAIN h : q \notin Range(h[p].kids)
    BY <1>2, <1>5, <1>9 DEF Free, Range
  <2> QED
    BY <2>2, <2>3 DEF Free
<1> QED
  BY <1>8, <1>9 DEF h

\* A cell is appended whose pointers nothing held before: the heap stays sound, nothing holds
\* the new term yet, and what was held by nothing still is if the new term does not hold it.
LEMMA AppendKeepsSound ==
  ASSUME NEW Cell, NEW heap \in Seq(Cell), IsHeap(heap), Sound(heap), NEW cell \in Cell,
         cell.kids \in Seq(Int), cell.type # "freed",
         Distinct(cell.kids), AllFree(heap, Range(cell.kids))
  PROVE  LET h == Append(heap, cell) IN
         /\ h \in Seq(Cell) /\ Len(h) = Len(heap) + 1 /\ IsHeap(h)
         /\ h[Len(heap) + 1] = cell /\ \A p \in DOMAIN heap : p \in DOMAIN h /\ h[p] = heap[p]
         /\ Sound(h)
         /\ Free(h, Len(heap) + 1)
         /\ \A q : Free(heap, q) /\ q \notin Range(cell.kids) => Free(h, q)
<1> DEFINE h == Append(heap, cell)
           n == Len(heap) + 1
<1>1. /\ h \in Seq(Cell) /\ Len(h) = n
      /\ \A p \in 1 .. Len(heap) : h[p] = heap[p]
      /\ h[n] = cell
  BY AppendProperties
<1>2. Len(heap) \in Nat /\ DOMAIN heap = 1 .. Len(heap) /\ n \notin DOMAIN heap
  OBVIOUS
<1>3. DOMAIN h = 1 .. n
  BY <1>1, LenProperties
<1> HIDE DEF h
<1>4. \A p \in DOMAIN h : p \in DOMAIN heap \/ p = n
  BY <1>2, <1>3
<1>5. \A p \in DOMAIN heap : p \in DOMAIN h /\ h[p] = heap[p]
  BY <1>1, <1>2, <1>3
<1>6. n \in DOMAIN h /\ n # Null
  BY <1>2, <1>3 DEF Null
<1> HIDE DEF n
<1>7. IsHeap(h)
  BY <1>1, <1>2, <1>3, <1>4, <1>5 DEF IsHeap, n
<1>8. \A q : Live(heap, q) => Live(h, q) /\ q \in DOMAIN heap
  BY <1>5 DEF Live
<1>9. Live(h, n)
  BY <1>1, <1>6 DEF Live
\* what a place of h holds, and that the places of the new term hold other things than the others
<1>10. ASSUME NEW k \in DOMAIN cell.kids, cell.kids[k] # Null
       PROVE  /\ Free(heap, cell.kids[k]) /\ cell.kids[k] \in Range(cell.kids)
              /\ \A l \in DOMAIN cell.kids : cell.kids[l] = cell.kids[k] => l = k
  BY <1>10 DEF AllFree, Range, Distinct
<1>11. ASSUME NEW p \in DOMAIN heap, NEW l \in DOMAIN heap[p].kids,
              NEW k \in DOMAIN cell.kids, heap[p].kids[l] = cell.kids[k]
       PROVE  cell.kids[k] = Null
  BY <1>11, <1>10 DEF Free, Range
<1>12. Sound(h)
  <2> SUFFICES ASSUME NEW p \in DOMAIN h, NEW k \in DOMAIN h[p].kids, h[p].kids[k] # Null
               PROVE  /\ Live(h, h[p].kids[k])
                      /\ \A r \in DOMAIN h : \A l \in DOMAIN h[r].kids :
                           h[r].kids[l] = h[p].kids[k] => r = p /\ l = k
    BY DEF Sound
  <2>1. CASE p \in DOMAIN heap
    <3>1. h[p] = heap[p] /\ k \in DOMAIN heap[p].kids
      BY <2>1, <1>5
    <3>2. Live(h, h[p].kids[k])
      BY <2>1, <3>1, <1>8 DEF Sound
    <3>3. ASSUME NEW r \in DOMAIN h, NEW l \in DOMAIN h[r].kids, h[r].kids[l] = h[p].kids[k]
          PROVE  r = p /\ l = k
      <4>1. CASE r \in DOMAIN heap
        BY <4>1, <3>1, <3>3, <2>1, <1>5 DEF Sound
      <4>2. CASE r = n
        BY <4>2, <3>1, <3>3, <2>1, <1>1, <1>11
      <4> QED
        BY <4>1, <4>2, <1>4
    <3> QED
      BY <3>2, <3>3
  <2>2. CASE p = n
    <3>1. h[p] = cell /\ k \in DOMAIN cell.kids
      BY <2>2, <1>1
    <3>2. Live(h, h[p].kids[k])
      BY <3>1, <1>8, <1>10 DEF Free
    <3>3. ASSUME NEW r \in DOMAIN h, NEW l \in DOMAIN h[r].kids, h[r].kids[l] = h[p].kids[k]
          PROVE  r = p /\ l = k
      <4>1. CASE r \in DOMAIN heap
        BY <4>1, <3>1, <3>3, <1>5, <1>11
      <4>2. CASE r = n
        BY <4>2, <3>1, <3>3, <2>2, <1>1, <1>10
      <4> QED
        BY <4>1, <4>2, <1>4
    <3> QED
      BY <3>2, <3>3
  <2> QED
    BY <2>1, <2>2, <1>4
<1>13. Free(h, n)
  <2>1. ASSUME NEW p \in DOMAIN h, NEW k \in DOMAIN h[p].kids PROVE h[p].kids[k] # n
    <3>1. CASE p \in DOMAIN heap
      <4>1. h[p] = heap[p] /\ k \in DOMAIN heap[p].kids
        BY <3>1, <1>5
      <4>2. heap[p].kids[k] = Null \/ Live(heap, heap[p].kids[k])
        BY <3>1, <4>1 DEF Sound
      <4> QED
        BY <4>1, <4>2, <1>2, <1>6 DEF Live, n
    <3>2. CASE p = n
      <4>1. h[p] = cell /\ k \in DOMAIN cell.kids
        BY <3>2, <1>1
      <4>2. cell.kids[k] = Null \/ Live(heap, cell.kids[k])
        BY <4>1, <1>10 DEF Free
      <4> QED
        BY <4>1, <4>2, <1>2, <1>6 DEF Live, n
    <3> QED
      BY <3>1, <3>2, <1>4
  <2> QED
    BY <2>1, <1>9 DEF Free, Range
<1>14. ASSUME NEW q, Free(heap, q), q \notin Range(cell.kids) PROVE Free(h, q)
  <2>1. ASSUME NEW p \in DOMAIN h PROVE q \notin Range(h[p].kids)
    BY <1>1, <1>4, <1>5, <1>14 DEF Free
  <2> QED
    BY <2>1, <1>8, <1>14 DEF Free
<1> QED
  BY <1>1, <1>5, <1>7, <1>12, <1>13, <1>14 DEF h, n

\* Places change: each holds what it held, or one place gets a term that nothing held.
LEMMA StoreKeepsSound ==
  ASSUME NEW heap, NEW h, IsHeap(heap), Sound(heap), DOMAIN h = DOMAIN heap,
         \A p \in DOMAIN heap : Live(heap, p) => Live(h, p),
         NEW q, q # Null => Free(heap, q), NEW p0, NEW k0,
         \A p \in DOMAIN heap : \A k \in DOMAIN h[p].kids :
           \/ h[p].kids[k] = Null
           \/ k \in DOMAIN heap[p].kids /\ h[p].kids[k] = heap[p].kids[k]
           \/ p = p0 /\ k = k0 /\ h[p].kids[k] = q
  PROVE  /\ Sound(h)
         /\ \A r : Free(heap, r) /\ r # q => Free(h, r)
<1>1. ASSUME NEW p \in DOMAIN heap, NEW k \in DOMAIN h[p].kids, h[p].kids[k] # Null
      PROVE  \/ /\ k \in DOMAIN heap[p].kids /\ h[p].kids[k] = heap[p].kids[k]
                /\ h[p].kids[k] # q
             \/ p = p0 /\ k = k0 /\ h[p].kids[k] = q
  <2>1. CASE k \in DOMAIN heap[p].kids /\ h[p].kids[k] = heap[p].kids[k]
    <3>1. h[p].kids[k] \in Range(heap[p].kids)
      BY <2>1 DEF Range
    <3>2. h[p].kids[k] # q
      BY <1>1, <3>1 DEF Free
    <3> QED
      BY <2>1, <3>2
  <2> QED
    BY <1>1, <2>1
<1>2. \A p : Live(heap, p) => Live(h, p)
  BY DEF Live
<1>3. Sound(h)
  <2> SUFFICES ASSUME NEW p \in DOMAIN h, NEW k \in DOMAIN h[p].kids, h[p].kids[k] # Null
               PROVE  /\ Live(h, h[p].kids[k])
                      /\ \A r \in DOMAIN h : \A l \in DOMAIN h[r].kids :
                           h[r].kids[l] = h[p].kids[k] => r = p /\ l = k
    BY DEF Sound
  <2>1. Live(h, h[p].kids[k])
    <3>1. Live(heap, h[p].kids[k])
      BY <1>1 DEF Sound, Free
    <3> QED
      BY <3>1, <1>2
  <2>2. ASSUME NEW r \in DOMAIN h, NEW l \in DOMAIN h[r].kids, h[r].kids[l] = h[p].kids[k]
        PROVE  r = p /\ l = k
    <3>1. CASE h[p].kids[k] = q
      BY <1>1, <2>2, <3>1
    <3>2. CASE h[p].kids[k] # q
      <4>1. k \in DOMAIN heap[p].kids /\ h[p].kids[k] = heap[p].kids[k]
        BY <1>1, <3>2
      <4>2. l \in DOMAIN heap[r].kids /\ h[r].kids[l] = heap[r].kids[l]
        BY <1>1, <2>2, <3>2
      <4> QED
        BY <2>2, <4>1, <4>2 DEF Sound
    <3> QED
      BY <3>1, <3>2
  <2> QED
    BY <2>1, <2>2
<1>4. ASSUME NEW r, Free(heap, r), r # q PROVE Free(h, r)
  <2>1. r # Null
    BY <1>4 DEF Free, Live, IsHeap, Null
  <2>2. ASSUME NEW p \in DOMAIN h, NEW k \in DOMAIN h[p].kids, h[p].kids[k] = r PROVE FALSE
    BY <1>1, <1>4, <2>1, <2>2 DEF Free, Range
  <2> QED
    BY <1>2, <1>4, <2>2 DEF Free, Range
<1> QED
  BY <1>3, <1>4

\* A term that nothing holds is whole if the terms with an empty place are others that nothing
\* holds.
LEMMA WholeTerm ==
  ASSUME NEW heap, IsHeap(heap), Sound(heap), NEW p \in Int, Free(heap, p), NEW open,
         \A r \in open : r # p /\ Free(heap, r),
         \A r \in DOMAIN heap : \A k \in DOMAIN heap[r].kids : heap[r].kids[k] = Null => r \in open
  PROVE  Whole(heap, p)
<1>1. p # Null
  BY DEF Free, Live, IsHeap, Null
<1>2. <<p>> \in Seq(Int) /\ DOMAIN <<p>> = 1 .. 1 /\ <<p>>[1] = p
  OBVIOUS
<1>3. Range(<<p>>) = {p}
  BY DEF Range
<1>4. Distinct(<<p>>) /\ AllFree(heap, Range(<<p>>))
  BY <1>2, <1>3 DEF Distinct, AllFree
<1>5. Destroyable(heap, <<p>>)
  BY <1>2, <1>4, RootsDestroyable
<1>6. ASSUME NEW s \in Slots(heap, <<p>>), Stored(heap, <<p>>, s) = Null
      PROVE  FALSE
  <2>1. \/ s[1] = 0 /\ s[2] \in DOMAIN <<p>> /\ Stored(heap, <<p>>, s) = <<p>>[s[2]]
        \/ /\ s[1] \in Reach(heap, {p}) /\ s[1] \in DOMAIN heap
           /\ s[2] \in DOMAIN heap[s[1]].kids
           /\ Stored(heap, <<p>>, s) = heap[s[1]].kids[s[2]]
    BY <1>2, <1>3, SlotIs
  <2>2. CASE s[2] \in DOMAIN <<p>> /\ Stored(heap, <<p>>, s) = <<p>>[s[2]]
    BY <1>1, <1>6, <2>2
  <2>3. CASE /\ s[1] \in Reach(heap, {p}) /\ s[1] \in DOMAIN heap
             /\ s[2] \in DOMAIN heap[s[1]].kids
             /\ Stored(heap, <<p>>, s) = heap[s[1]].kids[s[2]]
    <3>1. s[1] \in open
      BY <1>6, <2>3
    <3>2. s[1] # p /\ Free(heap, s[1])
      BY <3>1
    <3>3. {p} \in SUBSET Int
      OBVIOUS
    <3>4. PICK r \in Reach(heap, {p}) : s[1] \in Range(Followed(heap, r))
      BY <2>3, <3>2, <3>3, ReachStored
    <3>5. r \in DOMAIN heap /\ s[1] \in Range(heap[r].kids)
      BY <3>4, FollowedIs
    <3> QED
      BY <3>2, <3>5 DEF Free
  <2> QED
    BY <2>1, <2>2, <2>3
<1> QED
  BY <1>5, <1>6 DEF Whole, Free

(***************************************************************************)
(* What is not lost when terms are made, given to others and destroyed.    *)
(***************************************************************************)

Cells(C) == Freed \in C /\ \A c \in C : c.kids \in Seq(Int)

\* Nothing holds nothing.
LEMMA RangeOfNothing == Range(<< >>) = {}
<1>1. DOMAIN << >> = {}
  OBVIOUS
<1> QED
  BY <1>1 DEF Range

\* A sequence of cells is a heap.
LEMMA CellsMakeHeap ==
  ASSUME NEW Cell, Cells(Cell), NEW hp \in Seq(Cell)
  PROVE  IsHeap(hp)
<1>1. Len(hp) \in Nat /\ DOMAIN hp = 1 .. Len(hp) /\ \A p \in 1 .. Len(hp) : hp[p] \in Cell
  OBVIOUS
<1> QED
  BY <1>1 DEF IsHeap, Cells

\* what is reached from s, with the sources of the regexes that are reached
Covered(hp, s) == Reach(hp, s) \union Abandoned(hp, s)
NoLoss(hp, s) == {p \in DOMAIN hp : Live(hp, p)} \subseteq Covered(hp, s)

\* The sources of the regexes that a set of pointers leads to.
LEMMA AbandonedIs ==
  ASSUME NEW hp, IsHeap(hp), NEW s
  PROVE  /\ Abandoned(hp, s) \in SUBSET Int
         /\ \A q : q \in Abandoned(hp, s) <=>
              \E r \in Reach(hp, s) : Live(hp, r) /\ hp[r].type = "regex" /\ q \in Range(hp[r].kids)
<1>1. ASSUME NEW r, Live(hp, r) PROVE Range(hp[r].kids) \subseteq Int
  <2>1. hp[r].kids \in Seq(Int)
    BY <1>1 DEF Live, IsHeap
  <2> QED
    BY <2>1 DEF Range
<1> QED
  BY <1>1 DEF Abandoned

\* Terms stay, and what they held is still held or is reached in another way.
LEMMA ReachMoved ==
  ASSUME NEW hp, IsHeap(hp), NEW h, IsHeap(h), NEW a \in SUBSET Int, NEW b \in SUBSET Int,
         \A p \in DOMAIN hp : Live(hp, p) /\ hp[p].type # "regex" =>
           /\ Live(h, p) /\ h[p].type # "regex"
           /\ Range(hp[p].kids) \subseteq Range(h[p].kids) \union Reach(h, b) \union {Null},
         a \subseteq Reach(h, b) \union {Null}
  PROVE  Reach(hp, a) \subseteq Reach(h, b)
<1> DEFINE s == Reach(h, b)
<1>1. \A p \in s : Range(Followed(h, p)) \subseteq s \union {Null}
  BY ReachClosed
<1>2. ASSUME NEW p \in s PROVE Range(Followed(hp, p)) \subseteq s \union {Null}
  <2>1. CASE Live(hp, p) /\ hp[p].type # "regex"
    <3>1. p \in DOMAIN hp /\ Live(h, p) /\ h[p].type # "regex"
          /\ Range(hp[p].kids) \subseteq Range(h[p].kids) \union s \union {Null}
      BY <2>1 DEF Live
    <3>2. Followed(hp, p) = hp[p].kids /\ Followed(h, p) = h[p].kids
      BY <2>1, <3>1 DEF Followed
    <3> QED
      BY <1>1, <1>2, <3>1, <3>2
  <2>2. CASE ~(Live(hp, p) /\ hp[p].type # "regex")
    <3>1. Followed(hp, p) = << >>
      BY <2>2 DEF Followed
    <3> QED
      BY <3>1, RangeOfNothing
  <2> QED
    BY <2>1, <2>2
<1>3. a \subseteq s \union {Null}
  OBVIOUS
<1> HIDE DEF s
<1>4. Reach(hp, a) \subseteq s
  BY <1>2, <1>3, ReachLeast
<1> QED
  BY <1>4 DEF s

\* ... with the sources of regexes, if these stay as they are.
LEMMA CoverMoved ==
  ASSUME NEW hp, IsHeap(hp), NEW h, IsHeap(h), NEW a \in SUBSET Int, NEW b \in SUBSET Int,
         \A p \in DOMAIN hp :
           /\ p \in DOMAIN h /\ h[p].type = hp[p].type
           /\ hp[p].type = "regex" => h[p] = hp[p]
           /\ Range(hp[p].kids) \subseteq Range(h[p].kids) \union Reach(h, b) \union {Null},
         a \subseteq Reach(h, b) \union {Null}
  PROVE  Covered(hp, a) \subseteq Covered(h, b)
<1>1. \A p \in DOMAIN hp : Live(hp, p) /\ hp[p].type # "regex" =>
        /\ Live(h, p) /\ h[p].type # "regex"
        /\ Range(hp[p].kids) \subseteq Range(h[p].kids) \union Reach(h, b) \union {Null}
  BY DEF Live
<1>2. Reach(hp, a) \subseteq Reach(h, b)
  BY <1>1, ReachMoved
<1>3. Abandoned(hp, a) \subseteq Abandoned(h, b)
  <2> SUFFICES ASSUME NEW q \in Abandoned(hp, a) PROVE q \in Abandoned(h, b)
    OBVIOUS
  <2>1. PICK r \in Reach(hp, a) : Live(hp, r) /\ hp[r].type = "regex" /\ q \in Range(hp[r].kids)
    BY AbandonedIs
  <2>2. r \in DOMAIN hp
    BY <2>1 DEF Live
  <2>3. h[r] = hp[r] /\ r \in DOMAIN h /\ h[r].type = hp[r].type
    BY <2>1, <2>2
  <2>4. r \in Reach(h, b) /\ Live(h, r) /\ h[r].type = "regex" /\ q \in Range(h[r].kids)
    BY <1>2, <2>1, <2>3 DEF Live
  <2> QED
    BY <2>4, AbandonedIs
<1> QED
  BY <1>2, <1>3 DEF Covered

\* More pointers lead to more terms.
LEMMA NoLossMore ==
  ASSUME NEW hp, IsHeap(hp), NEW a \in SUBSET Int, NEW b \in SUBSET Int, a \subseteq b \union {Null},
         NoLoss(hp, a)
  PROVE  NoLoss(hp, b)
<1>1. b \ {Null} \subseteq Reach(hp, b)
  BY ReachStored
<1>2. a \subseteq Reach(hp, b) \union {Null}
  BY <1>1
<1>3. Covered(hp, a) \subseteq Covered(hp, b)
  BY <1>2, CoverMoved
<1> QED
  BY <1>3 DEF NoLoss

\* What is destroyed is not lost, but for the sources of regexes.
LEMMA NoLossDestroyed ==
  ASSUME NEW Cell, Cells(Cell), NEW hp \in Seq(Cell),
         NEW roots \in Seq(Int), NEW a \in SUBSET Int,
         NoLoss(hp, a \union Range(roots))
  PROVE  NoLoss(Destroyed(hp, roots), a \union Abandoned(hp, Range(roots)))
<1> DEFINE h == Destroyed(hp, roots)
           met == Reach(hp, Range(roots))
           left == Abandoned(hp, Range(roots))
           b == a \union left
           all == a \union Range(roots)
           s == Reach(h, b) \union met
<1>1. /\ h \in Seq(Cell) /\ DOMAIN h = DOMAIN hp
      /\ \A p \in DOMAIN hp : h[p] = IF p \in met THEN Freed ELSE hp[p]
  BY DestroyedIs DEF Cells
<1>2. IsHeap(hp) /\ IsHeap(h) /\ Range(roots) \in SUBSET Int
  <2>1. Range(roots) \in SUBSET Int
    BY DEF Range
  <2> QED
    BY <1>1, <2>1, CellsMakeHeap
<1>3. left \in SUBSET Int
  BY <1>2, AbandonedIs
<1> HIDE DEF h, met, left
<1>4. b \in SUBSET Int /\ all \in SUBSET Int
  BY <1>2, <1>3
<1>5. b \ {Null} \subseteq Reach(h, b) /\ Range(roots) \ {Null} \subseteq met
      /\ \A p \in Reach(h, b) : Range(Followed(h, p)) \subseteq Reach(h, b) \union {Null}
  BY <1>2, <1>4, ReachStored, ReachClosed DEF met
<1>8. ASSUME NEW p \in met PROVE Range(Followed(hp, p)) \subseteq met \union {Null}
  BY <1>2, <1>8, ReachClosed DEF met
<1>6. Reach(hp, all) \subseteq s
  <2>1. ASSUME NEW p \in s PROVE Range(Followed(hp, p)) \subseteq s \union {Null}
    <3>1. CASE p \in met
      <4>1. Range(Followed(hp, p)) \subseteq met \union {Null}
        BY <1>8, <3>1
      <4> QED
        BY <4>1
    <3>2. CASE p \notin met
      <4>1. Followed(h, p) = Followed(hp, p)
        BY <1>1, <3>2 DEF Followed, Live
      <4> QED
        BY <1>5, <3>2, <4>1
    <3> QED
      BY <3>1, <3>2
  <2>2. all \subseteq s \union {Null}
    BY <1>5
  <2> HIDE DEF s, all
  <2> QED
    BY <1>2, <1>4, <2>1, <2>2, ReachLeast
<1>7. ASSUME NEW p \in DOMAIN h, Live(h, p) PROVE p \in Covered(h, b)
  <2>0. p \in DOMAIN hp /\ Freed.type = "freed" /\ h[p].type # "freed"
    BY <1>1, <1>7 DEF Live, Freed
  <2>1. p \notin met /\ h[p] = hp[p] /\ Live(hp, p)
    BY <1>1, <2>0 DEF Live
  <2>2. p \in Reach(hp, all) \/ p \in Abandoned(hp, all)
    BY <1>1, <2>1 DEF NoLoss, Covered
  <2>3. CASE p \in Reach(hp, all)
    BY <1>6, <2>1, <2>3 DEF Covered
  <2>4. CASE p \in Abandoned(hp, all)
    <3>1. PICK r \in Reach(hp, all) : Live(hp, r) /\ hp[r].type = "regex" /\ p \in Range(hp[r].kids)
      BY <1>2, <2>4, AbandonedIs
    <3>2. CASE r \in met
      <4>1. p \in left
        BY <1>2, <3>1, <3>2, AbandonedIs DEF left, met
      <4>2. p # Null
        BY <1>2, <1>7 DEF IsHeap, Null
      <4> QED
        BY <1>5, <4>1, <4>2 DEF Covered
    <3>3. CASE r \notin met
      <4>1. r \in Reach(h, b)
        BY <1>6, <3>3
      <4>2. r \in DOMAIN hp
        BY <3>1 DEF Live
      <4>3. h[r] = hp[r] /\ Live(h, r)
        BY <1>1, <3>1, <3>3, <4>2 DEF Live
      <4>4. p \in Abandoned(h, b)
        BY <1>2, <3>1, <4>1, <4>3, AbandonedIs
      <4> QED
        BY <4>4 DEF Covered
    <3> QED
      BY <3>2, <3>3
  <2> QED
    BY <2>2, <2>3, <2>4
<1> QED
  BY <1>7 DEF NoLoss, h, left

\* A new term that is no regex, and what it holds.
LEMMA NoLossAppended ==
  ASSUME NEW Cell, Cells(Cell), NEW hp \in Seq(Cell), NEW cell \in Cell,
         cell.type # "freed", cell.type # "regex",
         NEW a \in SUBSET Int, NoLoss(hp, a \union Range(cell.kids))
  PROVE  NoLoss(Append(hp, cell), a \union {Len(hp) + 1})
<1> DEFINE h == Append(hp, cell)
           n == Len(hp) + 1
           b == a \union {n}
           all == a \union Range(cell.kids)
<1>1. /\ h \in Seq(Cell) /\ DOMAIN h = 1 .. n /\ DOMAIN hp = 1 .. Len(hp) /\ h[n] = cell
      /\ \A p \in DOMAIN hp : p \in DOMAIN h /\ h[p] = hp[p]
      /\ Len(hp) \in Nat /\ n \in Nat /\ n # Null
  BY AppendProperties DEF Null
<1>2. IsHeap(hp) /\ IsHeap(h)
  BY <1>1, CellsMakeHeap
<1>3. cell.kids \in Seq(Int)
  BY DEF Cells
<1>4. all \in SUBSET Int /\ b \in SUBSET Int
  <2>1. Range(cell.kids) \subseteq Int
    BY <1>3 DEF Range
  <2>2. n \in Int
    BY <1>1
  <2> QED
    BY <2>1, <2>2
<1>5. \A p \in DOMAIN h : p \in DOMAIN hp \/ p = n
  BY <1>1
<1>6. n \in DOMAIN h
  BY <1>1
<1> HIDE DEF h, n
<1>7. b \ {Null} \subseteq Reach(h, b)
  BY <1>2, <1>4, ReachStored
<1>8. n \in Reach(h, b)
  BY <1>1, <1>7
<1>9. Followed(h, n) = cell.kids
  BY <1>1, <1>6 DEF Followed, Live
<1>10. Range(cell.kids) \subseteq Reach(h, b) \union {Null}
  BY <1>2, <1>4, <1>8, <1>9, ReachClosed
<1>11. all \subseteq Reach(h, b) \union {Null}
  BY <1>7, <1>10
<1>12. \A p \in DOMAIN hp :
         /\ p \in DOMAIN h /\ h[p].type = hp[p].type
         /\ hp[p].type = "regex" => h[p] = hp[p]
         /\ Range(hp[p].kids) \subseteq Range(h[p].kids) \union Reach(h, b) \union {Null}
  BY <1>1
<1> HIDE DEF all, b
<1>13. Covered(hp, all) \subseteq Covered(h, b)
  BY <1>2, <1>4, <1>11, <1>12, CoverMoved
<1>14. NoLoss(h, b)
  <2>1. ASSUME NEW p \in DOMAIN h, Live(h, p) PROVE p \in Covered(h, b)
    <3>1. CASE p = n
      BY <1>8, <3>1 DEF Covered
    <3>2. CASE p \in DOMAIN hp
      <4>1. Live(hp, p)
        BY <1>1, <2>1, <3>2 DEF Live
      <4>2. p \in Covered(hp, all)
        BY <3>2, <4>1 DEF NoLoss, all
      <4> QED
        BY <1>13, <4>2
    <3> QED
      BY <1>5, <3>1, <3>2
  <2> QED
    BY <2>1 DEF NoLoss
<1> QED
  BY <1>14 DEF b, h, n

\* A new regex, and the text that is its source.
LEMMA NoLossRegex ==
  ASSUME NEW Cell, Cells(Cell), NEW hp \in Seq(Cell), NEW t,
         Live(hp, t), hp[t].kids = << >>, hp[t].type # "regex",
         NEW cell \in Cell, cell.type = "regex", Range(cell.kids) = {t},
         NEW a \in SUBSET Int, NoLoss(hp, a \union {t})
  PROVE  NoLoss(Append(hp, cell), a \union {Len(hp) + 1})
<1> DEFINE h == Append(hp, cell)
           n == Len(hp) + 1
           b == a \union {n}
           all == a \union {t}
<1>1. /\ h \in Seq(Cell) /\ DOMAIN h = 1 .. n /\ DOMAIN hp = 1 .. Len(hp) /\ h[n] = cell
      /\ \A p \in DOMAIN hp : p \in DOMAIN h /\ h[p] = hp[p]
      /\ Len(hp) \in Nat /\ n \in Nat /\ n # Null
  BY AppendProperties DEF Null
<1>2. IsHeap(hp) /\ IsHeap(h)
  BY <1>1, CellsMakeHeap
<1>3. t \in Int
  BY <1>1 DEF Live
<1>4. all \in SUBSET Int /\ b \in SUBSET Int
  <2>1. n \in Int
    BY <1>1
  <2> QED
    BY <1>3, <2>1
<1>5. (\A p \in DOMAIN h : p \in DOMAIN hp \/ p = n) /\ n \in DOMAIN h
  BY <1>1
<1> HIDE DEF h, n
<1>6. b \ {Null} \subseteq Reach(h, b)
  BY <1>2, <1>4, ReachStored
<1>7. n \in Reach(h, b) /\ Live(h, n) /\ h[n].type = "regex"
  BY <1>1, <1>5, <1>6 DEF Live
<1>8. t \in Abandoned(h, b)
  BY <1>1, <1>2, <1>7, AbandonedIs
<1>9. Reach(hp, all) \subseteq Reach(hp, a) \union {t}
  <2> DEFINE s == Reach(hp, a) \union {t}
  <2>1. a \ {Null} \subseteq Reach(hp, a)
        /\ \A p \in Reach(hp, a) : Range(Followed(hp, p)) \subseteq Reach(hp, a) \union {Null}
    BY <1>2, ReachStored, ReachClosed
  <2>2. Range(Followed(hp, t)) = {}
    <3>1. Followed(hp, t) = << >>
      BY DEF Followed
    <3> QED
      BY <3>1, RangeOfNothing
  <2>3. all \subseteq s \union {Null} /\ \A p \in s : Range(Followed(hp, p)) \subseteq s \union {Null}
    BY <2>1, <2>2
  <2> HIDE DEF s, all
  <2>4. Reach(hp, all) \subseteq s
    BY <1>2, <1>4, <2>3, ReachLeast
  <2> QED
    BY <2>4 DEF s
<1>10. Covered(hp, a) \subseteq Covered(h, b)
  <2>1. a \subseteq Reach(h, b) \union {Null}
    BY <1>6
  <2>2. \A p \in DOMAIN hp :
         /\ p \in DOMAIN h /\ h[p].type = hp[p].type
         /\ hp[p].type = "regex" => h[p] = hp[p]
         /\ Range(hp[p].kids) \subseteq Range(h[p].kids) \union Reach(h, b) \union {Null}
    BY <1>1
  <2> HIDE DEF b
  <2> QED
    BY <1>2, <1>4, <2>1, <2>2, CoverMoved
<1> HIDE DEF all, b
<1>11. ASSUME NEW p \in DOMAIN h, Live(h, p) PROVE p \in Covered(h, b)
  <2>1. CASE p = n
    BY <1>7, <2>1 DEF Covered
  <2>2. CASE p \in DOMAIN hp
    <3>1. Live(hp, p)
      BY <1>1, <1>11, <2>2 DEF Live
    <3>2. p \in Reach(hp, all) \/ p \in Abandoned(hp, all)
      BY <2>2, <3>1 DEF NoLoss, Covered, all
    <3>3. CASE p \in Reach(hp, all)
      BY <1>8, <1>9, <1>10, <3>3 DEF Covered
    <3>4. CASE p \in Abandoned(hp, all)
      <4>1. PICK r \in Reach(hp, all) : Live(hp, r) /\ hp[r].type = "regex" /\ p \in Range(hp[r].kids)
        BY <1>2, <3>4, AbandonedIs
      <4>2. r # t
        BY <4>1
      <4>3. r \in Reach(hp, a)
        BY <1>9, <4>1, <4>2
      <4>4. p \in Abandoned(hp, a)
        BY <1>2, <4>1, <4>3, AbandonedIs
      <4> QED
        BY <1>10, <4>4 DEF Covered
    <3> QED
      BY <3>2, <3>3, <3>4
  <2> QED
    BY <1>5, <2>1, <2>2
<1> QED
  BY <1>11 DEF NoLoss, b, h, n

\* A term gets a pointer to a term that was held otherwise, and loses none.
LEMMA NoLossStored ==
  ASSUME NEW hp, IsHeap(hp), NEW h, IsHeap(h), DOMAIN h = DOMAIN hp,
         NEW o \in DOMAIN hp, hp[o].type \notin {"freed", "regex"}, h[o].type = hp[o].type,
         Range(hp[o].kids) \subseteq Range(h[o].kids) \union {Null},
         \A p \in DOMAIN hp : p # o => h[p] = hp[p],
         NEW q \in Range(h[o].kids), NEW a \in SUBSET Int, o \in Reach(h, a),
         NoLoss(hp, a \union {q})
  PROVE  NoLoss(h, a)
<1>2. q \in Int
  BY DEF Range, IsHeap
<1>3. a \ {Null} \subseteq Reach(h, a)
  BY ReachStored
<1>4. Followed(h, o) = h[o].kids
  BY DEF Followed, Live
<1>6. Range(h[o].kids) \subseteq Reach(h, a) \union {Null}
  BY <1>4, ReachClosed
<1>7. \A p \in DOMAIN hp :
        /\ p \in DOMAIN h /\ h[p].type = hp[p].type
        /\ hp[p].type = "regex" => h[p] = hp[p]
        /\ Range(hp[p].kids) \subseteq Range(h[p].kids) \union Reach(h, a) \union {Null}
  <2> SUFFICES ASSUME NEW p \in DOMAIN hp
      PROVE  /\ p \in DOMAIN h /\ h[p].type = hp[p].type
             /\ hp[p].type = "regex" => h[p] = hp[p]
             /\ Range(hp[p].kids) \subseteq Range(h[p].kids) \union Reach(h, a) \union {Null}
    OBVIOUS
  <2>1. CASE p = o
    BY <2>1
  <2>2. CASE p # o
    BY <2>2
  <2> QED
    BY <2>1, <2>2
<1>8. a \union {q} \subseteq Reach(h, a) \union {Null}
  BY <1>3, <1>6
<1>9. a \union {q} \in SUBSET Int
  BY <1>2
<1>10. Covered(hp, a \union {q}) \subseteq Covered(h, a)
  BY <1>7, <1>8, <1>9, CoverMoved
<1>11. \A p \in DOMAIN h : Live(h, p) => Live(hp, p)
  BY DEF Live
<1> QED
  BY <1>10, <1>11 DEF NoLoss

(***************************************************************************)
(* On a sound heap every term but the roots is reached through the one     *)
(* term that holds it.                                                     *)
(***************************************************************************)

\* What is reached from two sets is reached from one of them.
LEMMA ReachTwo ==
  ASSUME NEW heap, IsHeap(heap), NEW a \in SUBSET Int, NEW b \in SUBSET Int
  PROVE  Reach(heap, a \union b) = Reach(heap, a) \union Reach(heap, b)
<1> DEFINE s == Reach(heap, a) \union Reach(heap, b)
<1>1. a \union b \subseteq s \union {Null}
  BY ReachStored
<1>2. \A p \in s : Range(Followed(heap, p)) \subseteq s \union {Null}
  BY ReachClosed
<1>3. a \union b \in SUBSET Int
  OBVIOUS
<1> HIDE DEF s
<1>4. Reach(heap, a \union b) \subseteq s
  BY <1>1, <1>2, <1>3, ReachLeast
<1>5. /\ (a \union b) \ {Null} \subseteq Reach(heap, a \union b)
      /\ \A p \in Reach(heap, a \union b) :
           Range(Followed(heap, p)) \subseteq Reach(heap, a \union b) \union {Null}
  BY <1>3, ReachStored, ReachClosed
<1>6. a \subseteq Reach(heap, a \union b) \union {Null}
      /\ b \subseteq Reach(heap, a \union b) \union {Null}
  BY <1>5
<1>7. Reach(heap, a) \subseteq Reach(heap, a \union b) /\ Reach(heap, b) \subseteq Reach(heap, a \union b)
  BY <1>5, <1>6, ReachLeast
<1> QED
  BY <1>4, <1>7 DEF s

\* The term that holds a pointer that is reached is reached itself.
LEMMA ReachedThrough ==
  ASSUME NEW heap, IsHeap(heap), Sound(heap), NEW starts \in SUBSET Int,
         NEW q \in Reach(heap, starts), NEW p \in DOMAIN heap, q \in Range(heap[p].kids),
         q \notin starts
  PROVE  p \in Reach(heap, starts) /\ Live(heap, p) /\ heap[p].type # "regex"
<1>1. PICK r \in Reach(heap, starts) : q \in Range(Followed(heap, r))
  BY ReachStored
<1>2. r \in DOMAIN heap /\ q \in Range(heap[r].kids)
  BY <1>1, FollowedIs
<1>3. q # Null
  BY DEF Reach
<1>4. PICK k \in DOMAIN heap[p].kids : heap[p].kids[k] = q
  BY DEF Range
<1>5. PICK l \in DOMAIN heap[r].kids : heap[r].kids[l] = q
  BY <1>2 DEF Range
<1>6. r = p
  BY <1>2, <1>3, <1>4, <1>5 DEF Sound
<1>7. Live(heap, p) /\ heap[p].type # "regex"
  <2>1. CASE Followed(heap, p) = << >>
    BY <1>1, <1>6, <2>1, RangeOfNothing
  <2> QED
    BY <2>1 DEF Followed
<1> QED
  BY <1>1, <1>6, <1>7

\* No term is reached from what it holds, if roots that nothing holds lead to it.
LEMMA NoCycle ==
  ASSUME NEW heap, IsHeap(heap), Sound(heap), NEW starts \in SUBSET Int, AllFree(heap, starts),
         NEW p \in Reach(heap, starts), NEW q \in Range(heap[p].kids),
         p \in DOMAIN heap
  PROVE  p \notin Reach(heap, {q})
<1> DEFINE met == Reach(heap, {q})
           s == Reach(heap, starts) \ met
<1>1. q \in Int /\ {q} \in SUBSET Int
  BY DEF IsHeap, Range
<1>2. SUFFICES ASSUME p \in met PROVE FALSE
  OBVIOUS
<1>3. \A r \in met : r = q \/ \E m \in met : r \in Range(Followed(heap, m))
  BY <1>1, ReachStored
\* what is met is held by a term that is met
<1>4. ASSUME NEW r \in met, NEW m \in DOMAIN heap, r \in Range(heap[m].kids) PROVE m \in met
  <2>1. CASE r \notin {q}
    BY <1>1, <1>4, <2>1, ReachedThrough
  <2>2. CASE r = q
    <3>1. q # Null
      BY <1>4, <2>2 DEF Reach
    <3>2. PICK k \in DOMAIN heap[p].kids : heap[p].kids[k] = q
      BY DEF Range
    <3>3. PICK l \in DOMAIN heap[m].kids : heap[m].kids[l] = q
      BY <1>4, <2>2 DEF Range
    <3>4. m = p
      BY <3>1, <3>2, <3>3 DEF Sound
    <3> QED
      BY <1>2, <3>4
  <2> QED
    BY <2>1, <2>2
<1>5. starts \subseteq s \union {Null}
  <2> SUFFICES ASSUME NEW r \in starts, r # Null PROVE r \in s
    OBVIOUS
  <2>1. r \in Reach(heap, starts) /\ Free(heap, r)
    BY ReachStored DEF AllFree
  <2>2. r # q
    BY <2>1 DEF Free
  <2>3. \A m : r \notin Range(Followed(heap, m))
    BY <2>1, FollowedIs DEF Free
  <2> QED
    BY <1>3, <2>1, <2>2, <2>3
<1>6. ASSUME NEW r \in s PROVE Range(Followed(heap, r)) \subseteq s \union {Null}
  <2> SUFFICES ASSUME NEW m \in Range(Followed(heap, r)), m # Null PROVE m \in s
    OBVIOUS
  <2>1. m \in Reach(heap, starts)
    BY <1>6, ReachClosed
  <2>2. r \in DOMAIN heap /\ m \in Range(heap[r].kids)
    BY FollowedIs
  <2>3. m \notin met
    BY <1>4, <1>6, <2>2
  <2> QED
    BY <2>1, <2>3
<1> HIDE DEF s
<1>7. Reach(heap, starts) \subseteq s
  BY <1>5, <1>6, ReachLeast
<1> QED
  BY <1>2, <1>7 DEF s

\* What loose roots do not lead to keeps what it holds when they are destroyed.
LEMMA KidsStay ==
  ASSUME NEW heap, IsHeap(heap), Sound(heap), NEW starts \in SUBSET Int, AllFree(heap, starts),
         NEW p \in DOMAIN heap, p \notin Reach(heap, starts), NEW q \in Range(heap[p].kids)
  PROVE  q \notin Reach(heap, starts)
<1>1. SUFFICES ASSUME q \in Reach(heap, starts) PROVE FALSE
  OBVIOUS
<1>2. q # Null
  BY <1>1 DEF Reach
<1>3. q \notin starts
  BY <1>2 DEF AllFree, Free
<1> QED
  BY <1>1, <1>3, ReachedThrough

==============================================================================
