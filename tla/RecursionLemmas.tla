--------------------------- MODULE RecursionLemmas ---------------------------
(***************************************************************************)
(* What the proofs need to know of recursive functions: induction on the   *)
(* natural numbers, the functions that a recursion along a sequence        *)
(* defines, from them the values of FlattenSeq and of the folds, and the   *)
(* functions that a recursion along the structure of trees defines.        *)
(* Induction is stated for sets: a property P is the set of the numbers    *)
(* that have it.                                                           *)
(***************************************************************************)
EXTENDS Integers, SequencesExt, SequenceTheorems, WellFoundedInduction, TLAPS

\* Every set of natural numbers has a least element.
LEMMA LeastNatural ==
  ASSUME NEW S, S \subseteq Nat, S # {}
  PROVE  \E n \in S : \A m \in S : n <= m
<1> DEFINE Less == {p \in Nat \X Nat : p[1] < p[2]}
<1>1. IsWellFoundedOn(Less, Nat)
  BY NatLessThanWellFounded DEF OpToRel
<1>2. PICK n \in S : \A m \in S : ~(<<m, n>> \in Less)
  BY <1>1, WFMin
<1>3. \A m \in S : ~(m < n)
  BY <1>2
<1> QED
  BY <1>3

\* Induction over the numbers, for a set: the form in which no operator is a parameter.
LEMMA Induction ==
  ASSUME NEW S, 0 \in S, \A n \in Nat : n \in S => n + 1 \in S
  PROVE  \A n \in Nat : n \in S
<1> SUFFICES ASSUME Nat \ S # {} PROVE FALSE
  OBVIOUS
<1>1. PICK n \in Nat \ S : \A m \in Nat \ S : n <= m
  BY LeastNatural
<1>2. n # 0 /\ n - 1 \in Nat /\ n - 1 \notin Nat \ S
  BY <1>1
<1> QED
  BY <1>1, <1>2

-----------------------------------------------------------------------------
(* Recursion along the numbers up to n *)

Follows(f, n, base, step) == f[0] = base /\ \A i \in 1 .. n : f[i] = step[i][f[i - 1]]

\* A recursion along 0 .. n defines a function.
LEMMA RecursionExists ==
  ASSUME NEW V, NEW n \in Nat, NEW base \in V, NEW step \in [1 .. n -> [V -> V]]
  PROVE  \E f \in [0 .. n -> V] : Follows(f, n, base, step)
<1> DEFINE Done == {k \in Nat : k <= n => \E f \in [0 .. k -> V] : Follows(f, k, base, step)}
<1>1. 0 \in Done
  <2>1. [i \in 0 .. 0 |-> base] \in [0 .. 0 -> V]
    OBVIOUS
  <2>2. Follows([i \in 0 .. 0 |-> base], 0, base, step)
    BY DEF Follows
  <2> QED
    BY <2>1, <2>2
<1>2. ASSUME NEW k \in Nat, k \in Done PROVE k + 1 \in Done
  <2> SUFFICES ASSUME k + 1 <= n
               PROVE  \E f \in [0 .. k + 1 -> V] : Follows(f, k + 1, base, step)
    OBVIOUS
  <2>1. PICK f \in [0 .. k -> V] : Follows(f, k, base, step)
    BY <1>2
  <2> DEFINE g == [i \in 0 .. k + 1 |-> IF i <= k THEN f[i] ELSE step[k + 1][f[k]]]
  <2>2. k + 1 \in 1 .. n /\ f[k] \in V /\ step[k + 1][f[k]] \in V
    OBVIOUS
  <2>3. g \in [0 .. k + 1 -> V]
    BY <2>1, <2>2
  <2>4. g[0] = base /\ \A i \in 1 .. k : g[i] = step[i][g[i - 1]]
    <3>1. g[0] = base
      BY <2>1 DEF Follows
    <3>2. ASSUME NEW i \in 1 .. k PROVE g[i] = step[i][g[i - 1]]
      <4>1. g[i] = f[i] /\ g[i - 1] = f[i - 1]
        OBVIOUS
      <4> QED
        BY <2>1, <4>1 DEF Follows
    <3> QED
      BY <3>1, <3>2
  <2>5. g[k + 1] = step[k + 1][g[k]]
    <3>1. g[k] = f[k] /\ g[k + 1] = step[k + 1][f[k]]
      OBVIOUS
    <3> QED
      BY <3>1
  <2>6. \A i \in 1 .. k + 1 : i \in 1 .. k \/ i = k + 1
    OBVIOUS
  <2> HIDE DEF g
  <2>7. (k + 1) - 1 = k
    OBVIOUS
  <2>8. Follows(g, k + 1, base, step)
    BY <2>4, <2>5, <2>6, <2>7 DEF Follows
  <2> QED
    BY <2>3, <2>8
<1> HIDE DEF Done
<1>3. n \in Done
  BY <1>1, <1>2, Induction
<1> QED
  BY <1>3 DEF Done

\* ... and only one.
LEMMA RecursionUnique ==
  ASSUME NEW n \in Nat, NEW base, NEW step, NEW f, NEW g,
         Follows(f, n, base, step), Follows(g, n, base, step)
  PROVE  \A i \in 0 .. n : f[i] = g[i]
<1> DEFINE Same == {k \in Nat : k <= n => f[k] = g[k]}
<1>1. 0 \in Same
  BY DEF Follows
<1>2. ASSUME NEW k \in Nat, k \in Same PROVE k + 1 \in Same
  <2> SUFFICES ASSUME k + 1 <= n PROVE f[k + 1] = g[k + 1]
    OBVIOUS
  <2>1. f[k] = g[k] /\ k + 1 \in 1 .. n /\ (k + 1) - 1 = k
    BY <1>2
  <2> QED
    BY <2>1 DEF Follows
<1> HIDE DEF Same
<1>3. \A k \in Nat : k \in Same
  BY <1>1, <1>2, Induction
<1> QED
  BY <1>3 DEF Same

-----------------------------------------------------------------------------
(* FlattenSeq *)

\* Joined(f, seqs): f[i] is the concatenation of the first i sequences.
Joined(f, seqs) ==
  f[0] = << >> /\ \A i \in 1 .. Len(seqs) : f[i] = f[i - 1] \o seqs[i]

\* FlattenSeq joins the sequences from the left, one at each index.
LEMMA FlattenValue ==
  ASSUME NEW V, NEW n \in Nat, NEW seqs \in [1 .. n -> Seq(V)]
  PROVE  \E f \in [0 .. n -> Seq(V)] : Joined(f, seqs) /\ FlattenSeq(seqs) = f[n]
<1> DEFINE step == [i \in 1 .. n |-> [v \in Seq(V) |-> v \o seqs[i]]]
<1>0. Len(seqs) = n
  OBVIOUS
<1>1. \A i \in 1 .. n : seqs[i] \in Seq(V)
  OBVIOUS
<1>2. step \in [1 .. n -> [Seq(V) -> Seq(V)]]
  <2>1. \A i \in 1 .. n, v \in Seq(V) : v \o seqs[i] \in Seq(V)
    BY <1>1, ConcatProperties
  <2> QED
    BY <2>1
<1>3. << >> \in Seq(V)
  OBVIOUS
<1> HIDE DEF step
<1>4. PICK f \in [0 .. n -> Seq(V)] : Follows(f, n, << >>, step)
  BY <1>2, <1>3, RecursionExists
<1>5. Joined(f, seqs)
  <2>1. \A i \in 1 .. n : f[i - 1] \in Seq(V)
    OBVIOUS
  <2> QED
    BY <1>0, <1>4, <2>1 DEF Follows, Joined, step
<1>6. CASE n = 0
  <2>1. seqs = << >>
    BY <1>0, <1>6
  <2> QED
    BY <1>0, <1>5, <1>6, <2>1 DEF FlattenSeq, Joined
<1>7. CASE n > 0
  <2> DEFINE flatten == CHOOSE fl : fl = [i \in 1 .. n |-> IF i = 1 THEN seqs[i]
                                                            ELSE fl[i - 1] \o seqs[i]]
             g == [i \in 1 .. n |-> f[i]]
  <2>1. g = [i \in 1 .. n |-> IF i = 1 THEN seqs[i] ELSE g[i - 1] \o seqs[i]]
    <3>1. ASSUME NEW i \in 1 .. n
          PROVE  f[i] = IF i = 1 THEN seqs[i] ELSE g[i - 1] \o seqs[i]
      <4>1. CASE i = 1
        <5>0. 1 \in 1 .. Len(seqs) /\ 1 - 1 = 0
          BY <1>0, <4>1
        <5>1. f[1] = << >> \o seqs[1]
          BY <1>5, <5>0 DEF Joined
        <5> QED
          BY <1>1, <4>1, <5>1, ConcatEmptySeq
      <4>2. CASE i # 1
        <5>1. i - 1 \in 1 .. n
          BY <4>2
        <5> QED
          BY <1>0, <1>5, <4>2, <5>1 DEF Joined
      <4> QED
        BY <4>1, <4>2
    <3> QED
      BY <3>1
  <2> HIDE DEF g
  <2>2. flatten = [i \in 1 .. n |-> IF i = 1 THEN seqs[i] ELSE flatten[i - 1] \o seqs[i]]
    BY <2>1
  <2>3. FlattenSeq(seqs) = flatten[n]
    BY <1>0, <1>7 DEF FlattenSeq
  <2> HIDE DEF flatten
  <2> DEFINE h == [i \in 0 .. n |-> IF i = 0 THEN << >> ELSE flatten[i]]
  <2>4. ASSUME NEW i \in 1 .. n, h[i - 1] = f[i - 1] PROVE h[i] = f[i]
    <3>1. CASE i = 1
      <4>1. h[1] = seqs[1]
        BY <1>1, <2>2, <3>1
      <4>0. 1 \in 1 .. Len(seqs) /\ 1 - 1 = 0
        BY <1>0, <3>1
      <4>2. f[1] = << >> \o seqs[1]
        BY <1>5, <4>0 DEF Joined
      <4> QED
        BY <1>1, <3>1, <4>1, <4>2, ConcatEmptySeq
    <3>2. CASE i # 1
      <4>1. flatten[i] = flatten[i - 1] \o seqs[i]
        BY <2>2, <3>2
      <4>2. h[i] = flatten[i] /\ h[i - 1] = flatten[i - 1]
        BY <3>2
      <4> HIDE DEF h
      <4> QED
        BY <1>0, <1>5, <2>4, <4>1, <4>2 DEF Joined
    <3> QED
      BY <3>1, <3>2
  <2>5. h[0] = f[0]
    BY <1>5 DEF Joined
  <2> DEFINE Same == {k \in Nat : k <= n => h[k] = f[k]}
  <2>6. 0 \in Same
    BY <2>5
  <2>7. ASSUME NEW k \in Nat, k \in Same PROVE k + 1 \in Same
    <3> SUFFICES ASSUME k + 1 <= n PROVE h[k + 1] = f[k + 1]
      OBVIOUS
    <3>1. h[k] = f[k] /\ k + 1 \in 1 .. n /\ (k + 1) - 1 = k
      BY <2>7
    <3> HIDE DEF h
    <3> QED
      BY <2>4, <3>1
  <2> HIDE DEF Same
  <2>8. n \in Same
    BY <2>6, <2>7, Induction
  <2>9. h[n] = flatten[n]
    BY <1>7
  <2> QED
    BY <1>5, <1>7, <2>3, <2>8, <2>9 DEF Same
<1> QED
  BY <1>5, <1>6, <1>7

\* What two joins give for their first n sequences is the same if those are.
LEMMA JoinedUnique ==
  ASSUME NEW n \in Nat, NEW s, NEW t, n <= Len(s), n <= Len(t),
         Len(s) \in Nat, Len(t) \in Nat, \A i \in 1 .. n : t[i] = s[i],
         NEW f, NEW g, Joined(f, s), Joined(g, t)
  PROVE  f[n] = g[n]
<1> DEFINE Same == {k \in Nat : k <= n => f[k] = g[k]}
<1>1. 0 \in Same
  BY DEF Joined
<1>2. ASSUME NEW k \in Nat, k \in Same PROVE k + 1 \in Same
  <2> SUFFICES ASSUME k + 1 <= n PROVE f[k + 1] = g[k + 1]
    OBVIOUS
  <2>1. /\ f[k] = g[k] /\ k + 1 \in 1 .. n /\ (k + 1) - 1 = k
        /\ k + 1 \in 1 .. Len(s) /\ k + 1 \in 1 .. Len(t)
    BY <1>2
  <2> QED
    BY <2>1 DEF Joined
<1> HIDE DEF Same
<1>3. n \in Same
  BY <1>1, <1>2, Induction
<1> QED
  BY <1>3 DEF Same

\* Joined, they are a sequence of the same elements.
LEMMA FlattenType ==
  ASSUME NEW V, NEW n \in Nat, NEW seqs \in [1 .. n -> Seq(V)]
  PROVE  FlattenSeq(seqs) \in Seq(V)
<1>1. PICK f \in [0 .. n -> Seq(V)] : Joined(f, seqs) /\ FlattenSeq(seqs) = f[n]
  BY FlattenValue
<1> QED
  BY <1>1

\* Flattening goes from left to right.
LEMMA FlattenEmpty == FlattenSeq(<< >>) = << >>
BY DEF FlattenSeq

\* One sequence more is joined to the right of all others.
LEMMA FlattenAppend ==
  ASSUME NEW V, NEW seqs \in Seq(Seq(V)), NEW s \in Seq(V)
  PROVE  /\ FlattenSeq(seqs) \in Seq(V)
         /\ FlattenSeq(Append(seqs, s)) = FlattenSeq(seqs) \o s
<1>1. PICK n \in Nat : n = Len(seqs) /\ seqs \in [1 .. n -> Seq(V)]
  BY LenProperties
<1> DEFINE more == Append(seqs, s)
<1>2. /\ more \in [1 .. n + 1 -> Seq(V)] /\ Len(more) = n + 1
      /\ \A i \in 1 .. n : more[i] = seqs[i]
      /\ more[n + 1] = s
  <2>1. /\ more \in Seq(Seq(V)) /\ Len(more) = n + 1
        /\ \A i \in 1 .. n : more[i] = seqs[i]
        /\ more[n + 1] = s
    BY <1>1, AppendProperties
  <2> QED
    BY <2>1, LenProperties
<1>3. PICK f \in [0 .. n -> Seq(V)] : Joined(f, seqs) /\ FlattenSeq(seqs) = f[n]
  BY <1>1, FlattenValue
<1> HIDE DEF more
<1>4. PICK g \in [0 .. n + 1 -> Seq(V)] : Joined(g, more) /\ FlattenSeq(more) = g[n + 1]
  <2>1. n + 1 \in Nat
    OBVIOUS
  <2> QED
    BY <1>2, <2>1, FlattenValue
<1>5. f[n] = g[n]
  <2>1. Len(seqs) = n /\ Len(more) = n + 1 /\ n + 1 \in Nat /\ n <= n + 1 /\ n <= n
    BY <1>1, <1>2
  <2>2. \A i \in 1 .. n : more[i] = seqs[i]
    BY <1>2
  <2>3. Joined(f, seqs) /\ Joined(g, more)
    BY <1>3, <1>4
  <2> QED
    BY <1>1, <2>1, <2>2, <2>3, JoinedUnique
<1>6. g[n + 1] = g[n] \o s
  <2>1. n + 1 \in 1 .. Len(more) /\ (n + 1) - 1 = n
    BY <1>2
  <2> QED
    BY <1>2, <1>4, <2>1 DEF Joined
<1> QED
  BY <1>3, <1>4, <1>5, <1>6 DEF more

-----------------------------------------------------------------------------
(* The folds of the community modules, over the positions of a sequence *)

\* The greatest of a set of positions is one of them.
LEMMA MaxOfPositions ==
  ASSUME NEW n \in Nat, NEW s \in SUBSET (1 .. n), s # {}
  PROVE  Max(s) \in s /\ \A i \in s : Max(s) >= i
<1> DEFINE below == {n - i : i \in s}
<1>1. below \subseteq Nat /\ below # {}
  OBVIOUS
<1>2. PICK m \in below : \A k \in below : m <= k
  BY <1>1, LeastNatural
<1>3. PICK i \in s : m = n - i
  OBVIOUS
<1>4. ASSUME NEW k \in s PROVE i >= k
  <2>1. n - i <= n - k
    BY <1>2, <1>3
  <2>2. i \in Nat /\ k \in Nat
    OBVIOUS
  <2> QED
    BY <2>1, <2>2
<1>5. \E x \in s : \A y \in s : x >= y
  BY <1>4
<1> QED
  BY <1>5 DEF Max

\* The least of a set of positions is one of them.
LEMMA MinOfPositions ==
  ASSUME NEW n \in Nat, NEW s \in SUBSET (1 .. n), s # {}
  PROVE  Min(s) \in s /\ \A i \in s : Min(s) <= i
<1>1. s \subseteq Nat
  OBVIOUS
<1>2. \E x \in s : \A y \in s : x <= y
  BY <1>1, LeastNatural
<1> QED
  BY <1>2 DEF Min

\* MapThenFoldSet takes the positions 1 .. i from the right.
LEMMA MaxOfInterval ==
  ASSUME NEW n \in Nat, NEW i \in 1 .. n
  PROVE  /\ 1 .. i \in SUBSET (1 .. n) /\ 1 .. i # {}
         /\ Max(1 .. i) = i
         /\ (1 .. i) \ {i} = 1 .. (i - 1)
<1>1. 1 .. i \in SUBSET (1 .. n) /\ i \in 1 .. i
  OBVIOUS
<1>2. Max(1 .. i) \in 1 .. i /\ Max(1 .. i) >= i
  BY <1>1, MaxOfPositions
<1> QED
  BY <1>1, <1>2

\* MapThenFoldSet takes the positions i .. n from the left.
LEMMA MinOfInterval ==
  ASSUME NEW n \in Nat, NEW i \in 1 .. n
  PROVE  /\ i .. n \in SUBSET (1 .. n) /\ i .. n # {}
         /\ Min(i .. n) = i
         /\ (i .. n) \ {i} = (i + 1) .. n
<1>1. i .. n \in SUBSET (1 .. n) /\ i \in i .. n
  OBVIOUS
<1>2. Min(i .. n) \in i .. n /\ Min(i .. n) <= i
  BY <1>1, MinOfPositions
<1> QED
  BY <1>1, <1>2

FoldsLeft(it, n, base, step) ==
  \A s \in SUBSET (1 .. n) :
    it[s] = IF s = {} THEN base ELSE step[Max(s)][it[s \ {Max(s)}]]

HasFold(V, n, base, step) ==
  \E it \in [SUBSET (1 .. n) -> V] : FoldsLeft(it, n, base, step)

\* The function behind FoldLeft exists: step[i] takes in the i-th element.
LEMMA FoldLeftExists ==
  ASSUME NEW V, NEW n \in Nat, NEW base \in V, NEW step \in [1 .. n -> [V -> V]]
  PROVE  HasFold(V, n, base, step)
<1> DEFINE Done == {k \in Nat : k <= n => HasFold(V, k, base, step)}
<1>1. 0 \in Done
  <2> DEFINE it == [s \in SUBSET (1 .. 0) |-> base]
  <2>1. it \in [SUBSET (1 .. 0) -> V]
    OBVIOUS
  <2>2. \A s \in SUBSET (1 .. 0) : s = {} /\ it[s] = base
    OBVIOUS
  <2>3. FoldsLeft(it, 0, base, step)
    BY <2>2 DEF FoldsLeft
  <2>4. HasFold(V, 0, base, step)
    BY <2>1, <2>3 DEF HasFold
  <2> QED
    BY <2>4
<1>2. ASSUME NEW k \in Nat, k \in Done PROVE k + 1 \in Done
  <2> SUFFICES ASSUME k + 1 <= n
               PROVE  HasFold(V, k + 1, base, step)
    OBVIOUS
  <2>0. HasFold(V, k, base, step)
    BY <1>2
  <2>1. PICK it \in [SUBSET (1 .. k) -> V] : FoldsLeft(it, k, base, step)
    BY <2>0 DEF HasFold
  <2> DEFINE more == [s \in SUBSET (1 .. k + 1) |->
                        IF k + 1 \in s THEN step[k + 1][it[s \ {k + 1}]] ELSE it[s]]
  <2>2. ASSUME NEW s \in SUBSET (1 .. k + 1)
        PROVE  s \ {k + 1} \in SUBSET (1 .. k) /\ (k + 1 \notin s => s \in SUBSET (1 .. k))
    OBVIOUS
  <2>3. more \in [SUBSET (1 .. k + 1) -> V]
    <3>1. step[k + 1] \in [V -> V]
      OBVIOUS
    <3> QED
      BY <2>2, <3>1
  <2>4. ASSUME NEW s \in SUBSET (1 .. k + 1)
        PROVE  more[s] = IF s = {} THEN base ELSE step[Max(s)][more[s \ {Max(s)}]]
    <3>1. CASE k + 1 \in s
      <4>1. Max(s) \in s /\ Max(s) >= k + 1
        <5>1. k + 1 \in Nat /\ s # {}
          BY <3>1
        <5> QED
          BY <3>1, <5>1, MaxOfPositions
      <4>2. Max(s) = k + 1
        <5>1. s \subseteq 1 .. k + 1
          OBVIOUS
        <5> HIDE DEF more
        <5>2. Max(s) \in 1 .. k + 1
          BY <4>1, <5>1
        <5> QED
          BY <4>1, <5>2
      <4>3. s \ {k + 1} \in SUBSET (1 .. k + 1) /\ k + 1 \notin s \ {k + 1}
        OBVIOUS
      <4>4. more[s \ {k + 1}] = it[s \ {k + 1}]
        BY <4>3
      <4> QED
        BY <3>1, <4>2, <4>4
    <3>2. CASE k + 1 \notin s
      <4>1. s \in SUBSET (1 .. k) /\ more[s] = it[s]
        BY <2>2, <3>2
      <4>2. CASE s = {}
        BY <2>1, <4>1, <4>2 DEF FoldsLeft
      <4>3. CASE s # {}
        <5>1. s \ {Max(s)} \in SUBSET (1 .. k) /\ s \ {Max(s)} \in SUBSET (1 .. k + 1)
          BY <4>1
        <5>2. more[s \ {Max(s)}] = it[s \ {Max(s)}]
          BY <3>2, <5>1
        <5> QED
          BY <2>1, <4>1, <4>3, <5>2 DEF FoldsLeft
      <4> QED
        BY <4>2, <4>3
    <3> QED
      BY <3>1, <3>2
  <2> HIDE DEF more
  <2>5. FoldsLeft(more, k + 1, base, step)
    BY <2>4 DEF FoldsLeft
  <2> QED
    BY <2>3, <2>5 DEF HasFold
<1> HIDE DEF Done
<1>3. n \in Done
  BY <1>1, <1>2, Induction
<1> QED
  BY <1>3 DEF Done

FoldsRight(it, a, n, base, step) ==
  \A s \in SUBSET (a .. n) :
    it[s] = IF s = {} THEN base ELSE step[Min(s)][it[s \ {Min(s)}]]

HasFoldRight(V, a, n, base, step) ==
  \E it \in [SUBSET (a .. n) -> V] : FoldsRight(it, a, n, base, step)

\* ... and the function behind FoldRight.
LEMMA FoldRightExists ==
  ASSUME NEW V, NEW n \in Nat, NEW base \in V, NEW step \in [1 .. n -> [V -> V]]
  PROVE  HasFoldRight(V, 1, n, base, step)
<1> DEFINE Done == {k \in Nat : k <= n => HasFoldRight(V, n + 1 - k, n, base, step)}
<1>1. 0 \in Done
  <2> DEFINE it == [s \in SUBSET ((n + 1) .. n) |-> base]
  <2>1. it \in [SUBSET ((n + 1) .. n) -> V]
    OBVIOUS
  <2>2. \A s \in SUBSET ((n + 1) .. n) : s = {} /\ it[s] = base
    OBVIOUS
  <2>3. FoldsRight(it, n + 1, n, base, step)
    BY <2>2 DEF FoldsRight
  <2>4. HasFoldRight(V, n + 1, n, base, step)
    BY <2>1, <2>3 DEF HasFoldRight
  <2>5. n + 1 - 0 = n + 1
    OBVIOUS
  <2> QED
    BY <2>4, <2>5
<1>2. ASSUME NEW k \in Nat, k \in Done PROVE k + 1 \in Done
  <2> SUFFICES ASSUME k + 1 <= n
               PROVE  HasFoldRight(V, n + 1 - (k + 1), n, base, step)
    OBVIOUS
  <2>0. HasFoldRight(V, n + 1 - k, n, base, step)
    BY <1>2
  <2>1. PICK a \in 1 .. n : a = n + 1 - (k + 1) /\ a + 1 = n + 1 - k
    OBVIOUS
  <2>2. PICK it \in [SUBSET ((a + 1) .. n) -> V] : FoldsRight(it, a + 1, n, base, step)
    BY <2>0, <2>1 DEF HasFoldRight
  <2> DEFINE more == [s \in SUBSET (a .. n) |->
                        IF a \in s THEN step[a][it[s \ {a}]] ELSE it[s]]
  <2>3. ASSUME NEW s \in SUBSET (a .. n)
        PROVE  s \ {a} \in SUBSET ((a + 1) .. n) /\ (a \notin s => s \in SUBSET ((a + 1) .. n))
    OBVIOUS
  <2>4. more \in [SUBSET (a .. n) -> V]
    <3>1. step[a] \in [V -> V]
      OBVIOUS
    <3> QED
      BY <2>3, <3>1
  <2>5. ASSUME NEW s \in SUBSET (a .. n)
        PROVE  more[s] = IF s = {} THEN base ELSE step[Min(s)][more[s \ {Min(s)}]]
    <3>1. CASE a \in s
      <4>1. Min(s) \in s /\ Min(s) <= a
        <5>1. s # {} /\ s \in SUBSET (1 .. n)
          BY <3>1
        <5> QED
          BY <3>1, <5>1, MinOfPositions
      <4>2. Min(s) = a
        <5>1. s \subseteq a .. n
          OBVIOUS
        <5> HIDE DEF more
        <5>2. Min(s) \in a .. n
          BY <4>1, <5>1
        <5> QED
          BY <4>1, <5>2
      <4>3. s \ {a} \in SUBSET (a .. n) /\ a \notin s \ {a}
        OBVIOUS
      <4>4. more[s \ {a}] = it[s \ {a}]
        BY <4>3
      <4> QED
        BY <3>1, <4>2, <4>4
    <3>2. CASE a \notin s
      <4>1. s \in SUBSET ((a + 1) .. n) /\ more[s] = it[s]
        BY <2>3, <3>2
      <4>2. CASE s = {}
        BY <2>2, <4>1, <4>2 DEF FoldsRight
      <4>3. CASE s # {}
        <5>1. s \ {Min(s)} \in SUBSET ((a + 1) .. n) /\ s \ {Min(s)} \in SUBSET (a .. n)
          BY <4>1
        <5>2. more[s \ {Min(s)}] = it[s \ {Min(s)}]
          BY <3>2, <5>1
        <5> QED
          BY <2>2, <4>1, <4>3, <5>2 DEF FoldsRight
      <4> QED
        BY <4>2, <4>3
    <3> QED
      BY <3>1, <3>2
  <2> HIDE DEF more
  <2>6. FoldsRight(more, a, n, base, step)
    BY <2>5 DEF FoldsRight
  <2> QED
    BY <2>1, <2>4, <2>6 DEF HasFoldRight
<1> HIDE DEF Done
<1>3. n \in Done
  BY <1>1, <1>2, Induction
<1>4. n + 1 - n = 1
  OBVIOUS
<1> QED
  BY <1>3, <1>4 DEF Done

Associative(V) == \A x, y, z \in Seq(V) : (x \o y) \o z = x \o (y \o z)

\* Joining is associative.
LEMMA ThreeInARow ==
  ASSUME NEW V
  PROVE  Associative(V)
BY ConcatAssociative DEF Associative

\* ... for sequences that have names.
LEMMA JoinedTwice ==
  ASSUME NEW V, NEW x \in Seq(V), NEW y \in Seq(V), NEW z \in Seq(V),
         NEW xy, xy = x \o y, NEW yz, yz = y \o z
  PROVE  xy \o z = x \o yz
<1>1. Associative(V)
  BY ThreeInARow
<1> QED
  BY <1>1 DEF Associative

\* A sequence that comes before all others is joined to their left.
LEMMA FlattenFirst ==
  ASSUME NEW V, NEW n \in Nat, NEW seqs \in [1 .. n -> Seq(V)],
         NEW more \in [1 .. n + 1 -> Seq(V)], \A i \in 1 .. n : more[i + 1] = seqs[i]
  PROVE  /\ FlattenSeq(seqs) \in Seq(V)
         /\ FlattenSeq(more) = more[1] \o FlattenSeq(seqs)
<1>1. PICK f \in [0 .. n -> Seq(V)] : Joined(f, seqs) /\ FlattenSeq(seqs) = f[n]
  BY FlattenValue
<1>2. n + 1 \in Nat /\ Len(seqs) = n /\ Len(more) = n + 1
  OBVIOUS
<1>3. PICK g \in [0 .. n + 1 -> Seq(V)] : Joined(g, more) /\ FlattenSeq(more) = g[n + 1]
  <2>1. ASSUME NEW m \in Nat, m = n + 1
        PROVE  \E g \in [0 .. m -> Seq(V)] : Joined(g, more) /\ FlattenSeq(more) = g[m]
    <3>1. more \in [1 .. m -> Seq(V)]
      BY <2>1
    <3> QED
      BY <3>1, FlattenValue
  <2> QED
    BY <1>2, <2>1
<1> DEFINE good == {k \in Nat : k <= n => g[k + 1] = more[1] \o f[k]}
<1>4. more[1] \in Seq(V)
  OBVIOUS
<1>5. 0 \in good
  <2>1. g[0] = << >> /\ f[0] = << >>
    BY <1>1, <1>3 DEF Joined
  <2>2. 1 \in 1 .. Len(more) /\ 1 - 1 = 0 /\ 0 + 1 = 1
    BY <1>2
  <2>3. g[1] = g[0] \o more[1]
    BY <1>3, <2>2 DEF Joined
  <2>4. << >> \o more[1] = more[1] /\ more[1] \o << >> = more[1]
    BY <1>4, ConcatEmptySeq
  <2> QED
    BY <2>1, <2>2, <2>3, <2>4
<1>6. ASSUME NEW k \in Nat, k \in good PROVE k + 1 \in good
  <2> SUFFICES ASSUME k + 1 <= n PROVE g[(k + 1) + 1] = more[1] \o f[k + 1]
    <3>1. k + 1 \in Nat
      OBVIOUS
    <3> QED
      BY <3>1, Zenon
  <2> PICK m \in Nat : m = k + 1
    OBVIOUS
  <2>0. k <= n => g[k + 1] = more[1] \o f[k]
    BY <1>6, Zenon
  <2> HIDE DEF good
  <2>1. /\ m \in 1 .. n /\ m - 1 = k /\ m \in 1 .. Len(seqs) /\ m + 1 \in 1 .. Len(more)
        /\ (m + 1) - 1 = m /\ k \in 0 .. n
    BY <1>2
  <2>2. g[m] = more[1] \o f[k]
    <3>1. k <= n
      BY <2>1
    <3> QED
      BY <2>0, <3>1, Zenon
  <2>3. f[m] = f[k] \o seqs[m]
    BY <1>1, <2>1 DEF Joined
  <2>4. g[m + 1] = g[m] \o more[m + 1]
    BY <1>3, <2>1 DEF Joined
  <2>5. more[m + 1] = seqs[m]
    BY <2>1
  <2>6. f[k] \in Seq(V) /\ seqs[m] \in Seq(V)
    BY <2>1
  <2>7. g[m] \o seqs[m] = more[1] \o f[m]
    <3>1. PICK x, y, z, xy, yz : /\ x = more[1] /\ y = f[k] /\ z = seqs[m]
                                 /\ xy = g[m] /\ yz = f[m]
      OBVIOUS
    <3>2. x \in Seq(V) /\ y \in Seq(V) /\ z \in Seq(V)
      BY <3>1, <1>4, <2>6, Zenon
    <3>3. xy = x \o y /\ yz = y \o z
      BY <3>1, <2>2, <2>3, Zenon
    <3>4. xy \o z = x \o yz
      <4>1. Associative(V)
        BY ThreeInARow
      <4>2. (x \o y) \o z = x \o (y \o z)
        BY ONLY <3>2, <4>1 DEF Associative
      <4> QED
        BY <3>3, <4>2
    <3> QED
      BY <3>1, <3>4, Zenon
  <2>8. g[m + 1] = more[1] \o f[m]
    BY <2>4, <2>5, <2>7, Zenon
  <2> QED
    BY <2>8, Zenon
<1> HIDE DEF good
<1>7. n \in good
  BY <1>5, <1>6, Induction
<1> QED
  BY <1>1, <1>3, <1>7 DEF good

\* What two sequences hold, joined.
LEMMA RangeOfJoined ==
  ASSUME NEW V, NEW a \in Seq(V), NEW b \in Seq(V)
  PROVE  /\ a \o b \in Seq(V) /\ Len(a \o b) = Len(a) + Len(b)
         /\ DOMAIN (a \o b) = 1 .. Len(a) + Len(b)
         /\ \A k \in 1 .. Len(a) : (a \o b)[k] = a[k]
         /\ \A k \in 1 .. Len(b) : Len(a) + k \in DOMAIN (a \o b) /\ (a \o b)[Len(a) + k] = b[k]
         /\ Range(a \o b) = Range(a) \union Range(b)
<1> DEFINE c == a \o b
           n == Len(a)
           m == Len(b)
<1>1. n \in Nat /\ m \in Nat /\ DOMAIN a = 1 .. n /\ DOMAIN b = 1 .. m
  OBVIOUS
<1>2. /\ c \in Seq(V) /\ Len(c) = n + m
      /\ \A k \in 1 .. n + m : c[k] = IF k <= n THEN a[k] ELSE b[k - n]
  BY ConcatProperties
<1>3. DOMAIN c = 1 .. n + m
  BY <1>2, LenProperties
<1> HIDE DEF c, n, m
<1>4. \A k \in 1 .. n : k \in DOMAIN c /\ c[k] = a[k]
  BY <1>1, <1>2, <1>3
<1>5. ASSUME NEW k \in 1 .. m PROVE n + k \in DOMAIN c /\ c[n + k] = b[k]
  <2>1. n + k \in 1 .. n + m /\ ~(n + k <= n) /\ (n + k) - n = k
    BY <1>1
  <2> QED
    BY <2>1, <1>2, <1>3
<1>6. ASSUME NEW k \in DOMAIN c PROVE c[k] \in Range(a) \union Range(b)
  <2>1. CASE k <= n
    <3>1. k \in DOMAIN a /\ c[k] = a[k]
      BY <1>1, <1>2, <1>3, <2>1
    <3> QED
      BY <3>1 DEF Range
  <2>2. CASE ~(k <= n)
    <3>1. k - n \in DOMAIN b /\ c[k] = b[k - n]
      BY <1>1, <1>2, <1>3, <2>2
    <3> QED
      BY <3>1 DEF Range
  <2> QED
    BY <2>1, <2>2
<1>7. Range(c) = Range(a) \union Range(b)
  BY <1>1, <1>4, <1>5, <1>6 DEF Range
<1> QED
  BY <1>1, <1>2, <1>3, <1>4, <1>5, <1>7 DEF c, n, m

\* Every sequence is in what they are joined to.
LEMMA FlattenHolds ==
  ASSUME NEW V, NEW n \in Nat, NEW seqs \in [1 .. n -> Seq(V)], NEW i \in 1 .. n
  PROVE  Range(seqs[i]) \subseteq Range(FlattenSeq(seqs))
<1>1. PICK f \in [0 .. n -> Seq(V)] : Joined(f, seqs) /\ FlattenSeq(seqs) = f[n]
  BY FlattenValue
<1>2. Len(seqs) = n
  OBVIOUS
<1>3. \A k \in 1 .. n : f[k] = f[k - 1] \o seqs[k]
  BY <1>1, <1>2 DEF Joined
<1> DEFINE good == {k \in Nat : k <= n /\ i <= k => Range(seqs[i]) \subseteq Range(f[k])}
<1>4. 0 \in good
  OBVIOUS
<1>5. ASSUME NEW k \in Nat, k \in good PROVE k + 1 \in good
  <2> SUFFICES ASSUME k + 1 <= n, i <= k + 1 PROVE Range(seqs[i]) \subseteq Range(f[k + 1])
    OBVIOUS
  <2>1. k + 1 \in 1 .. n /\ (k + 1) - 1 = k /\ k \in 0 .. n
    OBVIOUS
  <2>2. f[k] \in Seq(V) /\ seqs[k + 1] \in Seq(V) /\ f[k + 1] = f[k] \o seqs[k + 1]
    BY <1>3, <2>1
  <2>3. Range(f[k + 1]) = Range(f[k]) \union Range(seqs[k + 1])
    BY <2>2, RangeOfJoined
  <2>4. CASE i = k + 1
    BY <2>3, <2>4
  <2>5. CASE i # k + 1
    <3>1. k <= n /\ i <= k
      BY <2>1, <2>5
    <3>2. Range(seqs[i]) \subseteq Range(f[k])
      BY <1>5, <3>1
    <3> QED
      BY <2>3, <3>2
  <2> QED
    BY <2>4, <2>5
<1> HIDE DEF good
<1>6. n \in good
  BY <1>4, <1>5, Induction
<1> QED
  BY <1>1, <1>6 DEF good
-----------------------------------------------------------------------------
(* Recursion along the structure of trees *)

\* kids[d] are the trees that d is made of, each of less height than d.
AreTrees(T, kids, height) ==
  /\ kids \in [T -> Seq(T)] /\ height \in [T -> Nat]
  /\ \A d \in T : \A k \in 1 .. Len(kids[d]) : height[kids[d][k]] < height[d]

OfKids(f, kids) == [k \in 1 .. Len(kids) |-> f[kids[k]]]

\* step[d] makes the value of d of those of its elements.
IsStep(step, T, V) == \A d \in T : \A s \in Seq(V) : step[d][s] \in V

\* f is what the recursion says, for the trees of less height than n.
Defined(f, n, T, kids, height, step) ==
  \A d \in T : height[d] < n => f[d] = step[d][OfKids(f, kids[d])]

\* f has the value on every tree that the recursion says.
SolvesOn(f, T, V, kids, step) ==
  f \in [T -> V] /\ \A d \in T : f[d] = step[d][OfKids(f, kids[d])]

\* f and g agree on the trees of less height than n.
Agree(f, g, n, T, height) == \A d \in T : height[d] < n => f[d] = g[d]

\* In trees, elements are trees and heights are numbers.
LEMMA TreeFacts ==
  ASSUME NEW T, NEW kids, NEW height, AreTrees(T, kids, height), NEW d \in T
  PROVE  /\ kids[d] \in Seq(T) /\ height[d] \in Nat
         /\ \A k \in 1 .. Len(kids[d]) : kids[d][k] \in T /\ height[kids[d][k]] < height[d]
<1>1. kids[d] \in Seq(T) /\ height[d] \in Nat
  BY DEF AreTrees
<1>2. \A k \in 1 .. Len(kids[d]) : kids[d][k] \in T
  BY <1>1, ElementOfSeq
<1> QED
  BY <1>1, <1>2 DEF AreTrees

\* What a function makes of the elements of a tree is a sequence of its values.
LEMMA OfKidsSeq ==
  ASSUME NEW T, NEW V, NEW f \in [T -> V], NEW s \in Seq(T)
  PROVE  OfKids(f, s) \in Seq(V) /\ Len(OfKids(f, s)) = Len(s)
<1>1. PICK n \in Nat : n = Len(s) /\ s \in [1 .. n -> T]
  BY LenProperties
<1>2. OfKids(f, s) = [k \in 1 .. n |-> f[s[k]]]
  BY <1>1 DEF OfKids
<1>3. \A k \in 1 .. n : f[s[k]] \in V
  BY <1>1
<1> QED
  BY <1>1, <1>2, <1>3

\* Two functions that agree below the height of a tree make the same of its elements.
LEMMA OfKidsSame ==
  ASSUME NEW T, NEW kids, NEW height, AreTrees(T, kids, height),
         NEW one, NEW two, NEW d \in T, Agree(one, two, height[d], T, height)
  PROVE  OfKids(one, kids[d]) = OfKids(two, kids[d])
<1>1. \A k \in 1 .. Len(kids[d]) : one[kids[d][k]] = two[kids[d][k]]
  BY TreeFacts DEF Agree
<1> QED
  BY <1>1 DEF OfKids

\* A recursion along the height of trees defines a function up to any height, ...
LEMMA TreeRecursionUpTo ==
  ASSUME NEW T, NEW kids, NEW height, AreTrees(T, kids, height),
         NEW V, V # {}, NEW step, IsStep(step, T, V)
  PROVE  \A n \in Nat : \E f \in [T -> V] : Defined(f, n, T, kids, height, step)
<1>0. \A d \in T : kids[d] \in Seq(T) /\ height[d] \in Nat
  BY TreeFacts
<1> DEFINE Done == {n \in Nat : \E f \in [T -> V] : Defined(f, n, T, kids, height, step)}
<1>1. 0 \in Done
  <2>1. PICK v \in V : TRUE
    OBVIOUS
  <2> DEFINE f == [d \in T |-> v]
  <2>2. f \in [T -> V] /\ \A d \in T : ~(height[d] < 0)
    BY <1>0
  <2> HIDE DEF f
  <2>3. Defined(f, 0, T, kids, height, step)
    BY <2>2 DEF Defined
  <2> QED
    BY <2>2, <2>3
<1>2. ASSUME NEW n \in Nat, n \in Done PROVE n + 1 \in Done
  <2>1. PICK f \in [T -> V] : Defined(f, n, T, kids, height, step)
    BY <1>2
  <2> PICK g : g = [d \in T |-> step[d][OfKids(f, kids[d])]]
    OBVIOUS
  <2>2. g \in [T -> V]
    <3>1. ASSUME NEW d \in T PROVE step[d][OfKids(f, kids[d])] \in V
      <4>1. OfKids(f, kids[d]) \in Seq(V)
        BY <1>0, OfKidsSeq
      <4> QED
        BY <4>1 DEF IsStep
    <3> QED
      BY <3>1
  <2>3. \A d \in T : height[d] < n => g[d] = f[d]
    BY <2>1 DEF Defined
  <2>4. ASSUME NEW d \in T, height[d] < n + 1 PROVE g[d] = step[d][OfKids(g, kids[d])]
    <3>1. Agree(g, f, height[d], T, height)
      BY <1>0, <2>3, <2>4 DEF Agree
    <3>2. OfKids(g, kids[d]) = OfKids(f, kids[d])
      BY <3>1, OfKidsSame
    <3> QED
      BY <3>2
  <2>5. Defined(g, n + 1, T, kids, height, step)
    BY <2>4 DEF Defined
  <2> QED
    BY <2>2, <2>5
<1> HIDE DEF Done
<1>3. \A n \in Nat : n \in Done
  BY <1>1, <1>2, Induction
<1> QED
  BY <1>3 DEF Done

\* ... which is the only one there, ...
LEMMA TreeRecursionUnique ==
  ASSUME NEW T, NEW kids, NEW height, AreTrees(T, kids, height),
         NEW step, NEW m \in Nat, NEW f, NEW g,
         Defined(f, m, T, kids, height, step), Defined(g, m, T, kids, height, step)
  PROVE  Agree(f, g, m, T, height)
<1>0. \A d \in T : kids[d] \in Seq(T) /\ height[d] \in Nat
  BY TreeFacts
<1> DEFINE Same == {n \in Nat : n <= m => \A d \in T : height[d] < n => f[d] = g[d]}
<1>1. 0 \in Same
  BY <1>0
<1>2. ASSUME NEW n \in Nat, n \in Same PROVE n + 1 \in Same
  <2> SUFFICES ASSUME n + 1 <= m, NEW d \in T, height[d] < n + 1 PROVE f[d] = g[d]
    OBVIOUS
  <2>1. Agree(f, g, height[d], T, height)
    BY <1>0, <1>2 DEF Agree
  <2>2. OfKids(f, kids[d]) = OfKids(g, kids[d])
    BY <2>1, OfKidsSame
  <2>3. height[d] < m
    BY <1>0
  <2> QED
    BY <2>2, <2>3 DEF Defined
<1> HIDE DEF Same
<1>3. m \in Same
  BY <1>1, <1>2, Induction
<1> QED
  BY <1>3 DEF Same, Agree

\* ... and so a function on all trees.
LEMMA TreeRecursion ==
  ASSUME NEW T, NEW kids, NEW height, AreTrees(T, kids, height),
         NEW V, V # {}, NEW step, IsStep(step, T, V)
  PROVE  \E f : SolvesOn(f, T, V, kids, step)
<1>0. \A d \in T : kids[d] \in Seq(T) /\ height[d] \in Nat
  BY TreeFacts
<1> DEFINE UpTo(n) == CHOOSE f \in [T -> V] : Defined(f, n, T, kids, height, step)
           f == [d \in T |-> UpTo(height[d] + 1)[d]]
<1>1. \A n \in Nat : UpTo(n) \in [T -> V] /\ Defined(UpTo(n), n, T, kids, height, step)
  BY TreeRecursionUpTo
<1> HIDE DEF UpTo
<1>2. \A d \in T : height[d] + 1 \in Nat /\ f[d] = UpTo(height[d] + 1)[d]
  BY <1>0
<1>3. f \in [T -> V]
  BY <1>0, <1>1
<1> HIDE DEF f
<1>4. ASSUME NEW d \in T PROVE f[d] = step[d][OfKids(f, kids[d])]
  <2> PICK g : g = UpTo(height[d] + 1)
    OBVIOUS
  <2>1. Defined(g, height[d] + 1, T, kids, height, step)
    BY <1>1, <1>2
  <2>2. ASSUME NEW e \in T, height[e] < height[d] PROVE f[e] = g[e]
    <3> DEFINE m == height[e] + 1
               h == UpTo(m)
    <3>1. m \in Nat /\ Defined(h, m, T, kids, height, step) /\ height[e] < m
      BY <1>0, <1>1, <1>2
    <3>2. Defined(g, m, T, kids, height, step)
      <4>1. \A x \in T : height[x] < m => height[x] < height[d] + 1
        BY <1>0, <2>2
      <4> HIDE DEF m
      <4> QED
        BY <2>1, <4>1 DEF Defined
    <3>3. f[e] = h[e]
      BY <1>2
    <3> HIDE DEF h, m
    <3>4. Agree(h, g, m, T, height)
      BY <3>1, <3>2, TreeRecursionUnique
    <3> QED
      BY <3>1, <3>3, <3>4 DEF Agree
  <2>3. f[d] = g[d]
    BY <1>2
  <2>4. OfKids(f, kids[d]) = OfKids(g, kids[d])
    <3>1. Agree(f, g, height[d], T, height)
      BY <2>2 DEF Agree
    <3> QED
      BY <3>1, OfKidsSame
  <2>5. height[d] < height[d] + 1
    BY <1>0
  <2>6. g[d] = step[d][OfKids(g, kids[d])]
    BY <2>1, <2>5 DEF Defined
  <2> QED
    BY <2>3, <2>4, <2>6
<1> QED
  BY <1>3, <1>4 DEF SolvesOn
=============================================================================
