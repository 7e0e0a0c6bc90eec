-------------------------- MODULE ResourceKeysProofs --------------------------
(***************************************************************************)
(* Proofs about the keys of resource_leases, for raw paths of any length   *)
(* over any names.  A fold of the community modules is a CHOOSE of a       *)
(* recursive function over finite sets; the first two sections show that   *)
(* function exists and turn Kept and Joined into one step per part, and    *)
(* induction is a least counterexample (Walk).  The argument is then that  *)
(* names hold no slash: closed by one, the text of one path begins another *)
(* exactly when its names do (PrefixesAgree).                              *)
(***************************************************************************)
EXTENDS MCResourceKeys, FiniteSetTheorems, WellFoundedInduction, TLAPS

\* A set of numbers with a member has a least one.
LEMMA LeastNatural ==
  ASSUME NEW T \in SUBSET Nat, T # {}
  PROVE  \E x \in T : \A y \in T : x <= y
<1> DEFINE R == OpToRel(<, Nat)
<1>1. IsWellFoundedOn(R, Nat)
  BY NatLessThanWellFounded
<1>2. \A x, y \in T : x < y <=> <<x, y>> \in R
  BY DEF OpToRel
<1> HIDE DEF R
<1>3. PICK x \in T : \A y \in T : <<y, x>> \notin R
  BY <1>1, WFMin
<1>4. ASSUME NEW y \in T
      PROVE  x <= y
  <2>1. ~(y < x) /\ x \in Nat /\ y \in Nat
    BY <1>2, <1>3
  <2>2. QED
    BY <2>1
<1>5. QED
  BY <1>4

\* What holds at 0 and from each step to the next holds at every step of a walk.
LEMMA Walk ==
  ASSUME NEW n \in Nat, NEW S, 0 \in S, \A k \in 0..n-1 : k \in S => k + 1 \in S
  PROVE  0..n \subseteq S
<1> DEFINE T == (0..n) \ S
<1>1. ASSUME T # {}
      PROVE  FALSE
  <2>1. PICK k \in T : \A l \in T : k <= l
    <3>1. T \in SUBSET Nat
      OBVIOUS
    <3> HIDE DEF T
    <3>2. QED
      BY <1>1, <3>1, LeastNatural
  <2>2. k \in 1..n /\ k - 1 \in 0..n-1 /\ ~(k <= k - 1) /\ (k - 1) + 1 = k /\ k - 1 \in 0..n
    BY <2>1
  <2>3. k - 1 \in S
    BY <2>1, <2>2
  <2>4. QED
    BY <2>1, <2>2, <2>3
<1>2. QED
  BY <1>1

LEMMA MaxIs ==
  ASSUME NEW k \in Nat, NEW s \in SUBSET (1..k), k \in s
  PROVE  Max(s) = k
<1>1. \A y \in s : k >= y
  OBVIOUS
<1>2. \A x \in s : (\A y \in s : x >= y) => x = k
  OBVIOUS
<1>3. QED
  BY <1>1, <1>2 DEF Max

LEMMA MaxIn ==
  ASSUME NEW k \in Nat, NEW s \in SUBSET (1..k), s # {}
  PROVE  Max(s) \in s
<1> DEFINE T == {x \in 0..k : k - x \in s}
<1>1. ASSUME NEW y \in s
      PROVE  k - y \in T
  <2>1. y \in 1..k /\ k - (k - y) = y /\ k - y \in 0..k
    OBVIOUS
  <2>2. QED
    BY <2>1
<1>2. T \in SUBSET Nat
  OBVIOUS
<1>3. T # {}
  BY <1>1
<1>4. PICK x \in T : \A z \in T : x <= z
  BY <1>2, <1>3, LeastNatural
<1>5. ASSUME NEW y \in s
      PROVE  k - x >= y
  <2>1. k - y \in T
    BY <1>1
  <2>2. x <= k - y
    BY <1>4, <2>1
  <2>3. x \in 0..k /\ y \in 1..k
    BY <1>4
  <2> HIDE DEF T
  <2>4. QED
    BY <2>2, <2>3
<1>6. \E z \in s : \A y \in s : z >= y
  BY <1>4, <1>5
<1>7. QED
  BY <1>6 DEF Max

-----------------------------------------------------------------------------
(***************************************************************************)
(* A fold over the numbers 1..n that takes the largest first.              *)
(***************************************************************************)
Folding(g, F, base, D) ==
  g = [s \in SUBSET D |-> IF s = {} THEN base ELSE F[Max(s), g[s \ {Max(s)}]]]

LEMMA FoldGoesOn ==
  ASSUME NEW n \in Nat, NEW V, NEW base \in V, NEW F \in [(1..n) \X V -> V],
         NEW k \in 0..n-1, NEW g \in [SUBSET (1..k) -> V], Folding(g, F, base, 1..k)
  PROVE  \E h \in [SUBSET (1..(k+1)) -> V] : Folding(h, F, base, 1..(k+1))
<1> DEFINE D == SUBSET (1..(k+1))
           h == [s \in D |-> IF k + 1 \in s THEN F[k + 1, g[s \ {k + 1}]] ELSE g[s]]
<1>1. \A s \in D : s \ {k + 1} \in SUBSET (1..k) /\ (k + 1 \notin s => s \in SUBSET (1..k))
  OBVIOUS
<1>2. k + 1 \in 1..n /\ k + 1 \in Nat
  OBVIOUS
<1>3. ASSUME NEW s \in D
      PROVE  h[s] \in V
  <2>1. CASE k + 1 \in s
    <3>1. g[s \ {k + 1}] \in V
      BY <1>1
    <3>2. h[s] = F[k + 1, g[s \ {k + 1}]]
      BY <2>1
    <3> HIDE DEF h
    <3>3. QED
      BY <1>2, <3>1, <3>2
  <2>2. CASE k + 1 \notin s
    BY <1>1, <2>2
  <2>3. QED
    BY <2>1, <2>2
<1>4. ASSUME NEW s \in D, s # {}
      PROVE  h[s] = F[Max(s), h[s \ {Max(s)}]]
  <2>1. CASE k + 1 \in s
    <3>1. Max(s) = k + 1
      BY <1>2, <2>1, MaxIs
    <3>2. s \ {k + 1} \in D /\ h[s \ {k + 1}] = g[s \ {k + 1}]
      BY <1>1
    <3>3. h[s] = F[k + 1, g[s \ {k + 1}]]
      BY <2>1
    <3> HIDE DEF h
    <3>4. QED
      BY <3>1, <3>2, <3>3
  <2>2. CASE k + 1 \notin s
    <3>1. s \in SUBSET (1..k) /\ s \ {Max(s)} \in SUBSET (1..k) /\ s \ {Max(s)} \in D
      BY <1>1, <2>2
    <3>2. g[s] = F[Max(s), g[s \ {Max(s)}]]
      BY <1>4, <3>1 DEF Folding
    <3>3. h[s] = g[s] /\ h[s \ {Max(s)}] = g[s \ {Max(s)}]
      BY <2>2, <3>1
    <3> HIDE DEF h
    <3>4. QED
      BY <3>2, <3>3
  <2>3. QED
    BY <2>1, <2>2
<1>5. h[{}] = base
  BY DEF Folding
<1>6. h \in [D -> V]
  BY <1>3
<1> HIDE DEF h
<1>7. h = [s \in D |-> IF s = {} THEN base ELSE F[Max(s), h[s \ {Max(s)}]]]
  BY <1>4, <1>5, <1>6
<1>8. QED
  BY <1>6, <1>7 DEF Folding

LEMMA FoldExists ==
  ASSUME NEW n \in Nat, NEW V, NEW base \in V, NEW F \in [(1..n) \X V -> V]
  PROVE  \E g \in [SUBSET (1..n) -> V] : Folding(g, F, base, 1..n)
<1> DEFINE S == {k \in 0..n : \E g \in [SUBSET (1..k) -> V] : Folding(g, F, base, 1..k)}
<1>1. 0 \in S
  <2> DEFINE g == [s \in SUBSET (1..0) |-> base]
  <2>1. \A s \in SUBSET (1..0) : s = {}
    OBVIOUS
  <2>2. g \in [SUBSET (1..0) -> V] /\ Folding(g, F, base, 1..0)
    BY <2>1 DEF Folding
  <2>3. QED
    BY <2>2
<1>2. ASSUME NEW k \in 0..n-1, k \in S
      PROVE  k + 1 \in S
  <2>1. PICK g \in [SUBSET (1..k) -> V] : Folding(g, F, base, 1..k)
    BY <1>2
  <2>2. \E h \in [SUBSET (1..(k+1)) -> V] : Folding(h, F, base, 1..(k+1))
    BY <2>1, FoldGoesOn
  <2>3. QED
    BY <2>2
<1> HIDE DEF S
<1>3. n \in S
  <2>1. 0..n \subseteq S
    BY <1>1, <1>2, Walk
  <2>2. QED
    BY <2>1
<1>4. QED
  BY <1>3 DEF S

Unfolds(it, F, base, V, D) ==
  /\ it[{}] = base
  /\ \A s \in SUBSET D :
       s # {} /\ it[s \ {Max(s)}] \in V => it[s] = F[Max(s), it[s \ {Max(s)}]]

Walked(j, it, F, base, V, n) ==
  /\ j \in [0..n -> V]
  /\ j[0] = base /\ j[n] = it[1..n]
  /\ \A k \in 1..n : j[k] = F[k, j[k-1]]

LEMMA FoldWalks ==
  ASSUME NEW n \in Nat, NEW V, NEW base \in V, NEW F \in [(1..n) \X V -> V], NEW it,
         Unfolds(it, F, base, V, 1..n)
  PROVE  \E j : Walked(j, it, F, base, V, n)
<1> DEFINE j == [k \in 0..n |-> it[1..k]]
<1>1. j[0] = base /\ j[n] = it[1..n]
  <2>1. 1..0 = {} /\ 0 \in 0..n /\ n \in 0..n
    OBVIOUS
  <2>2. it[{}] = base
    BY DEF Unfolds
  <2>3. QED
    BY <2>1, <2>2
<1>2. ASSUME NEW k \in 1..n, j[k-1] \in V
      PROVE  j[k] = F[k, j[k-1]] /\ j[k] \in V
  <2>1. k \in Nat /\ 1 <= k /\ k <= n /\ k \in 0..n /\ k - 1 \in 0..n
    OBVIOUS
  <2>2. 1..k \in SUBSET (1..n) /\ 1..k \in SUBSET (1..k) /\ k \in 1..k
    BY <2>1
  <2>3. Max(1..k) = k
    BY <2>1, <2>2, MaxIs
  <2>4. (1..k) \ {k} = 1..(k-1)
    BY <2>1
  <2>5. j[k] = it[1..k] /\ j[k-1] = it[1..(k-1)]
    BY <2>1
  <2> HIDE DEF j
  <2>6. j[k] = F[k, j[k-1]]
    BY <1>2, <2>2, <2>3, <2>4, <2>5 DEF Unfolds
  <2>7. QED
    BY <1>2, <2>6
<1>3. \A k \in 0..n : j[k] \in V
  <2> DEFINE S == {k \in 0..n : j[k] \in V}
  <2>1. 0 \in S
    BY <1>1
  <2>2. ASSUME NEW k \in 0..n-1, k \in S
        PROVE  k + 1 \in S
    <3>1. k + 1 \in 1..n /\ (k + 1) - 1 = k /\ k + 1 \in 0..n
      OBVIOUS
    <3>2. j[k] \in V
      BY <2>2
    <3> HIDE DEF j
    <3>3. j[k + 1] \in V
      BY <1>2, <3>1, <3>2
    <3>4. QED
      BY <3>1, <3>3
  <2> HIDE DEF S
  <2>3. 0..n \subseteq S
    BY <2>1, <2>2, Walk
  <2>4. QED
    BY <2>3 DEF S
<1>4. \A k \in 1..n : k - 1 \in 0..n
  OBVIOUS
<1>5. j \in [0..n -> V]
  BY <1>3
<1> HIDE DEF j
<1>6. Walked(j, it, F, base, V, n)
  BY <1>1, <1>2, <1>3, <1>4, <1>5 DEF Walked
<1>7. QED
  BY <1>6

(***************************************************************************)
(* The key of a list of parts, part by part.                               *)
(***************************************************************************)
LEMMA JoinedIsSpelled ==
  ASSUME NEW Char, Slash \in Char, NEW parts \in Seq(Seq(Char))
  PROVE  \E j \in [0..Len(parts) -> Seq(Char)] :
           /\ j[0] = << >> /\ Joined(parts) = j[Len(parts)]
           /\ \A k \in 1..Len(parts) :
                j[k] = IF j[k-1] = << >> THEN parts[k] ELSE j[k-1] \o <<Slash>> \o parts[k]
<1> DEFINE n == Len(parts)
           V == Seq(Char)
           F == [p \in (1..n) \X V |->
                   IF p[2] = << >> THEN parts[p[1]] ELSE p[2] \o <<Slash>> \o parts[p[1]]]
           Joining(g) == g = [s \in SUBSET (1..n) |->
                                IF s = {} THEN << >>
                                ELSE IF g[s \ {Max(s)}] = << >> THEN parts[Max(s)]
                                     ELSE g[s \ {Max(s)}] \o <<Slash>> \o parts[Max(s)]]
           it == CHOOSE g : Joining(g)
<1>1. n \in Nat /\ DOMAIN parts = 1..n /\ \A i \in 1..n : parts[i] \in V
  OBVIOUS
<1>2. << >> \in V /\ <<Slash>> \in V
  OBVIOUS
<1>3. Joined(parts) = it[1..n]
  BY <1>1 DEF Joined, FoldLeft, MapThenFoldSet
<1> HIDE DEF n
<1>4. F \in [(1..n) \X V -> V]
  BY <1>1, <1>2
<1>5. \A i \in 1..n, v \in V : F[i, v] = IF v = << >> THEN parts[i] ELSE v \o <<Slash>> \o parts[i]
  OBVIOUS
<1> HIDE DEF F, V
<1>6. PICK g \in [SUBSET (1..n) -> V] : Folding(g, F, << >>, 1..n)
  BY <1>1, <1>2, <1>4, FoldExists
<1>7. \A s \in SUBSET (1..n) : s # {} => Max(s) \in 1..n /\ s \ {Max(s)} \in SUBSET (1..n)
  BY <1>1, MaxIn
<1>8. Joining(g)
  <2>1. ASSUME NEW s \in SUBSET (1..n), s # {}
        PROVE  F[Max(s), g[s \ {Max(s)}]] =
                 IF g[s \ {Max(s)}] = << >> THEN parts[Max(s)]
                 ELSE g[s \ {Max(s)}] \o <<Slash>> \o parts[Max(s)]
    BY <1>5, <1>7, <2>1
  <2>2. QED
    BY <1>6, <2>1 DEF Folding
<1>9. Joining(it)
  BY <1>8
<1> HIDE DEF it
<1>10. it[{}] = << >>
  BY <1>9
<1>11. Unfolds(it, F, << >>, V, 1..n)
  <2>1. \A s \in SUBSET (1..n) :
          s # {} /\ it[s \ {Max(s)}] \in V => it[s] = F[Max(s), it[s \ {Max(s)}]]
    BY <1>5, <1>7, <1>9
  <2>2. QED
    BY <1>10, <2>1 DEF Unfolds
<1>12. PICK j : Walked(j, it, F, << >>, V, n)
  BY <1>1, <1>2, <1>4, <1>11, FoldWalks
<1>13. ASSUME NEW k \in 1..n
       PROVE  j[k] = IF j[k-1] = << >> THEN parts[k] ELSE j[k-1] \o <<Slash>> \o parts[k]
  <2>1. k - 1 \in 0..n
    BY <1>1
  <2>2. j[k] = F[k, j[k-1]] /\ j[k-1] \in V
    BY <1>12, <2>1 DEF Walked
  <2>3. QED
    BY <1>5, <2>2
<1>14. QED
  BY <1>3, <1>12, <1>13 DEF n, V, Walked

\* normalize_resource_path's list of kept parts, part by part.
LEMMA KeptIsKept ==
  ASSUME NEW Part, NEW parts \in Seq(Part)
  PROVE  \E j \in [0..Len(parts) -> Seq(Part)] :
           /\ j[0] = << >> /\ Kept(parts) = j[Len(parts)]
           /\ \A k \in 1..Len(parts) :
                j[k] = IF parts[k] \in {<< >>, CurDir} THEN j[k-1] ELSE Append(j[k-1], parts[k])
<1> DEFINE n == Len(parts)
           V == Seq(Part)
           F == [p \in (1..n) \X V |->
                   IF parts[p[1]] \in {<< >>, CurDir} THEN p[2] ELSE Append(p[2], parts[p[1]])]
           Keeping(g) == g = [s \in SUBSET (1..n) |->
                                IF s = {} THEN << >>
                                ELSE IF parts[Max(s)] \in {<< >>, CurDir} THEN g[s \ {Max(s)}]
                                     ELSE Append(g[s \ {Max(s)}], parts[Max(s)])]
           it == CHOOSE g : Keeping(g)
<1>1. n \in Nat /\ DOMAIN parts = 1..n /\ \A i \in 1..n : parts[i] \in Part
  OBVIOUS
<1>2. << >> \in V
  OBVIOUS
<1>3. Kept(parts) = it[1..n]
  BY <1>1 DEF Kept, FoldLeft, MapThenFoldSet
<1> HIDE DEF n
<1>4. F \in [(1..n) \X V -> V]
  BY <1>1, <1>2
<1>5. \A i \in 1..n, v \in V :
        F[i, v] = IF parts[i] \in {<< >>, CurDir} THEN v ELSE Append(v, parts[i])
  OBVIOUS
<1> HIDE DEF F, V
<1>6. PICK g \in [SUBSET (1..n) -> V] : Folding(g, F, << >>, 1..n)
  BY <1>1, <1>2, <1>4, FoldExists
<1>7. \A s \in SUBSET (1..n) : s # {} => Max(s) \in 1..n /\ s \ {Max(s)} \in SUBSET (1..n)
  BY <1>1, MaxIn
<1>8. Keeping(g)
  <2>1. ASSUME NEW s \in SUBSET (1..n), s # {}
        PROVE  F[Max(s), g[s \ {Max(s)}]] =
                 IF parts[Max(s)] \in {<< >>, CurDir} THEN g[s \ {Max(s)}]
                 ELSE Append(g[s \ {Max(s)}], parts[Max(s)])
    BY <1>5, <1>7, <2>1
  <2>2. QED
    BY <1>6, <2>1 DEF Folding
<1>9. Keeping(it)
  BY <1>8
<1> HIDE DEF it
<1>10. it[{}] = << >>
  BY <1>9
<1>11. Unfolds(it, F, << >>, V, 1..n)
  <2>1. \A s \in SUBSET (1..n) :
          s # {} /\ it[s \ {Max(s)}] \in V => it[s] = F[Max(s), it[s \ {Max(s)}]]
    BY <1>5, <1>7, <1>9
  <2>2. QED
    BY <1>10, <2>1 DEF Unfolds
<1>12. PICK j : Walked(j, it, F, << >>, V, n)
  BY <1>1, <1>2, <1>4, <1>11, FoldWalks
<1>13. ASSUME NEW k \in 1..n
       PROVE  j[k] = IF parts[k] \in {<< >>, CurDir} THEN j[k-1] ELSE Append(j[k-1], parts[k])
  <2>1. k - 1 \in 0..n
    BY <1>1
  <2>2. j[k] = F[k, j[k-1]] /\ j[k-1] \in V
    BY <1>12, <2>1 DEF Walked
  <2>3. QED
    BY <1>5, <2>2
<1>14. QED
  BY <1>3, <1>12, <1>13 DEF n, V, Walked

-----------------------------------------------------------------------------
(***************************************************************************)
(* The files a raw path covers are those that go on from its kept parts.   *)
(***************************************************************************)
GoesOn(names, f) == \A d \in 1..Len(names) : f[d] = names[d]

LEMMA DepthGrows ==
  ASSUME NEW parts, NEW i \in Nat
  PROVE  /\ Depth(parts, 0) = 0 /\ Depth(parts, i) \in Nat
         /\ Depth(parts, i + 1) =
              IF parts[i + 1] \in Names THEN Depth(parts, i) + 1 ELSE Depth(parts, i)
<1> DEFINE D(k) == {l \in 1..k : parts[l] \in Names}
<1>1. D(0) = {}
  OBVIOUS
<1>2. IsFiniteSet(1..i)
  BY FS_Interval
<1>3. IsFiniteSet(D(i))
  BY <1>2, FS_Subset
<1>4. Cardinality(D(i)) \in Nat
  BY <1>3, FS_CardinalityType
<1>5. i + 1 \notin D(i)
  OBVIOUS
<1>6. CASE parts[i + 1] \in Names
  <2>1. D(i + 1) = D(i) \cup {i + 1}
    BY <1>6
  <2> HIDE DEF D
  <2>2. Cardinality(D(i + 1)) = Cardinality(D(i)) + 1
    BY <1>3, <1>5, <2>1, FS_AddElement
  <2>3. QED
    BY <1>1, <1>4, <1>6, <2>2, FS_EmptySet DEF Depth, D
<1>7. CASE parts[i + 1] \notin Names
  <2>1. D(i + 1) = D(i)
    BY <1>7
  <2> HIDE DEF D
  <2>2. QED
    BY <1>1, <1>4, <1>7, <2>1, FS_EmptySet DEF Depth, D
<1>8. QED
  BY <1>6, <1>7

\* After i parts the kept list holds each name so far, at its depth and nothing else.
Keeps(kept, parts, i) ==
  /\ kept \in Seq(Names) /\ Len(kept) = Depth(parts, i) /\ Len(kept) <= i
  /\ \A k \in 1..i : parts[k] \in Names =>
       Depth(parts, k) \in 1..Len(kept) /\ kept[Depth(parts, k)] = parts[k]
  /\ \A d \in 1..Len(kept) : \E k \in 1..i : parts[k] \in Names /\ Depth(parts, k) = d

LEMMA KeepsOn ==
  ASSUME NEW parts, NEW i \in Nat, NEW kept, Keeps(kept, parts, i)
  PROVE  /\ parts[i + 1] \notin Names => Keeps(kept, parts, i + 1)
         /\ parts[i + 1] \in Names => Keeps(Append(kept, parts[i + 1]), parts, i + 1)
<1>1. Depth(parts, i) \in Nat
      /\ Depth(parts, i + 1) =
           IF parts[i + 1] \in Names THEN Depth(parts, i) + 1 ELSE Depth(parts, i)
  BY DepthGrows
<1>2. \A k \in 1..(i+1) : k \in 1..i \/ k = i + 1
  OBVIOUS
<1>3. 1..i \subseteq 1..(i+1) /\ i + 1 \in 1..(i+1)
  OBVIOUS
<1>4. kept \in Seq(Names) /\ Len(kept) \in Nat /\ Len(kept) = Depth(parts, i) /\ Len(kept) <= i
  BY DEF Keeps
<1>5. CASE parts[i + 1] \notin Names
  BY <1>1, <1>2, <1>3, <1>4, <1>5 DEF Keeps
<1>6. CASE parts[i + 1] \in Names
  <2> DEFINE new == Append(kept, parts[i + 1])
  <2>1. /\ new \in Seq(Names) /\ Len(new) = Len(kept) + 1 /\ new[Len(kept) + 1] = parts[i + 1]
        /\ \A d \in 1..Len(kept) : d \in 1..Len(new) /\ new[d] = kept[d]
        /\ \A d \in 1..Len(new) : d \in 1..Len(kept) \/ d = Len(kept) + 1
        /\ Len(kept) + 1 \in 1..Len(new) /\ Len(new) <= i + 1
    BY <1>4, <1>6
  <2> HIDE DEF new
  <2>2. Len(new) = Depth(parts, i + 1)
    BY <1>1, <1>4, <1>6, <2>1
  <2>3. ASSUME NEW k \in 1..(i+1), parts[k] \in Names
        PROVE  Depth(parts, k) \in 1..Len(new) /\ new[Depth(parts, k)] = parts[k]
    <3>1. CASE k \in 1..i
      BY <2>1, <2>3, <3>1 DEF Keeps
    <3>2. CASE k = i + 1
      BY <1>4, <2>1, <2>2, <3>2
    <3>3. QED
      BY <1>2, <3>1, <3>2
  <2>4. ASSUME NEW d \in 1..Len(new)
        PROVE  \E k \in 1..(i+1) : parts[k] \in Names /\ Depth(parts, k) = d
    <3>1. CASE d \in 1..Len(kept)
      BY <1>3, <3>1 DEF Keeps
    <3>2. CASE d = Len(kept) + 1
      BY <1>3, <1>6, <2>1, <2>2, <3>2
    <3>3. QED
      BY <2>1, <3>1, <3>2
  <2>5. Keeps(new, parts, i + 1)
    BY <2>1, <2>2, <2>3, <2>4 DEF Keeps
  <2>6. QED
    BY <1>6, <2>5 DEF new
<1>7. QED
  BY <1>5, <1>6

LEMMA CoversFromKept ==
  ASSUME NEW raw \in RawPaths, ~RefusesPath(raw)
  PROVE  /\ Kept(raw.parts) \in Seq(Names) /\ Len(Kept(raw.parts)) \in 1..MaxParts
         /\ Covers(raw) = {f \in Files : GoesOn(Kept(raw.parts), f)}
<1> DEFINE x == raw.parts
           n == Len(x)
<1>1. x \in Seq(Parts) /\ n \in 0..MaxParts /\ DOMAIN x = 1..n /\ n \in Nat
  BY PartsAssumption DEF RawPaths, BoundedSeq, SeqOf
<1>2. \A i \in 1..n : x[i] \in Names <=> x[i] \notin {<< >>, CurDir}
  BY <1>1, PartsAssumption DEF Parts, RefusesPath, ToSet
<1>3. Kept(x) # << >>
  BY DEF RefusesPath
<1>4. PICK j \in [0..n -> Seq(Parts)] :
        /\ j[0] = << >> /\ Kept(x) = j[n]
        /\ \A k \in 1..n :
             j[k] = IF x[k] \in {<< >>, CurDir} THEN j[k-1] ELSE Append(j[k-1], x[k])
  BY <1>1, KeptIsKept
<1> DEFINE S == {i \in 0..n : Keeps(j[i], x, i)}
<1> HIDE DEF n, x
<1>5. 0 \in S
  <2>1. << >> \in Seq(Names) /\ Len(<< >>) = 0 /\ 1..0 = {} /\ 0 \in 0..n
    BY <1>1
  <2>2. Depth(x, 0) = 0
    BY DepthGrows
  <2>3. QED
    BY <1>4, <2>1, <2>2 DEF Keeps
<1>6. ASSUME NEW i \in 0..n-1, i \in S
      PROVE  i + 1 \in S
  <2>1. i + 1 \in 1..n /\ (i + 1) - 1 = i /\ i + 1 \in 0..n /\ i \in Nat
    BY <1>1
  <2>2. Keeps(j[i], x, i)
    BY <1>6
  <2>3. j[i + 1] = IF x[i + 1] \in {<< >>, CurDir} THEN j[i] ELSE Append(j[i], x[i + 1])
    BY <1>4, <2>1
  <2>4. Keeps(j[i + 1], x, i + 1)
    BY <1>2, <2>1, <2>2, <2>3, KeepsOn
  <2>5. QED
    BY <2>1, <2>4
<1> HIDE DEF S
<1>7. Keeps(Kept(x), x, n)
  <2>1. n \in S
    <3>1. 0..n \subseteq S
      BY <1>1, <1>5, <1>6, Walk
    <3>2. QED
      BY <1>1, <3>1
  <2>2. QED
    BY <1>4, <2>1 DEF S
<1>8. Kept(x) \in Seq(Names) /\ Len(Kept(x)) \in 1..MaxParts
  <2>1. Kept(x) \in Seq(Names) /\ Len(Kept(x)) <= n
    BY <1>7 DEF Keeps
  <2>2. QED
    BY <1>1, <1>3, <2>1, PartsAssumption
<1>9. ASSUME NEW f
      PROVE  (\A i \in 1..n : x[i] \in Names => f[Depth(x, i)] = x[i]) <=> GoesOn(Kept(x), f)
  <2>1. ASSUME \A i \in 1..n : x[i] \in Names => f[Depth(x, i)] = x[i]
        PROVE  GoesOn(Kept(x), f)
    BY <1>7, <2>1 DEF Keeps, GoesOn
  <2>2. ASSUME GoesOn(Kept(x), f)
        PROVE  \A i \in 1..n : x[i] \in Names => f[Depth(x, i)] = x[i]
    BY <1>7, <2>2 DEF Keeps, GoesOn
  <2>3. QED
    BY <2>1, <2>2
<1>10. Covers(raw) = {f \in Files : GoesOn(Kept(x), f)}
  BY <1>1, <1>9 DEF Covers, x
<1>11. QED
  BY <1>8, <1>10 DEF x

-----------------------------------------------------------------------------
(***************************************************************************)
(* The text of a list of names, each name closed by a slash: no name holds *)
(* a slash, so one text begins another exactly when the names agree.       *)
(***************************************************************************)
Begins(p, s) == Len(p) <= Len(s) /\ \A i \in 1..Len(p) : s[i] = p[i]

Char == Letters \cup {Slash}

Agree(K, L, k) == \A m \in 1..k : K[m] = L[m]

Closed(t, K) ==
  /\ t \in [0..Len(K) -> Seq(Char)]
  /\ t[0] = << >>
  /\ \A k \in 1..Len(K) : t[k] = t[k-1] \o K[k] \o <<Slash>>

LEMMA PrefixIs ==
  ASSUME NEW S, NEW p \in Seq(S), NEW s \in Seq(S)
  PROVE  IsPrefix(p, s) <=> Begins(p, s)
<1>1. Len(p) \in Nat /\ Len(s) \in Nat
  OBVIOUS
<1>2. CASE Len(p) <= Len(s)
  <2>1. SubSeq(p, 1, Len(p)) = p
    OBVIOUS
  <2>2. SubSeq(s, 1, Len(p)) \in Seq(S) /\ Len(SubSeq(s, 1, Len(p))) = Len(p)
        /\ \A i \in 1..Len(p) : SubSeq(s, 1, Len(p))[i] = s[i]
    BY <1>1, <1>2
  <2> DEFINE q == SubSeq(s, 1, Len(p))
  <2> HIDE DEF q
  <2>3. p = q <=> \A i \in 1..Len(p) : s[i] = p[i]
    BY <2>2 DEF q
  <2>4. QED
    BY <1>2, <2>1, <2>3 DEF IsPrefix, Begins, q
<1>3. CASE ~(Len(p) <= Len(s))
  BY <1>3 DEF IsPrefix, Begins
<1>4. QED
  BY <1>2, <1>3

LEMMA SameText ==
  ASSUME NEW S, NEW p \in Seq(S), NEW s \in Seq(S), Len(p) = Len(s), Begins(p, s)
  PROVE  p = s
<1>1. \A i \in 1..Len(p) : p[i] = s[i]
  BY DEF Begins
<1>2. QED
  BY <1>1

LEMMA NameIs ==
  ASSUME NEW K \in Seq(Names), NEW k \in 1..Len(K)
  PROVE  /\ K[k] \in Seq(Char) /\ K[k] # << >>
         /\ \A i \in 1..Len(K[k]) : K[k][i] # Slash
<1>1. K[k] \in Names
  OBVIOUS
<1>2. K[k] \in Seq(Letters) /\ K[k] # << >> /\ Slash \notin Letters
  BY <1>1, PartsAssumption
<1>3. Letters \subseteq Char
  BY DEF Char
<1>4. QED
  BY <1>2, <1>3

\* c is the text a, then the name b, then a slash.
Adds(a, b, c) ==
  /\ Len(a) \in Nat /\ Len(b) \in Nat /\ Len(c) = Len(a) + Len(b) + 1
  /\ \A i \in 1..Len(a) : c[i] = a[i]
  /\ \A i \in 1..Len(b) : c[Len(a) + i] = b[i]
  /\ c[Len(a) + Len(b) + 1] = Slash

LEMMA ConcatAdds ==
  ASSUME NEW S, NEW a \in Seq(S), NEW b \in Seq(S), Slash \in S
  PROVE  Adds(a, b, a \o b \o <<Slash>>)
<1> DEFINE ab == a \o b
<1>1. Len(a) \in Nat /\ Len(b) \in Nat
  OBVIOUS
<1>2. ab \in Seq(S) /\ Len(ab) = Len(a) + Len(b)
  OBVIOUS
<1>3. \A i \in 1..Len(a) : ab[i] = a[i]
  OBVIOUS
<1>4. \A i \in 1..Len(b) : ab[Len(a) + i] = b[i]
  OBVIOUS
<1> DEFINE c == ab \o <<Slash>>
<1> HIDE DEF ab
<1>5. Len(c) = Len(ab) + 1 /\ c[Len(ab) + 1] = Slash
  BY <1>2
<1>6. \A i \in 1..Len(ab) : c[i] = ab[i]
  BY <1>2
<1> HIDE DEF c
<1>7. (\A i \in 1..Len(a) : i \in 1..Len(ab)) /\ (\A i \in 1..Len(b) : Len(a) + i \in 1..Len(ab))
  BY <1>1, <1>2
<1>8. Adds(a, b, c)
  BY <1>1, <1>2, <1>3, <1>4, <1>5, <1>6, <1>7 DEF Adds
<1>9. QED
  BY <1>8 DEF c, ab

LEMMA AddsBegins ==
  ASSUME NEW a, NEW b, NEW c, Adds(a, b, c)
  PROVE  Begins(a, c) /\ Len(a) < Len(c)
BY DEF Adds, Begins

LEMMA BeginsBegins ==
  ASSUME NEW a, NEW b, NEW c, Len(a) \in Nat, Len(b) \in Nat, Len(c) \in Nat,
         Begins(a, b), Begins(b, c)
  PROVE  Begins(a, c)
<1>1. Len(a) <= Len(b) /\ Len(b) <= Len(c)
  BY DEF Begins
<1>2. Len(a) <= Len(c)
  BY <1>1
<1>3. \A i \in 1..Len(a) : i \in 1..Len(b)
  BY <1>1
<1>4. QED
  BY <1>2, <1>3 DEF Begins

\* What follows a text up to the next slash is one name.
LEMMA NameStops ==
  ASSUME NEW a, NEW b, NEW c, NEW bb, NEW cc, NEW w, Adds(a, b, c), Adds(a, bb, cc),
         Begins(c, w), Begins(cc, w), \A i \in 1..Len(b) : b[i] # Slash
  PROVE  ~(Len(bb) < Len(b))
<1> SUFFICES ASSUME Len(bb) < Len(b) PROVE FALSE
  OBVIOUS
<1> DEFINE m == Len(bb) + 1
           x == Len(a)
<1>1. Len(a) \in Nat /\ Len(b) \in Nat /\ Len(bb) \in Nat /\ x \in Nat
  BY DEF Adds
<1>2. m \in 1..Len(b) /\ x + m = x + Len(bb) + 1
  BY <1>1
<1>3. x + m \in 1..Len(c) /\ x + m \in 1..Len(cc)
  <2>1. Len(c) = x + Len(b) + 1 /\ Len(cc) = x + Len(bb) + 1
    BY DEF Adds
  <2> HIDE DEF x
  <2>2. QED
    BY <1>1, <2>1
<1>4. c[x + m] = b[m]
  BY <1>2 DEF Adds
<1>5. cc[x + m] = Slash
  BY <1>2 DEF Adds
<1> HIDE DEF m, x
<1>6. w[x + m] = c[x + m] /\ w[x + m] = cc[x + m]
  BY <1>3 DEF Begins
<1>7. QED
  BY <1>2, <1>4, <1>5, <1>6

LEMMA SameNextName ==
  ASSUME NEW a, NEW b \in Seq(Char), NEW c, NEW bb \in Seq(Char), NEW cc, NEW w,
         Adds(a, b, c), Adds(a, bb, cc), Begins(c, w), Begins(cc, w),
         \A i \in 1..Len(b) : b[i] # Slash, \A i \in 1..Len(bb) : bb[i] # Slash
  PROVE  b = bb
<1>1. ~(Len(bb) < Len(b)) /\ ~(Len(b) < Len(bb))
  BY NameStops
<1>2. Len(b) = Len(bb)
  BY <1>1
<1>3. ASSUME NEW i \in 1..Len(b)
      PROVE  b[i] = bb[i]
  <2> DEFINE x == Len(a) + i
  <2>1. Len(a) \in Nat /\ Len(c) = Len(a) + Len(b) + 1 /\ Len(cc) = Len(c)
    BY <1>2 DEF Adds
  <2>2. x \in 1..Len(c) /\ x \in 1..Len(cc)
    BY <2>1
  <2>3. c[x] = b[i] /\ cc[x] = bb[i]
    BY <1>2 DEF Adds
  <2> HIDE DEF x
  <2>4. w[x] = c[x] /\ w[x] = cc[x]
    BY <2>2 DEF Begins
  <2>5. QED
    BY <2>3, <2>4
<1>4. QED
  BY <1>2, <1>3

\* One more name.
LEMMA ClosedStep ==
  ASSUME NEW K \in Seq(Names), NEW t, Closed(t, K), NEW k \in 0..Len(K)-1
  PROVE  Adds(t[k], K[k+1], t[k+1])
<1>1. k + 1 \in 1..Len(K) /\ (k + 1) - 1 = k /\ k \in 0..Len(K)
  OBVIOUS
<1>2. t[k] \in Seq(Char)
  BY <1>1 DEF Closed
<1>3. t[k+1] = t[k] \o K[k+1] \o <<Slash>>
  BY <1>1 DEF Closed
<1>4. K[k+1] \in Seq(Char)
  BY <1>1, NameIs
<1>5. Slash \in Char
  BY DEF Char
<1>6. QED
  BY <1>2, <1>3, <1>4, <1>5, ConcatAdds

\* The text so far begins the text of the names that follow.
LEMMA TextGrows ==
  ASSUME NEW K \in Seq(Names), NEW t, Closed(t, K), NEW k \in 0..Len(K), NEW l \in k..Len(K)
  PROVE  Begins(t[k], t[l]) /\ (k < l => Len(t[k]) < Len(t[l]))
<1> DEFINE S == {d \in 0..l-k : Begins(t[k], t[k+d]) /\ (0 < d => Len(t[k]) < Len(t[k+d]))}
<1>1. k \in Nat /\ l \in Nat /\ k <= l /\ l - k \in Nat /\ l <= Len(K) /\ Len(K) \in Nat
  OBVIOUS
<1>2. \A m \in 0..Len(K) : t[m] \in Seq(Char) /\ Len(t[m]) \in Nat
  BY DEF Closed
<1>3. 0 \in S
  <2>1. k + 0 = k /\ 0 \in 0..l-k
    BY <1>1
  <2>2. Begins(t[k], t[k])
    BY <1>2 DEF Begins
  <2>3. QED
    BY <2>1, <2>2
<1>4. ASSUME NEW d \in 0..(l-k)-1, d \in S
      PROVE  d + 1 \in S
  <2>1. /\ k + d \in 0..Len(K)-1 /\ k + d \in 0..Len(K) /\ k + (d + 1) = (k + d) + 1
        /\ d + 1 \in 0..l-k /\ (k + d) + 1 \in 0..Len(K)
    BY <1>1
  <2>2. Adds(t[k+d], K[(k+d)+1], t[(k+d)+1])
    BY <2>1, ClosedStep
  <2>3. Begins(t[k+d], t[(k+d)+1]) /\ Len(t[k+d]) < Len(t[(k+d)+1])
    BY <2>2, AddsBegins
  <2>4. Begins(t[k], t[k+d])
    BY <1>4
  <2>5. Len(t[k]) \in Nat /\ Len(t[k+d]) \in Nat /\ Len(t[(k+d)+1]) \in Nat
    BY <1>2, <2>1
  <2>6. Begins(t[k], t[(k+d)+1])
    BY <2>3, <2>4, <2>5, BeginsBegins
  <2>7. Len(t[k]) <= Len(t[k+d])
    BY <2>4 DEF Begins
  <2>8. Len(t[k]) < Len(t[(k+d)+1])
    BY <2>3, <2>5, <2>7
  <2>9. QED
    BY <2>1, <2>6, <2>8
<1> HIDE DEF S
<1>5. l - k \in S
  <2>1. 0..l-k \subseteq S
    BY <1>1, <1>3, <1>4, Walk
  <2>2. QED
    BY <1>1, <2>1
<1>6. k + (l - k) = l /\ (k < l => 0 < l - k)
  BY <1>1
<1>7. QED
  BY <1>5, <1>6 DEF S

\* Equal names make equal text.
LEMMA SameNamesSameText ==
  ASSUME NEW K \in Seq(Names), NEW L \in Seq(Names), NEW t, NEW u, Closed(t, K), Closed(u, L),
         NEW k \in 0..Len(K), k <= Len(L), Agree(K, L, k)
  PROVE  t[k] = u[k]
<1> DEFINE S == {m \in 0..k : t[m] = u[m]}
<1>1. k \in Nat /\ Len(K) \in Nat /\ Len(L) \in Nat /\ k <= Len(K) /\ k <= Len(L)
  OBVIOUS
<1>2. 0 \in S
  BY <1>1 DEF Closed
<1>3. ASSUME NEW m \in 0..k-1, m \in S
      PROVE  m + 1 \in S
  <2>1. m + 1 \in 1..k /\ m + 1 \in 1..Len(K) /\ m + 1 \in 1..Len(L) /\ (m + 1) - 1 = m
        /\ m + 1 \in 0..k
    BY <1>1
  <2>2. t[m+1] = t[m] \o K[m+1] \o <<Slash>> /\ u[m+1] = u[m] \o L[m+1] \o <<Slash>>
    BY <2>1 DEF Closed
  <2>3. t[m] = u[m] /\ K[m+1] = L[m+1]
    BY <1>3, <2>1 DEF Agree
  <2>4. QED
    BY <2>1, <2>2, <2>3
<1> HIDE DEF S
<1>4. k \in S
  <2>1. 0..k \subseteq S
    BY <1>1, <1>2, <1>3, Walk
  <2>2. QED
    BY <1>1, <2>1
<1>5. QED
  BY <1>4 DEF S

\* One more name of a text that is a prefix is the next name of the longer text.
LEMMA NextNameAgrees ==
  ASSUME NEW K \in Seq(Names), NEW L \in Seq(Names), NEW t, NEW u, Closed(t, K), Closed(u, L),
         NEW k \in 0..Len(K)-1, NEW l \in 0..Len(L), k <= l, t[k] = u[k],
         Begins(t[k+1], u[l])
  PROVE  k + 1 <= l /\ K[k+1] = L[k+1]
<1>1. k \in Nat /\ l \in Nat /\ k + 1 \in 0..Len(K) /\ k + 1 \in 1..Len(K) /\ k \in 0..Len(L)
  OBVIOUS
<1>2. Adds(t[k], K[k+1], t[k+1])
  BY ClosedStep
<1>3. k + 1 <= l
  <2>1. Len(t[k+1]) <= Len(u[l])
    BY DEF Begins
  <2>2. Len(t[k]) < Len(t[k+1])
    BY <1>2, AddsBegins
  <2>3. Len(t[k]) \in Nat /\ Len(t[k+1]) \in Nat
    <3>1. t[k] \in Seq(Char) /\ t[k+1] \in Seq(Char)
      BY <1>1 DEF Closed
    <3>2. QED
      BY <3>1
  <2>4. l # k
    BY <2>1, <2>2, <2>3
  <2>5. QED
    BY <1>1, <2>4
<1>4. k \in 0..Len(L)-1 /\ k + 1 \in 1..Len(L) /\ k + 1 \in 0..Len(L) /\ l \in (k+1)..Len(L)
  BY <1>1, <1>3
<1>5. Adds(t[k], L[k+1], u[k+1])
  BY <1>4, ClosedStep
<1>6. Begins(u[k+1], u[l])
  BY <1>4, TextGrows
<1>7. /\ K[k+1] \in Seq(Char) /\ (\A i \in 1..Len(K[k+1]) : K[k+1][i] # Slash)
      /\ L[k+1] \in Seq(Char) /\ (\A i \in 1..Len(L[k+1]) : L[k+1][i] # Slash)
  BY <1>1, <1>4, NameIs
<1>8. K[k+1] = L[k+1]
  BY <1>2, <1>5, <1>6, <1>7, SameNextName
<1>9. QED
  BY <1>3, <1>8

\* A text that begins another is made of its first names.
LEMMA PrefixesAgree ==
  ASSUME NEW K \in Seq(Names), NEW L \in Seq(Names), NEW t, NEW u, Closed(t, K), Closed(u, L),
         NEW k \in 0..Len(K), NEW l \in 0..Len(L)
  PROVE  Begins(t[k], u[l]) <=> k <= l /\ Agree(K, L, k)
<1>1. k \in Nat /\ l \in Nat /\ Len(K) \in Nat /\ Len(L) \in Nat /\ k <= Len(K) /\ l <= Len(L)
  OBVIOUS
<1>2. ASSUME k <= l, Agree(K, L, k)
      PROVE  Begins(t[k], u[l])
  <2>1. k \in 0..Len(L) /\ l \in k..Len(L) /\ k <= Len(L)
    BY <1>1, <1>2
  <2>2. t[k] = u[k]
    BY <1>2, <2>1, SameNamesSameText
  <2>3. Begins(u[k], u[l])
    BY <2>1, TextGrows
  <2>4. QED
    BY <2>2, <2>3
<1>3. ASSUME Begins(t[k], u[l])
      PROVE  k <= l /\ Agree(K, L, k)
  <2> DEFINE S == {m \in 0..k : m <= l /\ Agree(K, L, m)}
  <2>1. 0 \in S
    BY <1>1 DEF Agree
  <2>2. ASSUME NEW m \in 0..k-1, m \in S
        PROVE  m + 1 \in S
    <3>1. /\ m \in 0..Len(K) /\ m \in 0..Len(K)-1 /\ m + 1 \in 0..Len(K) /\ m <= Len(L)
          /\ k \in (m+1)..Len(K) /\ m <= l /\ m + 1 \in 0..k
      BY <1>1, <2>2
    <3>2. Agree(K, L, m)
      BY <2>2
    <3>3. t[m] = u[m]
      BY <3>1, <3>2, SameNamesSameText
    <3>4. Begins(t[m+1], t[k])
      BY <3>1, TextGrows
    <3>5. Begins(t[m+1], u[l])
      <4>1. Len(t[m+1]) \in Nat /\ Len(t[k]) \in Nat /\ Len(u[l]) \in Nat
        BY <3>1 DEF Closed
      <4>2. QED
        BY <1>3, <3>4, <4>1, BeginsBegins
    <3>6. m + 1 <= l /\ K[m+1] = L[m+1]
      BY <3>1, <3>3, <3>5, NextNameAgrees
    <3>7. \A d \in 1..(m+1) : d \in 1..m \/ d = m + 1
      BY <3>1
    <3>8. Agree(K, L, m + 1)
      BY <3>2, <3>6, <3>7 DEF Agree
    <3>9. QED
      BY <3>1, <3>6, <3>8
  <2> HIDE DEF S
  <2>3. k \in S
    <3>1. 0..k \subseteq S
      BY <1>1, <2>1, <2>2, Walk
    <3>2. QED
      BY <1>1, <3>1
  <2>4. QED
    BY <2>3 DEF S
<1>4. QED
  BY <1>2, <1>3

-----------------------------------------------------------------------------
(***************************************************************************)
(* Two keys are equal, or one lies under the other, as their names agree.  *)
(***************************************************************************)
LEMMA JoinedCloses ==
  ASSUME NEW K \in Seq(Names), K # << >>
  PROVE  /\ Joined(K) \in Seq(Char)
         /\ \E t : Closed(t, K) /\ t[Len(K)] = Joined(K) \o <<Slash>>
<1> DEFINE n == Len(K)
<1>1. n \in Nat /\ n # 0 /\ n \in 1..n /\ n \in 0..n
  OBVIOUS
<1>2. \A k \in 1..n : K[k] \in Seq(Char) /\ K[k] # << >>
  BY NameIs
<1>3. K \in Seq(Seq(Char)) /\ Slash \in Char
  BY <1>2 DEF Char
<1>4. PICK j \in [0..n -> Seq(Char)] :
        /\ j[0] = << >> /\ Joined(K) = j[n]
        /\ \A k \in 1..n : j[k] = IF j[k-1] = << >> THEN K[k] ELSE j[k-1] \o <<Slash>> \o K[k]
  BY <1>3, JoinedIsSpelled
<1> HIDE DEF n
<1>5. ASSUME NEW k \in 1..n
      PROVE  j[k] # << >>
  <2>1. k - 1 \in 0..n
    BY <1>1
  <2>2. j[k-1] \in Seq(Char) /\ K[k] \in Seq(Char) /\ K[k] # << >>
    BY <1>2, <2>1
  <2>3. j[k-1] \o <<Slash>> \o K[k] # << >>
    BY <1>3, <2>2
  <2>4. QED
    BY <1>4, <2>2, <2>3
<1> DEFINE t == [k \in 0..n |-> IF k = 0 THEN << >> ELSE j[k] \o <<Slash>>]
<1>6. \A k \in 1..n : t[k] = j[k] \o <<Slash>>
  BY <1>1
<1>7. t \in [0..n -> Seq(Char)]
  BY <1>3
<1>8. t[0] = << >>
  BY <1>1
<1> HIDE DEF t
<1>9. ASSUME NEW k \in 1..n
      PROVE  t[k] = t[k-1] \o K[k] \o <<Slash>>
  <2>1. CASE k = 1
    <3>1. k - 1 = 0 /\ K[k] \in Seq(Char)
      BY <1>2, <2>1
    <3>2. j[k] = K[k]
      BY <1>4, <3>1
    <3>3. << >> \o K[k] = K[k]
      BY <3>1
    <3>4. QED
      BY <1>6, <1>8, <3>1, <3>2, <3>3
  <2>2. CASE k # 1
    <3>1. k - 1 \in 1..n
      BY <1>1, <2>2
    <3>2. j[k] = j[k-1] \o <<Slash>> \o K[k]
      BY <1>4, <1>5, <3>1
    <3>3. t[k-1] = j[k-1] \o <<Slash>>
      BY <1>6, <3>1
    <3>4. QED
      BY <1>6, <3>2, <3>3
  <2>3. QED
    BY <2>1, <2>2
<1>10. Closed(t, K)
  BY <1>7, <1>8, <1>9 DEF Closed, n
<1>11. Joined(K) \in Seq(Char) /\ t[n] = Joined(K) \o <<Slash>>
  BY <1>1, <1>4, <1>6
<1>12. QED
  BY <1>10, <1>11 DEF n

LEMMA KeysCompare ==
  ASSUME NEW K \in Seq(Names), NEW L \in Seq(Names), K # << >>, L # << >>
  PROVE  /\ Joined(K) = Joined(L) <=> K = L
         /\ Under(Joined(K), Joined(L)) <=> Len(K) < Len(L) /\ Agree(K, L, Len(K))
<1> DEFINE k == Len(K)
           l == Len(L)
           x == Joined(K)
           y == Joined(L)
<1>1. k \in Nat /\ l \in Nat /\ k \in 0..Len(K) /\ l \in 0..Len(L)
  OBVIOUS
<1>2. PICK t : Closed(t, K) /\ t[k] = x \o <<Slash>>
  BY JoinedCloses
<1>3. PICK u : Closed(u, L) /\ u[l] = y \o <<Slash>>
  BY JoinedCloses
<1>4. x \in Seq(Char) /\ y \in Seq(Char) /\ Slash \in Char
  BY JoinedCloses DEF Char
<1>5. Begins(t[k], u[l]) <=> k <= l /\ Agree(K, L, k)
  BY <1>1, <1>2, <1>3, PrefixesAgree
<1>6. K = L <=> k = l /\ Agree(K, L, k)
  BY DEF Agree
<1> HIDE DEF k, l, x, y
<1>7. /\ Len(x) \in Nat /\ Len(y) \in Nat
      /\ t[k] \in Seq(Char) /\ Len(t[k]) = Len(x) + 1
      /\ u[l] \in Seq(Char) /\ Len(u[l]) = Len(y) + 1
  BY <1>2, <1>3, <1>4
<1>8. /\ \A i \in 1..Len(x) : t[k][i] = x[i]
      /\ \A i \in 1..Len(y) : u[l][i] = y[i]
      /\ t[k][Len(x) + 1] = Slash /\ u[l][Len(y) + 1] = Slash
  BY <1>2, <1>3, <1>4
<1>9. t[k] = u[l] <=> k = l /\ Agree(K, L, k)
  <2>1. ASSUME t[k] = u[l]
        PROVE  k = l /\ Agree(K, L, k)
    <3>1. Begins(t[k], u[l]) /\ Begins(u[l], t[k])
      BY <1>7, <2>1 DEF Begins
    <3>2. l <= k
      BY <1>1, <1>2, <1>3, <3>1, PrefixesAgree
    <3>3. QED
      BY <1>1, <1>5, <3>1, <3>2
  <2>2. ASSUME k = l, Agree(K, L, k)
        PROVE  t[k] = u[l]
    <3>1. k <= Len(L) /\ k \in 0..Len(K)
      BY <1>1, <2>2
    <3>2. QED
      BY <1>2, <1>3, <2>2, <3>1, SameNamesSameText
  <2>3. QED
    BY <2>1, <2>2
<1>10. x = y <=> t[k] = u[l]
  <2>1. ASSUME t[k] = u[l]
        PROVE  x = y
    <3>1. Len(x) = Len(y)
      BY <1>7, <2>1
    <3>2. \A i \in 1..Len(x) : x[i] = y[i]
      BY <1>8, <2>1, <3>1
    <3>3. QED
      BY <1>4, <3>1, <3>2
  <2>2. QED
    BY <1>2, <1>3, <2>1
<1>11. Under(x, y) <=> Begins(t[k], u[l]) /\ k # l
  <2>1. Under(x, y) <=> Begins(t[k], y)
    BY <1>2, <1>4, <1>7, PrefixIs DEF Under
  <2>2. ASSUME Begins(t[k], y)
        PROVE  Begins(t[k], u[l]) /\ k # l
    <3>1. Len(t[k]) <= Len(y) /\ \A i \in 1..Len(t[k]) : y[i] = t[k][i]
      BY <2>2 DEF Begins
    <3>2. Len(t[k]) <= Len(u[l]) /\ \A i \in 1..Len(t[k]) : i \in 1..Len(y)
      BY <1>7, <3>1
    <3>3. Begins(t[k], u[l])
      BY <1>8, <3>1, <3>2 DEF Begins
    <3>4. t[k] # u[l]
      BY <1>7, <3>1
    <3>5. QED
      BY <1>5, <1>9, <3>3, <3>4
  <2>3. ASSUME Begins(t[k], u[l]), k # l
        PROVE  Begins(t[k], y)
    <3>1. Len(t[k]) <= Len(u[l]) /\ \A i \in 1..Len(t[k]) : u[l][i] = t[k][i]
      BY <2>3 DEF Begins
    <3>2. Len(t[k]) # Len(u[l])
      <4>1. SUFFICES ASSUME Len(t[k]) = Len(u[l]) PROVE FALSE
        OBVIOUS
      <4>2. t[k] = u[l]
        BY <1>7, <2>3, <4>1, SameText
      <4>3. QED
        BY <1>9, <2>3, <4>2
    <3>3. Len(t[k]) <= Len(y)
      BY <1>7, <3>1, <3>2
    <3>4. \A i \in 1..Len(t[k]) : i \in 1..Len(y)
      BY <1>7, <3>3
    <3>5. QED
      BY <1>8, <3>1, <3>3, <3>4 DEF Begins
  <2>4. QED
    BY <2>1, <2>2, <2>3
<1>12. QED
  BY <1>1, <1>5, <1>6, <1>9, <1>10, <1>11 DEF k, l, x, y

-----------------------------------------------------------------------------
(***************************************************************************)
(* The files below two lists of names, as the names agree.                 *)
(***************************************************************************)
Below(K) == {f \in Files : GoesOn(K, f)}

LEMMA FileBelow ==
  ASSUME NEW K \in Seq(Names), Len(K) \in 1..MaxParts, NEW q \in Names
  PROVE  \E f \in Below(K) : f[Len(K) + 1] = q
<1> DEFINE f == [d \in 1..MaxParts+1 |-> IF d <= Len(K) THEN K[d] ELSE q]
<1>1. /\ Len(K) \in Nat /\ Len(K) + 1 \in 1..MaxParts+1 /\ ~(Len(K) + 1 <= Len(K))
      /\ \A d \in 1..Len(K) : d \in 1..MaxParts+1 /\ d <= Len(K)
      /\ \A d \in 1..MaxParts+1 : d <= Len(K) => d \in 1..Len(K)
  BY PartsAssumption
<1>2. f \in Files
  BY <1>1 DEF Files
<1>3. GoesOn(K, f) /\ f[Len(K) + 1] = q
  BY <1>1 DEF GoesOn
<1> HIDE DEF f
<1>4. QED
  BY <1>2, <1>3 DEF Below

LEMMA SameFilesSameDepth ==
  ASSUME NEW K \in Seq(Names), NEW L \in Seq(Names), Len(K) \in 1..MaxParts,
         Len(L) \in 1..MaxParts, Below(K) = Below(L)
  PROVE  ~(Len(L) < Len(K))
<1> SUFFICES ASSUME Len(L) < Len(K) PROVE FALSE
  OBVIOUS
<1>1. PICK q \in Names : q # K[Len(L) + 1]
  BY PartsAssumption
<1>2. PICK f \in Below(L) : f[Len(L) + 1] = q
  BY FileBelow
<1>3. Len(L) + 1 \in 1..Len(K)
  OBVIOUS
<1>4. GoesOn(K, f)
  BY <1>2 DEF Below
<1>5. QED
  BY <1>1, <1>2, <1>3, <1>4 DEF GoesOn

LEMMA FilesCompare ==
  ASSUME NEW K \in Seq(Names), NEW L \in Seq(Names), Len(K) \in 1..MaxParts,
         Len(L) \in 1..MaxParts
  PROVE  /\ Below(K) = Below(L) <=> K = L
         /\ Below(K) \cap Below(L) # {} <=>
              \/ Len(K) <= Len(L) /\ Agree(K, L, Len(K))
              \/ Len(L) <= Len(K) /\ Agree(L, K, Len(L))
<1>1. PICK q \in Names : TRUE
  BY PartsAssumption
<1>2. Len(K) \in Nat /\ Len(L) \in Nat
  OBVIOUS
<1>3. ASSUME NEW f \in Below(K), f \in Below(L)
      PROVE  /\ Len(K) <= Len(L) => Agree(K, L, Len(K))
             /\ Len(L) <= Len(K) => Agree(L, K, Len(L))
  <2>1. GoesOn(K, f) /\ GoesOn(L, f)
    BY <1>3 DEF Below
  <2>2. QED
    BY <1>2, <2>1 DEF GoesOn, Agree
<1>4. ASSUME NEW A \in Seq(Names), NEW B \in Seq(Names), Len(A) \in 1..MaxParts,
             Len(B) \in 1..MaxParts, Len(A) <= Len(B), Agree(A, B, Len(A))
      PROVE  Below(A) \cap Below(B) # {}
  <2>1. PICK f \in Below(B) : TRUE
    BY <1>1, <1>4, FileBelow
  <2>2. GoesOn(B, f) /\ f \in Files
    BY DEF Below
  <2>3. GoesOn(A, f)
    BY <1>4, <2>2 DEF GoesOn, Agree
  <2>4. QED
    BY <2>1, <2>2, <2>3 DEF Below
<1>5. ASSUME Below(K) = Below(L)
      PROVE  K = L
  <2>1. ~(Len(L) < Len(K)) /\ ~(Len(K) < Len(L))
    BY <1>5, SameFilesSameDepth
  <2>2. Len(K) = Len(L)
    BY <1>2, <2>1
  <2>3. PICK f \in Below(K) : TRUE
    BY <1>1, FileBelow
  <2>4. Agree(K, L, Len(K))
    BY <1>2, <1>3, <1>5, <2>2, <2>3
  <2>5. QED
    BY <2>2, <2>4 DEF Agree
<1>6. QED
  BY <1>2, <1>3, <1>4, <1>5

-----------------------------------------------------------------------------
PairInv == pair # << >> => pair \in RawPaths \X RawPaths

LEMMA PairTyped == SpecPair => []PairInv
<1>1. InitPair => PairInv
  BY DEF InitPair, PairInv
<1>2. PairInv /\ [AskPair]_pair => PairInv'
  BY DEF AskPair, PairInv
<1>3. QED
  BY <1>1, <1>2, PTL DEF SpecPair

\* What the kept parts of an accepted pair are.
LEMMA AcceptedPair ==
  ASSUME PairInv, Accepted
  PROVE  LET K == Kept(pair[1].parts)
             L == Kept(pair[2].parts)
         IN  /\ K \in Seq(Names) /\ K # << >> /\ Len(K) \in 1..MaxParts
             /\ L \in Seq(Names) /\ L # << >> /\ Len(L) \in 1..MaxParts
             /\ Covers(pair[1]) = Below(K) /\ Covers(pair[2]) = Below(L)
             /\ PathKey(pair[1]) = Joined(K) /\ PathKey(pair[2]) = Joined(L)
<1>1. pair[1] \in RawPaths /\ pair[2] \in RawPaths
  BY DEF PairInv, Accepted
<1>2. ~RefusesPath(pair[1]) /\ ~RefusesPath(pair[2])
  BY DEF Accepted
<1>3. Kept(pair[1].parts) # << >> /\ Kept(pair[2].parts) # << >>
  BY <1>2 DEF RefusesPath
<1>4. QED
  BY <1>1, <1>2, <1>3, CoversFromKept DEF Below, PathKey

(***************************************************************************)
(* resource_leases has one row key per subtree: whatever dots and doubled  *)
(* slashes were typed, two accepted paths are normalised to one key        *)
(* exactly when they name the same files (normalize_resource_path).        *)
(***************************************************************************)
THEOREM KeysAreIdentities == SpecPair => []KeyIsIdentity
<1>1. PairInv => KeyIsIdentity
  <2> SUFFICES ASSUME PairInv, Accepted
               PROVE  PathKey(pair[1]) = PathKey(pair[2]) <=> Covers(pair[1]) = Covers(pair[2])
    BY DEF KeyIsIdentity
  <2> DEFINE K == Kept(pair[1].parts)
             L == Kept(pair[2].parts)
  <2>1. /\ K \in Seq(Names) /\ K # << >> /\ Len(K) \in 1..MaxParts
        /\ L \in Seq(Names) /\ L # << >> /\ Len(L) \in 1..MaxParts
        /\ Covers(pair[1]) = Below(K) /\ Covers(pair[2]) = Below(L)
        /\ PathKey(pair[1]) = Joined(K) /\ PathKey(pair[2]) = Joined(L)
    BY AcceptedPair
  <2> HIDE DEF K, L
  <2>2. QED
    BY <2>1, KeysCompare, FilesCompare
<1>2. QED
  BY <1>1, PairTyped, PTL

(***************************************************************************)
(* Two accepted paths conflict exactly when some file lies below both: the *)
(* string test of resource_conflicts never takes "src2" for a file of      *)
(* "src" and misses no file of it.                                         *)
(***************************************************************************)
THEOREM ConflictsAreSharedFiles == SpecPair => []ConflictIsSharedFile
<1>1. PairInv => ConflictIsSharedFile
  <2> SUFFICES ASSUME PairInv, Accepted
               PROVE  Overlaps(AsResource(pair[1]), AsResource(pair[2]))
                        <=> Covers(pair[1]) \cap Covers(pair[2]) # {}
    BY DEF ConflictIsSharedFile
  <2> DEFINE K == Kept(pair[1].parts)
             L == Kept(pair[2].parts)
  <2>1. /\ K \in Seq(Names) /\ K # << >> /\ Len(K) \in 1..MaxParts
        /\ L \in Seq(Names) /\ L # << >> /\ Len(L) \in 1..MaxParts
        /\ Covers(pair[1]) = Below(K) /\ Covers(pair[2]) = Below(L)
        /\ PathKey(pair[1]) = Joined(K) /\ PathKey(pair[2]) = Joined(L)
    BY AcceptedPair
  <2>2. Overlaps(AsResource(pair[1]), AsResource(pair[2])) <=>
          \/ Joined(K) = Joined(L)
          \/ Under(Joined(K), Joined(L)) \/ Under(Joined(L), Joined(K))
    BY <2>1 DEF Overlaps, AsResource
  <2> HIDE DEF K, L
  <2>3. Overlaps(AsResource(pair[1]), AsResource(pair[2])) <=>
          \/ K = L
          \/ Len(K) < Len(L) /\ Agree(K, L, Len(K))
          \/ Len(L) < Len(K) /\ Agree(L, K, Len(L))
    BY <2>1, <2>2, KeysCompare
  <2>4. Len(K) = Len(L) => (K = L <=> Agree(K, L, Len(K))) /\ (K = L <=> Agree(L, K, Len(L)))
    BY <2>1 DEF Agree
  <2>5. Len(K) \in Nat /\ Len(L) \in Nat /\ (K = L => Len(K) = Len(L))
    BY <2>1
  <2>6. Covers(pair[1]) \cap Covers(pair[2]) # {} <=>
          \/ Len(K) <= Len(L) /\ Agree(K, L, Len(K))
          \/ Len(L) <= Len(K) /\ Agree(L, K, Len(L))
    BY <2>1, FilesCompare
  <2>7. QED
    BY <2>3, <2>4, <2>5, <2>6
<1>2. QED
  BY <1>1, PairTyped, PTL
=============================================================================
