---------------------------- MODULE MerkleProofs ----------------------------
(* Theorems about the verifiers of inclusion and consistency proofs, for     *)
(* trees of any size.                                                        *)
EXTENDS InclusionProof, ConsistencyProof, SequenceTheorems, WellFoundedInduction, TLAPS

(***************************************************************************)
(* Induction: a set of naturals that is not empty has a least element.     *)
(***************************************************************************)

LEMMA Least ==
  ASSUME NEW T \in SUBSET Nat, T # {}
  PROVE  \E x \in T : \A y \in T : x <= y
<1> DEFINE R == OpToRel(<, Nat)
<1>1. IsWellFoundedOn(R, Nat)
  BY NatLessThanWellFounded
<1>2. \A x, y \in Nat : x < y => <<x, y>> \in R
  BY DEF OpToRel
<1> HIDE DEF R
<1>3. \E x \in T : \A y \in T : ~(<<y, x>> \in R)
  BY <1>1, WFMin
<1>4. PICK x \in T : \A y \in T : ~(<<y, x>> \in R)
  BY <1>3
<1>5. \A y \in T : ~(y < x)
  BY <1>2, <1>4
<1>6. \A y \in T : x <= y
  BY <1>5
<1>7. QED
  BY <1>6

(***************************************************************************)
(* Where a range is split.  The equation of a recursive function holds     *)
(* once a function that satisfies it is known to exist: were there none up *)
(* to some size, there would be none up to a smaller one.                  *)
(***************************************************************************)

LEMMA HalfSmaller ==
  ASSUME NEW n \in Nat, n > 2
  PROVE  (n + 1) \div 2 \in 2..(n - 1) /\ 2 * ((n + 1) \div 2) <= n + 1
OBVIOUS

LEMMA HalvesDef ==
  \A n \in 2..MaxSize : Halves[n] = IF n = 2 THEN 1 ELSE 2 * Halves[(n + 1) \div 2]
<1> DEFINE Def(g, n) == IF n = 2 THEN 1 ELSE 2 * g[(n + 1) \div 2]
           Good(g, m) == \A n \in 2..m : g[n] = Def(g, n)
           Bad == {m \in Nat : ~ \E g : Good(g, m)}
<1>1. Bad = {}
  <2> SUFFICES ASSUME Bad # {} PROVE FALSE
    OBVIOUS
  <2>1. PICK m \in Bad : \A y \in Bad : m <= y
    BY Least
  <2>2. m # 0
    <3>1. Good([n \in Nat |-> 0], 0)
      OBVIOUS
    <3>2. QED
      BY <3>1
  <2>3. m - 1 \in Nat /\ m - 1 \notin Bad
    <3>1. m \in Nat /\ m - 1 \in Nat /\ ~(m <= m - 1)
      BY <2>2
    <3> HIDE DEF Bad
    <3>2. QED
      BY <2>1, <3>1
  <2>4. PICK g : Good(g, m - 1)
    BY <2>3
  <2> DEFINE h == [n \in 2..m |-> IF n < m THEN g[n] ELSE Def(g, n)]
  <2>5. ASSUME NEW n \in 2..m PROVE h[n] = Def(h, n)
    <3>1. h[n] = Def(g, n)
      BY <2>4, <2>1
    <3>2. n # 2 => (n + 1) \div 2 \in 2..(m - 1)
      BY HalfSmaller, <2>1
    <3>3. n # 2 => h[(n + 1) \div 2] = g[(n + 1) \div 2]
      BY <3>2, <2>1
    <3>4. QED
      BY <3>1, <3>3
  <2>6. Good(h, m)
    BY <2>5
  <2>7. QED
    BY <2>6, <2>1
<1>2. PICK g : Good(g, MaxSize)
  BY <1>1, MaxSizeAssumption
<1> DEFINE f == [n \in 2..MaxSize |-> g[n]]
<1>3. f = [n \in 2..MaxSize |-> Def(f, n)]
  <2>1. ASSUME NEW n \in 2..MaxSize PROVE f[n] = Def(f, n)
    <3>1. n # 2 => (n + 1) \div 2 \in 2..MaxSize
      BY HalfSmaller, MaxSizeAssumption
    <3>2. QED
      BY <1>2, <3>1
  <2>2. QED
    BY <2>1
<1>4. Halves = [n \in 2..MaxSize |-> Def(Halves, n)]
  <2> HIDE DEF f, Good
  <2>1. Halves = CHOOSE s : s = [n \in 2..MaxSize |-> IF n = 2 THEN 1 ELSE 2 * s[(n + 1) \div 2]]
    BY DEF Halves
  <2>2. QED
    BY <1>3, <2>1
<1>5. QED
  BY <1>4

LEMMA SplitWithin ==
  \A n \in 2..MaxSize : Split(n) \in 1..(n - 1)
<1> DEFINE Bad == {n \in 2..MaxSize : Halves[n] \notin 1..(n - 1)}
<1>1. Bad = {}
  <2> SUFFICES ASSUME Bad # {} PROVE FALSE
    OBVIOUS
  <2>1. Bad \in SUBSET Nat
    BY MaxSizeAssumption
  <2>9. PICK n \in Bad : \A y \in Bad : n <= y
    BY <2>1, Least
  <2>2. n # 2
    BY HalvesDef, MaxSizeAssumption
  <2> DEFINE k == (n + 1) \div 2
  <2>3. k \in 2..(n - 1) /\ 2 * k <= n + 1 /\ n \in Nat /\ n <= MaxSize
    BY HalfSmaller, <2>2, MaxSizeAssumption
  <2>4. Halves[n] = 2 * Halves[k]
    BY HalvesDef, <2>2
  <2> HIDE DEF k
  <2>5. k \notin Bad /\ k \in 2..MaxSize
    BY <2>9, <2>3, MaxSizeAssumption
  <2>6. Halves[k] \in 1..(k - 1)
    BY <2>5
  <2>7. Halves[n] \in 1..(n - 1)
    BY <2>3, <2>4, <2>6
  <2>8. QED
    BY <2>7
<1>2. QED
  BY <1>1 DEF Split

(* The width w of a level of the tree: a range of at most 2w leaves that has *)
(* more than w is split after w leaves.                                      *)
Width(w) ==
  /\ w \in Nat \ {0}
  /\ \A n \in 2..MaxSize : w < n /\ n <= 2 * w => Split(n) = w

LEMMA WidthOne == Width(1)
BY HalvesDef, MaxSizeAssumption DEF Width, Split

LEMMA WidthTwice ==
  ASSUME NEW w, Width(w)
  PROVE  Width(2 * w)
<1>1. w \in Nat /\ w > 0
  BY DEF Width
<1>2. ASSUME NEW n \in 2..MaxSize, 2 * w < n, n <= 2 * (2 * w)
      PROVE  Split(n) = 2 * w
  <2> DEFINE k == (n + 1) \div 2
  <2>1. n > 2 /\ n \in Nat
    BY <1>1, <1>2
  <2>2. k \in 2..(n - 1) /\ w < k /\ k <= 2 * w
    BY HalfSmaller, <2>1, <1>1, <1>2
  <2>3. k \in 2..MaxSize
    BY <2>2, MaxSizeAssumption
  <2>4. Split(k) = w
    BY <2>2, <2>3 DEF Width
  <2>5. QED
    BY <2>1, <2>4, HalvesDef DEF Split
<1>3. QED
  BY <1>1, <1>2 DEF Width

(***************************************************************************)
(* The recursive functions over ranges, each with its equation.            *)
(***************************************************************************)

LEMMA Parts ==
  ASSUME NEW r \in Ranges, r[2] # 1
  PROVE  /\ Low(r) \in Ranges /\ Low(r)[2] < r[2]
         /\ High(r) \in Ranges /\ High(r)[2] < r[2]
<1>1. r[2] \in 2..MaxSize /\ r[1] \in Nat /\ r[1] + r[2] <= MaxSize
  BY MaxSizeAssumption DEF Ranges
<1>2. Split(r[2]) \in 1..(r[2] - 1)
  BY <1>1, SplitWithin
<1>3. QED
  BY <1>1, <1>2, MaxSizeAssumption DEF Low, High, Ranges

LEMMA RootsDef ==
  ASSUME NEW leaf
  PROVE  \A r \in Ranges : Roots(leaf)[r] =
           IF r[2] = 1 THEN LeafHash(leaf[r[1]])
           ELSE NodeHash(Roots(leaf)[Low(r)], Roots(leaf)[High(r)])
<1> DEFINE Def(g, r) == 
             IF r[2] = 1 THEN LeafHash(leaf[r[1]]) ELSE NodeHash(g[Low(r)], g[High(r)])
           Good(g, m) == \A r \in Ranges : r[2] <= m => g[r] = Def(g, r)
           Bad == {m \in Nat : ~ \E g : Good(g, m)}
<1>1. Bad = {}
  <2> SUFFICES ASSUME Bad # {} PROVE FALSE
    OBVIOUS
  <2>1. PICK m \in Bad : \A y \in Bad : m <= y
    BY Least
  <2>0. m \in Nat
    OBVIOUS
  <2>2. m # 0
    <3>1. \A r \in Ranges : ~(r[2] <= 0)
      BY DEF Ranges
    <3>2. Good([n \in Nat |-> 0], 0)
      BY <3>1
    <3>3. QED
      BY <3>2
  <2>3. m - 1 \in Nat /\ m - 1 \notin Bad
    <3>1. m \in Nat /\ m - 1 \in Nat /\ ~(m <= m - 1)
      BY <2>2
    <3> HIDE DEF Bad
    <3>2. QED
      BY <2>1, <3>1
  <2>4. PICK g : Good(g, m - 1)
    BY <2>3
  <2> DEFINE h == [r \in Ranges |-> IF r[2] < m THEN g[r] ELSE Def(g, r)]
  <2>5. ASSUME NEW r \in Ranges, r[2] <= m PROVE h[r] = Def(h, r)
    <3>1. \A q \in Ranges : q[2] \in Nat
      <4> HIDE DEF Bad
      <4>1. QED
        BY DEF Ranges
    <3>2. h[r] = Def(g, r)
      <4> HIDE DEF Def, Bad, h
      <4>1. r[2] < m => r[2] <= m - 1
        BY <2>0, <3>1
      <4> USE DEF h
      <4>2. QED
        BY <2>4, <4>1
    <3>3. r[2] # 1 => h[Low(r)] = g[Low(r)] /\ h[High(r)] = g[High(r)]
      <4> HIDE DEF Def, Bad, h
      <4>1. r[2] # 1 => /\ Low(r) \in Ranges /\ Low(r)[2] < m
                        /\ High(r) \in Ranges /\ High(r)[2] < m
        BY Parts, <2>5, <2>0, <3>1
      <4> USE DEF h
      <4>2. QED
        BY <4>1
    <3>4. QED
      BY <3>2, <3>3
  <2>6. Good(h, m)
    BY <2>5
  <2>7. QED
    BY <2>6, <2>1
<1>2. PICK g : Good(g, MaxSize)
  BY <1>1, MaxSizeAssumption
<1> DEFINE f == [r \in Ranges |-> g[r]]
<1>3. f = [r \in Ranges |-> Def(f, r)]
  <2>1. ASSUME NEW r \in Ranges PROVE f[r] = Def(f, r)
    <3>1. r[2] <= MaxSize
      BY DEF Ranges
    <3>2. g[r] = Def(g, r)
      BY <1>2, <3>1
    <3>3. r[2] # 1 => Low(r) \in Ranges /\ High(r) \in Ranges
      BY Parts
    <3>4. QED
      BY <3>2, <3>3
  <2>2. QED
    BY <2>1
<1>4. Roots(leaf) = [r \in Ranges |-> Def(Roots(leaf), r)]
  <2> HIDE DEF f, Good
  <2>1. Roots(leaf) = CHOOSE s : s = [r \in Ranges |-> Def(s, r)]
    BY DEF Roots
  <2>2. QED
    BY <1>3, <2>1
<1>5. QED
  BY <1>4

LEMMA AuditPathsDef ==
  ASSUME NEW root, NEW i
  PROVE  \A r \in Ranges : AuditPaths(root, i)[r] =
           IF r[2] = 1 THEN <<>>
           ELSE IF i < High(r)[1] THEN AuditPaths(root, i)[Low(r)] \o <<root[High(r)]>>
           ELSE AuditPaths(root, i)[High(r)] \o <<root[Low(r)]>>
<1> DEFINE Def(g, r) == 
             IF r[2] = 1 THEN <<>>
             ELSE IF i < High(r)[1] THEN g[Low(r)] \o <<root[High(r)]>>
             ELSE g[High(r)] \o <<root[Low(r)]>>
           Good(g, m) == \A r \in Ranges : r[2] <= m => g[r] = Def(g, r)
           Bad == {m \in Nat : ~ \E g : Good(g, m)}
<1>1. Bad = {}
  <2> SUFFICES ASSUME Bad # {} PROVE FALSE
    OBVIOUS
  <2>1. PICK m \in Bad : \A y \in Bad : m <= y
    BY Least
  <2>0. m \in Nat
    OBVIOUS
  <2>2. m # 0
    <3>1. \A r \in Ranges : ~(r[2] <= 0)
      BY DEF Ranges
    <3>2. Good([n \in Nat |-> 0], 0)
      BY <3>1
    <3>3. QED
      BY <3>2
  <2>3. m - 1 \in Nat /\ m - 1 \notin Bad
    <3>1. m \in Nat /\ m - 1 \in Nat /\ ~(m <= m - 1)
      BY <2>2
    <3> HIDE DEF Bad
    <3>2. QED
      BY <2>1, <3>1
  <2>4. PICK g : Good(g, m - 1)
    BY <2>3
  <2> DEFINE h == [r \in Ranges |-> IF r[2] < m THEN g[r] ELSE Def(g, r)]
  <2>5. ASSUME NEW r \in Ranges, r[2] <= m PROVE h[r] = Def(h, r)
    <3>1. \A q \in Ranges : q[2] \in Nat
      <4> HIDE DEF Bad
      <4>1. QED
        BY DEF Ranges
    <3>2. h[r] = Def(g, r)
      <4> HIDE DEF Def, Bad, h
      <4>1. r[2] < m => r[2] <= m - 1
        BY <2>0, <3>1
      <4> USE DEF h
      <4>2. QED
        BY <2>4, <4>1
    <3>3. r[2] # 1 => h[Low(r)] = g[Low(r)] /\ h[High(r)] = g[High(r)]
      <4> HIDE DEF Def, Bad, h
      <4>1. r[2] # 1 => /\ Low(r) \in Ranges /\ Low(r)[2] < m
                        /\ High(r) \in Ranges /\ High(r)[2] < m
        BY Parts, <2>5, <2>0, <3>1
      <4> USE DEF h
      <4>2. QED
        BY <4>1
    <3>4. QED
      BY <3>2, <3>3
  <2>6. Good(h, m)
    BY <2>5
  <2>7. QED
    BY <2>6, <2>1
<1>2. PICK g : Good(g, MaxSize)
  BY <1>1, MaxSizeAssumption
<1> DEFINE f == [r \in Ranges |-> g[r]]
<1>3. f = [r \in Ranges |-> Def(f, r)]
  <2>1. ASSUME NEW r \in Ranges PROVE f[r] = Def(f, r)
    <3>1. r[2] <= MaxSize
      BY DEF Ranges
    <3>2. g[r] = Def(g, r)
      BY <1>2, <3>1
    <3>3. r[2] # 1 => Low(r) \in Ranges /\ High(r) \in Ranges
      BY Parts
    <3>4. QED
      BY <3>2, <3>3
  <2>2. QED
    BY <2>1
<1>4. AuditPaths(root, i) = [r \in Ranges |-> Def(AuditPaths(root, i), r)]
  <2> HIDE DEF f, Good
  <2>1. AuditPaths(root, i) = CHOOSE s : s = [r \in Ranges |-> Def(s, r)]
    BY DEF AuditPaths
  <2>2. QED
    BY <1>3, <2>1
<1>5. QED
  BY <1>4

LEMMA ConsistencyPathsDef ==
  ASSUME NEW root, NEW old \in Nat \ {0}
  PROVE  \A r \in Ranges : ConsistencyPaths(root, old)[r] =
           IF r[2] = 1 \/ old >= r[1] + r[2] THEN IF r[1] = 0 THEN <<>> ELSE <<root[r]>>
           ELSE IF old <= High(r)[1] THEN ConsistencyPaths(root, old)[Low(r)] \o <<root[High(r)]>>
           ELSE ConsistencyPaths(root, old)[High(r)] \o <<root[Low(r)]>>
<1> DEFINE Def(g, r) == 
             IF r[2] = 1 \/ old >= r[1] + r[2] THEN IF r[1] = 0 THEN <<>> ELSE <<root[r]>>
             ELSE IF old <= High(r)[1] THEN g[Low(r)] \o <<root[High(r)]>>
             ELSE g[High(r)] \o <<root[Low(r)]>>
           Good(g, m) == \A r \in Ranges : r[2] <= m => g[r] = Def(g, r)
           Bad == {m \in Nat : ~ \E g : Good(g, m)}
<1>1. Bad = {}
  <2> SUFFICES ASSUME Bad # {} PROVE FALSE
    OBVIOUS
  <2>1. PICK m \in Bad : \A y \in Bad : m <= y
    BY Least
  <2>0. m \in Nat
    OBVIOUS
  <2>2. m # 0
    <3>1. \A r \in Ranges : ~(r[2] <= 0)
      BY DEF Ranges
    <3>2. Good([n \in Nat |-> 0], 0)
      BY <3>1
    <3>3. QED
      BY <3>2
  <2>3. m - 1 \in Nat /\ m - 1 \notin Bad
    <3>1. m \in Nat /\ m - 1 \in Nat /\ ~(m <= m - 1)
      BY <2>2
    <3> HIDE DEF Bad
    <3>2. QED
      BY <2>1, <3>1
  <2>4. PICK g : Good(g, m - 1)
    BY <2>3
  <2> DEFINE h == [r \in Ranges |-> IF r[2] < m THEN g[r] ELSE Def(g, r)]
  <2>5. ASSUME NEW r \in Ranges, r[2] <= m PROVE h[r] = Def(h, r)
    <3>1. \A q \in Ranges : q[2] \in Nat
      <4> HIDE DEF Bad
      <4>1. QED
        BY DEF Ranges
    <3>2. h[r] = Def(g, r)
      <4> HIDE DEF Def, Bad, h
      <4>1. r[2] < m => r[2] <= m - 1
        BY <2>0, <3>1
      <4> USE DEF h
      <4>2. QED
        BY <2>4, <4>1
    <3>3. r[2] # 1 => h[Low(r)] = g[Low(r)] /\ h[High(r)] = g[High(r)]
      <4> HIDE DEF Def, Bad, h
      <4>1. r[2] # 1 => /\ Low(r) \in Ranges /\ Low(r)[2] < m
                        /\ High(r) \in Ranges /\ High(r)[2] < m
        BY Parts, <2>5, <2>0, <3>1
      <4> USE DEF h
      <4>2. QED
        BY <4>1
    <3>4. QED
      BY <3>2, <3>3
  <2>6. Good(h, m)
    BY <2>5
  <2>7. QED
    BY <2>6, <2>1
<1>2. PICK g : Good(g, MaxSize)
  BY <1>1, MaxSizeAssumption
<1> DEFINE f == [r \in Ranges |-> g[r]]
<1>3. f = [r \in Ranges |-> Def(f, r)]
  <2>1. ASSUME NEW r \in Ranges PROVE f[r] = Def(f, r)
    <3>1. r[2] <= MaxSize
      BY DEF Ranges
    <3>2. g[r] = Def(g, r)
      BY <1>2, <3>1
    <3>3. r[2] # 1 => Low(r) \in Ranges /\ High(r) \in Ranges
      BY Parts
    <3>4. QED
      BY <3>2, <3>3
  <2>2. QED
    BY <2>1
<1>4. ConsistencyPaths(root, old) = [r \in Ranges |-> Def(ConsistencyPaths(root, old), r)]
  <2> HIDE DEF f, Good
  <2>1. ConsistencyPaths(root, old) = CHOOSE s : s = [r \in Ranges |-> Def(s, r)]
    BY DEF ConsistencyPaths
  <2>2. QED
    BY <1>3, <2>1
<1>5. QED
  BY <1>4

(***************************************************************************)
(* Node j of the level of width w in a tree of n leaves, and its parent.   *)
(***************************************************************************)

Block(j, w, n) == <<j * w, IF n - j * w < w THEN n - j * w ELSE w>>

LEMMA BlockWithin ==
  ASSUME NEW n \in 1..MaxSize, NEW w \in Nat \ {0}, NEW j \in Nat, j * w < n
  PROVE  Block(j, w, n) \in Ranges
<1>1. j * w \in Nat
  OBVIOUS
<1>2. QED
  BY <1>1, MaxSizeAssumption DEF Block, Ranges

LEMMA RightChild ==
  ASSUME NEW n \in 1..MaxSize, NEW w, Width(w),
         NEW k \in Nat, (2 * k + 1) * w < n
  PROVE  LET p == Block(k, 2 * w, n)
         IN  /\ p \in Ranges /\ p[2] # 1
             /\ Low(p) = Block(2 * k, w, n) /\ High(p) = Block(2 * k + 1, w, n)
<1> DEFINE p == Block(k, 2 * w, n)
           a == k * w
<1>1. w \in Nat /\ w > 0 /\ a \in Nat /\ n \in Nat
  BY MaxSizeAssumption DEF Width
<1>2. k * (2 * w) = 2 * a /\ (2 * k) * w = 2 * a /\ (2 * k + 1) * w = 2 * a + w
  BY <1>1
<1>3. p \in Ranges
  BY <1>1, <1>2, BlockWithin
<1> HIDE DEF a
<1>4. p = <<2 * a, p[2]>> /\ p[2] = IF n - 2 * a < 2 * w THEN n - 2 * a ELSE 2 * w
  BY <1>2 DEF Block
<1>5. p[2] \in 2..MaxSize /\ w < p[2] /\ p[2] <= 2 * w
  BY <1>1, <1>2, <1>3, <1>4 DEF Ranges
<1>6. Split(p[2]) = w
  BY <1>5 DEF Width
<1>7. Low(p) = <<2 * a, w>> /\ High(p) = <<2 * a + w, p[2] - w>>
  BY <1>4, <1>6 DEF Low, High
<1>8. Block(2 * k, w, n) = <<2 * a, w>>
  BY <1>1, <1>2 DEF Block
<1>9. Block(2 * k + 1, w, n) = <<2 * a + w, p[2] - w>>
  BY <1>1, <1>2, <1>4 DEF Block
<1>10. QED
  BY <1>3, <1>5, <1>7, <1>8, <1>9

LEMMA OnlyChild ==
  ASSUME NEW n \in 1..MaxSize, NEW w \in Nat \ {0},
         NEW k \in Nat, (2 * k) * w < n, (2 * k + 1) * w >= n
  PROVE  Block(k, 2 * w, n) = Block(2 * k, w, n)
<1> DEFINE a == k * w
<1>1. a \in Nat /\ n \in Nat
  OBVIOUS
<1>2. k * (2 * w) = 2 * a /\ (2 * k) * w = 2 * a /\ (2 * k + 1) * w = 2 * a + w
  BY <1>1
<1> HIDE DEF a
<1>3. QED
  BY <1>1, <1>2 DEF Block

LEMMA WholeTree ==
  ASSUME NEW n \in 1..MaxSize, NEW w \in Nat, w >= n
  PROVE  Block(0, w, n) = <<0, n>>
BY DEF Block

(* The last node of a level of n leaves, a level up; and whether node k is   *)
(* that last one.                                                           *)
LEMMA LastAbove ==
  ASSUME NEW w \in Nat \ {0}, NEW n \in Nat, NEW x \in Nat,
         x * w < n, n <= (x + 1) * w
  PROVE  (x \div 2) * (2 * w) < n /\ n <= ((x \div 2) + 1) * (2 * w)
<1> DEFINE k == x \div 2
<1>1. k \in Nat /\ (x = 2 * k \/ x = 2 * k + 1)
  OBVIOUS
<1> HIDE DEF k
<1>2. (2 * k) * w = k * (2 * w) /\ (2 * k + 1) * w = k * (2 * w) + w
      /\ (2 * k + 2) * w = k * (2 * w) + 2 * w /\ (k + 1) * (2 * w) = k * (2 * w) + 2 * w
  BY <1>1
<1>3. k * (2 * w) \in Nat
  BY <1>1
<1>4. QED
  BY <1>1, <1>2, <1>3 DEF k

LEMMA NotTheLast ==
  ASSUME NEW w \in Nat \ {0}, NEW n \in Nat, NEW k \in Nat, NEW x \in Nat,
         x * w < n, n <= (x + 1) * w
  PROVE  k < x <=> (k + 1) * w < n
<1>1. k < x => (k + 1) * w <= x * w
  OBVIOUS
<1>2. x <= k => (x + 1) * w <= (k + 1) * w
  OBVIOUS
<1>3. x * w \in Nat /\ (x + 1) * w \in Nat /\ (k + 1) * w \in Nat
  OBVIOUS
<1>4. QED
  BY <1>1, <1>2, <1>3

LEMMA HashesDiffer ==
  ASSUME NEW a, NEW b, NEW c, NEW d, NodeHash(a, b) = NodeHash(c, d)
  PROVE  a = c /\ b = d
BY DEF NodeHash

LEMMA OneMore ==
  ASSUME NEW S, NEW s \in Seq(S), NEW k \in 0..(Len(s) - 1)
  PROVE  SubSeq(s, 1, k + 1) = SubSeq(s, 1, k) \o <<s[k + 1]>>
OBVIOUS

LEMMA FirstOne ==
  ASSUME NEW S, NEW s \in Seq(S), Len(s) # 0
  PROVE  1 <= Len(s) /\ SubSeq(s, 1, 1) = <<s[1]>>
<1>1. Len(s) \in Nat /\ 1 <= Len(s)
  OBVIOUS
<1>2. SubSeq(s, 1, 1) \in Seq(S) /\ Len(SubSeq(s, 1, 1)) = 1 /\ SubSeq(s, 1, 1)[1] = s[1]
  BY <1>1
<1>3. ASSUME NEW t \in Seq(S), Len(t) = 1 PROVE t = <<t[1]>>
  BY <1>3
<1>4. QED
  BY <1>1, <1>2, <1>3

LEMMA EvenOdd ==
  ASSUME NEW x \in Nat
  PROVE  /\ x \div 2 \in Nat
         /\ x % 2 = 1 => x = 2 * (x \div 2) + 1
         /\ x % 2 # 1 => x = 2 * (x \div 2) /\ x % 2 = 0
OBVIOUS

(***************************************************************************)
(* Inclusion.  In every round there is a width at which index is the node  *)
(* above proof.index and last the last node; if the hash computed so far   *)
(* is the one of that node, it was computed from the leaf, along its path. *)
(***************************************************************************)

AtLevel(w) ==
  /\ Width(w)
  /\ index * w < proof.index + 1 /\ proof.index + 1 <= (index + 1) * w
  /\ last * w < proof.size /\ proof.size <= (last + 1) * w
  /\ node = Root[Block(index, w, proof.size)] =>
       /\ proof.record = proof.index
       /\ SubSeq(proof.path, 1, consumed) =
            AuditPaths(Root, proof.index)[Block(index, w, proof.size)]

InclusionInv ==
  /\ TypeOK
  /\ consumed <= Len(proof.path)
  /\ verdict = "checking" => proof.index < proof.size /\ \E w \in Nat : AtLevel(w)
  /\ OnlyTheLeaf

LEMMA ProofTypes ==
  ASSUME NEW p \in Proofs
  PROVE  /\ p.size \in 1..MaxTree /\ p.size \in 1..MaxSize
         /\ p.record \in Nat
         /\ p.index \in Nat /\ p.index <= p.size
         /\ p.path \in Seq(Siblings[p.size]) /\ Len(p.path) \in 0..MaxPath
<1>1. PICK n \in 1..MaxTree :
        p \in [record : 0..n, index : 0..n, size : {n}, path : SeqOf(Siblings[n], MaxPath)]
  BY DEF Proofs
<1>2. PICK m \in 0..MaxPath : p.path \in [1..m -> Siblings[n]]
  BY <1>1 DEF SeqOf
<1>3. p.path \in Seq(Siblings[n]) /\ Len(p.path) = m
  BY <1>2, MaxPathAssumption
<1>4. QED
  BY <1>1, <1>2, <1>3, MaxTreeAssumption, MaxSizeAssumption

LEMMA RootOfLeaf ==
  ASSUME NEW i \in 0..(MaxSize - 1)
  PROVE  <<i, 1>> \in Ranges /\ Root[<<i, 1>>] = LeafHash(i)
<1>1. <<i, 1>> \in Ranges
  BY MaxSizeAssumption DEF Ranges
<1>2. Leaf[i] = i
  BY DEF Leaf
<1>3. QED
  BY <1>1, <1>2, RootsDef DEF Root

LEMMA RootOfNode ==
  ASSUME NEW r \in Ranges, r[2] # 1
  PROVE  Root[r] = NodeHash(Root[Low(r)], Root[High(r)])
BY RootsDef DEF Root

LEMMA InclusionStarts == Init => InclusionInv
<1> SUFFICES ASSUME Init PROVE InclusionInv
  OBVIOUS
<1>1. /\ proof.size \in 1..MaxTree /\ proof.size \in 1..MaxSize
      /\ proof.record \in Nat /\ proof.index \in Nat /\ proof.index <= proof.size
      /\ proof.path \in Seq(Siblings[proof.size]) /\ Len(proof.path) \in 0..MaxPath
  BY ProofTypes DEF Init
<1>2. TypeOK
  BY <1>1, MaxTreeAssumption, MaxPathAssumption DEF Init, TypeOK, WellFormed
<1>3. consumed <= Len(proof.path)
  BY <1>1 DEF Init
<1>4. ASSUME verdict = "checking"
      PROVE  proof.index < proof.size /\ AtLevel(1)
  <2>1. proof.index < proof.size
    BY <1>4 DEF Init, WellFormed
  <2>2. Block(index, 1, proof.size) = <<proof.index, 1>>
    BY <1>1, <2>1 DEF Init, Block
  <2>3. <<proof.index, 1>> \in Ranges /\ Root[<<proof.index, 1>>] = <<proof.index>>
    BY <1>1, <2>1, RootOfLeaf, MaxSizeAssumption DEF LeafHash
  <2>4. node = <<proof.record>>
    BY DEF Init, LeafHash
  <2>5. AuditPaths(Root, proof.index)[<<proof.index, 1>>] = <<>>
    BY <2>3, AuditPathsDef
  <2>6. SubSeq(proof.path, 1, consumed) = <<>>
    BY <1>1 DEF Init
  <2>7. index * 1 = proof.index /\ (index + 1) * 1 = proof.index + 1
        /\ last * 1 = proof.size - 1 /\ (last + 1) * 1 = proof.size
    BY <1>1 DEF Init
  <2>8. node = Root[Block(index, 1, proof.size)] => proof.record = proof.index
    BY <2>2, <2>3, <2>4
  <2>9. SubSeq(proof.path, 1, consumed) =
          AuditPaths(Root, proof.index)[Block(index, 1, proof.size)]
    BY <2>2, <2>5, <2>6
  <2>10. proof.index < proof.index + 1 /\ proof.size - 1 < proof.size
    BY <1>1
  <2>11. index = proof.index /\ last = proof.size - 1
    BY DEF Init
  <2>12. AtLevel(1)
    BY <1>1, <2>7, <2>8, <2>9, <2>10, <2>11, WidthOne DEF AtLevel
  <2>13. QED
    BY <2>1, <2>12
<1>5. OnlyTheLeaf
  BY DEF Init, OnlyTheLeaf
<1>6. QED
  BY <1>2, <1>3, <1>4, <1>5 DEF InclusionInv

(* One level up, from the second child, from the first one of two and from  *)
(* an only child.                                                           *)
LEMMA ClimbsALevel ==
  ASSUME InclusionInv, Climb, NEW w \in Nat, AtLevel(w)
  PROVE  AtLevel(2 * w)'
<1> DEFINE n == proof.size
           i == proof.index
           k == index \div 2
           audit == AuditPaths(Root, i)
           path(c) == SubSeq(proof.path, 1, c)
<1>1. /\ n \in 1..MaxTree /\ n \in 1..MaxSize /\ i \in Nat /\ i < n
      /\ proof.path \in Seq(Siblings[n])
  BY ProofTypes DEF InclusionInv, TypeOK, Climb
<1>2. /\ w \in Nat /\ w > 0 /\ index \in Nat /\ last \in Nat /\ index <= last
      /\ consumed \in 0..(Len(proof.path) - 1)
      /\ n \in Nat
  <2>1. n \in Nat /\ MaxTree \in Nat /\ MaxPath \in Nat /\ Len(proof.path) \in Nat
    BY <1>1, MaxTreeAssumption, MaxPathAssumption, MaxSizeAssumption
  <2>2. w \in Nat /\ w > 0
    BY DEF AtLevel, Width
  <2>3. index \in 0..MaxTree /\ last \in 0..(MaxTree - 1) /\ consumed \in 0..MaxPath
        /\ index <= last /\ consumed < Len(proof.path)
    BY DEF InclusionInv, TypeOK, Climb
  <2>4. QED
    BY <2>1, <2>2, <2>3
<1>3. path(consumed + 1) = path(consumed) \o <<Sibling>>
  BY <1>1, <1>2, OneMore DEF Sibling
<1>4. /\ index * w < i + 1 /\ i + 1 <= (index + 1) * w
      /\ last * w < n /\ n <= (last + 1) * w
  BY DEF AtLevel
<1>5. index' = k /\ last' = last \div 2 /\ proof' = proof
  BY DEF Climb
<1>6. Width(w) /\ Width(2 * w)
  BY WidthTwice DEF AtLevel
<1>7. k * (2 * w) < i + 1 /\ i + 1 <= (k + 1) * (2 * w)
  <2>1. w \in Nat \ {0} /\ i + 1 \in Nat
    BY <1>1, <1>2
  <2> DEFINE z == i + 1
  <2> HIDE DEF i, n, z
  <2>2. z \in Nat /\ index * w < z /\ z <= (index + 1) * w
    BY <1>4, <2>1 DEF z
  <2>3. k * (2 * w) < z /\ z <= (k + 1) * (2 * w)
    BY <1>2, <2>1, <2>2, LastAbove
  <2>4. QED
    BY <2>3 DEF z
<1>8. last' * (2 * w) < n /\ n <= (last' + 1) * (2 * w)
  <2> HIDE DEF n
  <2>1. w \in Nat \ {0}
    BY <1>2
  <2>2. (last \div 2) * (2 * w) < n /\ n <= ((last \div 2) + 1) * (2 * w)
    BY <1>2, <1>4, <2>1, LastAbove
  <2>3. QED
    BY <1>5, <2>2
<1>9. index < last <=> (index + 1) * w < n
  BY <1>2, <1>4, NotTheLast
<1>10. index * w \in Nat /\ index * w < n
  BY <1>1, <1>2, <1>4
<1> DEFINE b == Block(index, w, n)
           p == Block(k, 2 * w, n)
<1>11. node = Root[b] => proof.record = i /\ path(consumed) = audit[b]
  BY DEF AtLevel
<1>12. ASSUME node' = Root[p]
       PROVE  proof.record = i /\ path(consumed') = audit[p]
  <2>1. CASE index % 2 = 1
    <3>1. k \in Nat /\ index = 2 * k + 1
      BY <1>2, <2>1
    <3>2. p \in Ranges /\ p[2] # 1 /\ High(p) = b
      BY <1>1, <1>6, <1>10, <3>1, RightChild
    <3>3. node' = NodeHash(Sibling, node) /\ consumed' = consumed + 1
      BY <1>2, <2>1 DEF Climb, Parent
    <3>4. Sibling = Root[Low(p)] /\ node = Root[b]
      <4>1. NodeHash(Sibling, node) = NodeHash(Root[Low(p)], Root[High(p)])
        BY <1>12, <3>2, <3>3, RootOfNode
      <4>2. QED
        BY <3>2, <4>1, HashesDiffer
    <3>5. ~(i < High(p)[1])
      BY <1>1, <1>4, <1>10, <3>2 DEF Block
    <3>6. audit[p] = audit[b] \o <<Root[Low(p)]>>
      BY <3>2, <3>5, AuditPathsDef
    <3>7. QED
      BY <1>3, <1>11, <3>3, <3>4, <3>6
  <2>2. CASE index % 2 # 1 /\ index < last
    <3>1. k \in Nat /\ index = 2 * k
      BY <1>2, <2>2
    <3>2. (2 * k + 1) * w < n
      BY <1>9, <2>2, <3>1
    <3>3. p \in Ranges /\ p[2] # 1 /\ Low(p) = b /\ High(p) = Block(index + 1, w, n)
      BY <1>1, <1>6, <3>1, <3>2, RightChild
    <3>4. node' = NodeHash(node, Sibling) /\ consumed' = consumed + 1
      BY <1>2, <2>2 DEF Climb, Parent
    <3>5. Sibling = Root[High(p)] /\ node = Root[b]
      <4>1. NodeHash(node, Sibling) = NodeHash(Root[Low(p)], Root[High(p)])
        BY <1>12, <3>3, <3>4, RootOfNode
      <4>2. QED
        BY <3>3, <4>1, HashesDiffer
    <3>6. i < High(p)[1]
      <4>1. High(p)[1] = (index + 1) * w /\ (index + 1) * w \in Nat
        BY <1>2, <3>3 DEF Block
      <4> HIDE DEF i, p
      <4>2. QED
        BY <1>1, <1>4, <4>1
    <3>7. audit[p] = audit[b] \o <<Root[High(p)]>>
      <4> HIDE DEF i, p, b
      <4>1. QED
        BY <3>3, <3>6, AuditPathsDef
    <3>8. QED
      BY <1>3, <1>11, <3>4, <3>5, <3>7
  <2>3. CASE index % 2 # 1 /\ ~(index < last)
    <3>1. k \in Nat /\ index = 2 * k /\ index % 2 = 0
      BY <1>2, <2>3
    <3>2. (2 * k) * w < n /\ (2 * k + 1) * w >= n
      BY <1>2, <1>9, <1>10, <2>3, <3>1
    <3>3. p = b
      BY <1>1, <1>2, <3>1, <3>2, OnlyChild
    <3>4. node' = node /\ consumed' = consumed
      BY <1>2, <2>3, <3>1 DEF Climb, Parent
    <3>5. QED
      BY <1>11, <1>12, <3>3, <3>4
  <2>4. QED
    BY <2>1, <2>2, <2>3
<1>13. QED
  BY <1>5, <1>6, <1>7, <1>8, <1>12 DEF AtLevel

LEMMA InclusionAtTheTop ==
  ASSUME InclusionInv, verdict = "checking", last = 0, NEW w \in Nat, AtLevel(w)
  PROVE  Block(index, w, proof.size) = <<0, proof.size>>
<1>1. index = 0 /\ proof.size \in 1..MaxSize
  BY ProofTypes DEF InclusionInv, TypeOK
<1>2. w >= proof.size
  BY <1>1, MaxSizeAssumption DEF AtLevel
<1>3. QED
  BY <1>1, <1>2, WholeTree

LEMMA InclusionStep == InclusionInv /\ [Next]_vars => InclusionInv'
<1> SUFFICES ASSUME InclusionInv, [Next]_vars PROVE InclusionInv'
  OBVIOUS
<1>0. MaxTree \in Nat \ {0} /\ MaxPath \in Nat
  BY MaxTreeAssumption, MaxPathAssumption, MaxSizeAssumption
<1>1. /\ proof.path \in Seq(Siblings[proof.size]) /\ Len(proof.path) \in 0..MaxPath
      /\ proof.size \in 1..MaxTree
  BY ProofTypes DEF InclusionInv, TypeOK
<1>2. CASE Climb
  <2>1. PICK w \in Nat : AtLevel(w)
    BY <1>2 DEF InclusionInv, Climb
  <2>2. AtLevel(2 * w)'
    BY <1>2, <2>1, ClimbsALevel
  <2>3. proof' = proof /\ verdict' = "checking" /\ verdict = "checking" /\ consumed < Len(proof.path)
        /\ consumed' \in {consumed, consumed + 1}
        /\ index' = index \div 2 /\ last' = last \div 2
    BY <1>2 DEF Climb
  <2>4. consumed' \in 0..MaxPath /\ consumed' <= Len(proof.path)
    BY <1>0, <1>1, <2>3 DEF InclusionInv, TypeOK
  <2>5. index \in 0..MaxTree /\ last \in 0..(MaxTree - 1) /\ index <= last
    BY <2>3 DEF InclusionInv, TypeOK
  <2>6. index' \in 0..MaxTree /\ last' \in 0..(MaxTree - 1) /\ index' <= last'
    BY <1>0, <2>3, <2>5
  <2>7. TypeOK'
    BY <2>3, <2>4, <2>6 DEF InclusionInv, TypeOK
  <2>8. proof'.index < proof'.size /\ \E v \in Nat : AtLevel(v)'
    BY <2>1, <2>2, <2>3 DEF InclusionInv
  <2>9. OnlyTheLeaf'
    BY <2>3 DEF OnlyTheLeaf
  <2>10. QED
    BY <2>3, <2>4, <2>7, <2>8, <2>9 DEF InclusionInv
<1>3. CASE Incomplete
  BY <1>3 DEF Incomplete, InclusionInv, TypeOK, OnlyTheLeaf
<1>4. CASE Finish
  <2>1. TypeOK' /\ consumed' <= Len(proof'.path) /\ verdict' # "checking"
    BY <1>4 DEF Finish, InclusionInv, TypeOK
  <2>2. OnlyTheLeaf'
    <3> SUFFICES ASSUME verdict' = "accepted"
                 PROVE  /\ proof.index < proof.size
                        /\ proof.record = proof.index
                        /\ proof.path = AuditPath(Root, proof.index, proof.size)
      BY <1>4 DEF Finish, OnlyTheLeaf
    <3>1. verdict = "checking" /\ last = 0 /\ consumed = Len(proof.path) /\ node = RootOf[proof.size]
      BY <1>4 DEF Finish
    <3>2. PICK w \in Nat : AtLevel(w)
      BY <3>1 DEF InclusionInv
    <3>3. Block(index, w, proof.size) = <<0, proof.size>>
      BY <3>1, <3>2, InclusionAtTheTop
    <3>4. node = Root[<<0, proof.size>>]
      BY <1>1, <3>1 DEF RootOf
    <3>5. /\ proof.record = proof.index
          /\ SubSeq(proof.path, 1, consumed) = AuditPaths(Root, proof.index)[<<0, proof.size>>]
      BY <3>2, <3>3, <3>4 DEF AtLevel
    <3>6. SubSeq(proof.path, 1, consumed) = proof.path
      BY <1>1, <3>1
    <3>7. QED
      BY <3>1, <3>5, <3>6 DEF InclusionInv, AuditPath
  <2>3. QED
    BY <2>1, <2>2 DEF InclusionInv
<1>5. CASE UNCHANGED vars
  <2>1. ASSUME NEW w \in Nat, AtLevel(w) PROVE AtLevel(w)'
    BY <1>5, <2>1 DEF vars, AtLevel
  <2>2. QED
    BY <1>5, <2>1 DEF vars, InclusionInv, TypeOK, OnlyTheLeaf
<1>6. QED
  BY <1>2, <1>3, <1>4, <1>5 DEF Next

LEMMA InclusionInvariant == Spec => []InclusionInv
BY InclusionStarts, InclusionStep, PTL DEF Spec

(* The verifier of inclusion proofs stays within its types; index is never  *)
(* behind the last node of its level, so the loop ends at the root.         *)
THEOREM InclusionTypes == Spec => []TypeOK
<1>1. InclusionInv => TypeOK
  BY DEF InclusionInv
<1>2. QED
  BY <1>1, InclusionInvariant, PTL

(* verify_inclusion_proof accepts a record only at its own index of the     *)
(* signed tree, and only with the audit path of RFC 6962, element for       *)
(* element: for a tree of any size and a path of any length.                *)
THEOREM AcceptedRecordIsTheLeaf == Spec => []OnlyTheLeaf
<1>1. InclusionInv => OnlyTheLeaf
  BY DEF InclusionInv
<1>2. QED
  BY <1>1, InclusionInvariant, PTL

(***************************************************************************)
(* Consistency.  Trees of equal roots have equal leaves.                   *)
(***************************************************************************)

LEMMA EqualRoots ==
  ASSUME NEW leaf
  PROVE  \A r \in Ranges : Roots(leaf)[r] = Root[r] =>
           \A i \in 0..(MaxSize - 1) : r[1] <= i /\ i < r[1] + r[2] => leaf[i] = i
<1> DEFINE Wrong(r) ==
             /\ Roots(leaf)[r] = Root[r]
             /\ \E i \in 0..(MaxSize - 1) : r[1] <= i /\ i < r[1] + r[2] /\ leaf[i] # i
           Bad == {m \in Nat : \E r \in Ranges : r[2] = m /\ Wrong(r)}
<1>1. Bad = {}
  <2> SUFFICES ASSUME Bad # {} PROVE FALSE
    OBVIOUS
  <2>1. PICK m \in Bad : \A y \in Bad : m <= y
    BY Least
  <2>2. PICK r \in Ranges : r[2] = m /\ Wrong(r)
    OBVIOUS
  <2>3. r[1] \in Nat /\ r[2] \in Nat \ {0} /\ r[1] < MaxSize /\ MaxSize \in Nat
    BY MaxSizeAssumption DEF Ranges
  <2>4. PICK i \in 0..(MaxSize - 1) : r[1] <= i /\ i < r[1] + r[2] /\ leaf[i] # i
    BY <2>2
  <2>5. CASE r[2] = 1
    <3>1. r[1] = i
      BY <2>3, <2>4, <2>5
    <3>2. Roots(leaf)[r] = <<leaf[i]>>
      BY <2>5, <3>1, RootsDef DEF LeafHash
    <3>3. r = <<i, 1>>
      BY <2>5, <3>1 DEF Ranges
    <3>4. Root[r] = <<i>>
      BY <3>3, RootOfLeaf DEF LeafHash
    <3>5. <<leaf[i]>> = <<i>>
      BY <2>2, <3>2, <3>4
    <3>6. QED
      BY <2>4, <3>5
  <2>6. CASE r[2] # 1
    <3>1. /\ Low(r) \in Ranges /\ Low(r)[2] < r[2]
          /\ High(r) \in Ranges /\ High(r)[2] < r[2]
      BY <2>6, Parts
    <3>2. NodeHash(Roots(leaf)[Low(r)], Roots(leaf)[High(r)]) = NodeHash(Root[Low(r)], Root[High(r)])
      BY <2>2, <2>6, RootsDef, RootOfNode
    <3>3. Roots(leaf)[Low(r)] = Root[Low(r)] /\ Roots(leaf)[High(r)] = Root[High(r)]
      BY <3>2, HashesDiffer
    <3>4. Split(r[2]) \in Nat
      BY <2>3, <2>6, SplitWithin DEF Ranges
    <3>5. \/ Low(r)[1] <= i /\ i < Low(r)[1] + Low(r)[2]
          \/ High(r)[1] <= i /\ i < High(r)[1] + High(r)[2]
      BY <2>3, <2>4, <3>4 DEF Low, High
    <3>6. Wrong(Low(r)) \/ Wrong(High(r))
      BY <2>4, <3>3, <3>5
    <3>7. Low(r)[2] \in Nat /\ High(r)[2] \in Nat
      BY <3>1 DEF Ranges
    <3>8. Low(r)[2] \in Bad \/ High(r)[2] \in Bad
      BY <3>1, <3>6, <3>7
    <3> HIDE DEF Bad, Wrong
    <3>9. QED
      BY <2>1, <2>2, <2>3, <3>1, <3>7, <3>8
  <2>7. QED
    BY <2>5, <2>6
<1>2. ASSUME NEW r \in Ranges, Wrong(r) PROVE FALSE
  <2>1. r[2] \in Nat
    BY DEF Ranges
  <2>2. QED
    BY <1>1, <1>2, <2>1
<1>3. QED
  BY <1>2

(* The proof that RFC 6962 defines is a sequence of hashes. *)
LEMMA ConsistencyPathIsSequence ==
  ASSUME NEW root, NEW old \in Nat \ {0}
  PROVE  \A r \in Ranges : ConsistencyPaths(root, old)[r] \in Seq({root[q] : q \in Ranges})
<1> DEFINE S == {root[q] : q \in Ranges}
           path == ConsistencyPaths(root, old)
           Bad == {m \in Nat : \E r \in Ranges : r[2] = m /\ path[r] \notin Seq(S)}
<1>1. Bad = {}
  <2> SUFFICES ASSUME Bad # {} PROVE FALSE
    OBVIOUS
  <2>1. PICK m \in Bad : \A y \in Bad : m <= y
    BY Least
  <2>2. PICK r \in Ranges : r[2] = m /\ path[r] \notin Seq(S)
    OBVIOUS
  <2>3. r[2] # 1
    <3>1. root[r] \in S
      OBVIOUS
    <3>2. r[2] = 1 => path[r] \in {<<>>, <<root[r]>>}
      BY ConsistencyPathsDef
    <3> HIDE DEF S, path, Bad
    <3>3. <<>> \in Seq(S) /\ <<root[r]>> \in Seq(S)
      BY <3>1
    <3>4. QED
      BY <2>2, <3>2, <3>3
  <2>4. /\ Low(r) \in Ranges /\ Low(r)[2] < r[2]
        /\ High(r) \in Ranges /\ High(r)[2] < r[2]
    BY <2>3, Parts
  <2>5. \A q \in Ranges : q[2] \in Nat
    <3> HIDE DEF Bad
    <3>1. QED
      BY DEF Ranges
  <2>6. Low(r)[2] \notin Bad /\ High(r)[2] \notin Bad
    <3>1. m = r[2] /\ \A y \in Bad : m <= y
      BY <2>1, <2>2
    <3> HIDE DEF Bad
    <3>2. QED
      BY <2>4, <2>5, <3>1
  <2>7. path[Low(r)] \in Seq(S) /\ path[High(r)] \in Seq(S)
    BY <2>4, <2>5, <2>6
  <2>8. root[r] \in S /\ root[Low(r)] \in S /\ root[High(r)] \in S
    BY <2>4
  <2>9. path[r] \in {<<>>, <<root[r]>>, path[Low(r)] \o <<root[High(r)]>>,
                     path[High(r)] \o <<root[Low(r)]>>}
    BY ConsistencyPathsDef
  <2> HIDE DEF S, path
  <2>10. path[r] \in Seq(S)
    <3>1. <<>> \in Seq(S) /\ <<root[r]>> \in Seq(S)
      BY <2>8
    <3>2. path[Low(r)] \o <<root[High(r)]>> \in Seq(S)
      BY <2>7, <2>8
    <3>3. path[High(r)] \o <<root[Low(r)]>> \in Seq(S)
      BY <2>7, <2>8
    <3>4. QED
      BY <2>9, <3>1, <3>2, <3>3
  <2>11. QED
    BY <2>2, <2>10
<1>2. ASSUME NEW r \in Ranges PROVE path[r] \in Seq(S)
  <2>1. r[2] \in Nat
    BY DEF Ranges
  <2> HIDE DEF S, path
  <2>2. QED
    BY <1>1, <2>1
<1>3. QED
  BY <1>2

LEMMA GrowthTypes ==
  ASSUME NEW p \in Growths
  PROVE  p.old \in 1..MaxSize /\ p.new \in 1..MaxSize /\ \E S : p.path \in Seq(S)
BY GrowthsAssumption DEF GrowthsAssumption

(***************************************************************************)
(* The same width for both trees: fn is the last node of the old one, sn   *)
(* of the new one.  If sr is the root over node fn of the new tree, then   *)
(* fr is that of the old tree if it is the beginning of the new one, and   *)
(* the path used so far is the proof of it.                                *)
(***************************************************************************)

AtWidth(w) ==
  /\ Width(w)
  /\ fn * w < growth.old /\ growth.old <= (fn + 1) * w
  /\ sn * w < growth.new /\ growth.new <= (sn + 1) * w

Agreed(w, a, b, u) ==
  b = Root[Block(fn, w, growth.new)] =>
    /\ a = Root[Block(fn, w, growth.old)]
    /\ SubSeq(growth.path, 1, u) =
         ConsistencyPaths(Root, growth.old)[Block(fn, w, growth.new)]

Starting(w) == AtWidth(w) /\ growth.old = (fn + 1) * w

(* Something of the new tree is missing in the old one below a right child. *)
Rising(w) == AtWidth(w) /\ (Odd(fn) => growth.old < (fn + 1) * w)

GrowthInv ==
  /\ GrowthTypeOK
  /\ used <= Len(growth.path)
  /\ outcome \in {"starting", "checking", "skipping"} => growth.old < growth.new
  /\ outcome = "starting" =>
       /\ used = 0 /\ fr = growth.root /\ sr = growth.root
       /\ \E w \in Nat : Starting(w)
  /\ outcome = "checking" =>
       \E w \in Nat : Rising(w) /\ Agreed(w, fr, sr, used)
  /\ outcome = "skipping" =>
       /\ fn > 0 /\ (Odd(fn) \/ fn = sn) /\ used > 0
       /\ fr = NodeHash(growth.path[used], fr[2])
       /\ sr = NodeHash(growth.path[used], sr[2])
       /\ \E w \in Nat : Rising(w) /\ Agreed(w, fr[2], sr[2], used - 1)
  /\ NoRewrittenLeaf

(* What the facts of a state and of a level say in numbers. *)
LEMMA GrowthNumbers ==
  ASSUME GrowthInv
  PROVE  /\ growth.old \in 1..MaxSize /\ growth.new \in 1..MaxSize
         /\ growth.old \in Nat /\ growth.new \in Nat /\ MaxSize \in Nat
         /\ fn \in Nat /\ sn \in Nat /\ fn <= MaxSize /\ sn <= MaxSize
         /\ (outcome \in {"starting", "checking", "skipping"} => fn <= sn)
         /\ used \in Nat /\ used <= Len(growth.path)
         /\ \E S : growth.path \in Seq(S)
<1>1. growth \in Growths /\ fn \in 0..MaxSize /\ sn \in 0..MaxSize /\ used <= Len(growth.path)
      /\ used \in 0..(Len(growth.path) + 1)
      /\ (outcome \in {"starting", "checking", "skipping"} => fn <= sn)
  BY DEF GrowthInv, GrowthTypeOK
<1>2. \E S : growth.path \in Seq(S)
  BY <1>1, GrowthTypes
<1>3. Len(growth.path) \in Nat
  BY <1>2
<1>4. QED
  BY <1>1, <1>2, <1>3, GrowthTypes, MaxSizeAssumption

LEMMA GrowthStarts == GrowthInit => GrowthInv
<1> SUFFICES ASSUME GrowthInit PROVE GrowthInv
  OBVIOUS
<1>1. /\ growth.old \in 1..MaxSize /\ growth.new \in 1..MaxSize
      /\ \E S : growth.path \in Seq(S)
  BY GrowthTypes DEF GrowthInit
<1>2. Len(growth.path) \in Nat
  BY <1>1
<1>3. /\ growth \in Growths /\ fn = growth.old - 1 /\ sn = growth.new - 1 /\ used = 0
      /\ outcome \in {"starting", "accepted", "rejected"}
      /\ fr = growth.root /\ sr = growth.root
  BY DEF GrowthInit
<1>4. outcome = "starting" => growth.old < growth.new
  BY <1>1, MaxSizeAssumption DEF GrowthInit, Ordered
<1>5. GrowthTypeOK
  BY <1>1, <1>2, <1>3, <1>4, MaxSizeAssumption DEF GrowthTypeOK
<1>6. outcome = "starting" => Starting(1)
  <2>1. fn * 1 = growth.old - 1 /\ (fn + 1) * 1 = growth.old
        /\ sn * 1 = growth.new - 1 /\ (sn + 1) * 1 = growth.new
    BY <1>1, <1>3
  <2>2. QED
    BY <1>1, <2>1, WidthOne DEF Starting, AtWidth
<1>7. NoRewrittenLeaf
  <2> SUFFICES ASSUME outcome = "accepted"
               PROVE  growth.old = growth.new /\ Extends(growth)
    BY <1>1 DEF NoRewrittenLeaf
  <2>1. growth.old = growth.new /\ growth.root = NewRoot(growth)
    BY DEF GrowthInit, SameSize
  <2>2. QED
    BY <2>1 DEF Extends, NewRoot
<1>8. used <= Len(growth.path)
  BY <1>2, <1>3
<1>9. outcome # "checking" /\ outcome # "skipping"
  BY <1>3
<1>10. QED
  BY <1>3, <1>4, <1>5, <1>6, <1>7, <1>8, <1>9 DEF GrowthInv

(* Halving both positions leads to the level of twice the width. *)
LEMMA BothHalve ==
  ASSUME GrowthInv, Halve, growth' = growth, NEW w \in Nat, AtWidth(w)
  PROVE  AtWidth(2 * w)'
<1>1. w \in Nat \ {0} /\ Width(2 * w)
  BY WidthTwice DEF AtWidth, Width
<1>2. /\ (fn \div 2) * (2 * w) < growth.old /\ growth.old <= ((fn \div 2) + 1) * (2 * w)
  BY <1>1, GrowthNumbers, LastAbove DEF AtWidth
<1>3. /\ (sn \div 2) * (2 * w) < growth.new /\ growth.new <= ((sn \div 2) + 1) * (2 * w)
  BY <1>1, GrowthNumbers, LastAbove DEF AtWidth
<1>4. QED
  BY <1>1, <1>2, <1>3 DEF AtWidth, Halve

(* The first numbers are no smaller after halving. *)
LEMMA HalvesOrdered ==
  ASSUME NEW x \in Nat, NEW y \in Nat, x <= y, y <= MaxSize
  PROVE  x \div 2 \in 0..MaxSize /\ y \div 2 \in 0..MaxSize /\ x \div 2 <= y \div 2
BY MaxSizeAssumption

LEMMA DescendKeeps ==
  ASSUME GrowthInv, Descend
  PROVE  GrowthInv'
<1>1. PICK w \in Nat : Starting(w)
  BY DEF GrowthInv, Descend
<1>2. /\ growth' = growth /\ fr' = fr /\ sr' = sr /\ used' = used
      /\ outcome = "starting" /\ outcome' = "starting" /\ Odd(fn)
      /\ fn' = fn \div 2 /\ sn' = sn \div 2 /\ Halve
  BY DEF Descend, Halve
<1>3. AtWidth(2 * w)' /\ w \in Nat \ {0}
  BY <1>1, <1>2, BothHalve DEF Starting, AtWidth, Width
<1>4. growth.old = (fn' + 1) * (2 * w)
  <2> DEFINE k == fn \div 2
  <2>1. fn \in Nat
    BY GrowthNumbers
  <2>2. k \in Nat /\ fn = 2 * k + 1
    BY <1>2, <2>1, EvenOdd DEF Odd
  <2>3. growth.old = (fn + 1) * w
    BY <1>1 DEF Starting
  <2> HIDE DEF k
  <2>4. (2 * k + 1 + 1) * w = (k + 1) * (2 * w)
    BY <2>2
  <2>5. QED
    BY <1>2, <2>2, <2>3, <2>4 DEF k
<1>5. \E v \in Nat : Starting(v)'
  BY <1>2, <1>3, <1>4 DEF Starting
<1>6. fn' \in 0..MaxSize /\ sn' \in 0..MaxSize /\ fn' <= sn'
  BY <1>2, GrowthNumbers, HalvesOrdered
<1>7. GrowthTypeOK'
  BY <1>2, <1>6 DEF GrowthInv, GrowthTypeOK
<1>8. QED
  BY <1>2, <1>5, <1>7 DEF GrowthInv, NoRewrittenLeaf

LEMMA SeedKeeps ==
  ASSUME GrowthInv, Seed
  PROVE  GrowthInv'
<1> DEFINE m == growth.old
           n == growth.new
<1>1. PICK w \in Nat : Starting(w)
  BY DEF GrowthInv, Seed
<1>2. /\ growth' = growth /\ fn' = fn /\ sn' = sn
      /\ outcome = "starting" /\ ~Odd(fn)
      /\ m < n /\ used = 0 /\ fr = growth.root /\ sr = growth.root
  BY DEF Seed, GrowthInv
<1>3. w \in Nat \ {0} /\ fn \in Nat /\ m \in Nat /\ n \in Nat /\ m \in 1..MaxSize /\ n \in 1..MaxSize
  BY <1>1, GrowthNumbers DEF Starting, AtWidth, Width
<1> DEFINE a == fn * w
           b == <<a, w>>
<1>4. a \in Nat /\ m = a + w /\ fn * w = a
  <2>1. m = (fn + 1) * w /\ (fn + 1) * w = fn * w + w
    BY <1>1, <1>3 DEF Starting
  <2>2. QED
    BY <1>3, <2>1
<1>5. Block(fn, w, m) = b /\ Block(fn, w, n) = b /\ b \in Ranges
  <2> HIDE DEF a, m, n
  <2>1. m - a = w /\ ~(n - a < w) /\ a < n
    BY <1>2, <1>3, <1>4
  <2>2. QED
    BY <1>3, <1>4, <2>1, BlockWithin DEF Block
<1>6. Rising(w)'
  BY <1>1, <1>2 DEF Starting, AtWidth, Rising
<1>7. ConsistencyPaths(Root, m)[b] = IF a = 0 THEN <<>> ELSE <<Root[b]>>
  <2>1. m >= b[1] + b[2]
    BY <1>3, <1>4
  <2> HIDE DEF m
  <2>2. m \in Nat \ {0}
    BY <1>3
  <2>3. QED
    BY <1>5, <2>1, <2>2, ConsistencyPathsDef
<1>8. a = 0 <=> fn = 0
  BY <1>3
<1>9. CASE fn = 0
  <2>1. outcome' = "checking" /\ fr' = fr /\ sr' = sr /\ used' = 0
    BY <1>2, <1>9 DEF Seed
  <2>2. sr = Root[b] => fr = Root[b]
    BY <1>2
  <2>3. SubSeq(growth.path, 1, 0) = <<>>
    BY GrowthNumbers
  <2>4. Agreed(w, fr, sr, 0)
    BY <1>5, <1>7, <1>8, <1>9, <2>2, <2>3 DEF Agreed
  <2>5. Agreed(w, fr, sr, used)'
    BY <1>2, <2>1, <2>4 DEF Agreed
  <2>6. GrowthTypeOK'
    BY <1>2, <2>1 DEF GrowthInv, GrowthTypeOK
  <2>7. used' <= Len(growth'.path)
    BY <1>2, <2>1, GrowthNumbers
  <2>8. QED
    BY <1>2, <1>6, <2>1, <2>5, <2>6, <2>7 DEF GrowthInv, NoRewrittenLeaf
<1>10. CASE fn # 0 /\ growth.path = <<>>
  <2>1. outcome' = "rejected" /\ fr' = fr /\ sr' = sr /\ used' = used
    BY <1>10 DEF Seed
  <2>2. QED
    BY <1>2, <2>1 DEF GrowthInv, GrowthTypeOK, NoRewrittenLeaf
<1>11. CASE fn # 0 /\ growth.path # <<>>
  <2>1. outcome' = "checking" /\ fr' = growth.path[1] /\ sr' = growth.path[1] /\ used' = 1
    BY <1>11 DEF Seed
  <2>2. Len(growth.path) \in Nat /\ 1 <= Len(growth.path)
        /\ SubSeq(growth.path, 1, 1) = <<growth.path[1]>>
    <3>1. PICK S : growth.path \in Seq(S)
      BY GrowthNumbers
    <3>2. Len(growth.path) \in Nat /\ Len(growth.path) # 0
      BY <1>11, <3>1
    <3>3. QED
      BY <3>1, <3>2, FirstOne
  <2>3. Agreed(w, growth.path[1], growth.path[1], 1)
    BY <1>5, <1>7, <1>8, <1>11, <2>2 DEF Agreed
  <2>4. Agreed(w, fr, sr, used)'
    BY <1>2, <2>1, <2>3 DEF Agreed
  <2>5. GrowthTypeOK'
    BY <1>2, <2>1, <2>2 DEF GrowthInv, GrowthTypeOK
  <2>6. QED
    BY <1>2, <1>6, <2>1, <2>2, <2>4, <2>5 DEF GrowthInv, NoRewrittenLeaf
<1>12. QED
  BY <1>9, <1>10, <1>11

(* The block of the old tree is not missing its right sibling: it has none. *)
LEMMA LastHasNoSibling ==
  ASSUME NEW n \in 1..MaxSize, NEW w \in Nat \ {0}, NEW x \in Nat, ~Odd(x),
         x * w < n, n <= (x + 1) * w
  PROVE  Block(x \div 2, 2 * w, n) = Block(x, w, n)
<1> DEFINE k == x \div 2
<1>1. k \in Nat /\ x = 2 * k
  BY EvenOdd DEF Odd
<1> HIDE DEF k
<1>2. (2 * k + 1) * w >= n
  BY <1>1, MaxSizeAssumption
<1>3. QED
  BY <1>1, <1>2, OnlyChild DEF k

LEMMA SkipKeeps ==
  ASSUME GrowthInv, Skip
  PROVE  GrowthInv'
<1>1. PICK w \in Nat : Rising(w) /\ Agreed(w, fr[2], sr[2], used - 1)
  BY DEF GrowthInv, Skip
<1>2. /\ growth' = growth /\ fr' = fr /\ sr' = sr /\ used' = used
      /\ outcome = "skipping" /\ outcome' = "skipping" /\ ~Odd(fn) /\ fn > 0 /\ fn = sn
      /\ fn' = fn \div 2 /\ sn' = sn \div 2 /\ Halve /\ growth.old < growth.new
  BY DEF Skip, Halve, GrowthInv
<1>3. w \in Nat \ {0} /\ fn \in Nat /\ growth.old \in 1..MaxSize /\ growth.new \in 1..MaxSize
      /\ growth.old \in Nat /\ growth.new \in Nat
  BY <1>1, GrowthNumbers DEF Rising, AtWidth, Width
<1>4. AtWidth(w) /\ AtWidth(2 * w)'
  BY <1>1, <1>2, BothHalve DEF Rising
<1>5. /\ fn * w < growth.old /\ growth.old <= (fn + 1) * w
      /\ fn * w < growth.new /\ growth.new <= (fn + 1) * w
  BY <1>2, <1>4 DEF AtWidth
<1>6. /\ Block(fn', 2 * w, growth.old) = Block(fn, w, growth.old)
      /\ Block(fn', 2 * w, growth.new) = Block(fn, w, growth.new)
  BY <1>2, <1>3, <1>5, LastHasNoSibling
<1> DEFINE k == fn \div 2
<1>7. k \in Nat /\ fn = 2 * k
  BY <1>2, <1>3, EvenOdd DEF Odd
<1>8. fn' * (2 * w) = fn * w /\ fn' > 0 /\ fn' = k
  BY <1>2, <1>3, <1>7
<1>9. growth.old < (fn' + 1) * (2 * w)
  <2> HIDE DEF k
  <2>1. (2 * k + 1) * w <= (k + 1) * (2 * w) /\ (2 * k + 1) * w \in Nat /\ (k + 1) * (2 * w) \in Nat
    BY <1>3, <1>7
  <2>2. QED
    BY <1>2, <1>3, <1>5, <1>7, <1>8, <2>1
<1>10. Rising(2 * w)'
  BY <1>2, <1>4, <1>9 DEF Rising
<1>11. Agreed(2 * w, fr[2], sr[2], used - 1)'
  BY <1>1, <1>2, <1>6, <1>8 DEF Agreed
<1>12. fn' \in 0..MaxSize /\ sn' \in 0..MaxSize /\ fn' = sn'
  BY <1>2, GrowthNumbers, HalvesOrdered
<1>13. GrowthTypeOK'
  BY <1>2, <1>12 DEF GrowthInv, GrowthTypeOK
<1>14. \E v \in Nat : Rising(v)' /\ Agreed(v, fr[2], sr[2], used - 1)'
  BY <1>3, <1>10, <1>11
<1>15. QED
  BY <1>2, <1>8, <1>12, <1>13, <1>14 DEF GrowthInv, NoRewrittenLeaf

(* The path of a new block that the old tree reaches into. *)
LEMMA PathOfBlock ==
  ASSUME NEW m \in Nat \ {0}, NEW p \in Ranges, p[2] # 1, m < p[1] + p[2]
  PROVE  ConsistencyPaths(Root, m)[p] =
           IF m <= High(p)[1] THEN ConsistencyPaths(Root, m)[Low(p)] \o <<Root[High(p)]>>
           ELSE ConsistencyPaths(Root, m)[High(p)] \o <<Root[Low(p)]>>
<1>1. ~(m >= p[1] + p[2])
  BY DEF Ranges
<1>2. QED
  BY <1>1, ConsistencyPathsDef

LEMMA AscendKeeps ==
  ASSUME GrowthInv, Ascend
  PROVE  GrowthInv'
<1> DEFINE m == growth.old
           n == growth.new
<1>1. PICK w \in Nat : Rising(w) /\ Agreed(w, fr, sr, used)
  BY DEF GrowthInv, Ascend
<1>2. /\ growth' = growth /\ used' = used + 1 /\ outcome = "checking" /\ m < n
      /\ used < Len(growth.path) /\ sn > 0
  BY DEF Ascend, GrowthInv
<1>3. /\ w \in Nat \ {0} /\ fn \in Nat /\ sn \in Nat /\ fn <= sn /\ used \in Nat
      /\ m \in 1..MaxSize /\ n \in 1..MaxSize /\ m \in Nat \ {0} /\ n \in Nat
  BY <1>1, <1>2, GrowthNumbers DEF Rising, AtWidth, Width
<1>4. PICK S : growth.path \in Seq(S)
  BY GrowthNumbers
<1>5. used' \in 0..(Len(growth.path) + 1) /\ used' <= Len(growth.path)
  BY <1>2, <1>3, <1>4
<1>6. CASE InBoth
  <2>1. /\ fr' = NodeHash(NextNode, fr) /\ sr' = NodeHash(NextNode, sr)
        /\ outcome' = "skipping" /\ fn' = fn /\ sn' = sn
    BY <1>6 DEF Ascend
  <2>2. fn > 0 /\ (Odd(fn) \/ fn = sn)
    <3>1. ~Odd(0)
      BY DEF Odd
    <3>2. QED
      BY <1>2, <1>3, <1>6, <3>1 DEF InBoth
  <2>3. fr'[2] = fr /\ sr'[2] = sr /\ growth'.path[used'] = NextNode /\ used' - 1 = used
    BY <1>2, <1>3, <2>1 DEF NodeHash, NextNode
  <2>4. Rising(w)' /\ Agreed(w, fr[2], sr[2], used - 1)'
    BY <1>1, <1>2, <2>1, <2>3 DEF Rising, AtWidth, Agreed
  <2>5. GrowthTypeOK'
    BY <1>2, <1>5, <2>1 DEF GrowthInv, GrowthTypeOK
  <2>6. used' > 0
    BY <1>2, <1>3
  <2>7. QED
    BY <1>2, <1>5, <2>1, <2>2, <2>3, <2>4, <2>5, <2>6 DEF GrowthInv, NoRewrittenLeaf
<1>7. CASE ~InBoth
  <2> DEFINE k == fn \div 2
             p == Block(k, 2 * w, n)
             b == Block(fn, w, n)
             path == ConsistencyPaths(Root, m)
  <2>1. /\ fr' = fr /\ sr' = NodeHash(sr, NextNode) /\ outcome' = "checking"
        /\ Halve /\ fn' = k /\ sn' = sn \div 2
    BY <1>7 DEF Ascend, Halve
  <2>2. k \in Nat /\ fn = 2 * k /\ ~Odd(fn) /\ fn < sn
    BY <1>3, <1>7, EvenOdd DEF InBoth, Odd
  <2>3. AtWidth(w) /\ AtWidth(2 * w)' /\ Width(w)
    BY <1>1, <1>2, <2>1, BothHalve DEF Rising, AtWidth
  <2>4. /\ fn * w < m /\ m <= (fn + 1) * w
        /\ sn * w < n /\ n <= (sn + 1) * w
    BY <2>3 DEF AtWidth
  <2>5. Block(k, 2 * w, m) = Block(fn, w, m)
    BY <1>3, <2>2, <2>4, LastHasNoSibling
  <2>6. (fn + 1) * w < n /\ (2 * k + 1) * w < n
    BY <1>3, <2>2, <2>4, NotTheLast
  <2>7. p \in Ranges /\ p[2] # 1 /\ Low(p) = b /\ High(p) = Block(2 * k + 1, w, n)
    BY <1>3, <2>2, <2>3, <2>6, RightChild
  <2>8. High(p)[1] = (fn + 1) * w
    BY <2>2, <2>7 DEF Block
  <2>9. k * (2 * w) = fn * w /\ (k + 1) * (2 * w) = (fn + 1) * w + w /\ (fn + 1) * w \in Nat
    BY <1>3, <2>2
  <2>10. m < p[1] + p[2]
    <3>1. p[1] = k * (2 * w) /\ p[2] \in Nat /\ p[2] > 0
          /\ p[2] = IF n - k * (2 * w) < 2 * w THEN n - k * (2 * w) ELSE 2 * w
      BY <2>7 DEF Block, Ranges
    <3>2. fn * w \in Nat /\ (fn + 1) * w = fn * w + w
      BY <1>3
    <3> HIDE DEF k, p, m, n
    <3>3. QED
      BY <1>2, <1>3, <2>4, <2>9, <3>1, <3>2
  <2>11. path[p] = path[b] \o <<Root[High(p)]>>
    BY <1>3, <2>4, <2>7, <2>8, <2>10, PathOfBlock
  <2>12. Agreed(2 * w, fr, sr, used)'
    <3> SUFFICES ASSUME sr' = Root[p]
                 PROVE  /\ fr' = Root[Block(k, 2 * w, m)]
                        /\ SubSeq(growth.path, 1, used') = path[p]
      BY <1>2, <2>1 DEF Agreed
    <3>1. NodeHash(sr, NextNode) = NodeHash(Root[Low(p)], Root[High(p)])
      BY <2>1, <2>7, RootOfNode
    <3>2. sr = Root[b] /\ NextNode = Root[High(p)]
      BY <2>7, <3>1, HashesDiffer
    <3>3. fr = Root[Block(fn, w, m)] /\ SubSeq(growth.path, 1, used) = path[b]
      BY <1>1, <3>2 DEF Agreed
    <3>4. fr' = Root[Block(k, 2 * w, m)]
      BY <2>1, <2>5, <3>3
    <3>5. used \in 0..(Len(growth.path) - 1)
      BY <1>2, <1>3, <1>4
    <3>6. SubSeq(growth.path, 1, used + 1) = SubSeq(growth.path, 1, used) \o <<growth.path[used + 1]>>
      BY <1>4, <3>5, OneMore
    <3>7. QED
      BY <1>2, <2>11, <3>2, <3>3, <3>4, <3>6 DEF NextNode
  <2>13. Rising(2 * w)'
    <3>1. m < (k + 1) * (2 * w)
      <4> HIDE DEF k, m
      <4>1. QED
        BY <1>3, <2>4, <2>9
    <3>2. QED
      BY <1>2, <2>1, <2>3, <3>1 DEF Rising
  <2>14. fn' \in 0..MaxSize /\ sn' \in 0..MaxSize /\ fn' <= sn'
    BY <1>2, <2>1, GrowthNumbers, HalvesOrdered
  <2>15. GrowthTypeOK'
    BY <1>2, <1>5, <2>1, <2>14 DEF GrowthInv, GrowthTypeOK
  <2>16. 2 * w \in Nat
    BY <1>3
  <2>17. \E v \in Nat : Rising(v)' /\ Agreed(v, fr, sr, used)'
    BY <2>12, <2>13, <2>16
  <2>18. QED
    BY <1>2, <1>5, <2>1, <2>15, <2>17 DEF GrowthInv, NoRewrittenLeaf
<1>8. QED
  BY <1>6, <1>7

LEMMA NextLevelKeeps ==
  ASSUME GrowthInv, NextLevel
  PROVE  GrowthInv'
<1> DEFINE m == growth.old
           n == growth.new
           k == fn \div 2
           path == ConsistencyPaths(Root, m)
<1>1. PICK w \in Nat : Rising(w) /\ Agreed(w, fr[2], sr[2], used - 1)
  BY DEF GrowthInv, NextLevel
<1>2. /\ growth' = growth /\ used' = used /\ fr' = fr /\ sr' = sr
      /\ outcome = "skipping" /\ outcome' = "checking" /\ m < n
      /\ Halve /\ fn' = k /\ sn' = sn \div 2
      /\ fn > 0 /\ (fn = 0 \/ Odd(fn)) /\ used > 0
      /\ fr = NodeHash(growth.path[used], fr[2]) /\ sr = NodeHash(growth.path[used], sr[2])
  BY DEF NextLevel, Halve, GrowthInv
<1>3. /\ w \in Nat \ {0} /\ fn \in Nat /\ sn \in Nat /\ fn <= sn /\ used \in Nat
      /\ m \in 1..MaxSize /\ n \in 1..MaxSize /\ m \in Nat \ {0} /\ n \in Nat
  BY <1>1, <1>2, GrowthNumbers DEF Rising, AtWidth, Width
<1>4. Odd(fn) /\ k \in Nat /\ fn = 2 * k + 1
  BY <1>2, <1>3, EvenOdd DEF Odd
<1>5. AtWidth(w) /\ AtWidth(2 * w)' /\ Width(w) /\ m < (fn + 1) * w
  BY <1>1, <1>2, <1>4, BothHalve DEF Rising, AtWidth
<1>6. /\ fn * w < m /\ sn * w < n
      /\ k * (2 * w) = (2 * k) * w /\ (2 * k) * w \in Nat
      /\ fn * w = (2 * k) * w + w /\ (fn + 1) * w = (k + 1) * (2 * w)
      /\ (k + 1) * (2 * w) = (2 * k) * w + 2 * w
  BY <1>3, <1>4, <1>5 DEF AtWidth
<1>7. (2 * k + 1) * w < m /\ (2 * k + 1) * w < n
  <2> HIDE DEF m, n, k
  <2>1. (2 * k + 1) * w < m
    BY <1>4, <1>6
  <2>2. (2 * k + 1) * w \in Nat
    BY <1>3, <1>4
  <2>3. QED
    BY <1>2, <1>3, <2>1, <2>2
<1> DEFINE left == <<(2 * k) * w, w>>
           o == Block(k, 2 * w, m)
           p == Block(k, 2 * w, n)
<1>8. /\ o \in Ranges /\ o[2] # 1 /\ Low(o) = Block(2 * k, w, m) /\ High(o) = Block(fn, w, m)
      /\ p \in Ranges /\ p[2] # 1 /\ Low(p) = Block(2 * k, w, n) /\ High(p) = Block(fn, w, n)
  BY <1>3, <1>4, <1>5, <1>7, RightChild
<1>9. Low(o) = left /\ Low(p) = left /\ left \in Ranges
  <2> HIDE DEF k, m, n
  <2>1. ~(m - (2 * k) * w < w) /\ ~(n - (2 * k) * w < w)
    BY <1>2, <1>3, <1>6
  <2>2. Block(2 * k, w, m) = left /\ Block(2 * k, w, n) = left
    BY <2>1 DEF Block
  <2>3. Low(p) \in Ranges
    BY <1>8, Parts
  <2>4. QED
    BY <1>8, <2>2, <2>3
<1>10. m < p[1] + p[2]
  <2>1. p[1] = k * (2 * w) /\ p[2] \in Nat
        /\ p[2] = IF n - k * (2 * w) < 2 * w THEN n - k * (2 * w) ELSE 2 * w
    BY <1>8 DEF Block, Ranges
  <2> HIDE DEF k, p, m, n
  <2>2. QED
    BY <1>2, <1>3, <1>5, <1>6, <2>1
<1>11. path[p] = path[High(p)] \o <<Root[left]>>
  <2>1. High(p)[1] = fn * w
    BY <1>8 DEF Block
  <2>2. ~(m <= High(p)[1])
    <3> HIDE DEF k, p, m
    <3>1. QED
      BY <1>3, <1>6, <2>1
  <2>3. QED
    BY <1>3, <1>8, <1>9, <1>10, <2>2, PathOfBlock
<1>12. Agreed(2 * w, fr, sr, used)'
  <2> SUFFICES ASSUME sr = Root[p]
               PROVE  fr = Root[o] /\ SubSeq(growth.path, 1, used) = path[p]
    BY <1>2 DEF Agreed
  <2>1. NodeHash(growth.path[used], sr[2]) = NodeHash(Root[left], Root[High(p)])
    BY <1>2, <1>8, <1>9, RootOfNode
  <2>2. growth.path[used] = Root[left] /\ sr[2] = Root[High(p)]
    BY <2>1, HashesDiffer
  <2>3. fr[2] = Root[High(o)] /\ SubSeq(growth.path, 1, used - 1) = path[High(p)]
    BY <1>1, <1>8, <2>2 DEF Agreed
  <2>4. fr = NodeHash(Root[left], Root[High(o)])
    BY <1>2, <2>2, <2>3
  <2>5. fr = Root[o]
    BY <1>8, <1>9, <2>4, RootOfNode
  <2>6. SubSeq(growth.path, 1, used) = SubSeq(growth.path, 1, used - 1) \o <<growth.path[used]>>
    <3>1. PICK S : growth.path \in Seq(S)
      BY GrowthNumbers
    <3>2. used - 1 \in 0..(Len(growth.path) - 1) /\ (used - 1) + 1 = used
      BY <1>2, <1>3, <3>1, GrowthNumbers
    <3>3. SubSeq(growth.path, 1, (used - 1) + 1) =
            SubSeq(growth.path, 1, used - 1) \o <<growth.path[(used - 1) + 1]>>
      BY <3>1, <3>2, OneMore
    <3>4. QED
      BY <3>2, <3>3
  <2>7. QED
    BY <1>11, <2>2, <2>3, <2>5, <2>6
<1>13. Rising(2 * w)'
  BY <1>2, <1>5, <1>6 DEF Rising
<1>14. fn' \in 0..MaxSize /\ sn' \in 0..MaxSize /\ fn' <= sn'
  BY <1>2, GrowthNumbers, HalvesOrdered
<1>15. GrowthTypeOK'
  BY <1>2, <1>14 DEF GrowthInv, GrowthTypeOK
<1>16. 2 * w \in Nat
  BY <1>3
<1>17. \E v \in Nat : Rising(v)' /\ Agreed(v, fr, sr, used)'
  BY <1>12, <1>13, <1>16
<1>18. QED
  BY <1>2, <1>15, <1>17 DEF GrowthInv, NoRewrittenLeaf

LEMMA CompareKeeps ==
  ASSUME GrowthInv, CompareRoots
  PROVE  GrowthInv'
<1>1. /\ growth' = growth /\ fn' = fn /\ sn' = sn /\ fr' = fr /\ sr' = sr /\ used' = used
      /\ outcome = "checking" /\ used = Len(growth.path)
      /\ outcome' = IF sn = 0 /\ fr = growth.root /\ sr = NewRoot(growth)
                    THEN "accepted" ELSE "rejected"
      /\ growth.old < growth.new
  BY DEF CompareRoots, GrowthInv
<1>2. ASSUME sn = 0, fr = growth.root, sr = NewRoot(growth)
      PROVE  /\ Extends(growth)
             /\ growth.path = ConsistencyPath(Root, growth.old, growth.new)
  <2>1. PICK w \in Nat : Rising(w) /\ Agreed(w, fr, sr, used)
    BY <1>1 DEF GrowthInv
  <2>2. fn = 0 /\ growth.old \in 1..MaxSize /\ growth.new \in 1..MaxSize
        /\ growth.old \in Nat /\ growth.new \in Nat
    BY <1>1, <1>2, GrowthNumbers
  <2>3. w >= growth.new /\ w >= growth.old
    <3>1. growth.new <= (0 + 1) * w
      BY <1>2, <2>1 DEF Rising, AtWidth
    <3>2. QED
      BY <1>1, <2>2, <3>1
  <2>4. Block(fn, w, growth.old) = <<0, growth.old>> /\ Block(fn, w, growth.new) = <<0, growth.new>>
    BY <2>2, <2>3, WholeTree
  <2>5. sr = Root[<<0, growth.new>>]
    BY <1>2 DEF NewRoot
  <2>6. /\ fr = Root[<<0, growth.old>>]
        /\ SubSeq(growth.path, 1, used) = ConsistencyPaths(Root, growth.old)[<<0, growth.new>>]
    BY <2>1, <2>4, <2>5 DEF Agreed
  <2>7. SubSeq(growth.path, 1, used) = growth.path
    BY <1>1, GrowthNumbers
  <2>8. QED
    BY <1>2, <2>6, <2>7 DEF ConsistencyPath, Extends
<1>3. GrowthTypeOK'
  BY <1>1 DEF GrowthInv, GrowthTypeOK
<1>4. NoRewrittenLeaf'
  <2>1. growth.old <= growth.new
    BY <1>1, GrowthNumbers
  <2>2. QED
    BY <1>1, <1>2, <2>1 DEF NoRewrittenLeaf
<1>5. QED
  BY <1>1, <1>3, <1>4 DEF GrowthInv

LEMMA GrowthStep == GrowthInv /\ [GrowthNext]_growthVars => GrowthInv'
<1> SUFFICES ASSUME GrowthInv, [GrowthNext]_growthVars PROVE GrowthInv'
  OBVIOUS
<1>1. CASE Excess
  BY <1>1 DEF Excess, GrowthInv, GrowthTypeOK, NoRewrittenLeaf
<1>2. CASE UNCHANGED growthVars
  <2>1. /\ growth' = growth /\ fn' = fn /\ sn' = sn /\ fr' = fr /\ sr' = sr /\ used' = used
        /\ outcome' = outcome
    BY <1>2 DEF growthVars
  <2>2. GrowthTypeOK' /\ NoRewrittenLeaf'
    BY <2>1 DEF GrowthInv, GrowthTypeOK, NoRewrittenLeaf
  <2>3. ASSUME NEW w \in Nat PROVE AtWidth(w)' <=> AtWidth(w)
    BY <2>1 DEF AtWidth
  <2>4. ASSUME NEW w \in Nat PROVE /\ Starting(w)' <=> Starting(w)
                                   /\ Rising(w)' <=> Rising(w)
    BY <2>1, <2>3 DEF Starting, Rising
  <2>5. ASSUME NEW w \in Nat
        PROVE  /\ Agreed(w, fr, sr, used)' <=> Agreed(w, fr, sr, used)
               /\ Agreed(w, fr[2], sr[2], used - 1)' <=> Agreed(w, fr[2], sr[2], used - 1)
    BY <2>1 DEF Agreed
  <2>6. QED
    BY <2>1, <2>2, <2>4, <2>5 DEF GrowthInv
<1>3. QED
  BY <1>1, <1>2, DescendKeeps, SeedKeeps, AscendKeeps, SkipKeeps, NextLevelKeeps, CompareKeeps
     DEF GrowthNext

LEMMA GrowthInvariant == GrowthSpec => []GrowthInv
BY GrowthStarts, GrowthStep, PTL DEF GrowthSpec

(* The verifier of consistency proofs stays within its types; the node of   *)
(* the old tree is never to the right of the new tree's last one.           *)
THEOREM ConsistencyTypes == GrowthSpec => []GrowthTypeOK
<1>1. GrowthInv => GrowthTypeOK
  BY DEF GrowthInv
<1>2. QED
  BY <1>1, GrowthInvariant, PTL

(* verify_consistency_proof accepts two heads only if the old root is that  *)
(* of the new tree's first leaves, and only with the consistency proof of   *)
(* RFC 6962: for trees of any size, any old root and any path.              *)
THEOREM AcceptedGrowthRewritesNoLeaf == GrowthSpec => []NoRewrittenLeaf
<1>1. GrowthInv => NoRewrittenLeaf
  BY DEF GrowthInv
<1>2. QED
  BY <1>1, GrowthInvariant, PTL

(* So if the old root is that of a tree of some leaves, none of them is     *)
(* another one in the new tree: "growth [...] cannot rewrite any prior leaf".*)
THEOREM AcceptedGrowthKeepsLeaves ==
  ASSUME NEW leaf
  PROVE  GrowthSpec => [](outcome = "accepted" /\ growth.root = Roots(leaf)[<<0, growth.old>>]
                            => \A i \in 0..(growth.old - 1) : leaf[i] = Leaf[i])
<1>1. ASSUME GrowthInv, outcome = "accepted", growth.root = Roots(leaf)[<<0, growth.old>>],
             NEW i \in 0..(growth.old - 1)
      PROVE  leaf[i] = Leaf[i]
  <2>1. growth.old \in 1..MaxSize /\ i \in 0..(MaxSize - 1) /\ i < 0 + growth.old
    BY <1>1, GrowthNumbers, MaxSizeAssumption
  <2>2. <<0, growth.old>> \in Ranges
    BY <2>1, MaxSizeAssumption DEF Ranges
  <2>3. Roots(leaf)[<<0, growth.old>>] = Root[<<0, growth.old>>]
    BY <1>1 DEF GrowthInv, NoRewrittenLeaf, Extends
  <2>4. leaf[i] = i
    BY <2>1, <2>2, <2>3, EqualRoots
  <2>5. QED
    BY <2>1, <2>4 DEF Leaf
<1>2. GrowthInv => (outcome = "accepted" /\ growth.root = Roots(leaf)[<<0, growth.old>>]
                      => \A i \in 0..(growth.old - 1) : leaf[i] = Leaf[i])
  BY <1>1
<1>3. QED
  BY <1>2, GrowthInvariant, PTL

(***************************************************************************)
(* Sequences that continue one another.                                    *)
(***************************************************************************)

Hashes == {Root[r] : r \in Ranges}

LEMMA Longer ==
  ASSUME NEW S, NEW s \in Seq(S), NEW t \in Seq(S), t # <<>>
  PROVE  Len(s) < Len(s \o t)
OBVIOUS

LEMMA Further ==
  ASSUME NEW S, NEW s \in Seq(S), NEW h \in S, NEW t \in Seq(S)
  PROVE  /\ (s \o <<h>>) \o t = s \o (<<h>> \o t)
         /\ <<h>> \o t \in Seq(S) /\ <<h>> \o t # <<>>
         /\ ((s \o <<h>>) \o t)[Len(s) + 1] = h
         /\ Len(s) < Len((s \o <<h>>) \o t)
<1>1. <<h>> \in Seq(S) /\ Len(<<h>>) = 1 /\ <<h>>[1] = h
  OBVIOUS
<1>2. /\ s \o <<h>> \in Seq(S) /\ Len(s \o <<h>>) = Len(s) + 1 /\ Len(s) \in Nat
      /\ (s \o <<h>>)[Len(s) + 1] = h
  OBVIOUS
<1>3. (s \o <<h>>) \o t = s \o (<<h>> \o t)
  BY <1>1, ConcatAssociative
<1>4. <<h>> \o t \in Seq(S) /\ <<h>> \o t # <<>>
  BY <1>1, ConcatProperties, ConcatEqualIffEmpty
<1> DEFINE u == s \o <<h>>
<1> HIDE DEF u
<1>5. /\ Len(u \o t) = Len(u) + Len(t) /\ Len(t) \in Nat
      /\ \A k \in 1..(Len(u) + Len(t)) : (u \o t)[k] = IF k <= Len(u) THEN u[k] ELSE t[k - Len(u)]
  BY <1>2, ConcatProperties DEF u
<1>6. (u \o t)[Len(s) + 1] = h /\ Len(s) < Len(u \o t)
  <2>1. Len(u) = Len(s) + 1 /\ Len(s) \in Nat /\ u[Len(s) + 1] = h
    BY <1>2 DEF u
  <2>2. QED
    BY <1>5, <2>1
<1>7. QED
  BY <1>3, <1>4, <1>6 DEF u

(* A path of which c elements were used, and what these are. *)
LEMMA UsedLength ==
  ASSUME NEW S, NEW path \in Seq(S), NEW c \in 0..Len(path), NEW s, SubSeq(path, 1, c) = s
  PROVE  Len(s) = c
OBVIOUS

(***************************************************************************)
(* The other direction: the proof that RFC 6962 defines is never refused.  *)
(* The audit path of a node is the beginning of that of the whole tree.    *)
(***************************************************************************)

LEMMA AuditPathIsSequence ==
  ASSUME NEW i
  PROVE  \A r \in Ranges : AuditPaths(Root, i)[r] \in Seq(Hashes)
<1> DEFINE path == AuditPaths(Root, i)
           Bad == {m \in Nat : \E r \in Ranges : r[2] = m /\ path[r] \notin Seq(Hashes)}
<1>1. Bad = {}
  <2> SUFFICES ASSUME Bad # {} PROVE FALSE
    OBVIOUS
  <2>1. PICK m \in Bad : \A y \in Bad : m <= y
    BY Least
  <2>2. PICK r \in Ranges : r[2] = m /\ path[r] \notin Seq(Hashes)
    OBVIOUS
  <2>3. r[2] # 1
    <3>1. r[2] = 1 => path[r] = <<>>
      <4> HIDE DEF Bad
      <4>1. QED
        BY AuditPathsDef, Zenon
    <3> HIDE DEF path, Bad
    <3>2. <<>> \in Seq(Hashes)
      OBVIOUS
    <3>3. QED
      BY <2>2, <3>1, <3>2
  <2>4. /\ Low(r) \in Ranges /\ Low(r)[2] < r[2]
        /\ High(r) \in Ranges /\ High(r)[2] < r[2]
    BY <2>3, Parts
  <2>5. \A q \in Ranges : q[2] \in Nat
    <3> HIDE DEF Bad
    <3>1. QED
      BY DEF Ranges
  <2>6. Low(r)[2] \notin Bad /\ High(r)[2] \notin Bad
    <3>1. m = r[2] /\ \A y \in Bad : m <= y
      BY <2>1, <2>2
    <3> HIDE DEF Bad
    <3>2. QED
      BY <2>4, <2>5, <3>1
  <2>7. path[Low(r)] \in Seq(Hashes) /\ path[High(r)] \in Seq(Hashes)
    BY <2>4, <2>5, <2>6
  <2>8. Root[Low(r)] \in Hashes /\ Root[High(r)] \in Hashes
    BY <2>4 DEF Hashes
  <2>9. path[r] \in {path[Low(r)] \o <<Root[High(r)]>>, path[High(r)] \o <<Root[Low(r)]>>}
    BY <2>3, AuditPathsDef
  <2> HIDE DEF path
  <2>10. path[r] \in Seq(Hashes)
    <3>1. path[Low(r)] \o <<Root[High(r)]>> \in Seq(Hashes)
      BY <2>7, <2>8
    <3>2. path[High(r)] \o <<Root[Low(r)]>> \in Seq(Hashes)
      BY <2>7, <2>8
    <3>3. QED
      BY <2>9, <3>1, <3>2
  <2>11. QED
    BY <2>2, <2>10
<1>2. ASSUME NEW r \in Ranges PROVE path[r] \in Seq(Hashes)
  <2>1. r[2] \in Nat
    BY DEF Ranges
  <2> HIDE DEF path
  <2>2. QED
    BY <1>1, <2>1
<1>3. QED
  BY <1>2

(* Node j of width w is above the x-th leaf. *)
Over(x, w, j) == Width(w) /\ j * w < x /\ x <= (j + 1) * w

(* The paths of such a node b and of its parent p in a tree of n leaves. *)
PathStep(path, n, w, j, b, p) ==
  /\ b \in Ranges /\ p \in Ranges
  /\ j % 2 = 1 => p[2] # 1 /\ High(p) = b /\ path[p] = path[b] \o <<Root[Low(p)]>>
  /\ j % 2 # 1 /\ (j + 1) * w < n =>
       p[2] # 1 /\ Low(p) = b /\ path[p] = path[b] \o <<Root[High(p)]>>
  /\ j % 2 # 1 /\ (j + 1) * w >= n => p = b

LEMMA Nearer ==
  ASSUME NEW n \in Nat, NEW w \in Nat, NEW d \in Nat, w > 0, 2 * w < n, n = w + d
  PROVE  n - 2 * w \in Nat /\ n = 2 * w + (n - 2 * w) /\ ~(d <= n - 2 * w)
OBVIOUS

LEMMA FirstNode ==
  ASSUME NEW w \in Nat, NEW j \in Nat, NEW x \in Nat, NEW n \in Nat,
         j * w < x, x <= n, w >= n
  PROVE  j = 0
<1>1. j > 0 => j * w >= w
  OBVIOUS
<1>2. j * w \in Nat
  OBVIOUS
<1>3. QED
  BY <1>1, <1>2

(* The path of the whole tree is that of node j, continued. *)
Continued(path, n, w, j) ==
  \E t \in Seq(Hashes) : path[<<0, n>>] = path[Block(j, w, n)] \o t /\ (w < n => t # <<>>)

(* The nodes above the x-th leaf, given with their widths, up to the root:  *)
(* the path of each is the beginning of the path of the whole tree.         *)
LEMMA PathContinues ==
  ASSUME NEW n \in 1..MaxSize, NEW x \in 1..n, NEW path, NEW Nodes,
         \A r \in Ranges : path[r] \in Seq(Hashes),
         \A w, j \in Nat : <<w, j>> \in Nodes =>
           /\ Over(x, w, j)
           /\ PathStep(path, n, w, j, Block(j, w, n), Block(j \div 2, 2 * w, n))
           /\ <<2 * w, j \div 2>> \in Nodes
  PROVE  \A w, j \in Nat : <<w, j>> \in Nodes => Continued(path, n, w, j)
<1> DEFINE Bad == {d \in Nat : \E w, j \in Nat : /\ <<w, j>> \in Nodes
                                                 /\ w < n /\ n = w + d
                                                 /\ ~Continued(path, n, w, j)}
<1>0. n \in Nat /\ n > 0 /\ <<0, n>> \in Ranges
  BY MaxSizeAssumption DEF Ranges
<1>1. ASSUME NEW w \in Nat, NEW j \in Nat, <<w, j>> \in Nodes, w >= n
      PROVE  Continued(path, n, w, j) /\ j = 0
  <2>1. j * w < x /\ x <= n /\ x \in Nat
    <3>1. Over(x, w, j)
      BY <1>1
    <3>2. QED
      BY <1>0, <3>1 DEF Over
  <2>2. j = 0
    BY <1>0, <1>1, <2>1, FirstNode
  <2>3. Block(j, w, n) = <<0, n>>
    BY <1>1, <2>2, WholeTree
  <2>4. path[<<0, n>>] \in Seq(Hashes)
    BY <1>0
  <2>5. ~(w < n)
    BY <1>0, <1>1
  <2>6. path[<<0, n>>] = path[<<0, n>>] \o <<>> /\ <<>> \in Seq(Hashes)
    BY <2>4
  <2>7. path[<<0, n>>] = path[Block(j, w, n)] \o <<>>
    BY <2>3, <2>6
  <2>8. Continued(path, n, w, j)
    BY <2>5, <2>6, <2>7, Zenon DEF Continued
  <2>9. QED
    BY <2>2, <2>8
<1>2. Bad = {}
  <2> SUFFICES ASSUME Bad # {} PROVE FALSE
    OBVIOUS
  <2>1. PICK d \in Bad : \A y \in Bad : d <= y
    BY Least
  <2>2. PICK w \in Nat, j \in Nat : /\ <<w, j>> \in Nodes
                                    /\ w < n /\ n = w + d
                                    /\ ~Continued(path, n, w, j)
    OBVIOUS
  <2> DEFINE k == j \div 2
             b == Block(j, w, n)
             p == Block(k, 2 * w, n)
  <2>4. Over(x, w, j) /\ PathStep(path, n, w, j, b, p) /\ <<2 * w, k>> \in Nodes
    BY <2>2
  <2>3. w > 0 /\ k \in Nat /\ 2 * w \in Nat /\ d \in Nat
    BY <2>4 DEF Over, Width
  <2>5. Continued(path, n, 2 * w, k)
    <3>1. CASE 2 * w >= n
      BY <1>1, <2>3, <2>4, <3>1
    <3>2. CASE 2 * w < n
      <4> DEFINE e == n - 2 * w
      <4> HIDE DEF k, Bad
      <4>1. e \in Nat /\ n = 2 * w + e /\ ~(d <= e)
        BY <1>0, <2>2, <2>3, <3>2, Nearer
      <4> HIDE DEF e
      <4> USE DEF Bad
      <4>2. e \notin Bad
        <5> HIDE DEF Bad
        <5>1. QED
          BY <2>1, <4>1
      <4>3. QED
        BY <2>3, <2>4, <3>2, <4>1, <4>2
    <3> HIDE DEF Bad, k
    <3>3. QED
      BY <1>0, <2>3, <3>1, <3>2
  <2> HIDE DEF Bad, k, b, p
  <2>6. PICK t \in Seq(Hashes) : path[<<0, n>>] = path[p] \o t /\ (2 * w < n => t # <<>>)
    BY <2>5 DEF Continued, p
  <2>7. b \in Ranges /\ p \in Ranges /\ path[b] \in Seq(Hashes)
    BY <2>4 DEF PathStep
  <2>8. ASSUME NEW h \in Hashes, path[p] = path[b] \o <<h>>
        PROVE  FALSE
    <3> DEFINE s == path[b]
    <3>0. s \in Seq(Hashes)
      BY <2>7
    <3> HIDE DEF s
    <3>1. /\ (s \o <<h>>) \o t = s \o (<<h>> \o t)
          /\ <<h>> \o t \in Seq(Hashes) /\ <<h>> \o t # <<>>
      <4>1. (s \o <<h>>) \o t = s \o (<<h>> \o t)
        BY <3>0, Further
      <4>2. <<h>> \o t \in Seq(Hashes)
        BY <3>0, Further
      <4>3. <<h>> \o t # <<>>
        BY <3>0, Further
      <4>4. QED
        BY <4>1, <4>2, <4>3
    <3>2. path[<<0, n>>] = path[b] \o (<<h>> \o t)
      BY <2>6, <2>8, <3>1 DEF s
    <3>3. Continued(path, n, w, j)
      BY <3>1, <3>2, Zenon DEF Continued, b
    <3>4. QED
      BY <2>2, <3>3
  <2>9. p[2] # 1 => Root[Low(p)] \in Hashes /\ Root[High(p)] \in Hashes
    BY <2>7, Parts DEF Hashes
  <2>10. j % 2 # 1 /\ ~((j + 1) * w < n)
    BY <2>4, <2>8, <2>9 DEF PathStep
  <2>11. (j + 1) * w \in Nat /\ (j + 1) * w >= n
    BY <1>0, <2>10
  <2>12. p = b
    BY <2>4, <2>10, <2>11 DEF PathStep
  <2>13. ~(2 * w < n)
    BY <2>2, <2>6, <2>12, Zenon DEF Continued, b
  <2>14. k = 0
    BY <1>0, <1>1, <2>3, <2>4, <2>13
  <2>15. j = 0
    BY <2>10, <2>14 DEF k
  <2>16. (j + 1) * w = w
    BY <2>15
  <2>17. QED
    BY <1>0, <2>2, <2>11, <2>16
<1>3. ASSUME NEW w \in Nat, NEW j \in Nat, <<w, j>> \in Nodes
      PROVE  Continued(path, n, w, j)
  <2>1. CASE w >= n
    BY <1>1, <1>3, <2>1
  <2>2. CASE w < n
    <3> DEFINE d == n - w
    <3>1. d \in Nat /\ n = w + d
      BY <1>0, <2>2
    <3> HIDE DEF d
    <3>2. QED
      BY <1>2, <1>3, <2>2, <3>1
  <2>3. QED
    BY <1>0, <2>1, <2>2
<1>4. QED
  BY <1>3

LEMMA AuditAbove ==
  ASSUME NEW n \in 1..MaxSize, NEW i \in Nat, i < n, NEW w \in Nat, NEW j \in Nat,
         Over(i + 1, w, j)
  PROVE  /\ PathStep(AuditPaths(Root, i), n, w, j, Block(j, w, n), Block(j \div 2, 2 * w, n))
         /\ Over(i + 1, 2 * w, j \div 2)
<1> DEFINE k == j \div 2
           audit == AuditPaths(Root, i)
           b == Block(j, w, n)
           p == Block(k, 2 * w, n)
<1>1. w \in Nat \ {0} /\ n \in Nat /\ k \in Nat /\ Width(w)
  BY MaxSizeAssumption DEF Width, Over
<1>0. j * w < i + 1 /\ i + 1 <= (j + 1) * w
  BY DEF Over
<1>2. k * (2 * w) < i + 1 /\ i + 1 <= (k + 1) * (2 * w)
  <2> DEFINE z == i + 1
  <2>1. z \in Nat /\ j * w < z /\ z <= (j + 1) * w
    BY <1>0
  <2> HIDE DEF z
  <2>2. k * (2 * w) < z /\ z <= (k + 1) * (2 * w)
    BY <1>1, <2>1, LastAbove
  <2>3. QED
    BY <2>2 DEF z
<1>3. /\ j * w \in Nat /\ j * w < n /\ k * (2 * w) \in Nat /\ k * (2 * w) < n
      /\ (j + 1) * w \in Nat /\ j * w <= i
  <2>1. j * w \in Nat /\ k * (2 * w) \in Nat /\ (j + 1) * w \in Nat
    BY <1>1
  <2> HIDE DEF k
  <2>2. QED
    BY <1>0, <1>1, <1>2, <2>1
<1>4. b \in Ranges /\ p \in Ranges
  <2> HIDE DEF k
  <2>1. 2 * w \in Nat \ {0}
    BY <1>1
  <2>2. QED
    BY <1>1, <1>3, <2>1, BlockWithin
<1>5. ASSUME j % 2 = 1
      PROVE  p[2] # 1 /\ High(p) = b /\ audit[p] = audit[b] \o <<Root[Low(p)]>>
  <2>1. j = 2 * k + 1
    BY <1>5
  <2>2. p[2] # 1 /\ High(p) = b
    BY <1>1, <1>3, <2>1, RightChild
  <2>3. High(p)[1] = j * w
    BY <2>2 DEF Block
  <2> HIDE DEF p, b, k
  <2>4. ~(i < High(p)[1])
    BY <1>3, <2>3
  <2>5. QED
    BY <1>4, <2>2, <2>4, AuditPathsDef
<1>6. ASSUME j % 2 # 1, (j + 1) * w < n
      PROVE  p[2] # 1 /\ Low(p) = b /\ audit[p] = audit[b] \o <<Root[High(p)]>>
  <2>1. j = 2 * k
    BY <1>6
  <2>2. p[2] # 1 /\ Low(p) = b /\ High(p) = Block(j + 1, w, n)
    BY <1>1, <1>6, <2>1, RightChild
  <2>3. High(p)[1] = (j + 1) * w
    BY <2>2 DEF Block
  <2> HIDE DEF p, b, k
  <2>4. i < High(p)[1]
    BY <1>0, <1>3, <2>3
  <2>5. QED
    BY <1>4, <2>2, <2>4, AuditPathsDef
<1>7. ASSUME j % 2 # 1, (j + 1) * w >= n
      PROVE  p = b
  <2>1. j = 2 * k
    BY <1>7
  <2>2. QED
    BY <1>1, <1>3, <1>7, <2>1, OnlyChild
<1>8. PathStep(audit, n, w, j, b, p)
  <2> HIDE DEF b, p, audit
  <2>1. QED
    BY <1>4, <1>5, <1>6, <1>7 DEF PathStep
<1>9. Over(i + 1, 2 * w, k)
  BY <1>1, <1>2, WidthTwice DEF Over
<1>10. QED
  BY <1>8, <1>9

LEMMA AuditContinues ==
  ASSUME NEW n \in 1..MaxSize, NEW i \in Nat, i < n
  PROVE  \A w, j \in Nat : Over(i + 1, w, j) => Continued(AuditPaths(Root, i), n, w, j)
<1> DEFINE audit == AuditPaths(Root, i)
           Nodes == {v \in Nat \X Nat : Over(i + 1, v[1], v[2])}
           x == i + 1
<1>1. x \in 1..n
  BY MaxSizeAssumption
<1>2. \A r \in Ranges : audit[r] \in Seq(Hashes)
  BY AuditPathIsSequence
<1>3. ASSUME NEW w \in Nat, NEW j \in Nat
      PROVE  <<w, j>> \in Nodes <=> Over(x, w, j)
  OBVIOUS
<1>4. ASSUME NEW w \in Nat, NEW j \in Nat, <<w, j>> \in Nodes
      PROVE  /\ Over(x, w, j)
             /\ PathStep(audit, n, w, j, Block(j, w, n), Block(j \div 2, 2 * w, n))
             /\ <<2 * w, j \div 2>> \in Nodes
  <2>1. Over(x, w, j)
    BY <1>3, <1>4
  <2>2. /\ PathStep(audit, n, w, j, Block(j, w, n), Block(j \div 2, 2 * w, n))
        /\ Over(x, 2 * w, j \div 2)
    BY <2>1, AuditAbove
  <2>3. 2 * w \in Nat /\ j \div 2 \in Nat
    OBVIOUS
  <2>4. <<2 * w, j \div 2>> \in Nodes
    BY <1>3, <2>2, <2>3
  <2>5. QED
    BY <2>1, <2>2, <2>4
<1> HIDE DEF Nodes, audit, x
<1>5. \A w, j \in Nat : <<w, j>> \in Nodes => Continued(audit, n, w, j)
  BY <1>1, <1>2, <1>4, PathContinues
<1>6. QED
  BY <1>3, <1>5 DEF audit, x

(***************************************************************************)
(* The verifier with the audit path of a leaf.                             *)
(***************************************************************************)

OnAuditPath(w) == AtLevel(w) /\ node = Root[Block(index, w, proof.size)]

NeverRefused ==
  HonestProof =>
    /\ verdict # "rejected"
    /\ verdict = "checking" => \E w \in Nat : OnAuditPath(w)

LEMMA HonestStarts == Init => NeverRefused
<1> SUFFICES ASSUME Init, HonestProof PROVE verdict = "checking" /\ OnAuditPath(1)
  BY DEF NeverRefused
<1> DEFINE n == proof.size
           i == proof.index
<1>1. n \in 1..MaxSize /\ i \in Nat /\ i < n /\ n \in Nat
  BY ProofTypes, MaxSizeAssumption DEF Init, HonestProof
<1>2. verdict = "checking" /\ index = i /\ last = n - 1 /\ consumed = 0 /\ node = LeafHash(i)
  BY <1>1 DEF Init, WellFormed, HonestProof
<1>3. Block(i, 1, n) = <<i, 1>>
  <2>1. i * 1 = i /\ (n - i < 1 => n - i = 1)
    BY <1>1
  <2>2. QED
    BY <1>1, <2>1 DEF Block
<1>4. i \in 0..(MaxSize - 1)
  BY <1>1, MaxSizeAssumption
<1>5. <<i, 1>> \in Ranges /\ Root[<<i, 1>>] = LeafHash(i)
  BY <1>4, RootOfLeaf
<1>6. AuditPaths(Root, i)[<<i, 1>>] = <<>>
  BY <1>5, AuditPathsDef
<1>7. SubSeq(proof.path, 1, 0) = <<>>
  <2>1. proof.path \in Seq(Siblings[n])
    BY ProofTypes DEF Init
  <2>2. QED
    BY <2>1
<1>8. AtLevel(1)
  <2>1. index * 1 = i /\ (index + 1) * 1 = i + 1 /\ last * 1 = n - 1 /\ (last + 1) * 1 = n
    BY <1>1, <1>2
  <2>2. /\ proof.record = proof.index
        /\ SubSeq(proof.path, 1, consumed) = AuditPaths(Root, i)[Block(index, 1, n)]
    BY <1>2, <1>3, <1>6, <1>7 DEF HonestProof
  <2>3. i < i + 1 /\ i + 1 <= i + 1 /\ n - 1 < n /\ n <= n
    BY <1>1
  <2>4. QED
    BY <2>1, <2>2, <2>3, WidthOne, Zenon DEF AtLevel
<1>9. QED
  BY <1>2, <1>3, <1>5, <1>8 DEF OnAuditPath

(* What was used is the path of the present node; the rest continues it. *)
LEMMA AuditRest ==
  ASSUME InclusionInv, HonestProof, verdict = "checking", NEW w \in Nat, OnAuditPath(w)
  PROVE  LET audit == AuditPaths(Root, proof.index)
             b == Block(index, w, proof.size)
         IN  /\ Len(audit[b]) = consumed
             /\ audit[b] \in Seq(Hashes)
             /\ last > 0 => consumed < Len(proof.path)
             /\ last = 0 => consumed = Len(proof.path) /\ node = RootOf[proof.size]
<1> DEFINE n == proof.size
           i == proof.index
           audit == AuditPaths(Root, i)
           b == Block(index, w, n)
<1>1. /\ n \in 1..MaxTree /\ n \in 1..MaxSize /\ i \in Nat /\ i < n /\ n \in Nat
      /\ proof.path \in Seq(Siblings[n]) /\ proof.path = audit[<<0, n>>]
  BY ProofTypes, MaxSizeAssumption DEF InclusionInv, TypeOK, HonestProof, AuditPath
<1>2. index \in Nat /\ last \in Nat /\ consumed \in 0..Len(proof.path)
  BY <1>1, MaxTreeAssumption, MaxSizeAssumption DEF InclusionInv, TypeOK
<1>3. /\ Width(w) /\ w > 0 /\ index * w < i + 1 /\ i + 1 <= (index + 1) * w
      /\ last * w < n /\ n <= (last + 1) * w
      /\ SubSeq(proof.path, 1, consumed) = audit[b] /\ node = Root[b]
  BY DEF OnAuditPath, AtLevel, Width
<1>4. Len(audit[b]) = consumed
  <2> HIDE DEF audit, b
  <2>1. QED
    BY <1>1, <1>2, <1>3, UsedLength
<1>0. Over(i + 1, w, index)
  BY <1>3 DEF Over
<1>5. audit[b] \in Seq(Hashes)
  BY <1>0, <1>1, <1>2, AuditAbove, AuditPathIsSequence DEF PathStep
<1>6. PICK t \in Seq(Hashes) : proof.path = audit[b] \o t /\ (w < n => t # <<>>)
  <2>1. Continued(audit, n, w, index)
    BY <1>0, <1>1, <1>2, AuditContinues
  <2>2. QED
    BY <1>1, <2>1 DEF Continued
<1>7. ASSUME last > 0
      PROVE  consumed < Len(proof.path)
  <2>1. last * w >= w /\ last * w \in Nat
    BY <1>2, <1>7
  <2>2. w < n
    BY <1>1, <1>3, <2>1
  <2> HIDE DEF audit, b
  <2>3. QED
    BY <1>4, <1>5, <1>6, <2>2, Longer
<1>8. ASSUME last = 0
      PROVE  consumed = Len(proof.path) /\ node = RootOf[n]
  <2>1. b = <<0, n>>
    BY <1>3, <1>8, InclusionAtTheTop DEF OnAuditPath
  <2>2. QED
    BY <1>1, <1>3, <1>4, <2>1 DEF RootOf
<1>9. QED
  BY <1>4, <1>5, <1>7, <1>8

LEMMA HonestClimbs ==
  ASSUME InclusionInv, HonestProof, Climb, NEW w \in Nat, OnAuditPath(w)
  PROVE  OnAuditPath(2 * w)'
<1> DEFINE n == proof.size
           i == proof.index
           k == index \div 2
           audit == AuditPaths(Root, i)
           b == Block(index, w, n)
           p == Block(k, 2 * w, n)
<1>1. /\ n \in 1..MaxSize /\ i \in Nat /\ i < n /\ n \in Nat
      /\ proof.path = audit[<<0, n>>]
  BY ProofTypes, MaxSizeAssumption DEF InclusionInv, TypeOK, HonestProof, AuditPath
<1>2. index \in Nat /\ last \in Nat /\ index <= last /\ verdict = "checking"
      /\ index' = k /\ last' = last \div 2 /\ proof' = proof /\ k \in Nat
  BY MaxTreeAssumption, MaxSizeAssumption DEF InclusionInv, TypeOK, Climb
<1>3. /\ AtLevel(w) /\ Width(w) /\ w \in Nat \ {0}
      /\ index * w < i + 1 /\ i + 1 <= (index + 1) * w
      /\ last * w < n /\ n <= (last + 1) * w
      /\ node = Root[b]
  BY DEF OnAuditPath, AtLevel, Width
<1>4. AtLevel(2 * w)'
  BY <1>3, ClimbsALevel
<1>5. Len(audit[b]) = consumed /\ audit[b] \in Seq(Hashes)
  BY <1>2, AuditRest
<1>6. PathStep(audit, n, w, index, b, p) /\ Over(i + 1, 2 * w, k)
  <2>1. Over(i + 1, w, index)
    BY <1>3 DEF Over
  <2>2. QED
    BY <1>1, <1>2, <1>3, <2>1, AuditAbove
<1>7. PICK t \in Seq(Hashes) : proof.path = audit[p] \o t
  <2>1. 2 * w \in Nat
    BY <1>3
  <2>2. Continued(audit, n, 2 * w, k)
    <3> HIDE DEF k
    <3>1. QED
      BY <1>1, <1>2, <1>6, <2>1, AuditContinues
  <2>3. QED
    BY <1>1, <2>2 DEF Continued
<1>8. ASSUME NEW h \in Hashes, audit[p] = audit[b] \o <<h>>
      PROVE  Sibling = h
  <2> HIDE DEF audit, b, p
  <2>1. ((audit[b] \o <<h>>) \o t)[Len(audit[b]) + 1] = h
    BY <1>5, <1>7, Further
  <2>2. QED
    BY <1>5, <1>7, <1>8, <2>1 DEF Sibling
<1>9. p[2] # 1 => /\ Root[Low(p)] \in Hashes /\ Root[High(p)] \in Hashes
                  /\ Root[p] = NodeHash(Root[Low(p)], Root[High(p)])
  BY <1>6, Parts, RootOfNode DEF Hashes, PathStep
<1>10. index < last <=> (index + 1) * w < n
  BY <1>1, <1>2, <1>3, NotTheLast
<1>11. node' = Root[p]
  <2>0. node' = Parent(index)
    BY DEF Climb
  <2>1. CASE index % 2 = 1
    <3>1. Sibling = Root[Low(p)]
      BY <1>6, <1>8, <1>9, <2>1 DEF PathStep
    <3>2. QED
      BY <1>3, <1>6, <1>9, <2>0, <2>1, <3>1 DEF Parent, PathStep
  <2>2. CASE index % 2 # 1 /\ index < last
    <3>1. Sibling = Root[High(p)]
      BY <1>6, <1>8, <1>9, <1>10, <2>2 DEF PathStep
    <3>2. QED
      BY <1>3, <1>6, <1>9, <1>10, <2>0, <2>2, <3>1 DEF Parent, PathStep
  <2>3. CASE index % 2 # 1 /\ ~(index < last)
    <3>1. p = b
      <4>1. (index + 1) * w \in Nat
        BY <1>2, <1>3
      <4>2. (index + 1) * w >= n
        BY <1>1, <1>10, <2>3, <4>1
      <4>3. QED
        BY <1>6, <2>3, <4>2 DEF PathStep
    <3>2. QED
      BY <1>3, <2>0, <2>3, <3>1 DEF Parent
  <2>4. QED
    BY <2>1, <2>2, <2>3
<1>12. QED
  BY <1>2, <1>4, <1>11 DEF OnAuditPath

LEMMA HonestStep == InclusionInv /\ NeverRefused /\ [Next]_vars => NeverRefused'
<1> SUFFICES ASSUME InclusionInv, NeverRefused, [Next]_vars, HonestProof'
             PROVE  /\ verdict' # "rejected"
                    /\ verdict' = "checking" => \E w \in Nat : OnAuditPath(w)'
  BY DEF NeverRefused
<1>0. proof' = proof
  BY DEF Next, Climb, Incomplete, Finish, vars
<1>1. HonestProof
  BY <1>0 DEF HonestProof
<1>2. verdict # "rejected" /\ (verdict = "checking" => \E w \in Nat : OnAuditPath(w))
  BY <1>1 DEF NeverRefused
<1>3. CASE Climb
  <2>1. verdict = "checking" /\ verdict' = "checking"
    BY <1>3 DEF Climb
  <2>2. PICK w \in Nat : OnAuditPath(w)
    BY <1>2, <2>1
  <2>3. OnAuditPath(2 * w)' /\ 2 * w \in Nat
    BY <1>1, <1>3, <2>2, HonestClimbs
  <2>4. QED
    BY <2>1, <2>3
<1>4. CASE Incomplete
  <2>1. PICK w \in Nat : OnAuditPath(w)
    BY <1>2, <1>4 DEF Incomplete
  <2>2. consumed < Len(proof.path)
    BY <1>1, <1>4, <2>1, AuditRest DEF Incomplete
  <2>3. Len(proof.path) \in Nat /\ consumed \in Nat
    BY ProofTypes, MaxPathAssumption DEF InclusionInv, TypeOK
  <2>4. QED
    BY <1>4, <2>2, <2>3 DEF Incomplete
<1>5. CASE Finish
  <2>1. PICK w \in Nat : OnAuditPath(w)
    BY <1>2, <1>5 DEF Finish
  <2>2. consumed = Len(proof.path) /\ node = RootOf[proof.size]
    BY <1>1, <1>5, <2>1, AuditRest DEF Finish
  <2>3. QED
    BY <1>5, <2>2 DEF Finish
<1>6. CASE UNCHANGED vars
  <2>1. ASSUME NEW w \in Nat, OnAuditPath(w) PROVE OnAuditPath(w)'
    BY <1>6, <2>1 DEF vars, OnAuditPath, AtLevel
  <2>2. verdict' = verdict
    BY <1>6 DEF vars
  <2>3. QED
    BY <1>2, <2>1, <2>2
<1>7. QED
  BY <1>3, <1>4, <1>5, <1>6 DEF Next

(* The safety half of ProofsOfLeavesAccepted: verify_inclusion_proof never   *)
(* rejects the audit path of RFC 6962, presented with its leaf, in a tree    *)
(* of any size, whatever the shape of its right edge.                        *)
THEOREM AuditPathNeverRefused == Spec => [](HonestProof => verdict # "rejected")
<1>1. Init => InclusionInv /\ NeverRefused
  BY InclusionStarts, HonestStarts
<1>2. (InclusionInv /\ NeverRefused) /\ [Next]_vars => (InclusionInv /\ NeverRefused)'
  BY InclusionStep, HonestStep
<1>3. InclusionInv /\ NeverRefused => (HonestProof => verdict # "rejected")
  BY DEF NeverRefused
<1>4. QED
  BY <1>1, <1>2, <1>3, PTL DEF Spec

(***************************************************************************)
(* The other direction: the consistency proof that RFC 6962 defines is     *)
(* never refused.                                                          *)
(***************************************************************************)

(* Node j of width w is above the last of m old leaves; to its right some   *)
(* of the new ones are missing if it is a right child.                      *)
Climbing(m, w, j) == Over(m, w, j) /\ (Odd(j) => m < (j + 1) * w)

LEMMA GrowthAbove ==
  ASSUME NEW n \in 1..MaxSize, NEW m \in Nat \ {0}, m < n, NEW w \in Nat, NEW j \in Nat,
         Climbing(m, w, j)
  PROVE  /\ PathStep(ConsistencyPaths(Root, m), n, w, j, Block(j, w, n), Block(j \div 2, 2 * w, n))
         /\ Climbing(m, 2 * w, j \div 2)
<1> DEFINE k == j \div 2
           path == ConsistencyPaths(Root, m)
           b == Block(j, w, n)
           p == Block(k, 2 * w, n)
<1>1. w \in Nat \ {0} /\ n \in Nat /\ k \in Nat /\ Width(w)
  BY MaxSizeAssumption DEF Width, Climbing, Over
<1>2. j * w < m /\ m <= (j + 1) * w /\ (Odd(j) => m < (j + 1) * w)
  BY DEF Climbing, Over
<1>3. k * (2 * w) < m /\ m <= (k + 1) * (2 * w)
  BY <1>1, <1>2, LastAbove
<1>4. /\ j * w \in Nat /\ j * w < n /\ k * (2 * w) \in Nat /\ k * (2 * w) < n
      /\ (j + 1) * w \in Nat /\ (k + 1) * (2 * w) \in Nat
  <2>1. j * w \in Nat /\ k * (2 * w) \in Nat /\ (j + 1) * w \in Nat /\ (k + 1) * (2 * w) \in Nat
    BY <1>1
  <2> HIDE DEF k
  <2>2. QED
    BY <1>1, <1>2, <1>3, <2>1
<1>5. b \in Ranges /\ p \in Ranges
  <2> HIDE DEF k
  <2>1. 2 * w \in Nat \ {0}
    BY <1>1
  <2>2. QED
    BY <1>1, <1>4, <2>1, BlockWithin
<1>6. p[1] = k * (2 * w) /\ p[2] = IF n - k * (2 * w) < 2 * w THEN n - k * (2 * w) ELSE 2 * w
  BY DEF Block
<1>7. k * (2 * w) + 2 * w = (k + 1) * (2 * w)
  <2> HIDE DEF k
  <2>1. QED
    BY <1>1
<1>8. m < (k + 1) * (2 * w) => m < p[1] + p[2]
  <2> HIDE DEF k, p
  <2>1. QED
    BY <1>1, <1>4, <1>6, <1>7
<1>9. CASE Odd(j)
  <2>1. j = 2 * k + 1 /\ j % 2 = 1
    BY <1>9, EvenOdd DEF Odd
  <2>2. p[2] # 1 /\ High(p) = b
    BY <1>1, <1>4, <2>1, RightChild
  <2>3. High(p)[1] = j * w
    BY <2>2 DEF Block
  <2>4. (k + 1) * (2 * w) = (j + 1) * w
    <3> HIDE DEF k
    <3>1. (2 * k + 1 + 1) * w = (k + 1) * (2 * w)
      BY <1>1
    <3>2. QED
      BY <2>1, <3>1
  <2>5. m < (k + 1) * (2 * w)
    BY <1>2, <1>9, <2>4
  <2> HIDE DEF p, b, k, path
  <2>6. ~(m <= High(p)[1])
    BY <1>2, <1>4, <2>3
  <2>7. path[p] = path[b] \o <<Root[Low(p)]>>
    BY <1>5, <1>8, <2>2, <2>5, <2>6, PathOfBlock DEF path
  <2>8. PathStep(path, n, w, j, b, p)
    BY <1>5, <2>1, <2>2, <2>7 DEF PathStep
  <2>9. Climbing(m, 2 * w, k)
    BY <1>1, <1>3, <2>5, WidthTwice DEF Climbing, Over
  <2>10. QED
    BY <2>8, <2>9 DEF p, b, k, path
<1>10. CASE ~Odd(j)
  <2>1. j = 2 * k /\ j % 2 # 1
    BY <1>10, EvenOdd DEF Odd
  <2>2. m < (k + 1) * (2 * w)
    <3> HIDE DEF k
    <3>1. (2 * k + 1) * w < (k + 1) * (2 * w) /\ (2 * k + 1) * w \in Nat
      BY <1>1
    <3>2. QED
      BY <1>2, <1>4, <2>1, <3>1
  <2>3. ASSUME (j + 1) * w < n
        PROVE  p[2] # 1 /\ Low(p) = b /\ path[p] = path[b] \o <<Root[High(p)]>>
    <3>1. p[2] # 1 /\ Low(p) = b /\ High(p) = Block(j + 1, w, n)
      BY <1>1, <2>1, <2>3, RightChild
    <3>2. High(p)[1] = (j + 1) * w
      BY <3>1 DEF Block
    <3> HIDE DEF p, b, k, path
    <3>3. QED
      BY <1>2, <1>5, <1>8, <2>2, <3>1, <3>2, PathOfBlock DEF path
  <2>4. ASSUME (j + 1) * w >= n
        PROVE  p = b
    BY <1>1, <1>4, <2>1, <2>4, OnlyChild
  <2> HIDE DEF p, b, k, path
  <2>5. PathStep(path, n, w, j, b, p)
    BY <1>5, <2>1, <2>3, <2>4 DEF PathStep
  <2>6. Climbing(m, 2 * w, k)
    BY <1>1, <1>3, <2>2, WidthTwice DEF Climbing, Over
  <2>7. QED
    BY <2>5, <2>6 DEF p, b, k, path
<1>11. QED
  BY <1>9, <1>10

LEMMA GrowthContinues ==
  ASSUME NEW n \in 1..MaxSize, NEW m \in Nat \ {0}, m < n
  PROVE  \A w, j \in Nat : Climbing(m, w, j) => Continued(ConsistencyPaths(Root, m), n, w, j)
<1> DEFINE path == ConsistencyPaths(Root, m)
           Nodes == {v \in Nat \X Nat : Climbing(m, v[1], v[2])}
<1>1. m \in 1..n
  BY MaxSizeAssumption
<1>2. \A r \in Ranges : path[r] \in Seq(Hashes)
  BY ConsistencyPathIsSequence DEF Hashes
<1>3. ASSUME NEW w \in Nat, NEW j \in Nat
      PROVE  <<w, j>> \in Nodes <=> Climbing(m, w, j)
  OBVIOUS
<1>4. ASSUME NEW w \in Nat, NEW j \in Nat, <<w, j>> \in Nodes
      PROVE  /\ Over(m, w, j)
             /\ PathStep(path, n, w, j, Block(j, w, n), Block(j \div 2, 2 * w, n))
             /\ <<2 * w, j \div 2>> \in Nodes
  <2>1. Climbing(m, w, j) /\ Over(m, w, j)
    BY <1>3, <1>4 DEF Climbing
  <2>2. /\ PathStep(path, n, w, j, Block(j, w, n), Block(j \div 2, 2 * w, n))
        /\ Climbing(m, 2 * w, j \div 2)
    BY <2>1, GrowthAbove
  <2>3. 2 * w \in Nat /\ j \div 2 \in Nat
    OBVIOUS
  <2>4. <<2 * w, j \div 2>> \in Nodes
    BY <1>3, <2>2, <2>3
  <2>5. QED
    BY <2>1, <2>2, <2>4
<1> HIDE DEF Nodes, path
<1>5. \A w, j \in Nat : <<w, j>> \in Nodes => Continued(path, n, w, j)
  BY <1>1, <1>2, <1>4, PathContinues
<1>6. QED
  BY <1>3, <1>5 DEF path

(***************************************************************************)
(* The verifier with the consistency proof of an extended tree: a and b    *)
(* are the roots over the last node of the old tree, in the old and in the *)
(* new tree, and the first u elements are the path of that node.           *)
(***************************************************************************)

OnPath(w, a, b, u) ==
  /\ Rising(w)
  /\ a = Root[Block(fn, w, growth.old)] /\ b = Root[Block(fn, w, growth.new)]
  /\ SubSeq(growth.path, 1, u) = ConsistencyPaths(Root, growth.old)[Block(fn, w, growth.new)]

GrowthNeverRefused ==
  Honest =>
    /\ outcome # "rejected"
    /\ outcome = "checking" => \E w \in Nat : OnPath(w, fr, sr, used)
    /\ outcome = "skipping" => \E w \in Nat : OnPath(w, fr[2], sr[2], used - 1)

LEMMA HonestGrowthStarts == GrowthInit => GrowthNeverRefused
<1> SUFFICES ASSUME GrowthInit, Honest PROVE outcome = "starting"
  BY DEF GrowthNeverRefused
<1>1. growth.old \in 1..MaxSize /\ growth.new \in 1..MaxSize
  BY GrowthTypes DEF GrowthInit
<1>2. growth.old >= 1 /\ growth.new >= growth.old /\ growth.old # growth.new
  BY <1>1, MaxSizeAssumption DEF Honest
<1>3. QED
  BY <1>2 DEF GrowthInit, Ordered

(* What the facts of an honest run say. *)
LEMMA HonestFacts ==
  ASSUME GrowthInv, Honest
  PROVE  /\ growth.old \in Nat \ {0} /\ growth.new \in 1..MaxSize /\ growth.new \in Nat
         /\ growth.old \in 1..MaxSize
         /\ growth.old < growth.new /\ growth.root = Root[<<0, growth.old>>]
         /\ growth.path = ConsistencyPaths(Root, growth.old)[<<0, growth.new>>]
         /\ growth.path \in Seq(Hashes)
<1>1. growth.old \in 1..MaxSize /\ growth.new \in 1..MaxSize
      /\ growth.old \in Nat /\ growth.new \in Nat
  BY GrowthNumbers
<1>2. growth.old < growth.new /\ growth.root = Root[<<0, growth.old>>]
      /\ growth.path = ConsistencyPaths(Root, growth.old)[<<0, growth.new>>]
  BY <1>1 DEF Honest, Extends, ConsistencyPath
<1>3. <<0, growth.new>> \in Ranges
  BY <1>1, MaxSizeAssumption DEF Ranges
<1>4. growth.path \in Seq(Hashes)
  <2>1. growth.old \in Nat \ {0}
    BY <1>1
  <2>2. QED
    BY <1>2, <1>3, <2>1, ConsistencyPathIsSequence DEF Hashes
<1>5. QED
  BY <1>1, <1>2, <1>4

(* The path continues after the node, with the sibling first.               *)
LEMMA HonestRest ==
  ASSUME GrowthInv, Honest, NEW w \in Nat, NEW a, NEW b, NEW u \in 0..Len(growth.path),
         OnPath(w, a, b, u)
  PROVE  LET path == ConsistencyPaths(Root, growth.old)
             x == Block(fn, w, growth.new)
             p == Block(fn \div 2, 2 * w, growth.new)
         IN  /\ PathStep(path, growth.new, w, fn, x, p)
             /\ Len(path[x]) = u
             /\ w < growth.new => u < Len(growth.path)
             /\ \A h \in Hashes : path[p] = path[x] \o <<h>> => growth.path[u + 1] = h
<1> DEFINE m == growth.old
           n == growth.new
           path == ConsistencyPaths(Root, m)
           x == Block(fn, w, n)
           k == fn \div 2
           p == Block(k, 2 * w, n)
<1>1. /\ m \in Nat \ {0} /\ n \in 1..MaxSize /\ m < n /\ growth.path = path[<<0, n>>]
      /\ growth.path \in Seq(Hashes) /\ fn \in Nat /\ k \in Nat /\ 2 * w \in Nat
  BY HonestFacts, GrowthNumbers
<1>2. Climbing(m, w, fn)
  BY DEF OnPath, Rising, AtWidth, Climbing, Over
<1>3. PathStep(path, n, w, fn, x, p) /\ Climbing(m, 2 * w, k)
  BY <1>1, <1>2, GrowthAbove
<1>4. Continued(path, n, w, fn) /\ Continued(path, n, 2 * w, k)
  <2> HIDE DEF path, n, m, k
  <2>1. \A v, j \in Nat : Climbing(m, v, j) => Continued(path, n, v, j)
    BY <1>1, GrowthContinues DEF path
  <2>2. QED
    BY <1>1, <1>2, <1>3, <2>1
<1>5. x \in Ranges /\ path[x] \in Seq(Hashes)
  BY <1>1, <1>3, ConsistencyPathIsSequence DEF PathStep, Hashes
<1>6. SubSeq(growth.path, 1, u) = path[x]
  BY DEF OnPath
<1> HIDE DEF path, x, p, n, m, k
<1>7. Len(path[x]) = u
  BY <1>1, <1>6, UsedLength
<1>8. ASSUME w < n
      PROVE  u < Len(growth.path)
  <2>1. PICK t \in Seq(Hashes) : growth.path = path[x] \o t /\ t # <<>>
    BY <1>1, <1>4, <1>8 DEF Continued, x
  <2>2. QED
    BY <1>5, <1>7, <2>1, Longer
<1>9. ASSUME NEW h \in Hashes, path[p] = path[x] \o <<h>>
      PROVE  growth.path[u + 1] = h
  <2>1. PICK t \in Seq(Hashes) : growth.path = path[p] \o t
    BY <1>1, <1>4 DEF Continued, p
  <2>2. ((path[x] \o <<h>>) \o t)[Len(path[x]) + 1] = h
    BY <1>5, Further
  <2>3. QED
    BY <1>7, <1>9, <2>1, <2>2
<1>10. QED
  BY <1>3, <1>7, <1>8, <1>9 DEF path, x, p, n, m, k

LEMMA HonestSeeds ==
  ASSUME GrowthInv, Honest, Seed
  PROVE  outcome' = "checking" /\ \E w \in Nat : OnPath(w, fr, sr, used)'
<1> DEFINE m == growth.old
           n == growth.new
           path == ConsistencyPaths(Root, m)
<1>1. PICK w \in Nat : Starting(w)
  BY DEF GrowthInv, Seed
<1>2. /\ growth' = growth /\ fn' = fn /\ sn' = sn
      /\ outcome = "starting" /\ ~Odd(fn)
      /\ m < n /\ used = 0 /\ fr = growth.root /\ sr = growth.root
  BY DEF Seed, GrowthInv
<1>3. /\ w \in Nat \ {0} /\ fn \in Nat /\ m \in Nat \ {0} /\ n \in Nat
      /\ m \in 1..MaxSize /\ n \in 1..MaxSize
      /\ growth.root = Root[<<0, m>>]
      /\ growth.path = path[<<0, n>>] /\ growth.path \in Seq(Hashes)
  BY <1>1, HonestFacts, GrowthNumbers DEF Starting, AtWidth, Width
<1> DEFINE a == fn * w
           b == <<a, w>>
<1>4. a \in Nat /\ m = a + w /\ fn * w = a
  <2>1. m = (fn + 1) * w /\ (fn + 1) * w = fn * w + w
    BY <1>1, <1>3 DEF Starting
  <2>2. QED
    BY <1>3, <2>1
<1>5. Block(fn, w, m) = b /\ Block(fn, w, n) = b /\ b \in Ranges
  <2> HIDE DEF a, m, n
  <2>1. m - a = w /\ ~(n - a < w) /\ a < n
    BY <1>2, <1>3, <1>4
  <2>2. QED
    BY <1>3, <1>4, <2>1, BlockWithin DEF Block
<1>6. Rising(w)'
  BY <1>1, <1>2 DEF Starting, AtWidth, Rising
<1>7. path[b] = IF fn = 0 THEN <<>> ELSE <<Root[b]>>
  <2>1. m >= b[1] + b[2] /\ (a = 0 <=> fn = 0)
    BY <1>3, <1>4
  <2> HIDE DEF m
  <2>2. QED
    BY <1>3, <1>5, <2>1, ConsistencyPathsDef
<1>8. CASE fn = 0
  <2>1. outcome' = "checking" /\ fr' = fr /\ sr' = sr /\ used' = 0
    BY <1>2, <1>8 DEF Seed
  <2>2. b = <<0, m>>
    BY <1>3, <1>4, <1>8
  <2>3. fr' = Root[b] /\ sr' = Root[b]
    BY <1>2, <1>3, <2>1, <2>2
  <2>4. SubSeq(growth.path, 1, 0) = <<>>
    BY <1>3
  <2>5. SubSeq(growth.path, 1, used') = path[b]
    BY <1>7, <1>8, <2>1, <2>4
  <2> HIDE DEF b, m, n, path
  <2>6. OnPath(w, fr, sr, used)'
    BY <1>2, <1>5, <1>6, <2>3, <2>5 DEF OnPath, m, n, path
  <2>7. QED
    BY <2>1, <2>6
<1>9. CASE fn # 0
  <2>1. Climbing(m, w, fn)
    BY <1>1, <1>2 DEF Starting, AtWidth, Climbing, Over
  <2>2. PICK t \in Seq(Hashes) : growth.path = path[b] \o t
    <3>1. Continued(path, n, w, fn)
      BY <1>2, <1>3, <2>1, GrowthContinues
    <3>2. QED
      BY <1>3, <1>5, <3>1 DEF Continued
  <2>3. Root[b] \in Hashes
    BY <1>5 DEF Hashes
  <2> DEFINE h == Root[b]
  <2>4. growth.path = <<h>> \o t
    BY <1>7, <1>9, <2>2
  <2>5. growth.path # <<>> /\ growth.path[1] = h /\ SubSeq(growth.path, 1, 1) = <<h>>
    <3> HIDE DEF h, path, n, m, b
    <3>1. <<h>> \in Seq(Hashes) /\ Len(<<h>>) = 1 /\ <<h>>[1] = h /\ Len(t) \in Nat
      BY <2>3 DEF h
    <3>2. /\ Len(growth.path) = 1 + Len(t) /\ growth.path \in Seq(Hashes)
          /\ growth.path[1] = h
      BY <2>4, <3>1, ConcatProperties
    <3>3. Len(growth.path) # 0 /\ growth.path # <<>>
      BY <3>1, <3>2
    <3>4. QED
      BY <3>2, <3>3, FirstOne
  <2>6. /\ outcome' = "checking" /\ fr' = growth.path[1] /\ sr' = growth.path[1] /\ used' = 1
    BY <1>9, <2>5 DEF Seed
  <2>7. fr' = Root[b] /\ sr' = Root[b] /\ SubSeq(growth.path, 1, used') = path[b]
    BY <1>7, <1>9, <2>5, <2>6
  <2> HIDE DEF b, m, n, path
  <2>8. OnPath(w, fr, sr, used)'
    BY <1>2, <1>5, <1>6, <2>7 DEF OnPath, m, n, path
  <2>9. QED
    BY <2>6, <2>8
<1>10. QED
  BY <1>8, <1>9

LEMMA HonestAscends ==
  ASSUME GrowthInv, Honest, Ascend, NEW w \in Nat, OnPath(w, fr, sr, used)
  PROVE  /\ outcome' = "checking" => \E v \in Nat : OnPath(v, fr, sr, used)'
         /\ outcome' = "skipping" => \E v \in Nat : OnPath(v, fr[2], sr[2], used - 1)'
<1> DEFINE m == growth.old
           n == growth.new
           path == ConsistencyPaths(Root, m)
           k == fn \div 2
           x == Block(fn, w, n)
           p == Block(k, 2 * w, n)
<1>1. /\ growth' = growth /\ used' = used + 1 /\ outcome = "checking"
      /\ used < Len(growth.path) /\ sn > 0
  BY DEF Ascend
<1>2. /\ m \in Nat \ {0} /\ n \in 1..MaxSize /\ n \in Nat /\ m \in 1..MaxSize /\ m < n
      /\ growth.path \in Seq(Hashes)
      /\ fn \in Nat /\ sn \in Nat /\ fn <= sn /\ used \in Nat
  BY <1>1, HonestFacts, GrowthNumbers
<1>3. /\ Rising(w) /\ fr = Root[Block(fn, w, m)] /\ sr = Root[x]
      /\ SubSeq(growth.path, 1, used) = path[x]
  BY DEF OnPath
<1>4. CASE InBoth
  <2>1. /\ fr' = NodeHash(NextNode, fr) /\ sr' = NodeHash(NextNode, sr)
        /\ outcome' = "skipping" /\ fn' = fn /\ sn' = sn
    BY <1>4 DEF Ascend
  <2>2. fr'[2] = fr /\ sr'[2] = sr /\ used' - 1 = used
    BY <1>1, <1>2, <2>1 DEF NodeHash
  <2>3. OnPath(w, fr[2], sr[2], used - 1)'
    BY <1>1, <1>3, <2>1, <2>2 DEF OnPath, Rising, AtWidth
  <2>4. QED
    BY <2>1, <2>3
<1>5. CASE ~InBoth
  <2>1. /\ fr' = fr /\ sr' = NodeHash(sr, NextNode) /\ outcome' = "checking"
        /\ Halve /\ fn' = k /\ sn' = sn \div 2
    BY <1>1, <1>5 DEF Ascend, Halve
  <2>2. k \in Nat /\ fn = 2 * k /\ ~Odd(fn) /\ fn < sn /\ fn % 2 # 1
    BY <1>2, <1>5, EvenOdd DEF InBoth, Odd
  <2>3. AtWidth(w) /\ AtWidth(2 * w)' /\ Width(w) /\ w \in Nat \ {0}
    BY <1>1, <1>3, <2>1, BothHalve DEF Rising, AtWidth, Width
  <2>4. /\ fn * w < m /\ m <= (fn + 1) * w
        /\ sn * w < n /\ n <= (sn + 1) * w
    BY <2>3 DEF AtWidth
  <2>5. Block(k, 2 * w, m) = Block(fn, w, m)
    BY <1>2, <2>2, <2>3, <2>4, LastHasNoSibling
  <2>6. (fn + 1) * w < n
    BY <1>2, <2>2, <2>3, <2>4, NotTheLast
  <2>7. used \in 0..Len(growth.path)
    BY <1>1, <1>2
  <2>8. /\ PathStep(path, n, w, fn, x, p)
        /\ \A h \in Hashes : path[p] = path[x] \o <<h>> => growth.path[used + 1] = h
    BY <2>7, HonestRest
  <2> HIDE DEF p, x, path, k, m, n
  <2>9. /\ x \in Ranges /\ p \in Ranges /\ p[2] # 1 /\ Low(p) = x
        /\ path[p] = path[x] \o <<Root[High(p)]>>
    BY <2>2, <2>6, <2>8 DEF PathStep
  <2>10. Root[High(p)] \in Hashes /\ Root[p] = NodeHash(Root[x], Root[High(p)])
    BY <2>9, Parts, RootOfNode DEF Hashes
  <2>11. NextNode = Root[High(p)]
    BY <2>8, <2>9, <2>10 DEF NextNode
  <2>12. sr' = Root[p]
    BY <1>3, <2>1, <2>10, <2>11
  <2>13. SubSeq(growth.path, 1, used') = path[p]
    <3>1. used \in 0..(Len(growth.path) - 1)
      BY <1>1, <1>2
    <3>2. SubSeq(growth.path, 1, used + 1)
            = SubSeq(growth.path, 1, used) \o <<growth.path[used + 1]>>
      BY <1>2, <3>1, OneMore
    <3>3. QED
      BY <1>1, <1>3, <2>9, <2>11, <3>2 DEF NextNode
  <2>14. m < (k + 1) * (2 * w)
    <3>1. (k + 1) * (2 * w) = (fn + 1) * w + w /\ (fn + 1) * w \in Nat
      BY <1>2, <2>2, <2>3
    <3>2. QED
      BY <1>2, <2>3, <2>4, <3>1
  <2>15. Rising(2 * w)'
    BY <1>1, <2>1, <2>3, <2>14 DEF Rising, m
  <2>16. OnPath(2 * w, fr, sr, used)'
    BY <1>1, <1>3, <2>1, <2>5, <2>12, <2>13, <2>15 DEF OnPath, p, path, m, n
  <2>17. 2 * w \in Nat
    BY <2>3
  <2>18. QED
    BY <2>1, <2>16, <2>17
<1>6. QED
  BY <1>4, <1>5

LEMMA HonestSkips ==
  ASSUME GrowthInv, Honest, Skip, NEW w \in Nat, OnPath(w, fr[2], sr[2], used - 1)
  PROVE  OnPath(2 * w, fr[2], sr[2], used - 1)'
<1>1. /\ growth' = growth /\ fr' = fr /\ sr' = sr /\ used' = used
      /\ outcome = "skipping" /\ ~Odd(fn) /\ fn > 0 /\ fn = sn
      /\ fn' = fn \div 2 /\ sn' = sn \div 2 /\ Halve
  BY DEF Skip, Halve, GrowthInv
<1>2. w \in Nat \ {0} /\ fn \in Nat /\ growth.old \in 1..MaxSize /\ growth.new \in 1..MaxSize
      /\ growth.old \in Nat /\ growth.new \in Nat /\ growth.old < growth.new
  BY GrowthNumbers, HonestFacts DEF OnPath, Rising, AtWidth, Width
<1>3. AtWidth(w) /\ AtWidth(2 * w)'
  BY <1>1, BothHalve DEF OnPath, Rising
<1>4. /\ fn * w < growth.old /\ growth.old <= (fn + 1) * w
      /\ fn * w < growth.new /\ growth.new <= (fn + 1) * w
  BY <1>1, <1>3 DEF AtWidth
<1>5. /\ Block(fn', 2 * w, growth.old) = Block(fn, w, growth.old)
      /\ Block(fn', 2 * w, growth.new) = Block(fn, w, growth.new)
  BY <1>1, <1>2, <1>4, LastHasNoSibling
<1> DEFINE k == fn \div 2
<1>6. k \in Nat /\ fn = 2 * k
  BY <1>1, <1>2, EvenOdd DEF Odd
<1>7. growth.old < (k + 1) * (2 * w)
  <2> HIDE DEF k
  <2>1. (2 * k + 1) * w <= (k + 1) * (2 * w) /\ (2 * k + 1) * w \in Nat /\ (k + 1) * (2 * w) \in Nat
    BY <1>2, <1>6
  <2>2. QED
    BY <1>2, <1>4, <1>6, <2>1
<1>8. Rising(2 * w)'
  BY <1>1, <1>3, <1>7 DEF Rising
<1>9. QED
  BY <1>1, <1>5, <1>8 DEF OnPath

LEMMA HonestNextLevel ==
  ASSUME GrowthInv, Honest, NextLevel, NEW w \in Nat, OnPath(w, fr[2], sr[2], used - 1)
  PROVE  OnPath(2 * w, fr, sr, used)'
<1> DEFINE m == growth.old
           n == growth.new
           k == fn \div 2
           path == ConsistencyPaths(Root, m)
           x == Block(fn, w, n)
           o == Block(k, 2 * w, m)
           p == Block(k, 2 * w, n)
           left == <<(2 * k) * w, w>>
<1>1. /\ growth' = growth /\ used' = used /\ fr' = fr /\ sr' = sr
      /\ outcome = "skipping" /\ Halve /\ fn' = k /\ sn' = sn \div 2
      /\ fn > 0 /\ (fn = 0 \/ Odd(fn)) /\ used > 0
      /\ fr = NodeHash(growth.path[used], fr[2]) /\ sr = NodeHash(growth.path[used], sr[2])
  BY DEF NextLevel, Halve, GrowthInv
<1>2. /\ Rising(w) /\ fr[2] = Root[Block(fn, w, m)] /\ sr[2] = Root[x]
      /\ SubSeq(growth.path, 1, used - 1) = path[x]
  BY DEF OnPath
<1>3. /\ w \in Nat \ {0} /\ fn \in Nat /\ used \in Nat /\ used <= Len(growth.path)
      /\ m \in 1..MaxSize /\ n \in 1..MaxSize /\ m \in Nat \ {0} /\ n \in Nat /\ m < n
      /\ growth.path \in Seq(Hashes)
  BY <1>2, GrowthNumbers, HonestFacts DEF Rising, AtWidth, Width
<1>4. Odd(fn) /\ k \in Nat /\ fn = 2 * k + 1 /\ fn % 2 = 1
  BY <1>1, <1>3, EvenOdd DEF Odd
<1>5. AtWidth(w) /\ AtWidth(2 * w)' /\ Width(w) /\ m < (fn + 1) * w
  BY <1>1, <1>2, <1>4, BothHalve DEF Rising, AtWidth
<1>6. /\ fn * w < m
      /\ k * (2 * w) = (2 * k) * w /\ (2 * k) * w \in Nat
      /\ fn * w = (2 * k) * w + w /\ (fn + 1) * w = (k + 1) * (2 * w)
  BY <1>3, <1>4, <1>5 DEF AtWidth
<1>7. used - 1 \in 0..Len(growth.path) /\ (used - 1) + 1 = used
  BY <1>1, <1>3
<1>8. /\ PathStep(path, n, w, fn, x, p)
      /\ \A h \in Hashes : path[p] = path[x] \o <<h>> => growth.path[(used - 1) + 1] = h
  <2> HIDE DEF k
  <2>1. OnPath(w, fr[2], sr[2], used - 1)
    OBVIOUS
  <2>2. QED
    BY <1>7, <2>1, HonestRest DEF k
<1>9. /\ p \in Ranges /\ p[2] # 1 /\ High(p) = x
      /\ path[p] = path[x] \o <<Root[Low(p)]>>
  <2> HIDE DEF p, x, path, k, m, n
  <2>1. QED
    BY <1>4, <1>8 DEF PathStep
<1>10. (2 * k + 1) * w < m /\ (2 * k + 1) * w < n
  <2> HIDE DEF m, n, k
  <2>1. (2 * k + 1) * w < m
    BY <1>4, <1>6
  <2>2. (2 * k + 1) * w \in Nat
    BY <1>3, <1>4
  <2>3. QED
    BY <1>3, <2>1, <2>2
<1>11. /\ o \in Ranges /\ o[2] # 1 /\ Low(o) = Block(2 * k, w, m) /\ High(o) = Block(fn, w, m)
       /\ Low(p) = Block(2 * k, w, n)
  BY <1>3, <1>4, <1>5, <1>10, RightChild
<1>12. Low(o) = left /\ Low(p) = left /\ left \in Ranges
  <2> HIDE DEF k, m, n
  <2>1. ~(m - (2 * k) * w < w) /\ ~(n - (2 * k) * w < w)
    BY <1>3, <1>6
  <2>2. Block(2 * k, w, m) = left /\ Block(2 * k, w, n) = left
    BY <2>1 DEF Block
  <2>3. Low(o) \in Ranges
    BY <1>11, Parts
  <2>4. QED
    BY <1>11, <2>2, <2>3
<1> HIDE DEF p, o, x, path, k, m, n, left
<1>13. Root[Low(p)] \in Hashes
  BY <1>12 DEF Hashes
<1>14. growth.path[used] = Root[left]
  BY <1>7, <1>8, <1>9, <1>12, <1>13
<1>15. fr = Root[o]
  <2>1. Root[o] = NodeHash(Root[left], Root[High(o)])
    BY <1>11, <1>12, RootOfNode
  <2>2. QED
    BY <1>1, <1>2, <1>11, <1>14, <2>1
<1>16. sr = Root[p]
  <2>1. Root[p] = NodeHash(Root[left], Root[x])
    BY <1>9, <1>12, RootOfNode
  <2>2. QED
    BY <1>1, <1>2, <1>14, <2>1
<1>17. SubSeq(growth.path, 1, used) = path[p]
  <2>1. used - 1 \in 0..(Len(growth.path) - 1)
    BY <1>1, <1>3
  <2>2. SubSeq(growth.path, 1, (used - 1) + 1) =
          SubSeq(growth.path, 1, used - 1) \o <<growth.path[(used - 1) + 1]>>
    BY <1>3, <2>1, OneMore
  <2>3. QED
    BY <1>2, <1>7, <1>9, <1>12, <1>14, <2>2
<1>18. Rising(2 * w)'
  BY <1>1, <1>5, <1>6 DEF Rising, m
<1>19. QED
  BY <1>1, <1>15, <1>16, <1>17, <1>18 DEF OnPath, o, p, path, m, n

(* At the root of the new tree, and only there, the path is used up. *)
LEMMA HonestTop ==
  ASSUME GrowthInv, Honest, outcome = "checking", NEW w \in Nat, OnPath(w, fr, sr, used)
  PROVE  /\ sn > 0 => used < Len(growth.path)
         /\ sn = 0 => /\ used = Len(growth.path)
                      /\ fr = growth.root /\ sr = NewRoot(growth)
<1> DEFINE m == growth.old
           n == growth.new
           path == ConsistencyPaths(Root, m)
           x == Block(fn, w, n)
<1>1. /\ m \in Nat \ {0} /\ n \in 1..MaxSize /\ n \in Nat /\ m \in 1..MaxSize /\ m < n
      /\ growth.path \in Seq(Hashes) /\ growth.path = path[<<0, n>>]
      /\ fn \in Nat /\ sn \in Nat /\ fn <= sn /\ used \in 0..Len(growth.path)
      /\ growth.root = Root[<<0, m>>]
  BY HonestFacts, GrowthNumbers
<1>2. /\ w > 0 /\ fr = Root[Block(fn, w, m)] /\ sr = Root[x]
      /\ sn * w < n /\ n <= (sn + 1) * w
  BY DEF OnPath, Rising, AtWidth, Width
<1>3. Len(path[x]) = used /\ (w < n => used < Len(growth.path))
  BY <1>1, HonestRest
<1>4. ASSUME sn > 0
      PROVE  used < Len(growth.path)
  <2>1. sn * w >= w /\ sn * w \in Nat
    BY <1>1, <1>4
  <2>2. w < n
    <3>1. w \in Nat /\ n \in Nat /\ sn * w < n
      BY <1>1, <1>2
    <3> HIDE DEF m, n, path, x
    <3>2. QED
      BY <2>1, <3>1
  <2>3. QED
    BY <1>3, <2>2
<1>5. ASSUME sn = 0
      PROVE  used = Len(growth.path) /\ fr = growth.root /\ sr = NewRoot(growth)
  <2>1. fn = 0 /\ w >= n
    <3>1. n <= (0 + 1) * w
      BY <1>2, <1>5
    <3>2. QED
      BY <1>1, <1>5, <3>1
  <2>2. Block(fn, w, m) = <<0, m>> /\ x = <<0, n>>
    BY <1>1, <2>1, WholeTree
  <2>3. QED
    BY <1>1, <1>2, <1>3, <2>2 DEF NewRoot
<1>6. QED
  BY <1>4, <1>5

LEMMA HonestGrowthStep ==
  GrowthInv /\ GrowthNeverRefused /\ [GrowthNext]_growthVars => GrowthNeverRefused'
<1> SUFFICES ASSUME GrowthInv, GrowthNeverRefused, [GrowthNext]_growthVars, Honest'
             PROVE  /\ outcome' # "rejected"
                    /\ outcome' = "checking" => \E w \in Nat : OnPath(w, fr, sr, used)'
                    /\ outcome' = "skipping" => \E w \in Nat : OnPath(w, fr[2], sr[2], used - 1)'
  BY DEF GrowthNeverRefused
<1>0. growth' = growth
  BY DEF GrowthNext, Descend, Seed, Ascend, Skip, NextLevel, Excess, CompareRoots, growthVars
<1>1. Honest
  BY <1>0 DEF Honest
<1>2. /\ outcome # "rejected"
      /\ outcome = "checking" => \E w \in Nat : OnPath(w, fr, sr, used)
      /\ outcome = "skipping" => \E w \in Nat : OnPath(w, fr[2], sr[2], used - 1)
  BY <1>1 DEF GrowthNeverRefused
<1>3. CASE Descend
  BY <1>3 DEF Descend
<1>4. CASE Seed
  BY <1>1, <1>4, HonestSeeds
<1>5. CASE Ascend
  <2>1. outcome = "checking" /\ outcome' \in {"checking", "skipping"}
    BY <1>5 DEF Ascend
  <2>2. PICK w \in Nat : OnPath(w, fr, sr, used)
    BY <1>2, <2>1
  <2>3. QED
    BY <1>1, <1>5, <2>1, <2>2, HonestAscends
<1>6. CASE Skip
  <2>1. outcome = "skipping" /\ outcome' = "skipping"
    BY <1>6 DEF Skip
  <2>2. PICK w \in Nat : OnPath(w, fr[2], sr[2], used - 1)
    BY <1>2, <2>1
  <2>3. OnPath(2 * w, fr[2], sr[2], used - 1)' /\ 2 * w \in Nat
    BY <1>1, <1>6, <2>2, HonestSkips
  <2>4. QED
    BY <2>1, <2>3
<1>7. CASE NextLevel
  <2>1. outcome = "skipping" /\ outcome' = "checking"
    BY <1>7 DEF NextLevel
  <2>2. PICK w \in Nat : OnPath(w, fr[2], sr[2], used - 1)
    BY <1>2, <2>1
  <2>3. OnPath(2 * w, fr, sr, used)' /\ 2 * w \in Nat
    BY <1>1, <1>7, <2>2, HonestNextLevel
  <2>4. QED
    BY <2>1, <2>3
<1>8. CASE Excess
  <2>1. PICK w \in Nat : OnPath(w, fr, sr, used)
    BY <1>2, <1>8 DEF Excess
  <2>2. used = Len(growth.path)
    BY <1>1, <1>8, <2>1, HonestTop DEF Excess
  <2>3. used < Len(growth.path) /\ used \in Nat
    BY <1>8, GrowthNumbers DEF Excess
  <2>4. QED
    BY <2>2, <2>3
<1>9. CASE CompareRoots
  <2>1. outcome = "checking" /\ used = Len(growth.path) /\ used \in Nat /\ sn \in Nat
    BY <1>9, GrowthNumbers DEF CompareRoots
  <2>2. PICK w \in Nat : OnPath(w, fr, sr, used)
    BY <1>2, <2>1
  <2>3. /\ sn > 0 => used < Len(growth.path)
        /\ sn = 0 => fr = growth.root /\ sr = NewRoot(growth)
    BY <1>1, <2>1, <2>2, HonestTop
  <2>4. sn = 0
    BY <2>1, <2>3
  <2>5. outcome' = "accepted"
    BY <1>9, <2>3, <2>4 DEF CompareRoots
  <2>6. QED
    BY <2>5
<1>10. CASE UNCHANGED growthVars
  <2>1. /\ growth' = growth /\ fn' = fn /\ sn' = sn /\ fr' = fr /\ sr' = sr /\ used' = used
        /\ outcome' = outcome
    BY <1>10 DEF growthVars
  <2>2. ASSUME NEW w \in Nat
        PROVE  /\ OnPath(w, fr, sr, used) => OnPath(w, fr, sr, used)'
               /\ OnPath(w, fr[2], sr[2], used - 1) => OnPath(w, fr[2], sr[2], used - 1)'
    BY <2>1 DEF OnPath, Rising, AtWidth
  <2>3. QED
    BY <1>2, <2>1, <2>2
<1>11. QED
  BY <1>3, <1>4, <1>5, <1>6, <1>7, <1>8, <1>9, <1>10 DEF GrowthNext

(* The safety half of HonestGrowthAccepted: verify_consistency_proof never   *)
(* rejects the consistency proof of RFC 6962 of an old tree that is the      *)
(* beginning of the new one, for every pair of sizes.                        *)
THEOREM HonestGrowthNeverRefused == GrowthSpec => [](Honest => outcome # "rejected")
<1>1. GrowthInit => GrowthInv /\ GrowthNeverRefused
  BY GrowthStarts, HonestGrowthStarts
<1>2. (GrowthInv /\ GrowthNeverRefused) /\ [GrowthNext]_growthVars
        => (GrowthInv /\ GrowthNeverRefused)'
  BY GrowthStep, HonestGrowthStep
<1>3. GrowthInv /\ GrowthNeverRefused => (Honest => outcome # "rejected")
  BY DEF GrowthNeverRefused
<1>4. QED
  BY <1>1, <1>2, <1>3, PTL DEF GrowthSpec
=============================================================================
