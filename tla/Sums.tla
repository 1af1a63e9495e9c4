-------------------------------- MODULE Sums --------------------------------
(***************************************************************************)
(* Sums over finite sets: what SumFunctionOnSet of the module Functions    *)
(* returns.  It adds by a recursive function whose order nothing fixes, so *)
(* each lemma is an induction over the subsets of the set, and is made as  *)
(* a search for the least subset that fails.                               *)
(***************************************************************************)
EXTENDS Integers, Functions, FiniteSets, FiniteSetTheorems, WellFoundedInduction, TLAPS

\* Induction over a finite set: of its subsets that fail a test, one is least.
LEMMA LeastSubset ==
  ASSUME NEW A, IsFiniteSet(A), NEW T \in SUBSET SUBSET A, T # {}
  PROVE  \E s \in T : \A t \in T : t \subseteq s => t = s
<1>1. IsWellFoundedOn(StrictSubsetOrdering(A), SUBSET A)
  BY FS_StrictSubsetOrderingWellFounded, FS_FiniteSubsetsOfFinite
<1>2. PICK s \in T : \A t \in T : ~(<<t, s>> \in StrictSubsetOrdering(A))
  BY <1>1, WFMin
<1>3. ASSUME NEW t \in T, t \subseteq s, t # s PROVE FALSE
  BY <1>2, <1>3 DEF StrictSubsetOrdering
<1>4. QED
  BY <1>3

-----------------------------------------------------------------------------
(***************************************************************************)
(* The recursive function exists and is unique.                            *)
(***************************************************************************)
\* The member SumFunctionOnSet takes first, and its recursion over A's subsets.
Pick(s) == CHOOSE x \in s : TRUE
Adds(f, A, g) == g = [s \in SUBSET A |-> IF s = {} THEN 0 ELSE f[Pick(s)] + g[s \ {Pick(s)}]]

\* What is picked is a member.
LEMMA PickOne == ASSUME NEW s, s # {} PROVE Pick(s) \in s
  BY DEF Pick

\* A sum is what that recursion gives for the whole set.
LEMMA AddsTo ==
  ASSUME NEW f, NEW A
  PROVE  SumFunctionOnSet(f, A) = (CHOOSE g : Adds(f, A, g))[A]
  BY DEF SumFunctionOnSet, FoldFunctionOnSet, MapThenFoldSet, Adds, Pick

\* What Adds says of each subset.
LEMMA AddsAt ==
  ASSUME NEW f, NEW A, NEW g, Adds(f, A, g), NEW s \in SUBSET A
  PROVE  g[s] = IF s = {} THEN 0 ELSE f[Pick(s)] + g[s \ {Pick(s)}]
<1> DEFINE h == [t \in SUBSET A |-> IF t = {} THEN 0 ELSE f[Pick(t)] + g[t \ {Pick(t)}]]
<1>1. g = h
  BY DEF Adds
<1>2. h[s] = IF s = {} THEN 0 ELSE f[Pick(s)] + g[s \ {Pick(s)}]
  OBVIOUS
<1>3. QED
  BY <1>1, <1>2

\* Two functions that add agree where both do.
LEMMA AddsAgree ==
  ASSUME NEW f, NEW A, IsFiniteSet(A), NEW B, B \subseteq A,
         NEW g, Adds(f, A, g), NEW h, Adds(f, B, h)
  PROVE  g[B] = h[B]
<1> DEFINE T == {s \in SUBSET B : g[s] # h[s]}
<1>1. SUFFICES ASSUME T # {} PROVE FALSE
  OBVIOUS
<1>2. IsFiniteSet(B)
  BY FS_Subset
<1>3. PICK s \in T : \A t \in T : t \subseteq s => t = s
  <2>1. T \in SUBSET SUBSET B
    OBVIOUS
  <2> HIDE DEF T
  <2>2. QED
    BY <1>1, <1>2, <2>1, LeastSubset
<1>4. s # {}
  BY <1>3, AddsAt
<1>5. Pick(s) \in s
  BY <1>4, PickOne
<1>6. g[s \ {Pick(s)}] = h[s \ {Pick(s)}]
  BY <1>3, <1>5
<1>7. g[s] = f[Pick(s)] + g[s \ {Pick(s)}] /\ h[s] = f[Pick(s)] + h[s \ {Pick(s)}]
  <2>1. s \in SUBSET A /\ s \in SUBSET B
    BY <1>3
  <2>2. QED
    BY <2>1, <1>4, AddsAt
<1>8. QED
  BY <1>3, <1>6, <1>7

\* The recursion has a solution: the least subset without one would get it from
\* the solutions of its own subsets, which agree.
LEMMA AddsExist ==
  ASSUME NEW f, NEW A, IsFiniteSet(A)
  PROVE  \E g : Adds(f, A, g)
<1> DEFINE T == {s \in SUBSET A : ~\E g : Adds(f, s, g)}
<1>1. SUFFICES ASSUME T # {} PROVE FALSE
  BY A \in SUBSET A
<1>3. PICK s \in T : \A t \in T : t \subseteq s => t = s
  <2>1. T \in SUBSET SUBSET A
    OBVIOUS
  <2> HIDE DEF T
  <2>2. QED
    BY <1>1, <2>1, LeastSubset
<1> DEFINE V(t) == (CHOOSE g : Adds(f, t, g))[t]
           G == [t \in SUBSET s |-> IF t = {} THEN 0 ELSE f[Pick(t)] + V(t \ {Pick(t)})]
<1>4. ASSUME NEW t, t \subseteq s, t # s
      PROVE  Adds(f, t, CHOOSE g : Adds(f, t, g))
  <2>1. \E g : Adds(f, t, g)
    BY <1>3, <1>4
  <2>2. QED
    BY <2>1
<1>5. ASSUME NEW t, t \subseteq s, t # s
      PROVE  G[t] = V(t)
  <2> DEFINE g == CHOOSE g : Adds(f, t, g)
             p == Pick(t)
             u == t \ {p}
             h == CHOOSE h : Adds(f, u, h)
  <2>1. Adds(f, t, g)
    BY <1>4, <1>5
  <2>2. g[t] = IF t = {} THEN 0 ELSE f[p] + g[u]
    BY <2>1, AddsAt
  <2>3. t # {} => p \in t
    BY PickOne
  <2>4. CASE t = {}
    BY <2>2, <2>4, t \in SUBSET s
  <2>5. CASE t # {}
    <3>1. Adds(f, u, h)
      BY <1>4, <1>5
    <3>2. IsFiniteSet(t) /\ u \subseteq t
      BY FS_Subset, <1>5, <1>3
    <3>3. g[u] = h[u]
      BY <3>1, <3>2, <2>1, AddsAgree
    <3>4. G[t] = f[p] + V(u)
      BY <2>5, <1>5, t \in SUBSET s
    <3>5. QED
      BY <3>3, <3>4, <2>2, <2>5
  <2>6. QED
    BY <2>4, <2>5
<1>6. ASSUME NEW t \in SUBSET s, t # {} PROVE V(t \ {Pick(t)}) = G[t \ {Pick(t)}]
  <2>1. Pick(t) \in t
    BY <1>6, PickOne
  <2>2. QED
    BY <2>1, <1>5
<1>7. G = [t \in SUBSET s |-> IF t = {} THEN 0 ELSE f[Pick(t)] + G[t \ {Pick(t)}]]
  <2> DEFINE H == [t \in SUBSET s |-> IF t = {} THEN 0 ELSE f[Pick(t)] + G[t \ {Pick(t)}]]
  <2>1. ASSUME NEW t \in SUBSET s PROVE G[t] = H[t]
    <3>1. G[t] = IF t = {} THEN 0 ELSE f[Pick(t)] + V(t \ {Pick(t)})
      OBVIOUS
    <3>2. H[t] = IF t = {} THEN 0 ELSE f[Pick(t)] + G[t \ {Pick(t)}]
      <4> HIDE DEF G
      <4> QED
        OBVIOUS
    <3> HIDE DEF G, H, V
    <3>3. QED
      BY <1>6, <3>1, <3>2
  <2>2. QED
    BY <2>1
<1>8. Adds(f, s, G)
  BY <1>7 DEF Adds
<1>9. QED
  BY <1>3, <1>8

-----------------------------------------------------------------------------
(***************************************************************************)
(* What a sum is.                                                          *)
(***************************************************************************)
Integers(f, A) == \A i \in A : f[i] \in Int

\* Nothing adds up to zero.
LEMMA SumEmpty == ASSUME NEW f PROVE SumFunctionOnSet(f, {}) = 0
<1>1. IsFiniteSet({})
  BY FS_EmptySet
<1>2. Adds(f, {}, CHOOSE g : Adds(f, {}, g))
  BY <1>1, AddsExist
<1>3. QED
  BY <1>2, AddsAt, AddsTo

\* A sum takes its first member and goes on with the rest.
LEMMA SumPicked ==
  ASSUME NEW f, NEW A, IsFiniteSet(A), A # {}
  PROVE  /\ Pick(A) \in A
         /\ SumFunctionOnSet(f, A) = f[Pick(A)] + SumFunctionOnSet(f, A \ {Pick(A)})
<1> DEFINE B == A \ {Pick(A)}
           g == CHOOSE g : Adds(f, A, g)
           h == CHOOSE h : Adds(f, B, h)
<1>1. IsFiniteSet(B)
  BY FS_RemoveElement
<1>2. Adds(f, A, g)
  BY AddsExist
<1>3. Adds(f, B, h)
  BY <1>1, AddsExist
<1>4. g[A] = f[Pick(A)] + g[B]
  BY <1>2, AddsAt
<1>5. g[B] = h[B]
  BY <1>2, <1>3, AddsAgree
<1>6. SumFunctionOnSet(f, A) = g[A] /\ SumFunctionOnSet(f, B) = h[B]
  BY AddsTo
<1>7. QED
  BY <1>4, <1>5, <1>6, PickOne

\* A sum of integers is an integer.
LEMMA SumInteger ==
  ASSUME NEW f, NEW A, IsFiniteSet(A), Integers(f, A)
  PROVE  SumFunctionOnSet(f, A) \in Int
<1> DEFINE T == {s \in SUBSET A : SumFunctionOnSet(f, s) \notin Int}
<1>1. SUFFICES ASSUME T # {} PROVE FALSE
  OBVIOUS
<1>2. PICK s \in T : \A t \in T : t \subseteq s => t = s
  <2>1. T \in SUBSET SUBSET A
    OBVIOUS
  <2> HIDE DEF T
  <2>2. QED
    BY <1>1, <2>1, LeastSubset
<1>3. s # {}
  BY SumEmpty
<1>4. IsFiniteSet(s)
  BY FS_Subset
<1>5. /\ Pick(s) \in s
      /\ SumFunctionOnSet(f, s) = f[Pick(s)] + SumFunctionOnSet(f, s \ {Pick(s)})
  BY <1>3, <1>4, SumPicked
<1>6. SumFunctionOnSet(f, s \ {Pick(s)}) \in Int
  BY <1>2, <1>5
<1>7. QED
  BY <1>5, <1>6 DEF Integers

\* The order of a sum does not matter: any member may be taken out first.
LEMMA SumTakesOut ==
  ASSUME NEW f, NEW A, IsFiniteSet(A), Integers(f, A), NEW x \in A
  PROVE  SumFunctionOnSet(f, A) = f[x] + SumFunctionOnSet(f, A \ {x})
<1> DEFINE Out(s, y) == SumFunctionOnSet(f, s) = f[y] + SumFunctionOnSet(f, s \ {y})
           T == {s \in SUBSET A : \E y \in s : ~Out(s, y)}
<1>1. SUFFICES ASSUME T # {} PROVE FALSE
  OBVIOUS
<1>2. PICK s \in T : \A t \in T : t \subseteq s => t = s
  <2>1. T \in SUBSET SUBSET A
    OBVIOUS
  <2> HIDE DEF T
  <2>2. QED
    BY <1>1, <2>1, LeastSubset
<1>3. PICK y \in s : ~Out(s, y)
  OBVIOUS
<1> DEFINE p == Pick(s)
           r == SumFunctionOnSet(f, (s \ {p}) \ {y})
<1>4. IsFiniteSet(s) /\ IsFiniteSet(s \ {y}) /\ IsFiniteSet(s \ {p}) /\ IsFiniteSet((s \ {p}) \ {y})
  BY FS_Subset, FS_RemoveElement
<1>5. p \in s /\ Out(s, p)
  BY <1>4, SumPicked
<1>6. p # y
  BY <1>3, <1>5
<1>7. ASSUME NEW z \in s, NEW w \in s, w # z PROVE Out(s \ {z}, w)
  <2>1. s \{z} \notin T /\ s \ {z} \in SUBSET A
    <3> HIDE DEF T
    <3>1. s \ {z} # s /\ s \ {z} \subseteq s
      BY <1>7
    <3>2. s \ {z} \notin T
      BY <1>2, <3>1
    <3> USE DEF T
    <3>3. s \ {z} \in SUBSET A
      OBVIOUS
    <3>4. QED
      BY <3>2, <3>3
  <2>2. w \in s \ {z}
    BY <1>7
  <2> HIDE DEF Out
  <2>3. QED
    BY <2>1, <2>2
<1>8. Out(s \ {p}, y) /\ Out(s \ {y}, p)
  BY <1>5, <1>6, <1>7
<1>9. (s \ {y}) \ {p} = (s \ {p}) \ {y}
  OBVIOUS
<1>10. f[p] \in Int /\ f[y] \in Int /\ r \in Int
  BY <1>4, <1>5, SumInteger DEF Integers
<1>11. /\ SumFunctionOnSet(f, s) = f[p] + SumFunctionOnSet(f, s \ {p})
       /\ SumFunctionOnSet(f, s \ {p}) = f[y] + r
       /\ SumFunctionOnSet(f, s \ {y}) = f[p] + r
  BY <1>5, <1>8, <1>9
<1>12. SumFunctionOnSet(f, s) = f[y] + SumFunctionOnSet(f, s \ {y})
  BY <1>10, <1>11
<1>13. QED
  BY <1>3, <1>12

\* Functions that agree on a set have the same sum over it.
LEMMA SumAgrees ==
  ASSUME NEW f, NEW g, NEW A, IsFiniteSet(A), \A i \in A : f[i] = g[i]
  PROVE  SumFunctionOnSet(f, A) = SumFunctionOnSet(g, A)
<1> DEFINE T == {s \in SUBSET A : SumFunctionOnSet(f, s) # SumFunctionOnSet(g, s)}
<1>1. SUFFICES ASSUME T # {} PROVE FALSE
  OBVIOUS
<1>2. PICK s \in T : \A t \in T : t \subseteq s => t = s
  <2>1. T \in SUBSET SUBSET A
    OBVIOUS
  <2> HIDE DEF T
  <2>2. QED
    BY <1>1, <2>1, LeastSubset
<1>3. s # {}
  BY SumEmpty
<1>4. IsFiniteSet(s)
  BY FS_Subset
<1>5. /\ Pick(s) \in s
      /\ SumFunctionOnSet(f, s) = f[Pick(s)] + SumFunctionOnSet(f, s \ {Pick(s)})
      /\ SumFunctionOnSet(g, s) = g[Pick(s)] + SumFunctionOnSet(g, s \ {Pick(s)})
  BY <1>3, <1>4, SumPicked
<1>6. SumFunctionOnSet(f, s \ {Pick(s)}) = SumFunctionOnSet(g, s \ {Pick(s)})
  BY <1>2, <1>5
<1>7. QED
  BY <1>2, <1>5, <1>6

\* The sum over two sets that share nothing is the sum of their sums.
LEMMA SumOfUnion ==
  ASSUME NEW f, NEW A, IsFiniteSet(A), NEW B, IsFiniteSet(B), A \cap B = {},
         Integers(f, A \cup B)
  PROVE  SumFunctionOnSet(f, A \cup B) = SumFunctionOnSet(f, A) + SumFunctionOnSet(f, B)
<1> DEFINE Splits(s) == SumFunctionOnSet(f, s \cup B) = SumFunctionOnSet(f, s) + SumFunctionOnSet(f, B)
           T == {s \in SUBSET A : ~Splits(s)}
<1>1. SUFFICES ASSUME T # {} PROVE FALSE
  OBVIOUS
<1>2. PICK s \in T : \A t \in T : t \subseteq s => t = s
  <2>1. T \in SUBSET SUBSET A
    OBVIOUS
  <2> HIDE DEF T
  <2>2. QED
    BY <1>1, <2>1, LeastSubset
<1>3. SumFunctionOnSet(f, B) \in Int
  BY SumInteger DEF Integers
<1>4. s # {}
  <2>1. {} \cup B = B
    OBVIOUS
  <2>2. Splits({})
    BY <1>3, <2>1, SumEmpty
  <2>3. QED
    BY <2>2
<1>5. PICK x \in s : TRUE
  BY <1>4
<1> DEFINE t == s \ {x}
<1>6. IsFiniteSet(s) /\ IsFiniteSet(t) /\ IsFiniteSet(s \cup B)
  BY FS_Subset, FS_RemoveElement, FS_Union
<1>7. Integers(f, s) /\ Integers(f, t) /\ Integers(f, s \cup B) /\ f[x] \in Int
  BY DEF Integers
<1>8. SumFunctionOnSet(f, t \cup B) = SumFunctionOnSet(f, t) + SumFunctionOnSet(f, B)
  BY <1>2
<1>9. SumFunctionOnSet(f, s) = f[x] + SumFunctionOnSet(f, t) /\ SumFunctionOnSet(f, t) \in Int
  BY <1>6, <1>7, SumTakesOut, SumInteger
<1>10. SumFunctionOnSet(f, s \cup B) = f[x] + SumFunctionOnSet(f, t \cup B)
  <2>1. (s \cup B) \ {x} = t \cup B
    BY <1>5
  <2>2. QED
    BY <1>6, <1>7, <2>1, SumTakesOut
<1>11. SumFunctionOnSet(f, s \cup B) = SumFunctionOnSet(f, s) + SumFunctionOnSet(f, B)
  BY <1>3, <1>7, <1>8, <1>9, <1>10
<1>12. QED
  BY <1>11

\* A sum of ones counts the members.
LEMMA SumOfOnes ==
  ASSUME NEW f, NEW A, IsFiniteSet(A), \A i \in A : f[i] = 1
  PROVE  SumFunctionOnSet(f, A) = Cardinality(A)
<1> DEFINE T == {s \in SUBSET A : SumFunctionOnSet(f, s) # Cardinality(s)}
<1>1. SUFFICES ASSUME T # {} PROVE FALSE
  OBVIOUS
<1>2. PICK s \in T : \A t \in T : t \subseteq s => t = s
  <2>1. T \in SUBSET SUBSET A
    OBVIOUS
  <2> HIDE DEF T
  <2>2. QED
    BY <1>1, <2>1, LeastSubset
<1>3. s # {}
  BY SumEmpty, FS_EmptySet
<1>4. PICK x \in s : TRUE
  BY <1>3
<1>5. IsFiniteSet(s) /\ Cardinality(s) \in Nat /\ Cardinality(s \ {x}) = Cardinality(s) - 1
  BY FS_Subset, FS_RemoveElement, FS_CardinalityType
<1>6. SumFunctionOnSet(f, s) = 1 + SumFunctionOnSet(f, s \ {x})
  BY <1>5, SumTakesOut DEF Integers
<1>7. SumFunctionOnSet(f, s \ {x}) = Cardinality(s \ {x})
  BY <1>2
<1>8. QED
  BY <1>2, <1>5, <1>6, <1>7

\* Terms of zero add nothing.
LEMMA SumOfZeros ==
  ASSUME NEW f, NEW A, IsFiniteSet(A), \A i \in A : f[i] = 0
  PROVE  SumFunctionOnSet(f, A) = 0
<1> DEFINE T == {s \in SUBSET A : SumFunctionOnSet(f, s) # 0}
<1>1. SUFFICES ASSUME T # {} PROVE FALSE
  OBVIOUS
<1>2. PICK s \in T : \A t \in T : t \subseteq s => t = s
  <2>1. T \in SUBSET SUBSET A
    OBVIOUS
  <2> HIDE DEF T
  <2>2. QED
    BY <1>1, <2>1, LeastSubset
<1>3. s # {} /\ IsFiniteSet(s)
  BY SumEmpty, FS_Subset
<1>4. /\ Pick(s) \in s
      /\ SumFunctionOnSet(f, s) = f[Pick(s)] + SumFunctionOnSet(f, s \ {Pick(s)})
  BY <1>3, SumPicked
<1>5. SumFunctionOnSet(f, s \ {Pick(s)}) = 0
  BY <1>2, <1>4
<1>6. QED
  BY <1>4, <1>5

\* What holds of each term within a constant holds of the sums within as many.
LEMMA SumBounded ==
  ASSUME NEW f, NEW g, NEW A, IsFiniteSet(A), Integers(f, A), Integers(g, A),
         NEW m \in Int, NEW n \in Int, NEW k \in Int,
         \A i \in A : m * f[i] <= n * g[i] + k
  PROVE  m * SumFunctionOnSet(f, A) <= n * SumFunctionOnSet(g, A) + k * Cardinality(A)
<1> DEFINE Within(s) == m * SumFunctionOnSet(f, s) <= n * SumFunctionOnSet(g, s) + k * Cardinality(s)
           T == {s \in SUBSET A : ~Within(s)}
<1>1. SUFFICES ASSUME T # {} PROVE FALSE
  OBVIOUS
<1>2. PICK s \in T : \A t \in T : t \subseteq s => t = s
  <2>1. T \in SUBSET SUBSET A
    OBVIOUS
  <2> HIDE DEF T
  <2>2. QED
    BY <1>1, <2>1, LeastSubset
<1>3. s # {}
  <2>1. m * 0 = 0 /\ n * 0 = 0 /\ k * 0 = 0
    OBVIOUS
  <2>2. Within({})
    BY <2>1, SumEmpty, FS_EmptySet
  <2>3. QED
    BY <2>2
<1>4. PICK x \in s : TRUE
  BY <1>3
<1> DEFINE t == s \ {x}
           F == SumFunctionOnSet(f, t)
           G == SumFunctionOnSet(g, t)
           c == Cardinality(t)
<1>5. IsFiniteSet(s) /\ IsFiniteSet(t) /\ c \in Nat /\ Cardinality(s) = c + 1
  BY FS_Subset, FS_RemoveElement, FS_CardinalityType
<1>6. /\ Integers(f, s) /\ Integers(g, s) /\ Integers(f, t) /\ Integers(g, t)
      /\ f[x] \in Int /\ g[x] \in Int
  BY DEF Integers
<1>7. F \in Int /\ G \in Int
  BY <1>5, <1>6, SumInteger
<1>8. SumFunctionOnSet(f, s) = f[x] + F /\ SumFunctionOnSet(g, s) = g[x] + G
  BY <1>5, <1>6, SumTakesOut
<1>9. m * F <= n * G + k * c
  BY <1>2
<1>10. m * f[x] <= n * g[x] + k
  OBVIOUS
<1>11. /\ m * (f[x] + F) = m * f[x] + m * F
       /\ n * (g[x] + G) = n * g[x] + n * G
       /\ k * (c + 1) = k * c + k
  BY <1>5, <1>6, <1>7
<1>12. /\ m * F \in Int /\ n * G \in Int /\ k * c \in Int
       /\ m * f[x] \in Int /\ n * g[x] \in Int
  BY <1>5, <1>6, <1>7
<1>13. m * (f[x] + F) <= n * (g[x] + G) + k * (c + 1)
  <2> HIDE DEF F, G, c
  <2> QED
    BY <1>9, <1>10, <1>11, <1>12
<1>14. QED
  BY <1>5, <1>8, <1>13

\* The groups h puts the members of A in, and the sum of each group's terms.
Groups(h, A) == {h[i] : i \in A}
AddsUpEach(total, f, h, A) ==
  \A c \in Groups(h, A) : total[c] = SumFunctionOnSet(f, {i \in A : h[i] = c})

\* Summing group by group: with h[i] the group of i, the sum of the groups' sums
\* is the sum of all.
LEMMA SumOfGroups ==
  ASSUME NEW f, NEW h, NEW A, IsFiniteSet(A), Integers(f, A),
         NEW total, AddsUpEach(total, f, h, A)
  PROVE  /\ IsFiniteSet(Groups(h, A))
         /\ SumFunctionOnSet(total, Groups(h, A)) = SumFunctionOnSet(f, A)
<1> DEFINE of(c) == {i \in A : h[i] = c}
           in(s) == {i \in A : h[i] \in s}
           K == Groups(h, A)
           Grouped(s) == SumFunctionOnSet(total, s) = SumFunctionOnSet(f, in(s))
           T == {s \in SUBSET K : ~Grouped(s)}
<1>1. IsFiniteSet(K)
  <2>1. [i \in A |-> h[i]] \in Surjection(A, K)
    BY DEF Surjection, Groups
  <2>2. QED
    BY <2>1, FS_Surjection
<1>2. ASSUME NEW s PROVE IsFiniteSet(in(s)) /\ IsFiniteSet(of(s)) /\ Integers(f, in(s)) /\ Integers(f, of(s))
  BY FS_Subset DEF Integers
<1>3. Integers(total, K)
  <2>1. ASSUME NEW c \in K PROVE total[c] \in Int
    <3>1. IsFiniteSet(of(c)) /\ Integers(f, of(c))
      BY <1>2
    <3>2. total[c] = SumFunctionOnSet(f, of(c))
      BY DEF AddsUpEach
    <3>3. QED
      BY <3>1, <3>2, SumInteger
  <2>2. QED
    BY <2>1 DEF Integers
<1>4. SUFFICES ASSUME T # {} PROVE FALSE
  <2>1. in(K) = A
    BY DEF Groups
  <2>2. K \in SUBSET K
    OBVIOUS
  <2>3. Grouped(K)
    BY <1>4, <2>2
  <2>4. QED
    BY <1>1, <2>1, <2>3
<1>5. PICK s \in T : \A t \in T : t \subseteq s => t = s
  <2>1. T \in SUBSET SUBSET K
    OBVIOUS
  <2> HIDE DEF T, K
  <2>2. QED
    BY <1>1, <1>4, <2>1, LeastSubset
<1>6. s \in SUBSET K /\ ~Grouped(s)
  OBVIOUS
<1>7. s # {}
  <2>1. in({}) = {}
    OBVIOUS
  <2>2. Grouped({})
    BY <2>1, SumEmpty
  <2>3. QED
    BY <1>6, <2>2
<1>8. PICK c \in s : TRUE
  BY <1>7
<1> DEFINE t == s \ {c}
<1>9. IsFiniteSet(s) /\ Integers(total, s)
  BY <1>1, <1>3, <1>6, FS_Subset DEF Integers
<1>10. SumFunctionOnSet(total, s) = total[c] + SumFunctionOnSet(total, t)
  BY <1>9, SumTakesOut
<1>11. Grouped(t)
  <2>1. t \in SUBSET K /\ t \subseteq s /\ t # s
    BY <1>6
  <2> HIDE DEF t, Grouped
  <2>2. QED
    BY <1>5, <2>1
<1>12. in(s) = of(c) \cup in(t) /\ of(c) \cap in(t) = {}
  BY <1>8
<1>13. SumFunctionOnSet(f, in(s)) = SumFunctionOnSet(f, of(c)) + SumFunctionOnSet(f, in(t))
  <2>1. Integers(f, of(c) \cup in(t))
    BY DEF Integers
  <2>2. IsFiniteSet(of(c)) /\ IsFiniteSet(in(t))
    BY <1>2
  <2> HIDE DEF of, in, t
  <2>3. SumFunctionOnSet(f, of(c) \cup in(t)) = SumFunctionOnSet(f, of(c)) + SumFunctionOnSet(f, in(t))
    BY <1>12, <2>1, <2>2, SumOfUnion
  <2>4. QED
    BY <1>12, <2>3
<1>14. total[c] = SumFunctionOnSet(f, of(c))
  BY <1>6, <1>8 DEF AddsUpEach
<1>15. QED
  <2> HIDE DEF of, in, t
  <2>1. Grouped(s)
    BY <1>10, <1>11, <1>13, <1>14
  <2>2. QED
    BY <1>6, <2>1

\* h[i] names i anew: g is f under the new names.
Renames(h, f, g, A) == /\ \A i, j \in A : h[i] = h[j] => i = j
                       /\ \A i \in A : g[h[i]] = f[i]

\* A sum does not depend on how its terms are named.
LEMMA SumRenamed ==
  ASSUME NEW f, NEW g, NEW h, NEW A, IsFiniteSet(A), Integers(f, A),
         Renames(h, f, g, A)
  PROVE  SumFunctionOnSet(g, Groups(h, A)) = SumFunctionOnSet(f, A)
<1>1. ASSUME NEW c \in Groups(h, A)
      PROVE  g[c] = SumFunctionOnSet(f, {i \in A : h[i] = c})
  <2>1. PICK i \in A : c = h[i]
    BY DEF Groups
  <2>2. {j \in A : h[j] = c} = {i}
    BY <2>1 DEF Renames
  <2>3. IsFiniteSet({i}) /\ Integers(f, {i})
    BY FS_Singleton DEF Integers
  <2>4. SumFunctionOnSet(f, {i}) = f[i] + SumFunctionOnSet(f, {})
    <3>1. {i} \ {i} = {}
      OBVIOUS
    <3>2. QED
      BY <2>3, <3>1, SumTakesOut
  <2>5. f[i] \in Int
    BY DEF Integers
  <2>6. SumFunctionOnSet(f, {i}) = f[i]
    BY <2>4, <2>5, SumEmpty
  <2>7. g[c] = f[i]
    BY <2>1 DEF Renames
  <2>8. QED
    BY <2>2, <2>6, <2>7
<1>2. AddsUpEach(g, f, h, A)
  BY <1>1 DEF AddsUpEach
<1>3. QED
  BY <1>2, SumOfGroups
=============================================================================
