------------------------ MODULE NeighbourhoodProofs ------------------------
(***************************************************************************)
(* The safety properties of the /neighbourhood handler, for every data     *)
(* set, every request and every pair of thresholds.                        *)
(*                                                                         *)
(* The heart is Frontier: as long as the neighbourhood is smaller than     *)
(* asked for, nothing has been cut off, so the artists met are exactly the *)
(* artists chosen, and only the frontier may still have neighbours         *)
(* outside.  The iteration that cuts a layer short fills the neighbourhood *)
(* up to the size and is the last one.                                     *)
(*                                                                         *)
(* Layered says more of that state: the neighbourhood is a ball around the *)
(* origin, the frontier its outermost layer, and the scores of the         *)
(* frontier count the shortest ways from the origin.  What is cut is then  *)
(* the next layer, by the numbers of the ways into it.                     *)
(***************************************************************************)
EXTENDS Neighbourhood, TLAPS, FiniteSetTheorems, WellFoundedInduction

Full == Cardinality(neighbourhood) >= req.size

Frontier ==
  pc = "grow" =>
    /\ origin \in neighbourhood
    /\ DOMAIN currentstep \subseteq neighbourhood
    /\ \/ Full
       \/ /\ visited = neighbourhood
          /\ \A a \in neighbourhood \ DOMAIN currentstep, b \in Artist :
               Joined(a, b) => b \in neighbourhood

IInv ==
  /\ TypeOK
  /\ Frontier
  /\ NeverTooMany
  /\ Connected
  /\ ShortOnlyIfExhausted

-----------------------------------------------------------------------------
(* Induction on the naturals, with a set for the statement. *)
LEMMA NatInd ==
  ASSUME NEW S, 0 \in S, \A n \in Nat : n \in S => n + 1 \in S
  PROVE  Nat \subseteq S
<1> SUFFICES ASSUME NEW m \in Nat, m \notin S PROVE FALSE
  OBVIOUS
<1> DEFINE T == {n \in Nat : n \notin S}
<1>1. PICK x \in T : \A y \in T : ~(<<y, x>> \in OpToRel(<, Nat))
  <2>1. IsWellFoundedOn(OpToRel(<, Nat), Nat)
    BY NatLessThanWellFounded
  <2>2. T \subseteq Nat /\ T # {}
    OBVIOUS
  <2> HIDE DEF T
  <2> QED
    BY <2>1, <2>2, WFMin
<1>2. x # 0 /\ x \in Nat
  OBVIOUS
<1>3. x - 1 \in Nat /\ x - 1 < x
  BY <1>2
<1>4. x - 1 \in T
  <2>1. x - 1 \in S => x \in S
    BY <1>3
  <2> QED
    BY <1>3, <2>1
<1> QED
  BY <1>1, <1>2, <1>3, <1>4 DEF OpToRel

(* The member of a set that SumFunctionOnSet adds next. *)
Pick(s) == CHOOSE x \in s : TRUE

(* g holds the sum of f over every subset of S, added in that order. *)
Totals(f, g, S) ==
  g = [s \in SUBSET S |->
         IF s = {} THEN 0 ELSE f[Pick(s)] + g[s \ {Pick(s)}]]

(* The sum of the library is the total for the whole set. *)
LEMMA SumDef ==
  ASSUME NEW f, NEW S
  PROVE SumFunctionOnSet(f, S) =
    (CHOOSE g : Totals(f, g, S))[S]
BY Zenon DEF SumFunctionOnSet, FoldFunctionOnSet, MapThenFoldSet, Pick, Totals

(* The member added next is a member. *)
LEMMA PickType ==
  ASSUME NEW s, s # {}
  PROVE  Pick(s) \in s
BY DEF Pick

(* What is left to add has one member fewer. *)
LEMMA PickSmaller ==
  ASSUME NEW s, IsFiniteSet(s), s # {}
  PROVE  /\ IsFiniteSet(s \ {Pick(s)})
         /\ Cardinality(s \ {Pick(s)}) = Cardinality(s) - 1
         /\ Cardinality(s) \in Nat \ {0}
         /\ Cardinality(s \ {Pick(s)}) \in Nat
<1>1. Pick(s) \in s
  BY PickType
<1>2. Cardinality(s) \in Nat /\ Cardinality(s) # 0
  BY FS_CardinalityType, FS_EmptySet
<1> QED
  BY <1>1, <1>2, FS_RemoveElement

(* The totals exist: a function that totals the sets of up to n members    *)
(* extends to those of n + 1.                                              *)
LEMMA SumExists ==
  ASSUME NEW f, NEW S, IsFiniteSet(S)
  PROVE  \E g : Totals(f, g, S)
<1> DEFINE D(n) == {s \in SUBSET S : Cardinality(s) <= n}
           E == {n \in Nat : \E g :
                   g = [s \in D(n) |->
                          IF s = {} THEN 0 ELSE f[Pick(s)] + g[s \ {Pick(s)}]]}
<1>0. \A s \in SUBSET S : IsFiniteSet(s) /\ Cardinality(s) \in Nat
  BY FS_Subset, FS_CardinalityType
<1>1. 0 \in E
  <2> DEFINE g == [s \in D(0) |-> 0]
  <2>1. \A s \in D(0) : s = {}
    BY <1>0, FS_EmptySet
  <2>2. g = [s \in D(0) |-> IF s = {} THEN 0 ELSE f[Pick(s)] + g[s \ {Pick(s)}]]
    BY <2>1
  <2> QED
    BY <2>2
<1>2. ASSUME NEW n \in Nat, n \in E PROVE n + 1 \in E
  <2>1. PICK g : g = [s \in D(n) |-> IF s = {} THEN 0 ELSE f[Pick(s)] + g[s \ {Pick(s)}]]
    BY <1>2
  <2> DEFINE h == [s \in D(n+1) |-> IF s = {} THEN 0 ELSE f[Pick(s)] + g[s \ {Pick(s)}]]
  <2>2. \A s \in D(n+1) : s # {} => s \ {Pick(s)} \in D(n) /\ s \ {Pick(s)} \in D(n+1)
    BY <1>0, PickSmaller
  <2>3. \A s \in D(n) : s \in D(n+1)
    BY <1>0
  <2> HIDE DEF D
  <2>4. \A s \in D(n) : h[s] = g[s]
    BY <2>1, <2>3
  <2>5. h = [s \in D(n+1) |-> IF s = {} THEN 0 ELSE f[Pick(s)] + h[s \ {Pick(s)}]]
    <3>1. \A s \in D(n+1) : s # {} => g[s \ {Pick(s)}] = h[s \ {Pick(s)}]
      BY <2>2, <2>4
    <3> QED
      BY <3>1
  <2> HIDE DEF h
  <2> QED
    BY <2>5
<1> HIDE DEF E
<1>3. Nat \subseteq E
  BY <1>1, <1>2, NatInd
<1> USE DEF E
<1>4. Cardinality(S) \in E
  BY <1>0, <1>3
<1>5. D(Cardinality(S)) = SUBSET S
  BY <1>0, FS_Subset
<1> HIDE DEF D
<1> QED
  BY <1>4, <1>5 DEF Totals

(* A sum is one of the values and the sum of the others. *)
LEMMA SumStep ==
  ASSUME NEW f, NEW S, IsFiniteSet(S)
  PROVE  SumFunctionOnSet(f, S) =
           IF S = {} THEN 0
           ELSE f[Pick(S)] + SumFunctionOnSet(f, S \ {Pick(S)})
<1> DEFINE Fold(T) == CHOOSE g : Totals(f, g, T)
<1>1. \A T : SumFunctionOnSet(f, T) = Fold(T)[T]
  BY SumDef
<1>2. ASSUME NEW T, IsFiniteSet(T) PROVE Totals(f, Fold(T), T)
  BY <1>2, SumExists
<1> HIDE DEF Fold
<1>3. ASSUME NEW T \in SUBSET S, NEW n \in Nat, 
             \A s \in SUBSET T : Cardinality(s) = n => Fold(S)[s] = Fold(T)[s]
      PROVE  \A s \in SUBSET T : Cardinality(s) = n + 1 => Fold(S)[s] = Fold(T)[s]
  <2> SUFFICES ASSUME NEW s \in SUBSET T, Cardinality(s) = n + 1
               PROVE  Fold(S)[s] = Fold(T)[s]
    OBVIOUS
  <2>1. IsFiniteSet(T) /\ IsFiniteSet(s)
    BY FS_Subset
  <2>2. s # {} 
    BY FS_EmptySet
  <2>3. s \ {Pick(s)} \in SUBSET T /\ Cardinality(s \ {Pick(s)}) = n
    <3>1. Cardinality(s \ {Pick(s)}) = Cardinality(s) - 1
      BY <2>1, <2>2, PickSmaller
    <3> QED
      BY <3>1
  <2>4. Fold(S)[s \ {Pick(s)}] = Fold(T)[s \ {Pick(s)}]
    BY <1>3, <2>3
  <2> QED
    <3>1. Fold(S)[s] = f[Pick(s)] + Fold(S)[s \ {Pick(s)}]
      <4>1. Totals(f, Fold(S), S) /\ s \in SUBSET S
        BY <1>2
      <4> QED
        BY <2>2, <4>1 DEF Totals
    <3>2. Fold(T)[s] = f[Pick(s)] + Fold(T)[s \ {Pick(s)}]
      <4>1. Totals(f, Fold(T), T)
        BY <1>2, <2>1
      <4> QED
        BY <2>2, <4>1 DEF Totals
    <3> QED
      BY <2>4, <3>1, <3>2
<1>4. ASSUME NEW T \in SUBSET S PROVE Fold(S)[T] = Fold(T)[T]
  <2> DEFINE E == {n \in Nat : \A s \in SUBSET T : Cardinality(s) = n => Fold(S)[s] = Fold(T)[s]}
  <2>1. IsFiniteSet(T) /\ Cardinality(T) \in Nat
    BY FS_Subset, FS_CardinalityType
  <2>2. 0 \in E
    <3>1. \A s \in SUBSET T : Cardinality(s) = 0 => s = {}
      BY <2>1, FS_Subset, FS_EmptySet
    <3>2. Fold(S)[{}] = 0 /\ Fold(T)[{}] = 0
      BY <1>2, <2>1 DEF Totals
    <3> QED
      BY <3>1, <3>2
  <2>3. \A n \in Nat : n \in E => n + 1 \in E
    BY <1>3
  <2> HIDE DEF E
  <2>4. Nat \subseteq E
    BY <2>2, <2>3, NatInd
  <2> QED
    BY <2>1, <2>4 DEF E
<1> DEFINE T == S \ {Pick(S)}
<1>5. Fold(S)[S] = IF S = {} THEN 0 ELSE f[Pick(S)] + Fold(S)[T]
  BY <1>2 DEF Totals
<1>6. Fold(S)[T] = Fold(T)[T]
  BY <1>4
<1> HIDE DEF T
<1>7. SumFunctionOnSet(f, S) = Fold(S)[S] /\ SumFunctionOnSet(f, T) = Fold(T)[T]
  BY <1>1
<1> QED
  BY <1>5, <1>6, <1>7 DEF T

(* A sum of naturals is a natural. *)
LEMMA SumType ==
  ASSUME NEW f, NEW S, IsFiniteSet(S), \A x \in S : f[x] \in Nat
  PROVE  SumFunctionOnSet(f, S) \in Nat
<1> DEFINE E == {n \in Nat : \A s \in SUBSET S : Cardinality(s) = n => SumFunctionOnSet(f, s) \in Nat}
<1>1. \A s \in SUBSET S : IsFiniteSet(s) /\ Cardinality(s) \in Nat
  BY FS_Subset, FS_CardinalityType
<1>2. 0 \in E
  <2>1. \A s \in SUBSET S : Cardinality(s) = 0 => s = {}
    BY <1>1, FS_EmptySet
  <2>2. SumFunctionOnSet(f, {}) = 0
    BY SumStep, FS_EmptySet
  <2> QED
    BY <2>1, <2>2
<1>3. ASSUME NEW n \in Nat, n \in E PROVE n + 1 \in E
  <2> SUFFICES ASSUME NEW s \in SUBSET S, Cardinality(s) = n + 1
               PROVE  SumFunctionOnSet(f, s) \in Nat
    OBVIOUS
  <2>1. IsFiniteSet(s) /\ s # {}
    BY <1>1, FS_EmptySet
  <2>2. Cardinality(s \ {Pick(s)}) = n /\ Pick(s) \in s
    <3>1. Cardinality(s \ {Pick(s)}) = Cardinality(s) - 1
      BY <2>1, PickSmaller
    <3> QED
      BY <2>1, <3>1, PickType
  <2>3. SumFunctionOnSet(f, s \ {Pick(s)}) \in Nat
    BY <1>3, <2>2
  <2> QED
    BY <2>1, <2>2, <2>3, SumStep
<1> HIDE DEF E
<1>4. Nat \subseteq E
  BY <1>2, <1>3, NatInd
<1> QED
  BY <1>1, <1>4 DEF E

(* Any of the values can be taken out: the order does not matter. *)
LEMMA SumRemove ==
  ASSUME NEW f, NEW S, IsFiniteSet(S), \A x \in S : f[x] \in Nat
  PROVE  \A x \in S : SumFunctionOnSet(f, S) = f[x] + SumFunctionOnSet(f, S \ {x})
<1> DEFINE Total(s) == SumFunctionOnSet(f, s)
           E == {n \in Nat : \A s \in SUBSET S : Cardinality(s) = n =>
                               \A x \in s : Total(s) = f[x] + Total(s \ {x})}
<1>1. \A s \in SUBSET S : IsFiniteSet(s) /\ Cardinality(s) \in Nat
  BY FS_Subset, FS_CardinalityType
<1>2. 0 \in E
  BY <1>1, FS_EmptySet
<1>3. ASSUME NEW n \in Nat, n \in E PROVE n + 1 \in E
  <2> SUFFICES ASSUME NEW s \in SUBSET S, Cardinality(s) = n + 1, NEW x \in s
               PROVE  Total(s) = f[x] + Total(s \ {x})
    OBVIOUS
  <2> DEFINE y == Pick(s)
             both == (s \ {x}) \ {y}
  <2>1. IsFiniteSet(s) /\ s # {} /\ y \in s
    BY <1>1, PickType
  <2>2. \A s2 \in SUBSET S : Cardinality(s2) = n =>
          \A z \in s2 : Total(s2) = f[z] + Total(s2 \ {z})
    BY <1>3
  <2> HIDE DEF E
  <2>3. /\ Cardinality(s \ {x}) = n /\ Cardinality(s \ {y}) = n
        /\ s \ {x} \in SUBSET S /\ s \ {y} \in SUBSET S
    <3>1. /\ Cardinality(s \ {x}) = Cardinality(s) - 1
          /\ Cardinality(s \ {y}) = Cardinality(s) - 1
      BY <2>1, FS_RemoveElement
    <3> QED
      BY <3>1
  <2>4. Total(s) = f[y] + Total(s \ {y})
    BY <2>1, SumStep
  <2>5. CASE x = y
    BY <2>4, <2>5
  <2>6. CASE x # y
    <3> HIDE DEF Total, y
    <3>1. Total(s \ {x}) = f[y] + Total(both)
      BY <2>1, <2>2, <2>3, <2>6
    <3>2. (s \ {y}) \ {x} = both
      OBVIOUS
    <3>3. Total(s \ {y}) = f[x] + Total(both)
      BY <2>2, <2>3, <2>6, <3>2
    <3>4. f[x] \in Nat /\ f[y] \in Nat /\ Total(both) \in Nat
      <4>1. IsFiniteSet(both) /\ \A z \in both : f[z] \in Nat
        BY <1>1
      <4> QED
        BY <2>1, <4>1, SumType DEF Total
    <3> QED
      BY <2>4, <3>1, <3>3, <3>4
  <2> QED
    BY <2>5, <2>6
<1> HIDE DEF E
<1>4. Nat \subseteq E
  BY <1>2, <1>3, NatInd
<1> QED
  BY <1>1, <1>4 DEF E

(* Functions that agree on a set have the same sum over it. *)
LEMMA SumSame ==
  ASSUME NEW f, NEW g, NEW S, IsFiniteSet(S), \A x \in S : f[x] = g[x]
  PROVE  SumFunctionOnSet(f, S) = SumFunctionOnSet(g, S)
<1> DEFINE E == {n \in Nat : \A s \in SUBSET S : Cardinality(s) = n =>
                               SumFunctionOnSet(f, s) = SumFunctionOnSet(g, s)}
<1>1. \A s \in SUBSET S : IsFiniteSet(s) /\ Cardinality(s) \in Nat
  BY FS_Subset, FS_CardinalityType
<1>2. 0 \in E
  <2>1. \A s \in SUBSET S : Cardinality(s) = 0 => s = {}
    BY <1>1, FS_EmptySet
  <2>2. SumFunctionOnSet(f, {}) = 0 /\ SumFunctionOnSet(g, {}) = 0
    BY SumStep, FS_EmptySet
  <2> QED
    BY <2>1, <2>2
<1>3. ASSUME NEW n \in Nat, n \in E PROVE n + 1 \in E
  <2> SUFFICES ASSUME NEW s \in SUBSET S, Cardinality(s) = n + 1
               PROVE  SumFunctionOnSet(f, s) = SumFunctionOnSet(g, s)
    OBVIOUS
  <2>1. IsFiniteSet(s) /\ s # {} /\ Pick(s) \in s
    BY <1>1, FS_EmptySet, PickType
  <2>2. Cardinality(s \ {Pick(s)}) = n
    <3>1. Cardinality(s \ {Pick(s)}) = Cardinality(s) - 1
      BY <2>1, PickSmaller
    <3> QED
      BY <3>1
  <2>3. SumFunctionOnSet(f, s \ {Pick(s)}) = SumFunctionOnSet(g, s \ {Pick(s)})
    BY <1>3, <2>2
  <2> QED
    BY <2>1, <2>3, SumStep
<1> HIDE DEF E
<1>4. Nat \subseteq E
  BY <1>2, <1>3, NatInd
<1> QED
  BY <1>1, <1>4 DEF E

(* Values of zero can be left out of a sum. *)
LEMMA SumDrop ==
  ASSUME NEW f, NEW S, IsFiniteSet(S), NEW T \in SUBSET S,
         \A x \in S : f[x] \in Nat, \A x \in S \ T : f[x] = 0
  PROVE  SumFunctionOnSet(f, S) = SumFunctionOnSet(f, T)
<1> DEFINE E == {n \in Nat : \A s \in SUBSET S : (T \subseteq s /\ Cardinality(s \ T) = n) =>
                               SumFunctionOnSet(f, s) = SumFunctionOnSet(f, T)}
<1>1. \A s \in SUBSET S : /\ IsFiniteSet(s) /\ IsFiniteSet(s \ T) /\ Cardinality(s) \in Nat
                          /\ Cardinality(s \ T) \in Nat
  BY FS_Subset, FS_CardinalityType
<1>2. 0 \in E
  <2>1. \A s \in SUBSET S : (T \subseteq s /\ Cardinality(s \ T) = 0) => s = T
    BY <1>1, FS_EmptySet
  <2> QED
    BY <2>1
<1>3. ASSUME NEW n \in Nat, n \in E PROVE n + 1 \in E
  <2> SUFFICES ASSUME NEW s \in SUBSET S, T \subseteq s, Cardinality(s \ T) = n + 1
               PROVE  SumFunctionOnSet(f, s) = SumFunctionOnSet(f, T)
    OBVIOUS
  <2>1. PICK x : x \in s \ T
    BY FS_EmptySet
  <2>2. Cardinality((s \ {x}) \ T) = n
    <3>1. Cardinality((s \ T) \ {x}) = Cardinality(s \ T) - 1
      BY <1>1, <2>1, FS_RemoveElement
    <3>2. (s \ T) \ {x} = (s \ {x}) \ T
      OBVIOUS
    <3> QED
      BY <3>1, <3>2
  <2>3. SumFunctionOnSet(f, s \ {x}) = SumFunctionOnSet(f, T)
    BY <1>3, <2>1, <2>2
  <2>4. SumFunctionOnSet(f, s) = f[x] + SumFunctionOnSet(f, s \ {x})
    BY <1>1, <2>1, SumRemove
  <2>5. f[x] = 0 /\ SumFunctionOnSet(f, T) \in Nat
    BY <1>1, <2>1, SumType
  <2> QED
    BY <2>3, <2>4, <2>5
<1> HIDE DEF E
<1>4. Nat \subseteq E
  BY <1>2, <1>3, NatInd
<1> QED
  BY <1>1, <1>4 DEF E

(* Function g starts with base and goes on with next. *)
Iterates(g, base, next) ==
  \A k \in Nat : g[k] = IF k = 0 THEN base ELSE next[g[k-1]]

(* A function defined by recursion on the naturals exists. *)
LEMMA Recursion ==
  ASSUME NEW V, NEW base \in V, NEW next \in [V -> V]
  PROVE  \E g \in [Nat -> V] : Iterates(g, base, next)
<1> DEFINE Starts(n) == {h \in [0..n -> V] : /\ h[0] = base
                                            /\ \A k \in 1..n : h[k] = next[h[k-1]]}
           E == {n \in Nat : Starts(n) # {}}
<1>1. 0 \in E
  <2> DEFINE h == [k \in 0..0 |-> base]
  <2>1. h \in Starts(0)
    OBVIOUS
  <2> QED
    BY <2>1
<1>2. ASSUME NEW n \in Nat, n \in E PROVE n + 1 \in E
  <2>1. PICK h : h \in Starts(n)
    BY <1>2
  <2> DEFINE j == [k \in 0..(n+1) |-> IF k = n + 1 THEN next[h[n]] ELSE h[k]]
  <2>2. j \in [0..(n+1) -> V]
    BY <2>1
  <2>3. j[0] = base
    BY <2>1
  <2>4. ASSUME NEW k \in 1..(n+1) PROVE j[k] = next[j[k-1]]
    <3>1. CASE k = n + 1
      BY <2>1, <3>1
    <3>2. CASE k # n + 1
      BY <2>1, <3>2
    <3> QED
      BY <3>1, <3>2
  <2>5. j \in Starts(n + 1)
    BY <2>2, <2>3, <2>4
  <2> HIDE DEF j
  <2> QED
    BY <2>5
<1> HIDE DEF E
<1>3. \A n \in Nat : Starts(n) # {}
  <2>1. Nat \subseteq E
    BY <1>1, <1>2, NatInd
  <2> QED
    BY <2>1 DEF E
<1>4. ASSUME NEW n \in Nat, NEW h \in Starts(n), NEW m \in Nat, NEW j \in Starts(m)
      PROVE  \A k \in Nat : (k <= n /\ k <= m) => h[k] = j[k]
  <2> DEFINE F == {k \in Nat : (k <= n /\ k <= m) => h[k] = j[k]}
  <2>1. 0 \in F
    BY <1>4
  <2>2. ASSUME NEW k \in Nat, k \in F PROVE k + 1 \in F
    <3> SUFFICES ASSUME k + 1 <= n, k + 1 <= m PROVE h[k+1] = j[k+1]
      OBVIOUS
    <3>1. h[k] = j[k]
      BY <2>2
    <3>2. k + 1 \in 1..n /\ k + 1 \in 1..m /\ (k + 1) - 1 = k
      OBVIOUS
    <3>3. h[k+1] = next[h[k]]
      BY <3>2
    <3>4. j[k+1] = next[j[k]]
      BY <3>2
    <3> QED
      BY <3>1, <3>3, <3>4
  <2> HIDE DEF F
  <2>3. Nat \subseteq F
    BY <2>1, <2>2, NatInd
  <2> QED
    BY <2>3 DEF F
<1> DEFINE start(n) == CHOOSE h : h \in Starts(n)
           g == [n \in Nat |-> start(n)[n]]
<1>5. \A n \in Nat : start(n) \in Starts(n)
  BY <1>3
<1> HIDE DEF start
<1>6. ASSUME NEW k \in Nat
      PROVE  g[k] \in V /\ g[k] = IF k = 0 THEN base ELSE next[g[k-1]]
  <2>1. start(k) \in Starts(k)
    BY <1>5
  <2>2. g[k] \in V
    BY <2>1
  <2>3. CASE k = 0
    BY <2>1, <2>2, <2>3
  <2>4. CASE k # 0
    <3>1. k - 1 \in Nat /\ k \in 1..k /\ k - 1 <= k /\ k - 1 <= k - 1
      BY <2>4
    <3>2. start(k-1) \in Starts(k-1)
      BY <1>5, <3>1
    <3>3. start(k)[k-1] = start(k-1)[k-1]
      BY <1>4, <2>1, <3>1, <3>2
    <3>4. start(k)[k] = next[start(k)[k-1]]
      BY <2>1, <3>1
    <3> QED
      BY <2>2, <2>4, <3>1, <3>3, <3>4
  <2> QED
    BY <2>3, <2>4
<1>7. g \in [Nat -> V]
  BY <1>6
<1> HIDE DEF g
<1>8. Iterates(g, base, next)
  BY <1>6 DEF Iterates
<1> QED
  BY <1>7, <1>8

-----------------------------------------------------------------------------
(***************************************************************************)
(* The references of ClosestFirst, for a graph and an origin that are      *)
(* constants: the steps of the loop do not change them.                    *)
(***************************************************************************)
(* What is within k + 1 hops is within k hops or one hop further. *)
LEMMA BallLaw ==
  ASSUME NEW links \in [Artist -> SUBSET Artist], NEW o \in Artist
  PROVE  /\ BallsAround(links, o) \in [Nat -> SUBSET Artist]
         /\ BallsAround(links, o)[0] = {o}
         /\ \A k \in Nat :
              BallsAround(links, o)[k+1] =
                BallsAround(links, o)[k]
                  \cup UNION {links[a] : a \in BallsAround(links, o)[k]}
<1> DEFINE wider == [near \in SUBSET Artist |-> near \cup UNION {links[a] : a \in near}]
           Solves(g) == g = [k \in Nat |->
             IF k = 0 THEN {o}
             ELSE LET near == g[k-1] IN near \cup UNION {links[a] : a \in near}]
<1>1. PICK g \in [Nat -> SUBSET Artist] :
        \A k \in Nat : g[k] = IF k = 0 THEN {o} ELSE wider[g[k-1]]
  <2>1. wider \in [SUBSET Artist -> SUBSET Artist] /\ {o} \in SUBSET Artist
    OBVIOUS
  <2> DEFINE V == SUBSET Artist
             base == {o}
  <2>2. wider \in [V -> V] /\ base \in V
    BY <2>1
  <2> HIDE DEF wider, V, base
  <2>3. \E g \in [Nat -> V] : Iterates(g, base, wider)
    BY <2>2, Recursion
  <2> QED
    BY <2>3 DEF V, base, Iterates
<1>2. Solves(g)
  <2>1. \A k \in Nat : k # 0 => k - 1 \in Nat /\ g[k-1] \in SUBSET Artist
    BY <1>1
  <2> QED
    BY <1>1, <2>1
<1>3. BallsAround(links, o) = CHOOSE h : Solves(h)
  BY Zenon DEF BallsAround
<1> DEFINE ball == BallsAround(links, o)
<1>4. Solves(ball)
  <2> HIDE DEF Solves
  <2> QED
    BY <1>2, <1>3
<1>5. ball = [k \in Nat |->
             IF k = 0 THEN {o}
             ELSE ball[k-1] \cup UNION {links[a] : a \in ball[k-1]}]
  BY <1>4
<1> HIDE DEF ball, Solves
<1>6. ball[0] = {o}
  BY <1>5
<1>7. ASSUME NEW k \in Nat
      PROVE  ball[k+1] = ball[k] \cup UNION {links[a] : a \in ball[k]}
  <2>1. k + 1 \in Nat /\ k + 1 # 0 /\ (k + 1) - 1 = k
    OBVIOUS
  <2> QED
    BY <1>5, <2>1
<1>8. \A k \in Nat : ball[k] \in SUBSET Artist
  <2> DEFINE E == {k \in Nat : ball[k] \in SUBSET Artist}
  <2>1. 0 \in E
    BY <1>6
  <2>2. \A k \in Nat : k \in E => k + 1 \in E
    BY <1>7
  <2> HIDE DEF E
  <2>3. Nat \subseteq E
    BY <2>1, <2>2, NatInd
  <2> QED
    BY <2>3 DEF E
<1>9. ball \in [Nat -> SUBSET Artist]
  BY <1>5, <1>8
<1> QED
  BY <1>6, <1>7, <1>9 DEF ball

(* A walk to b is a walk to an artist that b is linked from, and one hop. *)
LEMMA WalksLaw ==
  ASSUME NEW links \in [Artist -> SUBSET Artist], NEW o \in Artist
  PROVE  /\ WalksFrom(links, o) \in [Nat -> [Artist -> Nat]]
         /\ WalksFrom(links, o)[0] = [b \in Artist |-> IF b = o THEN 1 ELSE 0]
         /\ \A k \in Nat, b \in Artist :
              WalksFrom(links, o)[k+1][b] =
                SumFunctionOnSet(WalksFrom(links, o)[k],
                                 {a \in Artist : b \in links[a]})
<1> DEFINE longer == [shorter \in [Artist -> Nat] |->
             [b \in Artist |->
                SumFunctionOnSet(shorter, {a \in Artist : b \in links[a]})]]
           one == [b \in Artist |-> IF b = o THEN 1 ELSE 0]
           Solves(g) == g = [k \in Nat |->
             IF k = 0 THEN [b \in Artist |-> IF b = o THEN 1 ELSE 0]
             ELSE LET shorter == g[k-1]
                  IN  [b \in Artist |->
                         SumFunctionOnSet(shorter, {a \in Artist : b \in links[a]})]]
<1>1. PICK g \in [Nat -> [Artist -> Nat]] :
        \A k \in Nat : g[k] = IF k = 0 THEN one ELSE longer[g[k-1]]
  <2>1. ASSUME NEW shorter \in [Artist -> Nat], NEW b \in Artist
        PROVE  SumFunctionOnSet(shorter, {a \in Artist : b \in links[a]}) \in Nat
    <3>1. IsFiniteSet({a \in Artist : b \in links[a]})
      BY NeighbourhoodAssumption, FS_Subset
    <3> QED
      BY <3>1, SumType
  <2>2. longer \in [[Artist -> Nat] -> [Artist -> Nat]]
    BY <2>1
  <2>3. one \in [Artist -> Nat]
    OBVIOUS
  <2> DEFINE V == [Artist -> Nat]
  <2>4. longer \in [V -> V] /\ one \in V
    BY <2>2, <2>3
  <2> HIDE DEF longer, one, V
  <2>5. \E g \in [Nat -> V] : Iterates(g, one, longer)
    BY <2>4, Recursion
  <2> QED
    BY <2>5 DEF V, Iterates
<1>2. Solves(g)
  <2>1. \A k \in Nat : k # 0 => k - 1 \in Nat /\ g[k-1] \in [Artist -> Nat]
    BY <1>1
  <2>2. \A k \in Nat : g[k] =
          IF k = 0 THEN one
          ELSE [b \in Artist |->
                  SumFunctionOnSet(g[k-1], {a \in Artist : b \in links[a]})]
    BY <1>1, <2>1
  <2> QED
    BY <1>1, <2>2
<1>3. WalksFrom(links, o) = CHOOSE h : Solves(h)
  BY Zenon DEF WalksFrom
<1> DEFINE walks == WalksFrom(links, o)
<1>4. Solves(walks)
  <2> HIDE DEF Solves
  <2> QED
    BY <1>2, <1>3
<1>5. walks = [k \in Nat |->
             IF k = 0 THEN one
             ELSE [b \in Artist |->
                     SumFunctionOnSet(walks[k-1], {a \in Artist : b \in links[a]})]]
  BY <1>4
<1> HIDE DEF walks, Solves
<1>6. walks[0] = one
  BY <1>5
<1>7. ASSUME NEW k \in Nat
      PROVE  walks[k+1] = [b \in Artist |->
               SumFunctionOnSet(walks[k], {a \in Artist : b \in links[a]})]
  <2>1. k + 1 \in Nat /\ k + 1 # 0 /\ (k + 1) - 1 = k
    OBVIOUS
  <2> QED
    BY <1>5, <2>1
<1>8. \A k \in Nat : walks[k] \in [Artist -> Nat]
  <2> DEFINE E == {k \in Nat : walks[k] \in [Artist -> Nat]}
  <2>1. 0 \in E
    <3>1. one \in [Artist -> Nat]
      OBVIOUS
    <3> QED
      BY <1>6, <3>1
  <2>2. ASSUME NEW k \in Nat, k \in E PROVE k + 1 \in E
    <3>1. ASSUME NEW b \in Artist
          PROVE  SumFunctionOnSet(walks[k], {a \in Artist : b \in links[a]}) \in Nat
      <4>1. IsFiniteSet({a \in Artist : b \in links[a]})
        BY NeighbourhoodAssumption, FS_Subset
      <4>2. walks[k] \in [Artist -> Nat]
        BY <2>2
      <4> QED
        BY <4>1, <4>2, SumType
    <3>2. walks[k+1] \in [Artist -> Nat]
      BY <1>7, <3>1
    <3> QED
      BY <3>2
  <2> HIDE DEF E
  <2>3. Nat \subseteq E
    BY <2>1, <2>2, NatInd
  <2> QED
    BY <2>3 DEF E
<1>9. walks \in [Nat -> [Artist -> Nat]]
  BY <1>5, <1>8
<1>10. ASSUME NEW k \in Nat, NEW b \in Artist
       PROVE  walks[k+1][b] = SumFunctionOnSet(walks[k], {a \in Artist : b \in links[a]})
  BY <1>7
<1>11. walks[0] = [b \in Artist |-> IF b = o THEN 1 ELSE 0]
  BY <1>6
<1>12. \A k \in Nat, b \in Artist :
         walks[k+1][b] = SumFunctionOnSet(walks[k], {a \in Artist : b \in links[a]})
  BY <1>10
<1> QED
  BY <1>9, <1>11, <1>12, Zenon DEF walks

(* A larger ball holds a smaller one. *)
LEMMA BallGrows ==
  ASSUME NEW links \in [Artist -> SUBSET Artist], NEW o \in Artist,
         NEW i \in Nat, NEW j \in Nat, i <= j
  PROVE  BallsAround(links, o)[i] \subseteq BallsAround(links, o)[j]
<1> DEFINE ball == BallsAround(links, o)
           E == {n \in Nat : ball[i] \subseteq ball[i + n]}
<1>1. 0 \in E
  <2>1. i + 0 = i
    OBVIOUS
  <2> QED
    BY <2>1
<1>2. ASSUME NEW n \in Nat, n \in E PROVE n + 1 \in E
  <2>1. i + n \in Nat /\ i + (n + 1) = (i + n) + 1
    OBVIOUS
  <2>2. ball[i + n] \subseteq ball[(i + n) + 1]
    BY <2>1, BallLaw
  <2> QED
    BY <1>2, <2>1, <2>2
<1> HIDE DEF E
<1>3. Nat \subseteq E
  BY <1>1, <1>2, NatInd
<1>4. j - i \in Nat /\ i + (j - i) = j
  OBVIOUS
<1> QED
  BY <1>3, <1>4 DEF E

(* No walk of k hops leaves the ball of k hops. *)
LEMMA NoWalkBeyond ==
  ASSUME NEW links \in [Artist -> SUBSET Artist], NEW o \in Artist
  PROVE  \A k \in Nat : \A b \in Artist \ BallsAround(links, o)[k] :
           WalksFrom(links, o)[k][b] = 0
<1> DEFINE ball == BallsAround(links, o)
           walks == WalksFrom(links, o)
           E == {k \in Nat : \A b \in Artist \ ball[k] : walks[k][b] = 0}
<1>0. /\ ball[0] = {o}
      /\ walks[0] = [b \in Artist |-> IF b = o THEN 1 ELSE 0]
      /\ \A k \in Nat : walks[k] \in [Artist -> Nat]
      /\ \A k \in Nat : ball[k+1] = ball[k] \cup UNION {links[a] : a \in ball[k]}
      /\ \A k \in Nat, b \in Artist :
           walks[k+1][b] = SumFunctionOnSet(walks[k], {a \in Artist : b \in links[a]})
  <2>1. /\ ball[0] = {o}
        /\ \A k \in Nat : ball[k+1] = ball[k] \cup UNION {links[a] : a \in ball[k]}
    BY BallLaw
  <2>2. /\ walks \in [Nat -> [Artist -> Nat]]
        /\ walks[0] = [b \in Artist |-> IF b = o THEN 1 ELSE 0]
        /\ \A k \in Nat, b \in Artist :
             walks[k+1][b] = SumFunctionOnSet(walks[k], {a \in Artist : b \in links[a]})
    BY WalksLaw, Zenon
  <2> HIDE DEF ball, walks
  <2> QED
    BY <2>1, <2>2
<1> HIDE DEF ball, walks
<1>1. 0 \in E
  BY <1>0
<1>2. ASSUME NEW k \in Nat, k \in E PROVE k + 1 \in E
  <2> SUFFICES ASSUME NEW b \in Artist \ ball[k+1] PROVE walks[k+1][b] = 0
    OBVIOUS
  <2> DEFINE from == {a \in Artist : b \in links[a]}
  <2>1. walks[k+1][b] = SumFunctionOnSet(walks[k], from)
    BY <1>0, Zenon
  <2>2. \A a \in from : a \notin ball[k]
    <3>1. ball[k+1] = ball[k] \cup UNION {links[a] : a \in ball[k]}
      BY <1>0
    <3> QED
      BY <3>1
  <2>3. \A a \in from : walks[k][a] = 0
    BY <1>2, <2>2
  <2>4. IsFiniteSet(from) /\ IsFiniteSet({})
    BY NeighbourhoodAssumption, FS_Subset, FS_EmptySet
  <2> HIDE DEF from
  <2>5. SumFunctionOnSet(walks[k], from) = SumFunctionOnSet(walks[k], {})
    BY <2>3, <2>4, SumDrop
  <2>6. SumFunctionOnSet(walks[k], {}) = 0
    BY <2>4, SumStep
  <2> QED
    BY <2>1, <2>5, <2>6
<1> HIDE DEF E
<1>3. Nat \subseteq E
  BY <1>1, <1>2, NatInd
<1> QED
  BY <1>3 DEF E, ball, walks

(* The artists k hops from o and no fewer. *)
LayerOf(links, o, k) ==
  IF k = 0 THEN {o} ELSE BallsAround(links, o)[k] \ BallsAround(links, o)[k-1]

(* Whoever is new one hop further is linked from the last layer. *)
LEMMA NextLayer ==
  ASSUME NEW links \in [Artist -> SUBSET Artist], NEW o \in Artist, NEW k \in Nat,
         NEW b \in Artist \ BallsAround(links, o)[k]
  PROVE  /\ \A a \in Artist : (b \in links[a] /\ a \in BallsAround(links, o)[k])
                                => a \in LayerOf(links, o, k)
         /\ b \in BallsAround(links, o)[k+1] <=>
              \E a \in LayerOf(links, o, k) : b \in links[a]
<1> DEFINE ball == BallsAround(links, o)
<1>1. ball[0] = {o}
  BY BallLaw
<1>2. ball[k+1] = ball[k] \cup UNION {links[a] : a \in ball[k]}
  BY BallLaw
<1>3. k # 0 => ball[k] = ball[k-1] \cup UNION {links[a] : a \in ball[k-1]}
  <2> SUFFICES ASSUME k # 0
               PROVE  ball[k] = ball[k-1] \cup UNION {links[a] : a \in ball[k-1]}
    OBVIOUS
  <2>1. k - 1 \in Nat /\ (k - 1) + 1 = k
    OBVIOUS
  <2> QED
    BY <2>1, BallLaw
<1> HIDE DEF ball
<1>4. ball[k] \in SUBSET Artist
  BY BallLaw DEF ball
<1>5. ASSUME NEW a \in Artist, b \in links[a], a \in ball[k]
      PROVE  a \in LayerOf(links, o, k)
  BY <1>1, <1>3, <1>5 DEF LayerOf, ball
<1>6. LayerOf(links, o, k) \subseteq ball[k]
  BY <1>1 DEF LayerOf, ball
<1> QED
  BY <1>2, <1>4, <1>5, <1>6 DEF ball

(* The scores of one layer add up to the walks to the next: the artists b  *)
(* is linked from are in the last layer or no walk of k hops reaches them. *)
LEMMA ScoresAreWalks ==
  ASSUME NEW links \in [Artist -> SUBSET Artist], NEW o \in Artist, NEW k \in Nat,
         NEW b \in Artist \ BallsAround(links, o)[k],
         NEW score, \A a \in LayerOf(links, o, k) : score[a] = WalksFrom(links, o)[k][a]
  PROVE  SumFunctionOnSet(score, {a \in LayerOf(links, o, k) : b \in links[a]})
           = WalksFrom(links, o)[k+1][b]
<1> DEFINE walks == WalksFrom(links, o)
           from == {a \in Artist : b \in links[a]}
           last == {a \in LayerOf(links, o, k) : b \in links[a]}
<1>1. walks[k+1][b] = SumFunctionOnSet(walks[k], from)
  <2>1. \A j \in Nat, c \in Artist :
          walks[j+1][c] = SumFunctionOnSet(walks[j], {a \in Artist : c \in links[a]})
    BY WalksLaw, Zenon
  <2>2. b \in Artist
    OBVIOUS
  <2> QED
    BY <2>1, <2>2, Zenon
<1>2. walks \in [Nat -> [Artist -> Nat]]
  BY WalksLaw, Zenon
<1>3. \A a \in Artist : walks[k][a] \in Nat
  BY <1>2
<1>4. LayerOf(links, o, k) \subseteq Artist
  BY BallLaw DEF LayerOf
<1>5. last \in SUBSET from /\ IsFiniteSet(from) /\ IsFiniteSet(last)
  BY <1>4, NeighbourhoodAssumption, FS_Subset
<1>6. \A a \in from \ last : walks[k][a] = 0
  <2>1. \A a \in from \ last : a \notin BallsAround(links, o)[k]
    BY NextLayer
  <2> QED
    BY <2>1, NoWalkBeyond
<1>7. \A a \in last : score[a] = walks[k][a]
  OBVIOUS
<1>8. \A a \in from : walks[k][a] \in Nat
  BY <1>3
<1> HIDE DEF walks, from, last
<1>9. SumFunctionOnSet(walks[k], from) = SumFunctionOnSet(walks[k], last)
  BY <1>5, <1>6, <1>8, SumDrop
<1>10. SumFunctionOnSet(score, last) = SumFunctionOnSet(walks[k], last)
  BY <1>5, <1>7, SumSame
<1> QED
  BY <1>1, <1>9, <1>10 DEF walks, last

(* A set between two balls that takes the best connected of the layer      *)
(* between them is what ClosestFirst asks for.                             *)
LEMMA BetweenBalls ==
  ASSUME NEW links \in [Artist -> SUBSET Artist], NEW o \in Artist,
         NEW k \in 0..Cardinality(Artist), NEW N,
         BallsAround(links, o)[k] \subseteq N,
         N \subseteq BallsAround(links, o)[k+1],
         \A a \in N \ BallsAround(links, o)[k], b \in BallsAround(links, o)[k+1] \ N :
           WalksFrom(links, o)[k+1][a] >= WalksFrom(links, o)[k+1][b],
         NEW j \in 1..Cardinality(Artist),
         NEW a \in (BallsAround(links, o)[j] \ BallsAround(links, o)[j-1]) \cap N,
         NEW b \in (BallsAround(links, o)[j] \ BallsAround(links, o)[j-1]) \ N
  PROVE  WalksFrom(links, o)[j][a] >= WalksFrom(links, o)[j][b]
<1> USE NeighbourhoodAssumption
<1> DEFINE ball == BallsAround(links, o)
<1>1. Cardinality(Artist) \in Nat
  BY FS_CardinalityType
<1>2. j \in Nat /\ k \in Nat /\ j - 1 \in Nat /\ k + 1 \in Nat
  BY <1>1
<1>3. ~(j <= k)
  <2>1. j <= k => ball[j] \subseteq ball[k]
    BY <1>2, BallGrows
  <2> QED
    BY <2>1
<1>4. ~(k + 1 <= j - 1)
  <2>1. k + 1 <= j - 1 => ball[k+1] \subseteq ball[j-1]
    BY <1>2, BallGrows
  <2> QED
    BY <2>1
<1>5. j = k + 1 /\ j - 1 = k
  BY <1>2, <1>3, <1>4
<1> QED
  BY <1>5

-----------------------------------------------------------------------------
(* Being joined to a is being one of its neighbours of the genre asked for. *)
LEMMA JoinedIsGenreNeighbour ==
  ASSUME TypeOK, NEW a \in Artist, NEW b \in Artist
  PROVE  Joined(a, b) <=> b \in genre_neighbours(a, req.genre)
BY NeighbourhoodAssumption DEF Joined, genre_neighbours, TypeOK, Request, Database

(* Genre neighbours are artists. *)
LEMMA GenreNeighboursType ==
  ASSUME TypeOK, NEW a \in Artist, NEW g
  PROVE  genre_neighbours(a, g) \subseteq Artist
BY DEF genre_neighbours, TypeOK, Database

(* The next step scores exactly the artists joined to the frontier. *)
LEMMA NextStepDomain ==
  ASSUME TypeOK
  PROVE  /\ DOMAIN NextStep \subseteq Artist
         /\ \A b \in Artist : b \in DOMAIN NextStep <=>
              \E a \in DOMAIN currentstep : Joined(a, b)
<1>1. DOMAIN NextStep =
        UNION {genre_neighbours(n, req.genre) : n \in DOMAIN currentstep}
  BY DEF NextStep, step
<1>2. DOMAIN currentstep \subseteq Artist
  BY DEF TypeOK
<1>3. \A n \in DOMAIN currentstep : genre_neighbours(n, req.genre) \subseteq Artist
  BY <1>2, GenreNeighboursType
<1>4. DOMAIN NextStep \subseteq Artist
  BY <1>1, <1>3
<1>5. ASSUME NEW b \in Artist
      PROVE  b \in DOMAIN NextStep <=> \E a \in DOMAIN currentstep : Joined(a, b)
  <2>1. \A a \in DOMAIN currentstep :
          Joined(a, b) <=> b \in genre_neighbours(a, req.genre)
    BY <1>2, JoinedIsGenreNeighbour
  <2> QED
    BY <1>1, <2>1
<1> QED
  BY <1>4, <1>5

(* The request, the data set and hence the relation Joined never change. *)
LEMMA JoinedUnchanged ==
  ASSUME db' = db, req' = req, NEW a, NEW b
  PROVE  Joined(a, b)' <=> Joined(a, b)
BY DEF Joined

(* What one growing iteration adds: either all the candidates, and the     *)
(* size is not passed, or exactly as many as are missing.                  *)
LEMMA BestOfSize ==
  ASSUME NEW score, NEW C, IsFiniteSet(C), NEW n \in Nat,
         NEW S \in BestOf(score, C, n)
  PROVE  /\ S \subseteq C
         /\ IsFiniteSet(S)
         /\ Cardinality(S) \in Nat
         /\ Cardinality(S) <= n
         /\ S = C \/ Cardinality(S) = n
<1>1. S \subseteq C /\ Cardinality(S) = IF Cardinality(C) < n THEN Cardinality(C) ELSE n
  BY DEF BestOf
<1>2. IsFiniteSet(S) /\ Cardinality(C) \in Nat /\ Cardinality(S) \in Nat
  BY <1>1, FS_Subset, FS_CardinalityType
<1>3. Cardinality(C) < n => S = C
  BY <1>1, FS_Subset
<1> QED
  BY <1>1, <1>2, <1>3

-----------------------------------------------------------------------------
(* A request that has just arrived. *)
LEMMA InitInv == Init => IInv
<1> SUFFICES ASSUME Init PROVE IInv
  OBVIOUS
<1>1. DOMAIN currentstep = {}
  BY DEF Init
<1> QED
  BY <1>1, NeighbourhoodAssumption
     DEF Init, IInv, TypeOK, Frontier, NeverTooMany, Connected,
         ShortOnlyIfExhausted

(* The first artist chosen is the origin. *)
LEMMA StartAtInv ==
  ASSUME IInv, NEW a \in Artist, StartAt(a)
  PROVE  IInv'
<1>1. DOMAIN currentstep' = {a}
  BY DEF StartAt
<1>2. TypeOK'
  BY <1>1 DEF StartAt, IInv, TypeOK
<1>3. Cardinality(neighbourhood') = 1
  BY FS_Singleton DEF StartAt
<1>4. NeverTooMany'
  BY <1>2, <1>3 DEF StartAt, NeverTooMany, TypeOK, Request
<1>5. Connected'
  BY DEF StartAt, Connected
<1>6. Frontier'
  BY <1>1 DEF StartAt, Frontier
<1>7. ShortOnlyIfExhausted'
  BY DEF StartAt, ShortOnlyIfExhausted
<1> QED
  BY <1>2, <1>4, <1>5, <1>6, <1>7 DEF IInv

(* An iteration of the loop that adds artists next to the frontier. *)
LEMMA GrowInv ==
  ASSUME IInv, Grow
  PROVE  IInv'
<1> USE NeighbourhoodAssumption
<1>1. PICK to_add \in BestOf(NextStep, ToConsider, Wanted) :
        /\ to_add # {}
        /\ neighbourhood' = neighbourhood \cup to_add
        /\ visited' = visited \cup DOMAIN NextStep
        /\ currentstep' = [a \in to_add |-> NextStep[a]]
  BY DEF Grow
<1>2. /\ pc = "grow" /\ pc' = "grow"
      /\ db' = db /\ req' = req /\ pool' = pool /\ origin' = origin
  BY DEF Grow
<1>3. TypeOK
  BY DEF IInv
<1>4. DOMAIN NextStep \subseteq Artist
  BY <1>3, NextStepDomain
<1>5. /\ IsFiniteSet(neighbourhood)
      /\ Cardinality(neighbourhood) \in Nat
      /\ IsFiniteSet(ToConsider)
  BY <1>3, <1>4, FS_Subset, FS_CardinalityType DEF TypeOK, ToConsider
<1>6. req.size \in Int /\ Wanted \in Nat /\ Cardinality(neighbourhood) < req.size
  BY <1>3, <1>5 DEF Grow, Wanted, TypeOK, Request
<1>7. /\ to_add \subseteq ToConsider
      /\ IsFiniteSet(to_add)
      /\ Cardinality(to_add) \in Nat
      /\ Cardinality(to_add) <= Wanted
      /\ to_add = ToConsider \/ Cardinality(to_add) = Wanted
  BY <1>1, <1>5, <1>6, BestOfSize
<1>8. to_add \cap neighbourhood = {}
  BY <1>3, <1>7 DEF ToConsider, TypeOK
<1>9. Cardinality(neighbourhood') = Cardinality(neighbourhood) + Cardinality(to_add)
  <2>1. Cardinality({}) = 0
    BY FS_EmptySet
  <2>2. Cardinality(neighbourhood \cup to_add)
          = Cardinality(neighbourhood) + Cardinality(to_add)
              - Cardinality(neighbourhood \cap to_add)
    BY <1>5, <1>7, FS_Union
  <2>3. Cardinality(neighbourhood \cap to_add) = 0
    <3>1. neighbourhood \cap to_add = {}
      BY <1>8
    <3> QED
      BY <2>1, <3>1
  <2>4. Cardinality(neighbourhood) \in Nat /\ Cardinality(to_add) \in Nat
    BY <1>5, <1>7
  <2>5. Cardinality(neighbourhood \cup to_add)
          = Cardinality(neighbourhood) + Cardinality(to_add)
    BY <2>2, <2>3, <2>4
  <2> QED
    BY <1>1, <2>5
<1>10. DOMAIN currentstep' = to_add
  BY <1>1
<1>11. TypeOK'
  BY <1>1, <1>2, <1>3, <1>4, <1>7, <1>10 DEF TypeOK, ToConsider
<1>12. NeverTooMany'
  BY <1>2, <1>5, <1>6, <1>7, <1>9 DEF NeverTooMany, Wanted
<1>13. /\ origin \in neighbourhood
       /\ DOMAIN currentstep \subseteq neighbourhood
       /\ visited = neighbourhood
       /\ \A a \in neighbourhood \ DOMAIN currentstep, b \in Artist :
            Joined(a, b) => b \in neighbourhood
  BY <1>2, <1>5, <1>6 DEF IInv, Frontier, Full
<1>14. \A a, b : Joined(a, b)' <=> Joined(a, b)
  BY <1>2, JoinedUnchanged
<1>15. Frontier'
  <2>1. CASE Cardinality(to_add) = Wanted
    <3>1. Full'
      BY <1>2, <1>5, <1>6, <1>9, <2>1 DEF Full, Wanted
    <3> QED
      BY <1>1, <1>2, <1>10, <1>13, <3>1 DEF Frontier
  <2>2. CASE to_add = ToConsider
    <3>1. visited' = neighbourhood'
      BY <1>1, <1>13, <2>2 DEF ToConsider
    <3>2. ASSUME NEW a \in neighbourhood' \ DOMAIN currentstep', NEW b \in Artist,
                 Joined(a, b)
          PROVE  b \in neighbourhood'
      <4>1. a \in neighbourhood
        BY <1>1, <1>10, <3>2
      <4>2. CASE a \in DOMAIN currentstep
        BY <1>1, <1>3, <3>1, <3>2, <4>2, NextStepDomain
      <4>3. CASE a \notin DOMAIN currentstep
        BY <1>1, <1>13, <3>2, <4>1, <4>3
      <4> QED
        BY <4>2, <4>3
    <3> QED
      BY <1>1, <1>2, <1>10, <1>13, <1>14, <3>1, <3>2 DEF Frontier
  <2> QED
    BY <1>7, <2>1, <2>2
<1>16. Connected'
  <2> SUFFICES ASSUME NEW S \in SUBSET neighbourhood', origin \in S,
                      \A a \in S, b \in neighbourhood' : Joined(a, b) => b \in S
               PROVE  S = neighbourhood'
    BY <1>2, <1>14 DEF Connected
  <2>1. S \cap neighbourhood = neighbourhood
    <3>1. \A a \in S \cap neighbourhood, b \in neighbourhood :
            Joined(a, b) => b \in S \cap neighbourhood
      BY <1>1
    <3>2. Connected /\ S \cap neighbourhood \in SUBSET neighbourhood
      BY DEF IInv
    <3> QED
      BY <1>2, <1>13, <3>1, <3>2 DEF Connected
  <2>2. ASSUME NEW b \in to_add PROVE b \in S
    <3>1. b \in Artist /\ b \in DOMAIN NextStep
      BY <1>4, <1>7 DEF ToConsider
    <3>2. PICK a \in DOMAIN currentstep : Joined(a, b)
      BY <1>3, <3>1, NextStepDomain
    <3>3. a \in S
      BY <1>13, <2>1
    <3> QED
      BY <1>1, <3>2, <3>3
  <2> QED
    BY <1>1, <2>1, <2>2
<1>17. ShortOnlyIfExhausted'
  BY <1>2 DEF ShortOnlyIfExhausted
<1> QED
  BY <1>11, <1>12, <1>15, <1>16, <1>17 DEF IInv

(* The iteration that finds nobody and breaks: the frontier, and with it   *)
(* all that was chosen, has no neighbour that was not met.                 *)
LEMMA ExhaustedInv ==
  ASSUME IInv, Exhausted
  PROVE  IInv'
<1> USE NeighbourhoodAssumption
<1>1. /\ pc = "grow" /\ pc' = "done"
      /\ db' = db /\ req' = req /\ pool' = pool /\ origin' = origin
      /\ neighbourhood' = neighbourhood /\ visited' = visited
      /\ currentstep' = NextStep
      /\ DOMAIN NextStep \subseteq visited
  BY DEF Exhausted, ToConsider
<1>2. TypeOK /\ req.size \in Int
  BY DEF IInv, TypeOK, Request
<1>3. TypeOK'
  BY <1>1, <1>2, NextStepDomain DEF TypeOK
<1>4. NeverTooMany'
  BY <1>1 DEF IInv, NeverTooMany
<1>5. \A a, b : Joined(a, b)' <=> Joined(a, b)
  BY <1>1, JoinedUnchanged
<1>6. Connected'
  BY <1>1, <1>5 DEF IInv, Connected
<1>7. ShortOnlyIfExhausted'
  <2>1. Cardinality(neighbourhood) \in Nat
    BY <1>2, FS_Subset, FS_CardinalityType DEF TypeOK
  <2>2. /\ visited = neighbourhood
        /\ \A a \in neighbourhood \ DOMAIN currentstep, b \in Artist :
             Joined(a, b) => b \in neighbourhood
    BY <1>1, <1>2, <2>1 DEF Exhausted, Wanted, IInv, Frontier, Full
  <2>3. ASSUME NEW a \in neighbourhood, NEW b \in Artist, Joined(a, b)
        PROVE  b \in neighbourhood
    BY <1>1, <1>2, <2>2, <2>3, NextStepDomain
  <2> QED
    BY <1>1, <1>5, <2>3 DEF ShortOnlyIfExhausted
<1>8. Frontier'
  BY <1>1 DEF Frontier
<1> QED
  BY <1>3, <1>4, <1>6, <1>7, <1>8 DEF IInv

(* The loop condition fails: there are as many artists as asked for. *)
LEMMA EnoughInv ==
  ASSUME IInv, Enough
  PROVE  IInv'
<1>1. /\ pc = "grow" /\ pc' = "done"
      /\ db' = db /\ req' = req /\ pool' = pool /\ origin' = origin
      /\ neighbourhood' = neighbourhood /\ visited' = visited
      /\ currentstep' = currentstep
  BY DEF Enough
<1>2. TypeOK' /\ NeverTooMany' /\ Frontier'
  BY <1>1 DEF IInv, TypeOK, NeverTooMany, Frontier
<1>3. \A a, b : Joined(a, b)' <=> Joined(a, b)
  BY <1>1, JoinedUnchanged
<1>4. Connected'
  BY <1>1, <1>3 DEF IInv, Connected
<1>5. ShortOnlyIfExhausted'
  <2>1. Cardinality(neighbourhood) \in Nat /\ req.size \in Int
    BY NeighbourhoodAssumption, FS_Subset, FS_CardinalityType
       DEF IInv, TypeOK, Request
  <2> QED
    BY <1>1, <2>1 DEF Enough, Wanted, ShortOnlyIfExhausted
<1> QED
  BY <1>2, <1>4, <1>5 DEF IInv

-----------------------------------------------------------------------------
(* Every step of the handler keeps the invariant. *)
LEMMA NextInv ==
  ASSUME IInv, [Next]_vars
  PROVE  IInv'
<1> USE NeighbourhoodAssumption
<1>1. CASE OriginGiven
  <2>1. req.origin \in Artist
    BY <1>1 DEF OriginGiven, IInv, TypeOK, Request
  <2> QED
    BY <1>1, <2>1, StartAtInv DEF OriginGiven
<1>2. CASE OriginDrawn
  <2>1. PICK g \in IF req.genre = Null THEN Genre ELSE {req.genre} : pool' = db.top[g]
    BY <1>2 DEF OriginDrawn
  <2>2. pool' \subseteq Artist
    BY <2>1 DEF IInv, TypeOK, Request, Database
  <2> QED
    BY <1>2, <2>2
       DEF OriginDrawn, IInv, TypeOK, Frontier, NeverTooMany, Connected,
           ShortOnlyIfExhausted
<1>3. CASE NothingToDraw
  BY <1>3 DEF NothingToDraw, IInv, TypeOK, Frontier, NeverTooMany, Connected,
              ShortOnlyIfExhausted
<1>4. CASE Draw
  <2>1. PICK a \in pool : StartAt(a)
    BY <1>4 DEF Draw
  <2>2. a \in Artist
    BY DEF IInv, TypeOK
  <2> QED
    BY <2>1, <2>2, StartAtInv
<1>5. CASE Grow
  BY <1>5, GrowInv
<1>6. CASE Exhausted
  BY <1>6, ExhaustedInv
<1>7. CASE Enough
  BY <1>7, EnoughInv
<1>8. CASE UNCHANGED vars
  BY <1>8 DEF vars, IInv, TypeOK, Frontier, Full, NeverTooMany, Connected,
              ShortOnlyIfExhausted, Joined
<1> QED
  BY <1>1, <1>2, <1>3, <1>4, <1>5, <1>6, <1>7, <1>8 DEF Next, Redraw, Answered

(* The invariant holds at all times. *)
LEMMA InvAlways == Spec => []IInv
BY InitInv, NextInv, PTL DEF Spec

-----------------------------------------------------------------------------
(***************************************************************************)
(* Who is chosen first.  Until the neighbourhood is full it is a whole     *)
(* ball around the origin, the frontier is its last layer, and the score   *)
(* of an artist of the frontier is the number of shortest paths to it.     *)
(***************************************************************************)
Layered ==
  pc = "grow" =>
    \/ Full
    \/ \E k \in Nat :
         /\ k < Cardinality(neighbourhood)
         /\ neighbourhood = Ball[k]
         /\ DOMAIN currentstep = LayerOf(Links, origin, k)
         /\ \A a \in DOMAIN currentstep : currentstep[a] = Walks[k][a]

LInv == Layered /\ ClosestFirst

(* The graph of the query is a graph on the artists. *)
LEMMA LinksType == Links \in [Artist -> SUBSET Artist]
BY DEF Links

(* It does not change, and neither do balls and walks around the origin. *)
LEMMA LinksUnchanged ==
  ASSUME db' = db, req' = req, origin' = origin
  PROVE  Links' = Links /\ Ball' = Ball /\ Walks' = Walks
<1>1. \A a, b : Joined(a, b)' <=> Joined(a, b)
  BY JoinedUnchanged
<1>2. Links' = Links
  BY <1>1 DEF Links
<1> QED
  BY <1>2 DEF Ball, Walks

(* ClosestFirst after a step that leaves the neighbourhood between two     *)
(* balls with the best connected of the layer between them.                *)
LEMMA ClosestNext ==
  ASSUME origin' \in Artist, NEW k \in 0..Cardinality(Artist),
         Ball'[k] \subseteq neighbourhood', neighbourhood' \subseteq Ball'[k+1],
         \A a \in neighbourhood' \ Ball'[k], b \in Ball'[k+1] \ neighbourhood' :
           Walks'[k+1][a] >= Walks'[k+1][b]
  PROVE  ClosestFirst'
<1>1. Links' \in [Artist -> SUBSET Artist]
  BY DEF Links
<1>2. NearestFirst'
  BY DEF NearestFirst
<1>3. BestConnectedFirst'
  <2> SUFFICES ASSUME NEW j \in 1..Cardinality(Artist),
                      NEW a \in Sphere(j)' \cap neighbourhood',
                      NEW b \in Sphere(j)' \ neighbourhood'
               PROVE  Walks'[j][a] >= Walks'[j][b]
    BY DEF BestConnectedFirst
  <2> QED
    BY <1>1, BetweenBalls DEF Ball, Walks, Sphere
<1> QED
  BY <1>2, <1>3 DEF ClosestFirst

(* The origin alone is the ball of no hops, and its own first layer. *)
LEMMA StartAtLayers ==
  ASSUME NEW a \in Artist, StartAt(a)
  PROVE  LInv'
<1>1. origin' = a /\ neighbourhood' = {a} /\ currentstep' = [n \in {a} |-> 1]
  BY DEF StartAt
<1>2. Links' \in [Artist -> SUBSET Artist]
  BY DEF Links
<1>3. Ball'[0] = {a} /\ {a} \subseteq Ball'[0+1]
  <2>1. Ball' = BallsAround(Links', a)
    BY <1>1 DEF Ball
  <2>2. Ball'[0] = {a} /\ \A k \in Nat : Ball'[k] \subseteq Ball'[k+1]
    BY <1>2, <2>1, BallLaw
  <2> QED
    BY <2>2
<1>4. Walks'[0] = [b \in Artist |-> IF b = a THEN 1 ELSE 0]
  BY <1>1, <1>2, WalksLaw DEF Walks
<1>5. Cardinality({a}) = 1 /\ Cardinality(Artist) \in Nat
  BY FS_Singleton, FS_CardinalityType, NeighbourhoodAssumption
<1>6. Layered'
  <2>1. DOMAIN currentstep' = LayerOf(Links, origin, 0)'
    BY <1>1 DEF LayerOf
  <2>2. \A b \in DOMAIN currentstep' : currentstep'[b] = Walks'[0][b]
    BY <1>1, <1>4
  <2> QED
    BY <1>1, <1>3, <1>5, <2>1, <2>2 DEF Layered
<1>7. ClosestFirst'
  <2>1. 0 \in 0..Cardinality(Artist)
    BY <1>5
  <2> QED
    BY <1>1, <1>3, <2>1, ClosestNext
<1> QED
  BY <1>6, <1>7 DEF LInv

(* An iteration takes the next layer, or the best connected of it. *)
LEMMA GrowLayers ==
  ASSUME IInv, LInv, Grow
  PROVE  LInv'
<1> USE NeighbourhoodAssumption
<1>1. PICK to_add \in BestOf(NextStep, ToConsider, Wanted) :
        /\ to_add # {}
        /\ neighbourhood' = neighbourhood \cup to_add
        /\ visited' = visited \cup DOMAIN NextStep
        /\ currentstep' = [a \in to_add |-> NextStep[a]]
  BY DEF Grow
<1>2. /\ pc = "grow" /\ pc' = "grow"
      /\ db' = db /\ req' = req /\ pool' = pool /\ origin' = origin
  BY DEF Grow
<1>3. TypeOK /\ IInv'
  BY GrowInv DEF IInv
<1>4. Links' = Links /\ Ball' = Ball /\ Walks' = Walks
  BY <1>2, LinksUnchanged
<1>5. /\ IsFiniteSet(neighbourhood) /\ IsFiniteSet(neighbourhood')
      /\ Cardinality(neighbourhood) \in Nat /\ Cardinality(neighbourhood') \in Nat
      /\ Cardinality(Artist) \in Nat
      /\ Cardinality(neighbourhood) <= Cardinality(Artist)
  BY <1>3, FS_Subset, FS_CardinalityType DEF IInv, TypeOK
<1>6. ~Full /\ Wanted \in Nat
  BY <1>3, <1>5 DEF Grow, Wanted, Full, TypeOK, Request
<1>7. /\ visited = neighbourhood
      /\ origin \in Artist
  BY <1>2, <1>3, <1>6 DEF IInv, Frontier, TypeOK
<1>8. PICK k \in Nat :
        /\ k < Cardinality(neighbourhood)
        /\ neighbourhood = Ball[k]
        /\ DOMAIN currentstep = LayerOf(Links, origin, k)
        /\ \A a \in DOMAIN currentstep : currentstep[a] = Walks[k][a]
  BY <1>2, <1>6 DEF LInv, Layered
<1>9. \A a \in Artist, b \in Artist : Joined(a, b) <=> b \in Links[a]
  BY DEF Links
<1>10. Ball[k] \in SUBSET Artist /\ Ball[k+1] \in SUBSET Artist /\ Ball[k] \subseteq Ball[k+1]
  BY <1>7, LinksType, BallLaw DEF Ball
<1>11. ToConsider = Ball[k+1] \ Ball[k]
  <2>1. ASSUME NEW b \in Artist \ Ball[k]
        PROVE  b \in DOMAIN NextStep <=> b \in Ball[k+1]
    <3>1. b \in DOMAIN NextStep <=> \E a \in DOMAIN currentstep : Joined(a, b)
      BY <1>3, NextStepDomain
    <3>2. b \in Ball[k+1] <=> \E a \in LayerOf(Links, origin, k) : b \in Links[a]
      BY <1>7, LinksType, NextLayer DEF Ball
    <3>3. DOMAIN currentstep \subseteq Artist
      BY <1>3 DEF TypeOK
    <3> QED
      BY <1>8, <1>9, <3>1, <3>2, <3>3
  <2>2. DOMAIN NextStep \subseteq Artist
    BY <1>3, NextStepDomain
  <2> QED
    BY <1>7, <1>8, <1>10, <2>1, <2>2 DEF ToConsider
<1>12. ASSUME NEW b \in ToConsider PROVE NextStep[b] = Walks[k+1][b]
  <2>1. b \in DOMAIN NextStep /\ b \in Artist \ Ball[k]
    BY <1>10, <1>11 DEF ToConsider
  <2>2. NextStep[b] =
          SumFunctionOnSet(currentstep,
            {n \in DOMAIN currentstep : b \in genre_neighbours(n, req.genre)})
    BY <2>1 DEF NextStep, step
  <2>3. {n \in DOMAIN currentstep : b \in genre_neighbours(n, req.genre)}
          = {n \in LayerOf(Links, origin, k) : b \in Links[n]}
    <3>1. DOMAIN currentstep \subseteq Artist
      BY <1>3 DEF TypeOK
    <3>2. \A n \in DOMAIN currentstep :
            b \in genre_neighbours(n, req.genre) <=> b \in Links[n]
      BY <1>3, <1>9, <2>1, <3>1, JoinedIsGenreNeighbour
    <3> QED
      BY <1>8, <3>2
  <2>4. SumFunctionOnSet(currentstep, {n \in LayerOf(Links, origin, k) : b \in Links[n]})
          = Walks[k+1][b]
    BY <1>7, <1>8, <2>1, LinksType, ScoresAreWalks DEF Ball, Walks
  <2> QED
    BY <2>2, <2>3, <2>4
<1>13. /\ to_add \subseteq ToConsider
       /\ to_add = ToConsider \/ Cardinality(to_add) = Wanted
       /\ \A a \in to_add, b \in ToConsider \ to_add : NextStep[a] >= NextStep[b]
  <2>1. IsFiniteSet(ToConsider)
    BY <1>10, <1>11, FS_Subset
  <2> QED
    BY <1>1, <1>6, <2>1, BestOfSize DEF BestOf
<1>14. Cardinality(neighbourhood) < Cardinality(neighbourhood')
  <2>1. neighbourhood \subseteq neighbourhood' /\ neighbourhood # neighbourhood'
    BY <1>1, <1>8, <1>11, <1>13
  <2> QED
    BY <1>5, <2>1, FS_Subset
<1>15. ClosestFirst'
  <2>1. Ball[k] \subseteq neighbourhood' /\ neighbourhood' \subseteq Ball[k+1]
    BY <1>1, <1>8, <1>10, <1>11, <1>13
  <2>2. ASSUME NEW a \in neighbourhood' \ Ball[k], NEW b \in Ball[k+1] \ neighbourhood'
        PROVE  Walks[k+1][a] >= Walks[k+1][b]
    <3>1. a \in to_add /\ b \in ToConsider \ to_add
      BY <1>1, <1>8, <1>11
    <3>2. NextStep[a] >= NextStep[b]
      BY <1>13, <3>1
    <3>3. NextStep[a] = Walks[k+1][a] /\ NextStep[b] = Walks[k+1][b]
      BY <1>12, <1>13, <3>1
    <3> QED
      BY <3>2, <3>3
  <2>3. k \in 0..Cardinality(Artist)
    BY <1>5, <1>8
  <2> QED
    BY <1>2, <1>4, <1>7, <2>1, <2>2, <2>3, ClosestNext
<1>16. Layered'
  <2>1. CASE Cardinality(to_add) = Wanted
    <3>1. Full'
      <4>1. Cardinality(neighbourhood') = Cardinality(neighbourhood) + Cardinality(to_add)
        <5>1. to_add \cap neighbourhood = {} /\ to_add \subseteq Artist
          BY <1>8, <1>10, <1>11, <1>13
        <5>2. IsFiniteSet(to_add)
          BY <5>1, FS_Subset
        <5>3. Cardinality({}) = 0 /\ Cardinality(to_add) \in Nat
          BY <5>2, FS_EmptySet, FS_CardinalityType
        <5>4. Cardinality(neighbourhood \cup to_add) =
                Cardinality(neighbourhood) + Cardinality(to_add)
                  - Cardinality(neighbourhood \cap to_add)
          BY <1>5, <5>2, FS_Union
        <5>5. Cardinality(neighbourhood \cap to_add) = 0
          <6>1. neighbourhood \cap to_add = {}
            BY <5>1
          <6> QED
            BY <5>3, <6>1
        <5>6. neighbourhood' = neighbourhood \cup to_add
          BY <1>1
        <5>7. Cardinality(neighbourhood \cup to_add) =
                Cardinality(neighbourhood) + Cardinality(to_add)
          BY <1>5, <5>3, <5>4, <5>5
        <5> QED
          BY <5>6, <5>7, Zenon
      <4>2. req.size \in Int
        BY <1>3 DEF TypeOK, Request
      <4> QED
        BY <1>2, <1>5, <2>1, <4>1, <4>2 DEF Full, Wanted
    <3> QED
      BY <3>1 DEF Layered
  <2>2. CASE to_add = ToConsider
    <3>1. neighbourhood' = Ball[k+1]
      BY <1>1, <1>8, <1>10, <1>11, <2>2
    <3>2. k + 1 \in Nat /\ k + 1 < Cardinality(neighbourhood')
      BY <1>5, <1>8, <1>14
    <3>3. DOMAIN currentstep' = LayerOf(Links, origin, k+1)
      <4>1. (k + 1) - 1 = k /\ k + 1 # 0
        OBVIOUS
      <4>2. LayerOf(Links, origin, k+1) = Ball[k+1] \ Ball[k]
        BY <4>1 DEF LayerOf, Ball
      <4> QED
        BY <1>1, <1>11, <2>2, <4>2
    <3>4. \A a \in DOMAIN currentstep' : currentstep'[a] = Walks[k+1][a]
      BY <1>1, <1>12, <2>2
    <3> QED
      BY <1>2, <1>4, <3>1, <3>2, <3>3, <3>4 DEF Layered
  <2> QED
    BY <1>13, <2>1, <2>2
<1> QED
  BY <1>15, <1>16 DEF LInv

(* Every step of the handler keeps the layers. *)
LEMMA NextLayers ==
  ASSUME IInv, LInv, [Next]_vars
  PROVE  LInv'
<1>1. CASE OriginGiven
  <2>1. req.origin \in Artist
    BY <1>1 DEF OriginGiven, IInv, TypeOK, Request
  <2> QED
    BY <1>1, <2>1, StartAtLayers DEF OriginGiven
<1>2. CASE OriginDrawn \/ NothingToDraw
  BY <1>2 DEF OriginDrawn, NothingToDraw, LInv, Layered, ClosestFirst,
              NearestFirst, BestConnectedFirst
<1>3. CASE Draw
  <2>1. PICK a \in pool : StartAt(a)
    BY <1>3 DEF Draw
  <2>2. a \in Artist
    BY DEF IInv, TypeOK
  <2> QED
    BY <2>1, <2>2, StartAtLayers
<1>4. CASE Grow
  BY <1>4, GrowLayers
<1>5. CASE Exhausted \/ Enough
  <2>1. /\ pc = "grow" /\ pc' = "done" /\ db' = db /\ req' = req /\ origin' = origin
        /\ neighbourhood' = neighbourhood
    BY <1>5 DEF Exhausted, Enough
  <2>2. Ball' = Ball /\ Walks' = Walks
    BY <2>1, LinksUnchanged
  <2> QED
    BY <2>1, <2>2 DEF LInv, Layered, ClosestFirst, NearestFirst,
                      BestConnectedFirst, Sphere
<1>6. CASE UNCHANGED vars
  <2>1. /\ pc' = pc /\ db' = db /\ req' = req /\ origin' = origin
        /\ neighbourhood' = neighbourhood /\ currentstep' = currentstep
    BY <1>6 DEF vars
  <2>2. Ball' = Ball /\ Walks' = Walks /\ Links' = Links
    BY <2>1, LinksUnchanged
  <2> QED
    BY <2>1, <2>2 DEF LInv, Layered, Full, ClosestFirst, NearestFirst,
                      BestConnectedFirst, Sphere
<1> QED
  BY <1>1, <1>2, <1>3, <1>4, <1>5, <1>6 DEF Next, Redraw, Answered

(* The artists nearest to the origin are chosen first, and among those     *)
(* equally near the ones with the most shortest paths from it, for every   *)
(* graph, genre and size (the loop of neighbourhood() and step()).         *)
THEOREM NearestAndBestFirst == Spec => []ClosestFirst
<1>1. Init => LInv
  BY DEF Init, LInv, Layered, ClosestFirst, NearestFirst, BestConnectedFirst
<1>2. IInv /\ LInv /\ [Next]_vars => LInv'
  BY NextLayers
<1>3. LInv => ClosestFirst
  BY DEF LInv
<1> QED
  BY InvAlways, <1>1, <1>2, <1>3, PTL DEF Spec

(* The handler keeps its variables in their types whatever it is asked. *)
THEOREM TypeCorrect == Spec => []TypeOK
<1>1. IInv => TypeOK
  BY DEF IInv
<1> QED
  BY InvAlways, <1>1, PTL

(* No answer of /neighbourhood is larger than the size asked for, apart    *)
(* from the origin itself.                                                 *)
THEOREM SizeIsKept == Spec => []NeverTooMany
<1>1. IInv => NeverTooMany
  BY DEF IInv
<1> QED
  BY InvAlways, <1>1, PTL

(* Every artist of an answer is reached from the origin inside the answer. *)
THEOREM AnswerIsConnected == Spec => []Connected
<1>1. IInv => Connected
  BY DEF IInv
<1> QED
  BY InvAlways, <1>1, PTL

(* An answer that is too small is a whole component of the artist graph. *)
THEOREM ShortAnswerIsAll == Spec => []ShortOnlyIfExhausted
<1>1. IInv => ShortOnlyIfExhausted
  BY DEF IInv
<1> QED
  BY InvAlways, <1>1, PTL

(* Every answer of /neighbourhood is good, for every data set, request and *)
(* set of artists: the four results above together.                        *)
THEOREM NeighbourhoodIsGood == Spec => []GoodNeighbourhood
<1>1. TypeOK /\ NeverTooMany /\ Connected /\ ShortOnlyIfExhausted => GoodNeighbourhood
  BY DEF GoodNeighbourhood
<1> QED
  BY TypeCorrect, SizeIsKept, AnswerIsConnected, ShortAnswerIsAll, <1>1, PTL
=============================================================================
