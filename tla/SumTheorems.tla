------------------------------ MODULE SumTheorems ------------------------------
(***************************************************************************)
(* Lemmas about SumFunctionOnSet, the sum of the values a function takes   *)
(* on a finite set.  The modules state what balances, exposures, profits   *)
(* and stakes add up to with it.                                           *)
(*                                                                         *)
(* The library's induction theorems take a predicate as a parameter.  Here *)
(* induction is over finite sets by a least counterexample: strict         *)
(* inclusion is well founded on the finite subsets of a set, so a set of   *)
(* such subsets that is not empty has an element with none below it.  The  *)
(* same argument on 0..n gives induction over the numbers, for sets.       *)
(***************************************************************************)
EXTENDS Integers, Functions, FiniteSetTheorems, WellFoundedInduction, TLAPS

\* The element a fold over s takes first.
Chosen(s) == CHOOSE x \in s : TRUE

\* g is the fold of f over each subset of S.
IsFold(g, f, S) ==
  g = [s \in SUBSET S |-> IF s = {} THEN 0 ELSE f[Chosen(s)] + g[s \ {Chosen(s)}]]

TheFold(f, S) == CHOOSE g : IsFold(g, f, S)

-----------------------------------------------------------------------------
\* What the induction and the definition of the sum come to.

\* A set of subsets of a finite set has a least element unless it is empty.
LEMMA LeastSubset ==
  ASSUME NEW S, IsFiniteSet(S), NEW T \in SUBSET SUBSET S, T # {}
  PROVE  \E t \in T : \A u \in T : u \subseteq t => u = t
<1>1. T \subseteq FiniteSubsetsOf(S)
  BY FS_Subset DEF FiniteSubsetsOf
<1>2. PICK t \in T : \A u \in T : <<u, t>> \notin StrictSubsetOrdering(S)
  BY <1>1, FS_StrictSubsetOrderingWellFounded, WFMin
<1> QED BY <1>2 DEF StrictSubsetOrdering

\* Any set of numbers has a least one.
LEMMA LeastNat ==
  ASSUME NEW T \in SUBSET Nat, T # {}
  PROVE  \E t \in T : \A u \in T : t <= u
<1>1. PICK n \in Nat : n \in T
  OBVIOUS
<1> DEFINE Upto == {0..m : m \in T \cap 0..n}
           S == 0..n
<1>2. Upto \in SUBSET SUBSET S /\ Upto # {}
  BY <1>1
<1>3. IsFiniteSet(S)
  <2>1. 0 \in Int /\ n \in Int
    OBVIOUS
  <2> QED BY ONLY <2>1, FS_Interval
<1>4. PICK t \in Upto : \A u \in Upto : u \subseteq t => u = t
  <2> HIDE DEF Upto, S
  <2> QED BY <1>2, <1>3, LeastSubset
<1>5. PICK m \in T \cap 0..n : t = 0..m
  BY <1>4
<1>6. ASSUME NEW u \in T, u < m
      PROVE  FALSE
  <2>1. 0..u \in Upto /\ 0..u \subseteq 0..m
    BY <1>1, <1>5, <1>6
  <2>2. 0..u = 0..m
    BY <1>4, <1>5, <2>1
  <2>3. m \in 0..m /\ m \notin 0..u
    BY <1>1, <1>5, <1>6
  <2> QED BY <2>2, <2>3
<1>7. m \in Nat /\ m \in T /\ \A u \in T : u \in Nat /\ ~(u < m)
  BY <1>1, <1>5, <1>6
<1> QED BY <1>7

\* Induction, for the members of a set where the library has it for an operator.
LEMMA SetInduction ==
  ASSUME NEW T, 0 \in T, \A n \in Nat : n \in T => n + 1 \in T
  PROVE  Nat \subseteq T
<1> SUFFICES ASSUME Nat \ T # {} PROVE FALSE
  OBVIOUS
<1>1. PICK t \in Nat \ T : \A u \in Nat \ T : t <= u
  BY LeastNat
<1>2. t # 0 /\ t - 1 \in Nat /\ (t - 1) + 1 = t
  BY <1>1
<1>3. t - 1 \in T
  BY <1>1, <1>2
<1> QED BY <1>1, <1>2, <1>3

\* The sum is the value of a fold, whichever fold CHOOSE takes.
LEMMA SumIsFold ==
  ASSUME NEW f, NEW S
  PROVE  SumFunctionOnSet(f, S) = TheFold(f, S)[S]
BY DEF SumFunctionOnSet, FoldFunctionOnSet, MapThenFoldSet, TheFold, IsFold, Chosen

\* There is a first element to take while there are elements.
LEMMA ChosenIsElement ==
  ASSUME NEW s, s # {}
  PROVE  Chosen(s) \in s
BY DEF Chosen

\* Two folds of f agree where both are defined.
LEMMA FoldsAgree ==
  ASSUME NEW f, NEW S, IsFiniteSet(S), NEW T \in SUBSET S,
         NEW g, IsFold(g, f, S), NEW h, IsFold(h, f, T)
  PROVE  \A s \in SUBSET T : g[s] = h[s]
<1> DEFINE Bad == {s \in SUBSET T : g[s] # h[s]}
<1>1. SUFFICES ASSUME Bad # {} PROVE FALSE
  OBVIOUS
<1>2. IsFiniteSet(T) /\ Bad \in SUBSET SUBSET T
  BY FS_Subset
<1>3. PICK s \in Bad : \A u \in Bad : u \subseteq s => u = s
  <2> HIDE DEF Bad
  <2> QED BY <1>1, <1>2, LeastSubset
<1>4. CASE s = {}
  BY <1>3, <1>4 DEF IsFold
<1>5. CASE s # {}
  <2>1. Chosen(s) \in s
    BY <1>5, ChosenIsElement
  <2>2. g[s \ {Chosen(s)}] = h[s \ {Chosen(s)}]
    BY <1>3, <2>1
  <2>3. g[s] = f[Chosen(s)] + g[s \ {Chosen(s)}]
    BY <1>5 DEF IsFold
  <2>4. h[s] = f[Chosen(s)] + h[s \ {Chosen(s)}]
    BY <1>5 DEF IsFold
  <2> QED BY <1>3, <2>2, <2>3, <2>4
<1> QED BY <1>4, <1>5

\* A finite set has a fold.
LEMMA FoldExists ==
  ASSUME NEW f, NEW S, IsFiniteSet(S)
  PROVE  \E g : IsFold(g, f, S)
<1> DEFINE Bad == {t \in SUBSET S : ~\E g : IsFold(g, f, t)}
<1>1. SUFFICES ASSUME Bad # {} PROVE FALSE
  OBVIOUS
<1>2. PICK t \in Bad : \A u \in Bad : u \subseteq t => u = t
  <2>1. Bad \in SUBSET SUBSET S
    OBVIOUS
  <2> HIDE DEF Bad
  <2> QED BY <1>1, <2>1, LeastSubset
<1> DEFINE fold(u) == TheFold(f, u)
           value(u) == fold(u)[u]
           h == [s \in SUBSET t |-> IF s = {} THEN 0
                                    ELSE f[Chosen(s)] + value(s \ {Chosen(s)})]
<1>3. \A u \in SUBSET t : u # t => IsFold(fold(u), f, u)
  BY <1>2 DEF TheFold
<1>4. ASSUME NEW u \in SUBSET t, u # t
      PROVE  h[u] = value(u)
  <2>1. IsFold(fold(u), f, u)
    BY <1>3, <1>4
  <2>2. CASE u = {}
    BY <2>1, <2>2 DEF IsFold
  <2>3. CASE u # {}
    <3> DEFINE w == u \ {Chosen(u)}
    <3>1. w \in SUBSET u /\ w \in SUBSET t /\ w # t
      BY <2>3, <1>4
    <3>2. IsFold(fold(w), f, w)
      BY <1>3, <3>1
    <3>3. IsFiniteSet(u)
      BY FS_Subset
    <3>4. fold(u)[w] = fold(w)[w]
      BY <2>1, <3>1, <3>2, <3>3, FoldsAgree
    <3>5. fold(u)[u] = f[Chosen(u)] + fold(u)[w]
      BY <2>1, <2>3 DEF IsFold
    <3> QED BY <2>3, <3>4, <3>5
  <2> QED BY <2>2, <2>3
<1>5. ASSUME NEW s \in SUBSET t, s # {}
      PROVE  h[s \ {Chosen(s)}] = value(s \ {Chosen(s)})
  <2>1. Chosen(s) \in s
    BY <1>5, ChosenIsElement
  <2> HIDE DEF h, value
  <2> QED BY <1>4, <2>1
<1>6. IsFold(h, f, t)
  <2> HIDE DEF value
  <2> QED BY <1>5 DEF IsFold
<1> QED BY <1>2, <1>6

\* The sum over a set is that of its first element and of the rest.
LEMMA SumOfChosen ==
  ASSUME NEW f, NEW S, IsFiniteSet(S), S # {}
  PROVE  SumFunctionOnSet(f, S)
           = f[Chosen(S)] + SumFunctionOnSet(f, S \ {Chosen(S)})
<1> DEFINE fold(u) == TheFold(f, u)
           w == S \ {Chosen(S)}
<1>1. IsFiniteSet(w)
  BY FS_Subset
<1>2. IsFold(fold(S), f, S) /\ IsFold(fold(w), f, w)
  BY <1>1, FoldExists DEF TheFold
<1>3. SumFunctionOnSet(f, S) = fold(S)[S] /\ SumFunctionOnSet(f, w) = fold(w)[w]
  BY SumIsFold
<1>4. fold(S)[w] = fold(w)[w]
  <2> HIDE DEF fold, w
  <2>1. w \in SUBSET S
    BY DEF w
  <2> QED BY <1>2, <2>1, FoldsAgree
<1>5. fold(S)[S] = f[Chosen(S)] + fold(S)[w]
  BY <1>2 DEF IsFold
<1> QED BY <1>3, <1>4, <1>5

-----------------------------------------------------------------------------
\* Sums of integers.

\* Nothing adds up to zero.
LEMMA SumEmpty ==
  ASSUME NEW f
  PROVE  SumFunctionOnSet(f, {}) = 0
<1>1. IsFiniteSet({})
  BY FS_EmptySet
<1>2. IsFold(TheFold(f, {}), f, {})
  BY <1>1, FoldExists DEF TheFold
<1> QED BY <1>2, SumIsFold DEF IsFold

\* The sum depends on the values on the set only.
LEMMA SumSame ==
  ASSUME NEW S, IsFiniteSet(S), NEW f, NEW g, \A x \in S : f[x] = g[x]
  PROVE  SumFunctionOnSet(f, S) = SumFunctionOnSet(g, S)
<1> DEFINE Bad == {t \in SUBSET S : SumFunctionOnSet(f, t) # SumFunctionOnSet(g, t)}
<1>1. SUFFICES ASSUME Bad # {} PROVE FALSE
  OBVIOUS
<1>2. PICK t \in Bad : \A u \in Bad : u \subseteq t => u = t
  <2>1. Bad \in SUBSET SUBSET S
    OBVIOUS
  <2> HIDE DEF Bad
  <2> QED BY <1>1, <2>1, LeastSubset
<1>3. t # {}
  <2>1. SumFunctionOnSet(f, t) # SumFunctionOnSet(g, t)
    BY <1>2
  <2>2. SumFunctionOnSet(f, {}) = 0 /\ SumFunctionOnSet(g, {}) = 0
    BY SumEmpty
  <2> QED BY <2>1, <2>2
<1>4. Chosen(t) \in t /\ IsFiniteSet(t)
  BY <1>2, <1>3, ChosenIsElement, FS_Subset
<1>5. SumFunctionOnSet(f, t \ {Chosen(t)}) = SumFunctionOnSet(g, t \ {Chosen(t)})
  BY <1>2, <1>4
<1>6. f[Chosen(t)] = g[Chosen(t)]
  BY <1>2, <1>4
<1>7. /\ SumFunctionOnSet(f, t) = f[Chosen(t)] + SumFunctionOnSet(f, t \ {Chosen(t)})
      /\ SumFunctionOnSet(g, t) = g[Chosen(t)] + SumFunctionOnSet(g, t \ {Chosen(t)})
  BY <1>3, <1>4, SumOfChosen
<1> QED BY <1>2, <1>5, <1>6, <1>7

\* A sum of integers is an integer.
LEMMA SumInt ==
  ASSUME NEW S, IsFiniteSet(S), NEW f, \A x \in S : f[x] \in Int
  PROVE  SumFunctionOnSet(f, S) \in Int
<1> DEFINE Bad == {t \in SUBSET S : SumFunctionOnSet(f, t) \notin Int}
<1>1. SUFFICES ASSUME Bad # {} PROVE FALSE
  OBVIOUS
<1>2. PICK t \in Bad : \A u \in Bad : u \subseteq t => u = t
  <2>1. Bad \in SUBSET SUBSET S
    OBVIOUS
  <2> HIDE DEF Bad
  <2> QED BY <1>1, <2>1, LeastSubset
<1>3. t # {}
  <2>1. SumFunctionOnSet(f, t) \notin Int
    BY <1>2
  <2>2. SumFunctionOnSet(f, {}) = 0
    BY SumEmpty
  <2> QED BY <2>1, <2>2
<1>4. Chosen(t) \in t /\ IsFiniteSet(t)
  BY <1>2, <1>3, ChosenIsElement, FS_Subset
<1>5. SumFunctionOnSet(f, t \ {Chosen(t)}) \in Int /\ f[Chosen(t)] \in Int
  BY <1>2, <1>4
<1>6. SumFunctionOnSet(f, t) = f[Chosen(t)] + SumFunctionOnSet(f, t \ {Chosen(t)})
  BY <1>3, <1>4, SumOfChosen
<1> QED BY <1>2, <1>5, <1>6

\* Any element may be taken out first.
LEMMA SumRemove ==
  ASSUME NEW S, IsFiniteSet(S), NEW f, \A x \in S : f[x] \in Int, NEW a \in S
  PROVE  SumFunctionOnSet(f, S) = f[a] + SumFunctionOnSet(f, S \ {a})
<1> DEFINE Takes(t) == \A x \in t : SumFunctionOnSet(f, t)
                                      = f[x] + SumFunctionOnSet(f, t \ {x})
           Bad == {t \in SUBSET S : ~Takes(t)}
<1>1. SUFFICES ASSUME Bad # {} PROVE FALSE
  OBVIOUS
<1>2. PICK t \in Bad : \A u \in Bad : u \subseteq t => u = t
  <2>1. Bad \in SUBSET SUBSET S
    OBVIOUS
  <2> HIDE DEF Bad
  <2> QED BY <1>1, <2>1, LeastSubset
<1>3. PICK x \in t : SumFunctionOnSet(f, t) # f[x] + SumFunctionOnSet(f, t \ {x})
  BY <1>2
<1> DEFINE c == Chosen(t)
<1>4. c \in t /\ IsFiniteSet(t)
  BY <1>2, <1>3, ChosenIsElement, FS_Subset
<1>5. SumFunctionOnSet(f, t) = f[c] + SumFunctionOnSet(f, t \ {c})
  BY <1>4, SumOfChosen
<1> HIDE DEF c
<1>6. x # c
  BY <1>3, <1>5
<1>7. /\ SumFunctionOnSet(f, t \ {c}) = f[x] + SumFunctionOnSet(f, (t \ {c}) \ {x})
      /\ SumFunctionOnSet(f, t \ {x}) = f[c] + SumFunctionOnSet(f, (t \ {x}) \ {c})
  <2>1. Takes(t \ {c}) /\ Takes(t \ {x})
    BY <1>2, <1>4, <1>3
  <2> QED BY <2>1, <1>4, <1>3, <1>6
<1>8. (t \ {c}) \ {x} = (t \ {x}) \ {c}
  OBVIOUS
<1>9. SumFunctionOnSet(f, (t \ {c}) \ {x}) \in Int /\ f[x] \in Int /\ f[c] \in Int
  <2>1. IsFiniteSet((t \ {c}) \ {x}) /\ \A y \in t : f[y] \in Int
    BY <1>2, <1>4, FS_Subset
  <2> QED BY <2>1, <1>4, <1>3, SumInt
<1>10. f[c] + (f[x] + SumFunctionOnSet(f, (t \ {c}) \ {x}))
        = f[x] + (f[c] + SumFunctionOnSet(f, (t \ {c}) \ {x}))
  <2>1. \A i, j, k \in Int : i + (j + k) = j + (i + k)
    OBVIOUS
  <2> QED BY ONLY <1>9, <2>1, Zenon
<1>11. SumFunctionOnSet(f, t) = f[x] + SumFunctionOnSet(f, t \ {x})
  BY <1>5, <1>7, <1>8, <1>10
<1> QED BY <1>3, <1>11

\* An element more adds its value.
LEMMA SumAdd ==
  ASSUME NEW S, IsFiniteSet(S), NEW f, \A x \in S : f[x] \in Int,
         NEW a, a \notin S, f[a] \in Int
  PROVE  SumFunctionOnSet(f, S \cup {a}) = SumFunctionOnSet(f, S) + f[a]
<1>1. IsFiniteSet(S \cup {a}) /\ (S \cup {a}) \ {a} = S
  BY FS_AddElement
<1>2. SumFunctionOnSet(f, S \cup {a}) = f[a] + SumFunctionOnSet(f, (S \cup {a}) \ {a})
  <2>1. \A x \in S \cup {a} : f[x] \in Int
    OBVIOUS
  <2> QED BY <1>1, <2>1, SumRemove
<1>3. SumFunctionOnSet(f, S) \in Int
  BY SumInt
<1>4. \A i, j \in Int : i + j = j + i
  OBVIOUS
<1> QED BY <1>1, <1>2, <1>3, <1>4, Zenon

\* What changing one value does to the sum.
LEMMA SumChange ==
  ASSUME NEW S, IsFiniteSet(S), NEW f, NEW g, NEW a \in S,
         \A x \in S : f[x] \in Int, g[a] \in Int,
         \A x \in S : x # a => g[x] = f[x]
  PROVE  SumFunctionOnSet(g, S) = SumFunctionOnSet(f, S) + (g[a] - f[a])
<1>1. IsFiniteSet(S \ {a})
  BY FS_Subset
<1>2. SumFunctionOnSet(f, S) = f[a] + SumFunctionOnSet(f, S \ {a})
  BY SumRemove
<1>3. SumFunctionOnSet(g, S) = g[a] + SumFunctionOnSet(g, S \ {a})
  <2>1. \A x \in S : g[x] \in Int
    OBVIOUS
  <2> QED BY <2>1, SumRemove
<1>4. SumFunctionOnSet(g, S \ {a}) = SumFunctionOnSet(f, S \ {a})
  BY <1>1, SumSame
<1>5. SumFunctionOnSet(f, S \ {a}) \in Int
  BY <1>1, SumInt
<1> QED BY <1>2, <1>3, <1>4, <1>5

\* A sum of naturals is a natural.
LEMMA SumNat ==
  ASSUME NEW S, IsFiniteSet(S), NEW f, \A x \in S : f[x] \in Nat
  PROVE  SumFunctionOnSet(f, S) \in Nat
<1> DEFINE Bad == {t \in SUBSET S : SumFunctionOnSet(f, t) \notin Nat}
<1>1. SUFFICES ASSUME Bad # {} PROVE FALSE
  OBVIOUS
<1>2. PICK t \in Bad : \A u \in Bad : u \subseteq t => u = t
  <2>1. Bad \in SUBSET SUBSET S
    OBVIOUS
  <2> HIDE DEF Bad
  <2> QED BY <1>1, <2>1, LeastSubset
<1>3. t # {}
  <2>1. SumFunctionOnSet(f, t) \notin Nat
    BY <1>2
  <2>2. SumFunctionOnSet(f, {}) = 0
    BY SumEmpty
  <2> QED BY <2>1, <2>2
<1>4. Chosen(t) \in t /\ IsFiniteSet(t)
  BY <1>2, <1>3, ChosenIsElement, FS_Subset
<1>5. SumFunctionOnSet(f, t \ {Chosen(t)}) \in Nat /\ f[Chosen(t)] \in Nat
  BY <1>2, <1>4
<1>6. SumFunctionOnSet(f, t) = f[Chosen(t)] + SumFunctionOnSet(f, t \ {Chosen(t)})
  BY <1>3, <1>4, SumOfChosen
<1> QED BY <1>2, <1>5, <1>6

\* Sums over two sets with nothing in common.
LEMMA SumDisjoint ==
  ASSUME NEW S, IsFiniteSet(S), NEW T \in SUBSET S, NEW f, \A x \in S : f[x] \in Int
  PROVE  SumFunctionOnSet(f, S)
           = SumFunctionOnSet(f, T) + SumFunctionOnSet(f, S \ T)
<1> DEFINE Splits(t) == SumFunctionOnSet(f, S)
                          = SumFunctionOnSet(f, t) + SumFunctionOnSet(f, S \ t)
           Bad == {t \in SUBSET S : ~Splits(t)}
<1>1. SUFFICES ASSUME Bad # {} PROVE FALSE
  OBVIOUS
<1>2. PICK t \in Bad : \A u \in Bad : u \subseteq t => u = t
  <2>1. Bad \in SUBSET SUBSET S
    OBVIOUS
  <2> HIDE DEF Bad
  <2> QED BY <1>1, <2>1, LeastSubset
<1>3. t # {}
  <2>1. SumFunctionOnSet(f, S) \in Int /\ SumFunctionOnSet(f, {}) = 0
    BY SumInt, SumEmpty
  <2>2. S \ {} = S /\ \A i \in Int : i = 0 + i
    OBVIOUS
  <2>3. Splits({})
    BY <2>1, <2>2, Zenon
  <2> QED BY <1>2, <2>3
<1>4. PICK x \in t : TRUE
  BY <1>3
<1> DEFINE u == t \ {x}
<1>5. /\ IsFiniteSet(t) /\ IsFiniteSet(u) /\ IsFiniteSet(S \ t)
      /\ S \ u = (S \ t) \cup {x} /\ x \notin S \ t /\ x \in S
  BY <1>2, <1>4, FS_Subset
<1>6. Splits(u)
  BY <1>2, <1>4
<1>7. SumFunctionOnSet(f, t) = f[x] + SumFunctionOnSet(f, u)
  BY <1>2, <1>4, <1>5, SumRemove
<1>8. SumFunctionOnSet(f, S \ u) = SumFunctionOnSet(f, S \ t) + f[x]
  <2>1. /\ IsFiniteSet(S \ t) /\ x \notin S \ t /\ f[x] \in Int
        /\ \A y \in S \ t : f[y] \in Int
    BY <1>5
  <2>2. SumFunctionOnSet(f, (S \ t) \cup {x}) = SumFunctionOnSet(f, S \ t) + f[x]
    BY ONLY <2>1, SumAdd
  <2> QED BY <1>5, <2>2
<1>9. /\ SumFunctionOnSet(f, u) \in Int /\ SumFunctionOnSet(f, S \ t) \in Int
      /\ f[x] \in Int
  BY <1>2, <1>5, SumInt
<1> HIDE DEF u
<1> QED BY <1>2, <1>6, <1>7, <1>8, <1>9

\* A sum of nothing but zeros.
LEMMA SumZero ==
  ASSUME NEW S, IsFiniteSet(S), NEW f, \A x \in S : f[x] = 0
  PROVE  SumFunctionOnSet(f, S) = 0
<1> DEFINE Bad == {t \in SUBSET S : SumFunctionOnSet(f, t) # 0}
<1>1. SUFFICES ASSUME Bad # {} PROVE FALSE
  OBVIOUS
<1>2. PICK t \in Bad : \A u \in Bad : u \subseteq t => u = t
  <2>1. Bad \in SUBSET SUBSET S
    OBVIOUS
  <2> HIDE DEF Bad
  <2> QED BY <1>1, <2>1, LeastSubset
<1>3. t # {}
  <2>1. SumFunctionOnSet(f, t) # 0
    BY <1>2
  <2>2. SumFunctionOnSet(f, {}) = 0
    BY SumEmpty
  <2> QED BY <2>1, <2>2
<1>4. Chosen(t) \in t /\ IsFiniteSet(t)
  BY <1>2, <1>3, ChosenIsElement, FS_Subset
<1>5. SumFunctionOnSet(f, t \ {Chosen(t)}) = 0 /\ f[Chosen(t)] = 0
  BY <1>2, <1>4
<1>6. SumFunctionOnSet(f, t) = f[Chosen(t)] + SumFunctionOnSet(f, t \ {Chosen(t)})
  BY <1>3, <1>4, SumOfChosen
<1> QED BY <1>2, <1>5, <1>6

\* Two functions are added up together or one after the other.
LEMMA SumPlus ==
  ASSUME NEW S, IsFiniteSet(S), NEW f, NEW g, NEW h,
         \A x \in S : f[x] \in Int /\ g[x] \in Int /\ h[x] = f[x] + g[x]
  PROVE  SumFunctionOnSet(h, S) = SumFunctionOnSet(f, S) + SumFunctionOnSet(g, S)
<1> DEFINE Adds(t) == SumFunctionOnSet(h, t)
                        = SumFunctionOnSet(f, t) + SumFunctionOnSet(g, t)
           Bad == {t \in SUBSET S : ~Adds(t)}
<1>1. SUFFICES ASSUME Bad # {} PROVE FALSE
  OBVIOUS
<1>2. PICK t \in Bad : \A u \in Bad : u \subseteq t => u = t
  <2>1. Bad \in SUBSET SUBSET S
    OBVIOUS
  <2> HIDE DEF Bad
  <2> QED BY <1>1, <2>1, LeastSubset
<1>3. t # {}
  <2>1. Adds({})
    BY SumEmpty
  <2> QED BY <1>2, <2>1
<1>4. PICK x \in t : TRUE
  BY <1>3
<1> DEFINE u == t \ {x}
<1>5. IsFiniteSet(t) /\ IsFiniteSet(u) /\ x \in S
  BY <1>2, <1>4, FS_Subset
<1>6. Adds(u)
  BY <1>2, <1>4
<1>7. \A y \in S : f[y] \in Int /\ g[y] \in Int /\ h[y] \in Int
  OBVIOUS
<1>8. /\ SumFunctionOnSet(f, t) = f[x] + SumFunctionOnSet(f, u)
      /\ SumFunctionOnSet(g, t) = g[x] + SumFunctionOnSet(g, u)
      /\ SumFunctionOnSet(h, t) = h[x] + SumFunctionOnSet(h, u)
  BY <1>2, <1>4, <1>5, <1>7, SumRemove
<1>9. SumFunctionOnSet(f, u) \in Int /\ SumFunctionOnSet(g, u) \in Int
  BY <1>2, <1>5, <1>7, SumInt
<1>10. h[x] = f[x] + g[x] /\ f[x] \in Int /\ g[x] \in Int
  BY <1>5
<1>11. Adds(t)
  <2>1. PICK i \in Int, j \in Int : i = f[x] /\ j = g[x]
    BY <1>10
  <2>2. PICK k \in Int, l \in Int : k = SumFunctionOnSet(f, u) /\ l = SumFunctionOnSet(g, u)
    BY <1>9
  <2> HIDE DEF u
  <2>3. SumFunctionOnSet(h, t) = (i + j) + (k + l)
    BY <1>6, <1>8, <1>10, <2>1, <2>2
  <2>4. (i + j) + (k + l) = (i + k) + (j + l)
    OBVIOUS
  <2>5. (i + k) + (j + l) = SumFunctionOnSet(f, t) + SumFunctionOnSet(g, t)
    BY <1>8, <2>1, <2>2
  <2> QED BY <2>3, <2>4, <2>5
<1> QED BY <1>2, <1>11

\* Each element of a set belongs to one of U: what the members of U have is what all
\* of them have together.
LEMMA SumPartition ==
  ASSUME NEW S, IsFiniteSet(S), NEW U, IsFiniteSet(U),
         NEW f, \A x \in S : f[x] \in Int, NEW whose, \A x \in S : whose[x] \in U,
         NEW part, \A v \in U : \A x : x \in part[v] <=> x \in S /\ whose[x] = v,
         NEW total, \A v \in U : total[v] = SumFunctionOnSet(f, part[v])
  PROVE  SumFunctionOnSet(total, U) = SumFunctionOnSet(f, S)
<1> DEFINE Of(V) == {x \in S : whose[x] \in V}
           Adds(V) == SumFunctionOnSet(total, V) = SumFunctionOnSet(f, Of(V))
           Bad == {V \in SUBSET U : ~Adds(V)}
<1>0. Of(U) = S
  OBVIOUS
<1>a. \A v \in U : total[v] = SumFunctionOnSet(f, {x \in S : whose[x] = v})
  <2>1. ASSUME NEW v \in U
        PROVE  part[v] = {x \in S : whose[x] = v}
    OBVIOUS
  <2> QED BY <2>1
<1>1. SUFFICES ASSUME Bad # {} PROVE FALSE
  BY <1>0
<1>2. PICK t \in Bad : \A u \in Bad : u \subseteq t => u = t
  <2>1. Bad \in SUBSET SUBSET U
    OBVIOUS
  <2> HIDE DEF Bad
  <2> QED BY <1>1, <2>1, LeastSubset
<1>3. t # {}
  <2>1. Of({}) = {}
    OBVIOUS
  <2>2. Adds({})
    BY <2>1, SumEmpty
  <2>3. ~Adds(t)
    BY <1>2
  <2> HIDE DEF Adds
  <2> QED BY <2>2, <2>3
<1>4. PICK v \in t : TRUE
  BY <1>3
<1> DEFINE u == t \ {v}
<1>5. IsFiniteSet(t) /\ IsFiniteSet(u) /\ v \in U /\ t \in SUBSET U
  BY <1>2, <1>4, FS_Subset
<1>6. Adds(u)
  BY <1>2, <1>4
<1>7. \A w \in U : total[w] \in Int
  <2>1. ASSUME NEW w \in U PROVE total[w] \in Int
    <3> DEFINE own == {x \in S : whose[x] = w}
    <3>1. IsFiniteSet(own) /\ \A x \in own : f[x] \in Int
      BY FS_Subset
    <3>2. total[w] = SumFunctionOnSet(f, own)
      BY <1>a
    <3> HIDE DEF own
    <3> QED BY <3>1, <3>2, SumInt
  <2> QED BY <2>1
<1>8. SumFunctionOnSet(total, t) = total[v] + SumFunctionOnSet(total, u)
  <2>1. \A w \in t : total[w] \in Int
    BY <1>5, <1>7
  <2> QED BY <1>4, <1>5, <2>1, SumRemove
<1>9. SumFunctionOnSet(f, Of(t)) = total[v] + SumFunctionOnSet(f, Of(u))
  <2> DEFINE own == {x \in S : whose[x] = v}
             all == Of(t)
  <2>1. IsFiniteSet(all) /\ own \in SUBSET all /\ all \ own = Of(u)
        /\ \A x \in all : f[x] \in Int
    BY <1>4, FS_Subset
  <2>2. total[v] = SumFunctionOnSet(f, own)
    BY <1>5, <1>a
  <2> HIDE DEF own, all
  <2>3. SumFunctionOnSet(f, all)
          = SumFunctionOnSet(f, own) + SumFunctionOnSet(f, all \ own)
    BY <2>1, SumDisjoint
  <2> QED BY <2>1, <2>2, <2>3 DEF all
<1> QED BY <1>2, <1>6, <1>8, <1>9

\* A sum grows with what is summed.
LEMMA SumGrows ==
  ASSUME NEW S, IsFiniteSet(S), NEW f, NEW g,
         \A x \in S : f[x] \in Int /\ g[x] \in Int /\ f[x] <= g[x]
  PROVE  SumFunctionOnSet(f, S) <= SumFunctionOnSet(g, S)
<1> DEFINE d == [x \in S |-> g[x] - f[x]]
<1>1. \A x \in S : /\ d[x] = g[x] - f[x] /\ d[x] \in Nat /\ d[x] \in Int
                   /\ g[x] = f[x] + d[x] /\ f[x] \in Int /\ g[x] \in Int
  OBVIOUS
<1> HIDE DEF d
<1>2. SumFunctionOnSet(g, S) = SumFunctionOnSet(f, S) + SumFunctionOnSet(d, S)
  BY <1>1, SumPlus
<1>3. SumFunctionOnSet(d, S) \in Nat /\ SumFunctionOnSet(f, S) \in Int
  BY <1>1, SumNat, SumInt
<1> QED BY <1>2, <1>3

\* A sum of numbers up to a limit.
LEMMA SumWithinLimit ==
  ASSUME NEW S, IsFiniteSet(S), NEW most \in Nat, NEW f, \A x \in S : f[x] \in 0..most
  PROVE  SumFunctionOnSet(f, S) <= most * Cardinality(S)
<1> DEFINE Within(t) == SumFunctionOnSet(f, t) <= most * Cardinality(t)
           Bad == {t \in SUBSET S : ~Within(t)}
<1>1. SUFFICES ASSUME Bad # {} PROVE FALSE
  OBVIOUS
<1>2. PICK t \in Bad : \A u \in Bad : u \subseteq t => u = t
  <2>1. Bad \in SUBSET SUBSET S
    OBVIOUS
  <2> HIDE DEF Bad
  <2> QED BY <1>1, <2>1, LeastSubset
<1>3. t # {}
  <2>1. SumFunctionOnSet(f, {}) = 0 /\ Cardinality({}) = 0
    BY SumEmpty, FS_EmptySet
  <2>2. Within({})
    BY <2>1
  <2> QED BY <1>2, <2>2
<1>4. PICK x \in t : TRUE
  BY <1>3
<1> DEFINE u == t \ {x}
<1>5. IsFiniteSet(t) /\ IsFiniteSet(u) /\ x \in S
  BY <1>2, <1>4, FS_Subset
<1>6. Within(u)
  BY <1>2, <1>4
<1>7. SumFunctionOnSet(f, t) = f[x] + SumFunctionOnSet(f, u)
  <2>1. \A y \in t : f[y] \in Int
    BY <1>2
  <2> QED BY <1>4, <1>5, <2>1, SumRemove
<1>8. Cardinality(u) = Cardinality(t) - 1 /\ Cardinality(t) \in Nat /\ Cardinality(u) \in Nat
  BY <1>4, <1>5, FS_RemoveElement, FS_CardinalityType
<1>9. SumFunctionOnSet(f, u) \in Int /\ f[x] \in 0..most
  <2>1. \A y \in u : f[y] \in Int
    BY <1>2
  <2> QED BY <1>5, <2>1, SumInt
<1>10. Within(t)
  <2>1. PICK n \in Nat : n = Cardinality(u) /\ Cardinality(t) = n + 1
    BY <1>8
  <2>2. PICK i \in Int, j \in Int : i = f[x] /\ j = SumFunctionOnSet(f, u) /\ i <= most
    BY <1>9
  <2>3. j <= most * n
    BY <1>6, <2>1, <2>2
  <2>4. most * (n + 1) = most * n + most /\ most * n \in Int
    OBVIOUS
  <2>5. i + j <= most * (n + 1)
    BY <2>2, <2>3, <2>4
  <2> HIDE DEF u
  <2> QED BY <1>7, <2>1, <2>2, <2>5
<1> QED BY <1>2, <1>10
=============================================================================
