----------------------------- MODULE SumProofs -----------------------------
(***************************************************************************)
(* Facts about SumFunctionOnSet, the sum of f[x] for x in a finite set S:  *)
(* the sizes an order has traded and the amounts an account has paid are   *)
(* such sums.  The operator takes the elements in the order CHOOSE gives   *)
(* them; the facts say that the order does not matter.  An induction over  *)
(* finite sets is a smallest counterexample.                               *)
(***************************************************************************)
EXTENDS Functions, FiniteSetTheorems, TLAPS

Chosen(s) == CHOOSE x \in s : TRUE

\* The function that SumFunctionOnSet(f, S) chooses and applies to S.
IsIter(h, f, S) ==
  h = [s \in SUBSET S |-> IF s = {} THEN 0 ELSE f[Chosen(s)] + h[s \ {Chosen(s)}]]

LEMMA SmallestSet ==
  ASSUME NEW S, IsFiniteSet(S), NEW B \in SUBSET (SUBSET S), B # {}
  PROVE  \E T \in B : \A U \in B : U \subseteq T => U = T
<1> DEFINE R == StrictSubsetOrdering(S)
<1>1. IsWellFoundedOn(R, SUBSET S)
  BY FS_StrictSubsetOrderingWellFounded, FS_FiniteSubsetsOfFinite
<1>2. \A T, U \in B : U \subseteq T /\ U # T => <<U, T>> \in R
  BY DEF StrictSubsetOrdering
<1> HIDE DEF R
<1>3. \E T \in B : \A U \in B : ~ (<<U, T>> \in R)
  BY <1>1, WFMin, Zenon
<1> QED BY <1>2, <1>3

LEMMA ChosenIn == ASSUME NEW s, s # {} PROVE Chosen(s) \in s
BY DEF Chosen

\* Two such functions agree where both are defined.
LEMMA IterUnique ==
  ASSUME NEW f, NEW S, NEW T, NEW g, NEW h, IsIter(g, f, S), IsIter(h, f, T),
         NEW U, IsFiniteSet(U), U \subseteq S, U \subseteq T
  PROVE  g[U] = h[U]
<1> DEFINE B == {s \in SUBSET U : g[s] # h[s]}
<1>1. SUFFICES ASSUME B # {} PROVE FALSE
  OBVIOUS
<1>2. PICK s \in B : \A u \in B : u \subseteq s => u = s
  <2>1. B \in SUBSET (SUBSET U)
    OBVIOUS
  <2> HIDE DEF B
  <2> QED BY <1>1, <2>1, SmallestSet
<1>3. s \in SUBSET S /\ s \in SUBSET T /\ s \in SUBSET U
  OBVIOUS
<1>4. /\ g[s] = IF s = {} THEN 0 ELSE f[Chosen(s)] + g[s \ {Chosen(s)}]
      /\ h[s] = IF s = {} THEN 0 ELSE f[Chosen(s)] + h[s \ {Chosen(s)}]
  BY <1>3 DEF IsIter
<1>5. s # {}
  BY <1>2, <1>4
<1>6. s \ {Chosen(s)} \notin B
  BY <1>2, <1>5, ChosenIn
<1>7. g[s \ {Chosen(s)}] = h[s \ {Chosen(s)}]
  BY <1>3, <1>6
<1> QED BY <1>2, <1>4, <1>5, <1>7

LEMMA SumChosen ==
  ASSUME NEW f, NEW S
  PROVE  SumFunctionOnSet(f, S) = (CHOOSE h : IsIter(h, f, S))[S]
BY DEF SumFunctionOnSet, FoldFunctionOnSet, MapThenFoldSet, IsIter, Chosen

LEMMA IterExists ==
  ASSUME NEW f, NEW S, IsFiniteSet(S)
  PROVE  \E h : IsIter(h, f, S)
<1> DEFINE B == {T \in SUBSET S : ~ \E h : IsIter(h, f, T)}
<1>1. SUFFICES ASSUME B # {} PROVE FALSE
  OBVIOUS
<1>2. PICK T \in B : \A U \in B : U \subseteq T => U = T
  <2>1. B \in SUBSET (SUBSET S)
    OBVIOUS
  <2> HIDE DEF B
  <2> QED BY <1>1, <2>1, SmallestSet
<1> DEFINE W(u) == (CHOOSE g : IsIter(g, f, u))[u]
           h == [s \in SUBSET T |-> IF s = {} THEN 0 ELSE f[Chosen(s)] + W(s \ {Chosen(s)})]
<1>3. ASSUME NEW s \in SUBSET T, s # {}
      PROVE  h[s \ {Chosen(s)}] = W(s \ {Chosen(s)})
  <2> DEFINE u == s \ {Chosen(s)}
             g == CHOOSE g : IsIter(g, f, u)
             v == u \ {Chosen(u)}
             k == CHOOSE k : IsIter(k, f, v)
  <2>1. u \in SUBSET T /\ u # T /\ v \in SUBSET T /\ v # T /\ v \subseteq u
    BY <1>3, ChosenIn
  <2>2. u \notin B /\ v \notin B /\ u \in SUBSET S /\ v \in SUBSET S
    BY <1>2, <2>1
  <2>3. IsIter(g, f, u) /\ IsIter(k, f, v)
    <3>1. \E x : IsIter(x, f, u)
      BY <2>2
    <3>2. \E x : IsIter(x, f, v)
      BY <2>2
    <3> QED BY <3>1, <3>2
  <2>4. IsFiniteSet(v)
    BY <2>2, FS_Subset
  <2>5. g[v] = k[v]
    BY <2>1, <2>3, <2>4, IterUnique
  <2>6. g[u] = IF u = {} THEN 0 ELSE f[Chosen(u)] + g[v]
    BY <2>3 DEF IsIter
  <2>7. h[u] = IF u = {} THEN 0 ELSE f[Chosen(u)] + k[v]
    BY <2>1
  <2> QED BY <2>5, <2>6, <2>7
<1>4. IsIter(h, f, T)
  <2> HIDE DEF W
  <2>1. h = [s \in SUBSET T |-> IF s = {} THEN 0 ELSE f[Chosen(s)] + h[s \ {Chosen(s)}]]
    BY <1>3, Zenon
  <2> QED BY <2>1 DEF IsIter
<1> QED BY <1>2, <1>4

\* The equations that define the sum.
LEMMA SumDef ==
  ASSUME NEW f, NEW S, IsFiniteSet(S)
  PROVE  SumFunctionOnSet(f, S) =
           IF S = {} THEN 0 ELSE f[Chosen(S)] + SumFunctionOnSet(f, S \ {Chosen(S)})
<1> DEFINE T == S \ {Chosen(S)}
<1>1. IsFiniteSet(T) /\ T \subseteq S
  BY FS_Subset
<1> DEFINE g == CHOOSE g : IsIter(g, f, S)
           h == CHOOSE h : IsIter(h, f, T)
<1>2. IsIter(g, f, S)
  <2>1. \E x : IsIter(x, f, S)
    BY IterExists
  <2> QED BY <2>1
<1>3. IsIter(h, f, T)
  <2>1. \E x : IsIter(x, f, T)
    BY <1>1, IterExists
  <2> QED BY <2>1
<1>4. g[T] = h[T]
  BY <1>1, <1>2, <1>3, IterUnique
<1>5. g[S] = IF S = {} THEN 0 ELSE f[Chosen(S)] + g[T]
  BY <1>2 DEF IsIter
<1>6. SumFunctionOnSet(f, S) = g[S] /\ SumFunctionOnSet(f, T) = h[T]
  BY SumChosen
<1> QED BY <1>4, <1>5, <1>6

LEMMA SumEmpty ==
  ASSUME NEW f
  PROVE  SumFunctionOnSet(f, {}) = 0
BY SumDef, FS_EmptySet

LEMMA SumType ==
  ASSUME NEW f, NEW S, IsFiniteSet(S), \A x \in S : f[x] \in Int
  PROVE  SumFunctionOnSet(f, S) \in Int
<1> DEFINE B == {T \in SUBSET S : SumFunctionOnSet(f, T) \notin Int}
<1>1. SUFFICES ASSUME B # {} PROVE FALSE
  OBVIOUS
<1>2. PICK T \in B : \A U \in B : U \subseteq T => U = T
  <2>1. B \in SUBSET (SUBSET S)
    OBVIOUS
  <2> HIDE DEF B
  <2> QED BY <1>1, <2>1, SmallestSet
<1>3. IsFiniteSet(T)
  BY FS_Subset
<1>4. T # {}
  BY <1>2, SumEmpty, SMTT(40)
<1>5. Chosen(T) \in T /\ T \ {Chosen(T)} \notin B
  BY <1>2, <1>4, ChosenIn
<1>6. SumFunctionOnSet(f, T \ {Chosen(T)}) \in Int
  BY <1>5
<1>7. SumFunctionOnSet(f, T) = f[Chosen(T)] + SumFunctionOnSet(f, T \ {Chosen(T)})
  BY <1>3, <1>4, SumDef
<1>8. f[Chosen(T)] \in Int
  BY <1>5
<1> QED BY <1>2, <1>6, <1>7, <1>8

\* Any element can be taken out first.
LEMMA SumRemove ==
  ASSUME NEW f, NEW S, IsFiniteSet(S), \A x \in S : f[x] \in Int, NEW y \in S
  PROVE  SumFunctionOnSet(f, S) = f[y] + SumFunctionOnSet(f, S \ {y})
<1> DEFINE Sum(T) == SumFunctionOnSet(f, T)
           B == {T \in SUBSET S : \E x \in T : Sum(T) # f[x] + Sum(T \ {x})}
<1>1. SUFFICES ASSUME B # {} PROVE FALSE
  OBVIOUS
<1>2. PICK T \in B : \A U \in B : U \subseteq T => U = T
  <2>1. B \in SUBSET (SUBSET S)
    OBVIOUS
  <2> HIDE DEF B
  <2> QED BY <1>1, <2>1, SmallestSet
<1>3. PICK x \in T : Sum(T) # f[x] + Sum(T \ {x})
  OBVIOUS
<1> DEFINE c == Chosen(T)
<1>4. c \in T
  BY ChosenIn
<1>5. \A U \in SUBSET S : IsFiniteSet(U) /\ Sum(U) \in Int
  BY FS_Subset, SumType
<1>6. Sum(T) = f[c] + Sum(T \ {c})
  BY <1>3, <1>5, SumDef
<1> HIDE DEF c
<1>7. c # x
  BY <1>3, <1>6
<1>8. T \ {c} \notin B /\ T \ {x} \notin B
  BY <1>2, <1>3, <1>4
<1> DEFINE V == T \ {c, x}
<1>9. Sum(T \ {c}) = f[x] + Sum(V)
  <2>1. V = (T \ {c}) \ {x}
    OBVIOUS
  <2> QED BY <1>3, <1>7, <1>8, <2>1
<1>10. Sum(T \ {x}) = f[c] + Sum(V)
  <2>1. V = (T \ {x}) \ {c}
    OBVIOUS
  <2> QED BY <1>4, <1>7, <1>8, <2>1
<1>11. f[c] \in Int /\ f[x] \in Int /\ Sum(V) \in Int
  BY <1>4, <1>5
<1>12. f[c] + (f[x] + Sum(V)) = f[x] + (f[c] + Sum(V))
  BY <1>11
<1> QED BY <1>3, <1>6, <1>9, <1>10, <1>12, Zenon

LEMMA SumZero ==
  ASSUME NEW f, NEW S, IsFiniteSet(S), \A x \in S : f[x] = 0
  PROVE  SumFunctionOnSet(f, S) = 0
<1> DEFINE B == {T \in SUBSET S : SumFunctionOnSet(f, T) # 0}
<1>1. SUFFICES ASSUME B # {} PROVE FALSE
  OBVIOUS
<1>2. PICK T \in B : \A U \in B : U \subseteq T => U = T
  <2>1. B \in SUBSET (SUBSET S)
    OBVIOUS
  <2> HIDE DEF B
  <2> QED BY <1>1, <2>1, SmallestSet
<1>3. T # {}
  BY <1>2, SumEmpty
<1>4. PICK x \in T : TRUE
  BY <1>3
<1>5. IsFiniteSet(T) /\ T \ {x} \notin B
  BY <1>2, <1>4, FS_Subset
<1>6. SumFunctionOnSet(f, T \ {x}) = 0
  BY <1>5
<1>7. SumFunctionOnSet(f, T) = f[x] + SumFunctionOnSet(f, T \ {x})
  BY <1>4, <1>5, SumRemove
<1> QED BY <1>4, <1>6, <1>7

\* Only the terms of the elements count.
LEMMA SumEqual ==
  ASSUME NEW f, NEW g, NEW S, IsFiniteSet(S), \A x \in S : f[x] = g[x]
  PROVE  SumFunctionOnSet(f, S) = SumFunctionOnSet(g, S)
<1> DEFINE B == {T \in SUBSET S : SumFunctionOnSet(f, T) # SumFunctionOnSet(g, T)}
<1>1. SUFFICES ASSUME B # {} PROVE FALSE
  OBVIOUS
<1>2. PICK T \in B : \A U \in B : U \subseteq T => U = T
  <2>1. B \in SUBSET (SUBSET S)
    OBVIOUS
  <2> HIDE DEF B
  <2> QED BY <1>1, <2>1, SmallestSet
<1>3. IsFiniteSet(T)
  BY FS_Subset
<1>4. T # {}
  BY <1>2, SumEmpty
<1>5. Chosen(T) \in T /\ T \ {Chosen(T)} \notin B
  BY <1>2, <1>4, ChosenIn
<1>6. SumFunctionOnSet(f, T \ {Chosen(T)}) = SumFunctionOnSet(g, T \ {Chosen(T)})
  BY <1>5
<1>7. f[Chosen(T)] = g[Chosen(T)]
  BY <1>5
<1> QED BY <1>2, <1>3, <1>4, <1>6, <1>7, SumDef

\* One term changes.
LEMMA SumChange ==
  ASSUME NEW f, NEW g, NEW S, IsFiniteSet(S), NEW y \in S,
         \A x \in S : f[x] \in Int /\ g[x] \in Int,
         \A x \in S \ {y} : f[x] = g[x]
  PROVE  SumFunctionOnSet(g, S) = SumFunctionOnSet(f, S) - f[y] + g[y]
<1>1. IsFiniteSet(S \ {y})
  BY FS_Subset
<1>2. /\ SumFunctionOnSet(f, S) = f[y] + SumFunctionOnSet(f, S \ {y})
      /\ SumFunctionOnSet(g, S) = g[y] + SumFunctionOnSet(g, S \ {y})
  BY SumRemove
<1>3. SumFunctionOnSet(f, S \ {y}) = SumFunctionOnSet(g, S \ {y})
  BY <1>1, SumEqual
<1>4. SumFunctionOnSet(f, S \ {y}) \in Int
  BY <1>1, SumType
<1> QED BY <1>2, <1>3, <1>4

\* More terms that are not negative do not make the sum smaller.
LEMMA SumMonotonic ==
  ASSUME NEW f, NEW S, IsFiniteSet(S), \A x \in S : f[x] \in Nat, NEW T \in SUBSET S
  PROVE  SumFunctionOnSet(f, T) <= SumFunctionOnSet(f, S)
<1> DEFINE B == {U \in SUBSET S : T \subseteq U /\ ~(SumFunctionOnSet(f, T) <= SumFunctionOnSet(f, U))}
<1>1. SUFFICES ASSUME B # {} PROVE FALSE
  OBVIOUS
<1>2. PICK U \in B : \A V \in B : V \subseteq U => V = U
  <2>1. B \in SUBSET (SUBSET S)
    OBVIOUS
  <2> HIDE DEF B
  <2> QED BY <1>1, <2>1, SmallestSet
<1>3. \A V \in SUBSET S : IsFiniteSet(V) /\ SumFunctionOnSet(f, V) \in Int
  <2> SUFFICES ASSUME NEW V \in SUBSET S
               PROVE  IsFiniteSet(V) /\ SumFunctionOnSet(f, V) \in Int
    OBVIOUS
  <2>1. IsFiniteSet(V)
    BY FS_Subset
  <2> QED BY <2>1, SumType
<1>4. PICK y \in U : y \notin T
  <2>1. SUFFICES ASSUME U \subseteq T PROVE FALSE
    OBVIOUS
  <2>2. U = T
    BY <1>2, <2>1
  <2>3. SumFunctionOnSet(f, T) \in Int
    BY <1>3
  <2> QED BY <1>2, <2>2, <2>3
<1>5. U \ {y} \notin B
  BY <1>2, <1>4
<1>6. SumFunctionOnSet(f, T) <= SumFunctionOnSet(f, U \ {y})
  BY <1>4, <1>5
<1>7. SumFunctionOnSet(f, U) = f[y] + SumFunctionOnSet(f, U \ {y})
  BY <1>3, <1>4, SumRemove
<1>8. f[y] \in Nat
  BY <1>4
<1> QED BY <1>2, <1>3, <1>6, <1>7, <1>8
=============================================================================
