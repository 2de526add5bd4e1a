--------------------------------- MODULE Sums ---------------------------------
(* What SumFunctionOnSet computes: the sum over a finite set does not depend on   *)
(* the order in which the fold takes the elements.  The fold is a recursive       *)
(* function; its equation, and every fact about it, is proved from the            *)
(* well-foundedness of strict inclusion between the subsets of a finite set.  So   *)
(* are the least and the greatest element of a finite set of numbers (Extremes).  *)
EXTENDS Integers, FiniteSetsExt, FiniteSetTheorems, WellFoundedInduction, TLAPS

(* Each non-empty set of subsets of a finite set has a member that includes no    *)
(* other one.                                                                     *)
LEMMA LeastSubset ==
    ASSUME NEW S, IsFiniteSet(S), NEW F \in SUBSET (SUBSET S), F # {}
    PROVE  \E T \in F : \A U \in F : U \subseteq T => U = T
<1>1. IsWellFoundedOn(StrictSubsetOrdering(S), SUBSET S)
  BY FS_StrictSubsetOrderingWellFounded, FS_FiniteSubsetsOfFinite
<1>2. PICK T \in F : \A U \in F : ~(<<U, T>> \in StrictSubsetOrdering(S))
  BY <1>1, WFMin
<1>3. ASSUME NEW U \in F, U \subseteq T, U # T PROVE FALSE
  <2>1. <<U, T>> \in (SUBSET S) \X (SUBSET S)
    OBVIOUS
  <2>2. <<U, T>> \in StrictSubsetOrdering(S)
    BY <1>3, <2>1 DEF StrictSubsetOrdering
  <2> QED BY <1>2, <2>2
<1> QED BY <1>3

(* Induction: a set of subsets that has the empty one, and each one whose         *)
(* subsets with an element less it has, has all.                                  *)
LEMMA AllSubsets ==
    ASSUME NEW S, IsFiniteSet(S), NEW F \in SUBSET (SUBSET S), {} \in F,
           \A T \in SUBSET S : T # {} /\ (\A x \in T : T \ {x} \in F) => T \in F
    PROVE  F = SUBSET S
<1> SUFFICES ASSUME (SUBSET S) \ F # {} PROVE FALSE
  OBVIOUS
<1> DEFINE Out == (SUBSET S) \ F
<1>0. Out \in SUBSET (SUBSET S) /\ Out # {}
  OBVIOUS
<1>1. PICK T \in Out : \A U \in Out : U \subseteq T => U = T
  <2> HIDE DEF Out
  <2> QED BY <1>0, LeastSubset
<1>2. \A x \in T : T \ {x} \in F
  BY <1>1
<1> QED BY <1>1, <1>2

--------------------------------------------------------------------------------
(* The function that the fold defines. *)

First(s) == CHOOSE x \in s : TRUE

Folds(f, S, g) ==
  g = [s \in SUBSET S |-> IF s = {} THEN 0 ELSE f[First(s)] + g[s \ {First(s)}]]

LEMMA FirstIn == ASSUME NEW s, s # {} PROVE First(s) \in s
  BY DEF First

LEMMA FoldsAt ==
    ASSUME NEW f, NEW S, NEW g, Folds(f, S, g), NEW s \in SUBSET S
    PROVE  g[s] = IF s = {} THEN 0 ELSE f[First(s)] + g[s \ {First(s)}]
  BY DEF Folds

LEMMA FoldsAgree ==
    ASSUME NEW f, NEW S, NEW T, NEW g, NEW h, Folds(f, S, g), Folds(f, T, h),
           NEW W, IsFiniteSet(W), W \subseteq S, W \subseteq T
    PROVE  g[W] = h[W]
<1> DEFINE F == {U \in SUBSET W : g[U] = h[U]}
<1>1. {} \in F
  BY FoldsAt
<1>2. ASSUME NEW U \in SUBSET W, U # {}, \A x \in U : U \ {x} \in F PROVE U \in F
  <2>1. First(U) \in U
    BY <1>2, FirstIn
  <2>2. g[U] = f[First(U)] + g[U \ {First(U)}] /\ h[U] = f[First(U)] + h[U \ {First(U)}]
    BY <1>2, FoldsAt
  <2> QED BY <1>2, <2>1, <2>2
<1>3. F \in SUBSET (SUBSET W)
  OBVIOUS
<1>4. F = SUBSET W
  <2> HIDE DEF F
  <2> QED BY <1>1, <1>2, <1>3, AllSubsets
<1> QED BY <1>4

LEMMA FoldsExist ==
    ASSUME NEW f, NEW S, IsFiniteSet(S)
    PROVE  \E g : Folds(f, S, g)
<1> DEFINE F == {T \in SUBSET S : \E g : Folds(f, T, g)}
           G(T) == CHOOSE g : Folds(f, T, g)
<1>1. ASSUME NEW T \in SUBSET S, \A x \in T : T \ {x} \in F
      PROVE  T \in F
  <2> DEFINE Rest(s) == s \ {First(s)}
             h == [s \in SUBSET T |-> IF s = {} THEN 0 ELSE f[First(s)] + G(Rest(s))[Rest(s)]]
  <2>1. ASSUME NEW U \in SUBSET T, U # T PROVE Folds(f, U, G(U))
    <3>1. PICK x \in T : x \notin U
      BY <2>1
    <3>2. PICK k : Folds(f, T \ {x}, k)
      BY <1>1
    <3>3. Folds(f, U, [s \in SUBSET U |-> k[s]])
      <4>0. DEFINE k2 == [s \in SUBSET U |-> k[s]]
      <4>1. ASSUME NEW s \in SUBSET U
            PROVE  k2[s] = IF s = {} THEN 0 ELSE f[First(s)] + k2[Rest(s)]
        <5>1. s \in SUBSET (T \ {x}) /\ Rest(s) \in SUBSET U
          BY <3>1
        <5>2. k[s] = IF s = {} THEN 0 ELSE f[First(s)] + k[Rest(s)]
          BY <3>2, <5>1, FoldsAt
        <5> QED BY <5>1, <5>2
      <4> HIDE DEF Rest
      <4>2. k2 = [s \in SUBSET U |-> IF s = {} THEN 0 ELSE f[First(s)] + k2[Rest(s)]]
        BY <4>1
      <4> QED BY <4>2 DEF Folds, Rest
    <3> QED BY <3>3
  <2>2. ASSUME NEW s \in SUBSET T, s # {}
        PROVE  Rest(s) \in SUBSET T /\ Rest(s) # T /\ h[Rest(s)] = G(Rest(s))[Rest(s)]
    <3>1. First(s) \in s
      BY <2>2, FirstIn
    <3>2. Rest(s) \in SUBSET T /\ Rest(s) # T
      BY <3>1
    <3> DEFINE U == Rest(s)
    <3> HIDE DEF U, Rest, G
    <3>3. Folds(f, U, G(U))
      BY <2>1, <3>2 DEF U
    <3>4. CASE U = {}
      BY <3>2, <3>3, <3>4, FoldsAt DEF U
    <3>5. CASE U # {}
      <4>1. First(U) \in U
        BY <3>5, FirstIn
      <4>2. Rest(U) \in SUBSET U /\ Rest(U) # T
        BY <3>2, <4>1 DEF Rest, U
      <4>3. Rest(U) \in SUBSET T
        BY <3>2, <4>2 DEF U
      <4>4. Folds(f, Rest(U), G(Rest(U)))
        BY <2>1, <4>2, <4>3
      <4>5. IsFiniteSet(Rest(U))
        BY <4>3, FS_Subset
      <4>6. G(U)[Rest(U)] = G(Rest(U))[Rest(U)]
        BY <3>3, <4>2, <4>4, <4>5, FoldsAgree
      <4>7. G(U)[U] = f[First(U)] + G(U)[Rest(U)]
        BY <3>3, <3>5, FoldsAt DEF Rest
      <4>8. h[U] = f[First(U)] + G(Rest(U))[Rest(U)]
        BY <3>2, <3>5 DEF U
      <4> QED BY <3>2, <4>6, <4>7, <4>8 DEF U
    <3> QED BY <3>4, <3>5
  <2> HIDE DEF G, Rest
  <2>3. \A s \in SUBSET T : h[s] = IF s = {} THEN 0 ELSE f[First(s)] + h[Rest(s)]
    BY <2>2
  <2>4. h = [s \in SUBSET T |-> IF s = {} THEN 0 ELSE f[First(s)] + h[Rest(s)]]
    BY <2>3
  <2>5. Folds(f, T, h)
    BY <2>4 DEF Folds, Rest
  <2> QED BY <2>5
<1>2. {} \in F
  BY <1>1
<1>3. F \in SUBSET (SUBSET S)
  OBVIOUS
<1>4. F = SUBSET S
  <2> HIDE DEF F
  <2> QED BY <1>1, <1>2, <1>3, AllSubsets
<1> QED BY <1>4

--------------------------------------------------------------------------------
(* Sums. *)

LEMMA SumIsFold ==
    ASSUME NEW f, NEW S, IsFiniteSet(S)
    PROVE  \E g : Folds(f, S, g) /\ SumFunctionOnSet(f, S) = g[S]
<1> DEFINE iter == CHOOSE g : g = [s \in SUBSET S |->
                      IF s = {} THEN 0 ELSE f[CHOOSE x \in s : TRUE] + g[s \ {CHOOSE x \in s : TRUE}]]
<1>1. SumFunctionOnSet(f, S) = iter[S]
  BY DEF SumFunctionOnSet, FoldFunctionOnSet, MapThenFoldSet
<1>2. PICK k : Folds(f, S, k)
  BY FoldsExist
<1>3. \E g : g = [s \in SUBSET S |->
                IF s = {} THEN 0 ELSE f[CHOOSE x \in s : TRUE] + g[s \ {CHOOSE x \in s : TRUE}]]
  BY <1>2 DEF Folds, First
<1>4. Folds(f, S, iter)
  BY <1>3 DEF Folds, First
<1> QED BY <1>1, <1>4

(* A sum over nothing is zero. *)
LEMMA SumEmpty == ASSUME NEW f PROVE SumFunctionOnSet(f, {}) = 0
<1>1. PICK g : Folds(f, {}, g) /\ SumFunctionOnSet(f, {}) = g[{}]
  BY SumIsFold, FS_EmptySet
<1> QED BY <1>1, FoldsAt

LEMMA SumFirst ==
    ASSUME NEW f, NEW S, IsFiniteSet(S), S # {}
    PROVE  SumFunctionOnSet(f, S) = f[First(S)] + SumFunctionOnSet(f, S \ {First(S)})
<1> DEFINE T == S \ {First(S)}
<1>1. PICK g : Folds(f, S, g) /\ SumFunctionOnSet(f, S) = g[S]
  BY SumIsFold
<1>2. IsFiniteSet(T)
  BY FS_Subset
<1>3. PICK h : Folds(f, T, h) /\ SumFunctionOnSet(f, T) = h[T]
  BY <1>2, SumIsFold
<1>4. g[T] = h[T]
  BY <1>1, <1>2, <1>3, FoldsAgree
<1>5. g[S] = f[First(S)] + g[T]
  BY <1>1, FoldsAt
<1> QED BY <1>1, <1>3, <1>4, <1>5

(* A sum of integers is an integer. *)
LEMMA SumInt ==
    ASSUME NEW f, NEW S, IsFiniteSet(S), \A x \in S : f[x] \in Int
    PROVE  SumFunctionOnSet(f, S) \in Int
<1> DEFINE F == {T \in SUBSET S : SumFunctionOnSet(f, T) \in Int}
<1>1. {} \in F
  BY SumEmpty
<1>2. ASSUME NEW T \in SUBSET S, T # {}, \A x \in T : T \ {x} \in F PROVE T \in F
  <2>1. First(T) \in T /\ IsFiniteSet(T)
    BY <1>2, FirstIn, FS_Subset
  <2>2. SumFunctionOnSet(f, T) = f[First(T)] + SumFunctionOnSet(f, T \ {First(T)})
    BY <1>2, <2>1, SumFirst
  <2> QED BY <1>2, <2>1, <2>2
<1>3. F \in SUBSET (SUBSET S)
  OBVIOUS
<1>4. F = SUBSET S
  <2> HIDE DEF F
  <2> QED BY <1>1, <1>2, <1>3, AllSubsets
<1> QED BY <1>4

(* Any element may be taken first: addition commutes. *)
LEMMA SumRest ==
    ASSUME NEW f, NEW S, IsFiniteSet(S), \A x \in S : f[x] \in Int, NEW x \in S
    PROVE  SumFunctionOnSet(f, S) = f[x] + SumFunctionOnSet(f, S \ {x})
<1> DEFINE Sum(T) == SumFunctionOnSet(f, T)
           F == {T \in SUBSET S : \A y \in T : Sum(T) = f[y] + Sum(T \ {y})}
<1>0. \A T \in SUBSET S : IsFiniteSet(T) /\ Sum(T) \in Int
  BY SumInt, FS_Subset
<1>1. {} \in F
  OBVIOUS
<1>2. ASSUME NEW T \in SUBSET S, T # {}, \A y \in T : T \ {y} \in F PROVE T \in F
  <2> SUFFICES ASSUME NEW y \in T PROVE Sum(T) = f[y] + Sum(T \ {y})
    OBVIOUS
  <2> DEFINE c == First(T)
  <2>1. c \in T
    BY FirstIn
  <2>2. Sum(T) = f[c] + Sum(T \ {c})
    BY <1>0, SumFirst
  <2> HIDE DEF c, Sum
  <2>3. CASE y = c
    BY <2>2, <2>3
  <2>4. CASE y # c
    <3>1. Sum(T \ {c}) = f[y] + Sum((T \ {c}) \ {y})
      BY <1>2, <2>1, <2>4
    <3>2. Sum(T \ {y}) = f[c] + Sum((T \ {y}) \ {c})
      BY <1>2, <2>1, <2>4
    <3>3. PICK U \in SUBSET S : U = (T \ {c}) \ {y} /\ U = (T \ {y}) \ {c}
      OBVIOUS
    <3>4. f[c] \in Int /\ f[y] \in Int /\ Sum(U) \in Int
      BY <1>0, <2>1
    <3>5. Sum(T) = f[c] + (f[y] + Sum(U)) /\ Sum(T \ {y}) = f[c] + Sum(U)
      BY <2>2, <3>1, <3>2, <3>3
    <3> QED BY <3>4, <3>5
  <2> QED BY <2>3, <2>4
<1>3. F \in SUBSET (SUBSET S)
  OBVIOUS
<1>4. F = SUBSET S
  <2> HIDE DEF F
  <2> QED BY <1>1, <1>2, <1>3, AllSubsets
<1> QED BY <1>4

(* The sum depends on the values of the function on the set alone. *)
LEMMA SumSame ==
    ASSUME NEW f, NEW g, NEW S, IsFiniteSet(S), \A x \in S : f[x] = g[x]
    PROVE  SumFunctionOnSet(f, S) = SumFunctionOnSet(g, S)
<1> DEFINE F == {T \in SUBSET S : SumFunctionOnSet(f, T) = SumFunctionOnSet(g, T)}
<1>1. {} \in F
  BY SumEmpty
<1>2. ASSUME NEW T \in SUBSET S, T # {}, \A x \in T : T \ {x} \in F PROVE T \in F
  <2>1. First(T) \in T /\ IsFiniteSet(T)
    BY <1>2, FirstIn, FS_Subset
  <2>2. /\ SumFunctionOnSet(f, T) = f[First(T)] + SumFunctionOnSet(f, T \ {First(T)})
        /\ SumFunctionOnSet(g, T) = g[First(T)] + SumFunctionOnSet(g, T \ {First(T)})
    BY <1>2, <2>1, SumFirst
  <2>3. SumFunctionOnSet(f, T \ {First(T)}) = SumFunctionOnSet(g, T \ {First(T)})
    BY <1>2, <2>1
  <2> QED BY <2>1, <2>2, <2>3
<1>3. F \in SUBSET (SUBSET S)
  OBVIOUS
<1>4. F = SUBSET S
  <2> HIDE DEF F
  <2> QED BY <1>1, <1>2, <1>3, AllSubsets
<1> QED BY <1>4

(* A table that gains a row: the sum gains its value. *)
LEMMA SumGrows ==
    ASSUME NEW f, NEW g, NEW S, IsFiniteSet(S), NEW x, x \notin S,
           \A y \in S : g[y] = f[y] /\ g[y] \in Int, g[x] \in Int
    PROVE  /\ IsFiniteSet(S \cup {x})
           /\ SumFunctionOnSet(g, S \cup {x}) = SumFunctionOnSet(f, S) + g[x]
<1>1. IsFiniteSet(S \cup {x})
  BY FS_AddElement
<1>2. SumFunctionOnSet(g, S \cup {x}) = g[x] + SumFunctionOnSet(g, (S \cup {x}) \ {x})
  BY <1>1, SumRest
<1>3. (S \cup {x}) \ {x} = S
  OBVIOUS
<1>4. SumFunctionOnSet(g, S) = SumFunctionOnSet(f, S) /\ SumFunctionOnSet(g, S) \in Int
  BY SumSame, SumInt
<1>5. SumFunctionOnSet(g, S \cup {x}) = g[x] + SumFunctionOnSet(f, S)
  BY <1>2, <1>3, <1>4
<1>6. SumFunctionOnSet(f, S) \in Int
  BY <1>4
<1> QED BY <1>1, <1>5, <1>6

(* A sum of naturals is a natural, at least each of its terms. *)
LEMMA SumNat ==
    ASSUME NEW f, NEW S, IsFiniteSet(S), \A x \in S : f[x] \in Nat
    PROVE  /\ SumFunctionOnSet(f, S) \in Nat
           /\ \A x \in S : f[x] <= SumFunctionOnSet(f, S)
<1> DEFINE F == {T \in SUBSET S : SumFunctionOnSet(f, T) \in Nat}
<1>1. {} \in F
  BY SumEmpty
<1>2. ASSUME NEW T \in SUBSET S, T # {}, \A x \in T : T \ {x} \in F PROVE T \in F
  <2>1. First(T) \in T /\ IsFiniteSet(T)
    BY <1>2, FirstIn, FS_Subset
  <2>2. SumFunctionOnSet(f, T) = f[First(T)] + SumFunctionOnSet(f, T \ {First(T)})
    BY <1>2, <2>1, SumFirst
  <2> QED BY <1>2, <2>1, <2>2
<1>3. F \in SUBSET (SUBSET S)
  OBVIOUS
<1>4. F = SUBSET S
  <2> HIDE DEF F
  <2> QED BY <1>1, <1>2, <1>3, AllSubsets
<1>5. ASSUME NEW x \in S PROVE f[x] <= SumFunctionOnSet(f, S)
  <2>1. SumFunctionOnSet(f, S) = f[x] + SumFunctionOnSet(f, S \ {x})
    BY SumRest
  <2>2. SumFunctionOnSet(f, S \ {x}) \in Nat
    BY <1>4
  <2> QED BY <2>1, <2>2
<1> QED BY <1>4, <1>5

(* Adding to the terms in a part of the set adds the sum over that part. *)
LEMMA SumPlus ==
    ASSUME NEW f, NEW g, NEW h, NEW S, NEW T, IsFiniteSet(S), T \subseteq S,
           \A x \in S : f[x] \in Int, \A x \in T : h[x] \in Int,
           \A x \in S : g[x] = IF x \in T THEN f[x] + h[x] ELSE f[x]
    PROVE  SumFunctionOnSet(g, S) = SumFunctionOnSet(f, S) + SumFunctionOnSet(h, T)
<1> DEFINE Holds(U) == SumFunctionOnSet(g, U) =
                         SumFunctionOnSet(f, U) + SumFunctionOnSet(h, U \cap T)
           F == {U \in SUBSET S : Holds(U)}
<1>1. {} \in F
  BY SumEmpty
<1>2. ASSUME NEW U \in SUBSET S, U # {}, \A x \in U : U \ {x} \in F PROVE U \in F
  <2> DEFINE c == First(U)
             V == U \ {c}
  <2>1. c \in U /\ IsFiniteSet(U) /\ IsFiniteSet(V) /\ IsFiniteSet(U \cap T)
    BY <1>2, FirstIn, FS_Subset
  <2>2. /\ SumFunctionOnSet(g, U) = g[c] + SumFunctionOnSet(g, V)
        /\ SumFunctionOnSet(f, U) = f[c] + SumFunctionOnSet(f, V)
    BY <1>2, <2>1, SumFirst
  <2> HIDE DEF c
  <2>3. Holds(V)
    BY <1>2, <2>1
  <2>4. SumFunctionOnSet(f, V) \in Int
    BY <2>1, SumInt
  <2>5. IsFiniteSet(V \cap T) /\ SumFunctionOnSet(h, V \cap T) \in Int
    <3>1. IsFiniteSet(V \cap T)
      BY <2>1, FS_Subset
    <3> QED BY <3>1, SumInt
  <2>6. CASE c \in T
    <3>1. V \cap T = (U \cap T) \ {c} /\ c \in U \cap T
      BY <2>1, <2>6
    <3>2. SumFunctionOnSet(h, U \cap T) = h[c] + SumFunctionOnSet(h, (U \cap T) \ {c})
      BY <2>1, <3>1, SumRest
    <3>3. g[c] = f[c] + h[c] /\ f[c] \in Int /\ h[c] \in Int
      BY <2>1, <2>6
    <3>4. /\ SumFunctionOnSet(g, U) = (f[c] + h[c]) + SumFunctionOnSet(g, V)
          /\ SumFunctionOnSet(h, U \cap T) = h[c] + SumFunctionOnSet(h, V \cap T)
      BY <2>2, <3>1, <3>2, <3>3
    <3> DEFINE a == SumFunctionOnSet(f, V)
               b == SumFunctionOnSet(h, V \cap T)
    <3> HIDE DEF a, b
    <3>5. a \in Int /\ b \in Int
      BY <2>4, <2>5 DEF a, b
    <3>6. /\ SumFunctionOnSet(g, U) = (f[c] + h[c]) + (a + b)
          /\ SumFunctionOnSet(f, U) = f[c] + a
          /\ SumFunctionOnSet(h, U \cap T) = h[c] + b
      BY <2>2, <2>3, <3>4 DEF a, b
    <3> QED BY <3>3, <3>5, <3>6
  <2>7. CASE c \notin T
    <3>1. V \cap T = U \cap T
      BY <2>7
    <3>2. g[c] = f[c] /\ f[c] \in Int
      BY <2>1, <2>7
    <3> DEFINE a == SumFunctionOnSet(f, V)
               b == SumFunctionOnSet(h, V \cap T)
    <3>3. SumFunctionOnSet(h, U \cap T) = b
      BY <3>1
    <3> HIDE DEF a, b
    <3>4. a \in Int /\ b \in Int
      BY <2>4, <2>5 DEF a, b
    <3>5. /\ SumFunctionOnSet(g, U) = f[c] + (a + b)
          /\ SumFunctionOnSet(f, U) = f[c] + a
      BY <2>2, <2>3, <3>2 DEF a, b
    <3> QED BY <3>2, <3>3, <3>4, <3>5
  <2> QED BY <2>6, <2>7
<1>3. F \in SUBSET (SUBSET S)
  OBVIOUS
<1>4. F = SUBSET S
  <2> HIDE DEF F
  <2> QED BY <1>1, <1>2, <1>3, AllSubsets
<1>5. S \cap T = T
  OBVIOUS
<1> QED BY <1>4, <1>5

(* A sum of zeros is zero: it is twice itself. *)
LEMMA SumZero ==
    ASSUME NEW f, NEW S, IsFiniteSet(S), \A x \in S : f[x] = 0
    PROVE  SumFunctionOnSet(f, S) = 0
<1>1. SumFunctionOnSet(f, S) = SumFunctionOnSet(f, S) + SumFunctionOnSet(f, S)
  BY SumPlus
<1>2. SumFunctionOnSet(f, S) \in Int
  BY SumInt
<1> DEFINE a == SumFunctionOnSet(f, S)
<1> HIDE DEF a
<1>3. a = a + a /\ a \in Int
  BY <1>1, <1>2 DEF a
<1>4. a = 0
  BY <1>3
<1> QED BY <1>4 DEF a

(* The sum over a whole function that gains an argument. *)
LEMMA SumWhole ==
    ASSUME NEW f, NEW g, NEW x, IsFiniteSet(DOMAIN f), x \notin DOMAIN f,
           DOMAIN g = DOMAIN f \union {x},
           \A y \in DOMAIN f : g[y] = f[y] /\ g[y] \in Int, g[x] \in Int
    PROVE  SumFunction(f) \in Int /\ SumFunction(g) = SumFunction(f) + g[x]
<1> PICK S, T : S = DOMAIN f /\ T = DOMAIN g
  OBVIOUS
<1>1. SumFunction(f) = SumFunctionOnSet(f, S) /\ SumFunction(g) = SumFunctionOnSet(g, T)
  BY DEF SumFunction
<1>2. T = S \cup {x}
  OBVIOUS
<1>3. SumFunctionOnSet(g, S \cup {x}) = SumFunctionOnSet(f, S) + g[x]
  BY SumGrows
<1>4. SumFunctionOnSet(f, S) \in Int
  BY SumInt
<1> QED BY <1>1, <1>2, <1>3, <1>4

--------------------------------------------------------------------------------
(* A finite set of numbers has a greatest and a least element. *)
LEMMA Extremes ==
    ASSUME NEW S \in SUBSET Nat, IsFiniteSet(S), S # {}
    PROVE  /\ \E m \in S : \A n \in S : n <= m
           /\ \E m \in S : \A n \in S : m <= n
<1> DEFINE Up(p) == {q \in S : q >= p}
           Down(p) == {q \in S : q <= p}
<1>0. /\ {Up(p) : p \in S} \subseteq FiniteSubsetsOf(S) /\ {Up(p) : p \in S} # {}
      /\ {Down(p) : p \in S} \subseteq FiniteSubsetsOf(S) /\ {Down(p) : p \in S} # {}
  <2>1. ASSUME NEW p \in S PROVE IsFiniteSet(Up(p)) /\ IsFiniteSet(Down(p))
    BY FS_Subset
  <2> QED BY <2>1 DEF FiniteSubsetsOf
<1>1. \E m \in S : \A n \in S : n <= m
  <2>1. PICK U \in {Up(p) : p \in S} :
           \A V \in {Up(p) : p \in S} : ~(<<V, U>> \in StrictSubsetOrdering(S))
    BY <1>0, FS_StrictSubsetOrderingWellFounded, WFMin
  <2>2. PICK m \in S : U = Up(m)
    BY <2>1
  <2>3. ASSUME NEW n \in S, ~(n <= m) PROVE FALSE
    <3>0. n \in Nat /\ m \in Nat /\ n > m /\ \A q \in S : q \in Nat
      BY <2>3
    <3>1. Up(n) \subseteq Up(m) /\ m \in Up(m) /\ m \notin Up(n)
      <4>1. ASSUME NEW q \in S, q >= n PROVE q >= m
        BY <3>0, <4>1
      <4>2. m >= m /\ ~(m >= n)
        BY <3>0
      <4> QED BY <4>1, <4>2
    <3>2. <<Up(n), Up(m)>> \in StrictSubsetOrdering(S)
      BY <3>1 DEF StrictSubsetOrdering
    <3> QED BY <2>1, <2>2, <3>2
  <2> QED BY <2>3
<1>2. \E m \in S : \A n \in S : m <= n
  <2>1. PICK U \in {Down(p) : p \in S} :
           \A V \in {Down(p) : p \in S} : ~(<<V, U>> \in StrictSubsetOrdering(S))
    BY <1>0, FS_StrictSubsetOrderingWellFounded, WFMin
  <2>2. PICK m \in S : U = Down(m)
    BY <2>1
  <2>3. ASSUME NEW n \in S, ~(m <= n) PROVE FALSE
    <3>0. n \in Nat /\ m \in Nat /\ n < m /\ \A q \in S : q \in Nat
      BY <2>3
    <3>1. Down(n) \subseteq Down(m) /\ m \in Down(m) /\ m \notin Down(n)
      <4>1. ASSUME NEW q \in S, q <= n PROVE q <= m
        BY <3>0, <4>1
      <4>2. m <= m /\ ~(m <= n)
        BY <3>0
      <4> QED BY <4>1, <4>2
    <3>2. <<Down(n), Down(m)>> \in StrictSubsetOrdering(S)
      BY <3>1 DEF StrictSubsetOrdering
    <3> QED BY <2>1, <2>2, <3>2
  <2> QED BY <2>3
<1> QED BY <1>1, <1>2

================================================================================
