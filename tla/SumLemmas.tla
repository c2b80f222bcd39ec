----------------------------- MODULE SumLemmas -----------------------------
(***************************************************************************)
(* Sums over finite sets: SumFunctionOnSet(f, S) of the community modules, *)
(* which takes the elements of S in the order CHOOSE takes them in.  What  *)
(* a sum comes to does not depend on that order; it splits over the parts  *)
(* of S, and counting is a sum of ones.                                    *)
(*                                                                         *)
(* Induction on a finite set is by its smallest part that has not the      *)
(* property (SmallestPart).                                                *)
(***************************************************************************)
EXTENDS Functions, FiniteSets, FiniteSetTheorems, WellFoundedInduction, TLAPS

\* Among the parts of a finite set that P picks out, one has no smaller one in it.
LEMMA SmallestPart ==
    ASSUME NEW S, IsFiniteSet(S), NEW P \in SUBSET SUBSET S, P # {}
    PROVE  \E T \in P : \A U \in P : U \subseteq T => U = T
  <1> DEFINE R == StrictSubsetOrdering(S)
  <1>1. IsWellFoundedOn(R, FiniteSubsetsOf(S))
    BY FS_StrictSubsetOrderingWellFounded
  <1>2. P \subseteq FiniteSubsetsOf(S)
    BY FS_Subset DEF FiniteSubsetsOf
  <1>3. PICK T \in P : \A U \in P : ~ (<<U, T>> \in R)
    <2> HIDE DEF R
    <2> QED  BY <1>1, <1>2, WFMin
  <1>4. ASSUME NEW U \in P, U \subseteq T, U # T
        PROVE  FALSE
    <2>1. <<U, T>> \in R
      BY <1>4 DEF StrictSubsetOrdering
    <2> HIDE DEF R
    <2> QED  BY <1>3, <2>1
  <1> QED  BY <1>4

-----------------------------------------------------------------------------
(* The recursion in the definition of a sum has one solution.              *)

Pick(s) == CHOOSE x \in s : TRUE

Rest(s) == s \ {Pick(s)}

SumStep(f, s, g) == IF s = {} THEN 0 ELSE f[Pick(s)] + g[Rest(s)]

\* g sums the parts of S.
Sums(f, S, g) == g = [s \in SUBSET S |-> SumStep(f, s, g)]

Total(f, S) == (CHOOSE g : Sums(f, S, g))[S]

LEMMA PickIn ==
    ASSUME NEW s, s # {}
    PROVE  Pick(s) \in s /\ Rest(s) \subseteq s /\ Rest(s) # s
  BY DEF Pick, Rest

LEMMA SumIsTotal ==
    ASSUME NEW f, NEW S
    PROVE  SumFunctionOnSet(f, S) = Total(f, S)
  BY DEF SumFunctionOnSet, FoldFunctionOnSet, MapThenFoldSet, Total, Sums, SumStep, Pick, Rest

\* Two solutions agree where both are defined.
LEMMA SumsAgree ==
    ASSUME NEW f, NEW V, IsFiniteSet(V), NEW S, NEW T, V \subseteq S, V \subseteq T,
           NEW g, Sums(f, S, g), NEW h, Sums(f, T, h)
    PROVE  g[V] = h[V]
  <1> DEFINE P == {s \in SUBSET V : g[s] # h[s]}
  <1> SUFFICES ASSUME P # {} PROVE FALSE
    OBVIOUS
  <1>1. PICK s \in P : \A u \in P : u \subseteq s => u = s
    <2>1. P \in SUBSET SUBSET V
      OBVIOUS
    <2> HIDE DEF P
    <2> QED  BY <2>1, SmallestPart
  <1>2. s \in SUBSET S /\ s \in SUBSET T /\ s \in SUBSET V /\ g[s] # h[s]
    OBVIOUS
  <1>3. g[s] = SumStep(f, s, g) /\ h[s] = SumStep(f, s, h)
    <2>1. \A u \in SUBSET S : g[u] = SumStep(f, u, g)
      BY DEF Sums
    <2>2. \A u \in SUBSET T : h[u] = SumStep(f, u, h)
      BY DEF Sums
    <2> QED  BY <2>1, <2>2, <1>2
  <1>4. s # {}
    BY <1>2, <1>3 DEF SumStep
  <1>5. Rest(s) \subseteq s /\ Rest(s) # s
    BY <1>4, PickIn
  <1>6. g[Rest(s)] # h[Rest(s)]
    BY <1>2, <1>3, <1>4 DEF SumStep
  <1> QED  BY <1>1, <1>2, <1>5, <1>6

\* There is a solution for every finite set.
LEMMA SumsExist ==
    ASSUME NEW f, NEW S, IsFiniteSet(S)
    PROVE  \E g : Sums(f, S, g)
  <1> DEFINE P == {T \in SUBSET S : ~ \E g : Sums(f, T, g)}
  <1> SUFFICES ASSUME P # {} PROVE FALSE
    OBVIOUS
  <1>1. PICK T \in P : \A U \in P : U \subseteq T => U = T
    <2>1. P \in SUBSET SUBSET S
      OBVIOUS
    <2> HIDE DEF P
    <2> QED  BY <2>1, SmallestPart
  <1> DEFINE G(U) == CHOOSE g : Sums(f, U, g)
             h == [s \in SUBSET T |-> IF s = {} THEN 0 ELSE f[Pick(s)] + G(Rest(s))[Rest(s)]]
  <1>2. \A U \in SUBSET T : U # T => Sums(f, U, G(U))
    <2> SUFFICES ASSUME NEW U \in SUBSET T, U # T PROVE Sums(f, U, G(U))
      OBVIOUS
    <2>1. \E g : Sums(f, U, g)
      BY <1>1
    <2> QED  BY <2>1
  <1>3. \A s \in SUBSET T : s # {} => h[Rest(s)] = G(Rest(s))[Rest(s)]
    <2> SUFFICES ASSUME NEW s \in SUBSET T, s # {} PROVE h[Rest(s)] = G(Rest(s))[Rest(s)]
      OBVIOUS
    <2> DEFINE u == Rest(s)
    <2>1. u \in SUBSET T /\ u # T
      BY PickIn
    <2>2. Sums(f, u, G(u))
      BY <1>2, <2>1
    <2>3. G(u)[u] = SumStep(f, u, G(u))
      <3> HIDE DEF u, G
      <3>1. \A v \in SUBSET u : G(u)[v] = SumStep(f, v, G(u))
        BY <2>2 DEF Sums
      <3> QED  BY <3>1
    <2>4. CASE u = {}
      BY <2>1, <2>3, <2>4 DEF SumStep
    <2>5. CASE u # {}
      <3>1. Rest(u) \subseteq u /\ Rest(u) # u /\ Rest(u) # T /\ Rest(u) \in SUBSET T
        BY <2>1, <2>5, PickIn
      <3>2. Sums(f, Rest(u), G(Rest(u)))
        BY <1>2, <3>1
      <3>3. IsFiniteSet(Rest(u))
        BY <1>1, <3>1, FS_Subset
      <3>4. G(u)[Rest(u)] = G(Rest(u))[Rest(u)]
        <4> HIDE DEF u, G
        <4> QED  BY <2>2, <3>1, <3>2, <3>3, SumsAgree
      <3>5. h[u] = f[Pick(u)] + G(Rest(u))[Rest(u)]
        BY <2>1, <2>5
      <3>6. G(u)[u] = f[Pick(u)] + G(u)[Rest(u)]
        BY <2>3, <2>5 DEF SumStep
      <3> QED  BY <3>4, <3>5, <3>6
    <2> QED  BY <2>4, <2>5
  <1>4. h = [s \in SUBSET T |-> SumStep(f, s, h)]
    <2>1. ASSUME NEW s \in SUBSET T
          PROVE  h[s] = SumStep(f, s, h)
      <3>1. h[s] = IF s = {} THEN 0 ELSE f[Pick(s)] + G(Rest(s))[Rest(s)]
        OBVIOUS
      <3> HIDE DEF h, G
      <3> QED  BY <1>3, <3>1 DEF SumStep
    <2>2. h = [s \in SUBSET T |-> h[s]]
      OBVIOUS
    <2> HIDE DEF h
    <2> QED  BY <2>1, <2>2
  <1>5. Sums(f, T, h)
    <2> HIDE DEF h
    <2> QED  BY <1>4 DEF Sums
  <1> HIDE DEF h, G
  <1> QED  BY <1>1, <1>5

-----------------------------------------------------------------------------
(* What a sum comes to.                                                    *)

LEMMA SumEmpty ==
    ASSUME NEW f
    PROVE  SumFunctionOnSet(f, {}) = 0
  <1>1. \E g : Sums(f, {}, g)
    BY SumsExist, FS_EmptySet
  <1> DEFINE g == CHOOSE g : Sums(f, {}, g)
  <1>2. Sums(f, {}, g)
    BY <1>1
  <1>3. g[{}] = 0
    <2> HIDE DEF g
    <2> QED  BY <1>2 DEF Sums, SumStep
  <1> QED  BY <1>3, SumIsTotal DEF Total

\* The recursion, for sums themselves.
LEMMA SumPicks ==
    ASSUME NEW f, NEW S, IsFiniteSet(S), S # {}
    PROVE  SumFunctionOnSet(f, S) = f[Pick(S)] + SumFunctionOnSet(f, Rest(S))
  <1> DEFINE G(U) == CHOOSE g : Sums(f, U, g)
  <1>1. Rest(S) \subseteq S /\ IsFiniteSet(Rest(S))
    BY PickIn, FS_Subset
  <1>2. Sums(f, S, G(S)) /\ Sums(f, Rest(S), G(Rest(S)))
    <2>1. \E g : Sums(f, S, g)
      BY SumsExist
    <2>2. \E g : Sums(f, Rest(S), g)
      BY <1>1, SumsExist
    <2> QED  BY <2>1, <2>2
  <1>3. SumFunctionOnSet(f, S) = G(S)[S] /\ SumFunctionOnSet(f, Rest(S)) = G(Rest(S))[Rest(S)]
    BY SumIsTotal DEF Total
  <1> HIDE DEF G
  <1>4. G(S)[Rest(S)] = G(Rest(S))[Rest(S)]
    BY <1>1, <1>2, SumsAgree
  <1>5. G(S)[S] = SumStep(f, S, G(S))
    BY <1>2 DEF Sums
  <1> QED  BY <1>3, <1>4, <1>5 DEF SumStep

LEMMA SumInt ==
    ASSUME NEW f, NEW S, IsFiniteSet(S), \A x \in S : f[x] \in Int
    PROVE  SumFunctionOnSet(f, S) \in Int
  <1> DEFINE P == {T \in SUBSET S : SumFunctionOnSet(f, T) \notin Int}
  <1> SUFFICES ASSUME P # {} PROVE FALSE
    OBVIOUS
  <1>1. PICK T \in P : \A U \in P : U \subseteq T => U = T
    <2>1. P \in SUBSET SUBSET S
      OBVIOUS
    <2> HIDE DEF P
    <2> QED  BY <2>1, SmallestPart
  <1>2. T \in SUBSET S /\ IsFiniteSet(T) /\ SumFunctionOnSet(f, T) \notin Int
    BY FS_Subset
  <1>3. T # {}
    BY <1>2, SumEmpty
  <1>4. Pick(T) \in T /\ Rest(T) \subseteq T /\ Rest(T) # T
    BY <1>3, PickIn
  <1>5. SumFunctionOnSet(f, Rest(T)) \in Int
    BY <1>1, <1>2, <1>4
  <1> QED  BY <1>2, <1>3, <1>4, <1>5, SumPicks

\* Any element may be taken out first.
LEMMA SumRemove ==
    ASSUME NEW f, NEW S, IsFiniteSet(S), \A y \in S : f[y] \in Int, NEW x \in S
    PROVE  SumFunctionOnSet(f, S) = f[x] + SumFunctionOnSet(f, S \ {x})
  <1> DEFINE Sum(T) == SumFunctionOnSet(f, T)
             Good(T) == \A y \in T : Sum(T) = f[y] + Sum(T \ {y})
             P == {T \in SUBSET S : ~Good(T)}
  <1> SUFFICES ASSUME P # {} PROVE FALSE
    OBVIOUS
  <1>1. PICK T \in P : \A U \in P : U \subseteq T => U = T
    <2>1. P \in SUBSET SUBSET S
      OBVIOUS
    <2> HIDE DEF P
    <2> QED  BY <2>1, SmallestPart
  <1>2. PICK y \in T : Sum(T) # f[y] + Sum(T \ {y})
    OBVIOUS
  <1>3. T \in SUBSET S /\ IsFiniteSet(T)
    BY FS_Subset
  <1>4. \A U \in SUBSET T : U # T => Good(U)
    <2> HIDE DEF Good
    <2> QED  BY <1>1, <1>3
  <1> DEFINE c == Pick(T)
  <1>5. c \in T /\ Rest(T) = T \ {c} /\ Sum(T) = f[c] + Sum(T \ {c})
    BY <1>2, <1>3, PickIn, SumPicks DEF Rest
  <1> HIDE DEF c
  <1>6. y # c
    BY <1>2, <1>5
  <1>7. Sum(T \ {c}) = f[y] + Sum((T \ {c}) \ {y})
    <2>1. T \ {c} \in SUBSET T /\ T \ {c} # T /\ y \in T \ {c}
      BY <1>5, <1>6
    <2> HIDE DEF Sum
    <2> QED  BY <1>4, <2>1
  <1>8. Sum(T \ {y}) = f[c] + Sum((T \ {y}) \ {c})
    <2>1. T \ {y} \in SUBSET T /\ T \ {y} # T /\ c \in T \ {y}
      BY <1>5, <1>6
    <2> HIDE DEF Sum
    <2> QED  BY <1>4, <2>1
  <1> DEFINE rest == Sum((T \ {y}) \ {c})
  <1>9. Sum(T \ {c}) = f[y] + rest
    <2>1. (T \ {c}) \ {y} = (T \ {y}) \ {c}
      OBVIOUS
    <2> QED  BY <1>7, <2>1
  <1>10. f[c] \in Int /\ f[y] \in Int /\ rest \in Int
    <2>1. IsFiniteSet((T \ {y}) \ {c})
      BY <1>3, FS_Subset
    <2> QED  BY <1>3, <1>5, <2>1, SumInt
  <1>11. Sum(T) = f[c] + (f[y] + rest) /\ Sum(T) # f[y] + (f[c] + rest)
    <2> HIDE DEF Sum
    <2> QED  BY <1>2, <1>5, <1>8, <1>9
  <1> HIDE DEF Sum, rest
  <1> QED  BY <1>10, <1>11

LEMMA SumAdd ==
    ASSUME NEW f, NEW S, IsFiniteSet(S), NEW x, x \notin S, \A y \in S \cup {x} : f[y] \in Int
    PROVE  SumFunctionOnSet(f, S \cup {x}) = f[x] + SumFunctionOnSet(f, S)
  <1>1. IsFiniteSet(S \cup {x}) /\ (S \cup {x}) \ {x} = S
    BY FS_AddElement
  <1> QED  BY <1>1, SumRemove

\* Only the values on S matter.
LEMMA SumSame ==
    ASSUME NEW f, NEW g, NEW S, IsFiniteSet(S), \A x \in S : f[x] = g[x]
    PROVE  SumFunctionOnSet(f, S) = SumFunctionOnSet(g, S)
  <1> DEFINE P == {T \in SUBSET S : SumFunctionOnSet(f, T) # SumFunctionOnSet(g, T)}
  <1> SUFFICES ASSUME P # {} PROVE FALSE
    OBVIOUS
  <1>1. PICK T \in P : \A U \in P : U \subseteq T => U = T
    <2>1. P \in SUBSET SUBSET S
      OBVIOUS
    <2> HIDE DEF P
    <2> QED  BY <2>1, SmallestPart
  <1>2. T \in SUBSET S /\ IsFiniteSet(T) /\ SumFunctionOnSet(f, T) # SumFunctionOnSet(g, T)
    BY FS_Subset
  <1>3. T # {}
    BY <1>2, SumEmpty
  <1>4. Pick(T) \in T /\ Rest(T) \subseteq T /\ Rest(T) # T
    BY <1>3, PickIn
  <1>5. SumFunctionOnSet(f, Rest(T)) = SumFunctionOnSet(g, Rest(T))
    BY <1>1, <1>2, <1>4
  <1>6. f[Pick(T)] = g[Pick(T)]
    BY <1>2, <1>4
  <1> QED  BY <1>2, <1>3, <1>5, <1>6, SumPicks

LEMMA SumZero ==
    ASSUME NEW f, NEW S, IsFiniteSet(S), \A x \in S : f[x] = 0
    PROVE  SumFunctionOnSet(f, S) = 0
  <1> DEFINE P == {T \in SUBSET S : SumFunctionOnSet(f, T) # 0}
  <1> SUFFICES ASSUME P # {} PROVE FALSE
    OBVIOUS
  <1>1. PICK T \in P : \A U \in P : U \subseteq T => U = T
    <2>1. P \in SUBSET SUBSET S
      OBVIOUS
    <2> HIDE DEF P
    <2> QED  BY <2>1, SmallestPart
  <1>2. T \in SUBSET S /\ IsFiniteSet(T) /\ SumFunctionOnSet(f, T) # 0
    BY FS_Subset
  <1>3. T # {}
    BY <1>2, SumEmpty
  <1>4. Pick(T) \in T /\ Rest(T) \subseteq T /\ Rest(T) # T
    BY <1>3, PickIn
  <1>5. SumFunctionOnSet(f, Rest(T)) = 0
    BY <1>1, <1>2, <1>4
  <1> QED  BY <1>2, <1>3, <1>4, <1>5, SumPicks

LEMMA SumOne ==
    ASSUME NEW f, NEW x, f[x] \in Int
    PROVE  SumFunctionOnSet(f, {x}) = f[x]
  <1>1. IsFiniteSet({}) /\ {x} = {} \cup {x}
    BY FS_EmptySet
  <1> QED  BY <1>1, SumAdd, SumEmpty

\* Counting is a sum of ones.
LEMMA SumCounts ==
    ASSUME NEW f, NEW S, IsFiniteSet(S), \A x \in S : f[x] = 1
    PROVE  SumFunctionOnSet(f, S) = Cardinality(S)
  <1> DEFINE P == {T \in SUBSET S : SumFunctionOnSet(f, T) # Cardinality(T)}
  <1> SUFFICES ASSUME P # {} PROVE FALSE
    OBVIOUS
  <1>1. PICK T \in P : \A U \in P : U \subseteq T => U = T
    <2>1. P \in SUBSET SUBSET S
      OBVIOUS
    <2> HIDE DEF P
    <2> QED  BY <2>1, SmallestPart
  <1>2. T \in SUBSET S /\ IsFiniteSet(T) /\ SumFunctionOnSet(f, T) # Cardinality(T)
    BY FS_Subset
  <1>3. T # {}
    BY <1>2, SumEmpty, FS_EmptySet
  <1>4. Pick(T) \in T /\ Rest(T) \subseteq T /\ Rest(T) # T
    BY <1>3, PickIn
  <1>5. SumFunctionOnSet(f, Rest(T)) = Cardinality(Rest(T))
    BY <1>1, <1>2, <1>4
  <1>6. Cardinality(Rest(T)) = Cardinality(T) - 1 /\ Cardinality(T) \in Nat
    BY <1>2, <1>4, FS_RemoveElement, FS_CardinalityType DEF Rest
  <1> QED  BY <1>2, <1>3, <1>4, <1>5, <1>6, SumPicks

\* A sum over two disjoint sets.
LEMMA SumSplit ==
    ASSUME NEW f, NEW R, IsFiniteSet(R), NEW S, IsFiniteSet(S), R \cap S = {},
           \A x \in R \cup S : f[x] \in Int
    PROVE  SumFunctionOnSet(f, R \cup S) = SumFunctionOnSet(f, R) + SumFunctionOnSet(f, S)
  <1> DEFINE P == {T \in SUBSET S : SumFunctionOnSet(f, R \cup T)
                                    # SumFunctionOnSet(f, R) + SumFunctionOnSet(f, T)}
  <1> SUFFICES ASSUME P # {} PROVE FALSE
    OBVIOUS
  <1>1. PICK T \in P : \A U \in P : U \subseteq T => U = T
    <2>1. P \in SUBSET SUBSET S
      OBVIOUS
    <2> HIDE DEF P
    <2> QED  BY <2>1, SmallestPart
  <1>2. T \in SUBSET S /\ IsFiniteSet(T)
        /\ SumFunctionOnSet(f, R \cup T) # SumFunctionOnSet(f, R) + SumFunctionOnSet(f, T)
    BY FS_Subset
  <1>3. SumFunctionOnSet(f, R) \in Int
    BY SumInt
  <1>4. T # {}
    <2>1. T = {} => R \cup T = R
      OBVIOUS
    <2> QED  BY <1>2, <1>3, <2>1, SumEmpty
  <1>5. PICK x \in T : TRUE
    BY <1>4
  <1> DEFINE U == T \ {x}
  <1>6. U \in SUBSET S /\ U # T /\ U \subseteq T /\ IsFiniteSet(U)
    BY <1>2, FS_Subset
  <1>7. SumFunctionOnSet(f, R \cup U) = SumFunctionOnSet(f, R) + SumFunctionOnSet(f, U)
    BY <1>1, <1>6
  <1>8. SumFunctionOnSet(f, T) = f[x] + SumFunctionOnSet(f, U)
    BY <1>2, SumRemove
  <1>9. SumFunctionOnSet(f, R \cup T) = f[x] + SumFunctionOnSet(f, R \cup U)
    <2>1. IsFiniteSet(R \cup T) /\ x \in R \cup T /\ (R \cup T) \ {x} = R \cup U
      BY <1>2, FS_Union
    <2>2. \A y \in R \cup T : f[y] \in Int
      BY <1>2
    <2> QED  BY <2>1, <2>2, SumRemove
  <1>10. SumFunctionOnSet(f, U) \in Int /\ f[x] \in Int
    BY <1>2, <1>6, SumInt
  <1> HIDE DEF U
  <1> QED  BY <1>2, <1>3, <1>7, <1>8, <1>9, <1>10

LEMMA SumMapped ==
    ASSUME NEW f, NEW g, NEW b, NEW S, IsFiniteSet(S),
           \A x, y \in S : b[x] = b[y] => x = y,
           \A x \in S : g[x] = f[b[x]] /\ g[x] \in Int
    PROVE  SumFunctionOnSet(g, S) = SumFunctionOnSet(f, {b[x] : x \in S})
  <1> DEFINE Image(T) == {b[x] : x \in T}
             P == {T \in SUBSET S : SumFunctionOnSet(g, T) # SumFunctionOnSet(f, Image(T))}
  <1> SUFFICES ASSUME P # {} PROVE FALSE
    OBVIOUS
  <1>1. PICK T \in P : \A U \in P : U \subseteq T => U = T
    <2>1. P \in SUBSET SUBSET S
      OBVIOUS
    <2> HIDE DEF P
    <2> QED  BY <2>1, SmallestPart
  <1>2. T \in SUBSET S /\ IsFiniteSet(T) /\ SumFunctionOnSet(g, T) # SumFunctionOnSet(f, Image(T))
    BY FS_Subset
  <1>3. T # {}
    <2>1. T = {} => Image(T) = {}
      OBVIOUS
    <2> QED  BY <1>2, <2>1, SumEmpty
  <1>4. PICK x \in T : TRUE
    BY <1>3
  <1> DEFINE U == T \ {x}
  <1>5. U \in SUBSET S /\ U # T /\ U \subseteq T
    BY <1>2
  <1>6. SumFunctionOnSet(g, U) = SumFunctionOnSet(f, Image(U))
    BY <1>1, <1>5
  <1>7. SumFunctionOnSet(g, T) = g[x] + SumFunctionOnSet(g, U)
    BY <1>2, SumRemove
  <1>8. SumFunctionOnSet(f, Image(T)) = f[b[x]] + SumFunctionOnSet(f, Image(U))
    <2>1. IsFiniteSet(Image(T))
      <3> DEFINE h == [y \in T |-> b[y]]
      <3>1. h \in Surjection(T, Image(T))
        BY DEF Surjection
      <3> HIDE DEF h, Image
      <3> QED  BY <1>2, <3>1, FS_Surjection
    <2>2. b[x] \in Image(T)
      BY <1>2
    <2>3. Image(T) \ {b[x]} = Image(U)
      BY <1>2
    <2>4. \A z \in Image(T) : f[z] \in Int
      BY <1>2
    <2> HIDE DEF Image, U
    <2>5. SumFunctionOnSet(f, Image(T)) = f[b[x]] + SumFunctionOnSet(f, Image(T) \ {b[x]})
      BY <2>1, <2>2, <2>4, SumRemove
    <2> QED  BY <2>3, <2>5
  <1>9. g[x] = f[b[x]]
    BY <1>2
  <1> HIDE DEF Image, U
  <1> QED  BY <1>2, <1>6, <1>7, <1>8, <1>9

\* A sum over what b maps S to, one to one.
LEMMA SumImage ==
    ASSUME NEW f, NEW g, NEW S, IsFiniteSet(S), NEW T, NEW b \in Bijection(S, T),
           \A x \in S : g[x] = f[b[x]] /\ g[x] \in Int
    PROVE  SumFunctionOnSet(g, S) = SumFunctionOnSet(f, T)
  <1>1. T = {b[x] : x \in S}
    BY DEF Bijection, Surjection
  <1>2. \A x, y \in S : b[x] = b[y] => x = y
    BY DEF Bijection, Injection, IsInjective
  <1>3. SumFunctionOnSet(g, S) = SumFunctionOnSet(f, {b[x] : x \in S})
    BY <1>2, SumMapped
  <1> QED  BY <1>1, <1>3

LEMMA SumOverUnion ==
    ASSUME NEW f, NEW g, NEW part, NEW S, IsFiniteSet(S),
           \A i \in S : IsFiniteSet(part[i]) /\ g[i] = SumFunctionOnSet(f, part[i]),
           \A i, j \in S : i # j => part[i] \cap part[j] = {},
           \A i \in S : \A x \in part[i] : f[x] \in Int
    PROVE  /\ IsFiniteSet(UNION {part[i] : i \in S})
           /\ SumFunctionOnSet(g, S) = SumFunctionOnSet(f, UNION {part[i] : i \in S})
  <1> DEFINE Whole(T) == UNION {part[i] : i \in T}
             Good(T) == IsFiniteSet(Whole(T)) /\ SumFunctionOnSet(g, T) = SumFunctionOnSet(f, Whole(T))
             P == {T \in SUBSET S : ~Good(T)}
  <1> SUFFICES ASSUME P # {} PROVE FALSE
    OBVIOUS
  <1>1. PICK T \in P : \A U \in P : U \subseteq T => U = T
    <2>1. P \in SUBSET SUBSET S
      OBVIOUS
    <2> HIDE DEF P
    <2> QED  BY <2>1, SmallestPart
  <1>2. T \in SUBSET S /\ IsFiniteSet(T) /\ ~Good(T)
    BY FS_Subset
  <1>3. T # {}
    <2>1. T = {} => Whole(T) = {}
      OBVIOUS
    <2> HIDE DEF Whole
    <2> QED  BY <1>2, <2>1, SumEmpty, FS_EmptySet
  <1>4. PICK i \in T : TRUE
    BY <1>3
  <1> DEFINE U == T \ {i}
  <1>5. U \in SUBSET S /\ U # T /\ U \subseteq T
    BY <1>2
  <1>6. Good(U)
    <2> HIDE DEF Good, U
    <2> QED  BY <1>1, <1>5
  <1>7. IsFiniteSet(Whole(U)) /\ SumFunctionOnSet(g, U) = SumFunctionOnSet(f, Whole(U))
    <2> HIDE DEF Whole, U
    <2> QED  BY <1>6
  <1>8. SumFunctionOnSet(g, T) = g[i] + SumFunctionOnSet(g, U)
    <2>1. \A j \in T : g[j] \in Int
      BY <1>2, SumInt
    <2> QED  BY <1>2, <2>1, SumRemove
  <1>9. Whole(T) = part[i] \cup Whole(U) /\ part[i] \cap Whole(U) = {}
    BY <1>2
  <1>10. \A x \in Whole(T) : f[x] \in Int
    BY <1>2
  <1>11. IsFiniteSet(part[i]) /\ g[i] = SumFunctionOnSet(f, part[i])
    BY <1>2
  <1> HIDE DEF Whole, U
  <1>12. IsFiniteSet(Whole(T))
    <2>1. IsFiniteSet(part[i] \cup Whole(U))
      BY <1>7, <1>11, FS_Union
    <2> QED  BY <1>9, <2>1
  <1>13. SumFunctionOnSet(f, Whole(T)) = SumFunctionOnSet(f, part[i]) + SumFunctionOnSet(f, Whole(U))
    BY <1>7, <1>9, <1>10, <1>11, SumSplit
  <1> QED  BY <1>2, <1>7, <1>8, <1>11, <1>12, <1>13

\* A sum of the sums over disjoint parts of W.
LEMMA SumParts ==
    ASSUME NEW f, NEW g, NEW S, IsFiniteSet(S), NEW W, NEW part \in [S -> SUBSET W],
           \A x \in W : \E i \in S : x \in part[i],
           \A i \in S : IsFiniteSet(part[i]) /\ g[i] = SumFunctionOnSet(f, part[i]),
           \A i, j \in S : i # j => part[i] \cap part[j] = {},
           \A x \in W : f[x] \in Int
    PROVE  SumFunctionOnSet(g, S) = SumFunctionOnSet(f, W)
  <1>1. W = UNION {part[i] : i \in S}
    OBVIOUS
  <1>2. SumFunctionOnSet(g, S) = SumFunctionOnSet(f, UNION {part[i] : i \in S})
    <2>1. \A i \in S : \A x \in part[i] : f[x] \in Int
      OBVIOUS
    <2> QED  BY <2>1, SumOverUnion
  <1> QED  BY <1>1, <1>2
=============================================================================
