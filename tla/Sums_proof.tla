------------------------------ MODULE Sums_proof ------------------------------
(***************************************************************************)
(* TLAPS lemmas about SumFunctionOnSet of the community module Functions:  *)
(* what it returns for a set that loses, gains or changes an element.  They*)
(* rest on an induction over the subsets of a finite set that quantifies   *)
(* over no operator, so that the provers can instantiate it.               *)
(***************************************************************************)
EXTENDS Functions, FiniteSetTheorems, TLAPS

(* Induction over the subsets of a finite set, the predicate given as the   *)
(* set of the subsets that satisfy it.                                      *)
LEMMA SubsetInduction ==
  ASSUME NEW S, IsFiniteSet(S), NEW P \in SUBSET SUBSET S,
         \A T \in SUBSET S : (\A U \in SUBSET T : U # T => U \in P) => T \in P
  PROVE  P = SUBSET S
<1>1. SUFFICES ASSUME P # SUBSET S PROVE FALSE
  OBVIOUS
<1> DEFINE bad == (SUBSET S) \ P
<1>2. bad \subseteq FiniteSubsetsOf(S) /\ bad # {}
  BY <1>1, FS_FiniteSubsetsOfFinite DEF FiniteSubsetsOf
<1>3. PICK T \in bad : \A U \in bad : ~(<<U, T>> \in StrictSubsetOrdering(S))
  <2> HIDE DEF bad
  <2> QED
    BY <1>2, FS_StrictSubsetOrderingWellFounded, WFMin
<1>4. \A U \in SUBSET T : U # T => U \in P
  <2> SUFFICES ASSUME NEW U \in SUBSET T, U # T, U \notin P
               PROVE  FALSE
    OBVIOUS
  <2>1. U \in SUBSET S /\ T \in SUBSET S /\ U \in bad
    OBVIOUS
  <2>2. <<U, T>> \in StrictSubsetOrdering(S)
    BY <2>1 DEF StrictSubsetOrdering
  <2> QED
    BY <2>1, <2>2, <1>3
<1> QED
  BY <1>4

-----------------------------------------------------------------------------
(* Sums over a finite set *)

(* The element a fold takes first.                                          *)
Pick(s) == CHOOSE x \in s : TRUE

(* g adds up f over the subsets of S.                                       *)
AddsUp(f, S, g) ==
  g = [s \in SUBSET S |-> IF s = {} THEN 0 ELSE f[Pick(s)] + g[s \ {Pick(s)}]]

(* A sum is the value, at its set, of the function that adds f up.          *)
LEMMA SumIsChosen ==
  ASSUME NEW f, NEW S
  PROVE  SumFunctionOnSet(f, S) = (CHOOSE g : AddsUp(f, S, g))[S]
  BY DEF SumFunctionOnSet, FoldFunctionOnSet, MapThenFoldSet, AddsUp, Pick

(* The element folded first is one of the set.                              *)
LEMMA PickMember ==
  ASSUME NEW s, s # {}
  PROVE  Pick(s) \in s
  BY DEF Pick

(* Two functions that add f up agree where both are defined.                *)
LEMMA AddsUpAgrees ==
  ASSUME NEW f, NEW S, NEW T, IsFiniteSet(S), NEW g, NEW h,
         AddsUp(f, S, g), AddsUp(f, T, h)
  PROVE  \A s \in SUBSET S : s \subseteq T => g[s] = h[s]
<1> DEFINE agree == {s \in SUBSET S : s \subseteq T => g[s] = h[s]}
<1>1. ASSUME NEW s \in SUBSET S, \A u \in SUBSET s : u # s => u \in agree
      PROVE  s \in agree
  <2> SUFFICES ASSUME s \subseteq T PROVE g[s] = h[s]
    OBVIOUS
  <2> DEFINE less == s \ {Pick(s)}
  <2>1. g[s] = IF s = {} THEN 0 ELSE f[Pick(s)] + g[less]
    BY DEF AddsUp
  <2>2. h[s] = IF s = {} THEN 0 ELSE f[Pick(s)] + h[less]
    BY DEF AddsUp
  <2>3. ASSUME s # {} PROVE g[less] = h[less]
    <3>1. less \in SUBSET s /\ less # s
      BY <2>3, PickMember
    <3> QED
      BY <3>1, <1>1
  <2> QED
    BY <2>1, <2>2, <2>3
<1>2. agree \in SUBSET SUBSET S
  OBVIOUS
<1>3. agree = SUBSET S
  <2> HIDE DEF agree
  <2> QED
    BY <1>1, <1>2, SubsetInduction
<1> QED
  BY <1>3

(* Such a function exists.                                                  *)
LEMMA AddsUpExists ==
  ASSUME NEW f, NEW S, IsFiniteSet(S)
  PROVE  \E g : AddsUp(f, S, g)
<1> DEFINE defined == {T \in SUBSET S : \E g : AddsUp(f, T, g)}
<1>1. ASSUME NEW T \in SUBSET S, \A U \in SUBSET T : U # T => U \in defined
      PROVE  T \in defined
  <2> DEFINE below(U) == CHOOSE g : AddsUp(f, U, g)
             G == [s \in SUBSET T |-> IF s = {} THEN 0
                     ELSE f[Pick(s)] + below(s \ {Pick(s)})[s \ {Pick(s)}]]
  <2>1. \A U \in SUBSET T : U # T => AddsUp(f, U, below(U))
    BY <1>1
  <2>2. IsFiniteSet(T)
    BY FS_Subset
  <2>3. ASSUME NEW s \in SUBSET T, s # {}
        PROVE  below(s \ {Pick(s)})[s \ {Pick(s)}] = G[s \ {Pick(s)}]
    <3> DEFINE u == s \ {Pick(s)}
               v == u \ {Pick(u)}
    <3>1. u \in SUBSET T /\ u # T /\ IsFiniteSet(u)
      BY <2>2, <2>3, FS_Subset, PickMember
    <3>2. AddsUp(f, u, below(u))
      BY <3>1, <2>1
    <3>3. below(u)[u] = IF u = {} THEN 0 ELSE f[Pick(u)] + below(u)[v]
      <4> HIDE DEF below, u
      <4> QED BY <3>2 DEF AddsUp
    <3>4. G[u] = IF u = {} THEN 0 ELSE f[Pick(u)] + below(v)[v]
      BY <3>1
    <3>5. ASSUME u # {} PROVE below(u)[v] = below(v)[v]
      <4>1. v \in SUBSET T /\ v # T /\ v \in SUBSET u /\ IsFiniteSet(v)
        BY <3>1, <3>5, FS_Subset, PickMember
      <4>2. AddsUp(f, v, below(v))
        BY <4>1, <2>1
      <4> HIDE DEF below, u, v
      <4> QED
        BY <4>1, <4>2, <3>1, <3>2, AddsUpAgrees
    <3> QED
      BY <3>3, <3>4, <3>5
  <2>4. AddsUp(f, T, G)
    <3> HIDE DEF below
    <3>1. G = [s \in SUBSET T |-> IF s = {} THEN 0 ELSE f[Pick(s)] + G[s \ {Pick(s)}]]
      BY <2>3
    <3> HIDE DEF G
    <3> QED
      BY <3>1 DEF AddsUp
  <2> HIDE DEF G
  <2> QED
    BY <2>4
<1>2. defined \in SUBSET SUBSET S
  OBVIOUS
<1>3. defined = SUBSET S
  <2> HIDE DEF defined
  <2> QED
    BY <1>1, <1>2, SubsetInduction
<1> QED
  BY <1>3

(* The sum satisfies its recursive definition.                              *)
LEMMA SumEmpty ==
  ASSUME NEW f
  PROVE  SumFunctionOnSet(f, {}) = 0
<1>1. PICK g : AddsUp(f, {}, g)
  BY AddsUpExists, FS_EmptySet
<1>2. AddsUp(f, {}, CHOOSE h : AddsUp(f, {}, h))
  BY <1>1
<1> QED
  BY <1>2, SumIsChosen DEF AddsUp

(* A sum is its first element and the sum of the others.                    *)
LEMMA SumPick ==
  ASSUME NEW f, NEW S, IsFiniteSet(S), S # {}
  PROVE  SumFunctionOnSet(f, S) = f[Pick(S)] + SumFunctionOnSet(f, S \ {Pick(S)})
<1> DEFINE T == S \ {Pick(S)}
           g == CHOOSE x : AddsUp(f, S, x)
           h == CHOOSE x : AddsUp(f, T, x)
<1>1. IsFiniteSet(T)
  BY FS_Subset
<1>2. AddsUp(f, S, g) /\ AddsUp(f, T, h)
  BY <1>1, AddsUpExists
<1>3. SumFunctionOnSet(f, S) = g[S] /\ SumFunctionOnSet(f, T) = h[T]
  BY SumIsChosen
<1> HIDE DEF g, h
<1>4. g[S] = f[Pick(S)] + g[T]
  BY <1>2 DEF AddsUp
<1>5. g[T] = h[T]
  BY <1>1, <1>2, AddsUpAgrees
<1> QED
  BY <1>3, <1>4, <1>5

-----------------------------------------------------------------------------
(* Sums of integers *)

(* A sum of integers is an integer.                                         *)
LEMMA SumInt ==
  ASSUME NEW S, IsFiniteSet(S), NEW f, \A x \in S : f[x] \in Int
  PROVE  \A T \in SUBSET S : SumFunctionOnSet(f, T) \in Int
<1> DEFINE typed == {T \in SUBSET S : SumFunctionOnSet(f, T) \in Int}
<1>1. ASSUME NEW T \in SUBSET S, \A U \in SUBSET T : U # T => U \in typed
      PROVE  T \in typed
  <2>1. CASE T = {}
    BY <2>1, SumEmpty
  <2>2. CASE T # {}
    <3> DEFINE less == T \ {Pick(T)}
    <3>1. IsFiniteSet(T)
      BY FS_Subset
    <3>2. SumFunctionOnSet(f, T) = f[Pick(T)] + SumFunctionOnSet(f, less)
      BY <2>2, <3>1, SumPick
    <3>3. Pick(T) \in S /\ less \in SUBSET T /\ less # T
      BY <2>2, PickMember
    <3>4. SumFunctionOnSet(f, less) \in Int
      BY <3>3, <1>1
    <3> QED
      BY <3>2, <3>3, <3>4
  <2> QED
    BY <2>1, <2>2
<1>2. typed \in SUBSET SUBSET S
  OBVIOUS
<1>3. typed = SUBSET S
  <2> HIDE DEF typed
  <2> QED
    BY <1>1, <1>2, SubsetInduction
<1> QED
  BY <1>3

(* Any element may be taken out first.                                      *)
LEMMA SumRemove ==
  ASSUME NEW S, IsFiniteSet(S), NEW f, \A x \in S : f[x] \in Int
  PROVE  \A x \in S : SumFunctionOnSet(f, S) = f[x] + SumFunctionOnSet(f, S \ {x})
<1> DEFINE any == {T \in SUBSET S :
             \A x \in T : SumFunctionOnSet(f, T) = f[x] + SumFunctionOnSet(f, T \ {x})}
<1>1. ASSUME NEW T \in SUBSET S, \A U \in SUBSET T : U # T => U \in any
      PROVE  T \in any
  <2> SUFFICES ASSUME NEW x \in T
               PROVE  SumFunctionOnSet(f, T) = f[x] + SumFunctionOnSet(f, T \ {x})
    OBVIOUS
  <2> DEFINE y == Pick(T)
             rest == (T \ {x}) \ {y}
  <2>1. /\ y \in T
        /\ SumFunctionOnSet(f, T) = f[y] + SumFunctionOnSet(f, T \ {y})
    BY PickMember, SumPick, FS_Subset
  <2>2. CASE x = y
    BY <2>1, <2>2
  <2>3. CASE x # y
    <3>1. T \ {y} \in any /\ T \ {x} \in any
      BY <2>1, <1>1
    <3>2. (T \ {y}) \ {x} = rest
      OBVIOUS
    <3>3. /\ SumFunctionOnSet(f, T \ {y}) = f[x] + SumFunctionOnSet(f, rest)
          /\ SumFunctionOnSet(f, T \ {x}) = f[y] + SumFunctionOnSet(f, rest)
      BY <2>1, <2>3, <3>1, <3>2
    <3>4. /\ f[x] \in Int /\ f[y] \in Int
          /\ SumFunctionOnSet(f, rest) \in Int
      BY <2>1, SumInt
    <3> HIDE DEF y, rest
    <3> QED
      BY <2>1, <3>3, <3>4
  <2> QED
    BY <2>2, <2>3
<1>2. any \in SUBSET SUBSET S
  OBVIOUS
<1>3. any = SUBSET S
  <2> HIDE DEF any
  <2> QED
    BY <1>1, <1>2, SubsetInduction
<1> QED
  BY <1>3

(* A sum over one more element.                                             *)
LEMMA SumInsert ==
  ASSUME NEW S, IsFiniteSet(S), NEW f, NEW x, x \notin S,
         \A y \in S \cup {x} : f[y] \in Int
  PROVE  SumFunctionOnSet(f, S \cup {x}) = f[x] + SumFunctionOnSet(f, S)
<1>1. IsFiniteSet(S \cup {x}) /\ (S \cup {x}) \ {x} = S
  BY FS_AddElement
<1> QED
  BY <1>1, SumRemove

(* Two functions that agree on a set have the same sum over it; one that is *)
(* nowhere greater has no greater sum.                                      *)
LEMMA SumMonotonic ==
  ASSUME NEW S, IsFiniteSet(S), NEW f, NEW g,
         \A x \in S : f[x] \in Int /\ g[x] \in Int /\ f[x] <= g[x]
  PROVE  SumFunctionOnSet(f, S) <= SumFunctionOnSet(g, S)
<1> DEFINE below == {T \in SUBSET S : SumFunctionOnSet(f, T) <= SumFunctionOnSet(g, T)}
<1>1. ASSUME NEW T \in SUBSET S, \A U \in SUBSET T : U # T => U \in below
      PROVE  T \in below
  <2>1. CASE T = {}
    BY <2>1, SumEmpty
  <2>2. CASE T # {}
    <3> DEFINE x == Pick(T)
               less == T \ {x}
    <3>1. IsFiniteSet(T)
      BY FS_Subset
    <3>2. /\ SumFunctionOnSet(f, T) = f[x] + SumFunctionOnSet(f, less)
          /\ SumFunctionOnSet(g, T) = g[x] + SumFunctionOnSet(g, less)
      BY <2>2, <3>1, SumPick
    <3>3. x \in S /\ less \in SUBSET T /\ less # T /\ less \in SUBSET S
      BY <2>2, PickMember
    <3>4. /\ SumFunctionOnSet(f, less) <= SumFunctionOnSet(g, less)
          /\ SumFunctionOnSet(f, less) \in Int /\ SumFunctionOnSet(g, less) \in Int
      BY <3>3, <1>1, SumInt
    <3>5. f[x] \in Int /\ g[x] \in Int /\ f[x] <= g[x]
      BY <3>3
    <3> HIDE DEF x, less
    <3> QED
      BY <3>2, <3>4, <3>5
  <2> QED
    BY <2>1, <2>2
<1>2. below \in SUBSET SUBSET S
  OBVIOUS
<1>3. below = SUBSET S
  <2> HIDE DEF below
  <2> QED
    BY <1>1, <1>2, SubsetInduction
<1> QED
  BY <1>3

(* Functions that agree on a set have the same sum over it.                 *)
LEMMA SumCongruent ==
  ASSUME NEW S, IsFiniteSet(S), NEW f, NEW g,
         \A x \in S : f[x] \in Int /\ g[x] = f[x]
  PROVE  SumFunctionOnSet(g, S) = SumFunctionOnSet(f, S)
<1>1. /\ SumFunctionOnSet(f, S) <= SumFunctionOnSet(g, S)
      /\ SumFunctionOnSet(g, S) <= SumFunctionOnSet(f, S)
  BY SumMonotonic
<1>2. SumFunctionOnSet(f, S) \in Int /\ SumFunctionOnSet(g, S) \in Int
  BY SumInt
<1> QED
  BY <1>1, <1>2

(* Changing the value at x changes the sum by as much.                      *)
Updates(f, g, S, x) ==
  /\ IsFiniteSet(S) /\ x \in S
  /\ \A y \in S : f[y] \in Int /\ g[y] \in Int
  /\ \A y \in S \ {x} : g[y] = f[y]

(* Changing a function at one point changes its sum by the difference.      *)
LEMMA SumUpdate ==
  ASSUME NEW f, NEW g, NEW S, NEW x, Updates(f, g, S, x)
  PROVE  SumFunctionOnSet(g, S) = SumFunctionOnSet(f, S) + g[x] - f[x]
<1> DEFINE T == S \ {x}
<1>0. /\ IsFiniteSet(S) /\ x \in S
      /\ \A y \in S : f[y] \in Int /\ g[y] \in Int
      /\ \A y \in T : g[y] = f[y]
  BY DEF Updates
<1>1. IsFiniteSet(T)
  BY <1>0, FS_Subset
<1>2. SumFunctionOnSet(g, T) = SumFunctionOnSet(f, T)
  <2> HIDE DEF T
  <2>1. \A y \in T : f[y] \in Int /\ g[y] = f[y]
    BY <1>0 DEF T
  <2> QED BY <1>1, <2>1, SumCongruent
<1>3. /\ SumFunctionOnSet(f, S) = f[x] + SumFunctionOnSet(f, T)
      /\ SumFunctionOnSet(g, S) = g[x] + SumFunctionOnSet(g, T)
  BY <1>0, SumRemove
<1>4. SumFunctionOnSet(f, T) \in Int /\ f[x] \in Int /\ g[x] \in Int
  BY <1>0, SumInt
<1> HIDE DEF T
<1> QED
  BY <1>2, <1>3, <1>4

(* A sum of zeros is zero.                                                  *)
LEMMA SumZero ==
  ASSUME NEW S, IsFiniteSet(S), NEW zero, \A x \in S : zero[x] = 0
  PROVE  SumFunctionOnSet(zero, S) = 0
<1> DEFINE none == {T \in SUBSET S : SumFunctionOnSet(zero, T) = 0}
<1>1. ASSUME NEW T \in SUBSET S, \A U \in SUBSET T : U # T => U \in none
      PROVE  T \in none
  <2>1. CASE T = {}
    BY <2>1, SumEmpty
  <2>2. CASE T # {}
    <3> DEFINE less == T \ {Pick(T)}
    <3>1. SumFunctionOnSet(zero, T) = zero[Pick(T)] + SumFunctionOnSet(zero, less)
      BY <2>2, SumPick, FS_Subset
    <3>2. zero[Pick(T)] = 0 /\ SumFunctionOnSet(zero, less) = 0
      BY <2>2, PickMember, <1>1
    <3> QED
      BY <3>1, <3>2
  <2> QED
    BY <2>1, <2>2
<1>2. none \in SUBSET SUBSET S
  OBVIOUS
<1>3. none = SUBSET S
  <2> HIDE DEF none
  <2> QED
    BY <1>1, <1>2, SubsetInduction
<1> QED
  BY <1>3

(* A sum of naturals is a natural.                                          *)
LEMMA SumNat ==
  ASSUME NEW S, IsFiniteSet(S), NEW f, \A x \in S : f[x] \in Nat
  PROVE  SumFunctionOnSet(f, S) \in Nat
<1> DEFINE zero == [x \in S |-> 0]
<1>1. SumFunctionOnSet(zero, S) = 0
  <2>1. \A x \in S : zero[x] = 0
    OBVIOUS
  <2> HIDE DEF zero
  <2> QED BY <2>1, SumZero
<1>2. SumFunctionOnSet(zero, S) <= SumFunctionOnSet(f, S)
  BY SumMonotonic
<1>3. SumFunctionOnSet(f, S) \in Int
  BY SumInt
<1> QED
  BY <1>1, <1>2, <1>3

(* The sum over one element.                                                *)
LEMMA SumSingleton ==
  ASSUME NEW f, NEW x, f[x] \in Int
  PROVE  SumFunctionOnSet(f, {x}) = f[x]
<1>1. SumFunctionOnSet(f, {} \cup {x}) = f[x] + SumFunctionOnSet(f, {})
  BY SumInsert, FS_EmptySet
<1> QED
  BY <1>1, SumEmpty

(* Over disjoint sets the sums add up.                                      *)
LEMMA SumUnion ==
  ASSUME NEW S, IsFiniteSet(S), NEW R, IsFiniteSet(R), S \cap R = {},
         NEW f, \A x \in S \cup R : f[x] \in Int
  PROVE  SumFunctionOnSet(f, S \cup R)
           = SumFunctionOnSet(f, S) + SumFunctionOnSet(f, R)
<1> DEFINE adds == {T \in SUBSET S : SumFunctionOnSet(f, T \cup R)
                      = SumFunctionOnSet(f, T) + SumFunctionOnSet(f, R)}
<1>0. IsFiniteSet(S \cup R) /\ SumFunctionOnSet(f, R) \in Int
  BY FS_Union, SumInt
<1>1. ASSUME NEW T \in SUBSET S, \A U \in SUBSET T : U # T => U \in adds
      PROVE  T \in adds
  <2>1. CASE T = {}
    BY <2>1, <1>0, SumEmpty
  <2>2. CASE T # {}
    <3>1. PICK x \in T : TRUE
      BY <2>2
    <3> DEFINE less == T \ {x}
    <3>2. /\ IsFiniteSet(T) /\ IsFiniteSet(T \cup R)
          /\ (T \cup R) \ {x} = less \cup R
      BY <1>0, <3>1, FS_Subset
    <3>3. /\ SumFunctionOnSet(f, T) = f[x] + SumFunctionOnSet(f, less)
          /\ SumFunctionOnSet(f, T \cup R) = f[x] + SumFunctionOnSet(f, (T \cup R) \ {x})
      BY <3>1, <3>2, SumRemove
    <3>4. SumFunctionOnSet(f, less \cup R)
            = SumFunctionOnSet(f, less) + SumFunctionOnSet(f, R)
      BY <3>1, <1>1
    <3>5. SumFunctionOnSet(f, less) \in Int /\ f[x] \in Int
      BY <3>1, <3>2, SumInt
    <3>6. SumFunctionOnSet(f, T \cup R) = f[x] + SumFunctionOnSet(f, less \cup R)
      BY <3>2, <3>3
    <3> HIDE DEF less
    <3>7. SumFunctionOnSet(f, T \cup R) = SumFunctionOnSet(f, T) + SumFunctionOnSet(f, R)
      BY <1>0, <3>3, <3>4, <3>5, <3>6
    <3> QED
      BY <3>7
  <2> QED
    BY <2>1, <2>2
<1>2. adds \in SUBSET SUBSET S
  OBVIOUS
<1>3. adds = SUBSET S
  <2> HIDE DEF adds
  <2> QED
    BY <1>1, <1>2, SubsetInduction
<1> QED
  BY <1>3

(* The part of a sum of naturals is no greater than the whole.              *)
LEMMA SumSubset ==
  ASSUME NEW S, IsFiniteSet(S), NEW T \in SUBSET S, NEW f, \A x \in S : f[x] \in Nat
  PROVE  SumFunctionOnSet(f, T) <= SumFunctionOnSet(f, S)
<1> DEFINE R == S \ T
<1>1. IsFiniteSet(T) /\ IsFiniteSet(R) /\ T \cup R = S /\ T \cap R = {}
  BY FS_Subset
<1>2. SumFunctionOnSet(f, T) \in Nat /\ SumFunctionOnSet(f, R) \in Nat
  BY <1>1, SumNat
<1>3. SumFunctionOnSet(f, T \cup R) = SumFunctionOnSet(f, T) + SumFunctionOnSet(f, R)
  <2> HIDE DEF R
  <2>1. \A x \in T \cup R : f[x] \in Int
    BY <1>1
  <2> QED
    BY <1>1, <2>1, SumUnion
<1>4. SumFunctionOnSet(f, S) = SumFunctionOnSet(f, T) + SumFunctionOnSet(f, R)
  BY <1>1, <1>3, Zenon
<1> HIDE DEF R
<1> QED
  BY <1>2, <1>4

(* A constant is added as often as the set has elements.                    *)
LEMMA SumConstant ==
  ASSUME NEW a \in Int, NEW e \in Int, a <= e + 1, NEW c \in Nat, NEW f,
         \A x \in a..e : f[x] = c
  PROVE  SumFunctionOnSet(f, a..e) = (e + 1 - a) * c
<1> DEFINE S == a..e
           const == {T \in SUBSET S : SumFunctionOnSet(f, T) = Cardinality(T) * c}
<1>0. IsFiniteSet(S) /\ Cardinality(S) = e + 1 - a
  BY FS_Interval
<1>1. ASSUME NEW T \in SUBSET S, \A U \in SUBSET T : U # T => U \in const
      PROVE  T \in const
  <2>1. CASE T = {}
    BY <2>1, SumEmpty, FS_EmptySet
  <2>2. CASE T # {}
    <3> DEFINE x == Pick(T)
               less == T \ {x}
    <3>0. IsFiniteSet(T) /\ x \in T
      BY <1>0, <2>2, FS_Subset, PickMember
    <3>1. SumFunctionOnSet(f, T) = f[x] + SumFunctionOnSet(f, less)
      BY <2>2, <3>0, SumPick
    <3>2. f[x] = c /\ SumFunctionOnSet(f, less) = Cardinality(less) * c
      BY <3>0, <1>1
    <3>3. Cardinality(less) = Cardinality(T) - 1 /\ Cardinality(T) \in Nat
      BY <3>0, FS_RemoveElement, FS_CardinalityType
    <3>4. SumFunctionOnSet(f, T) = c + (Cardinality(T) - 1) * c
      BY <3>1, <3>2, <3>3
    <3> HIDE DEF x, less
    <3>5. SumFunctionOnSet(f, T) = Cardinality(T) * c
      BY <3>3, <3>4
    <3> QED
      BY <3>5
  <2> QED
    BY <2>1, <2>2
<1>2. const \in SUBSET SUBSET S
  OBVIOUS
<1>3. const = SUBSET S
  <2> HIDE DEF const, S
  <2> QED
    BY <1>0, <1>1, <1>2, SubsetInduction
<1> QED
  BY <1>0, <1>3

(* A sum over an interval is that of its two parts.                         *)
LEMMA SumSplit ==
  ASSUME NEW f, NEW a \in Int, NEW m \in Int, NEW n \in Int, a <= m, m <= n + 1,
         \A i \in a..n : f[i] \in Int
  PROVE  SumFunctionOnSet(f, a..n) = SumFunctionOnSet(f, a..(m - 1)) + SumFunctionOnSet(f, m..n)
<1> DEFINE A == a..(m - 1)
           B == m..n
           C == a..n
<1>1. IsFiniteSet(A) /\ IsFiniteSet(B)
  BY FS_Interval
<1>2. A \cap B = {} /\ A \cup B = C
  OBVIOUS
<1>3. \A i \in A \cup B : f[i] \in Int
  OBVIOUS
<1> HIDE DEF A, B, C
<1>4. SumFunctionOnSet(f, A \cup B) = SumFunctionOnSet(f, A) + SumFunctionOnSet(f, B)
  BY <1>1, <1>2, <1>3, SumUnion
<1>5. SumFunctionOnSet(f, C) = SumFunctionOnSet(f, A) + SumFunctionOnSet(f, B)
  BY <1>2, <1>4, Zenon
<1> QED
  BY <1>5 DEF A, B, C

(* A sum over shifted indices.                                              *)
LEMMA SumShift ==
  ASSUME NEW a \in Int, NEW n \in Nat, NEW f, NEW g,
         \A i \in 1..n : f[i] \in Int /\ g[a + i] = f[i]
  PROVE  SumFunctionOnSet(g, (a + 1)..(a + n)) = SumFunctionOnSet(f, 1..n)
<1> DEFINE S == 1..n
           shift(T) == {x \in (a + 1)..(a + n) : x - a \in T}
           same == {T \in SUBSET S : SumFunctionOnSet(g, shift(T)) = SumFunctionOnSet(f, T)}
<1>0. IsFiniteSet(S) /\ IsFiniteSet((a + 1)..(a + n))
  BY FS_Interval
<1>1. ASSUME NEW T \in SUBSET S, \A U \in SUBSET T : U # T => U \in same
      PROVE  T \in same
  <2>1. CASE T = {}
    <3>1. shift(T) = {}
      BY <2>1
    <3> HIDE DEF shift
    <3> QED BY <2>1, <3>1, SumEmpty
  <2>2. CASE T # {}
    <3> DEFINE i == Pick(T)
               less == T \ {i}
    <3>0. IsFiniteSet(T) /\ i \in T /\ i \in 1..n
      BY <1>0, <2>2, FS_Subset, PickMember
    <3>1. SumFunctionOnSet(f, T) = f[i] + SumFunctionOnSet(f, less)
      BY <2>2, <3>0, SumPick
    <3>2. SumFunctionOnSet(g, shift(less)) = SumFunctionOnSet(f, less)
      BY <3>0, <1>1
    <3> HIDE DEF i
    <3>3. a + i \in shift(T) /\ shift(T) \ {a + i} = shift(less)
      BY <3>0
    <3>4. shift(T) \in SUBSET ((a + 1)..(a + n))
      OBVIOUS
    <3>5. IsFiniteSet(shift(T))
      <4> HIDE DEF shift
      <4> QED BY <1>0, <3>4, FS_Subset
    <3>6. \A x \in shift(T) : g[x] \in Int
      <4> SUFFICES ASSUME NEW x \in shift(T) PROVE g[x] \in Int
        OBVIOUS
      <4>1. x - a \in 1..n /\ a + (x - a) = x
        OBVIOUS
      <4> QED BY <4>1
    <3> HIDE DEF shift
    <3>7. SumFunctionOnSet(g, shift(T)) = g[a + i] + SumFunctionOnSet(g, shift(T) \ {a + i})
      BY <3>3, <3>5, <3>6, SumRemove
    <3> QED
      BY <3>0, <3>1, <3>2, <3>3, <3>7
  <2> QED
    BY <2>1, <2>2
<1>2. same \in SUBSET SUBSET S
  OBVIOUS
<1>3. same = SUBSET S
  <2> HIDE DEF same, S
  <2> QED
    BY <1>0, <1>1, <1>2, SubsetInduction
<1>4. shift(S) = (a + 1)..(a + n)
  OBVIOUS
<1>5. SumFunctionOnSet(g, shift(S)) = SumFunctionOnSet(f, S)
  BY <1>3
<1> QED
  BY <1>4, <1>5, Zenon

(* Paying each member of a set what the items it owns are worth adds no     *)
(* more to the sum than all items are worth.                                *)
PaidFor(S, old, new, I, worth, owner) ==
  \A u \in S : /\ old[u] \in Int
               /\ new[u] = old[u] + SumFunctionOnSet(worth, {i \in I : owner[i] = u})

(* When every item is paid to one owner, or to none, the balances grow by   *)
(* no more than the items are worth.                                        *)
LEMMA SumPaid ==
  ASSUME NEW S, IsFiniteSet(S), NEW I, IsFiniteSet(I), NEW worth, NEW owner,
         \A i \in I : worth[i] \in Nat,
         NEW old, NEW new, PaidFor(S, old, new, I, worth, owner)
  PROVE  SumFunctionOnSet(new, S) <= SumFunctionOnSet(old, S) + SumFunctionOnSet(worth, I)
<1> DEFINE owned(T) == {i \in I : owner[i] \in T}
           paid == {T \in SUBSET S : SumFunctionOnSet(new, T)
                      = SumFunctionOnSet(old, T) + SumFunctionOnSet(worth, owned(T))}
<1>0. ASSUME NEW J \in SUBSET I
      PROVE  IsFiniteSet(J) /\ SumFunctionOnSet(worth, J) \in Nat
  <2>1. IsFiniteSet(J)
    BY FS_Subset
  <2> QED BY <2>1, SumNat
<1>1. ASSUME NEW T \in SUBSET S, \A U \in SUBSET T : U # T => U \in paid
      PROVE  T \in paid
  <2>1. CASE T = {}
    <3>1. owned(T) = {}
      BY <2>1
    <3> HIDE DEF owned
    <3>2. /\ SumFunctionOnSet(worth, owned(T)) = 0
          /\ SumFunctionOnSet(old, T) = 0 /\ SumFunctionOnSet(new, T) = 0
      BY <2>1, <3>1, SumEmpty, Zenon
    <3> QED BY <3>2
  <2>2. CASE T # {}
    <3> DEFINE u == Pick(T)
               less == T \ {u}
               own == {i \in I : owner[i] = u}
    <3>0. IsFiniteSet(T) /\ u \in T
      BY <2>2, FS_Subset, PickMember
    <3>1. /\ SumFunctionOnSet(new, T) = new[u] + SumFunctionOnSet(new, less)
          /\ SumFunctionOnSet(old, T) = old[u] + SumFunctionOnSet(old, less)
      BY <2>2, <3>0, SumPick
    <3>2. SumFunctionOnSet(new, less)
            = SumFunctionOnSet(old, less) + SumFunctionOnSet(worth, owned(less))
      BY <3>0, <1>1
    <3> HIDE DEF u
    <3>3. new[u] = old[u] + SumFunctionOnSet(worth, own) /\ old[u] \in Int
      BY <3>0 DEF PaidFor
    <3>4. owned(T) = own \cup owned(less) /\ own \cap owned(less) = {}
      BY <3>0
    <3>5. own \in SUBSET I /\ owned(less) \in SUBSET I
      OBVIOUS
    <3>6. less \in SUBSET S
      BY <3>0
    <3>7. SumFunctionOnSet(old, less) \in Int
      <4>1. \A v \in S : old[v] \in Int
        BY DEF PaidFor
      <4> QED BY <3>6, <4>1, SumInt
    <3> HIDE DEF own, owned, less
    <3>8. SumFunctionOnSet(worth, own \cup owned(less))
            = SumFunctionOnSet(worth, own) + SumFunctionOnSet(worth, owned(less))
      <4>1. \A i \in own \cup owned(less) : worth[i] \in Int
        BY <3>5
      <4> QED BY <1>0, <3>4, <3>5, <4>1, SumUnion
    <3>9. SumFunctionOnSet(worth, owned(T))
            = SumFunctionOnSet(worth, own) + SumFunctionOnSet(worth, owned(less))
      BY <3>4, <3>8, Zenon
    <3>10. SumFunctionOnSet(worth, own) \in Nat /\ SumFunctionOnSet(worth, owned(less)) \in Nat
      BY <1>0, <3>5
    <3>11. SumFunctionOnSet(new, T) = SumFunctionOnSet(old, T) + SumFunctionOnSet(worth, owned(T))
      BY <3>1, <3>2, <3>3, <3>7, <3>9, <3>10
    <3> QED
      BY <3>11
  <2> QED
    BY <2>1, <2>2
<1>2. paid \in SUBSET SUBSET S
  OBVIOUS
<1>3. paid = SUBSET S
  <2> HIDE DEF paid
  <2> QED
    BY <1>1, <1>2, SubsetInduction
<1>4. SumFunctionOnSet(new, S) = SumFunctionOnSet(old, S) + SumFunctionOnSet(worth, owned(S))
  BY <1>3
<1>5. owned(S) \in SUBSET I
  OBVIOUS
<1> HIDE DEF owned
<1>6. SumFunctionOnSet(worth, owned(S)) <= SumFunctionOnSet(worth, I)
  BY <1>5, SumSubset
<1>7. /\ SumFunctionOnSet(old, S) \in Int /\ SumFunctionOnSet(worth, owned(S)) \in Nat
      /\ SumFunctionOnSet(worth, I) \in Nat
  BY <1>0, <1>5, SumInt DEF PaidFor
<1> QED
  BY <1>4, <1>6, <1>7
===============================================================================
