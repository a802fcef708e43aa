----------------------------- MODULE Induction -----------------------------
(***************************************************************************)
(* Induction over numbers and finite sets, and what it says of sums.       *)
(*                                                                         *)
(* An induction principle is stated for a set: the numbers, or the sets,   *)
(* for which the claim holds. With it the recursive function behind        *)
(* SumFunctionOnSet (Folds) exists, does not depend on the order in which  *)
(* it visits the set, and adds up as sums do.                              *)
(***************************************************************************)
EXTENDS Integers, FiniteSetsExt, Functions, FiniteSetTheorems, WellFoundedInduction, TLAPS

-----------------------------------------------------------------------------
(* Numbers *)

LEMMA NatLess ==
  IsWellFoundedOn({p \in Nat \X Nat : p[1] < p[2]}, Nat)
<1>1. {p \in Nat \X Nat : p[1] < p[2]} = OpToRel(<, Nat)
  BY DEF OpToRel
<1> QED
  BY <1>1, NatLessThanWellFounded

\* A set of numbers has a least one.
LEMMA LeastOfNats ==
  ASSUME NEW S, S \subseteq Nat, S # {}
  PROVE  \E x \in S : \A y \in S : x <= y
<1> DEFINE R == {p \in Nat \X Nat : p[1] < p[2]}
<1>1. \A x, y \in Nat : y < x => <<y, x>> \in R
  OBVIOUS
<1> HIDE DEF R
<1>2. IsWellFoundedOn(R, Nat)
  BY NatLess DEF R
<1>3. PICK x \in S : \A y \in S : ~(<<y, x>> \in R)
  BY <1>2, WFMin
<1>4. ASSUME NEW y \in S PROVE x <= y
  <2>1. x \in Nat /\ y \in Nat
    OBVIOUS
  <2>2. ~(y < x)
    BY <1>1, <1>3, <2>1, Zenon
  <2> QED
    BY <2>1, <2>2
<1> QED
  BY <1>4

\* A set of numbers that has 0 and every successor has them all.
LEMMA NumberInduction ==
  ASSUME NEW S, 0 \in S, \A n \in Nat : n \in S => n + 1 \in S
  PROVE  \A n \in Nat : n \in S
<1> DEFINE T == {n \in Nat : n \notin S}
<1> SUFFICES ASSUME T # {} PROVE FALSE
  OBVIOUS
<1>1. PICK m \in T : \A n \in T : m <= n
  <2> T \subseteq Nat
    OBVIOUS
  <2> HIDE DEF T
  <2> QED
    BY LeastOfNats
<1>2. m \in Nat /\ m # 0
  OBVIOUS
<1>3. m - 1 \in Nat /\ m - 1 \notin T
  BY <1>1, <1>2
<1>4. (m - 1) + 1 \in S
  BY <1>3
<1> QED
  BY <1>2, <1>4

-----------------------------------------------------------------------------
(* Finite sets *)

\* A set of subsets that has the empty one, and every one of its sets with one
\* more element, has the whole set.
LEMMA SetInduction ==
  ASSUME NEW T, IsFiniteSet(T), NEW F, {} \in F,
         \A U \in SUBSET T : \A x \in T \ U : U \in F => U \cup {x} \in F
  PROVE  T \in F
<1> DEFINE S == {n \in Nat : \A U \in SUBSET T : Cardinality(U) = n => U \in F}
<1>1. \A U \in SUBSET T : IsFiniteSet(U)
  BY FS_Subset
<1>2. 0 \in S
  <2>1. \A U \in SUBSET T : Cardinality(U) = 0 => U = {}
    BY <1>1, FS_EmptySet
  <2> QED
    BY <2>1
<1>3. ASSUME NEW n \in Nat, n \in S PROVE n + 1 \in S
  <2> SUFFICES ASSUME NEW U \in SUBSET T, Cardinality(U) = n + 1 PROVE U \in F
    OBVIOUS
  <2>1. U # {}
    <3>1. Cardinality({}) = 0 /\ n + 1 # 0
      BY FS_EmptySet
    <3> QED
      BY <3>1
  <2>2. PICK x \in U : TRUE
    BY <2>1
  <2>3. Cardinality(U \ {x}) = n
    <3>1. Cardinality(U \ {x}) = Cardinality(U) - 1
      BY <1>1, FS_RemoveElement
    <3> QED
      BY <3>1
  <2>4. U \ {x} \in F
    BY <1>3, <2>3
  <2>5. (U \ {x}) \cup {x} \in F /\ (U \ {x}) \cup {x} = U
    BY <2>4
  <2> QED
    BY <2>5
<1>4. Cardinality(T) \in Nat
  BY FS_CardinalityType
<1> HIDE DEF S
<1>5. Cardinality(T) \in S
  BY <1>2, <1>3, <1>4, NumberInduction
<1> QED
  BY <1>5 DEF S

\* The values of a function with a finite domain.
LEMMA RangeIsFinite ==
  ASSUME NEW f, IsFiniteSet(DOMAIN f)
  PROVE  IsFiniteSet({f[x] : x \in DOMAIN f})
<1> DEFINE T == {f[x] : x \in DOMAIN f}
           g == [x \in DOMAIN f |-> f[x]]
<1>1. g \in Surjection(DOMAIN f, T)
  BY DEF Surjection
<1> QED
  BY <1>1, FS_Surjection

-----------------------------------------------------------------------------
(* Sums *)

Chosen(s) == CHOOSE x \in s : TRUE

\* The recursion of the sum of f over the subsets of S.
Solves(g, f, S) ==
  g = [s \in SUBSET S |-> IF s = {} THEN 0 ELSE f[Chosen(s)] + g[s \ {Chosen(s)}]]

LEMMA SumIsFold ==
  ASSUME NEW f, NEW S
  PROVE  SumFunctionOnSet(f, S) = (CHOOSE g : Solves(g, f, S))[S]
BY DEF SumFunctionOnSet, FoldFunctionOnSet, MapThenFoldSet, Solves, Chosen

\* One element less.
LEMMA ChosenLeaves ==
  ASSUME NEW s, IsFiniteSet(s), s # {}
  PROVE  /\ Chosen(s) \in s /\ IsFiniteSet(s \ {Chosen(s)})
         /\ Cardinality(s) \in Nat /\ Cardinality(s \ {Chosen(s)}) \in Nat
         /\ Cardinality(s) = Cardinality(s \ {Chosen(s)}) + 1
<1>1. Chosen(s) \in s
  BY DEF Chosen
<1>2. /\ IsFiniteSet(s \ {Chosen(s)})
      /\ Cardinality(s \ {Chosen(s)}) = Cardinality(s) - 1
  BY <1>1, FS_RemoveElement
<1>3. Cardinality(s) \in Nat /\ Cardinality(s \ {Chosen(s)}) \in Nat
  BY <1>2, FS_CardinalityType
<1> QED
  BY <1>1, <1>2, <1>3

\* The recursion has a solution, in numbers.
LEMMA SolutionExists ==
  ASSUME NEW S, IsFiniteSet(S), NEW f, \A x \in S : f[x] \in Int
  PROVE  \E g \in [SUBSET S -> Int] : Solves(g, f, S)
<1> DEFINE Body(g, s) == IF s = {} THEN 0 ELSE f[Chosen(s)] + g[s \ {Chosen(s)}]
           Small(n) == {s \in SUBSET S : Cardinality(s) <= n}
           Partial(n) == \E g \in [Small(n) -> Int] : \A s \in Small(n) : g[s] = Body(g, s)
           N == {n \in Nat : Partial(n)}
<1>1. \A s \in SUBSET S : IsFiniteSet(s) /\ Cardinality(s) \in Nat
  BY FS_Subset, FS_CardinalityType
<1>2. \A s \in SUBSET S : s # {} =>
        /\ Chosen(s) \in S /\ s \ {Chosen(s)} \in SUBSET S
        /\ Cardinality(s) = Cardinality(s \ {Chosen(s)}) + 1
  BY <1>1, ChosenLeaves
<1>3. \A n \in Nat : \A s \in Small(n + 1) : s # {} => s \ {Chosen(s)} \in Small(n)
  BY <1>1, <1>2
<1>4. \A n \in Nat : Small(n) \subseteq Small(n + 1)
  BY <1>1
<1>5. 0 \in N
  <2> DEFINE g == [s \in Small(0) |-> 0]
  <2>1. \A s \in Small(0) : s = {}
    <3>1. \A s \in Small(0) : Cardinality(s) = 0
      BY <1>1
    <3> QED
      BY <1>1, <3>1, FS_EmptySet
  <2>2. g \in [Small(0) -> Int] /\ \A s \in Small(0) : g[s] = Body(g, s)
    BY <2>1
  <2> QED
    BY <2>2
<1>6. ASSUME NEW n \in Nat, n \in N PROVE n + 1 \in N
  <2>1. PICK g \in [Small(n) -> Int] : \A s \in Small(n) : g[s] = Body(g, s)
    BY <1>6
  <2> DEFINE h == [s \in Small(n + 1) |-> Body(g, s)]
  <2>2. \A s \in Small(n) : h[s] = g[s]
    BY <1>4, <2>1
  <2>3. h \in [Small(n + 1) -> Int]
    BY <1>2, <1>3
  <2>4. \A s \in Small(n + 1) : h[s] = Body(h, s)
    BY <1>3, <2>2
  <2>5. Partial(n + 1)
    BY <2>3, <2>4
  <2> HIDE DEF Partial
  <2> QED
    BY <2>5
<1>7. Cardinality(S) \in N
  <2> HIDE DEF N
  <2> QED
    BY <1>5, <1>6, NumberInduction, FS_CardinalityType
<1>8. Small(Cardinality(S)) = SUBSET S
  BY FS_Subset
<1>9. PICK g \in [SUBSET S -> Int] : \A s \in SUBSET S : g[s] = Body(g, s)
  BY <1>7, <1>8
<1>10. g = [s \in SUBSET S |-> Body(g, s)]
  BY <1>9
<1> QED
  BY <1>9, <1>10 DEF Solves

\* Solutions for a set and a part of it agree on the part.
LEMMA SolutionsAgree ==
  ASSUME NEW S, IsFiniteSet(S), NEW T \in SUBSET S, NEW f, NEW g, NEW h,
         Solves(g, f, S), Solves(h, f, T)
  PROVE  \A s \in SUBSET T : g[s] = h[s]
<1> DEFINE N == {n \in Nat : \A s \in SUBSET T : Cardinality(s) = n => g[s] = h[s]}
<1>1. \A s \in SUBSET T : IsFiniteSet(s) /\ Cardinality(s) \in Nat /\ s \in SUBSET S
  BY FS_Subset, FS_CardinalityType
<1>2. \A s \in SUBSET T : s # {} =>
        /\ s \ {Chosen(s)} \in SUBSET T
        /\ Cardinality(s) = Cardinality(s \ {Chosen(s)}) + 1
  BY <1>1, ChosenLeaves
<1>3. /\ g[{}] = 0 /\ h[{}] = 0
      /\ \A s \in SUBSET T : s # {} =>
           /\ g[s] = f[Chosen(s)] + g[s \ {Chosen(s)}]
           /\ h[s] = f[Chosen(s)] + h[s \ {Chosen(s)}]
  BY <1>1 DEF Solves
<1>4. 0 \in N
  <2>1. \A s \in SUBSET T : Cardinality(s) = 0 => s = {}
    BY <1>1, FS_EmptySet
  <2> QED
    BY <2>1, <1>3
<1>5. ASSUME NEW n \in Nat, n \in N PROVE n + 1 \in N
  <2> SUFFICES ASSUME NEW s \in SUBSET T, Cardinality(s) = n + 1 PROVE g[s] = h[s]
    OBVIOUS
  <2>1. s # {}
    <3>1. Cardinality({}) = 0 /\ n + 1 # 0
      BY FS_EmptySet
    <3> QED
      BY <3>1
  <2>2. s \ {Chosen(s)} \in SUBSET T /\ Cardinality(s \ {Chosen(s)}) = n
    <3>1. Cardinality(s \ {Chosen(s)}) \in Nat
      BY <1>1, <1>2, <2>1
    <3> QED
      BY <1>2, <2>1, <3>1
  <2>3. g[s \ {Chosen(s)}] = h[s \ {Chosen(s)}]
    BY <1>5, <2>2
  <2> QED
    BY <1>3, <2>1, <2>3
<1>6. \A n \in Nat : n \in N
  <2> HIDE DEF N
  <2> QED
    BY <1>4, <1>5, NumberInduction
<1> QED
  BY <1>1, <1>6

\* What the sums of f are: of nothing 0, and else a first element and the rest.
LEMMA SumUnfolds ==
  ASSUME NEW S, IsFiniteSet(S), NEW f, \A x \in S : f[x] \in Int
  PROVE  /\ SumFunctionOnSet(f, S) \in Int
         /\ S = {} => SumFunctionOnSet(f, S) = 0
         /\ S # {} => SumFunctionOnSet(f, S) =
                        f[Chosen(S)] + SumFunctionOnSet(f, S \ {Chosen(S)})
<1>1. PICK g \in [SUBSET S -> Int] : Solves(g, f, S)
  BY SolutionExists
<1>2. ASSUME NEW T \in SUBSET S PROVE SumFunctionOnSet(f, T) = g[T]
  <2> DEFINE h == CHOOSE h : Solves(h, f, T)
  <2>1. IsFiniteSet(T) /\ \A x \in T : f[x] \in Int
    BY FS_Subset
  <2>2. \E k : Solves(k, f, T)
    BY <2>1, SolutionExists
  <2>3. Solves(h, f, T)
    BY <2>2
  <2>4. SumFunctionOnSet(f, T) = h[T]
    BY SumIsFold
  <2> HIDE DEF h
  <2>5. g[T] = h[T]
    BY <1>1, <2>3, SolutionsAgree
  <2> QED
    BY <2>4, <2>5
<1>3. S = {} => g[S] = 0
  BY <1>1 DEF Solves
<1>4. S # {} => g[S] = f[Chosen(S)] + g[S \ {Chosen(S)}]
  BY <1>1 DEF Solves
<1> QED
  BY <1>1, <1>2, <1>3, <1>4

LEMMA Exchange == \A a, b, c \in Int : a + (b + c) = b + (a + c)
OBVIOUS

\* Any element may be added first.
LEMMA SumSplits ==
  ASSUME NEW S, IsFiniteSet(S), NEW f, \A x \in S : f[x] \in Int, NEW x \in S
  PROVE  SumFunctionOnSet(f, S) = f[x] + SumFunctionOnSet(f, S \ {x})
<1> DEFINE Sum(s) == SumFunctionOnSet(f, s)
           Splits(s) == \A y \in s : Sum(s) = f[y] + Sum(s \ {y})
           N == {n \in Nat : \A s \in SUBSET S : Cardinality(s) = n => Splits(s)}
<1>1. \A s \in SUBSET S : IsFiniteSet(s) /\ Cardinality(s) \in Nat
  BY FS_Subset, FS_CardinalityType
<1>2. \A s \in SUBSET S : /\ Sum(s) \in Int
                          /\ s # {} => Sum(s) = f[Chosen(s)] + Sum(s \ {Chosen(s)})
  BY <1>1, SumUnfolds
<1>3. 0 \in N
  <2>1. \A s \in SUBSET S : Cardinality(s) = 0 => s = {}
    BY <1>1, FS_EmptySet
  <2> QED
    BY <2>1
<1>4. ASSUME NEW n \in Nat, n \in N PROVE n + 1 \in N
  <2> SUFFICES ASSUME NEW s \in SUBSET S, Cardinality(s) = n + 1, NEW y \in s
               PROVE  Sum(s) = f[y] + Sum(s \ {y})
    OBVIOUS
  <2> DEFINE z == Chosen(s)
  <2>1. z \in s
    BY DEF Chosen
  <2>2. Sum(s) = f[z] + Sum(s \ {z})
    BY <1>2
  <2> HIDE DEF z
  <2>3. CASE y = z
    BY <2>2, <2>3
  <2>4. CASE y # z
    <3>1. /\ s \ {y} \in SUBSET S /\ s \ {z} \in SUBSET S
          /\ Cardinality(s \ {y}) = n /\ Cardinality(s \ {z}) = n
      <4>1. /\ Cardinality(s \ {y}) = Cardinality(s) - 1
            /\ Cardinality(s \ {z}) = Cardinality(s) - 1
        BY <1>1, <2>1, FS_RemoveElement
      <4> QED
        BY <4>1
    <3>2. Splits(s \ {y}) /\ Splits(s \ {z})
      BY <1>4, <3>1
    <3>3. /\ Sum(s \ {y}) = f[z] + Sum((s \ {y}) \ {z})
          /\ Sum(s \ {z}) = f[y] + Sum((s \ {z}) \ {y})
      BY <2>1, <2>4, <3>2
    <3>4. (s \ {y}) \ {z} = (s \ {z}) \ {y}
      OBVIOUS
    <3>5. /\ f[y] \in Int /\ f[z] \in Int
          /\ Sum((s \ {z}) \ {y}) \in Int
      BY <1>2, <2>1
    <3> HIDE DEF Sum
    <3>6. Sum(s) = f[z] + (f[y] + Sum((s \ {z}) \ {y}))
      BY <2>2, <3>3
    <3>7. Sum(s \ {y}) = f[z] + Sum((s \ {z}) \ {y})
      BY <3>3, <3>4
    <3>8. f[z] + (f[y] + Sum((s \ {z}) \ {y})) = f[y] + (f[z] + Sum((s \ {z}) \ {y}))
      BY <3>5, Exchange, Zenon
    <3> QED
      BY <3>6, <3>7, <3>8, Zenon
  <2> QED
    BY <2>3, <2>4
<1>5. Cardinality(S) \in N
  <2> HIDE DEF N
  <2> QED
    BY <1>3, <1>4, <1>1, NumberInduction
<1> QED
  BY <1>5

\* The sum over no, one and one more element.
LEMMA SumEmpty ==
  ASSUME NEW f
  PROVE  SumFunctionOnSet(f, {}) = 0
<1>1. IsFiniteSet({})
  BY FS_EmptySet
<1> QED
  BY <1>1, SumUnfolds

LEMMA SumAdds ==
  ASSUME NEW S, IsFiniteSet(S), NEW x, x \notin S, NEW f,
         \A y \in S \cup {x} : f[y] \in Int
  PROVE  /\ SumFunctionOnSet(f, S) \in Int
         /\ SumFunctionOnSet(f, S \cup {x}) = f[x] + SumFunctionOnSet(f, S)
<1>1. IsFiniteSet(S \cup {x}) /\ (S \cup {x}) \ {x} = S
  BY FS_AddElement
<1>2. SumFunctionOnSet(f, S \cup {x}) = f[x] + SumFunctionOnSet(f, (S \cup {x}) \ {x})
  BY <1>1, SumSplits
<1> QED
  BY <1>1, <1>2, SumUnfolds

LEMMA SumSingleton ==
  ASSUME NEW f, NEW x, f[x] \in Int
  PROVE  SumFunctionOnSet(f, {x}) = f[x]
<1>1. IsFiniteSet({}) /\ {} \cup {x} = {x}
  BY FS_EmptySet
<1>2. SumFunctionOnSet(f, {} \cup {x}) = f[x] + SumFunctionOnSet(f, {})
  BY <1>1, SumAdds
<1> QED
  BY <1>1, <1>2, SumEmpty

\* Equal terms have equal sums.
LEMMA SumEquals ==
  ASSUME NEW S, IsFiniteSet(S), NEW f, NEW g, \A x \in S : f[x] \in Int /\ g[x] = f[x]
  PROVE  SumFunctionOnSet(g, S) = SumFunctionOnSet(f, S)
<1> DEFINE F == {U \in SUBSET S : SumFunctionOnSet(g, U) = SumFunctionOnSet(f, U)}
<1>1. {} \in F
  BY SumEmpty
<1>2. ASSUME NEW U \in SUBSET S, NEW x \in S \ U, U \in F PROVE U \cup {x} \in F
  <2>1. IsFiniteSet(U)
    BY FS_Subset
  <2>2. /\ SumFunctionOnSet(f, U \cup {x}) = f[x] + SumFunctionOnSet(f, U)
        /\ SumFunctionOnSet(g, U \cup {x}) = g[x] + SumFunctionOnSet(g, U)
    BY <2>1, SumAdds
  <2> QED
    BY <1>2, <2>2
<1> HIDE DEF F
<1>3. S \in F
  BY <1>1, <1>2, SetInduction
<1> QED
  BY <1>3 DEF F

\* A sum of zeros.
LEMMA SumOfZeros ==
  ASSUME NEW S, IsFiniteSet(S), NEW f, \A x \in S : f[x] = 0
  PROVE  SumFunctionOnSet(f, S) = 0
<1> DEFINE F == {U \in SUBSET S : SumFunctionOnSet(f, U) = 0}
<1>1. {} \in F
  BY SumEmpty
<1>2. ASSUME NEW U \in SUBSET S, NEW x \in S \ U, U \in F PROVE U \cup {x} \in F
  <2>1. IsFiniteSet(U) /\ \A y \in U \cup {x} : f[y] \in Int
    BY FS_Subset
  <2>2. SumFunctionOnSet(f, U \cup {x}) = f[x] + SumFunctionOnSet(f, U)
    BY <2>1, SumAdds
  <2> QED
    BY <1>2, <2>2
<1> HIDE DEF F
<1>3. S \in F
  BY <1>1, <1>2, SetInduction
<1> QED
  BY <1>3 DEF F

\* One term that grows, grows the sum by as much.
LEMMA SumGrows ==
  ASSUME NEW S, IsFiniteSet(S), NEW f, NEW g, NEW x \in S,
         \A y \in S : f[y] \in Int /\ g[y] \in Int,
         \A y \in S \ {x} : g[y] = f[y]
  PROVE  SumFunctionOnSet(g, S) = SumFunctionOnSet(f, S) + (g[x] - f[x])
<1>1. /\ SumFunctionOnSet(f, S) = f[x] + SumFunctionOnSet(f, S \ {x})
      /\ SumFunctionOnSet(g, S) = g[x] + SumFunctionOnSet(g, S \ {x})
  BY SumSplits
<1>2. IsFiniteSet(S \ {x})
  BY FS_Subset
<1>3. SumFunctionOnSet(g, S \ {x}) = SumFunctionOnSet(f, S \ {x})
  BY <1>2, SumEquals
<1>4. SumFunctionOnSet(f, S \ {x}) \in Int
  BY <1>2, SumUnfolds
<1> QED
  BY <1>1, <1>3, <1>4
=============================================================================
