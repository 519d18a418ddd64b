----------------------------- MODULE SumTheorems -----------------------------
(***************************************************************************)
(* Facts about SumFunctionOnSet of the community modules, the sum by which  *)
(* the ledgers compare a row with the rows that refer to it.  The induction *)
(* theorems of the library take a predicate as a parameter; here the        *)
(* induction is over the subsets of a finite set with the SET of those for  *)
(* which the claim holds, which needs well-foundedness only.                *)
(***************************************************************************)
EXTENDS FiniteSetTheorems, TLAPS

\* A set of finite subsets has one that contains none of the others.
LEMMA MinimalSubset ==
  ASSUME NEW S, NEW Bad, Bad \subseteq FiniteSubsetsOf(S), Bad # {}
  PROVE  \E T \in Bad : \A U \in Bad : <<U, T>> \notin StrictSubsetOrdering(S)
BY FS_StrictSubsetOrderingWellFounded, WFMin, Zenon

\* Induction over the subsets of a finite set: a set of subsets that holds every subset
\* whose proper subsets it holds, holds them all.
LEMMA SubsetInduction ==
  ASSUME NEW S, IsFiniteSet(S), NEW Good,
         \A T \in SUBSET S : (\A U \in SUBSET T : U # T => U \in Good) => T \in Good
  PROVE  \A T \in SUBSET S : T \in Good
<1> DEFINE Bad == {T \in SUBSET S : T \notin Good}
<1>1. SUFFICES ASSUME Bad # {} PROVE FALSE
  OBVIOUS
<1>2. Bad \subseteq FiniteSubsetsOf(S)
  BY FS_Subset DEF FiniteSubsetsOf
<1>3. PICK T \in Bad : \A U \in Bad : <<U, T>> \notin StrictSubsetOrdering(S)
  <2> HIDE DEF Bad
  <2> QED BY <1>1, <1>2, MinimalSubset
<1>4. \A U \in SUBSET T : U # T => U \in Good
  BY <1>3 DEF StrictSubsetOrdering
<1> QED BY <1>3, <1>4

-----------------------------------------------------------------------------
(* The recursive function behind the sum exists and is the only one.        *)

First(s) == CHOOSE x \in s : TRUE

\* g sums f over every subset of S, taking the elements in the order the fold does.
Sums(f, S, g) ==
  g = [s \in SUBSET S |-> IF s = {} THEN 0 ELSE f[First(s)] + g[s \ {First(s)}]]

\* The sum is the value at S of the recursive function that MapThenFoldSet declares.
LEMMA SumIsFold ==
  ASSUME NEW f, NEW S
  PROVE  SumFunctionOnSet(f, S) = (CHOOSE g : Sums(f, S, g))[S]
BY DEF SumFunctionOnSet, FoldFunctionOnSet, MapThenFoldSet, Sums, First

\* The first element is one.
LEMMA FirstIn == \A s : s # {} => First(s) \in s
BY DEF First

\* Two such functions agree wherever both are defined.
LEMMA SumsUnique ==
  ASSUME NEW f, NEW S, IsFiniteSet(S), NEW T \in SUBSET S, NEW g, NEW h,
         Sums(f, S, g), Sums(f, T, h)
  PROVE  \A s \in SUBSET T : g[s] = h[s]
<1> DEFINE Good == {s \in SUBSET T : g[s] = h[s]}
<1>1. ASSUME NEW s \in SUBSET T, \A u \in SUBSET s : u # s => u \in Good
      PROVE  s \in Good
  <2>1. CASE s = {}
    BY <2>1 DEF Sums
  <2>2. CASE s # {}
    <3>1. First(s) \in s
      BY <2>2, FirstIn
    <3>2. g[s \ {First(s)}] = h[s \ {First(s)}]
      BY <3>1, <1>1
    <3>3. g[s] = f[First(s)] + g[s \ {First(s)}] /\ h[s] = f[First(s)] + h[s \ {First(s)}]
      BY <2>2 DEF Sums
    <3> QED BY <3>2, <3>3
  <2> QED BY <2>1, <2>2
<1>2. IsFiniteSet(T)
  BY FS_Subset
<1>3. \A s \in SUBSET T : s \in Good
  <2> HIDE DEF Good
  <2> QED BY <1>1, <1>2, SubsetInduction
<1> QED BY <1>3

\* Every finite set has one: the functions of its proper subsets are put together.
LEMMA SumsExists ==
  ASSUME NEW f, NEW S, IsFiniteSet(S)
  PROVE  \E g : Sums(f, S, g)
<1> DEFINE Good == {T \in SUBSET S : \E g : Sums(f, T, g)}
<1>1. ASSUME NEW T \in SUBSET S, \A U \in SUBSET T : U # T => U \in Good
      PROVE  T \in Good
  <2> DEFINE part[U \in SUBSET T] == CHOOSE g : Sums(f, U, g)
             G(s) == IF s = {} THEN 0
                     ELSE f[First(s)] + part[s \ {First(s)}][s \ {First(s)}]
             whole == [s \in SUBSET T |-> G(s)]
  <2>1. \A U \in SUBSET T : U # T => Sums(f, U, part[U])
    BY <1>1
  <2> HIDE DEF part
  <2>2. ASSUME NEW s \in SUBSET T, s # T PROVE part[s][s] = G(s)
    <3>1. CASE s = {}
      BY <3>1, <2>1, <2>2 DEF Sums
    <3>2. CASE s # {}
      <4> DEFINE u == s \ {First(s)}
      <4>1. u \in SUBSET s /\ u # T
        BY FirstIn, <3>2
      <4>2. part[s][s] = f[First(s)] + part[s][u]
        BY <2>1, <2>2, <3>2 DEF Sums
      <4>3. IsFiniteSet(s)
        BY FS_Subset
      <4>5. Sums(f, s, part[s])
        BY <2>1, <2>2
      <4>6. Sums(f, u, part[u])
        BY <2>1, <4>1
      <4>4. part[s][u] = part[u][u]
        <5> DEFINE g == part[s]
                   h == part[u]
        <5>1. u \in SUBSET s
          BY <4>1
        <5>2. Sums(f, s, g) /\ Sums(f, u, h)
          BY <4>5, <4>6
        <5> HIDE DEF u, g, h
        <5>3. \A v \in SUBSET u : g[v] = h[v]
          BY <4>3, <5>1, <5>2, SumsUnique
        <5>4. g[u] = h[u]
          BY <5>3
        <5> QED BY <5>4 DEF g, h
      <4> QED BY <4>2, <4>4, <3>2
    <3> QED BY <3>1, <3>2
  <2>3. Sums(f, T, whole)
    <3>1. ASSUME NEW s \in SUBSET T, s # {}
          PROVE  part[s \ {First(s)}][s \ {First(s)}] = whole[s \ {First(s)}]
      <4>1. s \ {First(s)} \in SUBSET T /\ s \ {First(s)} # T
        BY FirstIn, <3>1
      <4> QED BY <4>1, <2>2
    <3>2. \A s \in SUBSET T :
             whole[s] = IF s = {} THEN 0 ELSE f[First(s)] + whole[s \ {First(s)}]
      BY <3>1
    <3> HIDE DEF G
    <3>3. whole = [s \in SUBSET T |-> whole[s]]
      OBVIOUS
    <3> HIDE DEF whole
    <3> QED BY <3>2, <3>3 DEF Sums
  <2> QED BY <2>3
<1>2. \A T \in SUBSET S : T \in Good
  <2> HIDE DEF Good
  <2> QED BY <1>1, SubsetInduction
<1> QED BY <1>2

-----------------------------------------------------------------------------
(* What is used of sums.                                                    *)

\* The sum over no element is zero.
THEOREM SumEmpty == \A f : SumFunctionOnSet(f, {}) = 0
<1> TAKE f
<1>1. Sums(f, {}, CHOOSE g : Sums(f, {}, g))
  BY SumsExists, FS_EmptySet
<1> DEFINE g == CHOOSE g : Sums(f, {}, g)
<1>2. Sums(f, {}, g)
  BY <1>1
<1> HIDE DEF g
<1>3. g[{}] = 0
  BY <1>2 DEF Sums
<1>4. SumFunctionOnSet(f, {}) = g[{}]
  BY SumIsFold DEF g
<1> QED BY <1>3, <1>4

\* The sum is its first summand and the sum of the rest.
LEMMA SumFirst ==
  ASSUME NEW f, NEW S, IsFiniteSet(S), S # {}
  PROVE  SumFunctionOnSet(f, S) = f[First(S)] + SumFunctionOnSet(f, S \ {First(S)})
<1> DEFINE T == S \ {First(S)}
           g == CHOOSE g : Sums(f, S, g)
           h == CHOOSE h : Sums(f, T, h)
<1>1. T \in SUBSET S
  OBVIOUS
<1>7. IsFiniteSet(T)
  BY FS_Subset
<1>2. Sums(f, S, g)
  BY SumsExists
<1>3. Sums(f, T, h)
  <2> HIDE DEF T
  <2> QED BY <1>7, SumsExists
<1>4. SumFunctionOnSet(f, S) = g[S] /\ SumFunctionOnSet(f, T) = h[T]
  <2> HIDE DEF T
  <2> QED BY SumIsFold
<1> HIDE DEF g, h
<1>5. g[S] = f[First(S)] + g[T]
  BY <1>2 DEF Sums
<1>6. g[T] = h[T]
  <2> HIDE DEF T
  <2>1. \A s \in SUBSET T : g[s] = h[s]
    BY <1>1, <1>2, <1>3, SumsUnique
  <2> QED BY <2>1
<1> QED BY <1>4, <1>5, <1>6

\* The sum of integers is one, and any element may be taken out of it: the order in which
\* the fold takes them does not matter.
THEOREM SumOut ==
  ASSUME NEW f, NEW S, IsFiniteSet(S), \A x \in S : f[x] \in Int
  PROVE  /\ SumFunctionOnSet(f, S) \in Int
         /\ \A x \in S : SumFunctionOnSet(f, S) = f[x] + SumFunctionOnSet(f, S \ {x})
<1> DEFINE Sum(T) == SumFunctionOnSet(f, T)
           Good == {T \in SUBSET S : Sum(T) \in Int /\ \A x \in T : Sum(T) = f[x] + Sum(T \ {x})}
<1>1. ASSUME NEW T \in SUBSET S, \A U \in SUBSET T : U # T => U \in Good
      PROVE  T \in Good
  <2>1. CASE T = {}
    BY <2>1, SumEmpty
  <2>2. CASE T # {}
    <3> DEFINE a == First(T)
    <3>1. a \in T
      BY <2>2, FirstIn
    <3> HIDE DEF a
    <3>2. Sum(T) = f[a] + Sum(T \ {a})
      BY <2>2, SumFirst, FS_Subset DEF a
    <3>3. \A x \in T : T \ {x} \in Good
      BY <1>1
    <3>4. Sum(T) \in Int
      BY <3>1, <3>2, <3>3
    <3>5. ASSUME NEW x \in T, x # a PROVE Sum(T) = f[x] + Sum(T \ {x})
      <4> DEFINE Rest == (T \ {a}) \ {x}
      <4>1. Sum(T \ {a}) = f[x] + Sum(Rest)
        BY <3>1, <3>3, <3>5
      <4>2. Rest = (T \ {x}) \ {a}
        OBVIOUS
      <4>3. Sum(T \ {x}) = f[a] + Sum((T \ {x}) \ {a})
        BY <3>1, <3>3, <3>5
      <4>4. Rest \in Good
        BY <1>1, <3>1
      <4>5. f[a] \in Int /\ f[x] \in Int /\ Sum(Rest) \in Int
        BY <4>4, <3>1
      <4> HIDE DEF Sum, Rest
      <4>6. Sum(T \ {x}) = f[a] + Sum(Rest)
        BY <4>2, <4>3
      <4> QED BY <3>2, <4>1, <4>5, <4>6
    <3> QED BY <3>2, <3>4, <3>5
  <2> QED BY <2>1, <2>2
<1>2. \A T \in SUBSET S : T \in Good
  <2> HIDE DEF Good
  <2> QED BY <1>1, SubsetInduction
<1> QED BY <1>2

\* A sum of naturals is one, and no element exceeds it.
THEOREM SumNat ==
  ASSUME NEW f, NEW S, IsFiniteSet(S), \A x \in S : f[x] \in Nat
  PROVE  /\ SumFunctionOnSet(f, S) \in Nat
         /\ \A x \in S : f[x] <= SumFunctionOnSet(f, S)
<1> DEFINE Sum(T) == SumFunctionOnSet(f, T)
           Good == {T \in SUBSET S : Sum(T) \in Nat}
<1>1. ASSUME NEW T \in SUBSET S, \A U \in SUBSET T : U # T => U \in Good
      PROVE  T \in Good
  <2>1. CASE T = {}
    BY <2>1, SumEmpty
  <2>2. CASE T # {}
    <3> DEFINE a == First(T)
    <3>1. a \in T
      BY <2>2, FirstIn
    <3>2. Sum(T) = f[a] + Sum(T \ {a})
      BY <2>2, SumFirst, FS_Subset
    <3>3. T \ {a} \in Good
      BY <1>1, <3>1
    <3> QED BY <3>1, <3>2, <3>3
  <2> QED BY <2>1, <2>2
<1>2. \A T \in SUBSET S : T \in Good
  <2> HIDE DEF Good
  <2> QED BY <1>1, SubsetInduction
<1>3. \A x \in S : Sum(S) = f[x] + Sum(S \ {x})
  BY SumOut
<1>4. Sum(S) \in Nat /\ \A x \in S : Sum(S \ {x}) \in Nat
  BY <1>2
<1>5. \A x \in S : f[x] <= Sum(S)
  <2> TAKE x \in S
  <2> DEFINE all == Sum(S)
             rest == Sum(S \ {x})
  <2>1. all = f[x] + rest /\ all \in Nat /\ rest \in Nat /\ f[x] \in Nat
    BY <1>3, <1>4
  <2> HIDE DEF all, rest
  <2>2. f[x] <= all
    BY <2>1
  <2> QED BY <2>2 DEF all
<1> QED BY <1>4, <1>5

\* The sum depends on nothing but the values at the elements of the set.
THEOREM SumSame ==
  ASSUME NEW f, NEW g, NEW S, IsFiniteSet(S), \A x \in S : f[x] = g[x]
  PROVE  SumFunctionOnSet(f, S) = SumFunctionOnSet(g, S)
<1> DEFINE Good == {T \in SUBSET S : SumFunctionOnSet(f, T) = SumFunctionOnSet(g, T)}
<1>1. ASSUME NEW T \in SUBSET S, \A U \in SUBSET T : U # T => U \in Good
      PROVE  T \in Good
  <2>1. CASE T = {}
    BY <2>1, SumEmpty
  <2>2. CASE T # {}
    <3>1. First(T) \in T
      BY <2>2, FirstIn
    <3>2. IsFiniteSet(T)
      BY FS_Subset
    <3>3. SumFunctionOnSet(f, T) = f[First(T)] + SumFunctionOnSet(f, T \ {First(T)})
      BY <2>2, <3>2, SumFirst
    <3>4. SumFunctionOnSet(g, T) = g[First(T)] + SumFunctionOnSet(g, T \ {First(T)})
      BY <2>2, <3>2, SumFirst
    <3>5. T \ {First(T)} \in Good
      BY <1>1, <3>1
    <3> QED BY <3>1, <3>3, <3>4, <3>5
  <2> QED BY <2>1, <2>2
<1>2. \A T \in SUBSET S : T \in Good
  <2> HIDE DEF Good
  <2> QED BY <1>1, SubsetInduction
<1> QED BY <1>2

\* A change at one element changes the sum by as much.
THEOREM SumUpdate ==
  ASSUME NEW f, NEW g, NEW S, IsFiniteSet(S), NEW a \in S,
         \A x \in S : f[x] \in Int /\ g[x] \in Int,
         \A x \in S : x # a => f[x] = g[x]
  PROVE  SumFunctionOnSet(g, S) = SumFunctionOnSet(f, S) + (g[a] - f[a])
<1> DEFINE rest == SumFunctionOnSet(f, S \ {a})
<1>1. IsFiniteSet(S \ {a})
  BY FS_Subset
<1>2. rest = SumFunctionOnSet(g, S \ {a})
  BY <1>1, SumSame
<1>3. SumFunctionOnSet(f, S) = f[a] + rest
  BY SumOut
<1>4. SumFunctionOnSet(g, S) = g[a] + rest
  BY <1>2, SumOut
<1>5. rest \in Int
  BY <1>1, SumOut
<1> QED BY <1>3, <1>4, <1>5

\* The sum of sums of two functions is the sum of their sums.
THEOREM SumPlus ==
  ASSUME NEW f, NEW g, NEW h, NEW S, IsFiniteSet(S),
         \A x \in S : f[x] \in Int /\ g[x] \in Int /\ h[x] = f[x] + g[x]
  PROVE  SumFunctionOnSet(h, S) = SumFunctionOnSet(f, S) + SumFunctionOnSet(g, S)
<1> DEFINE Sum(k, T) == SumFunctionOnSet(k, T)
           Good == {T \in SUBSET S : Sum(h, T) = Sum(f, T) + Sum(g, T)}
<1>1. ASSUME NEW T \in SUBSET S, \A U \in SUBSET T : U # T => U \in Good
      PROVE  T \in Good
  <2>1. CASE T = {}
    BY <2>1, SumEmpty
  <2>2. CASE T # {}
    <3> DEFINE a == First(T)
               U == T \ {a}
    <3>1. a \in T
      BY <2>2, FirstIn
    <3>2. IsFiniteSet(T) /\ IsFiniteSet(U)
      BY FS_Subset
    <3>3. Sum(f, T) = f[a] + Sum(f, U)
      BY <2>2, <3>2, SumFirst
    <3>4. Sum(g, T) = g[a] + Sum(g, U)
      BY <2>2, <3>2, SumFirst
    <3>5. Sum(h, T) = h[a] + Sum(h, U)
      BY <2>2, <3>2, SumFirst
    <3>6. U \in Good
      BY <1>1, <3>1
    <3>7. Sum(f, U) \in Int /\ Sum(g, U) \in Int
      BY <3>2, SumOut
    <3>8. f[a] \in Int /\ g[a] \in Int /\ h[a] = f[a] + g[a]
      BY <3>1
    <3>9. Sum(h, U) = Sum(f, U) + Sum(g, U)
      BY <3>6
    <3> HIDE DEF Sum, U, a
    <3> QED BY <3>3, <3>4, <3>5, <3>7, <3>8, <3>9
  <2> QED BY <2>1, <2>2
<1>2. \A T \in SUBSET S : T \in Good
  <2> HIDE DEF Good
  <2> QED BY <1>1, SubsetInduction
<1> QED BY <1>2

\* Elements of value zero may be left out.
THEOREM SumWithoutZeros ==
  ASSUME NEW f, NEW S, IsFiniteSet(S), NEW R \in SUBSET S, \A x \in S : f[x] \in Int,
         \A x \in S \ R : f[x] = 0
  PROVE  SumFunctionOnSet(f, S) = SumFunctionOnSet(f, R)
<1> DEFINE Sum(T) == SumFunctionOnSet(f, T)
           Good == {T \in SUBSET S : Sum(T) = Sum(T \cap R)}
<1>1. ASSUME NEW T \in SUBSET S, \A U \in SUBSET T : U # T => U \in Good
      PROVE  T \in Good
  <2>1. CASE T \subseteq R
    <3>1. T \cap R = T
      BY <2>1
    <3> QED BY <3>1
  <2>2. CASE ~(T \subseteq R)
    <3>1. PICK x \in T : x \notin R
      BY <2>2
    <3>2. IsFiniteSet(T)
      BY FS_Subset
    <3>3. Sum(T) = f[x] + Sum(T \ {x})
      BY <3>2, SumOut
    <3>4. (T \ {x}) \cap R = T \cap R
      BY <3>1
    <3>5. T \ {x} \in Good
      BY <1>1
    <3>6. IsFiniteSet(T \ {x})
      BY FS_Subset
    <3>7. Sum(T \ {x}) \in Int
      BY <3>6, SumOut
    <3>8. Sum(T \ {x}) = Sum(T \cap R)
      BY <3>4, <3>5
    <3>9. f[x] = 0
      BY <3>1
    <3>10. Sum(T) = Sum(T \cap R)
      <4> HIDE DEF Sum
      <4> QED BY <3>3, <3>7, <3>8, <3>9
    <3> QED BY <3>10
  <2> QED BY <2>1, <2>2
<1>2. \A T \in SUBSET S : T \in Good
  <2> HIDE DEF Good
  <2> QED BY <1>1, SubsetInduction
<1>3. S \cap R = R
  OBVIOUS
<1> QED BY <1>2, <1>3

\* A set none of whose elements counts sums up to zero.
LEMMA SumOfZeros ==
  ASSUME NEW f, NEW S, IsFiniteSet(S), \A x \in S : f[x] = 0
  PROVE  SumFunctionOnSet(f, S) = 0
<1>1. SumFunctionOnSet(f, S) = SumFunctionOnSet(f, {})
  BY SumWithoutZeros
<1> QED BY <1>1, SumEmpty

\* A table has the same sum by rows as by columns.
THEOREM SumSwap ==
  ASSUME NEW A, NEW B, IsFiniteSet(A), IsFiniteSet(B), NEW f,
         \A a \in A, b \in B : f[a][b] \in Int
  PROVE  SumFunctionOnSet([a \in A |-> SumFunctionOnSet(f[a], B)], A)
         = SumFunctionOnSet([b \in B |-> SumFunctionOnSet([a \in A |-> f[a][b]], A)], B)
<1> DEFINE row == [a \in A |-> SumFunctionOnSet(f[a], B)]
           col == [b \in B |-> [a \in A |-> f[a][b]]]
           Cols(T) == [b \in B |-> SumFunctionOnSet(col[b], T)]
           Good == {T \in SUBSET A : SumFunctionOnSet(row, T) = SumFunctionOnSet(Cols(T), B)}
<1>1. \A a \in A : row[a] = SumFunctionOnSet(f[a], B) /\ row[a] \in Int
  BY SumOut
<1>2. \A b \in B : \A a \in A : col[b][a] = f[a][b] /\ col[b][a] \in Int
  OBVIOUS
<1>3. \A T : \A b \in B : Cols(T)[b] = SumFunctionOnSet(col[b], T)
  OBVIOUS
<1> HIDE DEF row, col, Cols
<1>4. ASSUME NEW T \in SUBSET A, \A U \in SUBSET T : U # T => U \in Good
      PROVE  T \in Good
  <2>1. CASE T = {}
    <3>1. \A b \in B : Cols(T)[b] = 0
      BY <1>3, <2>1, SumEmpty
    <3>2. SumFunctionOnSet(Cols(T), B) = 0
      BY <3>1, SumOfZeros
    <3> QED BY <2>1, <3>2, SumEmpty
  <2>2. CASE T # {}
    <3> DEFINE x == First(T)
               U == T \ {x}
    <3>1. x \in T
      BY <2>2, FirstIn
    <3> HIDE DEF x
    <3>2. IsFiniteSet(T) /\ IsFiniteSet(U) /\ U \subseteq A
      BY FS_Subset
    <3>3. U \in Good
      BY <1>4, <3>1
    <3>4. SumFunctionOnSet(row, T) = row[x] + SumFunctionOnSet(row, U)
      <4>1. \A a \in T : row[a] \in Int
        BY <1>1
      <4> QED BY <3>1, <3>2, <4>1, SumOut
    <3>5. \A b \in B : /\ f[x][b] \in Int /\ Cols(U)[b] \in Int
                       /\ Cols(T)[b] = f[x][b] + Cols(U)[b]
      <4> SUFFICES ASSUME NEW b \in B
                   PROVE  /\ f[x][b] \in Int /\ Cols(U)[b] \in Int
                          /\ Cols(T)[b] = f[x][b] + Cols(U)[b]
        OBVIOUS
      <4> DEFINE c == col[b]
      <4>1. \A a \in A : c[a] \in Int
        BY <1>2
      <4>2. c[x] = f[x][b]
        BY <1>2, <3>1
      <4> HIDE DEF c
      <4>3. SumFunctionOnSet(c, U) \in Int
        BY <3>2, <4>1, SumOut
      <4>4. SumFunctionOnSet(c, T) = c[x] + SumFunctionOnSet(c, U)
        BY <3>1, <3>2, <4>1, SumOut
      <4>5. Cols(T)[b] = SumFunctionOnSet(c, T) /\ Cols(U)[b] = SumFunctionOnSet(c, U)
        BY <1>3 DEF c
      <4> QED BY <3>1, <4>1, <4>2, <4>3, <4>4, <4>5
    <3> DEFINE line == f[x]
               before == Cols(U)
               after == Cols(T)
    <3>6. \A b \in B : line[b] \in Int /\ before[b] \in Int /\ after[b] = line[b] + before[b]
      BY <3>5
    <3>7. row[x] = SumFunctionOnSet(line, B) /\ SumFunctionOnSet(row, U) = SumFunctionOnSet(before, B)
      BY <1>1, <3>1, <3>3
    <3>8. SumFunctionOnSet(row, T) = SumFunctionOnSet(after, B)
      <4> HIDE DEF line, before, after
      <4>1. SumFunctionOnSet(after, B) = SumFunctionOnSet(line, B) + SumFunctionOnSet(before, B)
        BY <3>6, SumPlus
      <4> QED BY <3>4, <3>7, <4>1
    <3> QED BY <3>8
  <2> QED BY <2>1, <2>2
<1>5. \A T \in SUBSET A : T \in Good
  <2> HIDE DEF Good
  <2> QED BY <1>4, SubsetInduction
<1>6. SumFunctionOnSet(row, A) = SumFunctionOnSet(Cols(A), B)
  BY <1>5
<1> QED BY <1>6 DEF row, col, Cols
=============================================================================
