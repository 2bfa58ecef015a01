----------------------------- MODULE SumTheorems -----------------------------
(***************************************************************************)
(* Finite sums and folds.  The community modules define a sum over a set   *)
(* as a fold, and a fold as a recursive function on subsets that takes out *)
(* a chosen element.  The lemmas here prove that this function exists and  *)
(* is unique, and from it the arithmetic of sums that the books of the     *)
(* market need; the fold tables at the end do the same for folds with any  *)
(* step, and for the loops over a sequence that FoldLeft stands for.       *)
(* Induction takes its predicate as a set, so that the provers can         *)
(* instantiate it.                                                         *)
(***************************************************************************)
EXTENDS SequencesExt, SequenceTheorems, FiniteSetTheorems, WellFoundedInduction, TLAPS

(* Induction over the subsets of a finite set, with the predicate given as *)
(* a set: a set of subsets that holds every subset whose strict subsets it *)
(* holds, holds them all.                                                  *)
LEMMA FiniteSubsetInduction ==
  ASSUME NEW S, IsFiniteSet(S), NEW Good,
         \A s \in SUBSET S : (\A t \in SUBSET s : t # s => t \in Good) => s \in Good
  PROVE  \A s \in SUBSET S : s \in Good
<1> DEFINE Bad == {s \in SUBSET S : s \notin Good}
<1> SUFFICES ASSUME Bad # {} PROVE FALSE
  OBVIOUS
<1>1. IsWellFoundedOn(StrictSubsetOrdering(S), SUBSET S)
  <2>1. IsWellFoundedOn(StrictSubsetOrdering(S), FiniteSubsetsOf(S))
    BY FS_StrictSubsetOrderingWellFounded
  <2>2. FiniteSubsetsOf(S) = SUBSET S
    BY FS_FiniteSubsetsOfFinite
  <2> QED BY <2>1, <2>2, Zenon
<1>2. PICK s \in Bad : \A t \in Bad : <<t, s>> \notin StrictSubsetOrdering(S)
  <2>1. Bad \subseteq SUBSET S
    OBVIOUS
  <2> HIDE DEF Bad
  <2> QED BY <1>1, <2>1, WFMin
<1>3. ASSUME NEW t \in SUBSET s, t # s PROVE t \in Good
  <2>1. <<t, s>> \in (SUBSET S) \X (SUBSET S)
    OBVIOUS
  <2>2. <<t, s>> \in StrictSubsetOrdering(S)
    BY <2>1, <1>3 DEF StrictSubsetOrdering
  <2> QED BY <1>2, <2>2
<1> QED BY <1>3

(* The element the sum takes next.                                         *)
Chosen(s) == CHOOSE x \in s : TRUE

(* What is left after it.                                                  *)
Rest(s) == s \ {Chosen(s)}

(* One step of the recursion behind the sum, from a table of the sums of   *)
(* smaller sets.                                                           *)
SumStep(f, g, s) == IF s = {} THEN 0 ELSE f[Chosen(s)] + g[Rest(s)]

(* A table of the sums over the subsets of S.                              *)
IsSumTable(f, S, g) == g = [s \in SUBSET S |-> SumStep(f, g, s)]

(* The table the sum is defined by.                                        *)
SumTable(f, S) == CHOOSE g : IsSumTable(f, S, g)

(* The sum is read off its table.                                          *)
LEMMA SumUnfolds ==
  ASSUME NEW f, NEW S
  PROVE  SumFunctionOnSet(f, S) = SumTable(f, S)[S]
BY DEF SumFunctionOnSet, FoldFunctionOnSet, MapThenFoldSet, SumTable, IsSumTable, SumStep,
       Chosen, Rest

(* A nonempty set loses exactly one of its elements at each step.          *)
LEMMA ChosenIn ==
  ASSUME NEW s, s # {}
  PROVE  Chosen(s) \in s /\ Rest(s) \in SUBSET s /\ Rest(s) # s
BY DEF Chosen, Rest

(* A table satisfies its recursion.                                        *)
LEMMA TableStep ==
  ASSUME NEW f, NEW S, NEW g, IsSumTable(f, S, g), NEW s \in SUBSET S
  PROVE  g[s] = SumStep(f, g, s)
<1> DEFINE T == [t \in SUBSET S |-> SumStep(f, g, t)]
<1>1. g = T
  BY DEF IsSumTable
<1>2. T[s] = SumStep(f, g, s)
  OBVIOUS
<1> QED BY <1>1, <1>2, Zenon

(* Two tables agree on every set both are defined for.                     *)
LEMMA TablesAgree ==
  ASSUME NEW f, NEW S, NEW U, IsFiniteSet(S), NEW g, NEW h,
         IsSumTable(f, S, g), IsSumTable(f, U, h)
  PROVE  \A s \in SUBSET S : s \in SUBSET U => g[s] = h[s]
<1> DEFINE Good == {s \in SUBSET S : s \in SUBSET U => g[s] = h[s]}
<1>1. ASSUME NEW s \in SUBSET S, \A t \in SUBSET s : t # s => t \in Good
      PROVE  s \in Good
  <2> SUFFICES ASSUME s \in SUBSET U PROVE g[s] = h[s]
    OBVIOUS
  <2>1. g[s] = SumStep(f, g, s)
    BY TableStep, Zenon
  <2>2. h[s] = SumStep(f, h, s)
    BY TableStep, Zenon
  <2>3. s # {} => g[Rest(s)] = h[Rest(s)]
    BY <1>1, ChosenIn
  <2> QED BY <2>1, <2>2, <2>3, Zenon DEF SumStep
<1> HIDE DEF Good
<1>2. \A s \in SUBSET S : s \in Good
  BY <1>1, FiniteSubsetInduction
<1> QED BY <1>2 DEF Good

(* A table exists for every subset of a finite set.                        *)
LEMMA TableExists ==
  ASSUME NEW f, NEW S, IsFiniteSet(S)
  PROVE  \A s \in SUBSET S : IsSumTable(f, s, SumTable(f, s))
<1> DEFINE Good == {s \in SUBSET S : IsSumTable(f, s, SumTable(f, s))}
           Value(r) == SumTable(f, r)[r]
<1>1. ASSUME NEW s \in SUBSET S, \A t \in SUBSET s : t # s => t \in Good
      PROVE  s \in Good
  <2> DEFINE G == [t \in SUBSET s |-> IF t = {} THEN 0 ELSE f[Chosen(t)] + Value(Rest(t))]
  <2>1. ASSUME NEW t \in SUBSET s, t # {}
        PROVE  IsSumTable(f, Rest(t), SumTable(f, Rest(t))) /\ Rest(t) \in SUBSET s
    BY <2>1, <1>1, ChosenIn
  <2>2. ASSUME NEW t \in SUBSET s, t # {}
        PROVE  G[Rest(t)] = Value(Rest(t))
    <3> DEFINE r == Rest(t)
    <3>1. r \in SUBSET s /\ IsFiniteSet(r)
      BY <2>1, <2>2, FS_Subset
    <3>2. Value(r) = SumStep(f, SumTable(f, r), r)
      <4>1. IsSumTable(f, r, SumTable(f, r)) /\ r \in SUBSET r
        BY <2>1, <2>2
      <4> HIDE DEF r
      <4> QED BY <4>1, TableStep, Zenon
    <3>3. G[r] = IF r = {} THEN 0 ELSE f[Chosen(r)] + Value(Rest(r))
      BY <3>1
    <3>4. ASSUME r # {} PROVE SumTable(f, r)[Rest(r)] = Value(Rest(r))
      <4>1. IsSumTable(f, r, SumTable(f, r)) /\ IsSumTable(f, Rest(r), SumTable(f, Rest(r)))
        BY <2>1, <2>2, <3>1, <3>4
      <4>2. Rest(r) \in SUBSET r /\ Rest(r) \in SUBSET Rest(r)
        BY <3>4, ChosenIn
      <4> HIDE DEF r
      <4> QED BY <4>1, <4>2, <3>1, TablesAgree
    <3> HIDE DEF G, Value, r
    <3> QED BY <3>2, <3>3, <3>4, Zenon DEF SumStep, Value, r
  <2>3. \A t \in SUBSET s : G[t] = SumStep(f, G, t)
    BY <2>2, Zenon DEF SumStep
  <2>4. IsSumTable(f, s, G)
    <3>1. G = [t \in SUBSET s |-> G[t]]
      OBVIOUS
    <3> HIDE DEF G
    <3> QED BY <2>3, <3>1 DEF IsSumTable
  <2> QED BY <2>4 DEF SumTable
<1> HIDE DEF Good
<1>2. \A s \in SUBSET S : s \in Good
  BY <1>1, FiniteSubsetInduction
<1> QED BY <1>2 DEF Good

(* The sum over a finite set is its chosen element plus the sum of the     *)
(* rest.                                                                   *)
LEMMA SumRecursion ==
  ASSUME NEW f, NEW S, IsFiniteSet(S)
  PROVE  SumFunctionOnSet(f, S) = IF S = {} THEN 0 ELSE f[Chosen(S)] + SumFunctionOnSet(f, Rest(S))
<1>1. S \in SUBSET S /\ IsSumTable(f, S, SumTable(f, S))
  BY TableExists
<1>2. SumTable(f, S)[S] = SumStep(f, SumTable(f, S), S)
  BY <1>1, TableStep, Zenon
<1>3. ASSUME S # {}
      PROVE  SumTable(f, S)[Rest(S)] = SumTable(f, Rest(S))[Rest(S)]
  <2>1. Rest(S) \in SUBSET S /\ Rest(S) \in SUBSET Rest(S)
    BY <1>3, ChosenIn
  <2>2. IsSumTable(f, Rest(S), SumTable(f, Rest(S)))
    BY <2>1, TableExists
  <2> QED BY <1>1, <2>1, <2>2, TablesAgree
<1>4. /\ SumFunctionOnSet(f, S) = SumTable(f, S)[S]
      /\ SumFunctionOnSet(f, Rest(S)) = SumTable(f, Rest(S))[Rest(S)]
  BY SumUnfolds
<1> QED BY <1>2, <1>3, <1>4, Zenon DEF SumStep

(* The empty sum is zero.                                                  *)
LEMMA SumEmpty == ASSUME NEW f PROVE SumFunctionOnSet(f, {}) = 0
BY SumRecursion, FS_EmptySet

(* A sum of integers is an integer.                                        *)
LEMMA SumInt ==
  ASSUME NEW S, IsFiniteSet(S), NEW f, \A x \in S : f[x] \in Int
  PROVE  SumFunctionOnSet(f, S) \in Int
<1> DEFINE Good == {s \in SUBSET S : SumFunctionOnSet(f, s) \in Int}
<1>1. ASSUME NEW s \in SUBSET S, \A t \in SUBSET s : t # s => t \in Good
      PROVE  s \in Good
  <2>1. SumFunctionOnSet(f, s)
             = IF s = {} THEN 0 ELSE f[Chosen(s)] + SumFunctionOnSet(f, Rest(s))
    BY SumRecursion, FS_Subset
  <2>2. s # {} => f[Chosen(s)] \in Int /\ SumFunctionOnSet(f, Rest(s)) \in Int
    BY <1>1, ChosenIn
  <2> QED BY <2>1, <2>2
<1> HIDE DEF Good
<1>2. S \in Good
  BY <1>1, FiniteSubsetInduction
<1> QED BY <1>2 DEF Good

(* The sum depends only on the values over the set.                        *)
LEMMA SumAgrees ==
  ASSUME NEW S, IsFiniteSet(S), NEW f, NEW g, \A x \in S : f[x] = g[x]
  PROVE  SumFunctionOnSet(f, S) = SumFunctionOnSet(g, S)
<1> DEFINE Good == {s \in SUBSET S : SumFunctionOnSet(f, s) = SumFunctionOnSet(g, s)}
<1>1. ASSUME NEW s \in SUBSET S, \A t \in SUBSET s : t # s => t \in Good
      PROVE  s \in Good
  <2>1. /\ SumFunctionOnSet(f, s)
             = IF s = {} THEN 0 ELSE f[Chosen(s)] + SumFunctionOnSet(f, Rest(s))
        /\ SumFunctionOnSet(g, s)
             = IF s = {} THEN 0 ELSE g[Chosen(s)] + SumFunctionOnSet(g, Rest(s))
    BY SumRecursion, FS_Subset
  <2>2. s # {} => /\ f[Chosen(s)] = g[Chosen(s)]
                  /\ SumFunctionOnSet(f, Rest(s)) = SumFunctionOnSet(g, Rest(s))
    BY <1>1, ChosenIn
  <2> QED BY <2>1, <2>2
<1> HIDE DEF Good
<1>2. S \in Good
  BY <1>1, FiniteSubsetInduction
<1> QED BY <1>2 DEF Good

(* Smaller terms have a smaller sum.                                       *)
LEMMA SumMonotone ==
  ASSUME NEW S, IsFiniteSet(S), NEW f, NEW g,
         \A x \in S : f[x] \in Int /\ g[x] \in Int /\ f[x] <= g[x]
  PROVE  SumFunctionOnSet(f, S) <= SumFunctionOnSet(g, S)
<1> DEFINE Good == {s \in SUBSET S : SumFunctionOnSet(f, s) <= SumFunctionOnSet(g, s)}
<1>1. ASSUME NEW s \in SUBSET S, \A t \in SUBSET s : t # s => t \in Good
      PROVE  s \in Good
  <2>1. /\ SumFunctionOnSet(f, s)
             = IF s = {} THEN 0 ELSE f[Chosen(s)] + SumFunctionOnSet(f, Rest(s))
        /\ SumFunctionOnSet(g, s)
             = IF s = {} THEN 0 ELSE g[Chosen(s)] + SumFunctionOnSet(g, Rest(s))
    BY SumRecursion, FS_Subset
  <2>2. s # {} => /\ f[Chosen(s)] \in Int /\ g[Chosen(s)] \in Int
                  /\ f[Chosen(s)] <= g[Chosen(s)]
                  /\ SumFunctionOnSet(f, Rest(s)) <= SumFunctionOnSet(g, Rest(s))
    BY <1>1, ChosenIn
  <2>3. s # {} => SumFunctionOnSet(f, Rest(s)) \in Int /\ SumFunctionOnSet(g, Rest(s)) \in Int
    <3> SUFFICES ASSUME s # {}
                 PROVE  /\ SumFunctionOnSet(f, Rest(s)) \in Int
                        /\ SumFunctionOnSet(g, Rest(s)) \in Int
      OBVIOUS
    <3>1. Rest(s) \subseteq S /\ IsFiniteSet(Rest(s))
      BY ChosenIn, FS_Subset
    <3> QED BY <3>1, SumInt
  <2> QED BY <2>1, <2>2, <2>3
<1> HIDE DEF Good
<1>2. S \in Good
  BY <1>1, FiniteSubsetInduction
<1> QED BY <1>2 DEF Good

(* The sum of the sums is the sum of the terms added up.                   *)
LEMMA SumAdds ==
  ASSUME NEW S, IsFiniteSet(S), NEW f, NEW g, NEW h,
         \A x \in S : f[x] \in Int /\ g[x] \in Int /\ h[x] = f[x] + g[x]
  PROVE  SumFunctionOnSet(h, S) = SumFunctionOnSet(f, S) + SumFunctionOnSet(g, S)
<1> DEFINE Good == {s \in SUBSET S :
                      SumFunctionOnSet(h, s) = SumFunctionOnSet(f, s) + SumFunctionOnSet(g, s)}
<1>1. ASSUME NEW s \in SUBSET S, \A t \in SUBSET s : t # s => t \in Good
      PROVE  s \in Good
  <2>1. /\ SumFunctionOnSet(f, s)
             = IF s = {} THEN 0 ELSE f[Chosen(s)] + SumFunctionOnSet(f, Rest(s))
        /\ SumFunctionOnSet(g, s)
             = IF s = {} THEN 0 ELSE g[Chosen(s)] + SumFunctionOnSet(g, Rest(s))
        /\ SumFunctionOnSet(h, s)
             = IF s = {} THEN 0 ELSE h[Chosen(s)] + SumFunctionOnSet(h, Rest(s))
    BY SumRecursion, FS_Subset
  <2>2. s # {} => /\ f[Chosen(s)] \in Int /\ g[Chosen(s)] \in Int
                  /\ h[Chosen(s)] = f[Chosen(s)] + g[Chosen(s)]
                  /\ SumFunctionOnSet(h, Rest(s))
                       = SumFunctionOnSet(f, Rest(s)) + SumFunctionOnSet(g, Rest(s))
    BY <1>1, ChosenIn
  <2>3. s # {} => SumFunctionOnSet(f, Rest(s)) \in Int /\ SumFunctionOnSet(g, Rest(s)) \in Int
    <3> SUFFICES ASSUME s # {}
                 PROVE  /\ SumFunctionOnSet(f, Rest(s)) \in Int
                        /\ SumFunctionOnSet(g, Rest(s)) \in Int
      OBVIOUS
    <3>1. Rest(s) \subseteq S /\ IsFiniteSet(Rest(s))
      BY ChosenIn, FS_Subset
    <3> QED BY <3>1, SumInt
  <2> QED BY <2>1, <2>2, <2>3
<1> HIDE DEF Good
<1>2. S \in Good
  BY <1>1, FiniteSubsetInduction
<1> QED BY <1>2 DEF Good

(* A common factor comes out of the sum.                                   *)
LEMMA SumScales ==
  ASSUME NEW S, IsFiniteSet(S), NEW c \in Int, NEW f, NEW h,
         \A x \in S : f[x] \in Int /\ h[x] = c * f[x]
  PROVE  SumFunctionOnSet(h, S) = c * SumFunctionOnSet(f, S)
<1> DEFINE Good == {s \in SUBSET S :
                      SumFunctionOnSet(h, s) = c * SumFunctionOnSet(f, s)}
<1>1. ASSUME NEW s \in SUBSET S, \A t \in SUBSET s : t # s => t \in Good
      PROVE  s \in Good
  <2>1. /\ SumFunctionOnSet(f, s)
             = IF s = {} THEN 0 ELSE f[Chosen(s)] + SumFunctionOnSet(f, Rest(s))
        /\ SumFunctionOnSet(h, s)
             = IF s = {} THEN 0 ELSE h[Chosen(s)] + SumFunctionOnSet(h, Rest(s))
    BY SumRecursion, FS_Subset
  <2>2. s # {} => /\ f[Chosen(s)] \in Int /\ h[Chosen(s)] = c * f[Chosen(s)]
                  /\ SumFunctionOnSet(h, Rest(s)) = c * SumFunctionOnSet(f, Rest(s))
    BY <1>1, ChosenIn
  <2>3. s # {} => SumFunctionOnSet(f, Rest(s)) \in Int
    <3> SUFFICES ASSUME s # {} PROVE SumFunctionOnSet(f, Rest(s)) \in Int
      OBVIOUS
    <3>1. Rest(s) \subseteq S /\ IsFiniteSet(Rest(s))
      BY ChosenIn, FS_Subset
    <3> QED BY <3>1, SumInt
  <2>4. \A a, b \in Int : c * (a + b) = c * a + c * b /\ c * 0 = 0
    OBVIOUS
  <2> QED BY <2>1, <2>2, <2>3, <2>4
<1> HIDE DEF Good
<1>2. S \in Good
  BY <1>1, FiniteSubsetInduction
<1> QED BY <1>2 DEF Good

(* Any element can be taken out of a sum, not only the chosen one.         *)
LEMMA SumRemoves ==
  ASSUME NEW S, IsFiniteSet(S), NEW f, \A x \in S : f[x] \in Int
  PROVE  \A x \in S : SumFunctionOnSet(f, S) = f[x] + SumFunctionOnSet(f, S \ {x})
<1> DEFINE Good == {s \in SUBSET S :
                      \A x \in s : SumFunctionOnSet(f, s) = f[x] + SumFunctionOnSet(f, s \ {x})}
<1>1. ASSUME NEW s \in SUBSET S, \A t \in SUBSET s : t # s => t \in Good
      PROVE  s \in Good
  <2> SUFFICES ASSUME NEW x \in s PROVE SumFunctionOnSet(f, s) = f[x] + SumFunctionOnSet(f, s \ {x})
    OBVIOUS
  <2> DEFINE c == Chosen(s)
  <2>1. SumFunctionOnSet(f, s) = f[c] + SumFunctionOnSet(f, s \ {c})
    BY SumRecursion, FS_Subset DEF Rest
  <2>2. CASE x = c
    BY <2>1, <2>2
  <2>3. CASE x # c
    <3>1. c \in s
      BY ChosenIn
    <3> HIDE DEF c
    <3>2. s \ {c} \in Good /\ s \ {x} \in Good
      BY <1>1, <3>1
    <3>3. SumFunctionOnSet(f, s \ {c}) = f[x] + SumFunctionOnSet(f, (s \ {c}) \ {x})
      BY <2>3, <3>2
    <3>4. SumFunctionOnSet(f, s \ {x}) = f[c] + SumFunctionOnSet(f, (s \ {x}) \ {c})
      BY <2>3, <3>1, <3>2
    <3>5. (s \ {c}) \ {x} = (s \ {x}) \ {c} /\ (s \ {x}) \ {c} \subseteq S
      OBVIOUS
    <3>6. SumFunctionOnSet(f, (s \ {x}) \ {c}) \in Int
      <4> DEFINE t == (s \ {x}) \ {c}
      <4>1. IsFiniteSet(t) /\ \A y \in t : f[y] \in Int
        BY <3>5, FS_Subset
      <4> HIDE DEF t
      <4>2. SumFunctionOnSet(f, t) \in Int
        BY <4>1, SumInt
      <4> QED BY <4>2 DEF t
    <3>7. f[c] \in Int /\ f[x] \in Int
      BY <3>1
    <3>8. SumFunctionOnSet(f, (s \ {c}) \ {x}) = SumFunctionOnSet(f, (s \ {x}) \ {c})
      BY <3>5
    <3> QED BY <2>1, <3>3, <3>4, <3>6, <3>7, <3>8
  <2> QED BY <2>2, <2>3
<1> HIDE DEF Good
<1>2. S \in Good
  BY <1>1, FiniteSubsetInduction
<1> QED BY <1>2 DEF Good

(* Changing one term changes the sum by the difference.                    *)
LEMMA SumChanges ==
  ASSUME NEW S, IsFiniteSet(S), NEW f, NEW g, \A x \in S : f[x] \in Int /\ g[x] \in Int,
         NEW u \in S, \A x \in S \ {u} : g[x] = f[x]
  PROVE  SumFunctionOnSet(g, S) = SumFunctionOnSet(f, S) - f[u] + g[u]
<1>1. /\ SumFunctionOnSet(f, S) = f[u] + SumFunctionOnSet(f, S \ {u})
      /\ SumFunctionOnSet(g, S) = g[u] + SumFunctionOnSet(g, S \ {u})
  BY SumRemoves
<1>2. IsFiniteSet(S \ {u})
  BY FS_Subset
<1>3. /\ SumFunctionOnSet(g, S \ {u}) = SumFunctionOnSet(f, S \ {u})
      /\ SumFunctionOnSet(f, S \ {u}) \in Int
  BY <1>2, SumAgrees, SumInt
<1> QED BY <1>1, <1>3

(* The same for a function updated at one argument.                        *)
LEMMA SumExcept ==
  ASSUME NEW S, IsFiniteSet(S), NEW f \in [S -> Int], NEW u \in S, NEW v \in Int
  PROVE  SumFunctionOnSet([f EXCEPT ![u] = v], S) = SumFunctionOnSet(f, S) - f[u] + v
<1> DEFINE g == [f EXCEPT ![u] = v]
<1>1. (\A x \in S : f[x] \in Int /\ g[x] \in Int) /\ (\A x \in S \ {u} : g[x] = f[x]) /\ g[u] = v
  OBVIOUS
<1> HIDE DEF g
<1>2. SumFunctionOnSet(g, S) = SumFunctionOnSet(f, S) - f[u] + g[u]
  BY <1>1, SumChanges
<1> QED BY <1>1, <1>2 DEF g

(* A sum of naturals is a natural that no term exceeds.                    *)
LEMMA SumNat ==
  ASSUME NEW S, IsFiniteSet(S), NEW f, \A x \in S : f[x] \in Nat
  PROVE  SumFunctionOnSet(f, S) \in Nat /\ \A x \in S : f[x] <= SumFunctionOnSet(f, S)
<1> DEFINE Good == {s \in SUBSET S : SumFunctionOnSet(f, s) \in Nat}
<1>1. ASSUME NEW s \in SUBSET S, \A t \in SUBSET s : t # s => t \in Good
      PROVE  s \in Good
  <2>1. SumFunctionOnSet(f, s)
             = IF s = {} THEN 0 ELSE f[Chosen(s)] + SumFunctionOnSet(f, Rest(s))
    BY SumRecursion, FS_Subset
  <2>2. s # {} => f[Chosen(s)] \in Nat /\ SumFunctionOnSet(f, Rest(s)) \in Nat
    BY <1>1, ChosenIn
  <2> QED BY <2>1, <2>2
<1> HIDE DEF Good
<1>2. \A s \in SUBSET S : s \in Good
  BY <1>1, FiniteSubsetInduction
<1>3. \A s \in SUBSET S : SumFunctionOnSet(f, s) \in Nat
  BY <1>2 DEF Good
<1>4. ASSUME NEW x \in S PROVE f[x] <= SumFunctionOnSet(f, S)
  <2>1. SumFunctionOnSet(f, S) = f[x] + SumFunctionOnSet(f, S \ {x})
    BY SumRemoves
  <2>2. SumFunctionOnSet(f, S \ {x}) \in Nat
    BY <1>3
  <2> QED BY <2>1, <2>2
<1> QED BY <1>3, <1>4

(* Terms that are zero outside a subset do not count.                      *)
LEMMA SumRestricts ==
  ASSUME NEW S, IsFiniteSet(S), NEW W \in SUBSET S, NEW f, NEW g,
         \A x \in W : f[x] \in Int /\ g[x] = f[x], \A x \in S \ W : g[x] = 0
  PROVE  SumFunctionOnSet(g, S) = SumFunctionOnSet(f, W)
<1> DEFINE Good == {s \in SUBSET S : SumFunctionOnSet(g, s) = SumFunctionOnSet(f, s \cap W)}
<1>1. ASSUME NEW s \in SUBSET S, \A t \in SUBSET s : t # s => t \in Good
      PROVE  s \in Good
  <2> DEFINE c == Chosen(s)
             t == s \ {c}
  <2>1. CASE s = {}
    BY <2>1, SumEmpty
  <2>2. CASE s # {}
    <3>1. c \in s /\ SumFunctionOnSet(g, s) = g[c] + SumFunctionOnSet(g, t)
      BY <2>2, ChosenIn, SumRecursion, FS_Subset DEF Rest
    <3>2. SumFunctionOnSet(g, t) = SumFunctionOnSet(f, t \cap W)
      BY <3>1, <1>1
    <3>3. IsFiniteSet(s \cap W) /\ \A x \in s \cap W : f[x] \in Int
      BY FS_Subset
    <3>4. CASE c \in W
      <4>1. SumFunctionOnSet(f, s \cap W) = f[c] + SumFunctionOnSet(f, (s \cap W) \ {c})
        BY <3>1, <3>3, <3>4, SumRemoves
      <4>2. (s \cap W) \ {c} = t \cap W
        OBVIOUS
      <4> QED BY <3>1, <3>2, <3>4, <4>1, <4>2
    <3>5. CASE c \notin W
      <4>1. t \cap W = s \cap W /\ g[c] = 0
        BY <3>1, <3>5
      <4>2. SumFunctionOnSet(f, s \cap W) \in Int
        BY <3>3, SumInt
      <4>3. SumFunctionOnSet(g, s) = SumFunctionOnSet(f, s \cap W)
        <5>1. SumFunctionOnSet(f, t \cap W) = SumFunctionOnSet(f, s \cap W)
          BY <4>1
        <5> HIDE DEF c, t
        <5> QED BY <3>1, <3>2, <4>1, <4>2, <5>1
      <4> QED BY <4>3
    <3> QED BY <3>4, <3>5
  <2> QED BY <2>1, <2>2
<1> HIDE DEF Good
<1>2. S \in Good
  BY <1>1, FiniteSubsetInduction
<1>3. S \cap W = W
  OBVIOUS
<1> QED BY <1>2, <1>3 DEF Good

(* The sum of equal terms is their number times the term.                  *)
LEMMA SumConstant ==
  ASSUME NEW S, IsFiniteSet(S), NEW c \in Int, NEW f, \A x \in S : f[x] = c
  PROVE  SumFunctionOnSet(f, S) = Cardinality(S) * c
<1> DEFINE Good == {s \in SUBSET S : SumFunctionOnSet(f, s) = Cardinality(s) * c}
<1>1. ASSUME NEW s \in SUBSET S, \A t \in SUBSET s : t # s => t \in Good
      PROVE  s \in Good
  <2>1. SumFunctionOnSet(f, s)
             = IF s = {} THEN 0 ELSE f[Chosen(s)] + SumFunctionOnSet(f, Rest(s))
    BY SumRecursion, FS_Subset
  <2>2. CASE s = {}
    BY <2>1, <2>2, FS_EmptySet
  <2>3. CASE s # {}
    <3>1. f[Chosen(s)] = c /\ SumFunctionOnSet(f, Rest(s)) = Cardinality(Rest(s)) * c
      BY <1>1, <2>3, ChosenIn
    <3>2. IsFiniteSet(s) /\ Chosen(s) \in s
      BY <2>3, ChosenIn, FS_Subset
    <3>3. Cardinality(Rest(s)) = Cardinality(s) - 1 /\ Cardinality(s) \in Nat
      BY <3>2, FS_RemoveElement, FS_CardinalityType DEF Rest
    <3>4. \A n \in Nat : c + (n - 1) * c = n * c
      OBVIOUS
    <3> QED BY <2>1, <2>3, <3>1, <3>3, <3>4
  <2> QED BY <2>2, <2>3
<1> HIDE DEF Good
<1>2. S \in Good
  BY <1>1, FiniteSubsetInduction
<1> QED BY <1>2 DEF Good

(* Every non-empty set of naturals has a least member.                     *)
LEMMA LeastNatural ==
  ASSUME NEW T, T \subseteq Nat, T # {}
  PROVE  \E x \in T : \A y \in T : x <= y
<1>1. PICK x \in T : \A y \in T : <<y, x>> \notin OpToRel(<, Nat)
  BY NatLessThanWellFounded, WFMin
<1>2. ASSUME NEW y \in T PROVE x <= y
  <2>1. <<y, x>> \in Nat \X Nat /\ <<y, x>> \notin OpToRel(<, Nat)
    BY <1>1
  <2>2. ~ (y < x)
    BY <2>1 DEF OpToRel
  <2> QED BY <2>2
<1> QED BY <1>2

(* A quotient rounded down.                                                *)
LEMMA DivFloor ==
  ASSUME NEW x \in Nat, NEW d \in Nat \ {0}
  PROVE  x \div d \in Nat /\ d * (x \div d) <= x /\ x < d * (x \div d) + d
OBVIOUS

(* Shares of a pot in proportion to weights, each rounded down, never      *)
(* exceed the pot, and fall short of it by less than one unit per share.   *)
LEMMA FloorShares ==
  ASSUME NEW S, IsFiniteSet(S), NEW w, NEW h, NEW pot \in Nat,
         \A x \in S : w[x] \in Nat,
         SumFunctionOnSet(w, S) > 0,
         \A x \in S : h[x] = (w[x] * pot) \div SumFunctionOnSet(w, S)
  PROVE  /\ \A x \in S : h[x] \in Nat
         /\ SumFunctionOnSet(h, S) \in Nat
         /\ SumFunctionOnSet(h, S) <= pot
         /\ pot - SumFunctionOnSet(h, S) < Cardinality(S)
<1> DEFINE W == SumFunctionOnSet(w, S)
           H == SumFunctionOnSet(h, S)
           n == Cardinality(S)
           low  == [x \in S |-> W * h[x]]
           mid  == [x \in S |-> pot * w[x]]
           loss == [x \in S |-> W - 1]
           high == [x \in S |-> low[x] + loss[x]]
<1>1. W \in Nat \ {0} /\ n \in Nat
  BY SumNat, FS_CardinalityType
<1>2. \A x \in S : /\ h[x] \in Nat /\ w[x] * pot \in Nat
                   /\ W * h[x] <= w[x] * pot /\ w[x] * pot < W * h[x] + W
  <2> SUFFICES ASSUME NEW x \in S
               PROVE  /\ h[x] \in Nat /\ w[x] * pot \in Nat
                      /\ W * h[x] <= w[x] * pot /\ w[x] * pot < W * h[x] + W
    OBVIOUS
  <2>1. w[x] * pot \in Nat
    OBVIOUS
  <2>2. h[x] = (w[x] * pot) \div W
    OBVIOUS
  <2> HIDE DEF W
  <2> QED BY <1>1, <2>1, <2>2, DivFloor
<1> HIDE DEF W
<1>3. H \in Nat
  BY <1>2, SumNat
<1> HIDE DEF H
<1>4. \A x \in S : /\ low[x] \in Int /\ mid[x] \in Int /\ loss[x] \in Int /\ high[x] \in Int
                   /\ low[x] = W * h[x] /\ mid[x] = pot * w[x] /\ loss[x] = W - 1
                   /\ high[x] = low[x] + loss[x]
                   /\ low[x] <= mid[x] /\ mid[x] <= high[x]
  <2> SUFFICES ASSUME NEW x \in S
               PROVE  /\ W * h[x] \in Int /\ pot * w[x] \in Int /\ W - 1 \in Int
                      /\ W * h[x] + (W - 1) \in Int
                      /\ W * h[x] <= pot * w[x] /\ pot * w[x] <= W * h[x] + (W - 1)
    OBVIOUS
  <2>1. w[x] * pot = pot * w[x] /\ w[x] \in Nat
    OBVIOUS
  <2>2. W * h[x] \in Nat /\ pot * w[x] \in Nat
    BY <1>1, <1>2, <2>1
  <2> QED BY <1>1, <1>2, <2>1, <2>2
<1> HIDE DEF low, mid, loss, high
<1>5. /\ SumFunctionOnSet(low, S) = W * H
      /\ SumFunctionOnSet(mid, S) = pot * W
      /\ SumFunctionOnSet(loss, S) = n * (W - 1)
  <2>1. SumFunctionOnSet(low, S) = W * H
    BY <1>1, <1>2, <1>4, SumScales DEF H
  <2>2. SumFunctionOnSet(mid, S) = pot * W
    BY <1>4, SumScales DEF W
  <2>3. SumFunctionOnSet(loss, S) = n * (W - 1)
    BY <1>1, <1>4, SumConstant
  <2> QED BY <2>1, <2>2, <2>3
<1>6. SumFunctionOnSet(high, S) = W * H + n * (W - 1)
  <2>1. SumFunctionOnSet(high, S) = SumFunctionOnSet(low, S) + SumFunctionOnSet(loss, S)
    BY <1>4, SumAdds
  <2> QED BY <1>5, <2>1
<1>7. W * H <= pot * W /\ pot * W <= W * H + n * (W - 1)
  <2>1. SumFunctionOnSet(low, S) <= SumFunctionOnSet(mid, S)
    BY <1>4, SumMonotone
  <2>2. SumFunctionOnSet(mid, S) <= SumFunctionOnSet(high, S)
    BY <1>4, SumMonotone
  <2> QED BY <1>5, <1>6, <2>1, <2>2
<1>8. n > 0
  <2>1. CASE S = {}
    BY <2>1, SumEmpty, <1>1 DEF W
  <2>2. CASE S # {}
    BY <1>1, <2>2, FS_EmptySet
  <2> QED BY <2>1, <2>2
<1>9. H <= pot
  BY <1>1, <1>3, <1>7
<1>10. pot - H < n
  BY <1>1, <1>3, <1>7, <1>8
<1> QED BY <1>2, <1>3, <1>9, <1>10 DEF H

(***************************************************************************)
(* Folds over a finite set, as tables of the fold over every subset.  A    *)
(* fold K has a base, a choice of the element to take first, and a step, a *)
(* function of the subset and of the fold over the rest of it.             *)
(***************************************************************************)
FoldStep(K, g, s) == IF s = {} THEN K.base ELSE K.step[<<s, g[s \ {K.choose[s]}]>>]

(* A table of the fold over the subsets of S.                              *)
IsFold(S, K, g) == g = [s \in SUBSET S |-> FoldStep(K, g, s)]

(* A choice of the element each nonempty subset gives up next.             *)
IsChoice(S, c) == \A s \in SUBSET S : s # {} => c[s] \in s

(* A table of a fold at one subset.                                        *)
LEMMA FoldAt ==
  ASSUME NEW S, NEW K, NEW g, IsFold(S, K, g), NEW s \in SUBSET S
  PROVE  g[s] = FoldStep(K, g, s)
<1> DEFINE T == [t \in SUBSET S |-> FoldStep(K, g, t)]
<1>1. g = T
  BY DEF IsFold
<1>2. T[s] = FoldStep(K, g, s)
  OBVIOUS
<1> QED BY <1>1, <1>2, Zenon

(* Two tables of a fold agree where both are defined.                      *)
LEMMA FoldsAgree ==
  ASSUME NEW S, NEW U, IsFiniteSet(S), NEW K, NEW g, NEW h, IsChoice(S, K.choose),
         IsFold(S, K, g), IsFold(U, K, h)
  PROVE  \A s \in SUBSET S : s \in SUBSET U => g[s] = h[s]
<1> DEFINE Good == {s \in SUBSET S : s \in SUBSET U => g[s] = h[s]}
<1>1. ASSUME NEW s \in SUBSET S, \A t \in SUBSET s : t # s => t \in Good
      PROVE  s \in Good
  <2> SUFFICES ASSUME s \in SUBSET U PROVE g[s] = h[s]
    OBVIOUS
  <2>1. g[s] = FoldStep(K, g, s)
    BY FoldAt
  <2>2. h[s] = FoldStep(K, h, s)
    BY FoldAt
  <2>3. s # {} => g[s \ {K.choose[s]}] = h[s \ {K.choose[s]}]
    BY <1>1 DEF IsChoice
  <2> QED BY <2>1, <2>2, <2>3, Zenon DEF FoldStep
<1> HIDE DEF Good
<1>2. \A s \in SUBSET S : s \in Good
  BY <1>1, FiniteSubsetInduction
<1> QED BY <1>2 DEF Good

(* A fold over a finite set has a table.                                   *)
LEMMA FoldExists ==
  ASSUME NEW S, IsFiniteSet(S), NEW K, IsChoice(S, K.choose)
  PROVE  \E g : IsFold(S, K, g)
<1> DEFINE Table(s) == CHOOSE g : IsFold(s, K, g)
           Good == {s \in SUBSET S : IsFold(s, K, Table(s))}
           Rst(s) == s \ {K.choose[s]}
           Value(r) == Table(r)[r]
<1>1. ASSUME NEW s \in SUBSET S, \A t \in SUBSET s : t # s => t \in Good
      PROVE  s \in Good
  <2> DEFINE G == [t \in SUBSET s |-> IF t = {} THEN K.base ELSE K.step[<<t, Value(Rst(t))>>]]
  <2>1. ASSUME NEW t \in SUBSET s, t # {}
        PROVE  IsFold(Rst(t), K, Table(Rst(t))) /\ Rst(t) \in SUBSET s
    <3>1. K.choose[t] \in t
      BY <2>1 DEF IsChoice
    <3>2. Rst(t) \in SUBSET s /\ Rst(t) # s
      BY <3>1
    <3>3. Rst(t) \in Good
      BY <1>1, <3>2
    <3> QED BY <3>2, <3>3
  <2>2. ASSUME NEW t \in SUBSET s, t # {}
        PROVE  G[Rst(t)] = Value(Rst(t))
    <3> DEFINE r == Rst(t)
    <3>1. r \in SUBSET s /\ IsFiniteSet(r) /\ IsChoice(r, K.choose)
      <4>1. r \in SUBSET s
        BY <2>1, <2>2
      <4> QED BY <4>1, FS_Subset DEF IsChoice
    <3>2. Value(r) = FoldStep(K, Table(r), r)
      <4>1. IsFold(r, K, Table(r)) /\ r \in SUBSET r
        BY <2>1, <2>2
      <4> HIDE DEF r, Table
      <4> QED BY <4>1, FoldAt
    <3>3. G[r] = IF r = {} THEN K.base ELSE K.step[<<r, Value(Rst(r))>>]
      BY <3>1
    <3>4. ASSUME r # {} PROVE Table(r)[Rst(r)] = Value(Rst(r))
      <4>1. IsFold(r, K, Table(r)) /\ IsFold(Rst(r), K, Table(Rst(r)))
        BY <2>1, <2>2, <3>1, <3>4
      <4>2. Rst(r) \in SUBSET r /\ Rst(r) \in SUBSET Rst(r)
        OBVIOUS
      <4> HIDE DEF r, Table, Rst
      <4>3. \A q \in SUBSET r : q \in SUBSET Rst(r) => Table(r)[q] = Table(Rst(r))[q]
        BY <3>1, <4>1, FoldsAgree
      <4> QED BY <4>2, <4>3
    <3> HIDE DEF G, Value, r, Table
    <3> QED BY <3>2, <3>3, <3>4, Zenon DEF FoldStep, Value, r
  <2>3. \A t \in SUBSET s : G[t] = FoldStep(K, G, t)
    <3> SUFFICES ASSUME NEW t \in SUBSET s PROVE G[t] = FoldStep(K, G, t)
      OBVIOUS
    <3>1. G[t] = IF t = {} THEN K.base ELSE K.step[<<t, Value(Rst(t))>>]
      OBVIOUS
    <3>2. t # {} => G[Rst(t)] = Value(Rst(t))
      BY <2>2
    <3> HIDE DEF G, Value
    <3> QED BY <3>1, <3>2, Zenon DEF FoldStep
  <2>4. IsFold(s, K, G)
    <3>1. G = [t \in SUBSET s |-> G[t]]
      OBVIOUS
    <3> HIDE DEF G
    <3> QED BY <2>3, <3>1 DEF IsFold
  <2> QED BY <2>4
<1> HIDE DEF Good
<1>2. S \in Good
  BY <1>1, FiniteSubsetInduction
<1> QED BY <1>2 DEF Good

-----------------------------------------------------------------------------
(***************************************************************************)
(* Sequences: positions, insertion, and loops over a sequence.             *)
(***************************************************************************)
(* The least member of a non-empty set of naturals is its Min.             *)
LEMMA MinIsLeast ==
  ASSUME NEW T, T \subseteq Nat, T # {}
  PROVE  Min(T) \in T /\ \A y \in T : Min(T) <= y
<1>1. \E x \in T : \A y \in T : x <= y
  BY LeastNatural
<1> QED BY <1>1 DEF Min

(* r is s with e inserted at pos.                                          *)
Inserted(s, pos, e, r) ==
  /\ Len(r) = Len(s) + 1
  /\ \A j \in 1 .. Len(s) : j < pos => r[j] = s[j]
  /\ r[pos] = e
  /\ \A j \in 1 .. Len(s) : j >= pos => r[j + 1] = s[j]

(* What InsertAt returns, element by element.                              *)
LEMMA InsertAtProperties ==
  ASSUME NEW S, NEW s \in Seq(S), NEW pos \in 1 .. Len(s) + 1, NEW e \in S
  PROVE  InsertAt(s, pos, e) \in Seq(S) /\ Inserted(s, pos, e, InsertAt(s, pos, e))
<1> DEFINE a == SubSeq(s, 1, pos - 1)
           m == <<e>>
           z == SubSeq(s, pos, Len(s))
           am == a \o m
           r == am \o z
<1>1. Len(s) \in Nat /\ (\A j \in 1 .. Len(s) : s[j] \in S) /\ pos \in Nat /\ pos - 1 \in Nat
  BY LenProperties, ElementOfSeq
<1>2. /\ a \in Seq(S) /\ Len(a) = pos - 1
      /\ \A j \in 1 .. pos - 1 : a[j] = s[j]
  <2>1. \A i \in 1 .. pos - 1 : s[i] \in S
    BY <1>1
  <2>2. /\ SubSeq(s, 1, pos - 1) \in Seq(S)
        /\ Len(SubSeq(s, 1, pos - 1)) = IF 1 <= pos - 1 THEN (pos - 1) - 1 + 1 ELSE 0
        /\ \A i \in 1 .. (pos - 1) - 1 + 1 : SubSeq(s, 1, pos - 1)[i] = s[1 + i - 1]
    <3> HIDE DEF a
    <3> QED BY <1>1, <2>1, SubSeqProperties
  <2>3. \A j \in 1 .. pos - 1 : j \in 1 .. (pos - 1) - 1 + 1 /\ 1 + j - 1 = j
    BY <1>1
  <2>4. Len(a) = pos - 1
    BY <1>1, <2>2
  <2>5. \A j \in 1 .. pos - 1 : a[j] = s[j]
    BY <2>2, <2>3
  <2> QED BY <2>2, <2>4, <2>5
<1>3. /\ z \in Seq(S) /\ Len(z) = Len(s) + 1 - pos
      /\ \A j \in pos .. Len(s) : z[j - pos + 1] = s[j]
  <2>1. \A i \in pos .. Len(s) : s[i] \in S
    BY <1>1
  <2>2. /\ SubSeq(s, pos, Len(s)) \in Seq(S)
        /\ Len(SubSeq(s, pos, Len(s))) = IF pos <= Len(s) THEN Len(s) - pos + 1 ELSE 0
        /\ \A i \in 1 .. Len(s) - pos + 1 : SubSeq(s, pos, Len(s))[i] = s[pos + i - 1]
    <3> HIDE DEF a, z
    <3> QED BY <1>1, <2>1, SubSeqProperties
  <2>3. \A j \in pos .. Len(s) : j - pos + 1 \in 1 .. Len(s) - pos + 1 /\ pos + (j - pos + 1) - 1 = j
    BY <1>1
  <2>4. Len(z) = Len(s) + 1 - pos
    BY <1>1, <2>2
  <2>5. \A j \in pos .. Len(s) : z[j - pos + 1] = s[j]
    BY <2>2, <2>3
  <2> QED BY <2>2, <2>4, <2>5
<1>4. m \in Seq(S) /\ Len(m) = 1 /\ m[1] = e
  OBVIOUS
<1>5. r = InsertAt(s, pos, e)
  BY DEF InsertAt
<1> HIDE DEF a, m, z
<1>6. /\ am \in Seq(S) /\ Len(am) = pos
      /\ \A i \in 1 .. pos : am[i] = IF i <= pos - 1 THEN a[i] ELSE m[i - (pos - 1)]
  <2>1. /\ a \o m \in Seq(S) /\ Len(a \o m) = Len(a) + Len(m)
        /\ \A i \in 1 .. Len(a) + Len(m) :
             (a \o m)[i] = IF i <= Len(a) THEN a[i] ELSE m[i - Len(a)]
    BY <1>2, <1>4, ConcatProperties
  <2>2. Len(a) + Len(m) = pos
    BY <1>1, <1>2, <1>4
  <2> QED BY <1>2, <2>1, <2>2
<1> HIDE DEF am
<1>7. /\ r \in Seq(S) /\ Len(r) = Len(s) + 1
      /\ \A i \in 1 .. Len(s) + 1 : r[i] = IF i <= pos THEN am[i] ELSE z[i - pos]
  <2>1. /\ am \o z \in Seq(S) /\ Len(am \o z) = Len(am) + Len(z)
        /\ \A i \in 1 .. Len(am) + Len(z) :
             (am \o z)[i] = IF i <= Len(am) THEN am[i] ELSE z[i - Len(am)]
    BY <1>3, <1>6, ConcatProperties
  <2>2. Len(am) + Len(z) = Len(s) + 1
    BY <1>1, <1>3, <1>6
  <2> QED BY <1>6, <2>1, <2>2
<1> HIDE DEF r
<1>8. \A j \in 1 .. Len(s) : j < pos => r[j] = s[j]
  <2>1. \A j \in 1 .. Len(s) : j < pos =>
          j \in 1 .. Len(s) + 1 /\ j \in 1 .. pos /\ j \in 1 .. pos - 1 /\ j <= pos /\ j <= pos - 1
    BY <1>1
  <2> QED BY <1>2, <1>6, <1>7, <2>1
<1>9. r[pos] = e
  <2>1. pos \in 1 .. Len(s) + 1 /\ pos \in 1 .. pos /\ pos <= pos /\ ~ (pos <= pos - 1)
        /\ pos - (pos - 1) = 1
    BY <1>1
  <2> QED BY <1>4, <1>6, <1>7, <2>1
<1>10. \A j \in 1 .. Len(s) : j >= pos => r[j + 1] = s[j]
  <2>1. \A j \in 1 .. Len(s) : j >= pos =>
          j + 1 \in 1 .. Len(s) + 1 /\ ~ (j + 1 <= pos) /\ j \in pos .. Len(s)
          /\ (j + 1) - pos = j - pos + 1
    BY <1>1
  <2> QED BY <1>3, <1>7, <2>1
<1>11. Inserted(s, pos, e, r)
  BY <1>7, <1>8, <1>9, <1>10 DEF Inserted
<1> QED BY <1>5, <1>7, <1>11

(* A non-empty set of naturals up to n has a Max.                          *)
LEMMA MaxIsGreatest ==
  ASSUME NEW n \in Nat, NEW T, T \subseteq 1 .. n, T # {}
  PROVE  Max(T) \in T /\ \A y \in T : Max(T) >= y
<1> DEFINE U == {n - x : x \in T}
<1>1. U \subseteq Nat /\ U # {}
  <2>1. \A x \in T : n - x \in Nat
    OBVIOUS
  <2> QED BY <2>1
<1>2. PICK u \in U : \A v \in U : u <= v
  <2> HIDE DEF U
  <2> QED BY <1>1, LeastNatural
<1>3. PICK x \in T : u = n - x
  BY <1>2
<1>4. \A y \in T : x >= y
  <2>1. \A y \in T : n - y \in U /\ y \in Int
    OBVIOUS
  <2> QED BY <1>2, <1>3, <2>1
<1> QED BY <1>4 DEF Max

(* Induction up to n, with the predicate given as a set.                   *)
LEMMA UpTo ==
  ASSUME NEW n \in Nat, NEW Good, 0 \in Good,
         \A k \in Nat : k < n /\ k \in Good => k + 1 \in Good
  PROVE  \A k \in 0 .. n : k \in Good
<1> DEFINE Bad == {k \in 0 .. n : k \notin Good}
<1> SUFFICES ASSUME Bad # {} PROVE FALSE
  OBVIOUS
<1>1. Bad \subseteq Nat
  OBVIOUS
<1>2. PICK k \in Bad : \A j \in Bad : k <= j
  <2> HIDE DEF Bad
  <2> QED BY <1>1, LeastNatural
<1>3. k \in 0 .. n /\ k # 0 /\ k \notin Good
  OBVIOUS
<1>4. k - 1 \in 0 .. n /\ ~ (k <= k - 1) /\ k - 1 \in Nat /\ k - 1 < n /\ (k - 1) + 1 = k
  BY <1>3
<1>5. k - 1 \in Good
  BY <1>2, <1>4
<1> QED BY <1>3, <1>4, <1>5

(* The last index of a prefix is the one a loop over it comes to last.     *)
LEMMA PrefixMax ==
  ASSUME NEW k \in Nat
  PROVE  /\ 1 .. k + 1 # {} /\ Max(1 .. k + 1) = k + 1
         /\ (1 .. k + 1) \ {k + 1} = 1 .. k
         /\ 1 .. 0 = {}
<1> DEFINE T == 1 .. k + 1
<1>1. k + 1 \in T /\ T \subseteq 1 .. k + 1 /\ T # {} /\ k + 1 \in Nat
  OBVIOUS
<1>2. Max(T) \in T /\ \A y \in T : Max(T) >= y
  <2> HIDE DEF T
  <2> QED BY <1>1, MaxIsGreatest
<1>3. Max(T) = k + 1
  <2> DEFINE x == Max(T)
  <2>1. x \in 1 .. k + 1 /\ x >= k + 1
    BY <1>1, <1>2
  <2> HIDE DEF x
  <2>2. x = k + 1
    BY <2>1
  <2> QED BY <2>2 DEF x
<1> QED BY <1>3

(* A loop over a sequence, from a base, with the body given as a function  *)
(* of the state so far and the next element; a table of its states for     *)
(* every set of indices.                                                   *)
IsLoop(list, base, body, g) ==
  g = [s \in SUBSET (DOMAIN list) |->
         IF s = {} THEN base ELSE body[<<g[s \ {Max(s)}], list[Max(s)]>>]]

(* Every loop has such a table, and its states are of the type of the      *)
(* body's.                                                                 *)
LEMMA LoopExists ==
  ASSUME NEW A, NEW list \in Seq(A), NEW B, NEW base \in B, NEW body \in [B \X A -> B]
  PROVE  \E g : IsLoop(list, base, body, g) /\ \A s \in SUBSET (DOMAIN list) : g[s] \in B
<1> DEFINE D == DOMAIN list
           K == [base   |-> base,
                 choose |-> [s \in SUBSET D |-> Max(s)],
                 step   |-> [t \in (SUBSET D) \X B |-> body[<<t[2], list[Max(t[1])]>>]]]
<1>1. /\ D = 1 .. Len(list) /\ Len(list) \in Nat /\ IsFiniteSet(D)
      /\ \A i \in D : list[i] \in A
  <2>1. D = 1 .. Len(list) /\ Len(list) \in Nat
    BY LenProperties
  <2>2. \A i \in 1 .. Len(list) : list[i] \in A
    BY ElementOfSeq
  <2>3. IsFiniteSet(D)
    BY <2>1, FS_Interval
  <2> QED BY <2>1, <2>2, <2>3
<1>2. \A s \in SUBSET D : s # {} => Max(s) \in s
  BY <1>1, MaxIsGreatest
<1>3. /\ K.base = base
      /\ \A s \in SUBSET D : K.choose[s] = Max(s)
      /\ \A s \in SUBSET D : \A q \in B : K.step[<<s, q>>] = body[<<q, list[Max(s)]>>]
  OBVIOUS
<1> HIDE DEF K
<1>4. IsChoice(D, K.choose)
  BY <1>2, <1>3 DEF IsChoice
<1>5. PICK g : IsFold(D, K, g)
  BY <1>1, <1>4, FoldExists
<1>6. \A s \in SUBSET D : g[s] = FoldStep(K, g, s)
  BY <1>5, FoldAt
<1>7. ASSUME NEW s \in SUBSET D, s # {}, g[s \ {Max(s)}] \in B
       PROVE  g[s] = body[<<g[s \ {Max(s)}], list[Max(s)]>>]
  <2>1. g[s] = K.step[<<s, g[s \ {K.choose[s]}]>>]
    BY <1>6, <1>7, Zenon DEF FoldStep
  <2>2. K.choose[s] = Max(s)
    BY <1>3
  <2>3. g[s] = K.step[<<s, g[s \ {Max(s)}]>>]
    BY <2>1, <2>2, Zenon
  <2>4. K.step[<<s, g[s \ {Max(s)}]>>] = body[<<g[s \ {Max(s)}], list[Max(s)]>>]
    BY <1>3, <1>7, Zenon
  <2> QED BY <2>3, <2>4, Zenon
<1>8. \A s \in SUBSET D : g[s] \in B
  <2> DEFINE Good == {s \in SUBSET D : g[s] \in B}
  <2>1. ASSUME NEW s \in SUBSET D, \A t \in SUBSET s : t # s => t \in Good
        PROVE  s \in Good
    <3>1. CASE s = {}
      <4>1. g[s] = base
        BY <1>3, <1>6, <3>1 DEF FoldStep
      <4>2. g[s] \in B
        BY <4>1
      <4> QED BY <4>2
    <3>2. CASE s # {}
      <4>1. Max(s) \in s /\ list[Max(s)] \in A
        BY <1>1, <1>2, <3>2
      <4>2. g[s \ {Max(s)}] \in B
        BY <2>1, <4>1
      <4>3. g[s] = body[<<g[s \ {Max(s)}], list[Max(s)]>>]
        BY <1>7, <3>2, <4>2
      <4>4. g[s] \in B
        BY <4>1, <4>2, <4>3
      <4> QED BY <4>4
    <3> QED BY <3>1, <3>2
  <2> HIDE DEF Good
  <2>2. \A s \in SUBSET D : s \in Good
    BY <1>1, <2>1, FiniteSubsetInduction
  <2> QED BY <2>2 DEF Good
<1>9. \A s \in SUBSET D :
        g[s] = IF s = {} THEN base ELSE body[<<g[s \ {Max(s)}], list[Max(s)]>>]
  <2> SUFFICES ASSUME NEW s \in SUBSET D
               PROVE  g[s] = IF s = {} THEN base ELSE body[<<g[s \ {Max(s)}], list[Max(s)]>>]
    OBVIOUS
  <2>1. CASE s = {}
    BY <1>3, <1>6, <2>1 DEF FoldStep
  <2>2. CASE s # {}
    <3>1. g[s \ {Max(s)}] \in B
      BY <1>8
    <3> QED BY <1>7, <2>2, <3>1
  <2> QED BY <2>1, <2>2
<1>10. IsLoop(list, base, body, g)
  <2>1. g = [s \in SUBSET D |-> g[s]]
    BY <1>5 DEF IsFold
  <2> QED BY <1>9, <2>1 DEF IsLoop
<1> QED BY <1>8, <1>10

(* A table whose entries after the first are given by another.             *)
StartsWith(list, base, next, g) ==
  g = [s \in SUBSET (DOMAIN list) |-> IF s = {} THEN base ELSE next[s]]

(* The states of a loop after each prefix of the sequence.                 *)
LEMMA LoopPrefixes ==
  ASSUME NEW A, NEW list \in Seq(A), NEW base, NEW g, NEW next,
         StartsWith(list, base, next, g)
  PROVE  /\ DOMAIN list = 1 .. Len(list)
         /\ g[1 .. 0] = base
         /\ \A k \in Nat : k + 1 <= Len(list) => g[1 .. k + 1] = next[1 .. k + 1]
<1>1. DOMAIN list = 1 .. Len(list) /\ Len(list) \in Nat
  BY LenProperties
<1>2. 1 .. 0 = {} /\ 1 .. 0 \in SUBSET (DOMAIN list)
  BY <1>1
<1>3. \A k \in Nat : k + 1 <= Len(list) => 1 .. k + 1 # {} /\ 1 .. k + 1 \in SUBSET (DOMAIN list)
  <2> SUFFICES ASSUME NEW k \in Nat, k + 1 <= Len(list)
               PROVE  1 .. k + 1 # {} /\ 1 .. k + 1 \subseteq 1 .. Len(list)
    BY <1>1
  <2>1. 1 .. k + 1 # {}
    BY PrefixMax
  <2>2. \A i \in 1 .. k + 1 : i \in 1 .. Len(list)
    BY <1>1
  <2> QED BY <2>1, <2>2
<1> QED BY <1>1, <1>2, <1>3 DEF StartsWith
=============================================================================
