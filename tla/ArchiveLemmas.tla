---------------------------- MODULE ArchiveLemmas ----------------------------
(***************************************************************************)
(* What the operators of Archive compute, for any paths and any archives:  *)
(* induction and sums over finite sets first, then Clean, then entryPath   *)
(* in the words of the reference, then the bytes of an archive.            *)
(*                                                                         *)
(* Clean takes a path part by part; the reference counts, for each part,   *)
(* how many parts after it go down and how many go up.  An induction over  *)
(* the parts shows that both keep the same ones.  Its hypothesis is stated *)
(* as membership in a set of numbers.                                      *)
(***************************************************************************)
EXTENDS Archive, SequenceTheorems, FiniteSetTheorems, TLAPS

-----------------------------------------------------------------------------
(* Induction. *)

\* A set of naturals that is not empty has a smallest element.
LEMMA LeastNatural ==
  ASSUME NEW T \in SUBSET Nat, T # {}
  PROVE  \E n \in T : \A m \in T : n <= m
<1> DEFINE R == {ss \in Nat \X Nat : ss[1] < ss[2]}
<1>1. IsWellFoundedOn(R, Nat)
  BY NatLessThanWellFounded DEF OpToRel
<1>2. PICK n \in T : \A m \in T : <<m, n>> \notin R
  <2> HIDE DEF R
  <2> QED
    BY <1>1, WFMin
<1>3. \A m \in T : ~(m < n)
  BY <1>2
<1> QED
  BY <1>3

\* Induction over the naturals for the members of a set.
LEMMA NatSetInduction ==
  ASSUME NEW T, 0 \in T, \A n \in Nat : n \in T => n + 1 \in T
  PROVE  \A n \in Nat : n \in T
<1> DEFINE U == {n \in Nat : n \notin T}
<1> SUFFICES ASSUME U # {}
             PROVE  FALSE
  OBVIOUS
<1>1. PICK n \in U : \A m \in U : n <= m
  BY LeastNatural
<1>2. n # 0 /\ n - 1 \in Nat /\ n - 1 \notin U
  BY <1>1
<1> QED
  BY <1>1, <1>2

\* Induction over the subsets of a finite set, for the members of a set of sets.
LEMMA SubsetInduction ==
  ASSUME NEW S, IsFiniteSet(S), NEW T, {} \in T,
         \A s \in SUBSET S : s # {} /\ (\A x \in s : s \ {x} \in T) => s \in T
  PROVE  \A s \in SUBSET S : s \in T
<1> DEFINE Upto(n) == \A s \in SUBSET S : Cardinality(s) <= n => s \in T
           N == {n \in Nat : Upto(n)}
<1>1. \A s \in SUBSET S : IsFiniteSet(s) /\ Cardinality(s) \in Nat
  BY FS_Subset, FS_CardinalityType
<1>2. \A s \in SUBSET S, x \in S : x \in s =>
         s \ {x} \in SUBSET S /\ Cardinality(s \ {x}) = Cardinality(s) - 1
  BY <1>1, FS_RemoveElement
<1>3. Upto(0)
  <2>1. \A s \in SUBSET S : Cardinality(s) <= 0 => s = {}
    BY <1>1, FS_EmptySet
  <2> QED
    BY <2>1
<1>4. ASSUME NEW n \in Nat, Upto(n)
      PROVE  Upto(n + 1)
  <2> SUFFICES ASSUME NEW s \in SUBSET S, Cardinality(s) <= n + 1, s # {}
               PROVE  s \in T
    OBVIOUS
  <2>1. ASSUME NEW x \in s
        PROVE  s \ {x} \in T
    <3>1. s \ {x} \in SUBSET S /\ Cardinality(s \ {x}) <= n
      BY <1>1, <1>2, <1>4
    <3> QED
      BY <3>1, <1>4
  <2> QED
    BY <2>1
<1>5. \A n \in Nat : Upto(n)
  <2> HIDE DEF Upto
  <2>1. 0 \in N /\ \A n \in Nat : n \in N => n + 1 \in N
    BY <1>3, <1>4
  <2>2. \A n \in Nat : n \in N
    <3> HIDE DEF N
    <3> QED
      BY <2>1, NatSetInduction
  <2> QED
    BY <2>2
<1> QED
  BY <1>1, <1>5

-----------------------------------------------------------------------------
(* Recursion over the subsets of a finite set.  A definition by recursion  *)
(* takes an element pick[s] out of a set s and goes on with the rest:      *)
(* step gives the value for the two.                                       *)

\* g follows the recursion on the sets in D, from values that are in Value.
FoldsOn(D, g, base, step, pick, Value) ==
  \A s \in D :
    /\ s = {} => g[s] = base
    /\ s # {} /\ g[s \ {pick[s]}] \in Value => g[s] = step[<<pick[s], g[s \ {pick[s]}]>>]

\* It does so on all subsets of S.
Folds(g, base, step, pick, Value, S) == FoldsOn(SUBSET S, g, base, step, pick, Value)

\* The recursion is well-founded, and stays in Value.
Foldable(base, step, pick, Value, S) ==
  /\ IsFiniteSet(S)
  /\ base \in Value
  /\ \A s \in SUBSET S : s # {} => pick[s] \in s
  /\ step \in [S \X Value -> Value]

\* The definition has a solution.
LEMMA FoldExists ==
  ASSUME NEW S, NEW Value, NEW base, NEW step, NEW pick, Foldable(base, step, pick, Value, S)
  PROVE  \E g : g \in [SUBSET S -> Value] /\ Folds(g, base, step, pick, Value, S)
<1> USE DEF Foldable
<1> DEFINE Upto(n) == {s \in SUBSET S : Cardinality(s) <= n}
           Has(n) == \E g \in [Upto(n) -> Value] : FoldsOn(Upto(n), g, base, step, pick, Value)
           T == {n \in Nat : Has(n)}
<1>1. \A s \in SUBSET S : IsFiniteSet(s) /\ Cardinality(s) \in Nat /\ Cardinality(s) <= Cardinality(S)
  BY FS_Subset, FS_CardinalityType
<1>2. \A s \in SUBSET S : s # {} =>
         pick[s] \in S /\ s \ {pick[s]} \in SUBSET S /\ Cardinality(s \ {pick[s]}) = Cardinality(s) - 1
  BY <1>1, FS_RemoveElement
<1>3. 0 \in T
  <2> DEFINE g == [s \in Upto(0) |-> base]
  <2>1. \A s \in Upto(0) : s = {}
    BY <1>1, FS_EmptySet
  <2>2. FoldsOn(Upto(0), g, base, step, pick, Value)
    BY <2>1 DEF FoldsOn
  <2>3. g \in [Upto(0) -> Value]
    OBVIOUS
  <2> QED
    BY <2>2, <2>3
<1>4. ASSUME NEW n \in Nat, n \in T
      PROVE  n + 1 \in T
  <2>1. PICK g \in [Upto(n) -> Value] : FoldsOn(Upto(n), g, base, step, pick, Value)
    BY <1>4
  <2> DEFINE h == [s \in Upto(n + 1) |->
                     IF s \in Upto(n) THEN g[s] ELSE step[<<pick[s], g[s \ {pick[s]}]>>]]
  <2>2. ASSUME NEW s \in Upto(n + 1), s # {}
        PROVE  s \ {pick[s]} \in Upto(n) /\ pick[s] \in S /\ g[s \ {pick[s]}] \in Value
    BY <1>1, <1>2, <2>2
  <2>3. \A s \in Upto(n + 1) : s = {} => s \in Upto(n)
    BY FS_EmptySet
  <2>4. h \in [Upto(n + 1) -> Value]
    BY <2>2, <2>3
  <2>5. \A s \in Upto(n) : s \in Upto(n + 1) /\ h[s] = g[s]
    BY <1>1
  <2>6. ASSUME NEW s \in Upto(n + 1)
        PROVE  /\ s = {} => h[s] = base
               /\ s # {} => h[s] = step[<<pick[s], h[s \ {pick[s]}]>>]
    <3>1. CASE s = {}
      BY <3>1, <2>1, <2>3, <2>5 DEF FoldsOn
    <3>2. CASE s # {}
      <4>1. h[s \ {pick[s]}] = g[s \ {pick[s]}]
        BY <3>2, <2>2, <2>5
      <4>2. h[s] = step[<<pick[s], g[s \ {pick[s]}]>>]
        BY <3>2, <2>1, <2>2 DEF FoldsOn
      <4> QED
        BY <3>2, <4>1, <4>2
    <3> QED
      BY <3>1, <3>2
  <2>7. FoldsOn(Upto(n + 1), h, base, step, pick, Value)
    BY <2>6 DEF FoldsOn
  <2>8. Has(n + 1)
    <3> HIDE DEF h, Upto
    <3> QED
      BY <2>4, <2>7
  <2> HIDE DEF Has
  <2> QED
    BY <2>8
<1>5. Cardinality(S) \in T
  <2> HIDE DEF T
  <2> QED
    BY <1>1, <1>3, <1>4, NatSetInduction
<1>6. Upto(Cardinality(S)) = SUBSET S
  BY <1>1
<1>7. PICK g \in [Upto(Cardinality(S)) -> Value] :
        FoldsOn(Upto(Cardinality(S)), g, base, step, pick, Value)
  BY <1>5
<1> HIDE DEF Upto
<1> QED
  BY <1>6, <1>7 DEF Folds

\* It has no other.
LEMMA FoldUnique ==
  ASSUME NEW S, NEW Value, NEW base, NEW step, NEW pick, Foldable(base, step, pick, Value, S),
         NEW g, NEW h, Folds(g, base, step, pick, Value, S), Folds(h, base, step, pick, Value, S)
  PROVE  \A s \in SUBSET S : g[s] = h[s] /\ g[s] \in Value
<1> USE DEF Foldable, Folds
<1> DEFINE T == {n \in Nat : \A s \in SUBSET S : Cardinality(s) <= n => g[s] = h[s] /\ g[s] \in Value}
<1>1. \A s \in SUBSET S : IsFiniteSet(s) /\ Cardinality(s) \in Nat /\ Cardinality(s) <= Cardinality(S)
  BY FS_Subset, FS_CardinalityType
<1>2. \A s \in SUBSET S : s # {} =>
         pick[s] \in S /\ s \ {pick[s]} \in SUBSET S /\ Cardinality(s \ {pick[s]}) = Cardinality(s) - 1
  BY <1>1, FS_RemoveElement
<1>3. 0 \in T
  <2>1. \A s \in SUBSET S : Cardinality(s) <= 0 => s = {}
    BY <1>1, FS_EmptySet
  <2>2. g[{}] = base /\ h[{}] = base
    BY DEF FoldsOn
  <2> QED
    BY <2>1, <2>2
<1>4. ASSUME NEW n \in Nat, n \in T
      PROVE  n + 1 \in T
  <2>1. ASSUME NEW s \in SUBSET S, Cardinality(s) <= n + 1, s # {}
        PROVE  g[s \ {pick[s]}] = h[s \ {pick[s]}] /\ g[s \ {pick[s]}] \in Value
    BY <1>1, <1>2, <1>4, <2>1
  <2>2. ASSUME NEW s \in SUBSET S, Cardinality(s) <= n + 1
        PROVE  g[s] = h[s] /\ g[s] \in Value
    BY <2>1, <2>2, <1>2 DEF FoldsOn
  <2> QED
    BY <2>2
<1>5. Cardinality(S) \in T
  <2> HIDE DEF T
  <2> QED
    BY <1>1, <1>3, <1>4, NatSetInduction
<1> QED
  BY <1>1, <1>5

-----------------------------------------------------------------------------
(* Sums over finite sets. *)

\* The library's sum, of the values of f over S.
SumOf(f, S) == MapThenSumSet(LAMBDA x : f[x], S)

\* Its recursion, as a function of sets.
Chosen(s) == CHOOSE x \in s : TRUE
Adds(f, S) == [xv \in S \X Nat |-> f[xv[1]] + xv[2]]
PickChosen(S) == [s \in SUBSET S |-> Chosen(s)]

\* There are finitely many summands, all naturals.
Summable(f, S) == IsFiniteSet(S) /\ \A x \in S : f[x] \in Nat
\* g gives the sum over each subset of S.
Sums(g, f, S) ==
  \A s \in SUBSET S :
    /\ s = {} => g[s] = 0
    /\ s # {} => Chosen(s) \in s /\ g[s] = f[Chosen(s)] + g[s \ {Chosen(s)}]

\* What MapThenSumSet computes is a fold over the subsets, that takes out a chosen
\* element of each.
LEMMA SumIsFold ==
  ASSUME NEW S, NEW f, Summable(f, S)
  PROVE  /\ Foldable(0, Adds(f, S), PickChosen(S), Nat, S)
         /\ \A g : Folds(g, 0, Adds(f, S), PickChosen(S), Nat, S) /\ g \in [SUBSET S -> Nat] => Sums(g, f, S)
         /\ \A g : Sums(g, f, S) => Folds(g, 0, Adds(f, S), PickChosen(S), Nat, S)
<1>1. \A s \in SUBSET S : s # {} => PickChosen(S)[s] = Chosen(s) /\ Chosen(s) \in s
  BY DEF PickChosen, Chosen
<1>2. Foldable(0, Adds(f, S), PickChosen(S), Nat, S)
  BY <1>1 DEF Adds, Foldable, Summable
<1>3. ASSUME NEW g, g \in [SUBSET S -> Nat], Folds(g, 0, Adds(f, S), PickChosen(S), Nat, S)
      PROVE  Sums(g, f, S)
  <2>1. ASSUME NEW s \in SUBSET S, s # {}
        PROVE  g[s] = f[Chosen(s)] + g[s \ {Chosen(s)}]
    <3>1. g[s \ {Chosen(s)}] \in Nat /\ Chosen(s) \in S
      BY <1>1, <1>3, <2>1
    <3>2. g[s] = Adds(f, S)[<<Chosen(s), g[s \ {Chosen(s)}]>>]
      BY <1>1, <1>3, <2>1, <3>1 DEF Folds, FoldsOn
    <3> QED
      BY <3>1, <3>2 DEF Adds
  <2> QED
    BY <1>1, <1>3, <2>1 DEF Sums, Folds, FoldsOn
<1>4. ASSUME NEW g, Sums(g, f, S)
      PROVE  Folds(g, 0, Adds(f, S), PickChosen(S), Nat, S)
  <2>1. ASSUME NEW s \in SUBSET S, s # {}, g[s \ {PickChosen(S)[s]}] \in Nat
        PROVE  g[s] = Adds(f, S)[<<PickChosen(S)[s], g[s \ {PickChosen(S)[s]}]>>]
    BY <1>1, <1>4, <2>1 DEF Adds, Sums
  <2> QED
    BY <1>4, <2>1 DEF Folds, FoldsOn, Sums
<1> QED
  BY <1>2, <1>3, <1>4

\* A sum is what the recursion over the subsets gives for the whole set.
LEMMA SumIsSolution ==
  ASSUME NEW S, NEW f, Summable(f, S)
  PROVE  /\ \E g \in [SUBSET S -> Nat] : Sums(g, f, S)
         /\ \A g : Sums(g, f, S) => SumOf(f, S) = g[S]
<1> DEFINE Solves(g) == g = [s \in SUBSET S |-> IF s = {} THEN 0 ELSE f[Chosen(s)] + g[s \ {Chosen(s)}]]
           iter == CHOOSE g : Solves(g)
<1>1. SumOf(f, S) = iter[S]
  BY DEF SumOf, MapThenSumSet, MapThenFoldSet, Chosen
<1>2. PICK g : g \in [SUBSET S -> Nat] /\ Folds(g, 0, Adds(f, S), PickChosen(S), Nat, S)
  BY SumIsFold, FoldExists
<1>3. Sums(g, f, S)
  BY <1>2, SumIsFold
<1>4. Solves(g)
  BY <1>2, <1>3 DEF Sums
<1>5. Solves(iter)
  <2> HIDE DEF Solves
  <2> QED
    BY <1>4
<1>6. iter = [s \in SUBSET S |-> IF s = {} THEN 0 ELSE f[Chosen(s)] + iter[s \ {Chosen(s)}]]
  <2> HIDE DEF iter
  <2> QED
    BY <1>5
<1> HIDE DEF iter, Solves
<1>7. Sums(iter, f, S)
  <2>1. \A s \in SUBSET S : s # {} => Chosen(s) \in s
    BY DEF Chosen
  <2> QED
    BY <1>6, <2>1 DEF Sums
<1>8. \A h : Sums(h, f, S) => h[S] = iter[S]
  <2> SUFFICES ASSUME NEW h, Sums(h, f, S)
               PROVE  h[S] = iter[S]
    OBVIOUS
  <2> DEFINE base == 0
             step == Adds(f, S)
             pick == PickChosen(S)
             Value == Nat
  <2>0. /\ Foldable(base, step, pick, Value, S)
        /\ Folds(h, base, step, pick, Value, S)
        /\ Folds(iter, base, step, pick, Value, S)
    BY <1>7, SumIsFold
  <2>1. \A s \in SUBSET S : h[s] = iter[s]
    <3> HIDE DEF base, step, pick, Value
    <3> QED
      BY <2>0, FoldUnique
  <2> QED
    BY <2>1
<1> QED
  BY <1>1, <1>2, <1>3, <1>8

\* The recursion for a set gives the sums over its subsets.
LEMMA SumOfSubset ==
  ASSUME NEW S, NEW f, Summable(f, S), NEW g, Sums(g, f, S), NEW T \in SUBSET S
  PROVE  SumOf(f, T) = g[T] /\ Summable(f, T)
<1>1. Summable(f, T)
  BY FS_Subset DEF Summable
<1>2. Sums(g, f, T)
  BY DEF Sums
<1> QED
  BY <1>1, <1>2, SumIsSolution

\* The sum over nothing.
LEMMA SumOfNothing == \A f : SumOf(f, {}) = 0
<1> TAKE f
<1>1. Summable(f, {})
  BY FS_EmptySet DEF Summable
<1>2. PICK g : Sums(g, f, {})
  BY <1>1, SumIsSolution
<1>3. g[{}] = 0
  BY <1>2 DEF Sums
<1> QED
  BY <1>1, <1>2, <1>3, SumIsSolution

\* A sum of naturals is a natural.
LEMMA SumType ==
  ASSUME NEW S, NEW f, Summable(f, S)
  PROVE  SumOf(f, S) \in Nat
<1>1. PICK g \in [SUBSET S -> Nat] : Sums(g, f, S)
  BY SumIsSolution
<1>2. g[S] \in Nat
  OBVIOUS
<1> QED
  BY <1>1, <1>2, SumIsSolution

\* Any element can be taken out of a sum.
LEMMA SumTakes ==
  ASSUME NEW S, NEW f, Summable(f, S), NEW x \in S
  PROVE  SumOf(f, S) = f[x] + SumOf(f, S \ {x})
<1>1. PICK g \in [SUBSET S -> Nat] : Sums(g, f, S)
  BY SumIsSolution
<1>2. IsFiniteSet(S) /\ \A y \in S : f[y] \in Nat
  BY DEF Summable
<1> DEFINE Takes(s) == \A y \in s : g[s] = f[y] + g[s \ {y}]
           T == {s \in SUBSET S : Takes(s)}
<1>3. Takes({})
  OBVIOUS
<1>4. ASSUME NEW s \in SUBSET S, s # {}, \A y \in s : Takes(s \ {y})
      PROVE  Takes(s)
  <2> SUFFICES ASSUME NEW y \in s, y # Chosen(s)
               PROVE  g[s] = f[y] + g[s \ {y}]
    BY <1>1, <1>4 DEF Sums
  <2> DEFINE c == Chosen(s)
             rest == g[(s \ {c}) \ {y}]
  <2>1. c \in s /\ g[s] = f[c] + g[s \ {c}]
    BY <1>1, <1>4 DEF Sums
  <2>2. g[s \ {c}] = f[y] + rest
    BY <1>4, <2>1
  <2>3. g[s \ {y}] = f[c] + rest
    <3>1. (s \ {c}) \ {y} = (s \ {y}) \ {c}
      OBVIOUS
    <3>2. g[s \ {y}] = f[c] + g[(s \ {y}) \ {c}]
      BY <1>4, <2>1
    <3> QED
      BY <3>1, <3>2
  <2>4. f[c] \in Nat /\ f[y] \in Nat /\ rest \in Nat
    BY <1>2, <2>1
  <2>5. g[s] = f[c] + (f[y] + rest) /\ f[y] + g[s \ {y}] = f[y] + (f[c] + rest)
    BY <2>1, <2>2, <2>3
  <2> HIDE DEF c, rest
  <2>6. f[c] + (f[y] + rest) = f[y] + (f[c] + rest)
    BY <2>4
  <2> QED
    BY <2>5, <2>6
<1>5. Takes(S)
  <2> HIDE DEF Takes
  <2>1. {} \in T /\ \A s \in SUBSET S : s # {} /\ (\A y \in s : s \ {y} \in T) => s \in T
    BY <1>3, <1>4
  <2> HIDE DEF T
  <2>2. S \in T
    BY <1>2, <2>1, SubsetInduction
  <2> QED
    BY <2>2 DEF T
<1>6. SumOf(f, S) = g[S] /\ SumOf(f, S \ {x}) = g[S \ {x}]
  BY <1>1, SumOfSubset
<1> QED
  BY <1>5, <1>6

\* A sum is no less than one over a part of the set.
LEMMA SumOfPart ==
  ASSUME NEW S, NEW f, Summable(f, S), NEW P \in SUBSET S
  PROVE  SumOf(f, P) <= SumOf(f, S)
<1> DEFINE T == {s \in SUBSET S : \A t \in SUBSET s : SumOf(f, t) <= SumOf(f, s)}
<1>1. \A s \in SUBSET S : Summable(f, s) /\ SumOf(f, s) \in Nat
  BY FS_Subset, SumType DEF Summable
<1>2. {} \in T
  BY <1>1
<1>3. ASSUME NEW s \in SUBSET S, s # {}, \A y \in s : s \ {y} \in T
      PROVE  s \in T
  <2> SUFFICES ASSUME NEW t \in SUBSET s, t # s
               PROVE  SumOf(f, t) <= SumOf(f, s)
    BY <1>1
  <2>1. PICK y \in s : y \notin t
    OBVIOUS
  <2>2. SumOf(f, t) <= SumOf(f, s \ {y})
    BY <1>3, <2>1
  <2>3. SumOf(f, s) = f[y] + SumOf(f, s \ {y})
    BY <1>1, SumTakes
  <2>4. f[y] \in Nat /\ SumOf(f, t) \in Nat /\ SumOf(f, s \ {y}) \in Nat
    BY <1>1 DEF Summable
  <2> QED
    BY <2>2, <2>3, <2>4
<1>4. IsFiniteSet(S)
  BY DEF Summable
<1>5. S \in T
  <2> HIDE DEF T
  <2> QED
    BY <1>2, <1>3, <1>4, SubsetInduction
<1> QED
  BY <1>5

\* A sum depends on the summands only.
LEMMA SumOfSame ==
  ASSUME NEW S, NEW f, NEW h, Summable(f, S), \A x \in S : f[x] = h[x]
  PROVE  SumOf(f, S) = SumOf(h, S) /\ Summable(h, S)
<1>1. PICK g : Sums(g, f, S)
  BY SumIsSolution
<1>2. Summable(h, S)
  BY DEF Summable
<1>3. Sums(g, h, S)
  BY <1>1 DEF Sums
<1>4. SumOf(f, S) = g[S]
  BY <1>1, SumIsSolution
<1>5. SumOf(h, S) = g[S]
  BY <1>2, <1>3, SumIsSolution
<1> QED
  BY <1>2, <1>4, <1>5

\* A sum does not change when its elements are called by other names.
LEMMA SumRenamed ==
  ASSUME NEW S, NEW f, Summable(f, S), NEW h, NEW name,
         \A x, y \in S : name[x] = name[y] => x = y,
         \A x \in S : h[name[x]] = f[x]
  PROVE  /\ SumOf(f, S) = SumOf(h, {name[x] : x \in S})
         /\ Summable(h, {name[x] : x \in S})
<1> DEFINE Named(s) == {name[x] : x \in s}
           T == {s \in SUBSET S : Summable(h, Named(s)) /\ SumOf(f, s) = SumOf(h, Named(s))}
<1>1. IsFiniteSet(S) /\ \A x \in S : f[x] \in Nat
  BY DEF Summable
<1>2. {} \in T
  <2>1. Named({}) = {} /\ Summable(h, {})
    BY FS_EmptySet DEF Summable
  <2> QED
    BY <2>1, SumOfNothing
<1>3. ASSUME NEW s \in SUBSET S, s # {}, \A y \in s : s \ {y} \in T
      PROVE  s \in T
  <2>1. PICK y \in s : TRUE
    BY <1>3
  <2>2. Named(s \ {y}) = Named(s) \ {name[y]} /\ name[y] \in Named(s)
    OBVIOUS
  <2>3. Summable(h, Named(s) \ {name[y]}) /\ SumOf(f, s \ {y}) = SumOf(h, Named(s) \ {name[y]})
    BY <1>3, <2>2
  <2>4. Named(s) = (Named(s) \ {name[y]}) \cup {name[y]}
    BY <2>2
  <2>5. IsFiniteSet(Named(s))
    <3> DEFINE rest == Named(s) \ {name[y]}
    <3>1. IsFiniteSet(rest) /\ Named(s) = rest \cup {name[y]}
      BY <2>3, <2>4 DEF Summable
    <3> HIDE DEF Named, rest
    <3> QED
      BY <3>1, FS_AddElement
  <2>6. Summable(h, Named(s))
    BY <1>1, <2>5 DEF Summable
  <2>7. Summable(f, s)
    BY <1>1, FS_Subset DEF Summable
  <2>8. SumOf(f, s) = f[y] + SumOf(f, s \ {y})
    BY <2>7, SumTakes
  <2>9. SumOf(h, Named(s)) = h[name[y]] + SumOf(h, Named(s) \ {name[y]})
    <3> HIDE DEF Named
    <3> QED
      BY <2>2, <2>6, SumTakes
  <2> QED
    BY <2>3, <2>6, <2>8, <2>9
<1>4. S \in T
  <2> HIDE DEF T
  <2> QED
    BY <1>1, <1>2, <1>3, SubsetInduction
<1> QED
  BY <1>4

-----------------------------------------------------------------------------
(* Clean, a part after the other. *)

\* done[n] is what Clean makes of the first n parts.
Cleans(done, rooted, parts) ==
  /\ done[0] = <<>>
  /\ \A n \in 0 .. Len(parts) - 1 : done[n + 1] = Take(rooted, done[n], parts[n + 1])

\* Numbers up to a bound have a largest.
LEMMA LargestOf ==
  ASSUME NEW n \in Nat, NEW s \in SUBSET (1 .. n), s # {}
  PROVE  Max(s) \in s /\ \A i \in s : Max(s) >= i
<1> DEFINE T == {n - i : i \in s}
<1>0. T \in SUBSET Nat /\ T # {} /\ \A i \in s : i \in Nat /\ n - i \in Nat
  <2>1. ASSUME NEW i \in s
        PROVE  i \in Nat /\ n - i \in Nat
    <3>1. i \in 1 .. n
      OBVIOUS
    <3> QED
      BY <3>1
  <2>2. T # {}
    OBVIOUS
  <2>3. T \in SUBSET Nat
    BY <2>1
  <2> QED
    BY <2>1, <2>2, <2>3
<1>1. PICK d \in T : \A m \in T : d <= m
  <2> HIDE DEF T
  <2> QED
    BY <1>0, LeastNatural
<1>2. PICK i \in s : d = n - i
  BY <1>1
<1>3. ASSUME NEW k \in s
      PROVE  i >= k
  <2>1. n - k \in T
    OBVIOUS
  <2>2. n - i <= n - k
    BY <1>1, <1>2, <2>1
  <2> QED
    BY <1>0, <1>2, <2>2
<1>4. \E k \in s : \A y \in s : k >= y
  BY <1>3
<1> QED
  BY <1>4 DEF Max

\* A step of Clean makes a path of the same parts.
LEMMA TakeType ==
  ASSUME NEW E, Up \in E, NEW rooted, NEW done \in Seq(E), NEW part \in E
  PROVE  Take(rooted, done, part) \in Seq(E)
<1>1. done # <<>> => Front(done) \in Seq(E)
  BY DEF Front
<1> QED
  BY <1>1 DEF Take

\* Clean folds over the indices of the parts and takes out the largest each time.
Step(rooted, parts, E) ==
  [id \in (DOMAIN parts) \X Seq(E) |-> Take(rooted, id[2], parts[id[1]])]
PickMax(S) == [s \in SUBSET S |-> Max(s)]

CleansSets(g, rooted, parts) ==
  \A s \in SUBSET DOMAIN parts :
    /\ s = {} => g[s] = <<>>
    /\ s # {} => Max(s) \in s /\ g[s] = Take(rooted, g[s \ {Max(s)}], parts[Max(s)])

\* The fold that Clean is, over the sets of indices, has a solution and no other.
LEMMA CleanFolds ==
  ASSUME NEW E, Up \in E, NEW rooted, NEW parts \in Seq(E)
  PROVE  LET S == DOMAIN parts IN
         /\ Foldable(<<>>, Step(rooted, parts, E), PickMax(S), Seq(E), S)
         /\ \A g : Folds(g, <<>>, Step(rooted, parts, E), PickMax(S), Seq(E), S) /\ g \in [SUBSET S -> Seq(E)]
                     => CleansSets(g, rooted, parts)
         /\ \A g : CleansSets(g, rooted, parts)
                     => Folds(g, <<>>, Step(rooted, parts, E), PickMax(S), Seq(E), S)
<1> DEFINE S == DOMAIN parts
<1>0. S = 1 .. Len(parts) /\ Len(parts) \in Nat /\ \A i \in S : parts[i] \in E
  OBVIOUS
<1>1. \A s \in SUBSET S : s # {} => PickMax(S)[s] = Max(s) /\ Max(s) \in s
  BY <1>0, LargestOf DEF PickMax
<1>2. Foldable(<<>>, Step(rooted, parts, E), PickMax(S), Seq(E), S)
  <2>1. IsFiniteSet(S)
    BY <1>0, FS_Interval
  <2>2. \A id \in S \X Seq(E) : Take(rooted, id[2], parts[id[1]]) \in Seq(E)
    BY <1>0, TakeType
  <2>3. Step(rooted, parts, E) \in [S \X Seq(E) -> Seq(E)]
    BY <2>2 DEF Step
  <2> QED
    BY <1>1, <2>1, <2>3 DEF Foldable
<1>3. ASSUME NEW g, g \in [SUBSET S -> Seq(E)], Folds(g, <<>>, Step(rooted, parts, E), PickMax(S), Seq(E), S)
      PROVE  CleansSets(g, rooted, parts)
  <2>1. ASSUME NEW s \in SUBSET S, s # {}
        PROVE  g[s] = Take(rooted, g[s \ {Max(s)}], parts[Max(s)])
    <3>1. g[s \ {Max(s)}] \in Seq(E) /\ Max(s) \in S
      BY <1>1, <1>3, <2>1
    <3>2. g[s] = Step(rooted, parts, E)[<<Max(s), g[s \ {Max(s)}]>>]
      BY <1>1, <1>3, <2>1, <3>1 DEF Folds, FoldsOn
    <3> QED
      BY <3>1, <3>2 DEF Step
  <2> QED
    BY <1>1, <1>3, <2>1 DEF CleansSets, Folds, FoldsOn
<1>4. ASSUME NEW g, CleansSets(g, rooted, parts)
      PROVE  Folds(g, <<>>, Step(rooted, parts, E), PickMax(S), Seq(E), S)
  <2>1. ASSUME NEW s \in SUBSET S, s # {}, g[s \ {PickMax(S)[s]}] \in Seq(E)
        PROVE  g[s] = Step(rooted, parts, E)[<<PickMax(S)[s], g[s \ {PickMax(S)[s]}]>>]
    BY <1>1, <1>4, <2>1 DEF Step, CleansSets
  <2> QED
    BY <1>4, <2>1 DEF Folds, FoldsOn, CleansSets
<1> QED
  BY <1>2, <1>3, <1>4

\* Clean is the last of the paths that Take makes one after the other.
CleanIsRun(rooted, parts, E) ==
  \E done \in [0 .. Len(parts) -> Seq(E)] :
    Cleans(done, rooted, parts) /\ Clean(rooted, parts) = done[Len(parts)]

\* Clean takes the parts one after the other.
LEMMA CleanRuns ==
  ASSUME NEW E, Up \in E, NEW rooted, NEW parts \in Seq(E)
  PROVE  CleanIsRun(rooted, parts, E)
<1> DEFINE S == DOMAIN parts
           step == Step(rooted, parts, E)
           pick == PickMax(S)
           Value == Seq(E)
           base == <<>>
           Solves(g) == g = [s \in SUBSET S |-> IF s = {} THEN <<>> ELSE Take(rooted, g[s \ {Max(s)}], parts[Max(s)])]
           iter == CHOOSE g : Solves(g)
<1>0. S = 1 .. Len(parts) /\ Len(parts) \in Nat
  OBVIOUS
<1>1. Clean(rooted, parts) = iter[S]
  BY DEF Clean, FoldLeft, MapThenFoldSet
<1>2. /\ Foldable(base, step, pick, Value, S)
      /\ \A g : Folds(g, base, step, pick, Value, S) /\ g \in [SUBSET S -> Value] => CleansSets(g, rooted, parts)
      /\ \A g : CleansSets(g, rooted, parts) => Folds(g, base, step, pick, Value, S)
  BY CleanFolds
<1>3. PICK g : g \in [SUBSET S -> Value] /\ Folds(g, base, step, pick, Value, S)
  <2> HIDE DEF base, step, pick, Value, S
  <2> QED
    BY <1>2, FoldExists
<1>4. CleansSets(g, rooted, parts)
  BY <1>2, <1>3
<1>5. Solves(g)
  BY <1>3, <1>4 DEF CleansSets
<1>6. Solves(iter)
  <2> HIDE DEF Solves
  <2> QED
    BY <1>5
<1>7. iter = [s \in SUBSET S |-> IF s = {} THEN <<>> ELSE Take(rooted, iter[s \ {Max(s)}], parts[Max(s)])]
  <2> HIDE DEF iter
  <2> QED
    BY <1>6
<1> HIDE DEF iter, Solves
<1>8. CleansSets(iter, rooted, parts)
  BY <1>0, <1>7, LargestOf DEF CleansSets
<1>9. g[S] = iter[S]
  <2>1. Folds(iter, base, step, pick, Value, S)
    BY <1>2, <1>8
  <2> HIDE DEF base, step, pick, Value, S
  <2>2. \A s \in SUBSET S : g[s] = iter[s]
    BY <1>2, <1>3, <2>1, FoldUnique
  <2> QED
    BY <2>2
<1> DEFINE done == [n \in 0 .. Len(parts) |-> g[1 .. n]]
<1>10. done \in [0 .. Len(parts) -> Seq(E)]
  BY <1>0, <1>3
<1>11. Cleans(done, rooted, parts)
  <2>1. done[0] = <<>>
    <3>1. g[{}] = <<>>
      BY <1>4 DEF CleansSets
    <3>2. 1 .. 0 = {} /\ 0 \in 0 .. Len(parts)
      BY <1>0
    <3> QED
      BY <3>1, <3>2
  <2>2. ASSUME NEW n \in 0 .. Len(parts) - 1
        PROVE  done[n + 1] = Take(rooted, done[n], parts[n + 1])
    <3> DEFINE s == 1 .. n + 1
    <3>0. n \in Nat /\ n + 1 <= Len(parts) /\ n \in 0 .. Len(parts) /\ n + 1 \in 0 .. Len(parts)
      BY <1>0
    <3>1. s \in SUBSET S /\ s # {} /\ n + 1 \in Nat /\ n + 1 \in s
      <4>1. \A i \in s : i \in S
        BY <1>0, <3>0
      <4>2. n + 1 \in s
        BY <3>0
      <4>3. n + 1 \in Nat
        BY <3>0
      <4> HIDE DEF s, S
      <4> QED
        BY <4>1, <4>2, <4>3
    <3>2. Max(s) = n + 1
      <4>1. Max(s) \in s /\ Max(s) >= n + 1
        <5>1. s \in SUBSET (1 .. n + 1)
          OBVIOUS
        <5> HIDE DEF s
        <5> QED
          BY <3>1, <5>1, LargestOf
      <4> QED
        BY <4>1
    <3>3. s \ {n + 1} = 1 .. n
      BY <3>0
    <3>4. g[s] = Take(rooted, g[s \ {Max(s)}], parts[Max(s)])
      BY <1>4, <3>1 DEF CleansSets
    <3>5. done[n] = g[1 .. n] /\ done[n + 1] = g[s]
      BY <3>0
    <3> QED
      BY <3>2, <3>3, <3>4, <3>5
  <2> QED
    BY <2>1, <2>2 DEF Cleans
<1>12. Clean(rooted, parts) = done[Len(parts)]
  BY <1>0, <1>1, <1>9
<1> QED
  BY <1>10, <1>11, <1>12 DEF CleanIsRun

\* How many parts more go down than up.
Balance(parts, i, n) == Count(parts, i .. n, FALSE) - Count(parts, i .. n, TRUE)

\* A count grows by the part that comes next.
LEMMA CountStep ==
  ASSUME NEW parts, NEW i \in Nat, NEW n \in Nat, i <= n + 1, NEW up \in BOOLEAN
  PROVE  /\ Count(parts, i .. n, up) \in Nat
         /\ Count(parts, i .. n + 1, up) =
              Count(parts, i .. n, up) + IF (parts[n + 1] = Up) = up THEN 1 ELSE 0
<1> DEFINE A(m) == {k \in i .. m : (parts[k] = Up) = up}
<1>1. IsFiniteSet(A(n)) /\ Cardinality(A(n)) \in Nat
  <2>1. IsFiniteSet(i .. n)
    BY FS_Interval
  <2>2. A(n) \in SUBSET (i .. n)
    OBVIOUS
  <2> HIDE DEF A
  <2> QED
    BY <2>1, <2>2, FS_Subset, FS_CardinalityType
<1>2. n + 1 \notin A(n)
  OBVIOUS
<1>3. i .. n + 1 = (i .. n) \cup {n + 1}
  OBVIOUS
<1>4. CASE (parts[n + 1] = Up) = up
  <2>1. A(n + 1) = A(n) \cup {n + 1}
    BY <1>3, <1>4
  <2>2. Cardinality(A(n) \cup {n + 1}) = Cardinality(A(n)) + 1
    <3> HIDE DEF A
    <3> QED
      BY <1>1, <1>2, FS_AddElement
  <2> QED
    BY <1>1, <1>4, <2>1, <2>2 DEF Count
<1>5. CASE (parts[n + 1] = Up) # up
  <2>1. A(n + 1) = A(n)
    BY <1>3, <1>5
  <2> QED
    BY <1>1, <1>5, <2>1 DEF Count
<1> QED
  BY <1>4, <1>5

\* The balance goes up or down by one with each part.
LEMMA BalanceStep ==
  ASSUME NEW parts, NEW i \in Nat, NEW n \in Nat, i <= n + 1
  PROVE  /\ Balance(parts, i, n) \in Int
         /\ Balance(parts, i, n + 1) = Balance(parts, i, n) + IF parts[n + 1] = Up THEN 0 - 1 ELSE 1
         /\ Balance(parts, n + 1, n) = 0
<1> DEFINE downs(k, m) == Count(parts, k .. m, FALSE)
           ups(k, m)   == Count(parts, k .. m, TRUE)
<1>1. downs(n + 1, n) = 0 /\ ups(n + 1, n) = 0
  <2>1. n + 1 .. n = {}
    OBVIOUS
  <2>2. {k \in {} : (parts[k] = Up) = TRUE} = {} /\ {k \in {} : (parts[k] = Up) = FALSE} = {}
    OBVIOUS
  <2>3. Count(parts, {}, TRUE) = 0 /\ Count(parts, {}, FALSE) = 0
    BY <2>2, FS_EmptySet, Zenon DEF Count
  <2> QED
    BY <2>1, <2>3, Zenon
<1>2. \A up \in BOOLEAN :
        /\ Count(parts, i .. n, up) \in Nat
        /\ Count(parts, i .. n + 1, up) =
              Count(parts, i .. n, up) + IF (parts[n + 1] = Up) = up THEN 1 ELSE 0
  BY CountStep
<1>3. /\ ups(i, n) \in Nat /\ downs(i, n) \in Nat
      /\ ups(i, n + 1) = ups(i, n) + IF (parts[n + 1] = Up) = TRUE THEN 1 ELSE 0
      /\ downs(i, n + 1) = downs(i, n) + IF (parts[n + 1] = Up) = FALSE THEN 1 ELSE 0
  BY <1>2
<1>4. \A k, m : Balance(parts, k, m) = downs(k, m) - ups(k, m)
  BY DEF Balance
<1> HIDE DEF downs, ups
<1>5. CASE parts[n + 1] = Up
  <2>1. (parts[n + 1] = Up) = TRUE /\ (parts[n + 1] = Up) # FALSE
    BY <1>5
  <2>2. ups(i, n + 1) = ups(i, n) + 1 /\ downs(i, n + 1) = downs(i, n) + 0
    BY <1>3, <2>1, Zenon
  <2> QED
    BY <1>1, <1>3, <1>4, <1>5, <2>2
<1>6. CASE parts[n + 1] # Up
  <2>1. (parts[n + 1] = Up) = FALSE /\ (parts[n + 1] = Up) # TRUE
    BY <1>6
  <2>2. ups(i, n + 1) = ups(i, n) + 0 /\ downs(i, n + 1) = downs(i, n) + 1
    BY <1>3, <2>1, Zenon
  <2> QED
    BY <1>1, <1>3, <1>4, <1>6, <2>2
<1> QED
  BY <1>5, <1>6

\* From the start.
LEMMA BalanceUp ==
  ASSUME NEW parts, NEW n \in Nat, parts[n + 1] = Up
  PROVE  Balance(parts, 1, n) \in Int /\ Balance(parts, 1, n + 1) = Balance(parts, 1, n) - 1
<1>1. \A i \in Nat : i <= n + 1 =>
        Balance(parts, i, n) \in Int /\ Balance(parts, i, n + 1) = Balance(parts, i, n) - 1
  BY BalanceStep
<1> QED
  BY <1>1

-----------------------------------------------------------------------------
(* What Clean makes of the first n parts, and the reference of them: c     *)
(* parts go up from the start, and L parts at the places idx are kept.     *)

\* The places that nothing up to the n-th part takes away.
KeptOf(parts, n) == {i \in 1 .. n : \A m \in i .. n : Balance(parts, i, m) > 0}

\* idx lists them in order; from each on, the balance counts those that are left.
Places(parts, n, L, idx) ==
  /\ \A j \in 1 .. L : idx[j] \in 1 .. n /\ Balance(parts, idx[j], n) = L - j + 1
  /\ \A i, j \in 1 .. L : i < j => idx[i] < idx[j]
  /\ {idx[j] : j \in 1 .. L} = KeptOf(parts, n)

\* The path has c times "..", and then the parts at the places.
Builds(path, parts, c, L, idx) ==
  /\ Len(path) = c + L
  /\ \A j \in 1 .. c : path[j] = Up
  /\ \A j \in 1 .. L : path[c + j] = parts[idx[j]] /\ parts[idx[j]] # Up

\* Somewhere the parts have gone above where they started.
Falls(parts, n) == \E m \in 1 .. n : Balance(parts, 1, m) < 0

\* At the root there is no ".."; otherwise c is how far the parts have climbed out.
Climbed(rooted, parts, n, c, L) ==
  /\ rooted => c = 0
  /\ ~rooted => Balance(parts, 1, n) = L - c /\ (c > 0 <=> Falls(parts, n))

\* The part after the first n is the next place.
Placed(idx, L, n) == [j \in 1 .. L + 1 |-> IF j = L + 1 THEN n + 1 ELSE idx[j]]

\* A part that does not go up is kept.
LEMMA PlacesDown ==
  ASSUME NEW parts, NEW n \in Nat, NEW L \in Nat, NEW idx, Places(parts, n, L, idx),
         parts[n + 1] # Up
  PROVE  Places(parts, n + 1, L + 1, Placed(idx, L, n))
<1> DEFINE new == [j \in 1 .. L + 1 |-> IF j = L + 1 THEN n + 1 ELSE idx[j]]
<1>1. \A i \in Nat : i <= n + 1 =>
         /\ Balance(parts, i, n) \in Int
         /\ Balance(parts, i, n + 1) = Balance(parts, i, n) + 1
         /\ Balance(parts, n + 1, n) = 0
  BY BalanceStep
<1>2. Balance(parts, n + 1, n + 1) = 1
  BY <1>1
<1>3. ASSUME NEW j \in 1 .. L
      PROVE  /\ new[j] = idx[j] /\ new[j] \in 1 .. n
             /\ Balance(parts, new[j], n + 1) = (L + 1) - j + 1
  <2>1. new[j] = idx[j] /\ idx[j] \in 1 .. n /\ Balance(parts, idx[j], n) = L - j + 1
    BY DEF Places
  <2> HIDE DEF new
  <2> QED
    BY <1>1, <2>1
<1>4. new[L + 1] = n + 1
  OBVIOUS
<1>5. \A j \in 1 .. L + 1 : j \in 1 .. L \/ j = L + 1
  OBVIOUS
<1>6. \A j \in 1 .. L + 1 : new[j] \in 1 .. n + 1 /\ Balance(parts, new[j], n + 1) = (L + 1) - j + 1
  <2> HIDE DEF new
  <2> QED
    BY <1>2, <1>3, <1>4, <1>5
<1>7. \A i, j \in 1 .. L + 1 : i < j => new[i] < new[j]
  <2>1. \A i, j \in 1 .. L : i < j => new[i] < new[j]
    BY <1>3 DEF Places
  <2> HIDE DEF new
  <2> QED
    BY <1>3, <1>4, <1>5, <2>1
<1>8. {new[j] : j \in 1 .. L + 1} = KeptOf(parts, n) \cup {n + 1}
  <2>1. {new[j] : j \in 1 .. L} = KeptOf(parts, n)
    BY <1>3 DEF Places
  <2>2. {new[j] : j \in 1 .. L + 1} = {new[j] : j \in 1 .. L} \cup {new[L + 1]}
    <3>1. 1 .. L + 1 = (1 .. L) \cup {L + 1}
      OBVIOUS
    <3> HIDE DEF new
    <3> QED
      BY <3>1
  <2> QED
    BY <1>4, <2>1, <2>2
<1>9. KeptOf(parts, n + 1) = KeptOf(parts, n) \cup {n + 1}
  <2>1. n + 1 \in KeptOf(parts, n + 1)
    BY <1>2 DEF KeptOf
  <2>2. ASSUME NEW i \in KeptOf(parts, n)
        PROVE  i \in KeptOf(parts, n + 1)
    <3>1. i \in 1 .. n /\ \A m \in i .. n : Balance(parts, i, m) > 0
      BY DEF KeptOf
    <3>2. Balance(parts, i, n + 1) > 0
      BY <1>1, <3>1
    <3>3. \A m \in i .. n + 1 : m \in i .. n \/ m = n + 1
      BY <3>1
    <3> QED
      BY <3>1, <3>2, <3>3 DEF KeptOf
  <2>3. ASSUME NEW i \in KeptOf(parts, n + 1), i # n + 1
        PROVE  i \in KeptOf(parts, n)
    <3>1. i \in 1 .. n /\ \A m \in i .. n + 1 : Balance(parts, i, m) > 0
      BY <2>3 DEF KeptOf
    <3>2. \A m \in i .. n : m \in i .. n + 1
      BY <3>1
    <3> QED
      BY <3>1, <3>2 DEF KeptOf
  <2> QED
    BY <2>1, <2>2, <2>3
<1> HIDE DEF new
<1>10. Places(parts, n + 1, L + 1, new)
  BY <1>6, <1>7, <1>8, <1>9 DEF Places
<1> QED
  BY <1>10 DEF new, Placed

\* One that goes up takes the last away.
LEMMA PlacesUp ==
  ASSUME NEW parts, NEW n \in Nat, NEW L \in Nat, NEW idx, Places(parts, n, L, idx),
         parts[n + 1] = Up
  PROVE  Places(parts, n + 1, IF L = 0 THEN 0 ELSE L - 1, idx)
<1> DEFINE M == IF L = 0 THEN 0 ELSE L - 1
<1>0. M \in Nat /\ (L > 0 => M = L - 1 /\ L = M + 1) /\ (L = 0 => M = 0)
  OBVIOUS
<1>1. \A i \in Nat : i <= n + 1 =>
         /\ Balance(parts, i, n) \in Int
         /\ Balance(parts, i, n + 1) = Balance(parts, i, n) - 1
         /\ Balance(parts, n + 1, n) = 0
  BY BalanceStep
<1>2. \A j \in 1 .. L : idx[j] \in 1 .. n /\ Balance(parts, idx[j], n + 1) = L - j
  BY <1>1 DEF Places
<1>3. \A j \in 1 .. M : j \in 1 .. L /\ idx[j] \in 1 .. n + 1 /\ Balance(parts, idx[j], n + 1) = M - j + 1
  <2> SUFFICES ASSUME NEW j \in 1 .. M
               PROVE  j \in 1 .. L /\ idx[j] \in 1 .. n + 1 /\ Balance(parts, idx[j], n + 1) = M - j + 1
    OBVIOUS
  <2>1. M = L - 1 /\ j \in 1 .. L
    BY <1>0
  <2> HIDE DEF M
  <2> QED
    BY <1>0, <1>2, <2>1
<1>4. KeptOf(parts, n + 1) = {i \in KeptOf(parts, n) : Balance(parts, i, n + 1) > 0}
  <2>1. ASSUME NEW i \in KeptOf(parts, n + 1)
        PROVE  i \in KeptOf(parts, n) /\ Balance(parts, i, n + 1) > 0
    <3>1. i \in 1 .. n + 1 /\ \A m \in i .. n + 1 : Balance(parts, i, m) > 0
      BY DEF KeptOf
    <3>2. Balance(parts, i, n + 1) > 0
      BY <3>1
    <3>3. i # n + 1
      BY <1>1, <3>2
    <3>4. i \in 1 .. n /\ \A m \in i .. n : m \in i .. n + 1
      BY <3>1, <3>3
    <3> QED
      BY <3>1, <3>2, <3>4 DEF KeptOf
  <2>2. ASSUME NEW i \in KeptOf(parts, n), Balance(parts, i, n + 1) > 0
        PROVE  i \in KeptOf(parts, n + 1)
    <3>1. i \in 1 .. n /\ \A m \in i .. n : Balance(parts, i, m) > 0
      BY DEF KeptOf
    <3>2. \A m \in i .. n + 1 : m \in i .. n \/ m = n + 1
      BY <3>1
    <3> QED
      BY <2>2, <3>1, <3>2 DEF KeptOf
  <2> QED
    BY <2>1, <2>2
<1>5. {idx[j] : j \in 1 .. M} = KeptOf(parts, n + 1)
  <2>1. ASSUME NEW j \in 1 .. M
        PROVE  idx[j] \in KeptOf(parts, n + 1)
    <3>1. idx[j] \in KeptOf(parts, n)
      BY <1>3 DEF Places
    <3>2. Balance(parts, idx[j], n + 1) = M - j + 1
      BY <1>3
    <3>3. M - j + 1 > 0
      BY <1>0
    <3> QED
      BY <1>4, <3>1, <3>2, <3>3
  <2>2. ASSUME NEW i \in KeptOf(parts, n + 1)
        PROVE  \E j \in 1 .. M : i = idx[j]
    <3>1. PICK j \in 1 .. L : i = idx[j]
      BY <1>4 DEF Places
    <3>2. L - j > 0
      BY <1>2, <1>4, <3>1
    <3>3. j \in 1 .. M
      BY <1>0, <3>2
    <3> QED
      BY <3>1, <3>3
  <2> QED
    BY <2>1, <2>2
<1>6. \A i, j \in 1 .. M : i < j => idx[i] < idx[j]
  BY <1>3 DEF Places
<1> HIDE DEF M
<1>7. Places(parts, n + 1, M, idx)
  BY <1>3, <1>5, <1>6 DEF Places
<1> QED
  BY <1>7 DEF M

\* A step of Clean, for a part that does not go up.
LEMMA BuildsDown ==
  ASSUME NEW E, NEW parts \in Seq(E), NEW rooted, NEW path \in Seq(E), NEW n \in Nat,
         n + 1 <= Len(parts), NEW c \in Nat, NEW L \in Nat, NEW idx,
         Builds(path, parts, c, L, idx), Climbed(rooted, parts, n, c, L), parts[n + 1] # Up
  PROVE  /\ Builds(Take(rooted, path, parts[n + 1]), parts, c, L + 1, Placed(idx, L, n))
         /\ Climbed(rooted, parts, n + 1, c, L + 1)
<1> DEFINE new == Placed(idx, L, n)
           next == Append(path, parts[n + 1])
<1>1. /\ Len(path) = c + L
      /\ \A j \in 1 .. c : path[j] = Up
      /\ \A j \in 1 .. L : path[c + j] = parts[idx[j]] /\ parts[idx[j]] # Up
  BY DEF Builds
<1>2. /\ Len(next) = c + L + 1
      /\ \A j \in 1 .. c + L : next[j] = path[j]
      /\ next[c + L + 1] = parts[n + 1]
  BY <1>1
<1>3. new[L + 1] = n + 1 /\ \A j \in 1 .. L : new[j] = idx[j]
  BY DEF Placed
<1>4. Take(rooted, path, parts[n + 1]) = next
  BY DEF Take
<1>5. Builds(next, parts, c, L + 1, new)
  <2> HIDE DEF next, new
  <2>1. \A j \in 1 .. c : next[j] = Up
    BY <1>1, <1>2
  <2>2. ASSUME NEW j \in 1 .. L + 1
        PROVE  next[c + j] = parts[new[j]] /\ parts[new[j]] # Up
    <3>1. CASE j = L + 1
      BY <1>2, <1>3, <3>1
    <3>2. CASE j # L + 1
      <4>1. j \in 1 .. L /\ c + j \in 1 .. c + L
        BY <3>2
      <4> QED
        BY <1>1, <1>2, <1>3, <4>1
    <3> QED
      BY <3>1, <3>2
  <2> QED
    BY <1>2, <2>1, <2>2 DEF Builds
<1>6. ASSUME ~rooted
      PROVE  /\ Balance(parts, 1, n + 1) = (L + 1) - c
             /\ c > 0 <=> Falls(parts, n + 1)
  <2>1. Balance(parts, 1, n) = L - c /\ (c > 0 <=> Falls(parts, n))
    BY <1>6 DEF Climbed
  <2>2. Balance(parts, 1, n + 1) = Balance(parts, 1, n) + 1
    <3>1. 1 \in Nat /\ 1 <= n + 1
      OBVIOUS
    <3> QED
      BY <3>1, BalanceStep
  <2>3. 1 .. n + 1 = (1 .. n) \cup {n + 1}
    OBVIOUS
  <2>4. Falls(parts, n + 1) <=> Falls(parts, n) \/ Balance(parts, 1, n + 1) < 0
    BY <2>3 DEF Falls
  <2>5. Balance(parts, 1, n + 1) < 0 => c > 0
    BY <2>1, <2>2
  <2> QED
    BY <2>1, <2>2, <2>4, <2>5
<1>7. Climbed(rooted, parts, n + 1, c, L + 1)
  BY <1>6 DEF Climbed
<1> QED
  BY <1>4, <1>5, <1>7

\* One for a part that goes up and finds another before it.
LEMMA BuildsUp ==
  ASSUME NEW E, NEW parts \in Seq(E), NEW rooted, NEW path \in Seq(E), NEW n \in Nat,
         n + 1 <= Len(parts), NEW c \in Nat, NEW L \in Nat, L > 0, NEW idx,
         Builds(path, parts, c, L, idx), Climbed(rooted, parts, n, c, L), parts[n + 1] = Up
  PROVE  /\ Builds(Take(rooted, path, parts[n + 1]), parts, c, L - 1, idx)
         /\ Climbed(rooted, parts, n + 1, c, L - 1)
<1>1. /\ Len(path) = c + L
      /\ \A j \in 1 .. c : path[j] = Up
      /\ \A j \in 1 .. L : path[c + j] = parts[idx[j]] /\ parts[idx[j]] # Up
  BY DEF Builds
<1>2. path # <<>> /\ Last(path) # Up
  <2>1. L \in 1 .. L
    OBVIOUS
  <2> QED
    BY <1>1, <2>1 DEF Last
<1>3. Take(rooted, path, parts[n + 1]) = Front(path)
  BY <1>2 DEF Take
<1>4. Len(Front(path)) = c + (L - 1) /\ \A j \in 1 .. c + (L - 1) : Front(path)[j] = path[j]
  BY <1>1 DEF Front
<1>5. Builds(Front(path), parts, c, L - 1, idx)
  <2>1. \A j \in 1 .. c : Front(path)[j] = Up
    <3>1. \A j \in 1 .. c : j \in 1 .. c + (L - 1)
      OBVIOUS
    <3> QED
      BY <1>1, <1>4, <3>1
  <2>2. ASSUME NEW j \in 1 .. L - 1
        PROVE  Front(path)[c + j] = parts[idx[j]] /\ parts[idx[j]] # Up
    <3>1. j \in 1 .. L /\ c + j \in 1 .. c + (L - 1)
      OBVIOUS
    <3> QED
      BY <1>1, <1>4, <3>1
  <2> QED
    BY <1>4, <2>1, <2>2 DEF Builds
<1>6. ASSUME ~rooted
      PROVE  /\ Balance(parts, 1, n + 1) = (L - 1) - c
             /\ c > 0 <=> Falls(parts, n + 1)
  <2>1. Balance(parts, 1, n) = L - c /\ (c > 0 <=> Falls(parts, n))
    BY <1>6 DEF Climbed
  <2>2. Balance(parts, 1, n) \in Int /\ Balance(parts, 1, n + 1) = Balance(parts, 1, n) - 1
    BY BalanceUp
  <2>3. 1 .. n + 1 = (1 .. n) \cup {n + 1}
    OBVIOUS
  <2>4. Falls(parts, n + 1) <=> Falls(parts, n) \/ Balance(parts, 1, n + 1) < 0
    BY <2>3 DEF Falls
  <2>5. Balance(parts, 1, n + 1) < 0 => c > 0
    BY <2>1, <2>2
  <2> QED
    BY <2>1, <2>2, <2>4, <2>5
<1>7. Climbed(rooted, parts, n + 1, c, L - 1)
  BY <1>6 DEF Climbed
<1> QED
  BY <1>3, <1>5, <1>7

\* One for a part that goes up and finds none: at the root it is nothing, from
\* a relative path it climbs out.
LEMMA BuildsOut ==
  ASSUME NEW E, Up \in E, NEW parts \in Seq(E), NEW rooted \in BOOLEAN, NEW path \in Seq(E), NEW n \in Nat,
         n + 1 <= Len(parts), NEW c \in Nat, NEW idx,
         Builds(path, parts, c, 0, idx), Climbed(rooted, parts, n, c, 0), parts[n + 1] = Up
  PROVE  LET d == IF rooted THEN 0 ELSE c + 1 IN
         /\ Builds(Take(rooted, path, parts[n + 1]), parts, d, 0, idx)
         /\ Climbed(rooted, parts, n + 1, d, 0)
<1>0. n \in Nat /\ parts[n + 1] = Up
  OBVIOUS
<1>1. Len(path) = c /\ \A j \in 1 .. c : path[j] = Up
  BY DEF Builds
<1>2. path = <<>> \/ Last(path) = Up
  <2>1. c > 0 => c \in 1 .. c
    OBVIOUS
  <2> QED
    BY <1>1, <2>1 DEF Last
<1>3. CASE rooted
  <2>1. c = 0 /\ Take(rooted, path, parts[n + 1]) = path
    BY <1>2, <1>3 DEF Climbed, Take
  <2>2. Builds(path, parts, 0, 0, idx) /\ Climbed(rooted, parts, n + 1, 0, 0)
    BY <1>3, <2>1 DEF Climbed
  <2> QED
    BY <1>3, <2>1, <2>2
<1>4. CASE ~rooted
  <2> DEFINE next == Append(path, Up)
  <2>1. Take(rooted, path, parts[n + 1]) = next
    BY <1>2, <1>4 DEF Take
  <2>2. Len(next) = c + 1 /\ \A j \in 1 .. c + 1 : next[j] = Up
    BY <1>1
  <2>3. Builds(next, parts, c + 1, 0, idx)
    <3> HIDE DEF next
    <3> QED
      BY <2>2 DEF Builds
  <2>4. Balance(parts, 1, n) = 0 - c
    BY <1>4 DEF Climbed
  <2>5. Balance(parts, 1, n) \in Int /\ Balance(parts, 1, n + 1) = Balance(parts, 1, n) - 1
    BY BalanceUp
  <2>6. Balance(parts, 1, n + 1) = 0 - (c + 1) /\ Balance(parts, 1, n + 1) < 0
    BY <2>4, <2>5
  <2>7. Falls(parts, n + 1)
    BY <2>6 DEF Falls
  <2>8. Climbed(rooted, parts, n + 1, c + 1, 0)
    BY <1>4, <2>6, <2>7 DEF Climbed
  <2> QED
    BY <1>4, <2>1, <2>3, <2>8
<1> QED
  BY <1>3, <1>4

\* What Clean makes of a path: the parts that are kept, in their order, after
\* one ".." for each that climbs out.
LEMMA CleanBuilds ==
  ASSUME NEW E, Up \in E, NEW parts \in Seq(E), NEW rooted \in BOOLEAN
  PROVE  \E c, L \in Nat : \E idx :
           /\ Places(parts, Len(parts), L, idx)
           /\ Builds(Clean(rooted, parts), parts, c, L, idx)
           /\ Climbed(rooted, parts, Len(parts), c, L)
<1>1. PICK done \in [0 .. Len(parts) -> Seq(E)] :
         Cleans(done, rooted, parts) /\ Clean(rooted, parts) = done[Len(parts)]
  <2>1. CleanIsRun(rooted, parts, E)
    BY CleanRuns
  <2> QED
    BY <2>1 DEF CleanIsRun
<1> DEFINE Has(n) == \E c, L \in Nat : \E idx :
                       /\ Places(parts, n, L, idx)
                       /\ Builds(done[n], parts, c, L, idx)
                       /\ Climbed(rooted, parts, n, c, L)
           T == {n \in Nat : n <= Len(parts) => Has(n)}
<1>2. Has(0)
  <2>1. done[0] = <<>>
    BY <1>1 DEF Cleans
  <2>2. KeptOf(parts, 0) = {}
    BY DEF KeptOf
  <2>3. Places(parts, 0, 0, <<>>)
    BY <2>2 DEF Places
  <2>4. Builds(<<>>, parts, 0, 0, <<>>)
    BY DEF Builds
  <2>5. Balance(parts, 1, 0) = 0
    <3>1. Balance(parts, 0 + 1, 0) = 0
      BY BalanceStep
    <3> QED
      BY <3>1
  <2>6. Climbed(rooted, parts, 0, 0, 0)
    BY <2>5 DEF Climbed, Falls
  <2> QED
    BY <2>1, <2>3, <2>4, <2>6
<1>3. ASSUME NEW n \in Nat, n + 1 <= Len(parts), Has(n)
      PROVE  Has(n + 1)
  <2>1. PICK c \in Nat, L \in Nat : \E idx :
          /\ Places(parts, n, L, idx)
          /\ Builds(done[n], parts, c, L, idx)
          /\ Climbed(rooted, parts, n, c, L)
    BY <1>3
  <2>2. PICK idx :
          /\ Places(parts, n, L, idx)
          /\ Builds(done[n], parts, c, L, idx)
          /\ Climbed(rooted, parts, n, c, L)
    BY <2>1
  <2>3. done[n] \in Seq(E) /\ done[n + 1] = Take(rooted, done[n], parts[n + 1])
    <3>1. n \in 0 .. Len(parts) - 1 /\ n \in 0 .. Len(parts)
      BY <1>3
    <3> QED
      BY <1>1, <3>1 DEF Cleans
  <2>4. CASE parts[n + 1] # Up
    <3> DEFINE new == Placed(idx, L, n)
    <3>1. Places(parts, n + 1, L + 1, new)
      BY <2>2, <2>4, PlacesDown
    <3>2. Builds(Take(rooted, done[n], parts[n + 1]), parts, c, L + 1, new)
      BY <1>3, <2>2, <2>3, <2>4, BuildsDown
    <3>4. Climbed(rooted, parts, n + 1, c, L + 1)
      BY <1>3, <2>2, <2>3, <2>4, BuildsDown
    <3>3. L + 1 \in Nat
      OBVIOUS
    <3> HIDE DEF new
    <3> QED
      BY <2>3, <3>1, <3>2, <3>3, <3>4
  <2>5. CASE parts[n + 1] = Up /\ L > 0
    <3>1. L - 1 \in Nat /\ (IF L = 0 THEN 0 ELSE L - 1) = L - 1
      BY <2>5
    <3>2. Places(parts, n + 1, IF L = 0 THEN 0 ELSE L - 1, idx)
      BY <2>2, <2>5, PlacesUp
    <3>3. Builds(done[n + 1], parts, c, L - 1, idx) /\ Climbed(rooted, parts, n + 1, c, L - 1)
      BY <1>3, <2>2, <2>3, <2>5, BuildsUp
    <3> QED
      BY <3>1, <3>2, <3>3
  <2>6. CASE parts[n + 1] = Up /\ L = 0
    <3> DEFINE d == IF rooted THEN 0 ELSE c + 1
    <3>1. d \in Nat /\ (IF L = 0 THEN 0 ELSE L - 1) = 0
      BY <2>6
    <3>2. Places(parts, n + 1, IF L = 0 THEN 0 ELSE L - 1, idx)
      BY <2>2, <2>6, PlacesUp
    <3>3. Builds(done[n + 1], parts, d, 0, idx) /\ Climbed(rooted, parts, n + 1, d, 0)
      BY <1>3, <2>2, <2>3, <2>6, BuildsOut
    <3> HIDE DEF d
    <3> QED
      BY <3>1, <3>2, <3>3
  <2> QED
    BY <2>4, <2>5, <2>6
<1>4. \A n \in Nat : n \in T
  <2>1. 0 \in T /\ \A n \in Nat : n \in T => n + 1 \in T
    <3> HIDE DEF Has
    <3>1. \A n \in Nat : n + 1 <= Len(parts) /\ Has(n) => Has(n + 1)
      BY <1>3
    <3> QED
      BY <1>2, <3>1
  <2> HIDE DEF T
  <2> QED
    BY <2>1, NatSetInduction
<1>5. Has(Len(parts))
  <2> HIDE DEF Has
  <2> QED
    BY <1>4
<1> QED
  BY <1>1, <1>5

\* So many places are so many different ones.
LEMMA PlacesCount ==
  ASSUME NEW L \in Nat, NEW idx, \A i, j \in 1 .. L : i < j => idx[i] < idx[j],
         \A j \in 1 .. L : idx[j] \in Nat
  PROVE  \A m \in 0 .. L : Cardinality({idx[j] : j \in 1 .. m}) = m
<1> DEFINE A(m) == {idx[j] : j \in 1 .. m}
           Has(m) == IsFiniteSet(A(m)) /\ Cardinality(A(m)) = m
           T == {m \in Nat : m <= L => Has(m)}
<1>1. Has(0)
  <2>1. A(0) = {}
    OBVIOUS
  <2> QED
    BY <2>1, FS_EmptySet
<1>2. ASSUME NEW m \in Nat, m + 1 <= L, Has(m)
      PROVE  Has(m + 1)
  <2>1. 1 .. m + 1 = (1 .. m) \cup {m + 1}
    OBVIOUS
  <2>2. A(m + 1) = A(m) \cup {idx[m + 1]}
    BY <2>1
  <2>3. idx[m + 1] \notin A(m)
    <3>1. ASSUME NEW j \in 1 .. m
          PROVE  idx[j] # idx[m + 1]
      <4>1. j \in 1 .. L /\ m + 1 \in 1 .. L /\ j < m + 1
        BY <1>2
      <4>2. idx[j] < idx[m + 1] /\ idx[j] \in Nat /\ idx[m + 1] \in Nat
        BY <4>1
      <4> QED
        BY <4>2
    <3> QED
      BY <3>1
  <2> HIDE DEF A
  <2> QED
    BY <1>2, <2>2, <2>3, FS_AddElement
<1>3. \A m \in Nat : m \in T
  <2>1. 0 \in T /\ \A m \in Nat : m \in T => m + 1 \in T
    <3> HIDE DEF Has
    <3>1. \A m \in Nat : m + 1 <= L /\ Has(m) => Has(m + 1)
      BY <1>2
    <3> QED
      BY <1>1, <3>1
  <2> HIDE DEF T
  <2> QED
    BY <2>1, NatSetInduction
<1>4. \A m \in 0 .. L : Has(m)
  <2> HIDE DEF Has
  <2> QED
    BY <1>3
<1> QED
  BY <1>4

\* The reference, at the end of a path.
LEMMA KeptIs ==
  ASSUME NEW e \in Entry
  PROVE  /\ e.parts \in Seq(Part \cup {Up}) /\ e.rooted \in BOOLEAN
         /\ Kept(e) = KeptOf(e.parts, Len(e.parts))
         /\ Climbs(e) <=> Falls(e.parts, Len(e.parts))
<1>1. e.parts \in Seq(Part \cup {Up}) /\ e.rooted \in BOOLEAN
  BY DEF Entry
<1> DEFINE parts == e.parts
           up(i, m)   == Count(parts, i .. m, TRUE)
           down(i, m) == Count(parts, i .. m, FALSE)
<1>2. DOMAIN parts = 1 .. Len(parts) /\ Len(parts) \in Nat
  BY <1>1
<1>3. \A i \in Nat, m \in Nat : i <= m + 1 => up(i, m) \in Nat /\ down(i, m) \in Nat
  BY CountStep
<1>4. \A i, m : Balance(parts, i, m) = down(i, m) - up(i, m)
  BY DEF Balance
<1>5. Kept(e) = {i \in 1 .. Len(parts) : \A m \in i .. Len(parts) : down(i, m) > up(i, m)}
  BY <1>2 DEF Kept
<1>6. Climbs(e) <=> \E m \in 1 .. Len(parts) : up(1, m) > down(1, m)
  BY <1>2 DEF Climbs
<1> HIDE DEF up, down, parts
<1>7. \A i \in 1 .. Len(parts) : \A m \in i .. Len(parts) :
        down(i, m) > up(i, m) <=> Balance(parts, i, m) > 0
  <2> SUFFICES ASSUME NEW i \in 1 .. Len(parts), NEW m \in i .. Len(parts)
               PROVE  down(i, m) > up(i, m) <=> Balance(parts, i, m) > 0
    OBVIOUS
  <2>1. i \in Nat /\ m \in Nat /\ i <= m + 1
    BY <1>2
  <2>2. up(i, m) \in Nat /\ down(i, m) \in Nat
    BY <1>3, <2>1
  <2> QED
    BY <1>4, <2>2
<1>8. \A m \in 1 .. Len(parts) : up(1, m) > down(1, m) <=> Balance(parts, 1, m) < 0
  <2> SUFFICES ASSUME NEW m \in 1 .. Len(parts)
               PROVE  up(1, m) > down(1, m) <=> Balance(parts, 1, m) < 0
    OBVIOUS
  <2>1. 1 \in Nat /\ m \in Nat /\ 1 <= m + 1
    BY <1>2
  <2>2. up(1, m) \in Nat /\ down(1, m) \in Nat
    BY <1>3, <2>1
  <2> QED
    BY <1>4, <2>2
<1>9. Kept(e) = KeptOf(parts, Len(parts))
  BY <1>5, <1>7 DEF KeptOf
<1>10. Climbs(e) <=> Falls(parts, Len(parts))
  BY <1>6, <1>8 DEF Falls
<1> QED
  BY <1>1, <1>9, <1>10 DEF parts

\* The reference lists the parts at the places that are kept.
LEMMA LandsIs ==
  ASSUME NEW e \in Entry, NEW L \in Nat, NEW idx, Places(e.parts, Len(e.parts), L, idx)
  PROVE  Lands(e) = [n \in 1 .. L |-> e.parts[idx[n]]] /\ (Kept(e) = {} <=> L = 0)
<1>1. Kept(e) = {idx[j] : j \in 1 .. L}
  BY KeptIs DEF Places
<1>2. /\ \A j \in 1 .. L : idx[j] \in Nat
      /\ \A i, j \in 1 .. L : i < j => idx[i] < idx[j]
  BY DEF Places
<1>3. \A m \in 0 .. L : Cardinality({idx[j] : j \in 1 .. m}) = m
  BY <1>2, PlacesCount
<1>4. Cardinality(Kept(e)) = L
  BY <1>1, <1>3
<1> DEFINE before(i) == {k \in Kept(e) : k < i}
           place(n) == CHOOSE i \in Kept(e) : Cardinality(before(i)) = n - 1
<1>5. ASSUME NEW j \in 1 .. L
      PROVE  Cardinality(before(idx[j])) = j - 1
  <2>1. before(idx[j]) = {idx[i] : i \in 1 .. j - 1}
    <3>1. ASSUME NEW i \in 1 .. L
          PROVE  idx[i] < idx[j] <=> i < j
      <4>1. idx[i] \in Nat /\ idx[j] \in Nat
        BY <1>2
      <4>2. (i < j => idx[i] < idx[j]) /\ (j < i => idx[j] < idx[i])
        BY <1>2
      <4> QED
        BY <4>1, <4>2
    <3>2. \A i : i \in 1 .. j - 1 <=> i \in 1 .. L /\ i < j
      OBVIOUS
    <3> QED
      BY <1>1, <3>1, <3>2
  <2>2. j - 1 \in 0 .. L
    OBVIOUS
  <2> QED
    BY <1>3, <2>1, <2>2
<1>6. ASSUME NEW n \in 1 .. L
      PROVE  place(n) = idx[n]
  <2>1. idx[n] \in Kept(e) /\ Cardinality(before(idx[n])) = n - 1
    BY <1>1, <1>5
  <2>2. ASSUME NEW i \in Kept(e), Cardinality(before(i)) = n - 1
        PROVE  i = idx[n]
    <3>1. PICK j \in 1 .. L : i = idx[j]
      BY <1>1
    <3>2. n - 1 = j - 1
      BY <1>5, <2>2, <3>1
    <3> QED
      BY <3>1, <3>2
  <2> HIDE DEF before
  <2> QED
    BY <2>1, <2>2
<1>7. Lands(e) = [n \in 1 .. L |-> e.parts[place(n)]]
  BY <1>4 DEF Lands
<1>8. Lands(e) = [n \in 1 .. L |-> e.parts[idx[n]]]
  <2> HIDE DEF place
  <2> QED
    BY <1>6, <1>7
<1>9. Kept(e) = {} <=> L = 0
  <2>1. L = 0 => 1 .. L = {}
    OBVIOUS
  <2>2. L # 0 => 1 \in 1 .. L
    OBVIOUS
  <2> QED
    BY <1>1, <2>1, <2>2
<1> QED
  BY <1>8, <1>9

\* What has no ".." is clean.
LEMMA CleanKeeps ==
  ASSUME NEW E, Up \in E, NEW rooted, NEW parts \in Seq(E), \A i \in 1 .. Len(parts) : parts[i] # Up
  PROVE  Clean(rooted, parts) = parts
<1>1. PICK done \in [0 .. Len(parts) -> Seq(E)] :
         Cleans(done, rooted, parts) /\ Clean(rooted, parts) = done[Len(parts)]
  <2>1. CleanIsRun(rooted, parts, E)
    BY CleanRuns
  <2> QED
    BY <2>1 DEF CleanIsRun
<1> DEFINE Has(n) == Len(done[n]) = n /\ \A j \in 1 .. n : done[n][j] = parts[j]
           T == {n \in Nat : n <= Len(parts) => Has(n)}
<1>2. Has(0)
  BY <1>1 DEF Cleans
<1>3. ASSUME NEW n \in Nat, n + 1 <= Len(parts), Has(n)
      PROVE  Has(n + 1)
  <2>1. n \in 0 .. Len(parts) - 1 /\ n \in 0 .. Len(parts) /\ n + 1 \in 1 .. Len(parts)
    BY <1>3
  <2>2. done[n] \in Seq(E) /\ done[n + 1] = Append(done[n], parts[n + 1])
    BY <1>1, <2>1 DEF Cleans, Take
  <2>3. Len(done[n]) = n /\ \A j \in 1 .. n : done[n][j] = parts[j]
    BY <1>3
  <2>4. Len(Append(done[n], parts[n + 1])) = n + 1
    BY <2>2, <2>3
  <2>5. \A j \in 1 .. n + 1 : Append(done[n], parts[n + 1])[j] = parts[j]
    <3>1. \A j \in 1 .. n + 1 : j \in 1 .. n \/ j = n + 1
      OBVIOUS
    <3> QED
      BY <2>2, <2>3, <3>1
  <2> QED
    BY <2>2, <2>4, <2>5
<1>4. \A n \in Nat : n \in T
  <2>1. 0 \in T /\ \A n \in Nat : n \in T => n + 1 \in T
    <3> HIDE DEF Has
    <3>1. \A n \in Nat : n + 1 <= Len(parts) /\ Has(n) => Has(n + 1)
      BY <1>3
    <3> QED
      BY <1>2, <3>1
  <2> HIDE DEF T
  <2> QED
    BY <2>1, NatSetInduction
<1>5. Has(Len(parts))
  <2>1. Len(parts) \in Nat
    OBVIOUS
  <2> HIDE DEF Has
  <2> QED
    BY <1>4, <2>1
<1>6. done[Len(parts)] \in Seq(E)
  OBVIOUS
<1> QED
  BY <1>1, <1>5, <1>6, SeqEqual

\* A path that goes on after the staging directory lies in it.
LEMMA StagedIsInside ==
  ASSUME NEW E, Staging \in E, NEW q \in Seq(E), q # <<>>
  PROVE  /\ Inside(<<Staging>> \o q)
         /\ <<Staging>> \o q \in Seq(E) /\ Len(<<Staging>> \o q) = Len(q) + 1
         /\ (<<Staging>> \o q)[1] = Staging
         /\ \A i \in 1 .. Len(q) : (<<Staging>> \o q)[i + 1] = q[i]
<1> DEFINE p == <<Staging>> \o q
           r == <<Staging>>
<1>1. r \in Seq(E) /\ Len(r) = 1 /\ r[1] = Staging /\ Len(q) \in Nat \ {0}
  BY EmptySeq
<1>2. p \in Seq(E) /\ Len(p) = Len(q) + 1 /\ p[1] = Staging
  BY <1>1
<1>3. \A i \in 1 .. Len(q) : p[i + 1] = q[i]
  BY <1>1
<1>4. IsStrictPrefix(r, p)
  <2> HIDE DEF p, r
  <2>1. /\ SubSeq(p, 1, 1) \in Seq(E) /\ SubSeq(r, 1, 1) \in Seq(E)
        /\ Len(SubSeq(p, 1, 1)) = 1 /\ Len(SubSeq(r, 1, 1)) = 1
        /\ SubSeq(p, 1, 1)[1] = Staging /\ SubSeq(r, 1, 1)[1] = Staging
    <3>1. \A i \in 1 .. 1 : p[i] \in E /\ r[i] \in E
      BY <1>1, <1>2
    <3> QED
      BY <1>1, <1>2, <3>1, SubSeqProperties
  <2>2. SubSeq(p, 1, 1) = SubSeq(r, 1, 1)
    BY <2>1, SeqEqual
  <2>3. r # p /\ 1 <= Len(p)
    BY <1>1, <1>2
  <2> QED
    BY <1>1, <1>2, <2>2, <2>3 DEF IsStrictPrefix, IsPrefix
<1> QED
  BY <1>2, <1>3, <1>4 DEF Inside

\* entryPath, in the words of the reference.
LEMMA EntryPathRead ==
  ASSUME NEW e \in Entry
  PROVE  /\ EntryPath(e) = NoPath <=> Nowhere(e)
         /\ ~Nowhere(e) /\ (e.rooted \/ Climbs(e)) => EntryPath(e) = Outside
         /\ ~Nowhere(e) /\ ~e.rooted /\ ~Climbs(e) =>
              /\ EntryPath(e) = <<Staging>> \o Lands(e)
              /\ Lands(e) \in Seq(Part) /\ Lands(e) # <<>>
              /\ EntryPath(e) # Outside
<1> DEFINE parts == e.parts
           E == Part \cup {Up}
           clean == Clean(e.rooted, parts)
           full  == Clean(TRUE, <<Staging>> \o clean)
<1>1. parts \in Seq(E) /\ e.rooted \in BOOLEAN /\ Up \in E
  BY KeptIs
<1>2. PICK c \in Nat, L \in Nat : \E idx :
        /\ Places(parts, Len(parts), L, idx)
        /\ Builds(Clean(e.rooted, parts), parts, c, L, idx)
        /\ Climbed(e.rooted, parts, Len(parts), c, L)
  <2> HIDE DEF parts, E
  <2> QED
    BY <1>1, CleanBuilds
<1>3. PICK idx :
        /\ Places(parts, Len(parts), L, idx)
        /\ Builds(clean, parts, c, L, idx)
        /\ Climbed(e.rooted, parts, Len(parts), c, L)
  BY <1>2
<1>4. Lands(e) = [n \in 1 .. L |-> parts[idx[n]]] /\ (Kept(e) = {} <=> L = 0)
  BY <1>3, LandsIs
<1>5. Climbs(e) <=> Falls(parts, Len(parts))
  BY KeptIs
<1>6. Len(clean) = c + L /\ (\A j \in 1 .. c : clean[j] = Up)
        /\ \A j \in 1 .. L : clean[c + j] = parts[idx[j]] /\ parts[idx[j]] # Up
  BY <1>3 DEF Builds
<1>7. e.rooted => c = 0
  BY <1>3 DEF Climbed
<1>8. ~e.rooted => (c > 0 <=> Climbs(e))
  BY <1>3, <1>5 DEF Climbed
<1>9. clean \in Seq(E)
  <2>1. CleanIsRun(e.rooted, parts, E)
    <3> HIDE DEF parts, E
    <3> QED
      BY <1>1, CleanRuns
  <2>2. Len(parts) \in 0 .. Len(parts)
    BY <1>1
  <2> HIDE DEF parts, E
  <2> QED
    BY <2>1, <2>2 DEF CleanIsRun
<1>10. clean = <<>> <=> Nowhere(e)
  <2>1. clean = <<>> <=> c = 0 /\ L = 0
    BY <1>6, <1>9
  <2> QED
    BY <1>4, <1>7, <1>8, <2>1 DEF Nowhere
<1>11. CASE Nowhere(e)
  BY <1>10, <1>11 DEF EntryPath
<1>12. ASSUME ~Nowhere(e), e.rooted \/ Climbs(e)
       PROVE  EntryPath(e) = Outside
  <2>1. clean # <<>>
    BY <1>10, <1>12
  <2>2. ~e.rooted => Head(clean) = Up
    <3>1. ~e.rooted => c > 0 /\ 1 \in 1 .. c
      BY <1>8, <1>12
    <3> QED
      BY <1>6, <1>9, <2>1, <3>1
  <2> QED
    BY <2>1, <2>2 DEF EntryPath
<1>13. ASSUME ~Nowhere(e), ~e.rooted, ~Climbs(e)
       PROVE  /\ EntryPath(e) = <<Staging>> \o Lands(e)
              /\ Lands(e) \in Seq(Part) /\ Lands(e) # <<>>
              /\ EntryPath(e) # Outside
  <2>1. c = 0 /\ clean # <<>> /\ L > 0
    BY <1>6, <1>8, <1>9, <1>10, <1>13
  <2>2. Len(clean) = L /\ \A j \in 1 .. L : clean[j] = parts[idx[j]] /\ clean[j] # Up
    BY <1>6, <2>1
  <2>3. clean = Lands(e)
    <3>1. clean = [n \in 1 .. L |-> clean[n]]
      BY <1>9, <2>2
    <3> HIDE DEF clean
    <3> QED
      BY <1>4, <2>2, <3>1
  <2>4. clean \in Seq(Part)
    <3>1. \A j \in 1 .. L : clean[j] \in Part
      BY <1>9, <2>2
    <3>2. clean = [n \in 1 .. L |-> clean[n]]
      BY <1>9, <2>2
    <3> HIDE DEF clean
    <3> QED
      BY <3>1, <3>2
  <2> DEFINE F == E \cup {Staging}
             path == <<Staging>> \o clean
  <2>5. /\ Inside(path) /\ path \in Seq(F) /\ Len(path) = L + 1 /\ path[1] = Staging
        /\ \A i \in 1 .. L : path[i + 1] = clean[i]
    <3>1. clean \in Seq(F) /\ Staging \in F
      BY <1>9
    <3> HIDE DEF F, clean
    <3> QED
      BY <2>1, <2>2, <3>1, StagedIsInside
  <2>6. \A i \in 1 .. Len(path) : path[i] # Up
    <3>1. ASSUME NEW i \in 1 .. L + 1
          PROVE  path[i] # Up
      <4>1. CASE i = 1
        BY <2>5, <4>1, PartsAreDistinct
      <4>2. CASE i # 1
        <5>1. i - 1 \in 1 .. L /\ i = (i - 1) + 1
          BY <4>2
        <5>2. path[i] = clean[i - 1]
          BY <2>5, <5>1
        <5> QED
          BY <2>2, <5>1, <5>2
      <4> QED
        BY <4>1, <4>2
    <3> QED
      BY <2>5, <3>1
  <2>7. Clean(TRUE, path) = path
    <3>1. Up \in F
      OBVIOUS
    <3> HIDE DEF F, path
    <3> QED
      BY <2>5, <2>6, <3>1, CleanKeeps
  <2>8. Head(clean) # Up
    <3>1. 1 \in 1 .. L /\ Head(clean) = clean[1]
      BY <1>9, <2>1
    <3> QED
      BY <2>2, <3>1
  <2>9. EntryPath(e) = path
    <3>1. full = path
      BY <2>7
    <3>2. EntryPath(e) = IF clean = <<>> THEN NoPath
                         ELSE IF e.rooted \/ Head(clean) = Up \/ ~Inside(full) THEN Outside ELSE full
      BY DEF EntryPath
    <3> HIDE DEF full, path, clean
    <3> QED
      BY <1>13, <2>1, <2>5, <2>8, <3>1, <3>2
  <2>10. path # Outside
    <3>1. Outside[1] = Up
      BY DEF Outside
    <3> QED
      BY <2>5, <3>1, PartsAreDistinct
  <2> HIDE DEF path, clean
  <2>11. path = <<Staging>> \o Lands(e)
    BY <2>3 DEF path
  <2> QED
    BY <2>1, <2>3, <2>4, <2>9, <2>10, <2>11
<1>14. NoPath # Outside
  <2>1. Len(Outside) = 1 /\ Len(NoPath) = 0
    BY DEF NoPath, Outside
  <2> QED
    BY <2>1
<1>15. ASSUME ~Nowhere(e), ~e.rooted, ~Climbs(e)
       PROVE  EntryPath(e) # NoPath
  <2>1. EntryPath(e) = <<Staging>> \o Lands(e) /\ Lands(e) \in Seq(Part) /\ Lands(e) # <<>>
    BY <1>13, <1>15
  <2> DEFINE F == Part \cup {Staging}
  <2>2. Lands(e) \in Seq(F) /\ Staging \in F
    BY <2>1
  <2>3. Len(<<Staging>> \o Lands(e)) = Len(Lands(e)) + 1 /\ Len(Lands(e)) \in Nat
    <3>1. Len(Lands(e)) \in Nat
      BY <2>1
    <3> HIDE DEF F
    <3> QED
      BY <2>1, <2>2, <3>1, StagedIsInside
  <2> QED
    BY <2>1, <2>3 DEF NoPath
<1> QED
  BY <1>11, <1>12, <1>13, <1>14, <1>15 DEF EntryPath

-----------------------------------------------------------------------------
(* The paths in the staging directory. *)

\* The path q below the staging directory, and all of those.
At(q)  == <<Staging>> \o q
Paths  == Seq(Part) \ {<<>>}
Staged == {At(q) : q \in Paths}

\* A prefix, part by part.
LEMMA PrefixIs ==
  ASSUME NEW E, NEW s \in Seq(E), NEW t \in Seq(E)
  PROVE  IsPrefix(s, t) <=> Len(s) <= Len(t) /\ \A i \in 1 .. Len(s) : s[i] = t[i]
<1>1. Len(s) \in Nat /\ Len(t) \in Nat
  OBVIOUS
<1>2. CASE Len(s) > Len(t)
  BY <1>1, <1>2 DEF IsPrefix
<1>3. CASE Len(s) <= Len(t)
  <2> DEFINE a == SubSeq(s, 1, Len(s))
             b == SubSeq(t, 1, Len(s))
  <2>1. \A i \in 1 .. Len(s) : s[i] \in E /\ t[i] \in E
    BY <1>1, <1>3
  <2>2. /\ a \in Seq(E) /\ b \in Seq(E) /\ Len(a) = Len(s) /\ Len(b) = Len(s)
        /\ \A i \in 1 .. Len(s) : a[i] = s[i] /\ b[i] = t[i]
    BY <1>1, <1>3, <2>1, SubSeqProperties
  <2> HIDE DEF a, b
  <2>3. (\A i \in 1 .. Len(s) : s[i] = t[i]) => a = b
    BY <2>2, SeqEqual
  <2>4. a = b => \A i \in 1 .. Len(s) : s[i] = t[i]
    BY <2>2
  <2>5. IsPrefix(s, t) <=> a = b
    BY <1>3 DEF IsPrefix, a, b
  <2> QED
    BY <1>3, <2>3, <2>4, <2>5
<1> QED
  BY <1>1, <1>2, <1>3

\* The staging directory and a path below it.
LEMMA AtIs ==
  ASSUME NEW q \in Paths
  PROVE  /\ q \in Seq(Part \cup {Staging}) /\ Len(q) \in Nat \ {0} /\ Len(At(q)) = Len(q) + 1
         /\ At(q) \in Seq(Part \cup {Staging}) /\ At(q)[1] = Staging
         /\ \A i \in 1 .. Len(q) : At(q)[i + 1] = q[i] /\ q[i] \in Part
         /\ Inside(At(q)) /\ \A i \in DOMAIN At(q) : At(q)[i] # Up
         /\ Tail(At(q)) = q /\ Last(At(q)) = Last(q)
<1> DEFINE E == Part \cup {Staging}
           p == At(q)
<1>1. q \in Seq(E) /\ q # <<>> /\ Staging \in E /\ Len(q) \in Nat \ {0} /\ \A i \in 1 .. Len(q) : q[i] \in Part
  BY DEF Paths
<1>2. /\ Inside(p) /\ p \in Seq(E) /\ Len(p) = Len(q) + 1 /\ p[1] = Staging
      /\ \A i \in 1 .. Len(q) : p[i + 1] = q[i]
  <2> HIDE DEF E
  <2> QED
    BY <1>1, StagedIsInside DEF At
<1> HIDE DEF p
<1>3. ASSUME NEW i \in DOMAIN p
      PROVE  p[i] # Up
  <2>1. i \in 1 .. Len(q) + 1
    BY <1>2
  <2>2. CASE i = 1
    BY <1>2, <2>2, PartsAreDistinct
  <2>3. CASE i # 1
    <3>1. i - 1 \in 1 .. Len(q) /\ i = (i - 1) + 1
      BY <1>1, <2>1, <2>3
    <3>2. p[i] = q[i - 1]
      BY <1>2, <3>1
    <3> QED
      BY <1>1, <3>1, <3>2, PartsAreDistinct
  <2> QED
    BY <2>2, <2>3
<1>4. Tail(p) = q
  <2>1. p # <<>>
    BY <1>1, <1>2
  <2>2. Tail(p) \in Seq(E) /\ Len(Tail(p)) = Len(q) /\ \A i \in 1 .. Len(q) : Tail(p)[i] = q[i]
    <3>1. Tail(p) \in Seq(E) /\ Len(Tail(p)) = Len(p) - 1
          /\ \A i \in 1 .. Len(p) - 1 : Tail(p)[i] = p[i + 1]
      BY <1>1, <1>2, <2>1
    <3> QED
      BY <1>1, <1>2, <3>1
  <2> QED
    BY <1>1, <2>2, SeqEqual
<1>5. Last(p) = Last(q)
  BY <1>1, <1>2 DEF Last
<1> QED
  BY <1>1, <1>2, <1>3, <1>4, <1>5 DEF p

\* The staging directory before them makes no difference to how paths compare.
LEMMA AtPrefix ==
  ASSUME NEW q \in Paths, NEW r \in Paths
  PROVE  /\ At(q) = At(r) <=> q = r
         /\ IsStrictPrefix(At(q), At(r)) <=> IsStrictPrefix(q, r)
<1>1. At(q) = At(r) <=> q = r
  <2>1. Tail(At(q)) = q /\ Tail(At(r)) = r
    BY AtIs
  <2> QED
    BY <2>1
<1>2. /\ q \in Seq(Part \cup {Staging}) /\ Len(q) \in Nat \ {0} /\ Len(At(q)) = Len(q) + 1
      /\ At(q) \in Seq(Part \cup {Staging}) /\ At(q)[1] = Staging
      /\ \A i \in 1 .. Len(q) : At(q)[i + 1] = q[i] /\ q[i] \in Part
  BY AtIs
<1>3. /\ r \in Seq(Part \cup {Staging}) /\ Len(r) \in Nat \ {0} /\ Len(At(r)) = Len(r) + 1
      /\ At(r) \in Seq(Part \cup {Staging}) /\ At(r)[1] = Staging
      /\ \A i \in 1 .. Len(r) : At(r)[i + 1] = r[i] /\ r[i] \in Part
  BY AtIs
<1>4. IsPrefix(q, r) <=> Len(q) <= Len(r) /\ \A i \in 1 .. Len(q) : q[i] = r[i]
  BY <1>2, <1>3, PrefixIs
<1>5. IsPrefix(At(q), At(r)) <=> Len(q) + 1 <= Len(r) + 1 /\ \A i \in 1 .. Len(q) + 1 : At(q)[i] = At(r)[i]
  <2> DEFINE s == At(q)
             t == At(r)
  <2>1. s \in Seq(Part \cup {Staging}) /\ t \in Seq(Part \cup {Staging})
          /\ Len(s) = Len(q) + 1 /\ Len(t) = Len(r) + 1
    BY <1>2, <1>3
  <2> HIDE DEF s, t
  <2>2. IsPrefix(s, t) <=> Len(s) <= Len(t) /\ \A i \in 1 .. Len(s) : s[i] = t[i]
    BY <2>1, PrefixIs
  <2>3. IsPrefix(s, t) <=> Len(q) + 1 <= Len(r) + 1 /\ \A i \in 1 .. Len(q) + 1 : s[i] = t[i]
    BY <2>1, <2>2
  <2> QED
    BY <2>3 DEF s, t
<1>6. ASSUME Len(q) <= Len(r)
      PROVE  (\A i \in 1 .. Len(q) + 1 : At(q)[i] = At(r)[i]) <=> \A i \in 1 .. Len(q) : q[i] = r[i]
  <2>1. ASSUME \A i \in 1 .. Len(q) : q[i] = r[i], NEW i \in 1 .. Len(q) + 1
        PROVE  At(q)[i] = At(r)[i]
    <3>1. CASE i = 1
      BY <1>2, <1>3, <3>1
    <3>2. CASE i # 1
      <4>1. i - 1 \in 1 .. Len(q) /\ i - 1 \in 1 .. Len(r) /\ i = (i - 1) + 1
        BY <1>2, <1>3, <1>6, <3>2
      <4> QED
        BY <1>2, <1>3, <2>1, <4>1
    <3> QED
      BY <3>1, <3>2
  <2>2. ASSUME \A i \in 1 .. Len(q) + 1 : At(q)[i] = At(r)[i], NEW i \in 1 .. Len(q)
        PROVE  q[i] = r[i]
    <3>1. i + 1 \in 1 .. Len(q) + 1 /\ i \in 1 .. Len(r)
      BY <1>2, <1>3, <1>6
    <3> QED
      BY <1>2, <1>3, <2>2, <3>1
  <2> QED
    BY <2>1, <2>2
<1>7. Len(q) + 1 <= Len(r) + 1 <=> Len(q) <= Len(r)
  BY <1>2, <1>3
<1>8. IsPrefix(At(q), At(r)) <=> IsPrefix(q, r)
  BY <1>4, <1>5, <1>6, <1>7
<1> QED
  BY <1>1, <1>8 DEF IsStrictPrefix

\* Databases are at the top.
LEMMA DatabaseIsAt ==
  ASSUME NEW p \in Project
  PROVE  /\ Database(p) = At(<<Db[p]>>) /\ <<Db[p]>> \in Paths /\ Database(p) \in Staged
         /\ \A q \in Project : <<Db[p]>> = <<Db[q]>> => p = q
         /\ \A q \in Paths : ~IsStrictPrefix(q, <<Db[p]>>)
         /\ Last(Database(p)) = Db[p]
<1>1. Db[p] \in Part
  BY NamesAreDistinct
<1>2. Database(p) = At(<<Db[p]>>)
  BY DEF Database, At
<1>3. <<Db[p]>> \in Paths
  BY <1>1 DEF Paths
<1>4. \A q \in Project : <<Db[p]>> = <<Db[q]>> => p = q
  BY NamesAreDistinct
<1>5. ASSUME NEW q \in Paths, IsStrictPrefix(q, <<Db[p]>>)
      PROVE  FALSE
  <2> DEFINE d == <<Db[p]>>
  <2>1. q \in Seq(Part) /\ d \in Seq(Part) /\ Len(q) \in Nat \ {0} /\ Len(d) = 1
    BY <1>1 DEF Paths
  <2>2. IsPrefix(q, d) /\ q # d
    BY <1>5 DEF IsStrictPrefix
  <2> HIDE DEF d
  <2>3. Len(q) <= Len(d) /\ \A i \in 1 .. Len(q) : q[i] = d[i]
    BY <2>1, <2>2, PrefixIs
  <2>4. Len(q) = Len(d)
    BY <2>1, <2>3
  <2> QED
    BY <2>1, <2>2, <2>3, <2>4, SeqEqual
<1>6. Last(Database(p)) = Db[p]
  BY DEF Last, Database
<1> QED
  BY <1>2, <1>3, <1>4, <1>5, <1>6 DEF Staged

\* Where an entry without ".." lands.
LEMMA PlainLands ==
  ASSUME NEW e \in Entry, ~e.rooted, e.parts \in Paths
  PROVE  Lands(e) = e.parts /\ ~Climbs(e) /\ ~Nowhere(e)
<1> DEFINE parts == e.parts
           E == Part \cup {Up}
<1>1. parts \in Seq(E) /\ e.rooted \in BOOLEAN /\ Up \in E /\ parts # <<>> /\ Len(parts) \in Nat \ {0}
  BY KeptIs DEF Paths
<1>2. \A i \in 1 .. Len(parts) : parts[i] # Up
  BY PartsAreDistinct DEF Paths
<1>3. Clean(e.rooted, parts) = parts
  <2> HIDE DEF parts, E
  <2> QED
    BY <1>1, <1>2, CleanKeeps
<1>4. PICK c \in Nat, L \in Nat : \E idx :
        /\ Places(parts, Len(parts), L, idx)
        /\ Builds(Clean(e.rooted, parts), parts, c, L, idx)
        /\ Climbed(e.rooted, parts, Len(parts), c, L)
  <2> HIDE DEF parts, E
  <2> QED
    BY <1>1, CleanBuilds
<1>5. PICK idx :
        /\ Places(parts, Len(parts), L, idx)
        /\ Builds(parts, parts, c, L, idx)
        /\ Climbed(e.rooted, parts, Len(parts), c, L)
  BY <1>3, <1>4
<1>6. Lands(e) = [n \in 1 .. L |-> parts[idx[n]]] /\ (Kept(e) = {} <=> L = 0)
  BY <1>5, LandsIs
<1>7. Len(parts) = c + L /\ (\A j \in 1 .. c : parts[j] = Up)
        /\ \A j \in 1 .. L : parts[c + j] = parts[idx[j]]
  BY <1>5 DEF Builds
<1>8. c = 0
  <2>1. c # 0 => 1 \in 1 .. c /\ 1 \in 1 .. Len(parts)
    BY <1>7
  <2> QED
    BY <1>2, <1>7, <2>1
<1>9. Len(parts) = L /\ L # 0 /\ \A j \in 1 .. L : parts[j] = parts[idx[j]]
  BY <1>1, <1>7, <1>8
<1>10. Lands(e) = parts
  <2>1. parts = [n \in 1 .. L |-> parts[n]]
    BY <1>1, <1>9
  <2> HIDE DEF parts
  <2> QED
    BY <1>6, <1>9, <2>1
<1>11. ~Climbs(e)
  BY <1>5, <1>8, KeptIs DEF Climbed
<1>12. ~Nowhere(e)
  BY <1>6, <1>9 DEF Nowhere
<1> QED
  BY <1>10, <1>11, <1>12

-----------------------------------------------------------------------------
(* The bytes of the files. *)

\* The files before entry n, and the sizes of all entries.
Sizes(a)     == [i \in DOMAIN a |-> a[i].size]
Before(a, n) == {i \in Files(a) : i < n}

\* The files of an archive are finitely many, and their sizes can be summed up.
LEMMA FilesAre ==
  ASSUME NEW a \in Seq(Entry), NEW n
  PROVE  /\ Files(a) \subseteq 1 .. Len(a) /\ DOMAIN a = 1 .. Len(a) /\ Len(a) \in Nat
         /\ \A i \in Files(a) : i \in Nat /\ a[i] \in Entry /\ a[i].size \in Nat
         /\ Summable(Sizes(a), Before(a, n))
         /\ \A i \in Before(a, n) : Sizes(a)[i] = a[i].size
<1>1. DOMAIN a = 1 .. Len(a) /\ Len(a) \in Nat /\ \A i \in 1 .. Len(a) : a[i] \in Entry
  OBVIOUS
<1>2. Files(a) \subseteq 1 .. Len(a)
  BY <1>1 DEF Files
<1>3. \A i \in 1 .. Len(a) : a[i].size \in Nat
  BY <1>1 DEF Entry
<1>4. IsFiniteSet(Before(a, n))
  <2>1. IsFiniteSet(1 .. Len(a))
    BY <1>1, FS_Interval
  <2>2. Before(a, n) \in SUBSET (1 .. Len(a))
    BY <1>2 DEF Before
  <2> QED
    BY <2>1, <2>2, FS_Subset
<1>5. \A i \in Before(a, n) : i \in 1 .. Len(a)
  BY <1>2 DEF Before
<1>6. \A i \in Before(a, n) : Sizes(a)[i] = a[i].size
  BY <1>1, <1>5 DEF Sizes
<1>7. Summable(Sizes(a), Before(a, n))
  BY <1>3, <1>4, <1>5, <1>6 DEF Summable
<1> QED
  BY <1>1, <1>2, <1>3, <1>6, <1>7

\* The bytes before an entry are a sum over the files before it.
LEMMA BytesAreSums ==
  ASSUME NEW a \in Seq(Entry), NEW n
  PROVE  BytesBefore(a, n) = SumOf(Sizes(a), Before(a, n)) /\ BytesBefore(a, n) \in Nat
<1> DEFINE S == Before(a, n)
           f == Sizes(a)
           Solves(g) == g = [s \in SUBSET S |-> IF s = {} THEN 0 ELSE a[Chosen(s)].size + g[s \ {Chosen(s)}]]
           iter == CHOOSE g : Solves(g)
<1>1. BytesBefore(a, n) = iter[S]
  BY DEF BytesBefore, MapThenSumSet, MapThenFoldSet, Chosen, Before
<1>2. Summable(f, S) /\ \A i \in S : f[i] = a[i].size
  BY FilesAre
<1> HIDE DEF S, f
<1>3. PICK g \in [SUBSET S -> Nat] : Sums(g, f, S)
  BY <1>2, SumIsSolution
<1>4. Solves(g)
  BY <1>2, <1>3 DEF Sums
<1>5. Solves(iter)
  <2> HIDE DEF Solves
  <2> QED
    BY <1>4
<1>6. iter = [s \in SUBSET S |-> IF s = {} THEN 0 ELSE a[Chosen(s)].size + iter[s \ {Chosen(s)}]]
  <2> HIDE DEF iter
  <2> QED
    BY <1>5
<1> HIDE DEF iter, Solves
<1>7. Sums(iter, f, S)
  <2>1. \A s \in SUBSET S : s # {} => Chosen(s) \in s
    BY DEF Chosen
  <2> QED
    BY <1>2, <1>6, <2>1 DEF Sums
<1>8. SumOf(f, S) = iter[S]
  BY <1>2, <1>7, SumIsSolution
<1>9. SumOf(f, S) \in Nat
  BY <1>2, SumType
<1> QED
  BY <1>1, <1>8, <1>9 DEF S, f

\* The bytes grow from entry to entry, by what a file holds.
LEMMA BytesStep ==
  ASSUME NEW a \in Seq(Entry), NEW n \in Nat
  PROVE  /\ n \in Files(a) => BytesBefore(a, n + 1) = BytesBefore(a, n) + a[n].size
         /\ n \notin Files(a) => BytesBefore(a, n + 1) = BytesBefore(a, n)
<1>1. \A i \in Files(a) : i \in Nat /\ a[i].size \in Nat
  BY FilesAre
<1>2. /\ BytesBefore(a, n) = SumOf(Sizes(a), Before(a, n))
      /\ BytesBefore(a, n + 1) = SumOf(Sizes(a), Before(a, n + 1))
      /\ BytesBefore(a, n) \in Nat
  BY BytesAreSums
<1>3. CASE n \in Files(a)
  <2>1. n \in Before(a, n + 1) /\ Before(a, n + 1) \ {n} = Before(a, n)
    <3>1. \A i \in Files(a) : (i < n + 1 /\ i # n) <=> i < n
      BY <1>1
    <3>2. n < n + 1
      OBVIOUS
    <3> QED
      BY <1>3, <3>1, <3>2 DEF Before
  <2>2. Summable(Sizes(a), Before(a, n + 1)) /\ Sizes(a)[n] = a[n].size
    BY <2>1, FilesAre
  <2> DEFINE S == Before(a, n + 1)
             f == Sizes(a)
  <2> HIDE DEF S, f
  <2>3. SumOf(f, S) = f[n] + SumOf(f, S \ {n})
    BY <2>1, <2>2, SumTakes DEF S, f
  <2>4. BytesBefore(a, n + 1) = a[n].size + BytesBefore(a, n)
    BY <1>2, <2>1, <2>2, <2>3 DEF S, f
  <2>5. a[n].size \in Nat
    BY <1>1, <1>3
  <2> QED
    BY <1>2, <1>3, <2>4, <2>5
<1>4. CASE n \notin Files(a)
  <2>1. Before(a, n + 1) = Before(a, n)
    BY <1>1, <1>4 DEF Before
  <2> QED
    BY <1>2, <1>4, <2>1
<1> QED
  BY <1>3, <1>4

\* They never become fewer.
LEMMA BytesGrow ==
  ASSUME NEW a \in Seq(Entry), NEW m \in Nat, NEW n \in Nat, m <= n
  PROVE  BytesBefore(a, m) <= BytesBefore(a, n)
<1>1. /\ BytesBefore(a, m) = SumOf(Sizes(a), Before(a, m))
      /\ BytesBefore(a, n) = SumOf(Sizes(a), Before(a, n))
  BY BytesAreSums
<1>2. Before(a, m) \in SUBSET Before(a, n)
  <2>1. \A i \in Files(a) : i \in Nat
    BY FilesAre
  <2> QED
    BY <2>1 DEF Before
<1>3. Summable(Sizes(a), Before(a, n))
  BY FilesAre
<1> DEFINE S == Before(a, n)
           P == Before(a, m)
           f == Sizes(a)
<1> HIDE DEF S, P, f
<1>4. SumOf(f, P) <= SumOf(f, S)
  BY <1>2, <1>3, SumOfPart DEF S, P, f
<1> QED
  BY <1>1, <1>4 DEF S, P, f

\* There are none before the first entry.
LEMMA BytesStart ==
  ASSUME NEW a \in Seq(Entry)
  PROVE  BytesBefore(a, 1) = 0 /\ Before(a, 1) = {}
<1>1. Before(a, 1) = {}
  <2>1. \A i \in Files(a) : i \in 1 .. Len(a)
    BY FilesAre
  <2>2. \A i \in Files(a) : ~(i < 1)
    BY <2>1
  <2> QED
    BY <2>2 DEF Before
<1>2. SumOf(Sizes(a), {}) = 0
  BY SumOfNothing
<1> QED
  BY <1>1, <1>2, BytesAreSums

\* What has been unpacked of the file that is next, in the sum over the files.
LEMMA SumOfCopy ==
  ASSUME NEW f, NEW D, Summable(f, D), NEW x, NEW v \in Nat,
         NEW g, g = [y \in D \cup {x} |-> IF y = x THEN v ELSE f[y]]
  PROVE  /\ Summable(g, D \cup {x})
         /\ SumOf(g, D \cup {x}) \in Nat /\ SumOf(f, D) \in Nat
         /\ SumOf(g, D \cup {x}) <= SumOf(f, D) + v
<1> DEFINE S == D \cup {x}
           R == D \ {x}
<1>1. IsFiniteSet(S)
  BY FS_AddElement DEF Summable
<1>2. \A y \in S : g[y] \in Nat
  BY DEF Summable
<1>3. Summable(g, S)
  BY <1>1, <1>2 DEF Summable
<1>4. Summable(f, R) /\ \A y \in R : f[y] = g[y]
  <2>1. IsFiniteSet(R)
    BY FS_RemoveElement DEF Summable
  <2> QED
    BY <2>1 DEF Summable
<1>5. S \ {x} = R /\ x \in S /\ g[x] = v /\ R \in SUBSET D
  OBVIOUS
<1> HIDE DEF S, R
<1>6. SumOf(g, S) = g[x] + SumOf(g, S \ {x})
  BY <1>3, <1>5, SumTakes
<1>7. SumOf(f, R) = SumOf(g, R)
  BY <1>4, SumOfSame
<1>8. SumOf(f, R) <= SumOf(f, D)
  BY <1>5, SumOfPart
<1>9. SumOf(f, R) \in Nat /\ SumOf(f, D) \in Nat /\ SumOf(g, S) \in Nat
  BY <1>3, <1>4, SumType
<1>10. SumOf(g, S) <= SumOf(f, D) + v
  BY <1>5, <1>6, <1>7, <1>8, <1>9
<1> QED
  BY <1>3, <1>9, <1>10 DEF S
==============================================================================
