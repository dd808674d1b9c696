-------------------------------- MODULE Sums --------------------------------
(***************************************************************************)
(* Facts about sums over finite sets and sequences.  The folds of the      *)
(* community modules are recursive functions on the subsets of a finite    *)
(* set; the facts below are proved by induction on those subsets, stated   *)
(* with a set in the place of a predicate.                                 *)
(***************************************************************************)
EXTENDS Integers, Sequences, SequencesExt, FiniteSetsExt,
        FiniteSetTheorems, WellFoundedInduction, TLAPS

(* Induction on the natural numbers: a set with 0 and the successor of each
   of its members holds them all. *)
LEMMA NatSteps ==
    ASSUME NEW S, 0 \in S, \A n \in Nat : n \in S => n + 1 \in S
    PROVE  Nat \subseteq S
<1> DEFINE T == {0 .. n : n \in Nat \ S}
           R == StrictSubsetOrdering(Nat)
           F == FiniteSubsetsOf(Nat)
<1>1. IsWellFoundedOn(R, F)
  BY FS_StrictSubsetOrderingWellFounded
<1>2. ASSUME NEW x \in T PROVE x \in F
  <2>1. PICK n \in Nat \ S : x = 0 .. n
    BY <1>2
  <2>2. IsFiniteSet(x) /\ x \subseteq Nat
    BY <2>1, FS_Interval
  <2>3. QED
    BY <2>2 DEF FiniteSubsetsOf
<1>3. ASSUME T # {} PROVE FALSE
  <2>1. \E x \in T : \A y \in T : <<y, x>> \notin R
    <3>1. T \subseteq F
      BY <1>2
    <3> HIDE DEF T, R, F
    <3> QED
      BY <1>1, <3>1, <1>3, WFMin
  <2>2. PICK n \in Nat \ S : \A y \in T : <<y, 0 .. n>> \notin R
    BY <2>1
  <2>3. n # 0
    BY <2>2
  <2>4. n - 1 \in Nat /\ (n - 1) \notin S
    BY <2>2, <2>3
  <2>5. <<0 .. (n - 1), 0 .. n>> \in R
    <3>1. 0 .. (n - 1) \subseteq 0 .. n /\ 0 .. (n - 1) # 0 .. n
      BY <2>4
    <3>2. QED
      BY <3>1 DEF StrictSubsetOrdering
  <2>6. QED
    BY <2>2, <2>4, <2>5
<1>4. QED
  BY <1>3

(* Induction on the subsets of a finite set: a collection that holds a subset
   whenever it holds what is left of it without any one of its elements, holds
   every subset. *)
LEMMA SubsetSteps ==
    ASSUME NEW D, IsFiniteSet(D), NEW P,
           \A s \in SUBSET D : (\A x \in s : s \ {x} \in P) => s \in P
    PROVE  SUBSET D \subseteq P
<1> DEFINE T == (SUBSET D) \ P
           R == StrictSubsetOrdering(D)
<1>1. IsWellFoundedOn(R, SUBSET D)
  BY FS_StrictSubsetOrderingWellFounded, FS_FiniteSubsetsOfFinite
<1>2. ASSUME T # {} PROVE FALSE
  <2>1. \E s \in T : \A t \in T : <<t, s>> \notin R
    <3>1. T \subseteq SUBSET D
      OBVIOUS
    <3> HIDE DEF T, R
    <3> QED
      BY <1>1, <3>1, <1>2, WFMin
  <2>2. PICK s \in T : \A t \in T : <<t, s>> \notin R
    BY <2>1
  <2>3. ASSUME NEW x \in s PROVE s \ {x} \in P
    <3>1. <<s \ {x}, s>> \in R
      BY <2>2 DEF StrictSubsetOrdering
    <3>2. QED
      BY <3>1, <2>2
  <2>4. QED
    BY <2>2, <2>3
<1>3. QED
  BY <1>2

-----------------------------------------------------------------------------
(* g[s] is the sum of f over s, for the subsets s of D: it comes from the sum
   without one element of s, whichever that is and on whichever side f of it is
   added. *)
IsSum(g, f, D) ==
    /\ g[{}] = 0
    /\ \A s \in SUBSET D : s # {} =>
          \E x \in s : g[s] \in {f[x] + g[s \ {x}], g[s \ {x}] + f[x]}

LEMMA SumType ==
    ASSUME NEW D, IsFiniteSet(D), NEW f \in [D -> Int], NEW g, IsSum(g, f, D)
    PROVE  \A s \in SUBSET D : g[s] \in Int
<1> DEFINE P == {s \in SUBSET D : g[s] \in Int}
<1>1. ASSUME NEW s \in SUBSET D, \A x \in s : s \ {x} \in P PROVE s \in P
  <2>1. CASE s = {}
    BY <2>1 DEF IsSum
  <2>2. CASE s # {}
    <3>1. PICK x \in s : g[s] \in {f[x] + g[s \ {x}], g[s \ {x}] + f[x]}
      BY <2>2 DEF IsSum
    <3>2. g[s \ {x}] \in Int /\ f[x] \in Int
      BY <1>1
    <3>3. QED
      BY <3>1, <3>2
  <2>3. QED
    BY <2>1, <2>2
<1>2. SUBSET D \subseteq P
  <2> HIDE DEF P
  <2> QED
    BY <1>1, SubsetSteps
<1>3. QED
  BY <1>2

(* Any element can be the one taken out. *)
LEMMA SumRemove ==
    ASSUME NEW D, IsFiniteSet(D), NEW f \in [D -> Int], NEW g, IsSum(g, f, D)
    PROVE  \A s \in SUBSET D : \A x \in s : g[s] = g[s \ {x}] + f[x]
<1> DEFINE P == {s \in SUBSET D : \A x \in s : g[s] = g[s \ {x}] + f[x]}
<1>1. \A s \in SUBSET D : g[s] \in Int
  BY SumType
<1>2. ASSUME NEW s \in SUBSET D, \A x \in s : s \ {x} \in P PROVE s \in P
  <2> SUFFICES ASSUME NEW x \in s PROVE g[s] = g[s \ {x}] + f[x]
    OBVIOUS
  <2>1. PICK y \in s : g[s] \in {f[y] + g[s \ {y}], g[s \ {y}] + f[y]}
    BY DEF IsSum
  <2>2. g[s] = g[s \ {y}] + f[y]
    BY <2>1, <1>1
  <2>3. CASE x = y
    BY <2>2, <2>3
  <2>4. CASE x # y
    <3> DEFINE r == (s \ {x}) \ {y}
    <3>1. r = (s \ {y}) \ {x}
      OBVIOUS
    <3>2. g[s \ {y}] = g[r] + f[x]
      BY <1>2, <2>4, <3>1
    <3>3. g[s \ {x}] = g[r] + f[y]
      BY <1>2, <2>4
    <3>4. g[r] \in Int /\ f[x] \in Int /\ f[y] \in Int
      BY <1>1
    <3>5. QED
      BY <2>2, <3>2, <3>3, <3>4
  <2>5. QED
    BY <2>3, <2>4
<1>3. SUBSET D \subseteq P
  <2> HIDE DEF P
  <2> QED
    BY <1>2, SubsetSteps
<1>4. QED
  BY <1>3

(* The sum over a set depends on nothing but the values on that set. *)
LEMMA SumAgree ==
    ASSUME NEW D, IsFiniteSet(D), NEW f \in [D -> Int], NEW g, IsSum(g, f, D),
           NEW E, IsFiniteSet(E), NEW e \in [E -> Int], NEW h, IsSum(h, e, E),
           NEW S, S \subseteq D, S \subseteq E, \A x \in S : f[x] = e[x]
    PROVE  g[S] = h[S]
<1> DEFINE P == {s \in SUBSET S : g[s] = h[s]}
<1>1. ASSUME NEW s \in SUBSET S, \A x \in s : s \ {x} \in P PROVE s \in P
  <2>1. CASE s = {}
    BY <2>1 DEF IsSum
  <2>2. CASE s # {}
    <3>1. PICK x \in s : TRUE
      BY <2>2
    <3>2. g[s] = g[s \ {x}] + f[x]
      <4>1. s \in SUBSET D
        OBVIOUS
      <4>2. QED
        BY <4>1, SumRemove
    <3>3. h[s] = h[s \ {x}] + e[x]
      <4>1. s \in SUBSET E
        OBVIOUS
      <4>2. QED
        BY <4>1, SumRemove
    <3>4. QED
      BY <3>2, <3>3, <1>1
  <2>3. QED
    BY <2>1, <2>2
<1>2. IsFiniteSet(S)
  BY FS_Subset
<1>3. SUBSET S \subseteq P
  <2> HIDE DEF P
  <2> QED
    BY <1>1, <1>2, SubsetSteps
<1>4. QED
  BY <1>3

(* A sum whose values change at one element changes by as much. *)
LEMMA SumChange ==
    ASSUME NEW D, IsFiniteSet(D), NEW f \in [D -> Int], NEW g, IsSum(g, f, D),
           NEW e \in [D -> Int], NEW h, IsSum(h, e, D),
           NEW x \in D, \A y \in D : y # x => f[y] = e[y]
    PROVE  h[D] = g[D] - f[x] + e[x]
<1>1. g[D] = g[D \ {x}] + f[x] /\ h[D] = h[D \ {x}] + e[x]
  BY SumRemove
<1>2. g[D \ {x}] = h[D \ {x}]
  BY SumAgree
<1>3. g[D \ {x}] \in Int /\ h[D \ {x}] \in Int /\ f[x] \in Int /\ e[x] \in Int
  BY SumType
<1>4. QED
  BY <1>1, <1>2, <1>3

(* Zeros sum to zero. *)
LEMMA SumZero ==
    ASSUME NEW D, IsFiniteSet(D), NEW f \in [D -> Int], NEW g, IsSum(g, f, D),
           \A x \in D : f[x] = 0
    PROVE  g[D] = 0
<1> DEFINE P == {s \in SUBSET D : g[s] = 0}
<1>1. ASSUME NEW s \in SUBSET D, \A x \in s : s \ {x} \in P PROVE s \in P
  <2>1. CASE s = {}
    BY <2>1 DEF IsSum
  <2>2. CASE s # {}
    <3>1. PICK x \in s : TRUE
      BY <2>2
    <3>2. g[s] = g[s \ {x}] + f[x]
      BY SumRemove
    <3>3. QED
      BY <3>2, <1>1
  <2>3. QED
    BY <2>1, <2>2
<1>2. SUBSET D \subseteq P
  <2> HIDE DEF P
  <2> QED
    BY <1>1, SubsetSteps
<1>3. QED
  BY <1>2

-----------------------------------------------------------------------------
(* The recursion of the folds has a solution, whatever element of each set it
   takes out first. *)
Choice(take, D) == \A s \in SUBSET D : s # {} => take[s] \in s
Takes(g, f, take, D) ==
    g = [s \in SUBSET D |-> IF s = {} THEN 0 ELSE f[take[s]] + g[s \ {take[s]}]]

LEMMA SumExists ==
    ASSUME NEW D, IsFiniteSet(D), NEW f \in [D -> Int],
           NEW take, Choice(take, D)
    PROVE  \E g \in [SUBSET D -> Int] : Takes(g, f, take, D) /\ IsSum(g, f, D)
<1> DEFINE Small(n) == {s \in SUBSET D : Cardinality(s) <= n}
           Upto(h, n) == \A s \in Small(n) :
               h[s] = IF s = {} THEN 0 ELSE f[take[s]] + h[s \ {take[s]}]
           S == {n \in Nat : \E h \in [Small(n) -> Int] : Upto(h, n)}
<1>1. ASSUME NEW s \in SUBSET D
      PROVE  /\ Cardinality(s) \in Nat
             /\ Cardinality(s) = 0 <=> s = {}
             /\ s # {} => /\ s \ {take[s]} \in SUBSET D
                          /\ Cardinality(s \ {take[s]}) = Cardinality(s) - 1
                          /\ f[take[s]] \in Int
  <2>1. IsFiniteSet(s)
    BY FS_Subset
  <2>2. QED
    BY <2>1, FS_CardinalityType, FS_EmptySet, FS_RemoveElement DEF Choice
<1>2. 0 \in S
  <2> DEFINE h == [s \in Small(0) |-> 0]
  <2>1. h \in [Small(0) -> Int]
    OBVIOUS
  <2>2. Upto(h, 0)
    BY <1>1
  <2>3. QED
    BY <2>1, <2>2
<1>3. ASSUME NEW n \in Nat, n \in S PROVE n + 1 \in S
  <2>1. PICK h \in [Small(n) -> Int] : Upto(h, n)
    BY <1>3
  <2> DEFINE k == [s \in Small(n + 1) |->
                     IF s \in Small(n) THEN h[s] ELSE f[take[s]] + h[s \ {take[s]}]]
  <2>2. ASSUME NEW s \in Small(n + 1), s # {}
        PROVE  /\ s \ {take[s]} \in Small(n)
               /\ s \ {take[s]} \in Small(n + 1)
               /\ f[take[s]] \in Int
    BY <1>1, <2>2
  <2>3. ASSUME NEW s \in Small(n + 1) PROVE s = {} => s \in Small(n)
    BY <1>1
  <2>4. k \in [Small(n + 1) -> Int]
    <3> SUFFICES ASSUME NEW s \in Small(n + 1)
                 PROVE  (IF s \in Small(n) THEN h[s]
                         ELSE f[take[s]] + h[s \ {take[s]}]) \in Int
      OBVIOUS
    <3>1. CASE s \in Small(n)
      <4> HIDE DEF Small
      <4> QED BY <3>1
    <3>2. CASE s \notin Small(n)
      <4> HIDE DEF Small
      <4>1. h[s \ {take[s]}] \in Int /\ f[take[s]] \in Int
        BY <2>2, <2>3, <3>2
      <4> QED BY <3>2, <4>1
    <3>3. QED
      BY <3>1, <3>2
  <2>5. Upto(k, n + 1)
    <3> SUFFICES ASSUME NEW s \in Small(n + 1)
                 PROVE  k[s] = IF s = {} THEN 0 ELSE f[take[s]] + k[s \ {take[s]}]
      OBVIOUS
    <3> HIDE DEF Small
    <3>1. CASE s = {}
      BY <3>1, <2>3, <2>1
    <3>2. CASE s # {}
      <4>1. k[s \ {take[s]}] = h[s \ {take[s]}]
        BY <2>2, <3>2
      <4>2. k[s] = f[take[s]] + h[s \ {take[s]}]
        BY <2>1, <3>2
      <4>3. QED
        BY <4>1, <4>2, <3>2
    <3>3. QED
      BY <3>1, <3>2
  <2>6. QED
    <3> HIDE DEF Small, Upto, k
    <3> QED BY <2>4, <2>5
<1>4. Cardinality(D) \in S
  <2>1. Nat \subseteq S
    <3> HIDE DEF S
    <3> QED BY <1>2, <1>3, NatSteps
  <2>2. QED
    BY <2>1, <1>1
<1>5. PICK g \in [Small(Cardinality(D)) -> Int] : Upto(g, Cardinality(D))
  BY <1>4
<1>6. Small(Cardinality(D)) = SUBSET D
  BY FS_Subset
<1>7. /\ g \in [SUBSET D -> Int]
      /\ \A s \in SUBSET D :
            g[s] = IF s = {} THEN 0 ELSE f[take[s]] + g[s \ {take[s]}]
  BY <1>5, <1>6
<1>8. Takes(g, f, take, D)
  BY <1>7 DEF Takes
<1>9. IsSum(g, f, D)
  <2>1. g[{}] = 0
    BY <1>7
  <2>2. ASSUME NEW s \in SUBSET D, s # {}
        PROVE  \E x \in s : g[s] \in {f[x] + g[s \ {x}], g[s \ {x}] + f[x]}
    <3>1. take[s] \in s
      BY <2>2 DEF Choice
    <3>2. g[s] = f[take[s]] + g[s \ {take[s]}]
      BY <1>7, <2>2
    <3>3. QED
      BY <3>1, <3>2
  <2>3. QED
    BY <2>1, <2>2 DEF IsSum
<1>10. QED
  BY <1>7, <1>8, <1>9

(* A nonempty set of numbers up to n has a greatest one, which Max returns. *)
LEMMA MaxInterval ==
    ASSUME NEW n \in Nat, NEW s \in SUBSET (1..n), s # {}
    PROVE  Max(s) \in s /\ \A y \in s : Max(s) >= y
<1> DEFINE D == 1..n
           P == {r \in SUBSET D : r # {} => \E x \in r : \A y \in r : x >= y}
<1>1. ASSUME NEW r \in SUBSET D, \A x \in r : r \ {x} \in P PROVE r \in P
  <2>1. CASE r = {}
    BY <2>1
  <2>2. CASE r # {}
    <3>1. PICK x \in r : TRUE
      BY <2>2
    <3>2. CASE r \ {x} = {}
      BY <3>1, <3>2
    <3>3. CASE r \ {x} # {}
      <4>1. PICK z \in r \ {x} : \A y \in r \ {x} : z >= y
        BY <3>3, <3>1, <1>1
      <4>2. (\A y \in r : x >= y) \/ (\A y \in r : z >= y)
        BY <4>1, <3>1
      <4>3. QED
        BY <4>2
    <3>4. QED
      BY <3>2, <3>3
  <2>3. QED
    BY <2>1, <2>2
<1>2. IsFiniteSet(D)
  BY FS_Interval
<1>3. SUBSET D \subseteq P
  <2> HIDE DEF P, D
  <2> QED
    BY <1>1, <1>2, SubsetSteps
<1>4. \E x \in s : \A y \in s : x >= y
  BY <1>3
<1>5. QED
  BY <1>4 DEF Max

(* FoldLeft takes the last element of the sequence out first, and that is a
   sum; appending an element adds its value. *)
FoldsLeft(g, f, n) ==
    g = [s \in SUBSET (1..n) |-> IF s = {} THEN 0 ELSE g[s \ {Max(s)}] + f[Max(s)]]

LEMMA FoldExists ==
    ASSUME NEW n \in Nat, NEW f \in [1..n -> Int]
    PROVE  \E g : FoldsLeft(g, f, n)
<1> DEFINE D == 1..n
           take == [s \in SUBSET D |-> Max(s)]
<1>1. IsFiniteSet(D)
  BY FS_Interval
<1>2. \A s \in SUBSET D : s # {} => take[s] = Max(s) /\ Max(s) \in s
  BY MaxInterval
<1>3. f \in [D -> Int]
  OBVIOUS
<1>4. PICK g \in [SUBSET D -> Int] : Takes(g, f, take, D) /\ IsSum(g, f, D)
  <2>1. Choice(take, D)
    BY <1>2 DEF Choice
  <2> HIDE DEF D, take
  <2> QED
    BY <1>1, <1>3, <2>1, SumExists
<1>5. ASSUME NEW s \in SUBSET D
      PROVE  g[s] = IF s = {} THEN 0 ELSE g[s \ {Max(s)}] + f[Max(s)]
  <2>1. CASE s = {}
    BY <1>4, <2>1 DEF Takes
  <2>2. CASE s # {}
    <3>1. g[s] = f[take[s]] + g[s \ {take[s]}]
      <4> HIDE DEF D, take
      <4> QED BY <1>4, <2>2 DEF Takes
    <3>2. f[Max(s)] \in Int /\ g[s \ {Max(s)}] \in Int
      BY <1>2, <2>2
    <3>3. take[s] = Max(s)
      BY <1>2, <2>2
    <3>4. g[s] = f[Max(s)] + g[s \ {Max(s)}]
      BY <3>1, <3>3
    <3>5. QED
      <4> HIDE DEF D, take
      <4> QED BY <3>2, <3>4, <2>2
  <2>3. QED
    BY <2>1, <2>2
<1>6. g = [s \in SUBSET D |-> IF s = {} THEN 0 ELSE g[s \ {Max(s)}] + f[Max(s)]]
  BY <1>5
<1>7. QED
  BY <1>6 DEF FoldsLeft

LEMMA FoldIsSum ==
    ASSUME NEW n \in Nat, NEW f \in [1..n -> Int], NEW g, FoldsLeft(g, f, n)
    PROVE  IsSum(g, f, 1..n)
<1>1. \A s \in SUBSET (1..n) : g[s] = IF s = {} THEN 0 ELSE g[s \ {Max(s)}] + f[Max(s)]
  BY DEF FoldsLeft
<1>2. g[{}] = 0
  BY <1>1
<1>3. ASSUME NEW s \in SUBSET (1..n), s # {}
      PROVE  \E x \in s : g[s] \in {f[x] + g[s \ {x}], g[s \ {x}] + f[x]}
  <2>1. Max(s) \in s
    BY <1>3, MaxInterval
  <2>2. QED
    BY <2>1, <1>1, <1>3
<1>4. QED
  BY <1>2, <1>3 DEF IsSum

LEMMA SumAppend ==
    ASSUME NEW n \in Nat, NEW f \in [1..n -> Int], NEW g, IsSum(g, f, 1..n),
           NEW e \in [1..(n + 1) -> Int], NEW h, IsSum(h, e, 1..(n + 1)),
           \A i \in 1..n : f[i] = e[i]
    PROVE  h[1..(n + 1)] = g[1..n] + e[n + 1] /\ g[1..n] \in Int
<1>1. IsFiniteSet(1..n) /\ IsFiniteSet(1..(n + 1))
  BY FS_Interval
<1>2. (1..(n + 1)) \ {n + 1} = 1..n
  OBVIOUS
<1>3. h[1..(n + 1)] = h[1..n] + e[n + 1]
  <2> DEFINE E == 1..(n + 1)
  <2>1. IsFiniteSet(E) /\ e \in [E -> Int] /\ IsSum(h, e, E) /\ n + 1 \in E
    BY <1>1
  <2>2. h[E] = h[E \ {n + 1}] + e[n + 1]
    <3>1. E \in SUBSET E
      OBVIOUS
    <3> HIDE DEF E
    <3> QED BY <2>1, <3>1, SumRemove
  <2>3. QED
    BY <2>2, <1>2
<1>4. g[1..n] = h[1..n]
  <2> DEFINE D == 1..n
             E == 1..(n + 1)
  <2>1. D \subseteq D /\ D \subseteq E
    OBVIOUS
  <2>2. /\ IsFiniteSet(D) /\ IsFiniteSet(E) /\ f \in [D -> Int] /\ e \in [E -> Int]
        /\ IsSum(g, f, D) /\ IsSum(h, e, E) /\ \A i \in D : f[i] = e[i]
    BY <1>1
  <2> HIDE DEF D, E
  <2>3. g[D] = h[D]
    BY <2>1, <2>2, SumAgree
  <2>4. QED
    BY <2>3 DEF D
<1>5. g[1..n] \in Int
  BY <1>1, SumType
<1>6. QED
  BY <1>3, <1>4, <1>5

(* MapThenSumSet takes an arbitrary element out first, and that is a sum. *)
Chooses(g, f, D) ==
    g = [s \in SUBSET D |-> IF s = {} THEN 0
                            ELSE f[CHOOSE x \in s : TRUE] + g[s \ {CHOOSE x \in s : TRUE}]]

LEMMA ChooseExists ==
    ASSUME NEW D, IsFiniteSet(D), NEW f \in [D -> Int]
    PROVE  \E g : Chooses(g, f, D)
<1> DEFINE take == [s \in SUBSET D |-> CHOOSE x \in s : TRUE]
<1>1. \A s \in SUBSET D : take[s] = CHOOSE x \in s : TRUE
  OBVIOUS
<1>2. Choice(take, D)
  BY DEF Choice
<1>3. PICK g \in [SUBSET D -> Int] : Takes(g, f, take, D) /\ IsSum(g, f, D)
  <2> HIDE DEF take
  <2> QED
    BY <1>2, SumExists
<1>4. \A s \in SUBSET D :
         g[s] = IF s = {} THEN 0 ELSE f[take[s]] + g[s \ {take[s]}]
  <2> HIDE DEF take
  <2> QED
    BY <1>3 DEF Takes
<1>5. g = [s \in SUBSET D |-> IF s = {} THEN 0
                ELSE f[CHOOSE x \in s : TRUE] + g[s \ {CHOOSE x \in s : TRUE}]]
  BY <1>3, <1>4
<1>6. QED
  BY <1>5 DEF Chooses

LEMMA ChooseIsSum ==
    ASSUME NEW D, NEW f \in [D -> Int], NEW g, Chooses(g, f, D)
    PROVE  IsSum(g, f, D)
<1>1. \A s \in SUBSET D :
         g[s] = IF s = {} THEN 0
                ELSE f[CHOOSE x \in s : TRUE] + g[s \ {CHOOSE x \in s : TRUE}]
  BY DEF Chooses
<1>2. g[{}] = 0
  BY <1>1
<1>3. ASSUME NEW s \in SUBSET D, s # {}
      PROVE  \E x \in s : g[s] \in {f[x] + g[s \ {x}], g[s \ {x}] + f[x]}
  <2>1. (CHOOSE x \in s : TRUE) \in s
    BY <1>3
  <2>2. QED
    BY <2>1, <1>1, <1>3
<1>4. QED
  BY <1>2, <1>3 DEF IsSum
=============================================================================
