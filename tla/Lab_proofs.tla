----------------------------- MODULE Lab_proofs -----------------------------
(***************************************************************************)
(* What research and its tests keep, for any markets, reports, jobs and    *)
(* tapes: what Nova weighs was said, back-tests stay within their bars, a  *)
(* walk called robust has earned on bars it was not fitted on, and no cent *)
(* of the ensemble's book is lost.                                         *)
(***************************************************************************)
EXTENDS Lab, Sums

-----------------------------------------------------------------------------
(* Sequences whose members are in no particular set.                       *)

IsSeq(s) == s \in Seq({s[i] : i \in DOMAIN s})

(* A sequence that grew by one is what it was and the new member. *)
LEMMA GrownSeq ==
    ASSUME NEW s, IsSeq(s), NEW x
    PROVE  /\ IsSeq(Append(s, x))
           /\ Len(s) \in Nat /\ DOMAIN s = 1..Len(s)
           /\ Len(Append(s, x)) = Len(s) + 1
           /\ DOMAIN Append(s, x) = 1..(Len(s) + 1)
           /\ \A i \in DOMAIN s : Append(s, x)[i] = s[i]
           /\ Append(s, x)[Len(s) + 1] = x
<1> DEFINE R == {s[i] : i \in DOMAIN s}
           T == R \cup {x}
           t == Append(s, x)
<1>1. s \in Seq(T) /\ x \in T
  <2>1. s \in Seq(R)
    BY DEF IsSeq
  <2> HIDE DEF R
  <2> QED BY <2>1
<1>2. /\ Len(s) \in Nat /\ DOMAIN s = 1..Len(s)
      /\ t \in Seq(T) /\ Len(t) = Len(s) + 1 /\ DOMAIN t = 1..(Len(s) + 1)
      /\ \A i \in DOMAIN s : t[i] = s[i]
      /\ t[Len(s) + 1] = x
  <2> HIDE DEF T
  <2> QED BY <1>1
<1>3. t \in Seq({t[i] : i \in DOMAIN t})
  <2> DEFINE U == {t[i] : i \in DOMAIN t}
  <2> HIDE DEF t, T
  <2>1. \A i \in 1..Len(t) : t[i] \in U
    BY <1>2
  <2> HIDE DEF U
  <2>2. t \in Seq(U)
    BY <1>2, <2>1
  <2> QED BY <2>2 DEF U
<1>4. QED
  <2> HIDE DEF T, R
  <2> QED BY <1>2, <1>3 DEF IsSeq

Grown(s, x, t) ==
    /\ Len(s) \in Nat /\ DOMAIN s = 1..Len(s)
    /\ DOMAIN t = 1..(Len(s) + 1) /\ Len(t) = Len(s) + 1 /\ t[Len(s) + 1] = x
    /\ DOMAIN s \subseteq DOMAIN t
    /\ \A i \in DOMAIN s : t[i] = s[i]
    /\ IsSeq(t) /\ t # s

LEMMA Growing == ASSUME NEW s, IsSeq(s), NEW x PROVE Grown(s, x, Append(s, x))
<1>1. PICK t : t = Append(s, x)
  OBVIOUS
<1>2. /\ Len(s) \in Nat /\ DOMAIN s = 1..Len(s)
      /\ DOMAIN t = 1..(Len(s) + 1) /\ Len(t) = Len(s) + 1 /\ t[Len(s) + 1] = x
      /\ \A i \in DOMAIN s : t[i] = s[i]
      /\ IsSeq(t)
  BY <1>1, GrownSeq
<1>3. /\ DOMAIN s \subseteq DOMAIN t
      /\ Len(s) + 1 \in DOMAIN t /\ Len(s) + 1 \notin DOMAIN s
  BY <1>2
<1>4. Grown(s, x, t)
  BY <1>2, <1>3 DEF Grown
<1>5. QED
  BY <1>1, <1>4

LEMMA SeqDomain ==
    ASSUME NEW s, IsSeq(s)
    PROVE  Len(s) \in Nat /\ DOMAIN s = 1..Len(s)
<1> DEFINE R == {s[i] : i \in DOMAIN s}
<1>1. s \in Seq(R)
  BY DEF IsSeq
<1> HIDE DEF R
<1> QED BY <1>1

LEMMA SeqOfMembers ==
    ASSUME NEW S, NEW s \in Seq(S) PROVE IsSeq(s)
<1> DEFINE U == {s[i] : i \in DOMAIN s}
<1>1. \A i \in 1..Len(s) : s[i] \in U
  OBVIOUS
<1> HIDE DEF U
<1>2. s \in Seq(U)
  BY <1>1
<1> QED BY <1>2 DEF U, IsSeq

LEMMA JoinNone == ASSUME NEW s, IsSeq(s) PROVE s \o <<>> = s
<1> DEFINE R == {s[i] : i \in DOMAIN s}
<1>1. s \in Seq(R)
  BY DEF IsSeq
<1> HIDE DEF R
<1> QED BY <1>1

LEMMA JoinOne == ASSUME NEW s, IsSeq(s), NEW x PROVE s \o <<x>> = Append(s, x)
<1> DEFINE R == {s[i] : i \in DOMAIN s}
           T == R \cup {x}
<1>1. s \in Seq(R)
  BY DEF IsSeq
<1> HIDE DEF R
<1>2. s \in Seq(T) /\ x \in T
  BY <1>1
<1> HIDE DEF T
<1> QED BY <1>2

LEMMA EmptySeq == ASSUME NEW s, IsSeq(s) PROVE s # <<>> <=> Len(s) > 0
<1> DEFINE R == {s[i] : i \in DOMAIN s}
<1>1. s \in Seq(R)
  BY DEF IsSeq
<1> HIDE DEF R
<1> QED BY <1>1

(* A join of sequences is a join of the ones before the last, and the last. *)
LEMMA JoinExists ==
    ASSUME NEW S, NEW n \in Nat, NEW q \in [1..n -> Seq(S)]
    PROVE  \E f : f = [i \in 1..n |-> IF i = 1 THEN q[i] ELSE f[i - 1] \o q[i]]
<1> DEFINE OK(f, m) == \A i \in 1..m : f[i] = IF i = 1 THEN q[i] ELSE f[i - 1] \o q[i]
           P == {m \in Nat : m <= n => \E f \in [1..m -> Seq(S)] : OK(f, m)}
<1>1. 0 \in P
  <2>1. [i \in 1..0 |-> q[i]] \in [1..0 -> Seq(S)] /\ 1..0 = {}
    OBVIOUS
  <2>2. QED
    BY <2>1
<1>2. ASSUME NEW m \in Nat, m + 1 <= n, NEW f \in [1..m -> Seq(S)], OK(f, m)
      PROVE  \E g \in [1..(m + 1) -> Seq(S)] : OK(g, m + 1)
  <2> DEFINE g == [i \in 1..(m + 1) |-> IF i <= m THEN f[i]
                                        ELSE IF i = 1 THEN q[i] ELSE f[i - 1] \o q[i]]
  <2>2. \A i \in 1..m : g[i] = f[i] /\ f[i] \in Seq(S)
    OBVIOUS
  <2>3. g[m + 1] = IF m + 1 = 1 THEN q[m + 1] ELSE f[m] \o q[m + 1]
    OBVIOUS
  <2>4. g[m + 1] \in Seq(S)
    <3>1. q[m + 1] \in Seq(S) /\ (m # 0 => f[m] \in Seq(S))
      <4>1. m + 1 \in 1..n /\ (m # 0 => m \in 1..m)
        BY <1>2
      <4> QED BY ONLY <4>1, f \in [1..m -> Seq(S)], q \in [1..n -> Seq(S)]
    <3> QED BY <2>3, <3>1
  <2>5. g \in [1..(m + 1) -> Seq(S)]
    <3>1. \A i \in 1..(m + 1) : g[i] \in Seq(S)
      <4> HIDE DEF g
      <4> QED BY <2>2, <2>4
    <3>2. g = [i \in 1..(m + 1) |-> g[i]]
      OBVIOUS
    <3> HIDE DEF g
    <3> QED BY <3>1, <3>2
  <2>6. OK(g, m + 1)
    <3> SUFFICES ASSUME NEW i \in 1..(m + 1)
                 PROVE  g[i] = IF i = 1 THEN q[i] ELSE g[i - 1] \o q[i]
      OBVIOUS
    <3>1. i # 1 => i - 1 \in 1..m
      OBVIOUS
    <3>2. CASE i = m + 1
      <4> HIDE DEF g
      <4> QED BY <2>2, <2>3, <3>1, <3>2
    <3>3. CASE i \in 1..m
      <4>1. f[i] = IF i = 1 THEN q[i] ELSE f[i - 1] \o q[i]
        BY <1>2, <3>3
      <4> HIDE DEF g
      <4> QED BY <2>2, <3>1, <3>3, <4>1
    <3>4. QED
      BY <3>2, <3>3
  <2> HIDE DEF g, OK
  <2>7. QED
    BY <2>5, <2>6
<1>3. ASSUME NEW m \in Nat, m \in P PROVE m + 1 \in P
  <2>1. m + 1 <= n => \E f \in [1..m -> Seq(S)] : OK(f, m)
    BY <1>3
  <2>2. m + 1 <= n => \E g \in [1..(m + 1) -> Seq(S)] : OK(g, m + 1)
    <3> HIDE DEF OK
    <3> QED BY <1>2, <2>1
  <2> HIDE DEF OK
  <2>3. QED
    BY <2>2
<1>3a. n \in P
  <2> HIDE DEF P
  <2> QED BY <1>1, <1>3, NatSteps
<1>4. PICK f \in [1..n -> Seq(S)] : OK(f, n)
  BY <1>3a
<1>5. f = [i \in 1..n |-> IF i = 1 THEN q[i] ELSE f[i - 1] \o q[i]]
  BY <1>4
<1>6. QED
  BY <1>5

(* What is joined of sequences of one member or none, whose members are told apart
   by their agents: the members themselves, each once. *)
Own(q, n, S, G) ==
    \A j \in 1..n : q[j] = <<>> \/ \E s \in S : q[j] = <<s>> /\ s.agent = G[j]

Joined(t, q, m, S) ==
    /\ t \in Seq(S)
    /\ \A k \in DOMAIN t : \E j \in 1..m : q[j] = <<t[k]>>
    /\ \A j \in 1..m : \A s \in S : q[j] = <<s>> => \E k \in DOMAIN t : t[k] = s
    /\ \A k, l \in DOMAIN t : k # l => t[k].agent # t[l].agent

LEMMA JoinedStep ==
    ASSUME NEW S, NEW n \in Nat, NEW q \in [1..n -> Seq(S)], NEW G, Own(q, n, S, G),
           \A i, j \in 1..n : i # j => G[i] # G[j],
           NEW m \in Nat, m + 1 <= n, NEW t, Joined(t, q, m, S)
    PROVE  Joined(t \o q[m + 1], q, m + 1, S)
<1>1. t \in Seq(S) /\ Len(t) \in Nat /\ DOMAIN t = 1..Len(t)
  BY DEF Joined
<1>2. CASE q[m + 1] = <<>>
  <2>1. t \o q[m + 1] = t
    BY <1>1, <1>2
  <2>2. \A j \in 1..(m + 1) : j # m + 1 => j \in 1..m
    OBVIOUS
  <2>3. \A s \in S : q[m + 1] # <<s>>
    BY <1>2
  <2>4. \A j \in 1..m : j \in 1..(m + 1)
    OBVIOUS
  <2>5. QED
    BY <2>1, <2>2, <2>3, <2>4 DEF Joined
<1>3. ASSUME NEW x \in S, q[m + 1] = <<x>>, x.agent = G[m + 1]
      PROVE  Joined(t \o q[m + 1], q, m + 1, S)
  <2> DEFINE u == t \o q[m + 1]
  <2>1. /\ u \in Seq(S) /\ DOMAIN u = 1..(Len(t) + 1) /\ u[Len(t) + 1] = x
        /\ \A k \in 1..Len(t) : u[k] = t[k]
    BY <1>1, <1>3
  <2> HIDE DEF u
  <2>2. \A k \in DOMAIN t : \E j \in 1..m : q[j] = <<t[k]>>
    BY DEF Joined
  <2>3. \A k \in DOMAIN u : \E j \in 1..(m + 1) : q[j] = <<u[k]>>
    <3> SUFFICES ASSUME NEW k \in DOMAIN u PROVE \E j \in 1..(m + 1) : q[j] = <<u[k]>>
      OBVIOUS
    <3>1. CASE k = Len(t) + 1
      <4>1. q[m + 1] = <<u[k]>> /\ m + 1 \in 1..(m + 1)
        BY <1>3, <2>1, <3>1
      <4> QED BY <4>1
    <3>2. CASE k \in 1..Len(t)
      <4>1. PICK j \in 1..m : q[j] = <<t[k]>>
        BY <1>1, <2>2, <3>2
      <4>2. q[j] = <<u[k]>> /\ j \in 1..(m + 1)
        BY <2>1, <3>2, <4>1
      <4> QED BY <4>2
    <3>3. QED
      BY <1>1, <2>1, <3>1, <3>2
  <2>4. ASSUME NEW j \in 1..(m + 1), NEW s \in S, q[j] = <<s>>
        PROVE  \E k \in DOMAIN u : u[k] = s
    <3>1. CASE j = m + 1
      <4>1. s = x
        BY <1>3, <2>4, <3>1
      <4>2. Len(t) + 1 \in DOMAIN u /\ u[Len(t) + 1] = s
        BY <1>1, <2>1, <4>1
      <4> QED BY ONLY <4>2
    <3>2. CASE j \in 1..m
      <4>1. PICK k \in DOMAIN t : t[k] = s
        BY <2>4, <3>2 DEF Joined
      <4>2. k \in 1..Len(t)
        BY <1>1
      <4>3. k \in DOMAIN u /\ u[k] = s
        BY <1>1, <2>1, <4>1, <4>2
      <4> QED BY ONLY <4>3
    <3>3. QED
      BY <3>1, <3>2
  <2>5. ASSUME NEW k \in 1..Len(t) PROVE t[k].agent # x.agent
    <3>1. PICK j \in 1..m : q[j] = <<t[k]>>
      BY <1>1, <2>2
    <3>2. PICK s \in S : q[j] = <<s>> /\ s.agent = G[j]
      <4>1. j \in 1..n /\ q[j] # <<>>
        BY <3>1
      <4> QED BY <4>1 DEF Own
    <3>3. t[k] = s
      BY <3>1, <3>2
    <3>4. QED
      BY <1>3, <3>2, <3>3
  <2>6. \A k, l \in DOMAIN u : k # l => u[k].agent # u[l].agent
    <3>1. \A k, l \in DOMAIN t : k # l => t[k].agent # t[l].agent
      BY DEF Joined
    <3>2. \A k \in 1..(Len(t) + 1) : k \in 1..Len(t) \/ k = Len(t) + 1
      BY <1>1
    <3>3. QED
      BY <1>1, <2>1, <2>5, <3>1, <3>2
  <2>7. Joined(u, q, m + 1, S)
    BY <2>1, <2>3, <2>4, <2>6 DEF Joined
  <2>8. QED
    BY <2>7 DEF u
<1>4. QED
  BY <1>2, <1>3 DEF Own

LEMMA Flattened ==
    ASSUME NEW S, NEW n \in Nat, n > 0, NEW q \in [1..n -> Seq(S)], NEW G, Own(q, n, S, G),
           \A i, j \in 1..n : i # j => G[i] # G[j]
    PROVE  Joined(FlattenSeq(q), q, n, S)
<1> DEFINE Body(g) == [i \in 1..n |-> IF i = 1 THEN q[i] ELSE g[i - 1] \o q[i]]
           f == CHOOSE g : g = Body(g)
           P == {m \in Nat : m + 1 <= n => Joined(f[m + 1], q, m + 1, S)}
<1>1. f = Body(f)
  <2>1. \E g : g = Body(g)
    BY ONLY n \in Nat, q \in [1..n -> Seq(S)], JoinExists
  <2> HIDE DEF Body
  <2> QED BY <2>1, Zenon
<1>2. \A i \in 1..n : f[i] = IF i = 1 THEN q[i] ELSE f[i - 1] \o q[i]
  <2> HIDE DEF f
  <2> QED BY <1>1
<1> HIDE DEF f
<1>3. Joined(<<>>, q, 0, S)
  BY DEF Joined
<1>4. 0 \in P
  <2>0. 0 \in Nat /\ 0 + 1 <= n /\ 0 + 1 = 1
    OBVIOUS
  <2>1. Joined(<<>> \o q[0 + 1], q, 0 + 1, S)
    <3> HIDE DEF P
    <3> QED BY <1>3, <2>0, JoinedStep
  <2>2. <<>> \o q[1] = q[1] /\ f[1] = q[1]
    BY <1>2
  <2>3. QED
    BY <2>0, <2>1, <2>2
<1>5. ASSUME NEW m \in Nat, m \in P PROVE m + 1 \in P
  <2> SUFFICES ASSUME m + 2 <= n PROVE Joined(f[m + 2], q, m + 2, S)
    OBVIOUS
  <2>1. f[m + 2] = f[m + 1] \o q[m + 2]
    <3>1. m + 2 \in 1..n /\ (m + 2) - 1 = m + 1 /\ m + 2 # 1
      OBVIOUS
    <3> QED BY <1>2, <3>1
  <2>2. Joined(f[m + 1], q, m + 1, S)
    BY <1>5
  <2>3. m + 1 \in Nat /\ (m + 1) + 1 = m + 2
    OBVIOUS
  <2>4. Joined(f[m + 1] \o q[(m + 1) + 1], q, (m + 1) + 1, S)
    BY <2>2, <2>3, JoinedStep
  <2>5. QED
    BY <2>1, <2>3, <2>4
<1>6. n - 1 \in P
  <2>1. n - 1 \in Nat
    OBVIOUS
  <2> HIDE DEF P
  <2>2. Nat \subseteq P
    BY <1>4, <1>5, NatSteps
  <2> QED BY <2>1, <2>2
<1>7. Joined(f[n], q, n, S)
  <2>1. (n - 1) + 1 = n
    OBVIOUS
  <2> QED BY <1>6, <2>1
<1>8. Len(q) = n
  OBVIOUS
<1>9. FlattenSeq(q) = f[n]
  BY <1>8 DEF FlattenSeq, f
<1>10. QED
  BY <1>7, <1>9

-----------------------------------------------------------------------------
(* Sums of sequences. *)

LEMMA SumOfIsSum ==
    ASSUME NEW n \in Nat, NEW s \in [1..n -> Int]
    PROVE  \E g : IsSum(g, s, 1..n) /\ SumOf(s) = g[1..n]
<1> DEFINE D == DOMAIN s
           Body(g) == [r \in SUBSET D |-> IF r = {} THEN 0 ELSE g[r \ {Max(r)}] + s[Max(r)]]
           G == CHOOSE g : g = Body(g)
<1>1. D = 1..n
  OBVIOUS
<1>2. \A g : FoldsLeft(g, s, n) <=> g = Body(g)
  <2> HIDE DEF D
  <2> QED BY <1>1, Zenon DEF FoldsLeft
<1>3. \E g : g = Body(g)
  <2> HIDE DEF Body
  <2> QED BY <1>2, FoldExists
<1>4. G = Body(G)
  <2> HIDE DEF Body
  <2> QED BY <1>3, Zenon
<1>5. SumOf(s) = G[D]
  BY DEF SumOf, FoldLeft, MapThenFoldSet
<1>6. IsSum(G, s, 1..n)
  <2> HIDE DEF G, Body
  <2> QED BY <1>2, <1>4, FoldIsSum
<1>7. QED
  BY <1>1, <1>5, <1>6, Zenon

LEMMA SumOfAppend ==
    ASSUME NEW n \in Nat, NEW s \in [1..n -> Int], NEW t \in [1..(n + 1) -> Int],
           \A i \in 1..n : t[i] = s[i]
    PROVE  SumOf(t) = SumOf(s) + t[n + 1] /\ SumOf(s) \in Int
<1>1. PICK g : IsSum(g, s, 1..n) /\ SumOf(s) = g[1..n]
  BY SumOfIsSum
<1>2. PICK h : IsSum(h, t, 1..(n + 1)) /\ SumOf(t) = h[1..(n + 1)]
  BY SumOfIsSum
<1>3. h[1..(n + 1)] = g[1..n] + t[n + 1] /\ g[1..n] \in Int
  BY <1>1, <1>2, SumAppend
<1>4. QED
  BY <1>1, <1>2, <1>3

LEMMA SumOfEmpty == SumOf(<<>>) = 0
<1>1. <<>> \in [1..0 -> Int] /\ 1..0 = {}
  OBVIOUS
<1>2. PICK g : IsSum(g, <<>>, 1..0) /\ SumOf(<<>>) = g[1..0]
  BY <1>1, SumOfIsSum
<1>3. QED
  BY <1>1, <1>2 DEF IsSum

(* A sum above 0 has a member above 0. *)
LEMMA SumOfPositive ==
    ASSUME NEW n \in Nat, NEW s \in [1..n -> Int], SumOf(s) > 0
    PROVE  \E i \in 1..n : s[i] > 0
<1>1. PICK g : IsSum(g, s, 1..n) /\ SumOf(s) = g[1..n]
  BY SumOfIsSum
<1> DEFINE D == 1..n
           P == {r \in SUBSET D : g[r] \in Int /\ ((\A i \in D : s[i] <= 0) => g[r] <= 0)}
<1>2. IsFiniteSet(D)
  BY FS_Interval
<1>3. ASSUME NEW r \in SUBSET D, \A x \in r : r \ {x} \in P PROVE r \in P
  <2>1. CASE r = {}
    <3>1. g[r] = 0
      BY <1>1, <2>1 DEF IsSum
    <3> QED BY <3>1
  <2>2. CASE r # {}
    <3>1. PICK x \in r : g[r] \in {s[x] + g[r \ {x}], g[r \ {x}] + s[x]}
      BY <1>1, <2>2 DEF IsSum
    <3>2. r \ {x} \in P
      BY <1>3
    <3>3. s[x] \in Int
      OBVIOUS
    <3> QED BY <3>1, <3>2, <3>3
  <2>3. QED
    BY <2>1, <2>2
<1>4. D \in P
  <2> HIDE DEF P, D
  <2> QED BY <1>2, <1>3, SubsetSteps
<1>5. QED
  BY <1>1, <1>4

-----------------------------------------------------------------------------
(* Research: what was said and what is weighed. *)

Ten == ToSet(Gathered)
Early == {"start", "detect_regime", "macro_regime_overlay", "validate_data",
          "run_parallel_signals"}
Later == {"orthogonalize_signals", "vera", "rex", "polymarket_scout"}

(* Who speaks in the graph alone. *)
Quiet(a) == a \in {"momentum", "copy_trade_scout"}

(* On the stream, and not or not yet told to the graph. *)
Untold == {i \in DOMAIN stream : \A a \in Ten : answers[a] # <<stream[i]>>}
Unsaid == {i \in DOMAIN stream : \A k \in DOMAIN signals : signals[k] # stream[i]}

(* While they gather: each has told the graph nothing, or one signal of its own that
   is on the stream unless it is of those who speak in the graph alone. *)
Telling(a) ==
    \/ answers[a] = <<>>
    \/ /\ a \notin waiting
       /\ \E s \in {answers[a][1]} :
              /\ answers[a] = <<s>> /\ s = Said(a, s)
              /\ Quiet(a) \/ \E i \in DOMAIN stream : stream[i] = s

Gathering ==
    /\ signals = <<>> /\ waiting \subseteq Ten
    /\ answers = [a \in Ten |-> answers[a]]
    /\ \A a \in Ten : Telling(a)
    /\ Cardinality(Untold) <= mishaps

(* After it: what the graph was told, whose, and how much it was not. *)
Voiced == CASE node = "rex" -> Ten \cup {"vera"}
            [] node = "polymarket_scout" -> Ten \cup {"vera", "rex"}
            [] OTHER -> Ten

Told ==
    /\ \A k \in DOMAIN signals : /\ signals[k].agent \in Voiced
                                 /\ signals[k] = Said(signals[k].agent, signals[k])
                                 /\ \/ Quiet(signals[k].agent)
                                    \/ \E i \in DOMAIN stream : stream[i] = signals[k]
    /\ \A k, l \in DOMAIN signals : k # l => signals[k].agent # signals[l].agent
    /\ Cardinality(Unsaid) <= mishaps

SaidInv ==
    /\ IsSeq(stream) /\ IsSeq(signals) /\ mishaps \in Nat
    /\ node \in Early => stream = <<>> /\ signals = <<>>
    /\ node = "gathering" => Gathering
    /\ node \in Later => Told
    /\ WeighedOnce

LEMMA TenAgents ==
    /\ DOMAIN Gathered = 1..10
    /\ \A i, j \in 1..10 : i # j => Gathered[i] # Gathered[j]
    /\ \A a \in Ten : \E i \in 1..10 : Gathered[i] = a
    /\ \A i \in 1..10 : Gathered[i] \in Ten
    /\ "vera" \notin Ten /\ "rex" \notin Ten
<1>2. DOMAIN Gathered = 1..10
  BY DEF Gathered
<1>3. \A i, j \in 1..10 : i # j => Gathered[i] # Gathered[j]
  BY DEF Gathered
<1>4. \A i \in 1..10 : Gathered[i] # "vera" /\ Gathered[i] # "rex"
  BY DEF Gathered
<1>5. Ten = {Gathered[i] : i \in 1..10}
  BY <1>2 DEF Ten, ToSet
<1>6. QED
  BY <1>2, <1>3, <1>4, <1>5

(* A set of places on the stream is finite, and a part of it is no larger. *)
LEMMA PlacesFinite ==
    ASSUME NEW n \in Nat, NEW B, B \subseteq 1..n
    PROVE  IsFiniteSet(B) /\ Cardinality(B) \in Nat
<1>1. IsFiniteSet(1..n)
  BY FS_Interval
<1> QED BY <1>1, FS_Subset, FS_CardinalityType

LEMMA PlacesCount ==
    ASSUME NEW n \in Nat, NEW A, NEW B, B \subseteq 1..n
    PROVE  /\ A \subseteq B => Cardinality(A) <= Cardinality(B)
           /\ \A x : A \subseteq B \cup {x} => Cardinality(A) <= Cardinality(B) + 1
<1>1. IsFiniteSet(B)
  BY PlacesFinite
<1>2. Cardinality(B) \in Nat
  BY PlacesFinite
<1>3. A \subseteq B => Cardinality(A) <= Cardinality(B)
  BY <1>1, FS_Subset
<1>4. ASSUME NEW x, A \subseteq B \cup {x} PROVE Cardinality(A) <= Cardinality(B) + 1
  <2>1. IsFiniteSet(B \cup {x}) /\ Cardinality(B \cup {x}) \in {Cardinality(B), Cardinality(B) + 1}
    BY <1>1, FS_AddElement
  <2>2. Cardinality(A) <= Cardinality(B \cup {x}) /\ Cardinality(A) \in Nat
    BY <1>4, <2>1, FS_Subset, FS_CardinalityType
  <2>3. QED
    BY <1>2, <2>1, <2>2
<1>5. QED
  BY <1>1, <1>2, <1>3, <1>4

LEMMA SaidInit == ASSUME ResearchInit PROVE SaidInv
<1>1. /\ node = "start" /\ stream = <<>> /\ signals = <<>> /\ mishaps = 0
  BY DEF ResearchInit
<1>2. IsSeq(<<>>)
  BY DEF IsSeq
<1>3. WeighedOnce
  BY <1>1 DEF WeighedOnce
<1>4. QED
  BY <1>1, <1>2, <1>3 DEF SaidInv, Later

(* Steps that leave what was said as it was. *)
LEMMA SaidStutter ==
    ASSUME SaidInv, UNCHANGED researchVars PROVE SaidInv'
<1>1. /\ UNCHANGED <<node, signals, waiting, answers, stream, boost, mishaps>>
  BY DEF researchVars
<1>2. (\A a : Telling(a)' <=> Telling(a)) /\ Untold' = Untold /\ Unsaid' = Unsaid
      /\ Voiced' = Voiced
  BY <1>1 DEF Telling, Untold, Unsaid, Voiced
<1>3. WeighedOnce'
  BY <1>1 DEF SaidInv, WeighedOnce
<1>4. QED
  BY <1>1, <1>2, <1>3 DEF SaidInv, Gathering, Told

(* A cycle begins, or goes on before anybody was asked. *)
LEMMA SaidEarly ==
    ASSUME SaidInv, node' \in Early, mishaps' = mishaps,
           stream' = <<>> /\ signals' = <<>>
    PROVE  SaidInv'
<1>1. node' \notin Later /\ node' # "gathering" /\ node' \notin {"nova", "done"}
  BY DEF Early, Later
<1>2. IsSeq(<<>>)
  BY DEF IsSeq
<1>3. WeighedOnce'
  BY <1>1 DEF WeighedOnce
<1>4. QED
  BY <1>1, <1>2, <1>3 DEF SaidInv

LEMMA SaidBegin == ASSUME SaidInv, NEW m \in Markets, Begin(m) PROVE SaidInv'
  BY SaidEarly DEF Begin, Early

LEMMA SaidPrepare ==
    ASSUME SaidInv,
           DetectRegime \/ (\E s \in MacroScores : MacroOverlay(s)) \/ ValidateData
    PROVE  SaidInv'
<1>1. /\ node \in Early /\ node' \in Early
      /\ UNCHANGED <<signals, stream, mishaps>>
  BY DEF DetectRegime, MacroOverlay, ValidateData, Early
<1>2. stream = <<>> /\ signals = <<>>
  BY <1>1 DEF SaidInv
<1>3. QED
  BY <1>1, <1>2, SaidEarly

LEMMA SaidGather ==
    ASSUME SaidInv, NEW heard \in SUBSET Ten, Gather(heard) PROVE SaidInv'
<1>1. /\ node = "run_parallel_signals" /\ node' = "gathering"
      /\ waiting' = heard
      /\ answers' = [a \in Ten |-> IF a \in heard THEN <<>> ELSE signals]
      /\ UNCHANGED <<signals, stream, mishaps>>
  BY DEF Gather, Ten
<1>2. /\ stream = <<>> /\ signals = <<>> /\ IsSeq(stream) /\ IsSeq(signals) /\ mishaps \in Nat
      /\ answers' = [a \in Ten |-> <<>>]
  BY <1>1 DEF SaidInv, Early
<1>3. Untold' = {}
  BY <1>1, <1>2 DEF Untold
<1>4. Cardinality(Untold') = 0
  BY <1>3, FS_EmptySet
<1>5. Gathering'
  BY <1>1, <1>2, <1>4 DEF Gathering, Telling
<1>6. WeighedOnce'
  BY <1>1 DEF WeighedOnce
<1>7. QED
  BY <1>1, <1>2, <1>5, <1>6 DEF SaidInv, Early, Later

(* While they gather, one of them is done: the stream is as it was or has grown, and
   what was told was said. *)
LEMMA SaidWhile ==
    ASSUME SaidInv, node = "gathering", node' = node, signals' = signals,
           NEW a \in waiting, waiting' = waiting \ {a},
           NEW x, stream' \in {stream, Append(stream, x)},
           answers' \in {answers, [answers EXCEPT ![a] = <<x>>]},
           answers' # answers => x = Said(a, x) /\ (Quiet(a) \/ stream' # stream),
           mishaps' \in {mishaps, mishaps + 1},
           stream' # stream => answers' # answers \/ mishaps' = mishaps + 1
    PROVE  SaidInv'
<1>1. /\ IsSeq(stream) /\ IsSeq(signals) /\ mishaps \in Nat /\ Gathering
  BY DEF SaidInv
<1>2. /\ signals = <<>> /\ waiting \subseteq Ten /\ answers = [b \in Ten |-> answers[b]]
      /\ \A b \in Ten : Telling(b)
      /\ Cardinality(Untold) <= mishaps
  BY <1>1 DEF Gathering
<1>3. a \in Ten /\ answers[a] = <<>>
  BY <1>2 DEF Telling
<1>4. /\ Len(stream) \in Nat /\ DOMAIN stream = 1..Len(stream)
      /\ stream' # stream => /\ DOMAIN stream' = 1..(Len(stream) + 1)
                             /\ stream'[Len(stream) + 1] = x
      /\ DOMAIN stream \subseteq DOMAIN stream'
      /\ \A i \in DOMAIN stream : stream'[i] = stream[i]
      /\ IsSeq(stream')
  <2>1. CASE stream' = stream
    BY <1>1, <2>1, SeqDomain
  <2>2. CASE stream' = Append(stream, x)
    <3> DEFINE t == Append(stream, x)
    <3>1. /\ Len(stream) \in Nat /\ DOMAIN stream = 1..Len(stream)
          /\ DOMAIN t = 1..(Len(stream) + 1) /\ t[Len(stream) + 1] = x
          /\ \A i \in DOMAIN stream : t[i] = stream[i]
          /\ IsSeq(t)
      BY <1>1, GrownSeq
    <3> HIDE DEF t
    <3>2. DOMAIN stream \subseteq DOMAIN t
      BY <3>1
    <3>3. stream' = t
      BY <2>2 DEF t
    <3> QED BY <3>1, <3>2, <3>3
  <2>3. QED
    BY <2>1, <2>2
<1>5. /\ answers' = [b \in Ten |-> answers'[b]]
      /\ \A b \in Ten : b # a => answers'[b] = answers[b]
      /\ answers'[a] = IF answers' = answers THEN <<>> ELSE <<x>>
  BY <1>2, <1>3
<1>6. ASSUME NEW b \in Ten PROVE Telling(b)'
  <2>1. CASE answers'[b] = <<>>
    BY <2>1 DEF Telling
  <2>2. CASE b = a /\ answers' # answers
    <3>1. answers'[a] = <<x>> /\ answers'[a][1] = x /\ x = Said(a, x)
      BY <1>5, <2>2
    <3>2. Quiet(a) \/ \E i \in DOMAIN stream' : stream'[i] = x
      <4>1. CASE stream' # stream
        <5>1. Len(stream) + 1 \in DOMAIN stream' /\ stream'[Len(stream) + 1] = x
          BY <1>4, <4>1
        <5> QED BY ONLY <5>1
      <4>2. QED
        BY <2>2, <4>1
    <3>3. QED
      BY <2>2, <3>1, <3>2 DEF Telling
  <2>3. CASE b # a /\ answers[b] # <<>>
    <3>1. PICK s \in {answers[b][1]} : /\ answers[b] = <<s>> /\ s = Said(b, s)
                                       /\ Quiet(b) \/ \E i \in DOMAIN stream : stream[i] = s
      BY <1>2, <2>3 DEF Telling
    <3>2. Quiet(b) \/ \E i \in DOMAIN stream' : stream'[i] = s
      BY <1>4, <3>1
    <3>3. b \notin waiting /\ answers'[b] = answers[b]
      BY <1>2, <1>5, <2>3 DEF Telling
    <3>4. QED
      BY <3>1, <3>2, <3>3 DEF Telling
  <2>4. QED
    BY <1>5, <2>1, <2>2, <2>3
<1>7. Cardinality(Untold') <= mishaps'
  <2>1. Untold \subseteq 1..Len(stream)
    BY <1>4 DEF Untold
  <2>2. ASSUME NEW i \in Untold', i \in DOMAIN stream PROVE i \in Untold
    <3>1. \A b \in Ten : answers'[b] # <<stream[i]>>
      BY <1>4, <2>2 DEF Untold
    <3>2. \A b \in Ten : answers[b] # <<stream[i]>>
      BY <1>3, <1>5, <3>1
    <3>3. QED
      BY <2>2, <3>2 DEF Untold
  <2>3. ASSUME NEW i \in Untold', i \notin DOMAIN stream
        PROVE  i = Len(stream) + 1 /\ stream' # stream /\ answers' = answers
    <3>1. i \in DOMAIN stream' /\ stream' # stream
      BY <2>3 DEF Untold
    <3>2. i = Len(stream) + 1 /\ stream'[i] = x
      BY <1>4, <2>3, <3>1
    <3>3. answers'[a] # <<x>>
      BY <1>3, <2>3, <3>2 DEF Untold
    <3>4. QED
      BY <1>5, <3>1, <3>2, <3>3
  <2>3a. Cardinality(Untold') \in Nat
    <3>1. PICK U : U = Untold'
      OBVIOUS
    <3>2. U \subseteq 1..(Len(stream) + 1) /\ Len(stream) + 1 \in Nat
      BY <1>4, <3>1 DEF Untold
    <3>3. Cardinality(U) \in Nat
      BY <3>2, PlacesFinite
    <3>4. QED
      BY <3>1, <3>3
  <2>4. CASE Untold' \subseteq Untold
    <3>1. Cardinality(Untold') <= Cardinality(Untold) /\ Cardinality(Untold) \in Nat
      BY <1>4, <2>1, <2>4, PlacesCount, PlacesFinite
    <3>2. QED
      BY <1>1, <1>2, <2>3a, <3>1
  <2>5. CASE ~(Untold' \subseteq Untold)
    <3>1. stream' # stream /\ answers' = answers
      BY <2>2, <2>3, <2>5
    <3>2. Untold' \subseteq Untold \cup {Len(stream) + 1}
      BY <2>2, <2>3
    <3>3. Cardinality(Untold') <= Cardinality(Untold) + 1 /\ Cardinality(Untold) \in Nat
      BY <1>4, <2>1, <3>2, PlacesCount, PlacesFinite
    <3>4. QED
      BY <1>1, <1>2, <2>3a, <3>1, <3>3
  <2>6. QED
    BY <2>4, <2>5
<1>8. Gathering'
  BY <1>2, <1>5, <1>6, <1>7 DEF Gathering
<1>9. WeighedOnce'
  BY DEF WeighedOnce
<1>10. QED
  BY <1>1, <1>4, <1>8, <1>9 DEF SaidInv, Early, Later

LEMMA SaidSpeak ==
    ASSUME SaidInv, NEW a \in waiting, NEW r, Speak(a, r) PROVE SaidInv'
<1>1. PICK said \in {Voice(a, market, r)} :
        /\ answers' = [answers EXCEPT ![a] = IF said = Silent THEN signals
                                             ELSE Append(signals, Said(a, said[1]))]
        /\ stream' = IF said # Silent /\ Emits(a, said[1])
                     THEN Append(stream, Said(a, said[1])) ELSE stream
  BY DEF Speak
<1>2. /\ node = "gathering" /\ UNCHANGED <<node, signals, mishaps>> /\ waiting' = waiting \ {a}
  BY DEF Speak
<1>3. /\ IsSeq(stream) /\ answers = [b \in Ten |-> answers[b]] /\ a \in Ten
      /\ answers[a] = <<>> /\ signals = <<>>
  BY <1>2 DEF SaidInv, Gathering, Telling
<1> DEFINE x == Said(a, said[1])
<1>4. x = Said(a, x)
  BY DEF Said
<1>5. Emits(a, said[1]) \/ Quiet(a)
  BY DEF Emits, Quiet
<1> HIDE DEF x
<1>6. Append(stream, x) # stream /\ [answers EXCEPT ![a] = <<x>>] # answers
  <2>1. Append(stream, x) # stream
    <3>1. Len(Append(stream, x)) = Len(stream) + 1 /\ Len(stream) \in Nat
      BY <1>3, GrownSeq
    <3> QED BY <3>1
  <2>2. [answers EXCEPT ![a] = <<x>>][a] = <<x>>
    BY <1>3
  <2>3. QED
    BY <1>3, <2>1, <2>2
<1>7. CASE said = Silent
  <2>1. answers' = answers /\ stream' = stream
    BY <1>1, <1>3, <1>7
  <2>2. /\ stream' \in {stream, Append(stream, x)}
        /\ answers' \in {answers, [answers EXCEPT ![a] = <<x>>]}
        /\ mishaps' \in {mishaps, mishaps + 1}
    BY <1>2, <2>1
  <2>3. QED
    BY <1>2, <2>1, <2>2, SaidWhile
<1>8. CASE said # Silent
  <2>1. /\ answers' = [answers EXCEPT ![a] = <<x>>]
        /\ stream' = IF Emits(a, said[1]) THEN Append(stream, x) ELSE stream
    <3>1. Append(<<>>, x) = <<x>>
      OBVIOUS
    <3> QED BY <1>1, <1>3, <1>8, <3>1 DEF x
  <2>2. /\ stream' \in {stream, Append(stream, x)}
        /\ answers' \in {answers, [answers EXCEPT ![a] = <<x>>]}
        /\ mishaps' \in {mishaps, mishaps + 1}
    BY <1>2, <2>1
  <2>3. answers' # answers /\ (Quiet(a) \/ stream' # stream)
    BY <1>5, <1>6, <2>1
  <2>4. QED
    BY <1>2, <1>4, <2>2, <2>3, SaidWhile
<1>9. QED
  BY <1>7, <1>8

LEMMA SaidSpeakFails ==
    ASSUME SaidInv, NEW a \in waiting, NEW r, NEW sent \in BOOLEAN, SpeakFails(a, r, sent)
    PROVE  SaidInv'
<1>1. PICK said \in {Voice(a, market, r)} :
        stream' = IF sent THEN Append(stream, Said(a, said[1])) ELSE stream
  BY DEF SpeakFails
<1>2. /\ node = "gathering" /\ UNCHANGED <<node, signals, answers>>
      /\ waiting' = waiting \ {a} /\ mishaps' = mishaps + 1
  BY DEF SpeakFails
<1> DEFINE x == Said(a, said[1])
<1>3. stream' \in {stream, Append(stream, x)}
  BY <1>1
<1> HIDE DEF x
<1>4. QED
  BY <1>2, <1>3, SaidWhile

LEMMA SaidMerge == ASSUME SaidInv, Merge PROVE SaidInv'
<1>1. /\ node = "gathering" /\ node' = "orthogonalize_signals" /\ waiting = {}
      /\ UNCHANGED <<stream, answers, mishaps>>
      /\ signals' = signals \o FlattenSeq([i \in DOMAIN Gathered |-> answers[Gathered[i]]])
  BY DEF Merge
<1>2. IsSeq(stream) /\ mishaps \in Nat /\ Gathering
  BY <1>1 DEF SaidInv
<1> DEFINE q == [i \in 1..10 |-> answers[Gathered[i]]]
           S == {answers[a][1] : a \in Ten}
           G == Gathered
<1>3. signals' = <<>> \o FlattenSeq(q)
  BY <1>1, <1>2, TenAgents DEF Gathering
<1>4. \A a \in Ten : \/ answers[a] = <<>>
                     \/ \E s \in S : answers[a] = <<s>> /\ s.agent = a
  <2> SUFFICES ASSUME NEW a \in Ten, answers[a] # <<>>
               PROVE  \E s \in S : answers[a] = <<s>> /\ s.agent = a
    OBVIOUS
  <2>1. PICK s \in {answers[a][1]} : answers[a] = <<s>> /\ s = Said(a, s)
    BY <1>2 DEF Gathering, Telling
  <2>2. s \in S /\ answers[a] = <<s>> /\ s.agent = a
    BY <2>1 DEF Said
  <2> QED BY ONLY <2>2
<1>5. \A j \in 1..10 : q[j] = answers[G[j]] /\ G[j] \in Ten
  BY TenAgents
<1>6. Own(q, 10, S, G)
  <2> HIDE DEF q, S, G
  <2> QED BY <1>4, <1>5 DEF Own
<1>7. q \in [1..10 -> Seq(S)]
  <2>1. \A j \in 1..10 : q[j] \in Seq(S)
    <3> SUFFICES ASSUME NEW j \in 1..10 PROVE q[j] \in Seq(S)
      OBVIOUS
    <3> HIDE DEF q, S, G
    <3>1. CASE q[j] = <<>>
      BY <3>1
    <3>2. ASSUME NEW z \in S, q[j] = <<z>> PROVE q[j] \in Seq(S)
      BY <3>2
    <3>3. QED
      BY <1>4, <1>5, <3>1, <3>2
  <2>2. q = [j \in 1..10 |-> q[j]]
    OBVIOUS
  <2> HIDE DEF q, S
  <2> QED BY <2>1, <2>2
<1>8. \A i, j \in 1..10 : i # j => G[i] # G[j]
  BY TenAgents
<1> HIDE DEF q
<1>9. PICK t : t = FlattenSeq(q)
  OBVIOUS
<1>10. Joined(t, q, 10, S)
  <2> HIDE DEF S, G
  <2>1. 10 \in Nat /\ 10 > 0
    OBVIOUS
  <2> QED BY <1>6, <1>7, <1>8, <1>9, <2>1, Flattened
<1>11. signals' = t /\ IsSeq(signals')
  <2> HIDE DEF S
  <2>1. t \in Seq(S)
    BY <1>10 DEF Joined
  <2>2. signals' = t
    BY <1>3, <1>9, <2>1
  <2> QED BY <2>1, <2>2, SeqOfMembers
<1> HIDE DEF S
<1>12. ASSUME NEW k \in DOMAIN signals'
       PROVE  /\ signals'[k].agent \in Ten
              /\ signals'[k] = Said(signals'[k].agent, signals'[k])
              /\ Quiet(signals'[k].agent) \/ \E i \in DOMAIN stream' : stream'[i] = signals'[k]
  <2>1. PICK j \in 1..10 : q[j] = <<t[k]>>
    BY <1>10, <1>11 DEF Joined
  <2>2. PICK a \in Ten : answers[a] = <<t[k]>>
    BY <1>5, <2>1
  <2>3. answers[a] # <<>> /\ answers[a][1] = t[k]
    BY <2>2
  <2>4. t[k] = Said(a, t[k]) /\ (Quiet(a) \/ \E i \in DOMAIN stream : stream[i] = t[k])
    BY <1>2, <2>3 DEF Gathering, Telling
  <2>4a. t[k].agent = a
    BY <2>4 DEF Said
  <2>5. QED
    BY <1>1, <1>11, <2>4, <2>4a
<1>13. Unsaid' \subseteq Untold
  <2> SUFFICES ASSUME NEW i \in Unsaid', i \notin Untold PROVE FALSE
    OBVIOUS
  <2>1. i \in DOMAIN stream /\ \A k \in DOMAIN t : t[k] # stream[i]
    BY <1>1, <1>11 DEF Unsaid
  <2>2. PICK a \in Ten : answers[a] = <<stream[i]>>
    BY <2>1 DEF Untold
  <2>3. PICK j \in 1..10 : q[j] = <<stream[i]>>
    <3>1. PICK j \in 1..10 : Gathered[j] = a
      BY TenAgents
    <3> QED BY <1>5, <2>2, <3>1
  <2>4. stream[i] \in S
    <3>1. q[j] # <<>>
      BY <2>3
    <3>2. PICK s \in S : q[j] = <<s>>
      BY <1>6, <3>1 DEF Own
    <3> QED BY <2>3, <3>2
  <2>5. \E k \in DOMAIN t : t[k] = stream[i]
    BY <1>10, <2>3, <2>4 DEF Joined
  <2>6. QED
    BY <2>1, <2>5
<1>14. Cardinality(Unsaid') <= mishaps'
  <2>1. PICK U : U = Unsaid'
    OBVIOUS
  <2>2. Untold \subseteq 1..Len(stream) /\ Len(stream) \in Nat
    BY <1>2, SeqDomain DEF Untold
  <2>3. U \subseteq Untold /\ U \subseteq 1..Len(stream)
    BY <1>13, <2>1, <2>2
  <2>4. Cardinality(U) <= Cardinality(Untold) /\ Cardinality(Untold) \in Nat
    BY <2>2, <2>3, PlacesCount, PlacesFinite
  <2>5. Cardinality(U) \in Nat
    BY <2>2, <2>3, PlacesFinite
  <2>6. Cardinality(Untold) <= mishaps /\ mishaps \in Nat
    BY <1>2 DEF Gathering
  <2>7. QED
    BY <1>1, <2>1, <2>4, <2>5, <2>6
<1>15. \A k, l \in DOMAIN signals' : k # l => signals'[k].agent # signals'[l].agent
  BY <1>10, <1>11 DEF Joined
<1>16. Told'
  <2>1. Voiced' = Ten
    BY <1>1 DEF Voiced
  <2>2. QED
    BY <1>12, <1>14, <1>15, <2>1 DEF Told
<1>17. WeighedOnce'
  BY <1>1 DEF WeighedOnce
<1>18. QED
  BY <1>1, <1>2, <1>11, <1>16, <1>17 DEF SaidInv, Early, Later

LEMMA SaidOrthogonalize == ASSUME SaidInv, Orthogonalize PROVE SaidInv'
<1>1. /\ node = "orthogonalize_signals" /\ node' = "vera"
      /\ UNCHANGED <<stream, signals, mishaps>>
  BY DEF Orthogonalize
<1>2. Told /\ IsSeq(stream) /\ IsSeq(signals) /\ mishaps \in Nat
  BY <1>1 DEF SaidInv, Later
<1>3. Voiced' = Voiced /\ Unsaid' = Unsaid
  BY <1>1 DEF Voiced, Unsaid
<1>4. Told'
  BY <1>1, <1>2, <1>3 DEF Told
<1>5. WeighedOnce'
  BY <1>1 DEF WeighedOnce
<1>6. QED
  BY <1>1, <1>2, <1>4, <1>5 DEF SaidInv, Early

(* Vera and Rex: a signal of theirs is the graph's and the stream's, or the mishap's. *)
LEMMA SaidTurn ==
    ASSUME SaidInv, NEW a \in {"vera", "rex"}, node = a, node' = Following[a], NEW x,
           x = Said(a, x),
           stream' = stream \/ Grown(stream, x, stream'),
           signals' = signals \/ Grown(signals, x, signals'),
           mishaps' \in {mishaps, mishaps + 1},
           signals' # signals => stream' # stream,
           stream' # stream => signals' # signals \/ mishaps' = mishaps + 1
    PROVE  SaidInv'
<1>0. x.agent = a
  BY DEF Said
<1>1. IsSeq(stream) /\ IsSeq(signals) /\ mishaps \in Nat /\ Told
  BY DEF SaidInv, Later
<1>2. /\ Len(stream) \in Nat /\ DOMAIN stream = 1..Len(stream)
      /\ stream' # stream => /\ DOMAIN stream' = 1..(Len(stream) + 1)
                             /\ stream'[Len(stream) + 1] = x
      /\ DOMAIN stream \subseteq DOMAIN stream'
      /\ \A i \in DOMAIN stream : stream'[i] = stream[i]
      /\ IsSeq(stream')
  BY <1>1, SeqDomain DEF Grown
<1>3. /\ Len(signals) \in Nat /\ DOMAIN signals = 1..Len(signals)
      /\ signals' # signals => /\ DOMAIN signals' = 1..(Len(signals) + 1)
                               /\ signals'[Len(signals) + 1] = x
      /\ DOMAIN signals \subseteq DOMAIN signals'
      /\ \A i \in DOMAIN signals : signals'[i] = signals[i]
      /\ IsSeq(signals')
  BY <1>1, SeqDomain DEF Grown
<1>4. \A k \in DOMAIN signals' : k \notin DOMAIN signals =>
          k = Len(signals) + 1 /\ signals' # signals /\ signals'[k] = x
  BY <1>3
<1>5. Voiced \subseteq Voiced' /\ a \in Voiced' /\ a \notin Voiced
  BY TenAgents DEF Voiced, Following
<1>6. ASSUME NEW k \in DOMAIN signals'
      PROVE  /\ signals'[k].agent \in Voiced'
             /\ signals'[k] = Said(signals'[k].agent, signals'[k])
             /\ Quiet(signals'[k].agent) \/ \E i \in DOMAIN stream' : stream'[i] = signals'[k]
  <2>1. CASE k \in DOMAIN signals
    <3>1. /\ signals[k].agent \in Voiced
          /\ signals[k] = Said(signals[k].agent, signals[k])
          /\ Quiet(signals[k].agent) \/ \E i \in DOMAIN stream : stream[i] = signals[k]
      BY <1>1, <2>1 DEF Told
    <3>2. (\E i \in DOMAIN stream : stream[i] = signals[k])
             => \E i \in DOMAIN stream' : stream'[i] = signals[k]
      BY <1>2
    <3>3. signals'[k] = signals[k]
      BY <1>3, <2>1
    <3> HIDE DEF Quiet
    <3>4. QED
      BY <1>5, <3>1, <3>2, <3>3
  <2>2. CASE k \notin DOMAIN signals
    <3>1. signals'[k] = x /\ stream' # stream
      BY <1>4, <2>2
    <3>2. Len(stream) + 1 \in DOMAIN stream' /\ stream'[Len(stream) + 1] = signals'[k]
      BY <1>2, <3>1
    <3>3. \E i \in DOMAIN stream' : stream'[i] = signals'[k]
      BY ONLY <3>2
    <3>4. QED
      BY <1>0, <1>5, <3>1, <3>3
  <2>3. QED
    BY <2>1, <2>2
<1>7. \A k, l \in DOMAIN signals' : k # l => signals'[k].agent # signals'[l].agent
  <2>1. ASSUME NEW k \in DOMAIN signals PROVE signals[k].agent # a
    BY <1>1, <1>5, <2>1 DEF Told
  <2>2. \A k, l \in DOMAIN signals : k # l => signals[k].agent # signals[l].agent
    BY <1>1 DEF Told
  <2>3. \A k \in DOMAIN signals' : \/ k \in DOMAIN signals /\ signals'[k] = signals[k]
                                   \/ k = Len(signals) + 1 /\ signals'[k] = x
    BY <1>3, <1>4
  <2>4. QED
    BY <1>0, <2>1, <2>2, <2>3
<1>8. Cardinality(Unsaid') <= mishaps'
  <2>1. PICK U, V, n : U = Unsaid' /\ V = Unsaid /\ n = Len(stream)
    OBVIOUS
  <2>2. n \in Nat /\ V \subseteq 1..n /\ U \subseteq 1..(n + 1) /\ n + 1 \in Nat
    BY <1>2, <2>1 DEF Unsaid
  <2>3. Cardinality(U) \in Nat /\ Cardinality(V) \in Nat
    BY <2>2, PlacesFinite
  <2>4. ASSUME NEW i \in U, i \in DOMAIN stream PROVE i \in V
    BY <1>2, <1>3, <2>1, <2>4 DEF Unsaid
  <2>5. ASSUME NEW i \in U, i \notin DOMAIN stream PROVE i = n + 1 /\ mishaps' = mishaps + 1
    <3>1. i \in DOMAIN stream'
      BY <2>1 DEF Unsaid
    <3>2. stream' # stream
      BY <2>5, <3>1
    <3>3. i = n + 1 /\ stream'[i] = x
      BY <1>2, <2>1, <2>5, <3>1, <3>2
    <3>4. signals' = signals
      <4> SUFFICES ASSUME signals' # signals PROVE FALSE
        OBVIOUS
      <4>1. Len(signals) + 1 \in DOMAIN signals' /\ signals'[Len(signals) + 1] = x
        BY <1>3
      <4> QED BY <2>1, <3>3, <4>1 DEF Unsaid
    <3>5. QED
      BY <3>2, <3>3, <3>4
  <2>6. Cardinality(V) <= mishaps
    BY <1>1, <2>1 DEF Told
  <2>7. CASE U \subseteq V
    <3>1. Cardinality(U) <= Cardinality(V)
      BY <2>2, <2>7, PlacesCount
    <3> QED BY <1>1, <2>1, <2>3, <2>6, <3>1
  <2>8. CASE ~(U \subseteq V)
    <3>1. mishaps' = mishaps + 1 /\ U \subseteq V \cup {n + 1}
      BY <2>4, <2>5, <2>8
    <3>2. Cardinality(U) <= Cardinality(V) + 1
      BY <2>2, <3>1, PlacesCount
    <3> QED BY <1>1, <2>1, <2>3, <2>6, <3>1, <3>2
  <2>9. QED
    BY <2>7, <2>8
<1>9. Told'
  BY <1>6, <1>7, <1>8 DEF Told
<1>10. WeighedOnce'
  BY DEF WeighedOnce, Following
<1>11. node' \in {"rex", "polymarket_scout"}
  BY DEF Following
<1>12. QED
  BY <1>1, <1>2, <1>3, <1>9, <1>10, <1>11 DEF SaidInv, Early

LEMMA SaidInTurn ==
    ASSUME SaidInv, NEW a \in {"vera", "rex"}, NEW r, InTurn(a, r) PROVE SaidInv'
<1>1. PICK said \in {Voice(a, market, r)} :
        /\ signals' = signals \o (IF said = Silent THEN <<>> ELSE <<Said(a, said[1])>>)
        /\ stream' = stream \o (IF said = Silent THEN <<>> ELSE <<Said(a, said[1])>>)
  BY DEF InTurn
<1>2. node = a /\ node' = Following[a] /\ mishaps' = mishaps
  BY DEF InTurn
<1>3. IsSeq(stream) /\ IsSeq(signals)
  BY DEF SaidInv
<1> DEFINE x == Said(a, said[1])
<1>4. x = Said(a, x)
  BY DEF Said
<1>5. CASE said = Silent
  <2>1. signals' = signals \o <<>> /\ stream' = stream \o <<>>
    BY <1>1, <1>5
  <2>2. signals' = signals /\ stream' = stream
    BY <1>3, <2>1, JoinNone
  <2> HIDE DEF x
  <2>3. QED
    BY <1>2, <1>4, <2>2, SaidTurn
<1>6. CASE said # Silent
  <2>1. signals' = signals \o <<x>> /\ stream' = stream \o <<x>>
    BY <1>1, <1>6
  <2> HIDE DEF x
  <2>2. signals' = Append(signals, x) /\ stream' = Append(stream, x)
    BY <1>3, <2>1, JoinOne
  <2>3. Grown(signals, x, signals') /\ Grown(stream, x, stream')
    BY <1>3, <2>2, Growing
  <2>4. signals' # signals /\ stream' # stream
    BY <2>3 DEF Grown
  <2>5. QED
    BY <1>2, <1>4, <2>3, <2>4, SaidTurn
<1>7. QED
  BY <1>5, <1>6

LEMMA SaidInTurnFails ==
    ASSUME SaidInv, NEW a \in {"vera", "rex"}, NEW r, NEW sent \in BOOLEAN,
           InTurnFails(a, r, sent)
    PROVE  SaidInv'
<1>1. PICK said \in {Voice(a, market, r)} :
        stream' = IF sent THEN Append(stream, Said(a, said[1])) ELSE stream
  BY DEF InTurnFails
<1>2. node = a /\ node' = Following[a] /\ mishaps' = mishaps + 1 /\ signals' = signals
  BY DEF InTurnFails
<1> DEFINE x == Said(a, said[1])
<1>3. x = Said(a, x)
  BY DEF Said
<1>4. stream' = stream \/ stream' = Append(stream, x)
  BY <1>1
<1> HIDE DEF x
<1>4a. stream' = stream \/ Grown(stream, x, stream')
  BY <1>4, Growing DEF SaidInv
<1>5. QED
  BY <1>2, <1>3, <1>4a, SaidTurn

LEMMA SaidPolymarket ==
    ASSUME SaidInv, NEW markets, Polymarket(markets) PROVE SaidInv'
<1>1. /\ node = "polymarket_scout" /\ node' = "nova"
      /\ UNCHANGED <<stream, mishaps>>
      /\ signals' = [i \in DOMAIN signals |->
                       [signals[i] EXCEPT !.confidence = Least(950, @ + boost')]]
  BY DEF Polymarket
<1>2. IsSeq(stream) /\ IsSeq(signals) /\ mishaps \in Nat /\ Told
  BY <1>1 DEF SaidInv, Later
<1>3. Len(signals) \in Nat /\ DOMAIN signals = 1..Len(signals) /\ DOMAIN signals' = DOMAIN signals
  BY <1>1, <1>2, SeqDomain
<1>4. IsSeq(signals')
  <2>1. PICK t : t = signals'
    OBVIOUS
  <2>2. t = [i \in 1..Len(signals) |-> t[i]]
    BY <1>1, <1>3, <2>1
  <2> DEFINE U == {t[i] : i \in DOMAIN t}
  <2>3. \A i \in 1..Len(signals) : t[i] \in U
    BY <2>2
  <2> HIDE DEF U
  <2>4. t \in Seq(U)
    BY <1>3, <2>2, <2>3
  <2>5. QED
    BY <2>1, <2>4 DEF U, IsSeq
<1> DEFINE was(s) == {i \in DOMAIN stream' :
                        /\ stream'[i].agent = s.agent /\ stream'[i].direction = s.direction
                        /\ s.confidence = Least(950, stream'[i].confidence + boost')}
           weighed == {i \in DOMAIN stream' : \E k \in DOMAIN signals' : i \in was(signals'[k])}
<1>5. ASSUME NEW k \in DOMAIN signals
      PROVE  /\ signals'[k].agent = signals[k].agent
             /\ signals'[k].direction = signals[k].direction
             /\ signals'[k].confidence = Least(950, signals[k].confidence + boost')
  <2>1. signals[k] = Said(signals[k].agent, signals[k])
    BY <1>2 DEF Told
  <2>2. PICK b, a, d, c : /\ b = boost' /\ a = signals[k].agent
                          /\ d = signals[k].direction /\ c = signals[k].confidence
    OBVIOUS
  <2>3. signals[k] = [agent |-> a, direction |-> d, confidence |-> c]
    BY <2>1, <2>2 DEF Said
  <2>4. signals'[k] = [signals[k] EXCEPT !.confidence = Least(950, c + b)]
    BY <1>1, <2>2
  <2>5. signals'[k] = [agent |-> a, direction |-> d, confidence |-> Least(950, c + b)]
    BY <2>3, <2>4
  <2>6. QED
    BY <2>2, <2>5
<1>6. ASSUME NEW k \in DOMAIN signals, NEW i \in DOMAIN stream, stream[i] = signals[k]
      PROVE  i \in was(signals'[k])
  <2>1. i \in DOMAIN stream' /\ stream'[i] = signals[k]
    BY <1>1, <1>6
  <2>2. QED
    BY <1>5, <2>1
<1>7. \A k, l \in DOMAIN signals' : k # l => signals'[k].agent # signals'[l].agent
  BY <1>2, <1>3, <1>5 DEF Told
<1>8. \A k \in DOMAIN signals' :
          signals'[k].agent \in {"momentum", "copy_trade_scout"} \/ was(signals'[k]) # {}
  <2> SUFFICES ASSUME NEW k \in DOMAIN signals, ~Quiet(signals'[k].agent)
               PROVE  was(signals'[k]) # {}
    <3> HIDE DEF was
    <3> QED BY <1>3 DEF Quiet
  <2> HIDE DEF was, Quiet
  <2>1. PICK i \in DOMAIN stream : stream[i] = signals[k]
    BY <1>2, <1>5 DEF Told
  <2>2. i \in was(signals'[k])
    BY <1>6, <2>1
  <2> QED BY <2>2
<1>9. DOMAIN stream' \ weighed \subseteq Unsaid
  <2> SUFFICES ASSUME NEW i \in DOMAIN stream', i \notin weighed PROVE i \in Unsaid
    OBVIOUS
  <2> HIDE DEF was
  <2>1. i \in DOMAIN stream /\ \A k \in DOMAIN signals : signals[k] # stream[i]
    BY <1>1, <1>3, <1>6
  <2>2. QED
    BY <2>1 DEF Unsaid
<1>10. Cardinality(DOMAIN stream' \ weighed) <= mishaps'
  <2>1. PICK W, V, n : W = DOMAIN stream' \ weighed /\ V = Unsaid /\ n = Len(stream)
    OBVIOUS
  <2>2. n \in Nat /\ V \subseteq 1..n /\ W \subseteq V /\ W \subseteq 1..n
    <3> HIDE DEF weighed
    <3> QED BY <1>1, <1>2, <1>9, <2>1, SeqDomain DEF Unsaid
  <2>3. Cardinality(W) <= Cardinality(V) /\ Cardinality(W) \in Nat /\ Cardinality(V) \in Nat
    BY <2>2, PlacesCount, PlacesFinite
  <2>4. Cardinality(V) <= mishaps
    BY <1>2, <2>1 DEF Told
  <2> HIDE DEF weighed
  <2>5. QED
    BY <1>1, <1>2, <2>1, <2>3, <2>4
<1>11. WeighedOnce'
  BY <1>1, <1>7, <1>8, <1>10 DEF WeighedOnce
<1>12. QED
  BY <1>1, <1>2, <1>4, <1>11 DEF SaidInv, Early, Later

LEMMA SaidNova == ASSUME SaidInv, NEW w, Nova(w) PROVE SaidInv'
<1>1. /\ node = "nova" /\ node' = "done" /\ UNCHANGED <<signals, stream, boost, mishaps>>
  BY DEF Nova
<1>2. WeighedOnce'
  BY <1>1 DEF SaidInv, WeighedOnce
<1>3. QED
  BY <1>1, <1>2 DEF SaidInv, Early, Later

LEMMA SaidRaises == ASSUME SaidInv, NEW w, Raises(w) PROVE SaidInv'
<1>1. /\ node' = "raised" /\ mishaps' = mishaps + 1 /\ UNCHANGED <<signals, stream>>
  BY DEF Raises
<1>2. WeighedOnce'
  BY <1>1 DEF WeighedOnce
<1>3. QED
  BY <1>1, <1>2 DEF SaidInv, Early, Later

LEMMA SaidStep == ASSUME SaidInv, [LabNext]_labVars PROVE SaidInv'
<1>1. CASE UNCHANGED researchVars
  BY <1>1, SaidStutter
<1>2. ASSUME NEW m \in Markets, Begin(m) PROVE SaidInv'
  BY <1>2, SaidBegin
<1>3. CASE DetectRegime
  BY <1>3, SaidPrepare
<1>4. ASSUME NEW s \in MacroScores, MacroOverlay(s) PROVE SaidInv'
  BY <1>4, SaidPrepare
<1>5. CASE ValidateData
  BY <1>5, SaidPrepare
<1>6. ASSUME NEW heard \in SUBSET ToSet(Gathered), Gather(heard) PROVE SaidInv'
  BY <1>6, SaidGather DEF Ten
<1>7. ASSUME NEW a \in waiting, NEW r \in Reports[a], Speak(a, r) PROVE SaidInv'
  BY <1>7, SaidSpeak
<1>8. ASSUME NEW a \in waiting, NEW r \in Reports[a], NEW sent \in BOOLEAN,
             SpeakFails(a, r, sent)
      PROVE  SaidInv'
  BY <1>8, SaidSpeakFails
<1>9. CASE Merge
  BY <1>9, SaidMerge
<1>10. CASE Orthogonalize
  BY <1>10, SaidOrthogonalize
<1>11. ASSUME NEW a \in {"vera", "rex"}, NEW r \in Reports[a], InTurn(a, r) PROVE SaidInv'
  BY <1>11, SaidInTurn
<1>12. ASSUME NEW a \in {"vera", "rex"}, NEW r \in Reports[a], NEW sent \in BOOLEAN,
              InTurnFails(a, r, sent)
       PROVE  SaidInv'
  BY <1>12, SaidInTurnFails
<1>13. ASSUME NEW p \in Predictions, Polymarket(p) PROVE SaidInv'
  BY <1>13, SaidPolymarket
<1>14. ASSUME NEW w \in Weights, Nova(w) PROVE SaidInv'
  BY <1>14, SaidNova
<1>15. ASSUME NEW w \in Weights, Raises(w) PROVE SaidInv'
  BY <1>15, SaidRaises
<1>16. CASE UNCHANGED labVars
  <2>1. UNCHANGED researchVars
    BY <1>16 DEF labVars
  <2> QED BY <2>1, <1>1
<1>17. CASE LabNext
  BY ONLY <1>17, <1>1, <1>2, <1>3, <1>4, <1>5, <1>6, <1>7, <1>8, <1>9, <1>10, <1>11, <1>12,
     <1>13, <1>14, <1>15 DEF LabNext, ByBacktest, ByEnsemble
<1>18. QED
  BY <1>16, <1>17

(* What Nova weighs is what was said: for any markets, reports, scores, predictions
   and weights, whatever raises, and whatever cycle it is, each signal in the graph is
   one its agent put on the stream, once, moved by Polymarket's boost; and there are no
   more signals on the stream she did not weigh than commands that raised
   (agents/base.py:252, agents/graph.py:266). *)
THEOREM WeighedOnceAlways == Spec => []WeighedOnce
<1>1. LabInit => SaidInv
  BY SaidInit DEF LabInit
<1>2. SaidInv /\ [LabNext]_labVars => SaidInv'
  BY SaidStep
<1>3. SaidInv => WeighedOnce
  BY DEF SaidInv
<1>4. QED
  BY <1>1, <1>2, <1>3, PTL DEF Spec

-----------------------------------------------------------------------------
(* Back-tests: which bars an engine is given. *)

SomeJob == job \in Jobs \cup {NoJob}

LEMMA JobType ==
    ASSUME SomeJob
    PROVE  /\ job.windows \in Nat
           /\ Len(job.tape) \in Nat /\ DOMAIN job.tape = 1..Len(job.tape)
           /\ job.tape # <<>> <=> Len(job.tape) > 0
           /\ \A i \in 1..Len(job.tape) : job.tape[i].close \in Nat \ {0}
<1>1. CASE job \in Jobs
  <2>1. /\ job.windows \in Nat /\ IsSeq(job.tape)
        /\ \A i \in DOMAIN job.tape : job.tape[i].close \in Nat \ {0}
    BY <1>1, LabAssumption DEF IsSeq
  <2>2. Len(job.tape) \in Nat /\ DOMAIN job.tape = 1..Len(job.tape)
    BY <2>1, SeqDomain
  <2>3. job.tape # <<>> <=> Len(job.tape) > 0
    BY <2>1, EmptySeq
  <2>4. QED
    BY <2>1, <2>2, <2>3
<1>2. CASE job = NoJob
  <2>1. job.windows = 0 /\ job.tape = <<>>
    BY <1>2 DEF NoJob
  <2>2. QED
    BY <2>1
<1>3. QED
  BY <1>1, <1>2 DEF SomeJob

(* The boundaries of windows of one size, cut at one place. *)
LEMMA WindowBounds ==
    ASSUME NEW W \in Nat, NEW n \in Nat, NEW w \in Nat, W * w <= n,
           NEW i \in 1..w, NEW j \in 1..w
    PROVE  /\ (i - 1) * W \in Nat /\ i * W \in Nat
           /\ i * W = (i - 1) * W + W
           /\ i * W <= n
           /\ i < j => i * W <= (j - 1) * W
<1>1. \A a, b \in Nat : a * W \in Nat /\ (a <= b => a * W <= b * W)
  OBVIOUS
<1>2. i \in Nat /\ i - 1 \in Nat /\ j - 1 \in Nat /\ i <= w /\ (i < j => i <= j - 1)
  OBVIOUS
<1>3. i * W = (i - 1) * W + W
  BY <1>2
<1>4. w * W = W * w
  OBVIOUS
<1>5. QED
  BY <1>1, <1>2, <1>3, <1>4

LEMMA Halves ==
    ASSUME NEW w \in Nat, NEW k \in 1..(2 * w)
    PROVE  /\ k % 2 = 1 => (k + 1) \div 2 \in 1..w /\ k = 2 * ((k + 1) \div 2) - 1
           /\ k % 2 # 1 => k \div 2 \in 1..w /\ k = 2 * (k \div 2)
  OBVIOUS

LEMMA WindowSizeType ==
    ASSUME SomeJob, job.windows > 0
    PROVE  /\ WindowSize \in Nat /\ WindowSize * job.windows <= Len(job.tape)
           /\ Split \in Nat /\ Split <= WindowSize
<1>1. job.windows \in Nat \ {0} /\ Len(job.tape) \in Nat
  BY JobType
<1>2. \A a \in Nat, d \in Nat \ {0} : a \div d \in Nat /\ (a \div d) * d <= a
  OBVIOUS
<1>3. WindowSize \in Nat /\ WindowSize * job.windows <= Len(job.tape)
  <2> HIDE DEF SomeJob
  <2> QED BY <1>1, <1>2 DEF WindowSize
<1>4. TrainPct \in 0..100
  BY BacktestAssumption
<1>5. \A a \in Nat, t \in 0..100 : (a * t) \div 100 \in Nat /\ (a * t) \div 100 <= a
  OBVIOUS
<1>6. QED
  BY <1>3, <1>4, <1>5 DEF Split

LEMMA SegmentsApart ==
    ASSUME SomeJob
    PROVE  /\ Len(Segments) \in Nat /\ DOMAIN Segments = 1..Len(Segments)
           /\ \A k \in DOMAIN Segments :
                  /\ Segments[k].from \in Int /\ Segments[k].to \in Int
                  /\ 1 <= Segments[k].from /\ Segments[k].to <= Len(job.tape)
                  /\ job.tape # <<>> => Segments[k].from <= Segments[k].to
           /\ \A k, l \in DOMAIN Segments : k < l => Segments[k].to < Segments[l].from
<1>1. CASE job.windows = 0
  <2>1. Segments = <<[from |-> 1, to |-> Len(job.tape), window |-> 0, oos |-> FALSE]>>
    <3>1. ~(job.windows > 0)
      BY <1>1
    <3> QED BY ONLY <1>1, <3>1 DEF Segments
  <2>2. Len(job.tape) \in Nat /\ (job.tape # <<>> => Len(job.tape) > 0)
    BY JobType
  <2>3. PICK s : s = [from |-> 1, to |-> Len(job.tape), window |-> 0, oos |-> FALSE]
    OBVIOUS
  <2>4. Len(Segments) = 1 /\ DOMAIN Segments = 1..1 /\ Segments[1] = s
    BY <2>1, <2>3
  <2>5. s.from = 1 /\ s.to = Len(job.tape)
    BY <2>3
  <2>6. \A k \in 1..1 : k = 1
    OBVIOUS
  <2>7. QED
    BY <2>2, <2>4, <2>5, <2>6
<1>2. CASE job.windows > 0 /\ (Split < MinSegment \/ WindowSize - Split < MinSegment)
  <2>1. Segments = <<>>
    BY <1>2, JobType DEF Segments
  <2>2. QED
    BY <2>1
<1>3. CASE job.windows > 0 /\ ~(Split < MinSegment \/ WindowSize - Split < MinSegment)
  <2>1. PICK w, W, S, n : w = job.windows /\ W = WindowSize /\ S = Split /\ n = Len(job.tape)
    OBVIOUS
  <2>2. /\ w \in Nat \ {0} /\ W \in Nat /\ S \in Nat /\ n \in Nat
        /\ W * w <= n /\ S >= 1 /\ S + 1 <= W
    <3>1. MinSegment \in Nat /\ MinSegment >= 1
      BY BacktestAssumption
    <3>2. job.windows \in Nat /\ Len(job.tape) \in Nat
      BY JobType
    <3>3. /\ WindowSize \in Nat /\ WindowSize * job.windows <= Len(job.tape)
          /\ Split \in Nat
      BY <1>3, WindowSizeType
    <3>4. Split >= 1 /\ Split + 1 <= WindowSize
      BY ONLY <1>3, <3>1, <3>3
    <3>5. QED
      BY ONLY <1>3, <2>1, <3>2, <3>3, <3>4
  <2>3. Segments = [k \in 1..2 * w |-> IF k % 2 = 1 THEN InSample((k + 1) \div 2)
                                                    ELSE OutOfSample(k \div 2)]
    BY <1>3, <2>1, <2>2 DEF Segments
  <2>4. Len(Segments) = 2 * w /\ DOMAIN Segments = 1..(2 * w)
    <3>1. 2 * w \in Nat
      BY <2>2
    <3> QED BY ONLY <2>3, <3>1
  <2>5. ASSUME NEW k \in 1..(2 * w)
        PROVE  \E i \in 1..w :
                 \/ /\ k = 2 * i - 1
                    /\ Segments[k].from = (i - 1) * W + 1 /\ Segments[k].to = (i - 1) * W + S
                 \/ /\ k = 2 * i
                    /\ Segments[k].from = (i - 1) * W + S + 1 /\ Segments[k].to = i * W
    <3>1. CASE k % 2 = 1
      <4>1. PICK i \in 1..w : i = (k + 1) \div 2 /\ k = 2 * i - 1
        BY <2>2, <3>1, Halves
      <4>2. Segments[k] = InSample(i)
        BY <2>3, <3>1, <4>1
      <4>3. Segments[k].from = (i - 1) * W + 1 /\ Segments[k].to = (i - 1) * W + S
        BY <2>1, <4>2 DEF InSample
      <4>4. QED
        BY ONLY <4>1, <4>3
    <3>2. CASE k % 2 # 1
      <4>1. PICK i \in 1..w : i = k \div 2 /\ k = 2 * i
        BY <2>2, <3>2, Halves
      <4>2. Segments[k] = OutOfSample(i)
        BY <2>3, <3>2, <4>1
      <4>3. Segments[k].from = (i - 1) * W + S + 1 /\ Segments[k].to = i * W
        BY <2>1, <4>2 DEF OutOfSample
      <4>4. QED
        BY ONLY <4>1, <4>3
    <3>3. QED
      BY <3>1, <3>2
  <2>6. ASSUME NEW k \in 1..(2 * w)
        PROVE  /\ Segments[k].from \in Int /\ Segments[k].to \in Int
               /\ 1 <= Segments[k].from /\ Segments[k].to <= n
               /\ Segments[k].from <= Segments[k].to
    <3>1. PICK i \in 1..w :
                 \/ /\ k = 2 * i - 1
                    /\ Segments[k].from = (i - 1) * W + 1 /\ Segments[k].to = (i - 1) * W + S
                 \/ /\ k = 2 * i
                    /\ Segments[k].from = (i - 1) * W + S + 1 /\ Segments[k].to = i * W
      BY <2>5
    <3>2. PICK a, b : a = (i - 1) * W /\ b = i * W
      OBVIOUS
    <3>3. a \in Nat /\ b = a + W /\ b <= n
      BY <2>2, <3>2, WindowBounds
    <3>4. \/ Segments[k].from = a + 1 /\ Segments[k].to = a + S
          \/ Segments[k].from = a + S + 1 /\ Segments[k].to = b
      BY <3>1, <3>2
    <3>5. QED
      BY ONLY <2>2, <3>3, <3>4
  <2>7. ASSUME NEW k \in 1..(2 * w), NEW l \in 1..(2 * w), k < l
        PROVE  Segments[k].to < Segments[l].from
    <3>1. PICK i \in 1..w :
                 \/ /\ k = 2 * i - 1
                    /\ Segments[k].from = (i - 1) * W + 1 /\ Segments[k].to = (i - 1) * W + S
                 \/ /\ k = 2 * i
                    /\ Segments[k].from = (i - 1) * W + S + 1 /\ Segments[k].to = i * W
      BY <2>5
    <3>2. PICK j \in 1..w :
                 \/ /\ l = 2 * j - 1
                    /\ Segments[l].from = (j - 1) * W + 1 /\ Segments[l].to = (j - 1) * W + S
                 \/ /\ l = 2 * j
                    /\ Segments[l].from = (j - 1) * W + S + 1 /\ Segments[l].to = j * W
      BY <2>5
    <3>3. PICK a, b, c : a = (i - 1) * W /\ b = i * W /\ c = (j - 1) * W
      OBVIOUS
    <3>4. a \in Nat /\ c \in Nat /\ b = a + W /\ (i < j => b <= c)
      BY <2>2, <3>3, WindowBounds
    <3>5. i = j => a = c
      BY <3>3
    <3>6. \/ k = 2 * i - 1 /\ Segments[k].to = a + S
          \/ k = 2 * i /\ Segments[k].to = b
      BY <3>1, <3>3
    <3>7. \/ l = 2 * j - 1 /\ Segments[l].from = c + 1
          \/ l = 2 * j /\ Segments[l].from = c + S + 1
      BY <3>2, <3>3
    <3>8. CASE i < j
      BY ONLY <2>2, <3>4, <3>6, <3>7, <3>8
    <3>9. CASE i = j
      BY ONLY <2>2, <2>7, <3>4, <3>5, <3>6, <3>7, <3>9
    <3>10. i < j \/ i = j
      <4>1. i \in Int /\ j \in Int /\ k < l
        BY <2>2, <2>7
      <4> QED BY ONLY <4>1, <3>6, <3>7
    <3>11. QED
      BY <3>8, <3>9, <3>10
  <2>8. 2 * w \in Nat
    BY <2>2
  <2>9. QED
    BY ONLY <2>1, <2>4, <2>6, <2>7, <2>8
<1>4. QED
  BY <1>1, <1>2, <1>3, JobType

(* The engine: its trades lie within its bars, its equity is accounted for and never
   below 0, and while no trade has won its curve has not risen. *)

Within(t, lo, i) ==
    /\ IsSeq(t)
    /\ \A n \in DOMAIN t : /\ t[n].from \in Int /\ t[n].to \in Int /\ t[n].pnl \in Int
                           /\ lo <= t[n].from /\ t[n].from <= t[n].to /\ t[n].to <= i
    /\ \A n \in 2..Len(t) : t[n - 1].to <= t[n].from

Holds(p, equity, t, lo, i) ==
    \/ p = Flat
    \/ /\ p.entry \in Nat \ {0} /\ p.quantity \in Nat
       /\ Worth(p.quantity, p.entry) <= equity
       /\ p.at \in Int /\ lo <= p.at /\ p.at <= i
       /\ \A n \in DOMAIN t : t[n].to <= p.at

Accounted(e) ==
    /\ e.equity \in Nat /\ e.fees \in Int
    /\ e.equity = InitialEquity + TotalPnl(e.trades) - e.fees

NoneWon(t) == \A n \in DOMAIN t : t[n].pnl <= 0
Falling(c) == \A k \in 2..Len(c) : c[k] <= c[k - 1]

Charted(c, equity, t) ==
    /\ IsSeq(c) /\ c # <<>>
    /\ \A k \in DOMAIN c : c[k] \in Int
    /\ NoneWon(t) => Falling(c) /\ equity <= c[Len(c)]

Whole(e) == e = [position |-> e.position, equity |-> e.equity, curve |-> e.curve,
                 trades |-> e.trades, fees |-> e.fees]

EngineOK(e, lo, i) ==
    /\ Whole(e)
    /\ Within(e.trades, lo, i)
    /\ Holds(e.position, e.equity, e.trades, lo, i)
    /\ Accounted(e)
    /\ Charted(e.curve, e.equity, e.trades)

LEMMA NoTrades ==
    /\ IsSeq(<<>>) /\ TotalPnl(<<>>) = 0
    /\ \A lo, i : Within(<<>>, lo, i)
<1>1. IsSeq(<<>>)
  BY DEF IsSeq
<1>2. [i \in DOMAIN <<>> |-> <<>>[i].pnl] = <<>>
  OBVIOUS
<1>3. TotalPnl(<<>>) = 0
  BY <1>2, SumOfEmpty DEF TotalPnl
<1>4. QED
  BY <1>1, <1>3 DEF Within

LEMMA PnlAppend ==
    ASSUME NEW s, IsSeq(s), \A n \in DOMAIN s : s[n].pnl \in Int,
           NEW x, x.pnl \in Int, NEW t, Grown(s, x, t)
    PROVE  TotalPnl(t) = TotalPnl(s) + x.pnl /\ TotalPnl(s) \in Int
<1> DEFINE f == [i \in DOMAIN s |-> s[i].pnl]
           e == [i \in DOMAIN t |-> t[i].pnl]
<1>1. PICK n \in Nat : n = Len(s)
  BY SeqDomain
<1>2. DOMAIN s = 1..n /\ DOMAIN t = 1..(n + 1) /\ t[n + 1] = x
      /\ \A i \in 1..n : t[i] = s[i]
  BY <1>1 DEF Grown
<1>3. f \in [1..n -> Int]
  BY <1>2
<1>4. \A i \in 1..(n + 1) : t[i].pnl \in Int
  <2>1. \A i \in 1..(n + 1) : i \in 1..n \/ i = n + 1
    OBVIOUS
  <2> QED BY <1>2, <2>1
<1>5. e \in [1..(n + 1) -> Int]
  BY <1>2, <1>4
<1>6. (\A i \in 1..n : e[i] = f[i]) /\ e[n + 1] = x.pnl
  <2>1. \A i \in 1..n : i \in 1..(n + 1)
    OBVIOUS
  <2>2. n + 1 \in 1..(n + 1)
    OBVIOUS
  <2> QED BY <1>2, <2>1, <2>2
<1> HIDE DEF e, f
<1>7. SumOf(e) = SumOf(f) + e[n + 1] /\ SumOf(f) \in Int
  BY <1>3, <1>5, <1>6, SumOfAppend
<1>8. QED
  BY <1>6, <1>7 DEF TotalPnl, e, f

LEMMA EngineNew ==
    ASSUME NEW lo, NEW i PROVE EngineOK(NewEngine, lo, i)
<1>1. InitialEquity \in Nat
  BY BacktestAssumption
<1>2. PICK e : e = NewEngine
  OBVIOUS
<1>3. /\ e.position = Flat /\ e.equity = InitialEquity /\ e.curve = <<InitialEquity>>
      /\ e.trades = <<>> /\ e.fees = 0 /\ Whole(e)
  BY <1>2 DEF NewEngine, Whole
<1>4. Within(e.trades, lo, i) /\ Holds(e.position, e.equity, e.trades, lo, i)
  BY <1>3, NoTrades DEF Holds
<1>5. Accounted(e)
  BY <1>1, <1>3, NoTrades DEF Accounted
<1>6. Charted(e.curve, e.equity, e.trades)
  <2>1. PICK c : c = <<InitialEquity>>
    OBVIOUS
  <2>2. c \in Seq(Nat) /\ Len(c) = 1 /\ DOMAIN c = 1..1 /\ c[1] = InitialEquity /\ c # <<>>
    BY <1>1, <2>1
  <2>3. IsSeq(c) /\ Falling(c)
    BY <2>2, SeqOfMembers DEF Falling
  <2>4. Charted(c, InitialEquity, <<>>)
    BY <1>1, <2>2, <2>3 DEF Charted
  <2>5. QED
    BY <1>3, <2>1, <2>4
<1>7. QED
  BY <1>2, <1>3, <1>4, <1>5, <1>6 DEF EngineOK

(* A bar comes: the curve takes the equity there is. *)
LEMMA EngineTick ==
    ASSUME NEW e, NEW lo \in Int, NEW i \in Int, EngineOK(e, lo, i - 1)
    PROVE  EngineOK([e EXCEPT !.curve = Append(@, e.equity)], lo, i)
<1>1. PICK c : c = Append(e.curve, e.equity)
  OBVIOUS
<1>2. PICK d : d = [e EXCEPT !.curve = c]
  OBVIOUS
<1>3. /\ Whole(d) /\ d.position = e.position /\ d.equity = e.equity /\ d.curve = c
      /\ d.trades = e.trades /\ d.fees = e.fees
  <2>1. Whole(e)
    BY DEF EngineOK
  <2> QED BY <1>2, <2>1 DEF Whole
<1>4. Within(d.trades, lo, i)
  BY <1>3 DEF EngineOK, Within
<1>5. Holds(d.position, d.equity, d.trades, lo, i)
  BY <1>3 DEF EngineOK, Holds
<1>6. Accounted(d)
  BY <1>3 DEF EngineOK, Accounted
<1>7. Charted(c, e.equity, e.trades)
  <2>1. /\ IsSeq(e.curve) /\ e.curve # <<>> /\ \A k \in DOMAIN e.curve : e.curve[k] \in Int
        /\ NoneWon(e.trades) => Falling(e.curve) /\ e.equity <= e.curve[Len(e.curve)]
        /\ e.equity \in Int
    BY DEF EngineOK, Charted, Accounted
  <2>2. Grown(e.curve, e.equity, c)
    BY <1>1, <2>1, Growing
  <2>3. PICK n \in Nat : n = Len(e.curve) /\ n > 0
    BY <2>1, EmptySeq, SeqDomain
  <2>4. /\ DOMAIN e.curve = 1..n /\ DOMAIN c = 1..(n + 1) /\ c[n + 1] = e.equity
        /\ \A k \in 1..n : c[k] = e.curve[k]
        /\ IsSeq(c)
    BY <2>2, <2>3 DEF Grown
  <2>5. Len(c) = n + 1 /\ c # <<>>
    BY <2>2, <2>3, <2>4, EmptySeq DEF Grown
  <2>6. \A k \in 1..(n + 1) : k \in 1..n \/ k = n + 1
    OBVIOUS
  <2>7. \A k \in DOMAIN c : c[k] \in Int
    BY <2>1, <2>4, <2>6
  <2>8. ASSUME NoneWon(e.trades) PROVE Falling(c)
    <3> SUFFICES ASSUME NEW k \in 2..(n + 1) PROVE c[k] <= c[k - 1]
      BY <2>5 DEF Falling
    <3>1. CASE k = n + 1
      <4>1. c[k] = e.equity /\ c[k - 1] = e.curve[n]
        BY <2>3, <2>4, <3>1
      <4> QED BY <2>1, <2>3, <2>8, <4>1
    <3>2. CASE k \in 2..n
      <4>1. k - 1 \in 1..n /\ k \in 1..n
        BY <3>2
      <4>2. e.curve[k] <= e.curve[k - 1]
        BY <2>1, <2>3, <2>8, <3>2 DEF Falling
      <4> QED BY <2>4, <4>1, <4>2
    <3>3. QED
      BY <3>1, <3>2
  <2>9. e.equity <= c[Len(c)]
    BY <2>1, <2>4, <2>5
  <2>10. QED
    BY <2>4, <2>5, <2>7, <2>8, <2>9 DEF Charted
<1>8. EngineOK(d, lo, i)
  BY <1>3, <1>4, <1>5, <1>6, <1>7 DEF EngineOK
<1>9. [e EXCEPT !.curve = Append(@, e.equity)] = d
  BY <1>1, <1>2
<1>10. QED
  BY <1>8, <1>9

(* The arithmetic of an entry and of an exit. *)
LEMMA ExitBounded ==
    ASSUME NEW c \in Nat \ {0}, NEW q \in Nat, NEW entry \in Nat \ {0}, NEW equity \in Nat,
           Worth(q, entry) <= equity,
           NEW value, value = Worth(q, ApplySlippage(c, FALSE)),
           NEW pnl, pnl = value - Worth(q, entry) - ApplyCommission(value)
    PROVE  pnl \in Int /\ equity + pnl \in Nat
<1>1. ApplySlippage(c, FALSE) \in Nat
  BY DEF ApplySlippage
<1>2. \A a, b \in Nat : Worth(a, b) \in Nat
  <2>1. \A a, b \in Nat : a * b \in Nat
    OBVIOUS
  <2>2. \A m \in Nat : m \div 1000 \in Nat
    OBVIOUS
  <2> QED BY <2>1, <2>2 DEF Worth
<1>3. value \in Nat /\ Worth(q, entry) \in Nat
  BY <1>1, <1>2
<1>4. ApplyCommission(value) \in Nat /\ ApplyCommission(value) <= value
  <2>1. \A m \in Nat : m \div 1000 \in Nat /\ m \div 1000 <= m
    OBVIOUS
  <2>2. ApplyCommission(value) = value \div 1000
    BY ONLY TRUE DEF ApplyCommission
  <2> QED BY ONLY <1>3, <2>1, <2>2
<1>5. PICK w, k : w = Worth(q, entry) /\ k = ApplyCommission(value)
  OBVIOUS
<1>6. w \in Nat /\ k \in Nat /\ k <= value /\ w <= equity /\ pnl = value - w - k
  BY <1>3, <1>4, <1>5
<1>7. QED
  BY ONLY <1>3, <1>6, equity \in Nat

LEMMA EngineExit ==
    ASSUME NEW e, NEW lo \in Int, NEW i \in Int, EngineOK(e, lo, i), e.position # Flat,
           NEW bar, bar.close \in Nat \ {0}, NEW reason
    PROVE  EngineOK(ExitPosition(e, i, bar, reason), lo, i)
<1> DEFINE value == Worth(e.position.quantity, ApplySlippage(bar.close, FALSE))
           won == value - Worth(e.position.quantity, e.position.entry) - ApplyCommission(value)
<1>1. /\ e.position.entry \in Nat \ {0} /\ e.position.quantity \in Nat
      /\ Worth(e.position.quantity, e.position.entry) <= e.equity
      /\ e.position.at \in Int /\ lo <= e.position.at /\ e.position.at <= i
      /\ \A n \in DOMAIN e.trades : e.trades[n].to <= e.position.at
  BY DEF EngineOK, Holds
<1>2. Whole(e) /\ Within(e.trades, lo, i) /\ Accounted(e)
      /\ Charted(e.curve, e.equity, e.trades)
  BY DEF EngineOK
<1>3. won \in Int /\ e.equity + won \in Nat
  BY <1>1, <1>2, ExitBounded DEF Accounted
<1>4. PICK p, b, x : /\ p = won /\ b = e.position.at
                     /\ x = [from |-> b, to |-> i, pnl |-> p, reason |-> reason]
  OBVIOUS
<1>5. PICK t : t = Append(e.trades, x)
  OBVIOUS
<1>6. PICK d : d = ExitPosition(e, i, bar, reason)
  OBVIOUS
<1>7. d = [e EXCEPT !.equity = @ + p, !.position = Flat, !.trades = t]
  BY <1>4, <1>5, <1>6 DEF ExitPosition
<1> HIDE DEF won
<1>8. /\ Whole(d) /\ d.position = Flat /\ d.equity = e.equity + p /\ d.curve = e.curve
      /\ d.trades = t /\ d.fees = e.fees
  BY <1>2, <1>7 DEF Whole
<1>9. x.from = b /\ x.to = i /\ x.pnl = p /\ p \in Int
  BY <1>3, <1>4
<1>10. IsSeq(e.trades) /\ \A n \in DOMAIN e.trades : e.trades[n].pnl \in Int
  BY <1>2 DEF Within
<1>11. Grown(e.trades, x, t)
  BY <1>5, <1>10, Growing
<1>12. Within(t, lo, i)
  <2>1. PICK m \in Nat : m = Len(e.trades)
    BY <1>10, SeqDomain
  <2>2. /\ DOMAIN e.trades = 1..m /\ DOMAIN t = 1..(m + 1) /\ Len(t) = m + 1
        /\ t[m + 1] = x /\ IsSeq(t)
        /\ \A n \in 1..m : t[n] = e.trades[n]
    BY <1>11, <2>1 DEF Grown
  <2>3. ASSUME NEW n \in DOMAIN t
        PROVE  /\ t[n].from \in Int /\ t[n].to \in Int /\ t[n].pnl \in Int
               /\ lo <= t[n].from /\ t[n].from <= t[n].to /\ t[n].to <= i
    <3>1. n \in 1..m \/ n = m + 1
      BY <2>2
    <3>2. CASE n \in 1..m
      BY <1>2, <2>2, <3>2 DEF Within
    <3>3. CASE n = m + 1
      BY <1>1, <1>4, <1>9, <2>2, <3>3
    <3>4. QED
      BY <3>1, <3>2, <3>3
  <2>4. ASSUME NEW n \in 2..Len(t) PROVE t[n - 1].to <= t[n].from
    <3>1. n \in 2..m \/ n = m + 1
      BY <2>2
    <3>2. CASE n \in 2..m
      <4>1. n \in 1..m /\ n - 1 \in 1..m
        BY <3>2
      <4>2. e.trades[n - 1].to <= e.trades[n].from
        BY <1>2, <2>1, <3>2 DEF Within
      <4> QED BY <2>2, <4>1, <4>2
    <3>3. CASE n = m + 1
      <4>1. n - 1 \in 1..m /\ n - 1 = m
        BY <2>2, <3>3
      <4>2. t[n - 1] = e.trades[n - 1] /\ t[n] = x
        BY <2>2, <3>3, <4>1
      <4>3. e.trades[n - 1].to <= e.position.at
        BY <1>1, <2>2, <4>1
      <4> QED BY <1>4, <1>9, <4>2, <4>3
    <3>4. QED
      BY <3>1, <3>2, <3>3
  <2>5. QED
    BY <2>2, <2>3, <2>4 DEF Within
<1>13. Accounted(d)
  <2>1. TotalPnl(t) = TotalPnl(e.trades) + p /\ TotalPnl(e.trades) \in Int
    BY <1>9, <1>10, <1>11, PnlAppend
  <2>2. e.fees \in Int /\ e.equity \in Nat /\ InitialEquity \in Nat
        /\ e.equity = InitialEquity + TotalPnl(e.trades) - e.fees
    BY <1>2, BacktestAssumption DEF Accounted
  <2>3. e.equity + p = InitialEquity + TotalPnl(t) - e.fees
    BY ONLY <1>9, <2>1, <2>2
  <2>4. QED
    BY <1>3, <1>4, <1>8, <2>2, <2>3 DEF Accounted
<1>14. Charted(d.curve, d.equity, d.trades)
  <2>1. ASSUME NoneWon(t) PROVE NoneWon(e.trades) /\ p <= 0
    <3>1. \A n \in DOMAIN e.trades : n \in DOMAIN t /\ t[n] = e.trades[n]
      BY <1>11 DEF Grown
    <3>2. NoneWon(e.trades)
      BY <2>1, <3>1 DEF NoneWon
    <3>3. Len(e.trades) + 1 \in DOMAIN t /\ t[Len(e.trades) + 1] = x
      BY <1>11 DEF Grown
    <3>4. QED
      BY <1>9, <2>1, <3>2, <3>3 DEF NoneWon
  <2>2. /\ IsSeq(e.curve) /\ e.curve # <<>> /\ \A k \in DOMAIN e.curve : e.curve[k] \in Int
        /\ NoneWon(e.trades) => Falling(e.curve) /\ e.equity <= e.curve[Len(e.curve)]
    BY <1>2 DEF Charted
  <2>3. e.curve[Len(e.curve)] \in Int /\ e.equity \in Int
    <3>1. Len(e.curve) \in DOMAIN e.curve
      BY <2>2, SeqDomain, EmptySeq
    <3> QED BY <1>2, <2>2, <3>1 DEF Accounted
  <2>4. NoneWon(t) => Falling(e.curve) /\ e.equity + p <= e.curve[Len(e.curve)]
    BY <1>9, <2>1, <2>2, <2>3
  <2>5. QED
    BY <1>8, <2>2, <2>4 DEF Charted
<1>15. EngineOK(d, lo, i)
  BY <1>8, <1>12, <1>13, <1>14 DEF EngineOK, Holds
<1>16. QED
  BY <1>6, <1>15

LEMMA EngineEnter ==
    ASSUME NEW e, NEW lo \in Int, NEW i \in Int, lo <= i, EngineOK(e, lo, i),
           NEW bar, bar.close \in Nat \ {0}, NEW signal
    PROVE  EngineOK(EnterLong(e, i, bar, signal), lo, i)
<1>1. Whole(e) /\ Within(e.trades, lo, i) /\ Accounted(e)
      /\ Charted(e.curve, e.equity, e.trades) /\ e.equity \in Nat
  BY DEF EngineOK, Accounted
<1> DEFINE entry == ApplySlippage(bar.close, TRUE)
           value == e.equity \div 50
<1>2. PICK n, v, q, com : /\ n = entry /\ v = value /\ com = ApplyCommission(v)
                          /\ q = (1000 * v) \div n
  <2> HIDE DEF entry, value
  <2> QED OBVIOUS
<1>3. /\ n \in Nat \ {0} /\ q \in Nat /\ com \in Nat
      /\ e.equity - com \in Nat /\ Worth(q, n) <= e.equity - com
  <2>1. n = ApplySlippage(bar.close, TRUE) /\ v = e.equity \div 50
    BY ONLY <1>2
  <2>2. bar.close \in Nat \ {0} /\ e.equity \in Nat
    BY <1>1
  <2>3. PICK c, m : c = bar.close /\ m = e.equity
    OBVIOUS
  <2>4. /\ c \in Nat \ {0} /\ m \in Nat /\ n = ApplySlippage(c, TRUE) /\ v = m \div 50
        /\ q = (1000 * v) \div n /\ com = ApplyCommission(v)
    BY ONLY <1>2, <2>1, <2>2, <2>3
  <2>5. /\ n \in Nat \ {0} /\ q \in Nat /\ com \in Nat
        /\ m - com \in Nat /\ Worth(q, n) <= m - com
    <3>1. n \in Nat \ {0}
      <4>1. n = c + c \div 2000
        BY ONLY <2>4 DEF ApplySlippage
      <4>2. \A a \in Nat \ {0} : a + a \div 2000 \in Nat \ {0}
        OBVIOUS
      <4>3. c \in Nat \ {0}
        BY ONLY <2>4
      <4> QED BY ONLY <4>1, <4>2, <4>3
    <3>2. v \in Nat /\ 50 * v <= m
      BY ONLY <2>4
    <3>3. q \in Nat /\ q * n <= 1000 * v
      <4>1. \A a \in Nat, d \in Nat \ {0} : a \div d \in Nat /\ (a \div d) * d <= a
        OBVIOUS
      <4>2. 1000 * v \in Nat
        BY ONLY <3>2
      <4>3. q = (1000 * v) \div n
        BY ONLY <2>4
      <4> QED BY ONLY <3>1, <4>1, <4>2, <4>3
    <3>4. com \in Nat /\ com <= v
      <4>1. \A a \in Nat : a \div 1000 \in Nat /\ a \div 1000 <= a
        OBVIOUS
      <4>2. com = v \div 1000
        BY ONLY <2>4 DEF ApplyCommission
      <4> QED BY ONLY <3>2, <4>1, <4>2
    <3>5. Worth(q, n) \in Nat /\ Worth(q, n) <= v
      <4>1. q * n \in Nat
        BY ONLY <3>1, <3>3
      <4>2. \A a, b \in Nat : a <= 1000 * b => a \div 1000 \in Nat /\ a \div 1000 <= b
        OBVIOUS
      <4>3. (q * n) \div 1000 \in Nat /\ (q * n) \div 1000 <= v
        BY ONLY <3>2, <3>3, <4>1, <4>2
      <4>4. QED
        BY ONLY <4>3 DEF Worth
    <3>6. QED
      <4>1. m \in Nat
        BY ONLY <2>4
      <4> QED BY ONLY <3>1, <3>2, <3>3, <3>4, <3>5, <4>1
  <2> QED BY ONLY <2>3, <2>5
<1>4. PICK p : p = [entry |-> n, quantity |-> q, at |-> i,
                    stop |-> signal.stop, target |-> signal.target]
  OBVIOUS
<1>5. PICK d : d = EnterLong(e, i, bar, signal)
  OBVIOUS
<1>6. d = [e EXCEPT !.equity = @ - com, !.fees = @ + com, !.position = p]
  <2>1. d = [e EXCEPT !.equity = @ - ApplyCommission(value), !.fees = @ + ApplyCommission(value),
                      !.position = [entry |-> entry, quantity |-> (1000 * value) \div entry,
                                    at |-> i, stop |-> signal.stop, target |-> signal.target]]
    BY <1>5 DEF EnterLong
  <2> HIDE DEF entry, value
  <2> QED BY <1>2, <1>4, <2>1
<1> HIDE DEF entry, value
<1>7. /\ Whole(d) /\ d.position = p /\ d.equity = e.equity - com /\ d.curve = e.curve
      /\ d.trades = e.trades /\ d.fees = e.fees + com
  BY <1>1, <1>6 DEF Whole
<1>8. p.entry = n /\ p.quantity = q /\ p.at = i
  BY <1>4
<1>9. Holds(p, e.equity - com, e.trades, lo, i)
  <2>1. \A k \in DOMAIN e.trades : e.trades[k].to <= i
    BY <1>1 DEF Within
  <2> QED BY <1>3, <1>8, <2>1 DEF Holds
<1>10. Accounted(d)
  <2>1. TotalPnl(e.trades) \in Int
    <3>1. IsSeq(e.trades) /\ \A k \in DOMAIN e.trades : e.trades[k].pnl \in Int
      BY <1>1 DEF Within
    <3>2. PICK x : x = [pnl |-> 0]
      OBVIOUS
    <3>3. Grown(e.trades, x, Append(e.trades, x)) /\ x.pnl \in Int
      BY <3>1, <3>2, Growing
    <3> QED BY <3>1, <3>3, PnlAppend
  <2>2. e.fees \in Int /\ InitialEquity \in Nat
        /\ e.equity = InitialEquity + TotalPnl(e.trades) - e.fees
    BY <1>1, BacktestAssumption DEF Accounted
  <2>3. e.fees + com \in Int
        /\ e.equity - com = InitialEquity + TotalPnl(e.trades) - (e.fees + com)
    BY ONLY <1>3, <2>1, <2>2
  <2>4. QED
    BY <1>3, <1>7, <2>3 DEF Accounted
<1>11. Charted(d.curve, d.equity, d.trades)
  <2>1. /\ IsSeq(e.curve) /\ e.curve # <<>> /\ \A k \in DOMAIN e.curve : e.curve[k] \in Int
        /\ NoneWon(e.trades) => Falling(e.curve) /\ e.equity <= e.curve[Len(e.curve)]
    BY <1>1 DEF Charted
  <2>2. e.curve[Len(e.curve)] \in Int
    <3>1. Len(e.curve) \in DOMAIN e.curve
      BY <2>1, SeqDomain, EmptySeq
    <3> QED BY <2>1, <3>1
  <2>3. NoneWon(e.trades) => Falling(e.curve) /\ e.equity - com <= e.curve[Len(e.curve)]
    BY <1>1, <1>3, <2>1, <2>2
  <2>4. QED
    BY <1>7, <2>1, <2>3 DEF Charted
<1>12. EngineOK(d, lo, i)
  BY <1>1, <1>7, <1>9, <1>10, <1>11 DEF EngineOK
<1>13. QED
  BY <1>5, <1>12

LEMMA EngineBar ==
    ASSUME NEW e, NEW lo \in Int, NEW i \in Int, lo <= i, EngineOK(e, lo, i - 1),
           NEW bar, bar.close \in Nat \ {0}, NEW history
    PROVE  EngineOK(ProcessBar(e, i, bar, history), lo, i)
<1>1. PICK a : a = [e EXCEPT !.curve = Append(@, e.equity)]
  OBVIOUS
<1>2. EngineOK(a, lo, i)
  BY <1>1, EngineTick
<1>3. PICK b : b = CheckStops(a, i, bar)
  OBVIOUS
<1>4. b = a \/ (a.position # Flat /\ \E reason : b = ExitPosition(a, i, bar, reason))
  <2>1. CASE \/ a.position # Flat /\ bar.low <= a.position.stop
             \/ /\ a.position # Flat
                /\ bar.low > a.position.stop /\ bar.high >= a.position.target
    <3>1. \/ b = ExitPosition(a, i, bar, "STOP_LOSS")
          \/ b = ExitPosition(a, i, bar, "TAKE_PROFIT")
      BY <1>3, <2>1 DEF CheckStops
    <3> QED BY <2>1, <3>1
  <2>3. CASE /\ ~(a.position # Flat /\ bar.low <= a.position.stop)
             /\ ~(/\ a.position # Flat
                  /\ bar.low > a.position.stop /\ bar.high >= a.position.target)
    <3>1. b = a
      BY <1>3, <2>3 DEF CheckStops
    <3> QED BY <3>1
  <2>4. QED
    BY <2>1, <2>3
<1>5. EngineOK(b, lo, i)
  BY <1>2, <1>4, EngineExit
<1>6. PICK g : g = Strategy(job.strategy, bar, history, job.bias)
  OBVIOUS
<1>7. PICK d : d = Act(b, i, bar, g)
  OBVIOUS
<1>8. \/ d = b
      \/ d = EnterLong(b, i, bar, g)
      \/ b.position # Flat /\ d = ExitPosition(b, i, bar, "SIGNAL")
  <2>1. CASE g.action = "BUY" /\ b.position = Flat
    <3>1. d = EnterLong(b, i, bar, g)
      BY <1>7, <2>1 DEF Act
    <3> QED BY <3>1
  <2>2. CASE /\ ~(g.action = "BUY" /\ b.position = Flat)
             /\ g.action = "SELL" /\ b.position # Flat
    <3>1. d = ExitPosition(b, i, bar, "SIGNAL")
      BY <1>7, <2>2 DEF Act
    <3> QED BY <2>2, <3>1
  <2>3. CASE /\ ~(g.action = "BUY" /\ b.position = Flat)
             /\ ~(g.action = "SELL" /\ b.position # Flat)
    <3>1. d = b
      BY <1>7, <2>3 DEF Act
    <3> QED BY <3>1
  <2>4. QED
    BY <2>1, <2>2, <2>3
<1>9. EngineOK(d, lo, i)
  BY <1>5, <1>8, EngineExit, EngineEnter
<1>10. ProcessBar(e, i, bar, history) = d
  BY <1>1, <1>3, <1>6, <1>7 DEF ProcessBar
<1>11. QED
  BY <1>9, <1>10

(* A run that rates above 0 has won a trade. *)
LEMMA SharpeEarned ==
    ASSUME NEW e, NEW lo, NEW i, EngineOK(e, lo, i), NEW sharpe \in SharpesOf(e)
    PROVE  sharpe \in Int /\ (sharpe > 0 => \E n \in DOMAIN e.trades : e.trades[n].pnl > 0)
<1>1. Sharpes \subseteq Int
  BY BacktestAssumption
<1>2. \/ sharpe = 0
      \/ sharpe \in Sharpes /\ sharpe < 0
      \/ sharpe \in Sharpes /\ ~Falling(e.curve)
  BY DEF SharpesOf, Falling
<1>3. sharpe \in Int
  <2>1. CASE sharpe = 0
    BY ONLY <2>1
  <2>2. CASE sharpe \in Sharpes
    BY ONLY <1>1, <2>2
  <2> QED BY ONLY <1>2, <2>1, <2>2
<1>4. ASSUME sharpe > 0 PROVE ~Falling(e.curve)
  BY <1>2, <1>3, <1>4
<1>5. ASSUME sharpe > 0 PROVE \E n \in DOMAIN e.trades : e.trades[n].pnl > 0
  <2>1. ~NoneWon(e.trades)
    BY <1>4, <1>5 DEF EngineOK, Charted
  <2>2. PICK n \in DOMAIN e.trades : ~(e.trades[n].pnl <= 0)
    BY <2>1 DEF NoneWon
  <2>3. e.trades[n].pnl \in Int
    BY DEF EngineOK, Within
  <2>4. e.trades[n].pnl > 0
    BY <2>2, <2>3
  <2> QED BY <2>4
<1>6. QED
  BY <1>3, <1>5

(* A winning trade counts. *)
LEMMA WinCounts ==
    ASSUME NEW t, IsSeq(t), NEW n \in DOMAIN t, t[n].pnl > 0
    PROVE  Len(t) > 0 /\ Cardinality(Wins(t)) > 0
<1>1. Len(t) \in Nat /\ DOMAIN t = 1..Len(t)
  BY SeqDomain
<1>2. IsFiniteSet(Wins(t))
  <2>1. IsFiniteSet(1..Len(t)) /\ Wins(t) \subseteq 1..Len(t)
    BY <1>1, FS_Interval DEF Wins
  <2> QED BY <2>1, FS_Subset
<1>3. n \in Wins(t)
  BY DEF Wins
<1>4. Cardinality(Wins(t)) \in Nat /\ Cardinality(Wins(t)) # 0
  <2>1. Cardinality(Wins(t)) \in Nat
    BY <1>2, FS_CardinalityType
  <2>2. Cardinality(Wins(t)) = 0 <=> Wins(t) = {}
    BY <1>2, FS_EmptySet
  <2> QED BY <1>3, <2>1, <2>2
<1>5. Len(t) > 0
  BY ONLY <1>1, n \in DOMAIN t
<1>6. QED
  BY <1>4, <1>5

-----------------------------------------------------------------------------
(* Back-tests: what holds of the job, segment by segment. *)

ResultOK(r, s) ==
    /\ Within(r.trades, s.from, s.to)
    /\ r.metrics.sharpe \in Int
    /\ r.metrics.winning = Cardinality(Wins(r.trades))
    /\ r.metrics.sharpe > 0 => \E n \in DOMAIN r.trades : r.trades[n].pnl > 0

Replaying(S, s, a, e) ==
    /\ a <= S[s].to - S[s].from + 1
    /\ EngineOK(e, S[s].from, S[s].from + a - 1)

BackInv ==
    /\ SomeJob
    /\ IsSeq(results) /\ segment \in Nat /\ at \in Nat
    /\ segment = 0 => results = <<>>
    /\ segment > 0 => /\ job.tape # <<>> /\ segment \in DOMAIN Segments
                      /\ segment \in {Len(results), Len(results) + 1}
                      /\ Accounted(engine)
    /\ segment > Len(results) => Replaying(Segments, segment, at, engine)
    /\ \A k \in DOMAIN results : ResultOK(results[k], Segments[k])
    /\ RobustEarnedUnseen

LEMMA SegmentsKept == ASSUME job' = job PROVE Segments' = Segments
<1>1. WindowSize' = WindowSize
  BY DEF WindowSize
<1>2. Split' = Split
  BY <1>1 DEF Split
<1>3. \A k : InSample(k)' = InSample(k) /\ OutOfSample(k)' = OutOfSample(k)
  BY <1>1, <1>2 DEF InSample, OutOfSample
<1>4. QED
  BY <1>1, <1>2, <1>3 DEF Segments

LEMMA BackInit == ASSUME LabInit PROVE BackInv
<1>1. /\ job \in Jobs \/ job = NoJob
      /\ segment = 0 /\ at = 0 /\ results = <<>> /\ verdict = NoVerdict
  <2>1. BacktestInit(Jobs) \/ BacktestInit({NoJob})
    BY DEF LabInit
  <2> QED BY <2>1 DEF BacktestInit
<1>2. SomeJob
  BY <1>1 DEF SomeJob
<1>3. IsSeq(results) /\ segment \in Nat /\ at \in Nat /\ Len(results) = 0
  BY <1>1, NoTrades
<1>4. RobustEarnedUnseen
  BY <1>1 DEF RobustEarnedUnseen, NoVerdict
<1>5. ~(segment > 0) /\ ~(segment > Len(results)) /\ DOMAIN results = {}
  BY <1>1, <1>3
<1>6. QED
  BY <1>1, <1>2, <1>3, <1>4, <1>5 DEF BackInv

(* Whatever leaves the replay alone has but the verdict to answer for. *)
LEMMA BackSame ==
    ASSUME BackInv, UNCHANGED <<job, segment, at, engine, results>>, RobustEarnedUnseen'
    PROVE  BackInv'
<1>1. Segments' = Segments
  BY SegmentsKept
<1>2. PICK S : S = Segments
  OBVIOUS
<1>3. S = Segments'
  BY <1>1, <1>2
<1>4. SomeJob'
  BY DEF BackInv, SomeJob
<1>5. /\ IsSeq(results') /\ segment' \in Nat /\ at' \in Nat
      /\ segment' = 0 => results' = <<>>
      /\ segment' > 0 => /\ job'.tape # <<>> /\ segment' \in DOMAIN S
                         /\ segment' \in {Len(results'), Len(results') + 1}
                         /\ Accounted(engine')
      /\ segment' > Len(results') => Replaying(S, segment', at', engine')
      /\ \A k \in DOMAIN results' : ResultOK(results'[k], S[k])
  BY <1>2 DEF BackInv
<1>6. QED
  BY <1>3, <1>4, <1>5 DEF BackInv

LEMMA BackRefuse == ASSUME BackInv, Refuse PROVE BackInv'
<1>1. RobustEarnedUnseen'
  BY DEF Refuse, RobustEarnedUnseen
<1>2. QED
  BY <1>1, BackSame DEF Refuse

LEMMA BackConclude == ASSUME BackInv, Conclude PROVE BackInv'
<1>1. results' = results /\ UNCHANGED <<job, segment, at, engine, results>>
  BY DEF Conclude
<1>2. ASSUME verdict' = "robust" PROVE SharpeSum(TRUE) > 0
  <2>1. IsRobust
    BY <1>2 DEF Conclude
  <2> QED BY <2>1 DEF IsRobust
<1>3. ASSUME SharpeSum(TRUE) > 0
      PROVE  \E k \in DOMAIN results : results[k].oos /\ Len(results[k].trades) > 0
                                       /\ results[k].metrics.winning > 0
  <2> DEFINE f == [i \in DOMAIN results |->
                     IF results[i].oos = TRUE THEN results[i].metrics.sharpe ELSE 0]
  <2>1. SumOf(f) > 0
    BY <1>3 DEF SharpeSum
  <2>2. PICK n \in Nat : n = Len(results) /\ DOMAIN results = 1..n
    BY SeqDomain DEF BackInv
  <2>3. \A k \in DOMAIN results : ResultOK(results[k], Segments[k])
    BY DEF BackInv
  <2>4. f \in [1..n -> Int]
    <3>1. \A k \in 1..n : results[k].metrics.sharpe \in Int
      BY <2>2, <2>3 DEF ResultOK
    <3> QED BY <2>2, <3>1
  <2>5. PICK k \in 1..n : f[k] > 0
    <3> HIDE DEF f
    <3> QED BY <2>1, <2>4, SumOfPositive
  <2>6. results[k].oos = TRUE /\ results[k].metrics.sharpe > 0
    <3>1. k \in DOMAIN results
      BY <2>2
    <3>2. f[k] = IF results[k].oos = TRUE THEN results[k].metrics.sharpe ELSE 0
      BY <3>1
    <3> HIDE DEF f
    <3>3. CASE results[k].oos = TRUE
      BY <2>5, <3>2, <3>3
    <3>4. CASE results[k].oos # TRUE
      BY <2>5, <3>2, <3>4
    <3> QED BY <3>3, <3>4
  <2>7. ResultOK(results[k], Segments[k])
    BY <2>2, <2>3
  <2>8. PICK m \in DOMAIN results[k].trades : results[k].trades[m].pnl > 0
    BY <2>6, <2>7 DEF ResultOK
  <2>9. IsSeq(results[k].trades)
        /\ results[k].metrics.winning = Cardinality(Wins(results[k].trades))
    BY <2>7 DEF ResultOK, Within
  <2>10. Len(results[k].trades) > 0 /\ Cardinality(Wins(results[k].trades)) > 0
    BY <2>8, <2>9, WinCounts
  <2>11. QED
    BY <2>2, <2>6, <2>9, <2>10
<1>4. RobustEarnedUnseen'
  BY <1>1, <1>2, <1>3 DEF RobustEarnedUnseen
<1>5. QED
  BY <1>1, <1>4, BackSame

LEMMA BackNextSegment == ASSUME BackInv, NextSegment PROVE BackInv'
<1>1. /\ job' = job /\ results' = results /\ verdict' = verdict
      /\ segment' = segment + 1 /\ at' = 0 /\ engine' = NewEngine
      /\ segment = Len(results) /\ segment < Len(Segments) /\ job.tape # <<>>
  BY DEF NextSegment
<1>2. PICK S : S = Segments
  OBVIOUS
<1>3. S = Segments'
  BY <1>1, <1>2, SegmentsKept
<1>4. SomeJob /\ IsSeq(results) /\ segment \in Nat /\ RobustEarnedUnseen
      /\ \A k \in DOMAIN results : ResultOK(results[k], S[k])
  BY <1>2 DEF BackInv
<1>5. /\ Len(S) \in Nat /\ DOMAIN S = 1..Len(S)
      /\ \A k \in DOMAIN S : S[k].from \in Int /\ S[k].to \in Int /\ S[k].from <= S[k].to
  BY <1>1, <1>2, <1>4, SegmentsApart
<1>6. /\ segment' \in Nat /\ segment' > 0 /\ segment' \in DOMAIN S
      /\ segment' = Len(results') + 1
  BY <1>1, <1>2, <1>4, <1>5
<1>7. Replaying(S, segment', at', engine')
  <2>1. PICK s : s = segment'
    OBVIOUS
  <2>2. 0 <= S[s].to - S[s].from + 1
    BY <1>5, <1>6, <2>1
  <2>3. EngineOK(NewEngine, S[s].from, S[s].from + 0 - 1)
    BY EngineNew
  <2> QED BY <1>1, <2>1, <2>2, <2>3 DEF Replaying
<1>8. Accounted(engine')
  <2>1. EngineOK(NewEngine, 0, 0)
    BY EngineNew
  <2> QED BY <1>1, <2>1 DEF EngineOK
<1>9. RobustEarnedUnseen'
  BY <1>1, <1>4 DEF RobustEarnedUnseen
<1>10. SomeJob'
  BY <1>1, <1>4 DEF SomeJob
<1>11. QED
  BY <1>1, <1>3, <1>4, <1>6, <1>7, <1>8, <1>9, <1>10 DEF BackInv

(* A segment is replayed: where it is on the tape. *)
LEMMA Replayed ==
    ASSUME BackInv, segment > Len(results)
    PROVE  LET s == Segments[segment] IN
           /\ segment \in Nat \ {0} /\ Len(results) \in Nat /\ segment = Len(results) + 1
           /\ segment \in DOMAIN Segments /\ job.tape # <<>>
           /\ s.from \in Int /\ s.to \in Int /\ s.from <= s.to
           /\ 1 <= s.from /\ s.to <= Len(job.tape) /\ at \in Nat
           /\ at <= s.to - s.from + 1 /\ EngineOK(engine, s.from, s.from + at - 1)
           /\ \A j \in s.from..s.to : job.tape[j].close \in Nat \ {0}
<1>1. segment \in Nat /\ at \in Nat /\ SomeJob /\ Len(results) \in Nat
  BY SeqDomain DEF BackInv
<1>2. segment > 0
  BY <1>1
<1>3. job.tape # <<>> /\ segment \in DOMAIN Segments
      /\ segment \in {Len(results), Len(results) + 1}
  BY <1>2 DEF BackInv
<1>4. segment = Len(results) + 1
  BY <1>1, <1>3
<1>5. PICK s : s = Segments[segment]
  OBVIOUS
<1>6. /\ s.from \in Int /\ s.to \in Int /\ s.from <= s.to
      /\ 1 <= s.from /\ s.to <= Len(job.tape)
  BY <1>1, <1>3, <1>5, SegmentsApart
<1>7. at <= s.to - s.from + 1 /\ EngineOK(engine, s.from, s.from + at - 1)
  BY <1>5 DEF BackInv, Replaying
<1>8. \A j \in s.from..s.to : job.tape[j].close \in Nat \ {0}
  <2>1. /\ Len(job.tape) \in Nat
        /\ \A j \in 1..Len(job.tape) : job.tape[j].close \in Nat \ {0}
    BY <1>1, JobType
  <2>2. \A j \in s.from..s.to : j \in 1..Len(job.tape)
    BY ONLY <1>6, <2>1
  <2> QED BY <2>1, <2>2
<1>9. QED
  BY <1>1, <1>2, <1>3, <1>4, <1>5, <1>6, <1>7, <1>8

LEMMA BackBar == ASSUME BackInv, Bar PROVE BackInv'
<1>1. /\ job' = job /\ segment' = segment /\ results' = results /\ verdict' = verdict
      /\ segment > Len(results) /\ at' = at + 1
      /\ at < Segments[segment].to - Segments[segment].from + 1
  BY DEF Bar
<1>2. PICK S, s : S = Segments /\ s = Segments[segment]
  OBVIOUS
<1>3. S = Segments'
  BY <1>1, <1>2, SegmentsKept
<1>4. /\ segment \in Nat \ {0} /\ segment = Len(results) + 1
      /\ segment \in DOMAIN S /\ job.tape # <<>> /\ Len(results) \in Nat
      /\ s.from \in Int /\ s.to \in Int /\ at \in Nat
      /\ EngineOK(engine, s.from, s.from + at - 1)
      /\ \A j \in s.from..s.to : job.tape[j].close \in Nat \ {0}
  BY <1>1, <1>2, Replayed
<1>5. PICK i, h : i = s.from + at /\ h = SubSeq(job.tape, i - at, i - 1)
  OBVIOUS
<1>6. /\ i \in Int /\ s.from <= i /\ i <= s.to /\ i - 1 = s.from + at - 1
      /\ i = s.from + (at + 1) - 1 /\ at + 1 <= s.to - s.from + 1
  <2>1. at < s.to - s.from + 1
    BY <1>1, <1>2
  <2>2. PICK a, b, c : a = s.from /\ b = s.to /\ c = at
    OBVIOUS
  <2>3. a \in Int /\ b \in Int /\ c \in Nat /\ c < b - a + 1 /\ i = a + c
    BY <1>4, <1>5, <2>1, <2>2
  <2>4. /\ i \in Int /\ a <= i /\ i <= b /\ i - 1 = a + c - 1
        /\ i = a + (c + 1) - 1 /\ c + 1 <= b - a + 1
    BY ONLY <2>3
  <2> QED BY <2>2, <2>4
<1>7. engine' = ProcessBar(engine, i, job.tape[i], h)
  BY <1>2, <1>5 DEF Bar
<1>8. EngineOK(engine', s.from, i)
  <2>1. PICK bar : bar = job.tape[i]
    OBVIOUS
  <2>2. bar.close \in Nat \ {0}
    BY <1>4, <1>6, <2>1
  <2>3. EngineOK(engine, s.from, i - 1)
    BY <1>4, <1>6
  <2>4. EngineOK(ProcessBar(engine, i, bar, h), s.from, i)
    BY <1>4, <1>6, <2>2, <2>3, EngineBar
  <2> QED BY <1>7, <2>1, <2>4
<1>9. Replaying(S, segment', at', engine')
  <2>1. S[segment'] = s
    BY <1>1, <1>2
  <2>2. at' <= s.to - s.from + 1 /\ EngineOK(engine', s.from, s.from + at' - 1)
    BY <1>1, <1>6, <1>8
  <2> QED BY <2>1, <2>2 DEF Replaying
<1>10. Accounted(engine')
  BY <1>8 DEF EngineOK
<1>11. RobustEarnedUnseen' /\ SomeJob'
  BY <1>1 DEF BackInv, RobustEarnedUnseen, SomeJob
<1>12. IsSeq(results) /\ \A k \in DOMAIN results : ResultOK(results[k], S[k])
  BY <1>2 DEF BackInv
<1>13. segment' \in Nat /\ at' \in Nat /\ segment' # 0
       /\ segment' \in {Len(results'), Len(results') + 1}
  BY <1>1, <1>4
<1>14. QED
  BY <1>1, <1>3, <1>4, <1>9, <1>10, <1>11, <1>12, <1>13 DEF BackInv

LEMMA BackEndSegment == ASSUME BackInv, EndSegment PROVE BackInv'
<1>1. /\ job' = job /\ segment' = segment /\ at' = at /\ verdict' = verdict
      /\ segment > Len(results)
      /\ at = Segments[segment].to - Segments[segment].from + 1
  BY DEF EndSegment
<1>2. PICK S, s : S = Segments /\ s = Segments[segment]
  OBVIOUS
<1>3. S = Segments'
  BY <1>1, <1>2, SegmentsKept
<1>4. /\ segment \in Nat \ {0} /\ segment = Len(results) + 1
      /\ segment \in DOMAIN S /\ job.tape # <<>> /\ Len(results) \in Nat
      /\ s.from \in Int /\ s.to \in Int /\ at \in Nat /\ s.from <= s.to
      /\ EngineOK(engine, s.from, s.from + at - 1)
      /\ \A j \in s.from..s.to : job.tape[j].close \in Nat \ {0}
  BY <1>1, <1>2, Replayed
<1>5. PICK bar, e : bar = job.tape[s.to] /\ e = EndOfData(engine, s.to, bar)
  OBVIOUS
<1>6. PICK sharpe, r :
          /\ sharpe \in SharpesOf(e)
          /\ engine' = e /\ results' = Append(results, r)
          /\ r = [oos |-> s.oos, trades |-> e.trades,
                  metrics |-> CalculateMetrics(e, sharpe),
                  valid |-> ValidateBacktestResult(sharpe,
                              CheckMemorizationRisk(job.coverage, s.from, s.to))]
  BY <1>2, <1>5 DEF EndSegment
<1>7. EngineOK(e, s.from, s.to)
  <2>1. EngineOK(engine, s.from, s.to)
    <3>1. s.from + at - 1 = s.to
      BY <1>1, <1>2, <1>4
    <3> QED BY <1>4, <3>1
  <2>2. bar.close \in Nat \ {0}
    BY <1>4, <1>5
  <2>3. e = engine \/ (engine.position # Flat
                       /\ e = ExitPosition(engine, s.to, bar, "END_OF_DATA"))
    BY <1>5 DEF EndOfData
  <2>4. QED
    BY <1>4, <2>1, <2>2, <2>3, EngineExit
<1>8. ResultOK(r, s)
  <2>1. r.trades = e.trades /\ r.metrics = CalculateMetrics(e, sharpe)
    BY <1>6
  <2>2. /\ r.metrics.sharpe = sharpe
        /\ r.metrics.winning = Cardinality(Wins(e.trades))
    BY <2>1 DEF CalculateMetrics
  <2>3. sharpe \in Int /\ (sharpe > 0 => \E n \in DOMAIN e.trades : e.trades[n].pnl > 0)
    BY <1>6, <1>7, SharpeEarned
  <2>4. Within(e.trades, s.from, s.to)
    BY <1>7 DEF EngineOK
  <2>5. QED
    BY <2>1, <2>2, <2>3, <2>4 DEF ResultOK
<1>9. IsSeq(results) /\ RobustEarnedUnseen
      /\ \A k \in DOMAIN results : ResultOK(results[k], S[k])
  BY <1>2 DEF BackInv
<1>10. Grown(results, r, results')
  BY <1>6, <1>9, Growing
<1>11. /\ IsSeq(results') /\ Len(results') = segment' /\ segment' \in Nat \ {0}
       /\ segment' \in DOMAIN S
       /\ \A k \in DOMAIN results' : ResultOK(results'[k], S[k])
  <2>1. PICK t : t = results'
    OBVIOUS
  <2>2. /\ DOMAIN results = 1..Len(results) /\ DOMAIN t = 1..segment
        /\ Len(t) = segment /\ t[segment] = r /\ IsSeq(t)
        /\ \A k \in DOMAIN results : t[k] = results[k]
    BY <1>4, <1>10, <2>1 DEF Grown
  <2>3. ASSUME NEW k \in 1..segment PROVE ResultOK(t[k], S[k])
    <3>1. k \in DOMAIN results \/ k = segment
      BY <1>4, <2>2
    <3>2. CASE k \in DOMAIN results
      BY <1>9, <2>2, <3>2
    <3>3. CASE k = segment
      BY <1>2, <1>8, <2>2, <3>3
    <3>4. QED
      BY <3>1, <3>2, <3>3
  <2>4. QED
    BY <1>1, <1>4, <2>1, <2>2, <2>3
<1>12. RobustEarnedUnseen'
  <2> SUFFICES ASSUME verdict = "robust"
               PROVE  \E k \in DOMAIN results' :
                         results'[k].oos /\ Len(results'[k].trades) > 0
                         /\ results'[k].metrics.winning > 0
    BY <1>1 DEF RobustEarnedUnseen
  <2>1. PICK k \in DOMAIN results : results[k].oos /\ Len(results[k].trades) > 0
                                    /\ results[k].metrics.winning > 0
    BY <1>9 DEF RobustEarnedUnseen
  <2>2. k \in DOMAIN results' /\ results'[k] = results[k]
    BY <1>10 DEF Grown
  <2> QED BY <2>1, <2>2
<1>13. QED
  <2>1. Accounted(engine') /\ SomeJob'
    BY <1>1, <1>6, <1>7 DEF EngineOK, BackInv, SomeJob
  <2>2. at' \in Nat /\ ~(segment' > Len(results')) /\ job'.tape # <<>>
    BY <1>1, <1>4, <1>11
  <2> QED BY <1>3, <1>11, <1>12, <2>1, <2>2 DEF BackInv

LEMMA BackStep == ASSUME BackInv, [LabNext]_labVars PROVE BackInv'
<1>1. CASE UNCHANGED backtestVars
  <2>1. UNCHANGED <<job, segment, at, engine, results>> /\ verdict' = verdict
    BY <1>1 DEF backtestVars
  <2>2. RobustEarnedUnseen'
    BY <2>1 DEF BackInv, RobustEarnedUnseen
  <2> QED BY <2>1, <2>2, BackSame
<1>2. CASE Refuse
  BY <1>2, BackRefuse
<1>3. CASE NextSegment
  BY <1>3, BackNextSegment
<1>4. CASE Bar
  BY <1>4, BackBar
<1>5. CASE EndSegment
  BY <1>5, BackEndSegment
<1>6. CASE Conclude
  BY <1>6, BackConclude
<1>7. CASE UNCHANGED labVars
  <2>1. UNCHANGED backtestVars
    BY <1>7 DEF labVars
  <2> QED BY <1>1, <2>1
<1>8. CASE LabNext
  BY ONLY <1>8, <1>1, <1>2, <1>3, <1>4, <1>5, <1>6 DEF LabNext, ByResearch, ByEnsemble
<1>9. QED
  BY <1>7, <1>8

LEMMA BackAlways == Spec => []BackInv
<1>1. LabInit => BackInv
  BY BackInit
<1>2. BackInv /\ [LabNext]_labVars => BackInv'
  BY BackStep
<1>3. QED
  BY <1>1, <1>2, PTL DEF Spec

(* Trades lie where they were made: for any tapes, strategies, sizes of window and
   split, a trade of a segment lies within its bars and after the one before it; no bar
   is in two segments, the part a window is fitted on ends before the part it is tried
   on begins; and the engine has the equity it began with, its trades' gains and its
   fees apart (backtesting/walk_forward.py:115, backtesting/engine.py:88). *)
THEOREM WindowsAlwaysApart == Spec => []WindowsApart
<1>1. ASSUME BackInv PROVE WindowsApart
  <2>1. ASSUME NEW k \in DOMAIN results
        PROVE  LET t == results[k].trades
               IN  /\ \A n \in DOMAIN t :
                         /\ Segments[k].from <= t[n].from /\ t[n].from <= t[n].to
                         /\ t[n].to <= Segments[k].to
                   /\ \A n \in 2..Len(t) : t[n - 1].to <= t[n].from
    <3>1. Within(results[k].trades, Segments[k].from, Segments[k].to)
      BY <1>1 DEF BackInv, ResultOK
    <3> QED BY <3>1 DEF Within
  <2>2. \A k, l \in DOMAIN Segments : k < l => Segments[k].to < Segments[l].from
    BY <1>1, SegmentsApart DEF BackInv
  <2>3. segment > 0 => engine.equity = InitialEquity + TotalPnl(engine.trades) - engine.fees
    BY <1>1 DEF BackInv, Accounted
  <2>4. QED
    BY <2>1, <2>2, <2>3 DEF WindowsApart
<1>2. BackInv => WindowsApart
  BY <1>1
<1>3. QED
  BY <1>2, BackAlways, PTL

(* Robust means earned: whatever the tape, the windows and the sign the square root
   gives each Sharpe ratio of a run whose curve has not only fallen, a walk called
   robust has out of sample a window with a trade that won
   (backtesting/walk_forward.py:168, backtesting/metrics.py:60). *)
THEOREM RobustAlwaysEarned == Spec => []RobustEarnedUnseen
<1>1. BackInv => RobustEarnedUnseen
  BY DEF BackInv
<1>2. QED
  BY <1>1, BackAlways, PTL

-----------------------------------------------------------------------------
(* The ensemble's book. *)

LEMMA Slips ==
    \A p \in Nat :
        /\ p + p \div 2000 \in Nat /\ p <= p + p \div 2000
        /\ 2000 * (p + p \div 2000) <= 2001 * p /\ 1999 * p <= 2000 * (p - p \div 2000)
        /\ p - p \div 2000 \in Nat /\ p - p \div 2000 <= p
        /\ p > 0 => p + p \div 2000 > 0 /\ p - p \div 2000 > 0
<1>1. \A p \in Nat : /\ p \div 2000 \in Nat /\ 2000 * (p \div 2000) <= p
                     /\ p > 0 => p \div 2000 < p
  OBVIOUS
<1>2. QED
  BY ONLY <1>1

LEMMA Values ==
    ASSUME NEW q \in Nat, NEW a \in Nat
    PROVE  /\ Value(q, a) \in Nat
           /\ NetOfFee(Value(q, a)) \in Nat /\ NetOfFee(Value(q, a)) <= Value(q, a)
           /\ \A b \in Nat : a <= b => Value(q, a) <= Value(q, b)
<1>1. \A m, n \in Nat : m \div 1000 \in Nat /\ (m <= n => m \div 1000 <= n \div 1000)
                        /\ m \div 1000 <= m
  OBVIOUS
<1>2. \A b \in Nat : q * a \in Nat /\ q * b \in Nat /\ (a <= b => q * a <= q * b)
  OBVIOUS
<1>3. \A b : Value(q, b) = (q * b) \div 1000
  BY ONLY TRUE DEF Value
<1>4. Value(q, a) \in Nat /\ \A b \in Nat : a <= b => Value(q, a) <= Value(q, b)
  BY ONLY <1>1, <1>2, <1>3, a \in Nat
<1>5. \A m : NetOfFee(m) = m - m \div 1000
  BY ONLY TRUE DEF NetOfFee
<1>6. QED
  BY ONLY <1>1, <1>4, <1>5

(* What a trade brings is below its cost when the price is 2% worse, and above it when the
   price is 4% better, fee and roundings included, once it is worth a dollar. *)
LEMMA GainOrLoss ==
    ASSUME NEW q \in Nat, NEW a \in Nat, NEW f \in Nat, Value(q, a) >= 100
    PROVE  /\ 100 * f <= 98 * a => NetOfFee(Value(q, f)) < Value(q, a)
           /\ 104 * a <= 100 * f => NetOfFee(Value(q, f)) > Value(q, a)
<1>1. PICK x, y, v, w : /\ x = q * a /\ y = q * f
                        /\ v = Value(q, a) /\ w = Value(q, f)
  OBVIOUS
<1>2. x \in Nat /\ y \in Nat
  BY <1>1
<1>3. v = x \div 1000 /\ w = y \div 1000 /\ v >= 100
  BY <1>1 DEF Value
<1>4. \A n \in Nat : /\ n \div 1000 \in Nat /\ 1000 * (n \div 1000) <= n
                     /\ n < 1000 * (n \div 1000) + 1000
  OBVIOUS
<1>5. /\ v \in Nat /\ 1000 * v <= x /\ x < 1000 * v + 1000
      /\ w \in Nat /\ 1000 * w <= y /\ y < 1000 * w + 1000
  BY ONLY <1>2, <1>3, <1>4
<1>6. PICK g : g = w \div 1000
  OBVIOUS
<1>7. g \in Nat /\ 1000 * g <= w
  BY ONLY <1>4, <1>5, <1>6
<1>8. NetOfFee(w) = w - g
  BY <1>6 DEF NetOfFee
<1>9. ASSUME 100 * f <= 98 * a PROVE w - g < v
  <2>1. \A m, n \in Nat : m <= n => q * m <= q * n
    OBVIOUS
  <2>2. q * (100 * f) <= q * (98 * a)
    BY <1>9, <2>1
  <2>3. 100 * y <= 98 * x
    <3>1. q * (100 * f) = 100 * (q * f) /\ q * (98 * a) = 98 * (q * a)
      OBVIOUS
    <3> QED BY <1>1, <2>2, <3>1
  <2> QED BY ONLY <1>2, <1>3, <1>5, <1>7, <2>3
<1>10. ASSUME 104 * a <= 100 * f PROVE w - g > v
  <2>1. \A m, n \in Nat : m <= n => q * m <= q * n
    OBVIOUS
  <2>2. q * (104 * a) <= q * (100 * f)
    BY <1>10, <2>1
  <2>3. 104 * x <= 100 * y
    <3>1. q * (100 * f) = 100 * (q * f) /\ q * (104 * a) = 104 * (q * a)
      OBVIOUS
    <3> QED BY <1>1, <2>2, <3>1
  <2> QED BY ONLY <1>2, <1>3, <1>5, <1>7, <2>3
<1>11. QED
  BY <1>1, <1>8, <1>9, <1>10

(* The stop is at least 3% of the entry away and the target 6%, but for a cent. *)
Placed(p) ==
    \/ p = None
    \/ /\ p.direction \in {"LONG", "SHORT"}
       /\ p.quantity \in Nat /\ p.entry \in Nat /\ p.stop \in Nat /\ p.target \in Nat
       /\ p.direction = "LONG" => /\ p.stop <= p.entry /\ 100 * p.stop <= 97 * p.entry
                                  /\ 106 * p.entry < 100 * p.target + 100
       /\ p.direction = "SHORT" => /\ p.entry <= p.stop /\ 100 * p.stop <= 103 * p.entry
                                   /\ 103 * p.entry < 100 * p.stop + 100
                                   /\ p.target <= p.entry /\ 100 * p.target <= 94 * p.entry

(* What a position brings suits the reason it is closed for. *)
Suits(p, proceeds, reason) ==
    LET cost == Value(p.quantity, p.entry)
    IN  /\ reason = "stop" => proceeds <= cost
        /\ Sizeable(p) => /\ reason = "stop" => proceeds < cost
                          /\ reason = "target" => proceeds > cost

Pays(t) ==
    /\ t.pnl \in Int
    /\ t.reason = "stop" => t.pnl <= 0
    /\ Sizeable(t) => /\ t.reason = "stop" => t.pnl < 0
                      /\ t.reason = "target" => t.pnl > 0

Invested(b) == IF b.position = None THEN 0 ELSE Value(b.position.quantity, b.position.entry)

Sellings(t) ==
    /\ IsSeq(t)
    /\ \A n \in DOMAIN t : Pays(t[n])

BookWhole(b) == b = [cash |-> b.cash, position |-> b.position, sold |-> b.sold, fees |-> b.fees]

BookOK(b) ==
    /\ BookWhole(b)
    /\ b.cash \in Nat /\ b.fees \in Nat
    /\ Placed(b.position) /\ Sellings(b.sold)
    /\ b.cash + b.fees + Invested(b) = InitialCash + TotalPnl(b.sold)

LEMMA SellingsSum == ASSUME NEW t, Sellings(t) PROVE TotalPnl(t) \in Int
<1>1. IsSeq(t) /\ \A n \in DOMAIN t : t[n].pnl \in Int
  BY DEF Sellings, Pays
<1>2. PICK x : x = [pnl |-> 0]
  OBVIOUS
<1>3. Grown(t, x, Append(t, x)) /\ x.pnl \in Int
  BY <1>1, <1>2, Growing
<1>4. QED
  BY <1>1, <1>3, PnlAppend

(* A position is closed for what suits the reason. *)
LEMMA BookClose ==
    ASSUME NEW b, BookOK(b), b.position # None, NEW i, NEW proceeds \in Nat, NEW reason,
           Suits(b.position, proceeds, reason)
    PROVE  BookOK(CloseAt(b, i, proceeds, reason))
<1>1. PICK p, v : p = b.position /\ v = Value(p.quantity, p.entry)
  OBVIOUS
<1>2. PICK x, w : /\ w = proceeds - v
                  /\ x = [direction |-> p.direction, from |-> p.at, to |-> i,
                          reason |-> reason, entry |-> p.entry, quantity |-> p.quantity,
                          pnl |-> w]
  OBVIOUS
<1>3. PICK t : t = Append(b.sold, x)
  OBVIOUS
<1>4. PICK d : d = CloseAt(b, i, proceeds, reason)
  OBVIOUS
<1>5. d = [b EXCEPT !.cash = @ + proceeds, !.position = None, !.sold = t]
  BY <1>1, <1>2, <1>3, <1>4 DEF CloseAt
<1>6. /\ BookWhole(d) /\ d.cash = b.cash + proceeds /\ d.position = None /\ d.sold = t
      /\ d.fees = b.fees
  BY <1>5 DEF BookOK, BookWhole
<1>7. v \in Nat
  BY <1>1, Values DEF BookOK, Placed
<1>8. Pays(x) /\ x.pnl = w /\ w \in Int
  <2>1. /\ x.pnl = w /\ x.reason = reason /\ x.entry = p.entry /\ x.quantity = p.quantity
        /\ w \in Int
    BY <1>2, <1>7
  <2>2. Sizeable(x) = Sizeable(p)
    BY <2>1 DEF Sizeable
  <2>3. /\ reason = "stop" => proceeds <= v
        /\ Sizeable(p) => /\ reason = "stop" => proceeds < v
                          /\ reason = "target" => proceeds > v
    BY <1>1 DEF Suits
  <2>4. /\ proceeds <= v => w <= 0
        /\ proceeds < v => w < 0
        /\ proceeds > v => w > 0
    BY ONLY <1>2, <1>7, proceeds \in Nat
  <2> HIDE DEF Sizeable
  <2> QED BY ONLY <2>1, <2>2, <2>3, <2>4 DEF Pays
<1>9. IsSeq(b.sold) /\ \A n \in DOMAIN b.sold : b.sold[n].pnl \in Int
  BY DEF BookOK, Sellings, Pays
<1>10. Grown(b.sold, x, t)
  BY <1>3, <1>9, Growing
<1>11. TotalPnl(t) = TotalPnl(b.sold) + w /\ TotalPnl(b.sold) \in Int
  BY <1>8, <1>9, <1>10, PnlAppend
<1>12. Sellings(t)
  <2>1. IsSeq(t)
    BY <1>10 DEF Grown
  <2>2. ASSUME NEW n \in DOMAIN t PROVE Pays(t[n])
    <3>1. n \in DOMAIN b.sold \/ n = Len(b.sold) + 1
      BY <1>10 DEF Grown
    <3>2. CASE n \in DOMAIN b.sold
      <4>1. t[n] = b.sold[n]
        BY <1>10, <3>2 DEF Grown
      <4> QED BY <3>2, <4>1 DEF BookOK, Sellings
    <3>3. CASE n = Len(b.sold) + 1
      <4>1. t[n] = x
        BY <1>10, <3>3 DEF Grown
      <4> QED BY <1>8, <4>1
    <3>4. QED
      BY <3>1, <3>2, <3>3
  <2> QED BY <2>1, <2>2 DEF Sellings
<1>13. d.cash + d.fees + Invested(d) = InitialCash + TotalPnl(d.sold)
  <2>1. b.cash + b.fees + v = InitialCash + TotalPnl(b.sold) /\ b.cash \in Nat /\ b.fees \in Nat
    BY <1>1 DEF BookOK, Invested
  <2>2. Invested(d) = 0
    BY <1>6 DEF Invested
  <2>3. InitialCash \in Nat
    BY EnsembleAssumption
  <2>4. (b.cash + proceeds) + b.fees + 0 = InitialCash + (TotalPnl(b.sold) + w)
    BY ONLY <1>2, <1>7, <1>11, <2>1, <2>3, proceeds \in Nat
  <2> QED BY <1>6, <1>11, <2>2, <2>4
<1>14. d.cash \in Nat /\ d.fees \in Nat
  BY <1>6 DEF BookOK
<1>15. BookOK(d)
  BY <1>6, <1>12, <1>13, <1>14 DEF BookOK, Placed
<1>16. QED
  BY <1>4, <1>15

LEMMA BookExit ==
    ASSUME NEW b, BookOK(b), NEW i, NEW bar
    PROVE  BookOK(CheckExit(b, i, bar))
<1>1. PICK p, reason : p = b.position /\ reason = IF p = None THEN "no" ELSE Hit(p, bar)
  OBVIOUS
<1>2. reason \in {"no", "stop", "target"}
  <2>1. Hit(p, bar) \in {"no", "stop", "target"}
    BY DEF Hit
  <2> QED BY <1>1, <2>1
<1>3. CASE reason = "no"
  <2>1. CheckExit(b, i, bar) = b
    BY <1>1, <1>3 DEF CheckExit
  <2> QED BY <2>1
<1>4. CASE reason # "no"
  <2>1. p # None
    BY <1>1, <1>4
  <2>2. PICK f, m : f = ExitFill(p, reason) /\ m = Proceeds(p, f)
    OBVIOUS
  <2>3. CheckExit(b, i, bar) = CloseAt(b, i, m, reason)
    BY <1>1, <1>4, <2>2 DEF CheckExit
  <2>4. /\ p.direction \in {"LONG", "SHORT"}
        /\ p.quantity \in Nat /\ p.entry \in Nat /\ p.stop \in Nat /\ p.target \in Nat
        /\ p.direction = "LONG" => /\ p.stop <= p.entry /\ 100 * p.stop <= 97 * p.entry
                                   /\ 106 * p.entry < 100 * p.target + 100
        /\ p.direction = "SHORT" => /\ p.entry <= p.stop /\ 100 * p.stop <= 103 * p.entry
                                    /\ 103 * p.entry < 100 * p.stop + 100
                                    /\ p.target <= p.entry /\ 100 * p.target <= 94 * p.entry
    BY <1>1, <2>1 DEF BookOK, Placed
  <2>5. PICK level, q, en, st, tg :
           /\ level = IF reason = "stop" THEN p.stop ELSE p.target
           /\ q = p.quantity /\ en = p.entry /\ st = p.stop /\ tg = p.target
    OBVIOUS
  <2>6. /\ level \in Nat /\ f = Slip(level, p.direction = "SHORT")
        /\ q \in Nat /\ en \in Nat /\ st \in Nat /\ tg \in Nat
    BY <2>2, <2>4, <2>5 DEF ExitFill
  <2>7. PICK k : k = IF p.direction = "LONG" THEN f ELSE 2 * en - f
    OBVIOUS
  <2>8. m = NetOfFee(Value(q, k))
    BY <2>2, <2>4, <2>5, <2>7 DEF Proceeds
  <2>9. /\ k \in Nat
        /\ reason = "stop" => k <= en
        /\ en >= 100 => /\ reason = "stop" => 100 * k <= 98 * en
                        /\ reason = "target" => 104 * en <= 100 * k
    <3>1. CASE p.direction = "LONG"
      <4>1. (p.direction = "SHORT") = FALSE /\ k = f
        BY <2>7, <3>1
      <4>2. f = level - level \div 2000
        BY ONLY <2>6, <4>1 DEF Slip
      <4>3. f \in Nat /\ f <= level /\ 1999 * level <= 2000 * f
        BY ONLY <2>6, <4>2, Slips
      <4>4. st <= en /\ 100 * st <= 97 * en /\ 106 * en < 100 * tg + 100
        BY <2>4, <2>5, <3>1
      <4>5. (reason = "stop" => level = st) /\ (reason = "target" => level = tg)
        BY <2>5
      <4>6. level = st => f <= en /\ 100 * f <= 98 * en
        BY ONLY <2>6, <4>3, <4>4
      <4>7. level = tg /\ en >= 100 => 104 * en <= 100 * f
        BY ONLY <2>6, <4>3, <4>4
      <4> QED BY ONLY <4>1, <4>3, <4>5, <4>6, <4>7
    <3>2. CASE p.direction = "SHORT"
      <4>1. (p.direction = "SHORT") = TRUE /\ k = 2 * en - f
        BY <2>7, <3>2
      <4>2. f = level + level \div 2000
        BY ONLY <2>6, <4>1 DEF Slip
      <4>3. f \in Nat /\ level <= f /\ 2000 * f <= 2001 * level
        BY ONLY <2>6, <4>2, Slips
      <4>4. /\ en <= st /\ 100 * st <= 103 * en /\ 103 * en < 100 * st + 100
            /\ tg <= en /\ 100 * tg <= 94 * en
        BY <2>4, <2>5, <3>2
      <4>5. level = (IF reason = "stop" THEN st ELSE tg) /\ "stop" # "target"
        BY <2>5
      <4>6. level = st => /\ 2 * en - f \in Nat /\ 2 * en - f <= en
                          /\ en >= 100 => 100 * (2 * en - f) <= 98 * en
        BY ONLY <2>6, <4>3, <4>4
      <4>7. level = tg => /\ 2 * en - f \in Nat
                          /\ 104 * en <= 100 * (2 * en - f)
        BY ONLY <2>6, <4>3, <4>4
      <4>8. CASE reason = "stop"
        <5>1. level = st /\ reason # "target"
          BY <4>5, <4>8
        <5> QED BY ONLY <4>1, <4>6, <5>1
      <4>9. CASE reason # "stop"
        <5>1. level = tg
          BY <4>5, <4>9
        <5> QED BY ONLY <4>1, <4>7, <4>9, <5>1
      <4> QED BY <4>8, <4>9
    <3>3. QED
      BY <2>4, <3>1, <3>2
  <2>10. m \in Nat /\ Suits(p, m, reason)
    <3>1. /\ Value(q, k) \in Nat /\ m \in Nat /\ m <= Value(q, k)
          /\ k <= en => Value(q, k) <= Value(q, en)
      BY <2>6, <2>8, <2>9, Values
    <3>2. Value(q, en) \in Nat
      BY <2>6, Values
    <3>3. reason = "stop" => m <= Value(q, en)
      BY ONLY <2>9, <3>1, <3>2
    <3>4. Value(q, en) >= 100 => /\ 100 * k <= 98 * en => m < Value(q, en)
                                 /\ 104 * en <= 100 * k => m > Value(q, en)
      BY <2>6, <2>8, <2>9, GainOrLoss
    <3>5. Sizeable(p) => en >= 100 /\ Value(q, en) >= 100
      BY <2>5 DEF Sizeable
    <3>6. Value(p.quantity, p.entry) = Value(q, en)
      BY <2>5
    <3>7. Sizeable(p) => /\ reason = "stop" => m < Value(q, en)
                         /\ reason = "target" => m > Value(q, en)
      BY ONLY <2>9, <3>4, <3>5
    <3>8. Suits(p, m, reason)
      BY ONLY <3>3, <3>6, <3>7 DEF Suits
    <3> QED BY <3>1, <3>8
  <2>11. QED
    BY <1>1, <2>1, <2>3, <2>10, BookClose
<1>5. QED
  BY <1>3, <1>4

LEMMA BookEnter ==
    ASSUME NEW b, BookOK(b), NEW i, NEW bar, bar.close \in Nat \ {0}, NEW decision \in Decisions
    PROVE  BookOK(EnterPosition(b, i, bar, decision))
<1>1. CASE b.position # None \/ ~decision.approved
  <2>1. EnterPosition(b, i, bar, decision) = b
    BY <1>1 DEF EnterPosition
  <2> QED BY <2>1
<1>2. CASE ~(b.position # None \/ ~decision.approved)
  <2>1. decision.direction \in {"LONG", "SHORT"}
    BY <1>2 DEF Decisions
  <2>2. PICK n, q, v, br :
          /\ n = Slip(bar.close, decision.direction = "LONG")
          /\ q = (1000 * (b.cash \div 10)) \div n
          /\ v = Value(q, n)
          /\ br = Bracket(decision.direction, n)
    OBVIOUS
  <2>3. PICK com, p :
          /\ com = v \div 1000
          /\ p = [direction |-> decision.direction, entry |-> n, quantity |-> q, at |-> i,
                  stop |-> br.stop, target |-> br.target]
    OBVIOUS
  <2>4. PICK d : d = EnterPosition(b, i, bar, decision)
    OBVIOUS
  <2>5. d = [b EXCEPT !.cash = @ - v - com, !.fees = @ + com, !.position = p]
    <3> DEFINE fill == Slip(bar.close, decision.direction = "LONG")
               quantity == (1000 * (b.cash \div 10)) \div fill
               value == Value(quantity, fill)
    <3>1. d = [b EXCEPT !.cash = @ - value - value \div 1000, !.fees = @ + value \div 1000,
                        !.position = [direction |-> decision.direction, entry |-> fill,
                                      quantity |-> quantity, at |-> i,
                                      stop |-> Bracket(decision.direction, fill).stop,
                                      target |-> Bracket(decision.direction, fill).target]]
      BY <1>2, <2>4 DEF EnterPosition
    <3>2. fill = n
      BY ONLY <2>2
    <3> HIDE DEF fill
    <3>3. quantity = q
      BY ONLY <2>2, <3>2
    <3> HIDE DEF quantity
    <3>4. value = v
      BY ONLY <2>2, <3>2, <3>3
    <3> HIDE DEF value
    <3> QED BY ONLY <2>2, <2>3, <3>1, <3>2, <3>3, <3>4
  <2>6. /\ BookWhole(d) /\ d.cash = b.cash - v - com /\ d.position = p /\ d.sold = b.sold
        /\ d.fees = b.fees + com
    BY <2>5 DEF BookOK, BookWhole
  <2>7. b.cash \in Nat /\ b.fees \in Nat /\ Sellings(b.sold)
        /\ b.cash + b.fees + 0 = InitialCash + TotalPnl(b.sold)
    BY <1>2 DEF BookOK, Invested
  <2>8. n \in Nat \ {0}
    <3>1. PICK x : x = bar.close
      OBVIOUS
    <3>2. n = Slip(x, decision.direction = "LONG") /\ x \in Nat /\ x > 0
      BY <2>2, <3>1
    <3>3. n = x + x \div 2000 \/ n = x - x \div 2000
      BY ONLY <3>2 DEF Slip
    <3> QED BY ONLY <3>2, <3>3, Slips
  <2>9. PICK c, a : c = b.cash /\ a = c \div 10
    OBVIOUS
  <2>10. c \in Nat /\ a \in Nat /\ 10 * a <= c
    <3>1. c \in Nat
      BY <2>7, <2>9
    <3>2. \A x \in Nat : x \div 10 \in Nat /\ 10 * (x \div 10) <= x
      OBVIOUS
    <3> QED BY ONLY <2>9, <3>1, <3>2
  <2>11. q \in Nat /\ q * n <= 1000 * a
    <3>1. \A x \in Nat, y \in Nat \ {0} : x \div y \in Nat /\ (x \div y) * y <= x
      OBVIOUS
    <3>2. q = (1000 * a) \div n /\ 1000 * a \in Nat
      BY <2>2, <2>9, <2>10
    <3> QED BY ONLY <2>8, <3>1, <3>2
  <2>12. v \in Nat /\ v <= a
    <3>1. v = (q * n) \div 1000
      BY ONLY <2>2 DEF Value
    <3>2. q * n \in Nat
      BY ONLY <2>8, <2>11
    <3>3. \A x, y \in Nat : x <= 1000 * y => x \div 1000 \in Nat /\ x \div 1000 <= y
      OBVIOUS
    <3> QED BY ONLY <2>10, <2>11, <3>1, <3>2, <3>3
  <2>13. com \in Nat /\ com <= v
    <3>1. \A x \in Nat : x \div 1000 \in Nat /\ x \div 1000 <= x
      OBVIOUS
    <3> QED BY ONLY <2>3, <2>12, <3>1
  <2>14. d.cash \in Nat /\ d.fees \in Nat
    <3>1. c - v - com \in Nat
      BY ONLY <2>10, <2>12, <2>13
    <3> QED BY <2>6, <2>7, <2>9, <2>13, <3>1
  <2>15. /\ p.direction = decision.direction /\ p.entry = n /\ p.quantity = q
         /\ p.stop = br.stop /\ p.target = br.target
    BY <2>3
  <2>16. p # None
    <3>1. None.direction = "none"
      BY DEF None
    <3> QED BY <2>1, <2>15, <3>1
  <2>17. Placed(p)
    <3>1. \A x \in Nat : /\ (x * 97) \div 100 \in Nat /\ (x * 97) \div 100 <= x
                         /\ 100 * ((x * 97) \div 100) <= 97 * x
                         /\ (x * 106) \div 100 \in Nat
                         /\ 106 * x < 100 * ((x * 106) \div 100) + 100
                         /\ (x * 103) \div 100 \in Nat /\ x <= (x * 103) \div 100
                         /\ 100 * ((x * 103) \div 100) <= 103 * x
                         /\ 103 * x < 100 * ((x * 103) \div 100) + 100
                         /\ (x * 94) \div 100 \in Nat /\ (x * 94) \div 100 <= x
                         /\ 100 * ((x * 94) \div 100) <= 94 * x
      OBVIOUS
    <3>2. n \in Nat
      BY <2>8
    <3>3. CASE decision.direction = "LONG"
      <4>1. br.stop = (n * 97) \div 100 /\ br.target = (n * 106) \div 100
        BY <2>2, <3>3 DEF Bracket
      <4>2. /\ br.stop \in Nat /\ br.target \in Nat /\ br.stop <= n
            /\ 100 * br.stop <= 97 * n /\ 106 * n < 100 * br.target + 100
        BY ONLY <3>1, <3>2, <4>1
      <4> QED BY <2>11, <2>15, <3>2, <3>3, <4>2 DEF Placed
    <3>4. CASE decision.direction = "SHORT"
      <4>1. br.stop = (n * 103) \div 100 /\ br.target = (n * 94) \div 100
        BY <2>2, <3>4 DEF Bracket
      <4>2. /\ br.stop \in Nat /\ br.target \in Nat /\ n <= br.stop
            /\ 100 * br.stop <= 103 * n /\ 103 * n < 100 * br.stop + 100
            /\ br.target <= n /\ 100 * br.target <= 94 * n
        BY ONLY <3>1, <3>2, <4>1
      <4> QED BY <2>11, <2>15, <3>2, <3>4, <4>2 DEF Placed
    <3>5. QED
      BY <2>1, <3>3, <3>4
  <2>18. d.cash + d.fees + Invested(d) = InitialCash + TotalPnl(d.sold)
    <3>1. Invested(d) = v
      BY <2>2, <2>6, <2>15, <2>16 DEF Invested
    <3>2. TotalPnl(b.sold) \in Int /\ InitialCash \in Nat
      BY <2>7, SellingsSum, EnsembleAssumption
    <3>3. (b.cash - v - com) + (b.fees + com) + v = InitialCash + TotalPnl(b.sold)
      BY ONLY <2>7, <2>12, <2>13, <3>2
    <3> QED BY <2>6, <3>1, <3>3
  <2>19. BookOK(d)
    BY <2>6, <2>7, <2>14, <2>17, <2>18 DEF BookOK
  <2>20. QED
    BY <2>4, <2>19
<1>3. QED
  BY <1>1, <1>2

BookInv ==
    /\ bars \in Tapes \cup {<<>>}
    /\ index \in Nat /\ index <= Len(bars)
    /\ status = "running" => index > 0
    /\ BookOK(book)

LEMMA BarsType ==
    ASSUME bars \in Tapes \cup {<<>>}
    PROVE  Len(bars) \in Nat /\ \A i \in 1..Len(bars) : bars[i].close \in Nat \ {0}
<1>1. CASE bars \in Tapes
  <2>1. IsSeq(bars) /\ \A i \in DOMAIN bars : bars[i].close \in Nat \ {0}
    BY <1>1, LabAssumption DEF IsSeq
  <2>2. Len(bars) \in Nat /\ DOMAIN bars = 1..Len(bars)
    BY <2>1, SeqDomain
  <2> QED BY <2>1, <2>2
<1>2. CASE bars = <<>>
  BY <1>2
<1>3. QED
  BY <1>1, <1>2

LEMMA BookInit == ASSUME LabInit PROVE BookInv
<1>1. EnsembleInit(Tapes) \/ EnsembleInit({<<>>})
  BY DEF LabInit
<1>2. /\ bars \in Tapes \cup {<<>>} /\ index = 0 /\ status = "pending"
      /\ book = [cash |-> InitialCash, position |-> None, sold |-> <<>>, fees |-> 0]
  BY <1>1 DEF EnsembleInit
<1>3. /\ book.cash = InitialCash /\ book.position = None /\ book.sold = <<>> /\ book.fees = 0
      /\ BookWhole(book)
  BY <1>2 DEF BookWhole
<1>4. Sellings(<<>>) /\ TotalPnl(<<>>) = 0
  BY NoTrades DEF Sellings
<1>5. InitialCash \in Nat
  BY EnsembleAssumption
<1>6. Invested(book) = 0
  BY <1>3 DEF Invested
<1>7. BookOK(book)
  BY <1>3, <1>4, <1>5, <1>6 DEF BookOK, Placed
<1>8. Len(bars) \in Nat
  BY <1>2, BarsType
<1>9. QED
  BY <1>2, <1>7, <1>8 DEF BookInv

LEMMA BookReplay == ASSUME BookInv, NEW decision \in Decisions, Replay(decision) PROVE BookInv'
<1>1. /\ bars' = bars /\ index' = index + 1 /\ index < Len(bars)
      /\ bars \in Tapes \cup {<<>>} /\ index \in Nat /\ BookOK(book)
  BY DEF BookInv, Replay
<1>2. Len(bars) \in Nat /\ \A i \in 1..Len(bars) : bars[i].close \in Nat \ {0}
  BY <1>1, BarsType
<1>3. index' \in Nat /\ index' > 0 /\ index' <= Len(bars) /\ index + 1 \in 1..Len(bars)
  BY <1>1, <1>2
<1>4. PICK bar, b : bar = bars[index + 1] /\ b = CheckExit(book, index + 1, bar)
  OBVIOUS
<1>5. book' = EnterPosition(b, index + 1, bar, decision)
  BY <1>4 DEF Replay
<1>6. bar.close \in Nat \ {0}
  BY <1>2, <1>3, <1>4
<1>7. BookOK(b)
  BY <1>1, <1>4, BookExit
<1>8. BookOK(book')
  BY <1>5, <1>6, <1>7, BookEnter
<1>9. QED
  BY <1>1, <1>3, <1>8 DEF BookInv

LEMMA BookComplete == ASSUME BookInv, Complete PROVE BookInv'
<1>1. /\ bars' = bars /\ index' = index /\ index = Len(bars) /\ status' = "complete"
      /\ bars \in Tapes \cup {<<>>} /\ index \in Nat /\ index > 0 /\ BookOK(book)
  BY DEF BookInv, Complete
<1>2. PICK last : last = bars[index].close
  OBVIOUS
<1>3. last \in Nat
  <2>1. index \in 1..Len(bars)
    BY <1>1
  <2> QED BY <1>1, <1>2, <2>1, BarsType
<1>4. CASE book.position = None
  <2>1. book' = book
    BY <1>4 DEF Complete
  <2> QED BY <1>1, <2>1 DEF BookInv
<1>5. CASE book.position # None
  <2>1. PICK m : m = NetOfFee(Value(book.position.quantity, last))
    OBVIOUS
  <2>2. book' = CloseAt(book, index, m, "end_of_data")
    BY <1>2, <1>5, <2>1 DEF Complete
  <2>3. m \in Nat
    BY <1>1, <1>3, <1>5, <2>1, Values DEF BookOK, Placed
  <2>4. BookOK(CloseAt(book, index, m, "end_of_data"))
    <3>1. Suits(book.position, m, "end_of_data")
      BY DEF Suits
    <3> QED BY <1>1, <1>5, <2>3, <3>1, BookClose
  <2>5. BookOK(book')
    BY <2>2, <2>4
  <2> QED BY <1>1, <2>5 DEF BookInv
<1>6. QED
  BY <1>4, <1>5

LEMMA BookStep == ASSUME BookInv, [LabNext]_labVars PROVE BookInv'
<1>1. CASE UNCHANGED ensembleVars
  BY <1>1 DEF ensembleVars, BookInv
<1>2. CASE LoadFails
  <2>1. UNCHANGED <<bars, index, book>> /\ status' = "failed"
    BY <1>2 DEF LoadFails
  <2> QED BY <2>1 DEF BookInv
<1>3. ASSUME NEW d \in Decisions, Replay(d) PROVE BookInv'
  BY <1>3, BookReplay
<1>4. CASE Complete
  BY <1>4, BookComplete
<1>5. CASE UNCHANGED labVars
  <2>1. UNCHANGED ensembleVars
    BY <1>5 DEF labVars
  <2> QED BY <1>1, <2>1
<1>6. CASE LabNext
  BY ONLY <1>6, <1>1, <1>2, <1>3, <1>4 DEF LabNext, ByResearch, ByBacktest
<1>7. QED
  BY <1>5, <1>6

LEMMA BookAlways == Spec => []BookInv
<1>1. LabInit => BookInv
  BY BookInit
<1>2. BookInv /\ [LabNext]_labVars => BookInv'
  BY BookStep
<1>3. QED
  BY <1>1, <1>2, PTL DEF Spec

(* A trade worth a dollar that left by its stop lost and one that left by its target gained,
   long or short, slippage and fee included; and no cent of the ensemble's book is lost: the
   cash, what the position cost and the fees of entries make up the money it began with and
   what its closed trades gained.  For any tapes, whatever the cycle decides and wherever
   divisions round (backtesting/ensemble.py:154). *)
THEOREM ExitsAlwaysPay == Spec => []ExitsPayAsNamed
<1>1. ASSUME BookInv PROVE ExitsPayAsNamed
  <2>1. BookReconciles
    BY <1>1 DEF BookInv, BookOK, Invested, TotalPnl, BookReconciles
  <2>2. \A k \in DOMAIN book.sold : Pays(book.sold[k])
    BY <1>1 DEF BookInv, BookOK, Sellings
  <2> HIDE DEF Sizeable
  <2> QED BY ONLY <2>1, <2>2 DEF ExitsPayAsNamed, Pays
<1>2. QED
  BY <1>1, BookAlways, PTL

(* A stop never gains, and the cash never runs out: what a stop sells brings no more than
   it cost, and an entry takes no more than there is. *)
StopsNeverGain ==
    /\ \A k \in DOMAIN book.sold : book.sold[k].reason = "stop" => book.sold[k].pnl <= 0
    /\ book.cash >= 0

(* A stop never gains, long or short, at any price and wherever divisions round, though a
   short is sold back at twice its entry less the price; and a short so sold never takes
   the cash below 0 (backtesting/ensemble.py:172). *)
THEOREM NoStopGains == Spec => []StopsNeverGain
<1>1. BookInv => StopsNeverGain
  BY DEF BookInv, BookOK, Sellings, Pays, StopsNeverGain
<1>2. QED
  BY <1>1, BookAlways, PTL
=============================================================================
