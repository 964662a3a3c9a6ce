--------------------------- MODULE MessageFold_proofs ---------------------------
(***************************************************************************)
(* What a loop over a list computes, whatever its step: a step is given as *)
(* a function, so that the lemmas speak of all of them.                    *)
(***************************************************************************)
EXTENDS MessageFold, TLAPS, WellFoundedInduction

(* Induction over the natural numbers, for a set instead of a predicate.    *)
LEMMA NatSet ==
    ASSUME NEW T, 0 \in T, \A n \in Nat : n \in T => n + 1 \in T
    PROVE  \A n \in Nat : n \in T
<1> SUFFICES ASSUME Nat \ T # {} PROVE FALSE
  OBVIOUS
<1>1. \E n \in Nat \ T : \A k \in Nat \ T : <<k, n>> \notin OpToRel(<, Nat)
  BY NatLessThanWellFounded, WFMin
<1>2. PICK n \in Nat \ T : \A k \in Nat \ T : ~(k < n)
  BY <1>1 DEF OpToRel
<1>3. n - 1 \in Nat /\ n - 1 < n /\ (n - 1) + 1 = n
  BY <1>2
<1>4. n - 1 \in T
  BY <1>2, <1>3
<1> QED BY <1>2, <1>3, <1>4

(* The values of a loop after each of the first n elements; the second form *)
(* does not say what a step makes of anything else than a state of it.      *)
IsFold(f, step, start, list, n) ==
    /\ f[0] = start
    /\ \A i \in 1 .. n : f[i] = step[<<f[i - 1], list[i]>>]
Folds(f, S, step, start, list, n) ==
    /\ f[0] = start
    /\ \A i \in 1 .. n : f[i - 1] \in S => f[i] = step[<<f[i - 1], list[i]>>]

(* A loop as a function of the list, one element after the other.           *)
IsStep(step, start, S, M) == step \in [S \X M -> S] /\ start \in S
Computes(F, step, start, S, M) ==
    /\ F \in [Seq(M) -> S] /\ F[<<>>] = start
    /\ \A list \in Seq(M), x \in M : F[Append(list, x)] = step[<<F[list], x>>]
    /\ \A list \in Seq(M) :
          /\ \E g \in [0 .. Len(list) -> S] : IsFold(g, step, start, list, Len(list))
          /\ \A f : Folds(f, S, step, start, list, Len(list)) => f[Len(list)] = F[list]

LEMMA FoldExists ==
    ASSUME NEW S, NEW M, NEW step \in [S \X M -> S], NEW start \in S, NEW list \in Seq(M)
    PROVE  \E f \in [0 .. Len(list) -> S] : IsFold(f, step, start, list, Len(list))
<1> DEFINE P(n) == n <= Len(list) => \E f \in [0 .. n -> S] : IsFold(f, step, start, list, n)
           T == {n \in Nat : P(n)}
<1>1. 0 \in T
  <2>1. /\ [i \in 0 .. 0 |-> start] \in [0 .. 0 -> S]
        /\ IsFold([i \in 0 .. 0 |-> start], step, start, list, 0)
    BY DEF IsFold
  <2> QED BY <2>1
<1>2. ASSUME NEW n \in Nat, n \in T PROVE n + 1 \in T
  <2> SUFFICES ASSUME n + 1 <= Len(list)
               PROVE  \E f \in [0 .. n + 1 -> S] : IsFold(f, step, start, list, n + 1)
    OBVIOUS
  <2>1. n <= Len(list) /\ Len(list) \in Nat /\ n + 1 \in 1 .. Len(list)
    OBVIOUS
  <2>2. PICK f \in [0 .. n -> S] : IsFold(f, step, start, list, n)
    BY <1>2, <2>1
  <2>3. f[n] \in S /\ list[n + 1] \in M
    BY <2>1
  <2>4. PICK x \in S : x = step[<<f[n], list[n + 1]>>]
    BY <2>3
  <2> DEFINE g == [i \in 0 .. n + 1 |-> IF i = n + 1 THEN x ELSE f[i]]
  <2>5. g \in [0 .. n + 1 -> S]
    OBVIOUS
  <2>6. g[n + 1] = x /\ \A i \in 0 .. n : g[i] = f[i]
    OBVIOUS
  <2>7. IsFold(g, step, start, list, n + 1)
    <3> HIDE DEF g
    <3>1. g[0] = start
      BY <2>2, <2>6 DEF IsFold
    <3>2. ASSUME NEW i \in 1 .. n + 1 PROVE g[i] = step[<<g[i - 1], list[i]>>]
      <4>1. CASE i = n + 1
        <5>1. i - 1 = n /\ n \in 0 .. n
          BY <4>1
        <5> QED BY <2>4, <2>6, <4>1, <5>1
      <4>2. CASE i # n + 1
        <5>1. i \in 1 .. n /\ i \in 0 .. n /\ i - 1 \in 0 .. n
          BY <4>2
        <5> QED BY <2>2, <2>6, <5>1 DEF IsFold
      <4> QED BY <4>1, <4>2
    <3> QED BY <3>1, <3>2 DEF IsFold
  <2> HIDE DEF g
  <2> QED BY <2>5, <2>7
<1>3. \A n \in Nat : n \in T
  <2> HIDE DEF T
  <2> QED BY <1>1, <1>2, NatSet
<1>4. Len(list) \in Nat /\ Len(list) <= Len(list)
  OBVIOUS
<1> QED BY <1>3, <1>4


LEMMA FoldLaw ==
    ASSUME NEW S, NEW M, NEW step, NEW start, IsStep(step, start, S, M)
    PROVE  \E F : Computes(F, step, start, S, M)
<1>0. step \in [S \X M -> S] /\ start \in S
  BY DEF IsStep
(* A list leaves one thing.                                                 *)
<1>7. ASSUME NEW list \in Seq(M), NEW f, Folds(f, S, step, start, list, Len(list)),
             NEW g, Folds(g, S, step, start, list, Len(list))
      PROVE  f[Len(list)] = g[Len(list)]
  <2> DEFINE P(k) == k <= Len(list) => f[k] = g[k] /\ f[k] \in S
             T == {k \in Nat : P(k)}
  <2>1. 0 \in T
    BY <1>0, <1>7 DEF Folds
  <2>2. ASSUME NEW k \in Nat, k \in T PROVE k + 1 \in T
    <3> SUFFICES ASSUME k + 1 <= Len(list) PROVE f[k + 1] = g[k + 1] /\ f[k + 1] \in S
      OBVIOUS
    <3>1. k + 1 \in 1 .. Len(list) /\ (k + 1) - 1 = k /\ k <= Len(list)
      OBVIOUS
    <3>2. f[k] = g[k] /\ f[k] \in S /\ list[k + 1] \in M
      BY <2>2, <3>1
    <3>3. f[k + 1] = step[<<f[k], list[k + 1]>>] /\ g[k + 1] = step[<<f[k], list[k + 1]>>]
      <4>1. f[k + 1] = step[<<f[k], list[k + 1]>>]
        BY <1>7, <3>1, <3>2 DEF Folds
      <4>2. g[k + 1] = step[<<g[k], list[k + 1]>>]
        BY <1>7, <3>1, <3>2 DEF Folds
      <4> QED BY <3>2, <4>1, <4>2
    <3> QED BY <1>0, <3>2, <3>3
  <2>3. \A k \in Nat : k \in T
    <3> HIDE DEF T
    <3> QED BY <2>1, <2>2, NatSet
  <2>4. Len(list) \in Nat /\ Len(list) <= Len(list)
    OBVIOUS
  <2> QED BY <2>3, <2>4
<1> DEFINE Is(g, list) == g \in [0 .. Len(list) -> S] /\ IsFold(g, step, start, list, Len(list))
           F == [list \in Seq(M) |-> CHOOSE v \in S : \E g : Is(g, list) /\ g[Len(list)] = v]
<1>1. ASSUME NEW list \in Seq(M)
      PROVE  \E g : Is(g, list) /\ g[Len(list)] = F[list] /\ F[list] \in S
  <2>1. PICK g : Is(g, list)
    BY <1>0, FoldExists
  <2>2. g[Len(list)] \in S
    BY <2>1
  <2>3. \E v \in S : \E h : Is(h, list) /\ h[Len(list)] = v
    BY <2>1, <2>2
  <2> HIDE DEF Is
  <2> QED BY <2>3
<1>2. ASSUME NEW list \in Seq(M), NEW f, Folds(f, S, step, start, list, Len(list))
      PROVE  f[Len(list)] = F[list]
  <2>1. PICK g : Is(g, list) /\ g[Len(list)] = F[list]
    BY <1>1
  <2> HIDE DEF F
  <2>2. Folds(g, S, step, start, list, Len(list))
    BY <2>1 DEF Folds, IsFold
  <2> HIDE DEF Is
  <2> QED BY <1>2, <1>7, <2>1, <2>2
<1>3. F[<<>>] = start
  <2>1. <<>> \in Seq(M) /\ Len(<<>>) = 0
    OBVIOUS
  <2>2. PICK g : Is(g, <<>>) /\ g[0] = F[<<>>]
    <3> HIDE DEF F, Is
    <3> QED BY <1>1, <2>1
  <2> HIDE DEF F
  <2> QED BY <2>2 DEF IsFold
<1>4. ASSUME NEW list \in Seq(M), NEW x \in M
      PROVE  F[Append(list, x)] = step[<<F[list], x>>]
  <2> DEFINE n == Len(list)
             longer == Append(list, x)
  <2>1. /\ longer \in Seq(M) /\ n \in Nat /\ Len(longer) = n + 1 /\ longer[n + 1] = x
        /\ \A i \in 1 .. n : longer[i] = list[i]
    OBVIOUS
  <2>2. PICK g : Is(g, longer) /\ g[n + 1] = F[longer]
    BY <1>1, <2>1
  <2>3. Folds(g, S, step, start, list, n)
    <3>1. ASSUME NEW i \in 1 .. n PROVE g[i] = step[<<g[i - 1], list[i]>>]
      <4>1. i \in 1 .. n + 1
        BY <2>1
      <4> HIDE DEF longer, F
      <4> QED BY <2>1, <2>2, <4>1 DEF IsFold
    <3> HIDE DEF longer, F
    <3> QED BY <2>2, <3>1 DEF Folds, IsFold
  <2>4. g[n] = F[list]
    BY <1>2, <2>3
  <2>5. g[n + 1] = step[<<g[n], x>>]
    <3>1. n + 1 \in 1 .. n + 1 /\ (n + 1) - 1 = n
      BY <2>1
    <3> HIDE DEF longer, F
    <3> QED BY <2>1, <2>2, <3>1 DEF IsFold
  <2> HIDE DEF F
  <2> QED BY <2>2, <2>4, <2>5
<1>5. F \in [Seq(M) -> S]
  <2>1. \A list \in Seq(M) : F[list] \in S
    BY <1>1
  <2>2. F = [list \in Seq(M) |-> F[list]]
    OBVIOUS
  <2> HIDE DEF F
  <2> QED BY <2>1, <2>2
<1>6. ASSUME NEW list \in Seq(M)
      PROVE  \E g \in [0 .. Len(list) -> S] : IsFold(g, step, start, list, Len(list))
  BY <1>1
<1> HIDE DEF F
<1> QED BY <1>2, <1>3, <1>4, <1>5, <1>6 DEF Computes

(* What holds of every loop: it starts with its start, and with one more    *)
(* element it takes one more step.                                          *)
IsLoop(value, step, start, S, M) ==
    \A list \in Seq(M) :
        \E f : Folds(f, S, step, start, list, Len(list)) /\ value[list] = f[Len(list)]

LEMMA LoopLaw ==
    ASSUME NEW S, NEW M, NEW step, NEW start, NEW value,
           IsStep(step, start, S, M), IsLoop(value, step, start, S, M)
    PROVE  /\ value[<<>>] = start
           /\ \A list \in Seq(M) :
                 value[list] \in S /\ \A x \in M : value[Append(list, x)] = step[<<value[list], x>>]
<1>1. PICK F : Computes(F, step, start, S, M)
  BY FoldLaw
<1>2. \A list \in Seq(M) : value[list] = F[list] /\ F[list] \in S
  BY <1>1 DEF Computes, IsLoop
<1>3. <<>> \in Seq(M) /\ \A list \in Seq(M), x \in M : Append(list, x) \in Seq(M)
  OBVIOUS
<1>4. F[<<>>] = start /\ \A list \in Seq(M), x \in M : F[Append(list, x)] = step[<<F[list], x>>]
  BY <1>1 DEF Computes
<1> QED BY <1>2, <1>3, <1>4

=============================================================================
