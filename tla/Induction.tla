-------------------------------- MODULE Induction --------------------------------
EXTENDS Integers, Sequences, SequencesExt, WellFoundedInduction, SequenceTheorems, TLAPS

(* Induction over the natural numbers, for a set of them.                  *)
LEMMA NatSetInduction ==
  ASSUME NEW P, 0 \in P, \A n \in Nat : n \in P => n + 1 \in P
  PROVE  \A n \in Nat : n \in P
<1> DEFINE Q == {n \in Nat : n \notin P}
           R == OpToRel(<, Nat)
<1> SUFFICES ASSUME Q # {} PROVE FALSE
  OBVIOUS
<1>1. PICK x \in Q : \A y \in Q : ~(<<y, x>> \in R)
  <2>1. IsWellFoundedOn(R, Nat)
    BY NatLessThanWellFounded
  <2>2. Q \subseteq Nat
    OBVIOUS
  <2> HIDE DEF Q, R
  <2> QED BY <2>1, <2>2, WFMin
<1> HIDE DEF R
<1>2. x \in Nat /\ x # 0 /\ x - 1 \in Nat /\ x - 1 < x
  BY <1>1
<1>3. x - 1 \notin Q
  <2>1. <<x - 1, x>> \in R
    BY <1>2 DEF OpToRel, R
  <2> QED BY <1>1, <2>1
<1> QED BY <1>1, <1>2, <1>3

(* g follows a recursion over the natural numbers up to n: from the base,  *)
(* F[i] leads from the value at i - 1 to the one at i.                     *)
Follows(g, V, base, n, F) ==
    g \in [0 .. n -> V] /\ g[0] = base /\ \A i \in 1 .. n : g[i] = F[i][g[i - 1]]

(* A function that follows a recursion exists.                             *)
LEMMA RecursionUpTo ==
  ASSUME NEW V, NEW base \in V, NEW n \in Nat, NEW F \in [1 .. n -> [V -> V]]
  PROVE  \E g : Follows(g, V, base, n, F)
<1> DEFINE Def(k) == \E g \in [0 .. k -> V] : g[0] = base /\ \A i \in 1 .. k : g[i] = F[i][g[i - 1]]
           P == {k \in Nat : k <= n => Def(k)}
<1>1. Def(0)
  <2> DEFINE g == [i \in 0 .. 0 |-> base]
  <2>1. g \in [0 .. 0 -> V] /\ g[0] = base /\ \A i \in 1 .. 0 : g[i] = F[i][g[i - 1]]
    OBVIOUS
  <2> QED BY <2>1
<1>2. ASSUME NEW k \in Nat, k + 1 <= n, Def(k) PROVE Def(k + 1)
  <2>1. PICK g \in [0 .. k -> V] : g[0] = base /\ \A i \in 1 .. k : g[i] = F[i][g[i - 1]]
    BY <1>2
  <2> DEFINE h == [i \in 0 .. k + 1 |-> IF i <= k THEN g[i] ELSE F[k + 1][g[k]]]
  <2>2. F[k + 1][g[k]] \in V
    BY <1>2, <2>1
  <2>3. h \in [0 .. k + 1 -> V]
    BY <2>1, <2>2
  <2>4. ASSUME NEW i \in 1 .. k + 1 PROVE h[i] = F[i][h[i - 1]]
    <3>1. CASE i \in 1 .. k
      <4>1. h[i] = g[i] /\ h[i - 1] = g[i - 1] /\ g[i] = F[i][g[i - 1]]
        BY <2>1, <3>1
      <4> QED BY <3>1, <4>1
    <3>2. CASE i = k + 1
      <4>1. h[i] = F[k + 1][g[k]] /\ h[i - 1] = g[k]
        BY <3>2
      <4> QED BY <3>2, <4>1
    <3> QED BY <3>1, <3>2
  <2>5. h[0] = base
    BY <2>1
  <2> HIDE DEF h
  <2> QED BY <2>3, <2>4, <2>5
<1> HIDE DEF Def
<1>3. 0 \in P /\ \A k \in Nat : k \in P => k + 1 \in P
  BY <1>1, <1>2
<1> HIDE DEF P
<1>4. n \in P
  BY <1>3, NatSetInduction
<1>5. Def(n)
  BY <1>4 DEF P
<1> QED BY <1>5 DEF Def, Follows

(* What follows the same recursion agrees.                                 *)
LEMMA FollowsAgree ==
  ASSUME NEW V, NEW base, NEW n \in Nat, NEW m \in Nat, m <= n, NEW F, NEW G, NEW g, NEW h,
         Follows(g, V, base, n, F), Follows(h, V, base, m, G), \A i \in 1 .. m : F[i] = G[i]
  PROVE  \A i \in 0 .. m : g[i] = h[i]
<1> DEFINE P == {i \in Nat : i <= m => g[i] = h[i]}
<1>1. 0 \in P
  BY DEF Follows
<1>2. ASSUME NEW i \in Nat, i \in P PROVE i + 1 \in P
  <2> SUFFICES ASSUME i + 1 <= m PROVE g[i + 1] = h[i + 1]
    OBVIOUS
  <2>1. g[i] = h[i] /\ i + 1 \in 1 .. n /\ i + 1 \in 1 .. m /\ (i + 1) - 1 = i
    BY <1>2
  <2>2. g[i + 1] = F[i + 1][g[i]] /\ h[i + 1] = G[i + 1][h[i]]
    BY <2>1 DEF Follows
  <2> QED BY <2>1, <2>2
<1>3. \A i \in Nat : i \in P
  <2> HIDE DEF P
  <2> QED BY <1>1, <1>2, NatSetInduction
<1> QED BY <1>3

-----------------------------------------------------------------------------
(* FlattenSeq, one sequence after the other.                               *)
Joins(ss, S) == [i \in 1 .. Len(ss) |-> [x \in Seq(S) |-> x \o ss[i]]]

LEMMA JoinsType ==
  ASSUME NEW S, NEW ss \in Seq(Seq(S))
  PROVE  Joins(ss, S) \in [1 .. Len(ss) -> [Seq(S) -> Seq(S)]]
<1>1. ASSUME NEW i \in 1 .. Len(ss), NEW x \in Seq(S) PROVE x \o ss[i] \in Seq(S)
  <2>1. ss[i] \in Seq(S)
    BY ElementOfSeq
  <2> QED BY <2>1, ConcatProperties
<1> QED BY <1>1 DEF Joins

LEMMA FlattenFollows ==
  ASSUME NEW S, NEW ss \in Seq(Seq(S)), NEW g, Follows(g, Seq(S), <<>>, Len(ss), Joins(ss, S))
  PROVE  FlattenSeq(ss) = g[Len(ss)]
<1> DEFINE n == Len(ss)
           Def(f) == f = [i \in 1 .. n |-> IF i = 1 THEN ss[i] ELSE f[i - 1] \o ss[i]]
<1>1. n \in Nat /\ \A i \in 1 .. n : ss[i] \in Seq(S)
  OBVIOUS
<1>2. CASE n = 0
  <2>1. ss = <<>> /\ FlattenSeq(ss) = ss
    BY <1>2 DEF FlattenSeq
  <2>2. g[0] = <<>>
    BY DEF Follows
  <2> QED BY <1>2, <2>1, <2>2
<1>3. CASE n # 0
  <2>1. ASSUME NEW i \in 1 .. n PROVE g[i - 1] \in Seq(S) /\ g[i] = g[i - 1] \o ss[i]
    <3>1. i - 1 \in 0 .. n /\ Joins(ss, S)[i] = [x \in Seq(S) |-> x \o ss[i]]
      BY <1>1 DEF Joins
    <3>2. g[i - 1] \in Seq(S) /\ g[i] = Joins(ss, S)[i][g[i - 1]]
      BY <3>1 DEF Follows
    <3> QED BY <3>1, <3>2
  <2>2. g[0] = <<>> /\ 1 \in 1 .. n /\ 1 - 1 = 0
    BY <1>1, <1>3 DEF Follows
  <2>3. g[1] = ss[1]
    <3>1. g[1] = <<>> \o ss[1]
      BY <2>1, <2>2
    <3> QED BY <1>1, <2>2, <3>1, ConcatEmptySeq
  <2> DEFINE f == [i \in 1 .. n |-> g[i]]
  <2>4. Def(f)
    <3>1. ASSUME NEW i \in 1 .. n PROVE f[i] = IF i = 1 THEN ss[i] ELSE f[i - 1] \o ss[i]
      <4>1. CASE i = 1
        BY <2>3, <4>1
      <4>2. CASE i # 1
        <5>1. i - 1 \in 1 .. n
          BY <1>1, <4>2
        <5> QED BY <2>1, <4>2, <5>1
      <4> QED BY <4>1, <4>2
    <3> QED BY <3>1
  <2> DEFINE d == CHOOSE x : Def(x)
  <2>5. Def(d)
    <3> HIDE DEF Def, f
    <3> QED BY <2>4
  <2>6. FlattenSeq(ss) = d[n]
    BY <1>3 DEF FlattenSeq
  <2>7. d = [i \in 1 .. n |-> IF i = 1 THEN ss[i] ELSE d[i - 1] \o ss[i]]
    <3> HIDE DEF d
    <3> QED BY <2>5
  <2> HIDE DEF d, Def
  <2>8. \A i \in 1 .. n : d[i] = IF i = 1 THEN ss[i] ELSE d[i - 1] \o ss[i]
    BY <2>7
  <2> DEFINE P == {i \in Nat : i + 1 <= n => d[i + 1] = g[i + 1]}
  <2>9. 0 \in P
    <3>1. 0 + 1 = 1 /\ d[1] = ss[1]
      BY <2>2, <2>8
    <3> QED BY <2>3, <3>1
  <2>10. ASSUME NEW i \in Nat, i \in P PROVE i + 1 \in P
    <3> SUFFICES ASSUME (i + 1) + 1 <= n PROVE d[(i + 1) + 1] = g[(i + 1) + 1]
      OBVIOUS
    <3> DEFINE k == (i + 1) + 1
    <3>1. k \in 1 .. n /\ k # 1 /\ k - 1 = i + 1 /\ i + 1 <= n
      BY <1>1
    <3>2. d[k] = d[k - 1] \o ss[k] /\ g[k] = g[k - 1] \o ss[k]
      BY <2>1, <2>8, <3>1
    <3>3. d[i + 1] = g[i + 1]
      BY <2>10, <3>1
    <3> QED BY <3>1, <3>2, <3>3
  <2>11. \A i \in Nat : i \in P
    <3> HIDE DEF P
    <3> QED BY <2>9, <2>10, NatSetInduction
  <2>12. n - 1 \in Nat /\ (n - 1) + 1 = n
    BY <1>1, <1>3
  <2>13. d[n] = g[n]
    <3>1. n - 1 \in P
      BY <2>11, <2>12
    <3> QED BY <2>12, <3>1
  <2> QED BY <2>6, <2>13
<1> QED BY <1>2, <1>3

LEMMA FlattenExists ==
  ASSUME NEW S, NEW ss \in Seq(Seq(S))
  PROVE  \E g : Follows(g, Seq(S), <<>>, Len(ss), Joins(ss, S))
<1>1. <<>> \in Seq(S) /\ Len(ss) \in Nat
  OBVIOUS
<1>2. Joins(ss, S) \in [1 .. Len(ss) -> [Seq(S) -> Seq(S)]]
  BY JoinsType
<1> QED BY <1>1, <1>2, RecursionUpTo

LEMMA FlattenType ==
  ASSUME NEW S, NEW ss \in Seq(Seq(S))
  PROVE  FlattenSeq(ss) \in Seq(S)
<1>1. PICK g : Follows(g, Seq(S), <<>>, Len(ss), Joins(ss, S))
  BY FlattenExists
<1>2. Len(ss) \in 0 .. Len(ss)
  OBVIOUS
<1>3. g[Len(ss)] \in Seq(S)
  BY <1>1, <1>2 DEF Follows
<1> QED BY <1>1, <1>3, FlattenFollows

LEMMA FlattenEmpty == FlattenSeq(<<>>) = <<>>
<1>1. Len(<<>>) = 0
  OBVIOUS
<1> QED BY <1>1 DEF FlattenSeq

LEMMA FlattenAppend ==
  ASSUME NEW S, NEW ss \in Seq(Seq(S)), NEW s \in Seq(S)
  PROVE  FlattenSeq(Append(ss, s)) = FlattenSeq(ss) \o s
<1> DEFINE n == Len(ss)
           tt == Append(ss, s)
           F == Joins(tt, S)
           G == Joins(ss, S)
<1>1. /\ tt \in Seq(Seq(S)) /\ Len(tt) = n + 1 /\ n \in Nat /\ tt[n + 1] = s
      /\ \A i \in 1 .. n : tt[i] = ss[i]
  OBVIOUS
<1> HIDE DEF tt
<1>2. PICK g : Follows(g, Seq(S), <<>>, n + 1, F)
  BY <1>1, FlattenExists
<1>3. PICK h : Follows(h, Seq(S), <<>>, n, G)
  BY FlattenExists
<1>4. \A i \in 1 .. n : F[i] = G[i]
  <2>1. \A i \in 1 .. n : i \in 1 .. Len(tt) /\ i \in 1 .. Len(ss)
    BY <1>1
  <2> QED BY <1>1, <2>1 DEF Joins
<1>5. g[n] = h[n]
  <2>1. n \in Nat /\ n + 1 \in Nat /\ n <= n + 1 /\ n \in 0 .. n
    BY <1>1
  <2>2. \A i \in 0 .. n : g[i] = h[i]
    <3> DEFINE k == n + 1
    <3>1. k \in Nat /\ n <= k /\ Follows(g, Seq(S), <<>>, k, F)
      BY <1>2, <2>1
    <3> HIDE DEF F, G, n, k
    <3> QED BY <1>3, <1>4, <2>1, <3>1, FollowsAgree
  <2> QED BY <2>1, <2>2
<1>6. g[n + 1] = g[n] \o s
  <2>1. n + 1 \in 1 .. n + 1 /\ (n + 1) - 1 = n /\ n \in 0 .. n + 1
    BY <1>1
  <2>2. g[n + 1] = F[n + 1][g[n]] /\ g[n] \in Seq(S)
    BY <1>2, <2>1 DEF Follows
  <2>3. F[n + 1] = [x \in Seq(S) |-> x \o s]
    BY <1>1, <2>1 DEF Joins
  <2> QED BY <2>2, <2>3
<1>7. FlattenSeq(tt) = g[n + 1] /\ FlattenSeq(ss) = h[n]
  BY <1>1, <1>2, <1>3, FlattenFollows
<1> QED BY <1>5, <1>6, <1>7 DEF tt
=============================================================================
