---------------------------- MODULE SimUiProofs ----------------------------
(***************************************************************************)
(* The type invariant and the seven invariants of SimUi, for every window, *)
(* every set of events, buttons and knobs, every bound and every way the   *)
(* pipe cuts the stream.                                                   *)
(*                                                                         *)
(* Several operators of the model recur over a sequence (KeptIn, Fill,     *)
(* FlattenSeq).  What they compute is proved by induction in its first-    *)
(* order form: a set of naturals, or of sequences, that is closed under    *)
(* the step holds them all (SetInduction, SeqInduction), which rests on    *)
(* the well-foundedness of < on Nat.                                       *)
(*                                                                         *)
(* Every invariant is split by what a step can do to it: one arrival,  *)
(* which DispatchLine delivers to store and window, or a slot.             *)
(***************************************************************************)
EXTENDS SimUi, WellFoundedInduction, SequenceTheorems, FiniteSetTheorems, TLAPS

\* ----------------------------- Induction: what a recursion computes exists

Before == {p \in Nat \X Nat : p[1] < p[2]}

\* A set of naturals has a least element.
LEMMA LeastNat ==
  ASSUME NEW T, T \subseteq Nat, T # {}
  PROVE  \E n \in T : \A k \in T : n <= k
<1>1. IsWellFoundedOn(Before, Nat)
  BY NatLessThanWellFounded DEF OpToRel, Before
<1>2. PICK n \in T : \A k \in T : ~ (<<k, n>> \in Before)
  BY <1>1, WFMin
<1>3. ASSUME NEW k \in T PROVE n <= k
  <2>1. k \in Nat /\ n \in Nat
    OBVIOUS
  <2>2. ~(k < n)
    BY <1>2, <2>1 DEF Before
  <2>3. QED BY <2>1, <2>2
<1>4. QED BY <1>3

\* Induction: a set with 0 and every successor has every natural.
LEMMA SetInduction ==
  ASSUME NEW S, 0 \in S, \A n \in Nat : n \in S => n + 1 \in S
  PROVE  Nat \subseteq S
<1>1. SUFFICES ASSUME Nat \ S # {} PROVE FALSE
  OBVIOUS
<1>2. PICK n \in Nat \ S : \A k \in Nat \ S : n <= k
  BY <1>1, LeastNat
<1>3. n # 0 /\ n - 1 \in Nat
  BY <1>2
<1>4. n - 1 \in S
  BY <1>2, <1>3
<1>5. QED BY <1>2, <1>3, <1>4

\* The functions on 0..n that start with b and go on by step.
Iterations(V, b, step, n) ==
  {f \in [0..n -> V] : f[0] = b /\ \A i \in 1..n : f[i] = step[<<i, f[i-1]>>]}

\* Such a function exists for every n.
LEMMA Recursion ==
  ASSUME NEW V, NEW b \in V, NEW step \in [Nat \X V -> V], NEW n \in Nat
  PROVE  Iterations(V, b, step, n) # {}
<1> DEFINE Runs(f, m) == f[0] = b /\ \A i \in 1..m : f[i] = step[<<i, f[i-1]>>]
           S == {m \in Nat : \E f \in [0..m -> V] : Runs(f, m)}
<1>1. 0 \in S
  <2>1. [i \in 0..0 |-> b] \in [0..0 -> V] /\ Runs([i \in 0..0 |-> b], 0)
    OBVIOUS
  <2>2. QED BY <2>1
<1>2. ASSUME NEW m \in Nat, m \in S PROVE m + 1 \in S
  <2>1. PICK f \in [0..m -> V] : Runs(f, m)
    BY <1>2
  <2>a. f[m] \in V /\ step[<<m+1, f[m]>>] \in V
    OBVIOUS
  <2> DEFINE g == [i \in 0..(m+1) |-> IF i = m+1 THEN step[<<m+1, f[m]>>] ELSE f[i]]
  <2>2. g \in [0..(m+1) -> V]
    BY <2>a
  <2>3. \A i \in 0..m : g[i] = f[i]
    OBVIOUS
  <2>4. g[m+1] = step[<<m+1, f[m]>>]
    OBVIOUS
  <2> HIDE DEF g
  <2>5. Runs(g, m+1)
    <3>1. g[0] = b
      BY <2>1, <2>3
    <3>2. ASSUME NEW i \in 1..(m+1) PROVE g[i] = step[<<i, g[i-1]>>]
      <4>1. CASE i = m+1
        <5>1. g[i-1] = f[m]
          BY <2>3, <4>1
        <5>2. QED BY <4>1, <2>4, <5>1
      <4>2. CASE i \in 1..m
        <5>1. g[i-1] = f[i-1] /\ g[i] = f[i]
          BY <2>3, <4>2
        <5>2. QED BY <4>2, <5>1, <2>1
      <4>3. QED BY <4>1, <4>2
    <3>3. QED BY <3>1, <3>2
  <2>6. QED BY <2>2, <2>5
<1> HIDE DEF S
<1>3. Nat \subseteq S
  BY <1>1, <1>2, SetInduction
<1>4. QED BY <1>3 DEF S, Iterations

\* What KeptIn computes for the prefixes of s.
Kept(X, s, S) ==
  {f \in [0..Len(s) -> Seq(X)] :
     /\ f[0] = <<>>
     /\ \A i \in 1..Len(s) : f[i] = IF s[i] \in S THEN Append(f[i-1], s[i]) ELSE f[i-1]
     /\ KeptIn(s, S) = f[Len(s)]}

\* There is such a run for every sequence.
LEMMA KeptInRuns ==
  ASSUME NEW X, NEW s \in Seq(X), NEW S
  PROVE  Kept(X, s, S) # {}
<1> DEFINE G(g) == [i \in 0..Len(s) |-> IF i = 0 THEN <<>>
                               ELSE IF s[i] \in S THEN Append(g[i-1], s[i]) ELSE g[i-1]]
           r == CHOOSE g : g = G(g)
           next == [p \in Nat \X Seq(X) |-> IF p[1] \in 1..Len(s) /\ s[p[1]] \in S THEN Append(p[2], s[p[1]]) ELSE p[2]]
           V == Seq(X)
           none == <<>>
<1>1. next \in [Nat \X V -> V]
  OBVIOUS
<1>2. none \in V /\ Len(s) \in Nat
  OBVIOUS
<1>3. PICK f \in [0..Len(s) -> V] : f[0] = none /\ \A i \in 1..Len(s) : f[i] = next[<<i, f[i-1]>>]
  <2> HIDE DEF next, V, none
  <2>1. Iterations(V, none, next, Len(s)) # {}
    BY <1>1, <1>2, Recursion
  <2>2. QED BY <2>1 DEF Iterations
<1>4. ASSUME NEW i \in 1..Len(s) PROVE f[i] = IF s[i] \in S THEN Append(f[i-1], s[i]) ELSE f[i-1]
  <2>1. f[i-1] \in Seq(X) /\ i \in Nat
    BY <1>2
  <2>2. next[<<i, f[i-1]>>] = IF s[i] \in S THEN Append(f[i-1], s[i]) ELSE f[i-1]
    BY <2>1
  <2>3. QED BY <1>3, <2>2
<1> HIDE DEF next
<1>5. f = G(f)
  <2>1. ASSUME NEW i \in 0..Len(s) PROVE f[i] = IF i = 0 THEN <<>> ELSE IF s[i] \in S THEN Append(f[i-1], s[i]) ELSE f[i-1]
    <3>1. CASE i = 0 BY <1>3, <3>1
    <3>2. CASE i \in 1..Len(s)
      <4>1. i # 0
        BY <3>2
      <4>2. f[i] = IF s[i] \in S THEN Append(f[i-1], s[i]) ELSE f[i-1]
        BY <1>4, <3>2
      <4>3. QED BY <4>1, <4>2
    <3>3. QED BY <3>1, <3>2, <1>2
  <2>2. QED BY <2>1
<1>6. r = G(r)
  BY <1>5
<1>7. KeptIn(s, S) = r[Len(s)]
  BY DEF KeptIn
<1> HIDE DEF r
<1>8. /\ r[0] = <<>>
      /\ \A i \in 1..Len(s) : r[i] = IF s[i] \in S THEN Append(r[i-1], s[i]) ELSE r[i-1]
      /\ DOMAIN r = 0..Len(s)
  <2> DEFINE H == G(r)
  <2>1. /\ H[0] = <<>>
        /\ \A i \in 1..Len(s) : H[i] = IF s[i] \in S THEN Append(r[i-1], s[i]) ELSE r[i-1]
        /\ DOMAIN H = 0..Len(s)
    BY <1>2
  <2> HIDE DEF H
  <2>2. r = H
    BY <1>6 DEF H
  <2>3. QED BY <2>1, <2>2
<1>9. r \in [0..Len(s) -> Seq(X)]
  <2> DEFINE T == {n \in Nat : n \in 0..Len(s) => r[n] \in Seq(X)}
  <2>1. 0 \in T
    BY <1>8, <1>2
  <2>2. ASSUME NEW n \in Nat, n \in T PROVE n+1 \in T
    <3> SUFFICES ASSUME n+1 \in 0..Len(s) PROVE r[n+1] \in Seq(X)
      OBVIOUS
    <3>1. r[n] \in Seq(X)
      BY <2>2, <1>2
    <3>2. n+1 \in 1..Len(s) /\ (n+1)-1 = n
      BY <1>2
    <3>3. r[n+1] = IF s[n+1] \in S THEN Append(r[n], s[n+1]) ELSE r[n]
      BY <1>8, <3>2
    <3>4. s[n+1] \in X
      BY <3>2
    <3>5. QED BY <3>1, <3>3, <3>4
  <2> HIDE DEF T
  <2>3. Nat \subseteq T
    BY <2>1, <2>2, SetInduction
  <2>4. \A n \in 0..Len(s) : r[n] \in Seq(X)
    BY <2>3, <1>2 DEF T
  <2>5. r = [n \in 0..Len(s) |-> r[n]]
    BY <1>6
  <2>6. QED BY <2>4, <2>5
<1>10. r \in Kept(X, s, S)
  BY <1>7, <1>8, <1>9 DEF Kept
<1>11. QED BY <1>10

\* ------------------------------------------------------------------ KeptIn

\* Nothing is kept of an empty sequence.
LEMMA KeptInEmpty ==
  ASSUME NEW S
  PROVE  KeptIn(<<>>, S) = <<>>
<1>1. <<>> \in Seq({}) /\ Len(<<>>) = 0
  OBVIOUS
<1>2. PICK f : f \in Kept({}, <<>>, S)
  BY <1>1, KeptInRuns
<1>3. QED BY <1>1, <1>2 DEF Kept

\* What is kept of a sequence with one more element.
LEMMA KeptInAppend ==
  ASSUME NEW X, NEW s \in Seq(X), NEW e \in X, NEW S
  PROVE  /\ KeptIn(s, S) \in Seq(X)
         /\ KeptIn(Append(s, e), S) = IF e \in S THEN Append(KeptIn(s, S), e) ELSE KeptIn(s, S)
<1> DEFINE t == Append(s, e)
           n == Len(s)
<1>1. t \in Seq(X) /\ n \in Nat /\ Len(t) = n + 1 /\ t[n+1] = e /\ \A i \in 1..n : t[i] = s[i]
  BY AppendProperties
<1> HIDE DEF t
<1>2. PICK f \in [0..n -> Seq(X)] :
           /\ f[0] = <<>>
           /\ \A i \in 1..n : f[i] = IF s[i] \in S THEN Append(f[i-1], s[i]) ELSE f[i-1]
           /\ KeptIn(s, S) = f[n]
  <2>1. Kept(X, s, S) # {}
    BY KeptInRuns
  <2>2. QED BY <2>1 DEF Kept
<1>3. PICK g \in [0..Len(t) -> Seq(X)] :
           /\ g[0] = <<>>
           /\ \A i \in 1..Len(t) : g[i] = IF t[i] \in S THEN Append(g[i-1], t[i]) ELSE g[i-1]
           /\ KeptIn(t, S) = g[Len(t)]
  <2>1. Kept(X, t, S) # {}
    BY <1>1, KeptInRuns
  <2>2. QED BY <2>1 DEF Kept
<1> HIDE DEF n
<1>4. g[n] = f[n]
  <2> DEFINE T == {m \in Nat : m \in 0..n => g[m] = f[m]}
  <2>1. 0 \in T
    BY <1>2, <1>3
  <2>2. ASSUME NEW m \in Nat, m \in T PROVE m + 1 \in T
    <3> SUFFICES ASSUME m + 1 \in 0..n PROVE g[m+1] = f[m+1]
      OBVIOUS
    <3>a. n \in Nat /\ Len(t) = n + 1
      BY <1>1
    <3>0. m \in 0..n /\ m + 1 \in 1..n /\ m + 1 \in 1..Len(t) /\ (m + 1) - 1 = m
      BY <3>a
    <3>1. g[m] = f[m] /\ m + 1 \in 1..n /\ m + 1 \in 1..Len(t) /\ (m + 1) - 1 = m
      BY <2>2, <3>0
    <3>2. t[m+1] = s[m+1]
      BY <1>1, <3>1
    <3>3. g[m+1] = IF t[m+1] \in S THEN Append(g[m], t[m+1]) ELSE g[m]
      BY <1>3, <3>1
    <3>4. f[m+1] = IF s[m+1] \in S THEN Append(f[m], s[m+1]) ELSE f[m]
      BY <1>2, <3>1
    <3>5. QED BY <3>1, <3>2, <3>3, <3>4
  <2> HIDE DEF T
  <2>3. n \in T
    BY <2>1, <2>2, <1>1, SetInduction
  <2>4. QED BY <2>3, <1>1 DEF T
<1>5. g[n+1] = IF e \in S THEN Append(g[n], e) ELSE g[n]
  <2>1. n + 1 \in 1..Len(t) /\ (n + 1) - 1 = n
    BY <1>1
  <2>2. QED BY <2>1, <1>1, <1>3
<1>6. QED BY <1>1, <1>2, <1>3, <1>4, <1>5 DEF t, n

\* A set of sequences that holds the empty one and every extension holds all.
LEMMA SeqInduction ==
  ASSUME NEW X, NEW T, <<>> \in T,
         \A s \in Seq(X), e \in X : s \in T => Append(s, e) \in T
  PROVE  Seq(X) \subseteq T
<1> DEFINE L == {n \in Nat : \A s \in Seq(X) : Len(s) = n => s \in T}
<1>1. 0 \in L
  BY EmptySeq
<1>2. ASSUME NEW n \in Nat, n \in L PROVE n + 1 \in L
  <2> SUFFICES ASSUME NEW s \in Seq(X), Len(s) = n + 1 PROVE s \in T
    OBVIOUS
  <2>1. s # <<>>
    BY EmptySeq
  <2>2. PICK p \in Seq(X), e \in X : s = Append(p, e)
    BY <2>1, SequenceEmptyOrAppend
  <2>3. Len(p) = n
    BY <2>2, AppendProperties, LenProperties
  <2>4. QED BY <2>2, <2>3, <1>2
<1> HIDE DEF L
<1>3. Nat \subseteq L
  BY <1>1, <1>2, SetInduction
<1>4. QED BY <1>3, LenProperties DEF L

\* What is kept are elements of S.
LEMMA KeptInSeq ==
  ASSUME NEW X, NEW s \in Seq(X), NEW S
  PROVE  KeptIn(s, S) \in Seq(X \cap S) /\ Len(KeptIn(s, S)) <= Len(s)
<1> DEFINE T == {t \in Seq(X) : KeptIn(t, S) \in Seq(X \cap S) /\ Len(KeptIn(t, S)) <= Len(t)}
<1>1. <<>> \in T
  <2>1. KeptIn(<<>>, S) = <<>> /\ <<>> \in Seq(X) /\ <<>> \in Seq(X \cap S)
    BY KeptInEmpty
  <2>2. Len(<<>>) = 0
    OBVIOUS
  <2>3. Len(KeptIn(<<>>, S)) <= Len(<<>>)
    BY <2>1, <2>2
  <2>4. QED BY <2>1, <2>3
<1>2. ASSUME NEW t \in Seq(X), NEW e \in X, t \in T PROVE Append(t, e) \in T
  <2>1. KeptIn(Append(t, e), S) = IF e \in S THEN Append(KeptIn(t, S), e) ELSE KeptIn(t, S)
    BY KeptInAppend
  <2>2. Append(t, e) \in Seq(X) /\ Len(Append(t, e)) = Len(t) + 1 /\ Len(t) \in Nat
    BY AppendProperties, LenProperties
  <2>3. CASE e \in S
    <3>1. /\ Append(KeptIn(t, S), e) \in Seq(X \cap S)
          /\ Len(Append(KeptIn(t, S), e)) = Len(KeptIn(t, S)) + 1
          /\ Len(KeptIn(t, S)) \in Nat
      BY <1>2, <2>3, AppendProperties, LenProperties
    <3>2. QED BY <3>1, <2>1, <2>2, <2>3, <1>2, SMTT(40)
  <2>4. CASE e \notin S
    <3>1. Len(KeptIn(t, S)) \in Nat
      BY <1>2, LenProperties
    <3>2. QED BY <2>1, <2>2, <2>4, <1>2, <3>1
  <2>5. QED BY <2>3, <2>4
<1> HIDE DEF T
<1>3. s \in T
  BY <1>1, <1>2, SeqInduction
<1>4. QED BY <1>3 DEF T

\* ------------------------------------------------------- Ends of sequences

\* s is the end of q.
EndOf(s, q) == Len(s) <= Len(q) /\ \A i \in 1..Len(s) : s[i] = q[Len(q) - Len(s) + i]

Least(m, n) == IF m > n THEN n ELSE m

\* Newest(q, n) is the end of q with min(n, Len(q)) elements.
LEMMA NewestFacts ==
  ASSUME NEW X, NEW q \in Seq(X), NEW n \in Nat
  PROVE  /\ Newest(q, n) \in Seq(X)
         /\ Len(Newest(q, n)) = Least(Len(q), n)
         /\ EndOf(Newest(q, n), q)
<1> DEFINE m == IF Len(q) > n THEN Len(q) - n + 1 ELSE 1
           r == SubSeq(q, m, Len(q))
<1>1. Len(q) \in Nat /\ m \in Int /\ m >= 1 /\ m <= Len(q) + 1 /\ Len(q) - m + 1 = Least(Len(q), n)
  BY LenProperties DEF Least
<1>2. \A i \in m..Len(q) : q[i] \in X
  BY <1>1, ElementOfSeq
<1>3. Newest(q, n) = r
  BY DEF Newest
<1> HIDE DEF m
<1>4. /\ r \in Seq(X)
      /\ Len(r) = IF m <= Len(q) THEN Len(q) - m + 1 ELSE 0
      /\ \A i \in 1..(Len(q) - m + 1) : r[i] = q[m + i - 1]
  BY <1>1, <1>2, SubSeqProperties
<1> HIDE DEF r
<1>5. Len(r) = Len(q) - m + 1
  <2>1. CASE m <= Len(q) BY <1>4, <2>1
  <2>2. CASE m = Len(q) + 1 BY <1>1, <1>4, <2>2
  <2>3. QED BY <1>1, <2>1, <2>2
<1>6. \A i \in 1..Len(r) : r[i] = q[Len(q) - Len(r) + i]
  BY <1>1, <1>4, <1>5, SMTT(40)
<1>7. Len(r) <= Len(q)
  BY <1>1, <1>5
<1>8. QED BY <1>1, <1>3, <1>4, <1>5, <1>6, <1>7 DEF EndOf

\* Two ends of one length are equal.
LEMMA EndIsUnique ==
  ASSUME NEW X, NEW q \in Seq(X), NEW r \in Seq(X), NEW s \in Seq(X),
         EndOf(r, q), EndOf(s, q), Len(r) = Len(s)
  PROVE  r = s
BY SeqEqual DEF EndOf

\* The newest elements are an end, and an end is what Newest gives.
LEMMA EndIsNewest ==
  ASSUME NEW X, NEW q \in Seq(X), NEW s \in Seq(X)
  PROVE  EndOf(s, q) <=> s = Newest(q, Len(s))
<1>1. Len(s) \in Nat /\ Len(q) \in Nat
  BY LenProperties
<1>2. ASSUME EndOf(s, q) PROVE s = Newest(q, Len(s))
  <2>1. Len(Newest(q, Len(s))) = Len(s)
    BY <1>1, <1>2, NewestFacts DEF EndOf, Least
  <2>2. QED BY <1>1, <1>2, <2>1, NewestFacts, EndIsUnique
<1>3. QED BY <1>1, <1>2, NewestFacts

\* An end that is long enough has the same newest elements.
LEMMA NewestOfEnd ==
  ASSUME NEW X, NEW q \in Seq(X), NEW s \in Seq(X), NEW n \in Nat,
         EndOf(s, q), Len(s) >= Least(Len(q), n)
  PROVE  Newest(s, n) = Newest(q, n)
<1> DEFINE r == Newest(s, n)
<1>1. Len(s) \in Nat /\ Len(q) \in Nat
  BY LenProperties
<1>2. r \in Seq(X) /\ Len(r) = Least(Len(s), n) /\ EndOf(r, s)
  BY NewestFacts
<1>3. Newest(q, n) \in Seq(X) /\ Len(Newest(q, n)) = Least(Len(q), n) /\ EndOf(Newest(q, n), q)
  BY NewestFacts
<1>4. Len(r) = Least(Len(q), n)
  BY <1>1, <1>2 DEF Least, EndOf
<1> HIDE DEF r
<1>5. EndOf(r, q)
  <2>1. Len(r) \in Nat
    BY <1>2, LenProperties
  <2>2. Len(r) <= Len(s) /\ Len(s) <= Len(q)
    BY <1>2 DEF EndOf
  <2>3. ASSUME NEW i \in 1..Len(r) PROVE r[i] = q[Len(q) - Len(r) + i]
    <3> DEFINE j == Len(s) - Len(r) + i
    <3>1. j \in 1..Len(s) /\ Len(q) - Len(s) + j = Len(q) - Len(r) + i
      BY <1>1, <2>1, <2>2
    <3>2. r[i] = s[j]
      BY <1>2 DEF EndOf
    <3> HIDE DEF j
    <3>3. s[j] = q[Len(q) - Len(s) + j]
      BY <3>1 DEF EndOf
    <3>4. QED BY <3>1, <3>2, <3>3
  <2>4. QED BY <1>1, <2>1, <2>2, <2>3 DEF EndOf
<1>6. r = Newest(q, n)
  BY <1>2, <1>3, <1>4, <1>5, EndIsUnique
<1>7. QED BY <1>6 DEF r

\* Both grow by the same sequence.
LEMMA EndOfConcat ==
  ASSUME NEW X, NEW q \in Seq(X), NEW s \in Seq(X), NEW d \in Seq(X), EndOf(s, q)
  PROVE  EndOf(s \o d, q \o d)
<1>1. Len(s) \in Nat /\ Len(q) \in Nat /\ Len(d) \in Nat /\ Len(s) <= Len(q)
  BY LenProperties DEF EndOf
<1>2. /\ Len(s \o d) = Len(s) + Len(d)
      /\ \A i \in 1..(Len(s) + Len(d)) : (s \o d)[i] = IF i <= Len(s) THEN s[i] ELSE d[i - Len(s)]
  BY ConcatProperties
<1>3. /\ Len(q \o d) = Len(q) + Len(d)
      /\ \A i \in 1..(Len(q) + Len(d)) : (q \o d)[i] = IF i <= Len(q) THEN q[i] ELSE d[i - Len(q)]
  BY ConcatProperties
<1>4. ASSUME NEW i \in 1..(Len(s) + Len(d))
      PROVE  (s \o d)[i] = (q \o d)[Len(q) - Len(s) + i]
  <2> DEFINE j == Len(q) - Len(s) + i
  <2>1. j \in 1..(Len(q) + Len(d))
    BY <1>1
  <2>2. CASE i <= Len(s)
    <3>1. j <= Len(q) /\ i \in 1..Len(s)
      BY <1>1, <2>2
    <3>2. s[i] = q[j]
      BY <3>1 DEF EndOf
    <3>3. (q \o d)[j] = q[j]
      BY <1>3, <2>1, <3>1
    <3>4. QED BY <1>2, <2>2, <3>2, <3>3
  <2>3. CASE i > Len(s)
    <3>1. ~(j <= Len(q)) /\ j - Len(q) = i - Len(s)
      BY <1>1, <2>3
    <3>2. (q \o d)[j] = d[i - Len(s)]
      BY <1>3, <2>1, <3>1
    <3>3. QED BY <1>1, <1>2, <2>3, <3>2
  <2>4. QED BY <1>1, <2>2, <2>3
<1>5. Len(q \o d) - Len(s \o d) = Len(q) - Len(s) /\ Len(s \o d) <= Len(q \o d)
  BY <1>1, <1>2, <1>3
<1>6. QED BY <1>1, <1>2, <1>4, <1>5 DEF EndOf

\* An element more for a sequence is one more for its end.
LEMMA EndOfAppend ==
  ASSUME NEW X, NEW q \in Seq(X), NEW s \in Seq(X), NEW e \in X, EndOf(s, q)
  PROVE  EndOf(Append(s, e), Append(q, e))
<1>1. <<e>> \in Seq(X)
  OBVIOUS
<1>2. EndOf(s \o <<e>>, q \o <<e>>)
  BY <1>1, EndOfConcat
<1>3. QED BY <1>2, AppendIsConcat

\* The end of an end.
LEMMA EndOfSub ==
  ASSUME NEW X, NEW q \in Seq(X), NEW s \in Seq(X), EndOf(s, q),
         NEW k \in Nat, 1 <= k, k <= Len(s) + 1
  PROVE  /\ SubSeq(s, k, Len(s)) \in Seq(X)
         /\ Len(SubSeq(s, k, Len(s))) = Len(s) - k + 1
         /\ \A i \in 1..(Len(s) - k + 1) : SubSeq(s, k, Len(s))[i] = s[k + i - 1]
         /\ EndOf(SubSeq(s, k, Len(s)), q)
<1> DEFINE r == SubSeq(s, k, Len(s))
<1>1. Len(s) \in Nat /\ Len(q) \in Nat /\ Len(s) <= Len(q)
  BY LenProperties DEF EndOf
<1>2. \A i \in k..Len(s) : s[i] \in X
  BY <1>1, ElementOfSeq
<1>3. /\ r \in Seq(X)
      /\ Len(r) = Len(s) - k + 1
      /\ \A i \in 1..(Len(s) - k + 1) : r[i] = s[k + i - 1]
  BY <1>1, <1>2, SubSeqProperties
<1> HIDE DEF r
<1>4. ASSUME NEW i \in 1..Len(r) PROVE r[i] = q[Len(q) - Len(r) + i]
  <2> DEFINE j == k + i - 1
  <2>1. j \in 1..Len(s) /\ Len(q) - Len(s) + j = Len(q) - Len(r) + i
    BY <1>1, <1>3
  <2>2. r[i] = s[j]
    BY <1>3
  <2> HIDE DEF j
  <2>3. s[j] = q[Len(q) - Len(s) + j]
    BY <2>1 DEF EndOf
  <2>4. QED BY <2>1, <2>2, <2>3
<1>5. Len(r) <= Len(q)
  BY <1>1, <1>3
<1>6. QED BY <1>3, <1>4, <1>5 DEF EndOf, r

\* ----------------------------------------------- The CAN table and the log

\* A row more keeps the table the newest matching frames.
LEMMA AppendRowIsNewest ==
  ASSUME NEW X, NEW q \in Seq(X), NEW e \in X
  PROVE  AppendRow(Newest(q, RowMax), e) = Newest(Append(q, e), RowMax)
<1> DEFINE r == Newest(q, RowMax)
           p == Append(q, e)
<1>1. RowMax \in Nat /\ RowMax > 0
  BY ConsoleAssumption
<1>2. r \in Seq(X) /\ Len(r) = Least(Len(q), RowMax) /\ EndOf(r, q) /\ Len(q) \in Nat /\ Len(r) \in Nat
  BY <1>1, NewestFacts, LenProperties
<1>3. p \in Seq(X) /\ Len(p) = Len(q) + 1
  BY AppendProperties
<1>4. Newest(p, RowMax) \in Seq(X) /\ Len(Newest(p, RowMax)) = Least(Len(p), RowMax) /\ EndOf(Newest(p, RowMax), p)
  BY <1>1, <1>3, NewestFacts
<1>5. AppendRow(r, e) = IF Len(r) + 1 > RowMax THEN Append(Tail(r), e) ELSE Append(r, e)
  BY DEF AppendRow
<1> HIDE DEF r, p
<1>6. CASE Len(r) + 1 > RowMax
  <2>1. r # <<>>
    BY <1>1, <1>2, <1>6, EmptySeq
  <2>2. Tail(r) = SubSeq(r, 2, Len(r))
    BY <1>2, <2>1, TailIsSubSeq
  <2>3. Len(r) = RowMax /\ 2 <= Len(r) + 1
    BY <1>1, <1>2, <1>6 DEF Least
  <2>a. /\ SubSeq(r, 2, Len(r)) \in Seq(X)
        /\ Len(SubSeq(r, 2, Len(r))) = Len(r) - 2 + 1
        /\ EndOf(SubSeq(r, 2, Len(r)), q)
    <3>1. 2 \in Nat /\ 1 <= 2
      OBVIOUS
    <3>2. QED BY <3>1, <1>2, <2>3, EndOfSub
  <2>4. Tail(r) \in Seq(X) /\ Len(Tail(r)) = RowMax - 1 /\ EndOf(Tail(r), q)
    <3>1. Len(r) - 2 + 1 = RowMax - 1
      BY <1>1, <2>3
    <3>2. QED BY <2>2, <2>a, <3>1, Zenon
  <2>b. EndOf(Append(Tail(r), e), p)
    BY <2>4, EndOfAppend DEF p
  <2>c. Append(Tail(r), e) \in Seq(X) /\ Len(Append(Tail(r), e)) = Len(Tail(r)) + 1
    BY <2>4, AppendProperties
  <2>5. Append(Tail(r), e) \in Seq(X) /\ Len(Append(Tail(r), e)) = RowMax /\ EndOf(Append(Tail(r), e), p)
    BY <1>1, <2>4, <2>b, <2>c
  <2>6. Least(Len(p), RowMax) = RowMax
    BY <1>1, <1>2, <1>3, <2>3 DEF Least
  <2>7. Append(Tail(r), e) = Newest(p, RowMax)
    BY <1>3, <1>4, <2>5, <2>6, EndIsUnique
  <2>8. QED BY <1>5, <1>6, <2>7 DEF r, p
<1>7. CASE ~(Len(r) + 1 > RowMax)
  <2>1. Append(r, e) \in Seq(X) /\ Len(Append(r, e)) = Len(r) + 1 /\ EndOf(Append(r, e), p)
    BY <1>2, AppendProperties, EndOfAppend DEF p
  <2>2. Least(Len(p), RowMax) = Len(r) + 1
    BY <1>1, <1>2, <1>3, <1>7 DEF Least
  <2>3. Append(r, e) = Newest(p, RowMax)
    BY <1>3, <1>4, <2>1, <2>2, EndIsUnique
  <2>4. QED BY <1>5, <1>7, <2>3 DEF r, p
<1>8. QED BY <1>6, <1>7

\* What is left of a log that is cut.
LEMMA CutFacts ==
  ASSUME NEW X, NEW q \in Seq(X), NEW s \in Seq(X), EndOf(s, q)
  PROVE  /\ Cut(s) \in Seq(X)
         /\ EndOf(Cut(s), q)
         /\ Len(Cut(s)) = IF Len(s) > LogMax THEN LogKeep ELSE Len(s)
<1>1. LogMax \in Nat /\ LogKeep \in Nat /\ LogKeep <= LogMax /\ Len(s) \in Nat
  BY StoreAssumption, LenProperties
<1>2. CASE Len(s) > LogMax
  <2> DEFINE k == Len(s) - LogKeep + 1
  <2>1. k \in Nat /\ 1 <= k /\ k <= Len(s) + 1 /\ Len(s) - k + 1 = LogKeep
    BY <1>1, <1>2
  <2>2. Cut(s) = SubSeq(s, k, Len(s))
    BY <1>2 DEF Cut
  <2> HIDE DEF k
  <2>3. /\ SubSeq(s, k, Len(s)) \in Seq(X)
        /\ Len(SubSeq(s, k, Len(s))) = LogKeep
        /\ EndOf(SubSeq(s, k, Len(s)), q)
    BY <2>1, EndOfSub
  <2>4. QED BY <1>2, <2>2, <2>3
<1>3. CASE ~(Len(s) > LogMax)
  BY <1>3 DEF Cut
<1>4. QED BY <1>2, <1>3

\* One element of the pass over the log.
LEMMA PrefixStep ==
  ASSUME NEW X, NEW s \in Seq(X), NEW i \in 1..Len(s)
  PROVE  /\ SubSeq(s, 1, i-1) \in Seq(X)
         /\ s[i] \in X
         /\ SubSeq(s, 1, i) = Append(SubSeq(s, 1, i-1), s[i])
<1>1. Len(s) \in Nat /\ i \in Nat /\ i >= 1
  BY LenProperties
<1>2. s[i] \in X /\ \A j \in 1..(i-1) : s[j] \in X
  BY <1>1, ElementOfSeq
<1>3. SubSeq(s, 1, i-1) \in Seq(X)
  BY <1>1, <1>2, SubSeqProperties
<1>4. 1 \in 1..Len(s) /\ i \in 1..Len(s)
  BY <1>1
<1>5. SubSeq(s, 1, i) = SubSeq(s, 1, i-1) \o <<s[i]>>
  BY <1>4, SubSeqRecursiveSecond
<1>6. Append(SubSeq(s, 1, i-1), s[i]) = SubSeq(s, 1, i-1) \o <<s[i]>>
  BY <1>2, <1>3, AppendIsConcat
<1>7. QED BY <1>2, <1>3, <1>5, <1>6

\* A pass over the log fills the table with its newest matching frames.
LEMMA FillIsNewest ==
  ASSUME NEW X, NEW log \in Seq(X), NEW w
  PROVE  Fill(w, <<>>, log) = Newest(KeptIn(log, {e \in X : Matches(w, e)}), RowMax)
<1> DEFINE M == {e \in X : Matches(w, e)}
           G(g) == [i \in 0..Len(log) |-> IF i = 0 THEN <<>>
                       ELSE IF Matches(w, log[i]) THEN AppendRow(g[i-1], log[i]) ELSE g[i-1]]
           r == CHOOSE g : g = G(g)
           h == [i \in 0..Len(log) |-> Newest(KeptIn(SubSeq(log, 1, i), M), RowMax)]
<1>1. Len(log) \in Nat /\ SubSeq(log, 1, Len(log)) = log
  BY LenProperties, SubSeqFull
<1>2. Fill(w, <<>>, log) = r[Len(log)]
  BY DEF Fill
<1>3. h[0] = <<>>
  <2>1. SubSeq(log, 1, 0) = <<>>
    BY SubSeqEmpty
  <2>2. KeptIn(SubSeq(log, 1, 0), M) = <<>>
    BY <2>1, KeptInEmpty
  <2>3. Newest(<<>>, RowMax) = <<>>
    <3>1. RowMax \in Nat /\ <<>> \in Seq({})
      BY ConsoleAssumption
    <3>2. Newest(<<>>, RowMax) \in Seq({}) /\ Len(Newest(<<>>, RowMax)) = Least(0, RowMax)
      BY <3>1, NewestFacts, EmptySeq
    <3>3. Len(Newest(<<>>, RowMax)) = 0
      BY <3>1, <3>2 DEF Least
    <3>4. QED BY <3>2, <3>3, EmptySeq
  <2>4. QED BY <1>1, <2>2, <2>3
<1>4. ASSUME NEW i \in 1..Len(log)
      PROVE  h[i] = IF Matches(w, log[i]) THEN AppendRow(h[i-1], log[i]) ELSE h[i-1]
  <2> DEFINE p == SubSeq(log, 1, i-1)
             e == log[i]
  <2>1. p \in Seq(X) /\ e \in X /\ SubSeq(log, 1, i) = Append(p, e)
    BY PrefixStep
  <2>2. h[i] = Newest(KeptIn(Append(p, e), M), RowMax) /\ h[i-1] = Newest(KeptIn(p, M), RowMax)
    BY <1>1, <2>1
  <2> HIDE DEF p, e, M, h
  <2>3. KeptIn(Append(p, e), M) = IF e \in M THEN Append(KeptIn(p, M), e) ELSE KeptIn(p, M)
    BY <2>1, KeptInAppend
  <2>4. KeptIn(p, M) \in Seq(X)
    BY <2>1, KeptInAppend
  <2>5. AppendRow(Newest(KeptIn(p, M), RowMax), e) = Newest(Append(KeptIn(p, M), e), RowMax)
    BY <2>1, <2>4, AppendRowIsNewest
  <2>6. e \in M <=> Matches(w, e)
    BY <2>1 DEF M
  <2>7. h[i] = IF Matches(w, e) THEN AppendRow(h[i-1], e) ELSE h[i-1]
    BY <2>2, <2>3, <2>5, <2>6
  <2>8. QED BY <2>7 DEF e
<1>5. h[Len(log)] = Newest(KeptIn(log, M), RowMax)
  <2>1. Len(log) \in 0..Len(log)
    BY <1>1
  <2>2. h[Len(log)] = Newest(KeptIn(SubSeq(log, 1, Len(log)), M), RowMax)
    BY <2>1
  <2>3. QED BY <1>1, <2>2
<1>6. DOMAIN h = 0..Len(log) /\ h = [i \in 0..Len(log) |-> h[i]]
  OBVIOUS
<1> HIDE DEF h, M
<1>7. h = G(h)
  <2>1. ASSUME NEW i \in 0..Len(log)
        PROVE  h[i] = IF i = 0 THEN <<>> ELSE IF Matches(w, log[i]) THEN AppendRow(h[i-1], log[i]) ELSE h[i-1]
    <3>1. CASE i = 0 BY <1>3, <3>1
    <3>2. CASE i \in 1..Len(log)
      <4>1. i # 0
        BY <3>2
      <4>2. QED BY <4>1, <1>4, <3>2
    <3>3. QED BY <1>1, <3>1, <3>2
  <2>2. QED BY <1>6, <2>1
<1>8. r = G(r)
  BY <1>7
<1> HIDE DEF r
<1>9. /\ r[0] = <<>>
      /\ \A i \in 1..Len(log) : r[i] = IF Matches(w, log[i]) THEN AppendRow(r[i-1], log[i]) ELSE r[i-1]
  <2> DEFINE H == G(r)
  <2>1. /\ H[0] = <<>>
        /\ \A i \in 1..Len(log) : H[i] = IF Matches(w, log[i]) THEN AppendRow(r[i-1], log[i]) ELSE r[i-1]
    BY <1>1
  <2> HIDE DEF H
  <2>2. r = H
    BY <1>8 DEF H
  <2>3. QED BY <2>1, <2>2
<1>10. r[Len(log)] = h[Len(log)]
  <2> DEFINE T == {m \in Nat : m \in 0..Len(log) => r[m] = h[m]}
  <2>1. 0 \in T
    BY <1>3, <1>9
  <2>2. ASSUME NEW m \in Nat, m \in T PROVE m + 1 \in T
    <3> SUFFICES ASSUME m + 1 \in 0..Len(log) PROVE r[m+1] = h[m+1]
      OBVIOUS
    <3>1. m \in 0..Len(log) /\ m + 1 \in 1..Len(log) /\ (m + 1) - 1 = m
      BY <1>1
    <3>2. r[m] = h[m]
      BY <2>2, <3>1
    <3>3. r[m+1] = IF Matches(w, log[m+1]) THEN AppendRow(r[m], log[m+1]) ELSE r[m]
      BY <1>9, <3>1
    <3>4. h[m+1] = IF Matches(w, log[m+1]) THEN AppendRow(h[m], log[m+1]) ELSE h[m]
      BY <1>4, <3>1
    <3>5. QED BY <3>2, <3>3, <3>4
  <2> HIDE DEF T
  <2>3. Len(log) \in T
    BY <1>1, <2>1, <2>2, SetInduction
  <2>4. QED BY <1>1, <2>3 DEF T
<1>11. QED BY <1>2, <1>5, <1>10 DEF M

\* -------------------------------------------------------------- FlattenSeq

\* What FlattenSeq computes for the prefixes of ss.
Flat(X, ss) ==
  {f \in [0..Len(ss) -> Seq(X)] :
     /\ f[0] = <<>>
     /\ \A i \in 1..Len(ss) : f[i] = f[i-1] \o ss[i]
     /\ FlattenSeq(ss) = f[Len(ss)]}

\* There is such a run for every sequence of sequences.
LEMMA FlattenRuns ==
  ASSUME NEW X, NEW ss \in Seq(Seq(X))
  PROVE  Flat(X, ss) # {}
<1> DEFINE n == Len(ss)
           V == Seq(X)
           none == <<>>
           G(g) == [i \in 1..n |-> IF i = 1 THEN ss[i] ELSE g[i-1] \o ss[i]]
           r == CHOOSE g : g = G(g)
           next == [p \in Nat \X V |-> IF p[1] \in 1..n THEN p[2] \o ss[p[1]] ELSE p[2]]
<1>1. n \in Nat /\ none \in V /\ \A i \in 1..n : ss[i] \in V
  BY LenProperties, ElementOfSeq
<1>2. next \in [Nat \X V -> V]
  <2>1. ASSUME NEW p \in Nat \X V
        PROVE  (IF p[1] \in 1..n THEN p[2] \o ss[p[1]] ELSE p[2]) \in V
    BY <1>1, ConcatProperties
  <2>2. QED BY <2>1
<1>3. PICK f \in [0..n -> V] : f[0] = none /\ \A i \in 1..n : f[i] = next[<<i, f[i-1]>>]
  <2> HIDE DEF next, V, none, n
  <2>1. Iterations(V, none, next, n) # {}
    BY <1>1, <1>2, Recursion
  <2>2. QED BY <2>1 DEF Iterations
<1>4. ASSUME NEW i \in 1..n PROVE f[i] = f[i-1] \o ss[i]
  <2>a. n \in Nat
    BY <1>1
  <2>b. i \in Nat /\ i - 1 \in 0..n
    BY <2>a
  <2>1. f[i-1] \in V /\ i \in Nat
    BY <2>b
  <2>2. next[<<i, f[i-1]>>] = f[i-1] \o ss[i]
    BY <2>1
  <2>3. QED BY <1>3, <2>2
<1> HIDE DEF next
<1>5. CASE n = 0
  <2>1. FlattenSeq(ss) = ss /\ ss = <<>>
    BY <1>5, EmptySeq DEF FlattenSeq
  <2>2. f \in Flat(X, ss)
    BY <1>3, <1>4, <1>5, <2>1 DEF Flat
  <2>3. QED BY <2>2
<1>6. CASE n # 0
  <2>1. 1 \in 1..n
    BY <1>1, <1>6
  <2>2. f[1] = ss[1]
    <3>1. f[1] = f[1-1] \o ss[1]
      BY <1>4, <2>1
    <3>2. f[1-1] = <<>>
      BY <1>3
    <3>3. <<>> \o ss[1] = ss[1]
      BY <1>1, <2>1, ConcatEmptySeq
    <3>4. QED BY <3>1, <3>2, <3>3
  <2> DEFINE g == [i \in 1..n |-> f[i]]
  <2>3. g = G(g)
    <3>1. ASSUME NEW i \in 1..n PROVE f[i] = IF i = 1 THEN ss[i] ELSE g[i-1] \o ss[i]
      <4>1. CASE i = 1 BY <2>2, <4>1
      <4>2. CASE i # 1
        <5>1. g[i-1] = f[i-1]
          BY <1>1, <4>2
        <5>2. f[i] = f[i-1] \o ss[i]
          BY <1>4
        <5>3. QED BY <4>2, <5>1, <5>2
      <4>3. QED BY <4>1, <4>2
    <3>2. QED BY <3>1
  <2>4. r = G(r)
    BY <2>3
  <2>5. FlattenSeq(ss) = r[n]
    BY <1>6 DEF FlattenSeq
  <2> HIDE DEF r, g
  <2>6. \A i \in 1..n : r[i] = IF i = 1 THEN ss[i] ELSE r[i-1] \o ss[i]
    <3> DEFINE H == G(r)
    <3>1. \A i \in 1..n : H[i] = IF i = 1 THEN ss[i] ELSE r[i-1] \o ss[i]
      OBVIOUS
    <3> HIDE DEF H
    <3>2. r = H
      BY <2>4 DEF H
    <3>3. QED BY <3>1, <3>2
  <2>7. r[n] = f[n]
    <3> HIDE DEF n
    <3> DEFINE T == {m \in Nat : m \in 1..n => r[m] = f[m]}
    <3>1. 0 \in T
      OBVIOUS
    <3>2. ASSUME NEW m \in Nat, m \in T PROVE m + 1 \in T
      <4> SUFFICES ASSUME m + 1 \in 1..n PROVE r[m+1] = f[m+1]
        OBVIOUS
      <4>1. r[m+1] = IF m + 1 = 1 THEN ss[m+1] ELSE r[(m+1)-1] \o ss[m+1]
        BY <2>6
      <4>2. f[m+1] = f[(m+1)-1] \o ss[m+1]
        BY <1>4
      <4>3. CASE m = 0
        BY <4>1, <4>3, <2>2
      <4>4. CASE m # 0
        <5>1. m \in 1..n /\ (m + 1) - 1 = m /\ m + 1 # 1
          BY <1>1, <4>4
        <5>2. r[m] = f[m]
          BY <3>2, <5>1
        <5>3. QED BY <4>1, <4>2, <5>1, <5>2
      <4>5. QED BY <4>3, <4>4
    <3> HIDE DEF T
    <3>3. n \in T
      BY <1>1, <3>1, <3>2, SetInduction
    <3>4. QED BY <1>1, <1>6, <3>3 DEF T
  <2>8. f \in Flat(X, ss)
    BY <1>3, <1>4, <2>5, <2>7 DEF Flat
  <2>9. QED BY <2>8
<1>7. QED BY <1>5, <1>6

\* The concatenation of one sequence more.
LEMMA FlattenAppend ==
  ASSUME NEW X, NEW ss \in Seq(Seq(X)), NEW d \in Seq(X)
  PROVE  /\ FlattenSeq(ss) \in Seq(X)
         /\ FlattenSeq(Append(ss, d)) = FlattenSeq(ss) \o d
<1> DEFINE t == Append(ss, d)
           n == Len(ss)
<1>1. t \in Seq(Seq(X)) /\ n \in Nat /\ Len(t) = n + 1 /\ t[n+1] = d /\ \A i \in 1..n : t[i] = ss[i]
  BY AppendProperties, LenProperties
<1> HIDE DEF t
<1>2. PICK f \in [0..n -> Seq(X)] :
           /\ f[0] = <<>>
           /\ \A i \in 1..n : f[i] = f[i-1] \o ss[i]
           /\ FlattenSeq(ss) = f[n]
  <2>1. Flat(X, ss) # {}
    BY FlattenRuns
  <2>2. QED BY <2>1 DEF Flat
<1>3. PICK g \in [0..Len(t) -> Seq(X)] :
           /\ g[0] = <<>>
           /\ \A i \in 1..Len(t) : g[i] = g[i-1] \o t[i]
           /\ FlattenSeq(t) = g[Len(t)]
  <2>1. Flat(X, t) # {}
    BY <1>1, FlattenRuns
  <2>2. QED BY <2>1 DEF Flat
<1> HIDE DEF n
<1>4. g[n] = f[n]
  <2> DEFINE T == {m \in Nat : m \in 0..n => g[m] = f[m]}
  <2>1. 0 \in T
    BY <1>2, <1>3
  <2>2. ASSUME NEW m \in Nat, m \in T PROVE m + 1 \in T
    <3> SUFFICES ASSUME m + 1 \in 0..n PROVE g[m+1] = f[m+1]
      OBVIOUS
    <3>1. n \in Nat /\ Len(t) = n + 1
      BY <1>1
    <3>2. m \in 0..n /\ m + 1 \in 1..n /\ m + 1 \in 1..Len(t) /\ (m + 1) - 1 = m
      BY <3>1
    <3>3. g[m] = f[m] /\ t[m+1] = ss[m+1]
      BY <1>1, <2>2, <3>2
    <3>4. g[m+1] = g[m] \o t[m+1]
      BY <1>3, <3>2
    <3>5. f[m+1] = f[m] \o ss[m+1]
      BY <1>2, <3>2
    <3>6. QED BY <3>3, <3>4, <3>5
  <2> HIDE DEF T
  <2>3. n \in T
    BY <1>1, <2>1, <2>2, SetInduction
  <2>4. QED BY <1>1, <2>3 DEF T
<1>5. g[n+1] = g[n] \o d
  <2>1. n + 1 \in 1..Len(t) /\ (n + 1) - 1 = n
    BY <1>1
  <2>2. QED BY <1>1, <1>3, <2>1
<1>6. FlattenSeq(ss) \in Seq(X)
  BY <1>1, <1>2
<1>7. QED BY <1>1, <1>2, <1>3, <1>4, <1>5, <1>6 DEF t

\* Nothing to concatenate.
LEMMA FlattenEmpty == FlattenSeq(<<>>) = <<>>
<1>1. Len(<<>>) = 0
  OBVIOUS
<1>2. QED BY <1>1 DEF FlattenSeq

\* ---------------------------------------------------- The console document

\* The newlines of a text are a finite set of its indices.
LEMMA EndsFacts ==
  ASSUME NEW X, NEW text \in Seq(X)
  PROVE  /\ Ends(text) \subseteq 1..Len(text)
         /\ Len(text) \in Nat
         /\ IsFiniteSet(Ends(text))
         /\ Cardinality(Ends(text)) \in Nat
         /\ \A S \in SUBSET Ends(text) : IsFiniteSet(S) /\ Cardinality(S) \in Nat /\ Cardinality(S) <= Cardinality(Ends(text))
<1>1. Len(text) \in Nat /\ DOMAIN text = 1..Len(text)
  BY LenProperties
<1>2. Ends(text) \subseteq 1..Len(text)
  BY <1>1 DEF Ends
<1>3. IsFiniteSet(1..Len(text))
  BY <1>1, FS_Interval
<1>4. IsFiniteSet(Ends(text))
  BY <1>2, <1>3, FS_Subset
<1>5. QED BY <1>1, <1>2, <1>4, FS_Subset, FS_CardinalityType

\* The newlines up to an index can number anything up to all of them.
LEMMA CutExists ==
  ASSUME NEW X, NEW text \in Seq(X), NEW n \in Nat, 1 <= n, n <= Cardinality(Ends(text))
  PROVE  \E i \in Ends(text) : Cardinality({j \in Ends(text) : j <= i}) = n
<1> DEFINE E == Ends(text)
           C == [i \in Nat |-> Cardinality({j \in E : j <= i})]
           T == {i \in Nat : C[i] >= n}
<1>a. \A S \in SUBSET E : IsFiniteSet(S) /\ Cardinality(S) \in Nat
  BY EndsFacts
<1>1. E \subseteq 1..Len(text) /\ Len(text) \in Nat /\ n <= Cardinality(E) /\ Cardinality(E) \in Nat
  BY EndsFacts
<1>b. \A j \in E : j \in Nat /\ 1 <= j /\ j <= Len(text)
  BY <1>1
<1> HIDE DEF E
<1>2. ASSUME NEW i \in Nat PROVE C[i] = Cardinality({j \in E : j <= i}) /\ C[i] \in Nat /\ IsFiniteSet({j \in E : j <= i})
  <2>1. {j \in E : j <= i} \in SUBSET E
    OBVIOUS
  <2>2. QED BY <1>a, <2>1
<1>3. C[Len(text)] = Cardinality(E)
  <2>1. {j \in E : j <= Len(text)} = E
    BY <1>b
  <2>2. QED BY <1>1, <1>2, <2>1
<1>4. C[0] = 0
  <2>1. {j \in E : j <= 0} = {}
    BY <1>b
  <2>2. QED BY <1>2, <2>1, FS_EmptySet
<1>5. ASSUME NEW i \in Nat PROVE C[i+1] = IF i + 1 \in E THEN C[i] + 1 ELSE C[i]
  <2> DEFINE low == {j \in E : j <= i}
             upto == {j \in E : j <= i + 1}
  <2>a. C[i] = Cardinality(low) /\ IsFiniteSet(low) /\ C[i] \in Nat
    BY <1>2
  <2>b. C[i+1] = Cardinality(upto)
    <3>1. i + 1 \in Nat
      OBVIOUS
    <3>2. QED BY <1>2, <3>1
  <2>1. C[i] = Cardinality(low) /\ C[i+1] = Cardinality(upto) /\ IsFiniteSet(low)
    BY <2>a, <2>b
  <2>2. i + 1 \notin low
    OBVIOUS
  <2>3. upto = IF i + 1 \in E THEN low \cup {i + 1} ELSE low
    <3>1. \A j \in E : j <= i + 1 <=> j <= i \/ j = i + 1
      BY <1>b
    <3>2. QED BY <3>1
  <2> HIDE DEF low, upto
  <2>4. Cardinality(low \cup {i + 1}) = Cardinality(low) + 1
    BY <2>1, <2>2, FS_AddElement
  <2>5. QED BY <2>1, <2>3, <2>4
<1> HIDE DEF C
<1>6. Len(text) \in T
  BY <1>1, <1>3
<1>7. PICK i \in T : \A k \in T : i <= k
  BY <1>6, LeastNat
<1>8. i \in Nat /\ C[i] >= n
  BY <1>7
<1>9. i # 0
  BY <1>4, <1>8
<1>10. i - 1 \in Nat /\ i - 1 \notin T /\ (i - 1) + 1 = i
  BY <1>7, <1>8, <1>9
<1>11. C[i-1] \in Nat /\ C[i-1] < n
  <2>1. C[i-1] \in Nat
    BY <1>2, <1>10
  <2>2. ~(C[i-1] >= n)
    BY <1>10
  <2>3. QED BY <2>1, <2>2
<1>12. C[i] = IF i \in E THEN C[i-1] + 1 ELSE C[i-1]
  BY <1>5, <1>10
<1>13. i \in E /\ C[i] = n
  BY <1>8, <1>11, <1>12
<1>14. Cardinality({j \in E : j <= i}) = n
  BY <1>2, <1>8, <1>13
<1>15. QED BY <1>13, <1>14 DEF E

\* An end of a text has the newlines of that part of the text.
LEMMA EndsOfEnd ==
  ASSUME NEW X, NEW q \in Seq(X), NEW s \in Seq(X), EndOf(s, q)
  PROVE  /\ Cardinality(Ends(s)) = Cardinality({j \in Ends(q) : j > Len(q) - Len(s)})
         /\ Cardinality(Ends(s)) <= Cardinality(Ends(q))
<1> DEFINE k == Len(q) - Len(s)
           T == {j \in Ends(q) : j > k}
           f == [i \in Ends(s) |-> k + i]
<1>1. /\ Len(q) \in Nat /\ Len(s) \in Nat /\ Len(s) <= Len(q) /\ k \in Nat
      /\ DOMAIN q = 1..Len(q) /\ DOMAIN s = 1..Len(s)
  BY LenProperties DEF EndOf
<1>2. IsFiniteSet(Ends(s)) /\ Cardinality(T) <= Cardinality(Ends(q))
  BY EndsFacts
<1>3. \A i \in 1..Len(s) : s[i] = q[k + i] /\ k + i \in 1..Len(q)
  BY <1>1 DEF EndOf
<1>4. \A i \in Ends(s) : f[i] = k + i /\ f[i] \in T
  <2>1. ASSUME NEW i \in Ends(s) PROVE k + i \in T
    <3>1. i \in 1..Len(s) /\ s[i] = Newline
      BY <1>1 DEF Ends
    <3>2. k + i \in Ends(q) /\ k + i > k
      BY <1>1, <1>3, <3>1 DEF Ends
    <3>3. QED BY <3>2
  <2>2. QED BY <2>1
<1>5. \A i, j \in Ends(s) : f[i] = f[j] => i = j
  <2>1. Ends(s) \subseteq 1..Len(s)
    BY <1>1 DEF Ends
  <2>2. QED BY <1>1, <2>1
<1>6. ASSUME NEW j \in T PROVE \E i \in Ends(s) : f[i] = j
  <2>1. j \in 1..Len(q) /\ q[j] = Newline /\ j > k
    BY <1>1 DEF Ends
  <2>2. j - k \in 1..Len(s) /\ k + (j - k) = j
    BY <1>1, <2>1
  <2>3. s[j - k] = Newline
    BY <1>3, <2>1, <2>2
  <2>4. j - k \in Ends(s)
    BY <1>1, <2>2, <2>3 DEF Ends
  <2>5. QED BY <1>4, <2>2, <2>4
<1>7. f \in [Ends(s) -> T]
  BY <1>4
<1> HIDE DEF f, T
<1>8. ExistsBijection(Ends(s), T)
  BY <1>5, <1>6, <1>7 DEF ExistsBijection, Bijection, Injection, Surjection, IsInjective
<1>9. Cardinality(T) = Cardinality(Ends(s))
  BY <1>2, <1>8, FS_Bijection
<1>10. QED BY <1>2, <1>9 DEF T

\* A text that goes on has no fewer newlines.
LEMMA EndsOfConcat ==
  ASSUME NEW X, NEW q \in Seq(X), NEW d \in Seq(X)
  PROVE  Cardinality(Ends(q)) <= Cardinality(Ends(q \o d))
<1>1. /\ q \o d \in Seq(X) /\ Len(q \o d) = Len(q) + Len(d)
      /\ \A i \in 1..Len(q) + Len(d) : (q \o d)[i] = IF i <= Len(q) THEN q[i] ELSE d[i - Len(q)]
  BY ConcatProperties
<1>2. Len(q) \in Nat /\ Len(d) \in Nat /\ DOMAIN q = 1..Len(q) /\ DOMAIN (q \o d) = 1..(Len(q) + Len(d))
  BY <1>1, LenProperties
<1>3. ASSUME NEW i \in Ends(q) PROVE i \in Ends(q \o d)
  <2>1. i \in 1..Len(q) /\ q[i] = Newline
    BY <1>2 DEF Ends
  <2>2. i \in 1..(Len(q) + Len(d)) /\ i <= Len(q)
    BY <1>2, <2>1
  <2>3. (q \o d)[i] = Newline
    BY <1>1, <2>1, <2>2
  <2>4. QED BY <1>2, <2>2, <2>3 DEF Ends
<1>4. Ends(q) \in SUBSET Ends(q \o d)
  BY <1>3
<1>5. QED BY <1>1, <1>4, EndsFacts

\* The document keeps its newest blocks.
LEMMA EvictFacts ==
  ASSUME NEW X, NEW text \in Seq(X)
  PROVE  /\ EvictBlocks(text) \in Seq(X)
         /\ EndOf(EvictBlocks(text), text)
         /\ BlockCount(EvictBlocks(text)) <= BlockMax
         /\ BlockCount(text) <= BlockMax => EvictBlocks(text) = text
<1> DEFINE E == Ends(text)
           excess == BlockCount(text) - BlockMax
           cut == CHOOSE i \in E : Cardinality({j \in E : j <= i}) = excess
<1>1. BlockMax \in Nat /\ BlockMax >= 1
  BY ConsoleAssumption
<1>2. /\ E \subseteq 1..Len(text) /\ Len(text) \in Nat /\ IsFiniteSet(E) /\ Cardinality(E) \in Nat
      /\ \A S \in SUBSET E : IsFiniteSet(S) /\ Cardinality(S) \in Nat
  BY EndsFacts
<1>3. BlockCount(text) = Cardinality(E) + 1
  BY DEF BlockCount
<1>4. EndOf(text, text)
  BY <1>2 DEF EndOf
<1>5. CASE ~(excess > 0)
  <2>1. EvictBlocks(text) = text /\ BlockCount(text) <= BlockMax
    BY <1>1, <1>2, <1>3, <1>5 DEF EvictBlocks
  <2>2. QED BY <1>4, <2>1
<1>6. CASE excess > 0
  <2>1. excess \in Nat /\ 1 <= excess /\ excess <= Cardinality(E)
    BY <1>1, <1>2, <1>3, <1>6
  <2>2. EvictBlocks(text) = SubSeq(text, cut + 1, Len(text))
    BY <1>6 DEF EvictBlocks
  <2> HIDE DEF excess
  <2>3. \E i \in E : Cardinality({j \in E : j <= i}) = excess
    BY <2>1, CutExists
  <2>4. cut \in E /\ Cardinality({j \in E : j <= cut}) = excess
    BY <2>3
  <2> HIDE DEF cut
  <2> DEFINE k == cut + 1
             r == SubSeq(text, k, Len(text))
  <2>5. k \in Nat /\ 1 <= k /\ k <= Len(text) + 1 /\ cut \in Nat /\ Len(text) - k + 1 = Len(text) - cut
    BY <1>2, <2>4
  <2> HIDE DEF k
  <2>6. r \in Seq(X) /\ Len(r) = Len(text) - k + 1 /\ EndOf(r, text)
    BY <1>4, <2>5, EndOfSub
  <2> HIDE DEF r
  <2>7. Cardinality(Ends(r)) = Cardinality({j \in E : j > Len(text) - Len(r)})
    BY <2>6, EndsOfEnd
  <2>8. {j \in E : j > Len(text) - Len(r)} = E \ {j \in E : j <= cut}
    BY <1>2, <2>5, <2>6
  <2>9. Cardinality(E \ {j \in E : j <= cut}) = Cardinality(E) - excess
    <3> DEFINE L == {j \in E : j <= cut}
    <3>1. L \subseteq E /\ E \cap L = L
      OBVIOUS
    <3> HIDE DEF L
    <3>2. Cardinality(E \ L) = Cardinality(E) - Cardinality(E \cap L)
      BY <1>2, FS_Difference
    <3>3. QED BY <2>4, <3>1, <3>2 DEF L
  <2>10. BlockCount(r) = BlockMax
    <3>1. Cardinality(Ends(r)) = Cardinality(E) - excess
      BY <2>7, <2>8, <2>9
    <3>2. excess = (Cardinality(E) + 1) - BlockMax
      <4>1. excess = BlockCount(text) - BlockMax
        BY DEF excess
      <4>2. QED BY <1>3, <4>1
    <3>3. BlockCount(r) = Cardinality(Ends(r)) + 1
      BY DEF BlockCount
    <3>4. (Cardinality(E) - ((Cardinality(E) + 1) - BlockMax)) + 1 = BlockMax
      BY <1>1, <1>2
    <3>5. QED BY <3>1, <3>2, <3>3, <3>4
  <2>11. ~(BlockCount(text) <= BlockMax)
    BY <1>1, <1>2, <1>3, <1>6 DEF excess
  <2>12. EvictBlocks(text) = r
    BY <2>2 DEF r, k
  <2>13. QED BY <1>1, <2>6, <2>10, <2>11, <2>12
<1>7. QED BY <1>5, <1>6

\* The console keeps its newest characters, no fewer than the bound allows.
LEMMA TrimFacts ==
  ASSUME NEW X, NEW text \in Seq(X)
  PROVE  /\ Trim(text) \in Seq(X)
         /\ EndOf(Trim(text), text)
         /\ CharacterCount(Trim(text)) <= ConsoleMax + ConsoleSlack
         /\ Len(Trim(text)) >= IF Len(text) < ConsoleMax THEN Len(text) ELSE ConsoleMax - 1
<1>1. ConsoleMax \in Nat /\ ConsoleSlack \in Nat /\ ConsoleMax >= 1 /\ ConsoleSlack >= 1
  BY ConsoleAssumption
<1>2. Len(text) \in Nat
  BY LenProperties
<1>3. EndOf(text, text)
  BY <1>2 DEF EndOf
<1>4. CASE CharacterCount(text) > ConsoleMax + ConsoleSlack
  <2> DEFINE k == CharacterCount(text) - ConsoleMax + 1
             r == SubSeq(text, k, Len(text))
  <2>1. k \in Nat /\ 1 <= k /\ k <= Len(text) + 1 /\ Len(text) - k + 1 = ConsoleMax - 1
    BY <1>1, <1>2, <1>4 DEF CharacterCount
  <2>2. Trim(text) = r
    BY <1>4 DEF Trim
  <2> HIDE DEF k
  <2>3. r \in Seq(X) /\ Len(r) = ConsoleMax - 1 /\ EndOf(r, text)
    BY <1>3, <2>1, EndOfSub
  <2> HIDE DEF r
  <2>4. ~(Len(text) < ConsoleMax)
    BY <1>1, <1>2, <1>4 DEF CharacterCount
  <2>5. QED BY <1>1, <2>2, <2>3, <2>4 DEF CharacterCount
<1>5. CASE ~(CharacterCount(text) > ConsoleMax + ConsoleSlack)
  <2>1. Trim(text) = text
    BY <1>5 DEF Trim
  <2>2. Len(text) + 1 <= ConsoleMax + ConsoleSlack
    BY <1>1, <1>2, <1>5 DEF CharacterCount
  <2>3. QED BY <1>1, <1>2, <1>3, <2>1, <2>2 DEF CharacterCount
<1>6. QED BY <1>4, <1>5

\* -------------------------------- Types of the store and of the QML bridge

\* A sequence is its own end.
LEMMA EndOfSelf ==
  ASSUME NEW X, NEW q \in Seq(X)
  PROVE  EndOf(q, q)
BY LenProperties DEF EndOf

\* A dictionary nothing was written to.
LEMMA DictEmpty ==
  ASSUME NEW K, NEW V
  PROVE  NoneYet \in Dict(K, V) /\ DOMAIN NoneYet = {}
<1>1. NoneYet \in [{} -> V] /\ DOMAIN NoneYet = {}
  BY DEF NoneYet
<1>2. QED BY <1>1 DEF Dict

\* The keys and values of a dictionary.
LEMMA DictFacts ==
  ASSUME NEW K, NEW V, NEW d \in Dict(K, V)
  PROVE  /\ DOMAIN d \subseteq K
         /\ d \in [DOMAIN d -> V]
         /\ \A k \in DOMAIN d : d[k] \in V
<1>1. PICK D \in SUBSET K : d \in [D -> V]
  BY DEF Dict
<1>2. QED BY <1>1

\* Writing a key gives a dictionary.
LEMMA DictPut ==
  ASSUME NEW K, NEW V, NEW d \in Dict(K, V), NEW k \in K, NEW v \in V
  PROVE  /\ Put(d, k, v) \in Dict(K, V)
         /\ DOMAIN Put(d, k, v) = DOMAIN d \cup {k}
         /\ \A x \in DOMAIN d \cup {k} : Put(d, k, v)[x] = IF x = k THEN v ELSE d[x]
<1> DEFINE D == DOMAIN d \cup {k}
<1>1. D \in SUBSET K /\ \A x \in DOMAIN d : d[x] \in V
  BY DictFacts
<1>2. Put(d, k, v) = [x \in D |-> IF x = k THEN v ELSE d[x]]
  BY DEF Put
<1>3. Put(d, k, v) \in [D -> V]
  BY <1>1, <1>2
<1>4. Put(d, k, v) \in Dict(K, V)
  BY <1>1, <1>3 DEF Dict
<1>5. QED BY <1>2, <1>4

\* Reading a key, or the default.
LEMMA DictField ==
  ASSUME NEW K, NEW V, NEW d \in Dict(K, V), NEW k, NEW default
  PROVE  Field(d, k, default) \in V \cup {default}
BY DictFacts DEF Field

\* The fields of an event.
LEMMA FieldType ==
  ASSUME NEW e \in AllEvents, NEW f, NEW default
  PROVE  /\ Field(e, f, default) \in Values(f) \cup {default}
         /\ f \in DOMAIN e => e[f] \in Values(f)
BY DEF Field, Values

\* Clamp stays within its bounds.
LEMMA ClampType ==
  ASSUME NEW v \in Int, NEW hi \in Nat
  PROVE  Clamp(v, hi) \in 0..hi
BY DEF Clamp

\* A CAN frame is an event.
LEMMA CanEventsType ==
  /\ CanEvents \subseteq AllEvents
  /\ \A e \in AllEvents : e \in CanEvents <=> e.t = "can_tx"
BY DEF CanEvents

\* What a complete event has.
LEMMA EventFacts ==
  ASSUME NEW e \in AllEvents, Complete(e)
  PROVE  /\ e.t \in {"pin", "pwm", "uart", "can_state", "lcd", "chipstat"} => e.chip \in Chips
         /\ e.t = "pin" => e.pin \in Values("pin") /\ e.val \in Int
         /\ e.t = "pwm" => e.pin \in Values("pin") /\ e.duty \in Int
         /\ e.t = "uart" => Field(e, "data", <<>>) \in Seq(Characters)
<1>1. Required(e) \subseteq DOMAIN e
  BY DEF Complete
<1>2. "chip" \in Required(e) => e.chip \in Chips
  BY EventsAssumption
<1>3. e.t \in {"pin", "pwm", "uart", "can_state", "lcd", "chipstat"} => "chip" \in Required(e)
  BY DEF Required
<1>4. e.t \in {"pin", "pwm"} => "pin" \in Required(e)
  BY DEF Required
<1>5. e.t \in {"pin", "pwm"} => e["pin"] \in Values("pin")
  BY <1>1, <1>4, FieldType
<1>6. /\ e.t = "pin" => e.val \in Int
      /\ e.t = "pwm" => e.duty \in Int
      /\ e.t = "uart" => Field(e, "data", <<>>) \in Seq(Characters)
  BY EventsAssumption
<1>7. QED BY <1>2, <1>3, <1>5, <1>6

\* A mutator keeps the types of the store.
LEMMA UpdateType ==
  ASSUME NEW s \in Stores, NEW e \in AllEvents, Complete(e)
  PROVE  Update(s, e) \in Stores
<1> USE DEF Stores
<1>1. CASE e.t = "pin"
  <2>1. Put(s.pins[e.chip], e.pin, e.val) \in Dict(Values("pin"), Int)
    <3>1. s.pins[e.chip] \in Dict(Values("pin"), Int) /\ e.pin \in Values("pin") /\ e.val \in Int
      BY <1>1, EventFacts
    <3>2. QED BY <3>1, DictPut, ZenonT(40)
  <2>2. UpdatePin(s, e) \in Stores
    BY <2>1 DEF UpdatePin
  <2>3. QED BY <1>1, <2>2 DEF Update
<1>2. CASE e.t = "pwm"
  <2>1. Put(s.pwm[e.chip], e.pin, e.duty) \in Dict(Values("pin"), Int)
    <3>1. s.pwm[e.chip] \in Dict(Values("pin"), Int) /\ e.pin \in Values("pin") /\ e.duty \in Int
      BY <1>2, EventFacts
    <3>2. QED BY <3>1, DictPut, ZenonT(40)
  <2>2. UpdatePwm(s, e) \in Stores
    BY <2>1 DEF UpdatePwm
  <2>3. QED BY <1>2, <2>2 DEF Update
<1>3. CASE e.t = "can_tx"
  <2>1. Append(s.canLog, e) \in Seq(CanEvents)
    BY <1>3, CanEventsType, AppendProperties
  <2>2. EndOf(Append(s.canLog, e), Append(s.canLog, e))
    BY <2>1, EndOfSelf
  <2>3. Cut(Append(s.canLog, e)) \in Seq(CanEvents)
    BY <2>1, <2>2, CutFacts
  <2>4. UpdateCanTx(s, e) \in Stores
    BY <2>3 DEF UpdateCanTx
  <2>5. QED BY <1>3, <2>4 DEF Update
<1>4. CASE e.t = "log"
  <2>1. Append(s.log, e) \in Seq(AllEvents)
    BY AppendProperties
  <2>2. EndOf(Append(s.log, e), Append(s.log, e))
    BY <2>1, EndOfSelf
  <2>3. Cut(Append(s.log, e)) \in Seq(AllEvents)
    BY <2>1, <2>2, CutFacts
  <2>4. UpdateLog(s, e) \in Stores
    BY <2>3 DEF UpdateLog
  <2>5. QED BY <1>4, <2>4 DEF Update
<1>5. CASE e.t = "can_state"
  <2>1. [tec |-> Field(e, "tec", 0), rec |-> Field(e, "rec", 0), state |-> Field(e, "state", "active")] \in CanStates
    BY FieldType DEF CanStates
  <2>2. UpdateCanState(s, e) \in Stores
    BY <2>1 DEF UpdateCanState
  <2>3. QED BY <1>5, <2>2 DEF Update
<1>6. CASE e.t = "lcd"
  <2>1. Field(e, "line0", <<>>) \in Lines /\ Field(e, "line1", <<>>) \in Lines
    BY FieldType DEF Lines
  <2> DEFINE pair == <<Field(e, "line0", <<>>), Field(e, "line1", <<>>)>>
  <2>2. pair \in Lines \X Lines
    BY <2>1
  <2> HIDE DEF pair
  <2>a. e.chip \in Chips /\ s.lcd \in Dict(Chips, Lines \X Lines)
    BY <1>6, EventFacts
  <2>3. Put(s.lcd, e.chip, pair) \in Dict(Chips, Lines \X Lines)
    BY <2>2, <2>a, DictPut
  <2>4. UpdateLcd(s, e) \in Stores
    BY <2>3 DEF UpdateLcd, pair
  <2>5. QED BY <1>6, <2>4 DEF Update
<1>7. CASE e.t = "chipstat"
  <2> DEFINE old == s.stat[e.chip]
             new == [f \in DOMAIN old |-> Field(e, f, old[f])]
  <2>1. e.chip \in Chips
    BY <1>7, EventFacts
  <2>2. old \in [hex : Values("hex") \cup {""}, free : Values("free") \cup {0}]
    BY <2>1
  <2>a. old["hex"] \in Values("hex") \cup {""} /\ old["free"] \in Values("free") \cup {0}
    BY <2>2
  <2>3. Field(e, "hex", old["hex"]) \in Values("hex") \cup {""} /\ Field(e, "free", old["free"]) \in Values("free") \cup {0}
    <3> HIDE DEF old
    <3>1. Field(e, "hex", old["hex"]) \in Values("hex") \cup {old["hex"]}
      BY FieldType
    <3>2. Field(e, "free", old["free"]) \in Values("free") \cup {old["free"]}
      BY FieldType
    <3>3. QED BY <2>a, <3>1, <3>2
  <2>4. new \in [hex : Values("hex") \cup {""}, free : Values("free") \cup {0}]
    BY <2>2, <2>3
  <2>5. UpdateChipStat(s, e) \in Stores
    BY <2>1, <2>4 DEF UpdateChipStat
  <2>6. QED BY <1>7, <2>5 DEF Update
<1>8. CASE e.t \notin {"pin", "pwm", "can_tx", "log", "can_state", "lcd", "chipstat"}
  BY <1>8 DEF Update
<1>9. QED BY <1>1, <1>2, <1>3, <1>4, <1>5, <1>6, <1>7, <1>8

\* A slot of the QML bridge keeps the types of its fields.
LEMMA QmlHearsType ==
  ASSUME NEW q \in QmlViews, NEW e \in AllEvents, Complete(e)
  PROVE  QmlHears(q, e) \in QmlViews
<1> USE DEF QmlViews
<1>1. CASE e.t = "lcd"
  <2>1. Field(e, "line0", <<>>) \in Lines /\ Field(e, "line1", <<>>) \in Lines
    BY FieldType DEF Lines
  <2>2. <<Fit(Field(e, "line0", <<>>)), Fit(Field(e, "line1", <<>>))>> \in Rows \X Rows
    BY <2>1 DEF Rows
  <2>3. Put(q.lcd, e.chip, <<Fit(Field(e, "line0", <<>>)), Fit(Field(e, "line1", <<>>))>>) \in Dict(Chips, Rows \X Rows)
    BY <1>1, <2>2, EventFacts, DictPut
  <2>4. OnLcdChanged(q, e) \in QmlViews
    BY <2>3 DEF OnLcdChanged
  <2>5. QED BY <1>1, <2>4 DEF QmlHears
<1>2. CASE e.t # "lcd"
  BY <1>2 DEF QmlHears, MarkDirty, Sections
<1>3. QED BY <1>1, <1>2

\* ---------------------------------------------------- Types of the widgets

\* What Strip leaves can be shown.
LEMMA StripType ==
  ASSUME NEW data \in Seq(Characters)
  PROVE  Strip(data) \in Seq(Shown)
<1>1. KeptIn(data, Characters \ {Escape}) \in Seq(Characters \cap (Characters \ {Escape}))
  BY KeptInSeq
<1>2. Characters \cap (Characters \ {Escape}) = Shown
  BY DEF Shown
<1>3. QED BY <1>1, <1>2 DEF Strip

\* The console shows a sequence of characters.
LEMMA ConsoleAppendType ==
  ASSUME NEW text \in Seq(Shown), NEW data \in Seq(Characters)
  PROVE  ConsoleAppend(text, data) \in Seq(Shown)
<1>1. Strip(data) \in Seq(Shown)
  BY StripType
<1>2. text \o Strip(data) \in Seq(Shown)
  BY <1>1, ConcatProperties
<1>3. EvictBlocks(text \o Strip(data)) \in Seq(Shown)
  BY <1>2, EvictFacts
<1>4. Trim(EvictBlocks(text \o Strip(data))) \in Seq(Shown)
  BY <1>3, TrimFacts
<1>5. QED BY <1>4 DEF ConsoleAppend

\* The tables of the panels.
LEMMA LedTables ==
  /\ \A c, pin : pin \in DOMAIN PinLed(c) => PinLed(c)[pin] \in {"dout0", "dout1", "led", "buzz"}
  /\ \A c, pin : pin \in DOMAIN PwmLed(c) => PwmLed(c)[pin] \in {"dout0", "dout1", "led", "buzz"}
BY DEF PinLed, PwmLed, EcuPinLed, McuPinLed, EcuPwmLed, NoneYet

\* Setting an LED gives a panel.
LEMMA SetLedType ==
  ASSUME NEW p \in Panels, NEW leds, NEW name, NEW v \in Int,
         \A x \in DOMAIN leds : leds[x] \in {"dout0", "dout1", "led", "buzz"}
  PROVE  SetLed(p, leds, name, v) \in Panels
<1>1. Clamp(v, Full) \in 0..Full
  BY ClampType DEF Full
<1>2. QED BY <1>1, SMTT(40) DEF SetLed, Panels

\* The Nano's pins and duties give a panel.
LEMMA NanoType ==
  ASSUME NEW p \in Panels, NEW e
  PROVE  /\ NanoPin(p, e) \in Panels
         /\ e.duty \in Int => NanoPwm(p, e) \in Panels
<1>1. NanoPin(p, e) \in Panels
  <2>1. CASE e.pin \in Ports
    <3>1. (e.val # 0) \in BOOLEAN /\ p.pins \in Dict(Ports, BOOLEAN)
      BY DEF Panels
    <3>2. Put(p.pins, e.pin, e.val # 0) \in Dict(Ports, BOOLEAN)
      BY <2>1, <3>1, DictPut
    <3>3. QED BY <2>1, <3>2 DEF NanoPin, Panels
  <2>2. CASE e.pin \notin Ports
    BY <2>2 DEF NanoPin
  <2>3. QED BY <2>1, <2>2
<1>2. ASSUME e.duty \in Int PROVE NanoPwm(p, e) \in Panels
  <2>1. CASE e.pin \in Ports
    <3>1. Clamp(e.duty, Full) \in 0..Full /\ p.pwm \in Dict(Ports, 0..Full)
      BY <1>2, ClampType DEF Panels, Full
    <3>2. Put(p.pwm, e.pin, Clamp(e.duty, Full)) \in Dict(Ports, 0..Full)
      BY <2>1, <3>1, DictPut
    <3>3. QED BY <2>1, <3>2 DEF NanoPwm, Panels
  <2>2. CASE e.pin \notin Ports
    BY <2>2 DEF NanoPwm
  <2>3. QED BY <2>1, <2>2
<1>3. QED BY <1>1, <1>2

\* A row more gives rows.
LEMMA AppendRowType ==
  ASSUME NEW X, NEW rows \in Seq(X), NEW e \in X
  PROVE  AppendRow(rows, e) \in Seq(X)
<1>1. RowMax \in Nat /\ RowMax > 0 /\ Len(rows) \in Nat
  BY ConsoleAssumption, LenProperties
<1>2. CASE Len(rows) + 1 > RowMax
  <2>1. rows # <<>>
    BY <1>1, <1>2, EmptySeq
  <2>2. Append(Tail(rows), e) \in Seq(X)
    BY <2>1, HeadTailProperties, AppendProperties
  <2>3. QED BY <1>2, <2>2 DEF AppendRow
<1>3. CASE ~(Len(rows) + 1 > RowMax)
  BY <1>3, AppendProperties DEF AppendRow
<1>4. QED BY <1>2, <1>3

\* A slot of the window keeps the types of the widgets.
LEMMA QtHearsType ==
  ASSUME NEW w \in QtViews, NEW s \in Stores, NEW e \in AllEvents, Complete(e)
  PROVE  QtHears(w, s, e) \in QtViews
<1> DEFINE p == w.panel[e.chip]
<1>0. e.t \in {"pin", "pwm", "uart", "can_state"} => e.chip \in Chips /\ p \in Panels
  BY EventFacts DEF QtViews
<1>a. ASSUME NEW n \in Panels, e.chip \in Chips
      PROVE  [w EXCEPT !.panel[e.chip] = n] \in QtViews
  BY <1>a DEF QtViews
<1> HIDE DEF p
<1>1. CASE e.t = "pin"
  <2>1. (IF e.val # 0 THEN Full ELSE 0) \in Int
    BY DEF Full
  <2>2. SetLed(p, PinLed(e.chip), e.pin, IF e.val # 0 THEN Full ELSE 0) \in Panels
    BY <1>0, <1>1, <2>1, SetLedType, LedTables
  <2>3. OnPinChanged(p, e) \in Panels
    BY <2>2, NanoType DEF OnPinChanged
  <2>4. QED BY <1>0, <1>1, <1>a, <2>3 DEF QtHears, p
<1>2. CASE e.t = "pwm"
  <2>1. e.duty \in Int
    BY <1>2, EventFacts
  <2>2. SetLed(p, PwmLed(e.chip), e.pin, e.duty) \in Panels
    BY <1>0, <1>2, <2>1, SetLedType, LedTables
  <2>3. OnPwmChanged(p, e) \in Panels
    BY <1>0, <1>2, <2>1, <2>2, NanoType DEF OnPwmChanged
  <2>4. QED BY <1>0, <1>2, <1>a, <2>3 DEF QtHears, p
<1>3. CASE e.t = "uart"
  <2>1. Field(e, "data", <<>>) \in Seq(Characters)
    BY <1>3, EventFacts
  <2>2. p \in Panels /\ p.text \in Seq(Shown)
    BY <1>0, <1>3 DEF Panels
  <2>3. ConsoleAppend(p.text, Field(e, "data", <<>>)) \in Seq(Shown)
    BY <2>1, <2>2, ConsoleAppendType
  <2>4. OnUartAppended(p, e) \in Panels
    BY <2>2, <2>3, ConsoleAssumption DEF OnUartAppended, Panels
  <2>5. QED BY <1>0, <1>3, <1>a, <2>4 DEF QtHears, p
<1>4. CASE e.t = "can_state"
  <2>1. s.canState[e.chip] \in CanStates
    BY <1>0, <1>4 DEF Stores
  <2>2. OnCanStateChanged(p, s, e) \in Panels
    BY <1>0, <1>4, <2>1 DEF OnCanStateChanged, Panels
  <2>3. QED BY <1>0, <1>4, <1>a, <2>2 DEF QtHears, p
<1>5. CASE e.t = "can_tx"
  <2>1. AppendRow(w.rows, e) \in Seq(CanEvents)
    BY <1>5, CanEventsType, AppendRowType DEF QtViews
  <2>2. OnFrame(w, e) \in QtViews
    BY <2>1 DEF OnFrame, QtViews
  <2>3. QED BY <1>5, <2>2 DEF QtHears
<1>6. CASE e.t \notin {"pin", "pwm", "uart", "can_state", "can_tx"}
  BY <1>6 DEF QtHears
<1>7. QED BY <1>1, <1>2, <1>3, <1>4, <1>5, <1>6

\* A pass over the log gives rows.
LEMMA FillType ==
  ASSUME NEW X, NEW log \in Seq(X), NEW w
  PROVE  Fill(w, <<>>, log) \in Seq(X)
<1> DEFINE M == {e \in X : Matches(w, e)}
<1>1. Fill(w, <<>>, log) = Newest(KeptIn(log, M), RowMax)
  BY FillIsNewest
<1>2. KeptIn(log, M) \in Seq(X)
  BY KeptInSeq, SeqMonotonic
<1>3. QED BY <1>1, <1>2, NewestFacts, ConsoleAssumption

\* The plotter samples integers.
LEMMA SampleType ==
  ASSUME NEW s \in Stores, NEW x \in Targets
  PROVE  Sample(s, x) \in Int
<1>1. x.chip \in Chips /\ x.kind \in {"pin", "pwm", "adc"}
  BY ControlsAssumption
<1>2. /\ s.pins[x.chip] \in Dict(Values("pin"), Int) /\ s.pwm[x.chip] \in Dict(Values("pin"), Int)
      /\ s.adc[x.chip] \in Dict(Channels, 0..AdcMax)
  BY <1>1 DEF Stores
<1>3. Pin(s, x.chip, x.name) \in Int /\ Pwm(s, x.chip, x.name) \in Int
  BY <1>2, DictFacts DEF Pin, Pwm, Field
<1>4. Field(s.adc[x.chip], x.name, 0) \in Int
  <2>1. Field(s.adc[x.chip], x.name, 0) \in 0..AdcMax \cup {0}
    BY <1>2, DictField
  <2>2. QED BY <2>1, StoreAssumption
<1>5. QED BY <1>1, <1>3, <1>4 DEF Sample

\* A tick of the plotter keeps the types of the bridge.
LEMMA PlotTickType ==
  ASSUME NEW q \in QmlViews, NEW s \in Stores
  PROVE  PlotTick(q, s, q.lastTick + 1) \in QmlViews
<1> DEFINE Y == [at : Nat, v : Int]
           now == q.lastTick + 1
           new == [x \in Targets |-> Newest(Append(q.trace[x], [at |-> now, v |-> Sample(s, x)]), BufLen)]
<1>1. q.lastTick \in Nat /\ now \in Nat /\ q.trace \in [Targets -> Seq(Y)]
  BY DEF QmlViews
<1> HIDE DEF Y, now
<1>2. ASSUME NEW x \in Targets PROVE Newest(Append(q.trace[x], [at |-> now, v |-> Sample(s, x)]), BufLen) \in Seq(Y)
  <2>1. [at |-> now, v |-> Sample(s, x)] \in Y /\ q.trace[x] \in Seq(Y)
    BY <1>1, SampleType DEF Y
  <2>2. Append(q.trace[x], [at |-> now, v |-> Sample(s, x)]) \in Seq(Y)
    BY <2>1, AppendProperties
  <2>3. QED BY <2>2, NewestFacts, QmlAssumption
<1>3. new \in [Targets -> Seq(Y)]
  BY <1>2
<1>4. PlotTick(q, s, now) = [q EXCEPT !.trace = new, !.lastTick = now]
  BY DEF PlotTick
<1> HIDE DEF new
<1>5. QED BY <1>1, <1>3, <1>4 DEF QmlViews, now, Y

\* ------------------------------------------------------ Lines and commands

Pieces == [ev : AllEvents \cup {Junk}, end : BOOLEAN]

\* The first end of a line.
LEMMA FirstEndFacts ==
  ASSUME NEW data \in Seq(Pieces), HasLine(data)
  PROVE  /\ FirstEnd(data) \in 1..Len(data)
         /\ data[FirstEnd(data)].end
         /\ \A j \in 1..(FirstEnd(data) - 1) : ~data[j].end
<1> DEFINE T == {i \in 1..Len(data) : data[i].end}
<1>1. DOMAIN data = 1..Len(data) /\ Len(data) \in Nat
  BY LenProperties
<1>2. T # {} /\ T \subseteq Nat
  BY <1>1 DEF HasLine
<1>3. PICK n \in T : \A k \in T : n <= k
  BY <1>2, LeastNat
<1>4. ASSUME NEW j \in 1..(n-1) PROVE ~data[j].end
  <2>1. j \in 1..Len(data) /\ ~(n <= j)
    BY <1>1, <1>3
  <2>2. QED BY <1>3, <2>1
<1>5. \E i \in DOMAIN data : data[i].end /\ \A j \in 1..(i-1) : ~data[j].end
  BY <1>1, <1>3, <1>4
<1>6. QED BY <1>1, <1>5 DEF FirstEnd

\* What follows the first line.
LEMMA RestFacts ==
  ASSUME NEW data \in Seq(Pieces), HasLine(data)
  PROVE  /\ Rest(data) \in Seq(Pieces)
         /\ Len(Rest(data)) = Len(data) - FirstEnd(data)
         /\ \A i \in 1..Len(Rest(data)) : Rest(data)[i] = data[FirstEnd(data) + i]
         /\ FirstLine(data) \in Seq(Pieces)
         /\ Len(FirstLine(data)) = FirstEnd(data)
         /\ \A i \in 1..FirstEnd(data) : FirstLine(data)[i] = data[i]
<1> DEFINE n == FirstEnd(data)
           r == SubSeq(data, n + 1, Len(data))
           l == SubSeq(data, 1, n)
<1>1. n \in 1..Len(data) /\ Len(data) \in Nat
  BY FirstEndFacts, LenProperties
<1> HIDE DEF n
<1>2. n \in Nat /\ n + 1 \in Int /\ n >= 1 /\ n <= Len(data)
  BY <1>1
<1>3. (\A i \in (n+1)..Len(data) : data[i] \in Pieces) /\ \A i \in 1..n : data[i] \in Pieces
  BY <1>2, ElementOfSeq
<1>4. /\ r \in Seq(Pieces)
      /\ Len(r) = IF n + 1 <= Len(data) THEN Len(data) - (n + 1) + 1 ELSE 0
      /\ \A i \in 1..(Len(data) - (n + 1) + 1) : r[i] = data[(n + 1) + i - 1]
  BY <1>1, <1>2, <1>3, SubSeqProperties
<1>5. /\ l \in Seq(Pieces)
      /\ Len(l) = IF 1 <= n THEN n - 1 + 1 ELSE 0
      /\ \A i \in 1..(n - 1 + 1) : l[i] = data[1 + i - 1]
  BY <1>2, <1>3, SubSeqProperties
<1> HIDE DEF r, l
<1>6. Len(r) = Len(data) - n
  <2>1. CASE n + 1 <= Len(data) BY <1>1, <1>2, <1>4, <2>1
  <2>2. CASE n = Len(data) BY <1>1, <1>2, <1>4, <2>2
  <2>3. QED BY <1>1, <1>2, <2>1, <2>2
<1>7. ASSUME NEW i \in 1..Len(r) PROVE r[i] = data[n + i]
  <2>1. i \in 1..(Len(data) - (n + 1) + 1) /\ (n + 1) + i - 1 = n + i
    BY <1>1, <1>2, <1>6
  <2>2. QED BY <1>4, <2>1
<1>8. Len(l) = n
  BY <1>2, <1>5
<1>9. ASSUME NEW i \in 1..n PROVE l[i] = data[i]
  <2>1. i \in 1..(n - 1 + 1) /\ 1 + i - 1 = i
    BY <1>2
  <2>2. QED BY <1>5, <2>1
<1>10. Rest(data) = r /\ FirstLine(data) = l
  BY DEF Rest, FirstLine, r, l, n
<1>11. QED BY <1>4, <1>5, <1>6, <1>7, <1>8, <1>9, <1>10 DEF n

\* The events of a window's engine are events.
LEMMA AppEvents == app \in Apps => Events[app] \subseteq AllEvents
BY DEF AllEvents

\* The two pieces of a line.
LEMMA LineOfType ==
  ASSUME NEW e \in AllEvents \cup {Junk}
  PROVE  LineOf(e) \in Seq(Pieces) /\ Len(LineOf(e)) = 2 /\ LineOf(e)[1] = [ev |-> e, end |-> FALSE]
         /\ LineOf(e)[2] = [ev |-> e, end |-> TRUE]
BY DEF LineOf, Pieces

\* What the slots of both windows send are commands.
LEMMA CommandTypes ==
  /\ \A b \in Buttons, on \in BOOLEAN : Din(b, on) \in Commands
  /\ \A k \in Knobs, v \in Int : Adc(k, v) \in Commands
  /\ \A c \in {"load", "unload", "force_busoff", "can_recover"}, x \in Chips : To(c, x) \in Commands
  /\ \A v \in Nat : Speed(v) \in Commands
  /\ \A id \in InjectIds : Inject(id) \in Commands
  /\ \A c \in {"pause", "resume", "run_script"} : [c |-> c] \in Commands
  /\ \A x \in Chips, t \in Typed : [c |-> "uart", chip |-> x, data |-> t] \in Commands
  /\ \A x \in Chips, t \in Typed : [c |-> "uart", chip |-> x, data |-> Append(t, Newline)] \in Commands
  /\ \A x \in Chips, n \in Channels, v \in Int : [c |-> "adc", chip |-> x, ch |-> n, val |-> v] \in Commands
<1>1. \A b \in Buttons, on \in BOOLEAN : Din(b, on) \in Commands
  BY ControlsAssumption DEF Din, Commands
<1>2. \A k \in Knobs, v \in Int : Adc(k, v) \in Commands
  BY ControlsAssumption DEF Adc, Commands
<1>3. \A c \in {"load", "unload", "force_busoff", "can_recover"}, x \in Chips : To(c, x) \in Commands
  BY DEF To, Commands
<1>4. \A v \in Nat : Speed(v) \in Commands
  BY DEF Speed, Commands
<1>5. \A id \in InjectIds : Inject(id) \in Commands
  BY DEF Inject, Commands
<1>6. \A c \in {"pause", "resume", "run_script"} : [c |-> c] \in Commands
  BY DEF Commands
<1>7. \A x \in Chips, t \in Typed : [c |-> "uart", chip |-> x, data |-> t] \in Commands
  BY DEF Commands
<1>8. \A x \in Chips, t \in Typed : [c |-> "uart", chip |-> x, data |-> Append(t, Newline)] \in Commands
  BY DEF Commands
<1>9. \A x \in Chips, n \in Channels, v \in Int : [c |-> "adc", chip |-> x, ch |-> n, val |-> v] \in Commands
  BY DEF Commands
<1>10. QED BY <1>1, <1>2, <1>3, <1>4, <1>5, <1>6, <1>7, <1>8, <1>9

\* A set as a sequence.
LEMMA SetToSeqType ==
  ASSUME NEW S, IsFiniteSet(S)
  PROVE  SetToSeq(S) \in Seq(S)
<1>1. Cardinality(S) \in Nat /\ ExistsBijection(1..Cardinality(S), S)
  BY FS_CardinalityType
<1>2. \E f \in [1..Cardinality(S) -> S] : IsInjective(f)
  BY <1>1 DEF ExistsBijection, Bijection, Injection
<1>3. SetToSeq(S) \in [1..Cardinality(S) -> S]
  BY <1>2 DEF SetToSeq
<1>4. QED BY <1>1, <1>3, SeqDef

\* What the slots of QML may send.
LEMMA SlotTypes ==
  ASSUME NEW name \in DOMAIN QmlSlots, NEW cmds \in QmlSlots[name]
  PROVE  /\ cmds \in Seq(Commands)
         /\ \A i \in DOMAIN cmds : cmds[i].c \notin {"adc", "speed"}
<1> DEFINE Quiet == {m \in Commands : m.c \notin {"adc", "speed"}}
<1>a. \A m \in Quiet : <<m>> \in Seq(Quiet)
  OBVIOUS
<1>b. <<>> \in Seq(Quiet)
  OBVIOUS
<1>1. \A b \in Buttons, on \in BOOLEAN : Din(b, on) \in Quiet
  BY CommandTypes DEF Din
<1>2. \A c \in {"load", "unload", "force_busoff", "can_recover"}, x \in Chips : To(c, x) \in Quiet
  BY CommandTypes DEF To
<1>3. \A id \in InjectIds : Inject(id) \in Quiet
  BY CommandTypes DEF Inject
<1>4. \A c \in {"pause", "resume", "run_script"} : [c |-> c] \in Quiet
  BY CommandTypes
<1>5. \A x \in Chips, t \in Typed : [c |-> "uart", chip |-> x, data |-> t] \in Quiet
  BY CommandTypes
<1>6. SetToSeq({To("load", x) : x \in Ecus}) \in Seq(Quiet)
  <2> DEFINE S == {To("load", x) : x \in Ecus}
             f == [x \in Ecus |-> To("load", x)]
  <2>1. f \in Surjection(Ecus, S)
    BY DEF Surjection
  <2>2. IsFiniteSet(S)
    BY <2>1, ControlsAssumption, FS_Surjection
  <2>3. S \subseteq Quiet
    BY <1>2, ConsoleAssumption
  <2> HIDE DEF S
  <2>4. SetToSeq(S) \in Seq(S)
    BY <2>2, SetToSeqType
  <2>5. SetToSeq(S) \in Seq(Quiet)
    BY <2>3, <2>4, SeqMonotonic
  <2>6. QED BY <2>5 DEF S
<1> HIDE DEF Quiet
<1>7. cmds \in Seq(Quiet)
  <2>1. Ecus \subseteq Chips
    BY ConsoleAssumption
  <2>2. name \in {"setDin", "sendUart", "injectCan", "forceBusoff", "canRecover", "pauseEngine", "resumeEngine",
                  "openLoadDialog", "runScript", "openLoadAllDialog", "unloadChip"}
    BY DEF QmlSlots
  <2>3. CASE name = "setDin"
    <3>1. cmds \in {<<Din(b, on)>> : b \in Buttons, on \in BOOLEAN}
      BY <2>3 DEF QmlSlots
    <3>2. PICK b \in Buttons, on \in BOOLEAN : cmds = <<Din(b, on)>>
      BY <3>1
    <3>3. Din(b, on) \in Quiet
      BY <1>1
    <3>4. QED BY <1>a, <3>2, <3>3
  <2>4. CASE name = "sendUart"
    <3>1. \E x \in Chips, t \in Typed : cmds = <<[c |-> "uart", chip |-> x, data |-> t]>>
      BY <2>4 DEF QmlSlots
    <3>2. PICK x \in Chips, t \in Typed : cmds = <<[c |-> "uart", chip |-> x, data |-> t]>>
      BY <3>1
    <3>3. [c |-> "uart", chip |-> x, data |-> t] \in Quiet
      BY <1>5
    <3>4. QED BY <1>a, <3>2, <3>3
  <2>5. CASE name = "injectCan"
    <3>1. cmds \in {<<Inject(id)>> : id \in InjectIds \ {BadId}} \cup {<<>>}
      BY <2>5 DEF QmlSlots
    <3>2. QED BY <3>1, <1>a, <1>b, <1>3
  <2>6. CASE name = "forceBusoff"
    <3>1. cmds \in {<<To("force_busoff", x)>> : x \in Ecus}
      BY <2>6 DEF QmlSlots
    <3>2. QED BY <3>1, <1>a, <1>2, <2>1
  <2>7. CASE name = "canRecover"
    <3>1. cmds \in {<<To("can_recover", x)>> : x \in Ecus}
      BY <2>7 DEF QmlSlots
    <3>2. QED BY <3>1, <1>a, <1>2, <2>1
  <2>8. CASE name = "pauseEngine"
    <3>1. cmds \in {<<[c |-> "pause"]>>}
      BY <2>8 DEF QmlSlots
    <3>2. QED BY <3>1, <1>a, <1>4
  <2>9. CASE name = "resumeEngine"
    <3>1. cmds \in {<<[c |-> "resume"]>>}
      BY <2>9 DEF QmlSlots
    <3>2. QED BY <3>1, <1>a, <1>4
  <2>10. CASE name = "openLoadDialog"
    <3>1. cmds \in {<<To("load", x)>> : x \in Chips} \cup {<<>>}
      BY <2>10 DEF QmlSlots
    <3>2. QED BY <3>1, <1>a, <1>b, <1>2
  <2>11. CASE name = "runScript"
    <3>1. cmds \in {<<[c |-> "run_script"]>>, <<>>}
      BY <2>11 DEF QmlSlots
    <3>2. QED BY <3>1, <1>a, <1>b, <1>4
  <2>12. CASE name = "openLoadAllDialog"
    <3>1. cmds \in {SetToSeq({To("load", x) : x \in Ecus}), <<>>}
      BY <2>12 DEF QmlSlots
    <3>2. QED BY <3>1, <1>b, <1>6
  <2>13. CASE name = "unloadChip"
    <3>1. cmds \in {<<To("unload", x)>> : x \in Chips}
      BY <2>13 DEF QmlSlots
    <3>2. QED BY <3>1, <1>a, <1>2
  <2>14. QED BY <2>2, <2>3, <2>4, <2>5, <2>6, <2>7, <2>8, <2>9, <2>10, <2>11, <2>12, <2>13
<1>8. \A i \in DOMAIN cmds : cmds[i] \in Quiet
  BY <1>7, LenProperties, ElementOfSeq
<1>9. QED BY <1>7, <1>8, SeqMonotonic DEF Quiet

\* ------------------------------------------------------------------ TypeOK

\* Commands are sent while the engine has not ended.
LEMMA SendAllFacts ==
  ASSUME NEW cmds \in Seq(Commands), sent \in Seq(Commands), SendAll(cmds)
  PROVE  sent' \in Seq(Commands)
BY ConcatProperties DEF SendAll

\* The same for one command.
LEMMA SendCommandFacts ==
  ASSUME NEW cmd \in Commands, sent \in Seq(Commands), SendCommand(cmd)
  PROVE  sent' \in Seq(Commands)
<1>1. <<cmd>> \in Seq(Commands)
  OBVIOUS
<1>2. QED BY <1>1, SendAllFacts DEF SendCommand

\* The initial store and windows have their types.
LEMMA InitTypes ==
  /\ EmptyStore \in Stores
  /\ QmlInit \in QmlViews
  /\ QtInit \in QtViews
<1>1. EmptyStore \in Stores
  <2>1. \A K, V : NoneYet \in Dict(K, V)
    BY DictEmpty
  <2>2. Healthy \in CanStates
    BY DEF Healthy, CanStates
  <2>3. NoStat \in [hex : Values("hex") \cup {""}, free : Values("free") \cup {0}]
    BY DEF NoStat
  <2>4. <<>> \in Seq(CanEvents) /\ <<>> \in Seq(AllEvents)
    OBVIOUS
  <2>5. QED BY <2>1, <2>2, <2>3, <2>4 DEF EmptyStore, Stores
<1>2. QmlInit \in QmlViews
  <2>1. \A K, V : NoneYet \in Dict(K, V)
    BY DictEmpty
  <2>2. \A x \in Targets : <<>> \in Seq([at : Nat, v : Int])
    OBVIOUS
  <2>3. QED BY <2>1, <2>2 DEF QmlInit, QmlViews
<1>3. QtInit \in QtViews
  <2>1. \A K, V : NoneYet \in Dict(K, V)
    BY DictEmpty
  <2>2. Healthy \in CanStates
    BY DEF Healthy, CanStates
  <2>3. 0 \in 0..Full
    BY DEF Full
  <2>4. PanelInit \in Panels
    BY <2>1, <2>2, <2>3 DEF PanelInit, Panels
  <2>5. QED BY <2>4 DEF QtInit, QtViews
<1>4. QED BY <1>1, <1>2, <1>3

\* TypeOK holds initially.
LEMMA TypeInit == Init => TypeOK
<1> SUFFICES ASSUME Init PROVE TypeOK
  OBVIOUS
<1>1. store \in Stores /\ qml \in QmlViews /\ qt \in QtViews
  BY InitTypes DEF Init
<1>2. controls \in [held : Buttons \cup {NoButton}, on : [Buttons -> BOOLEAN], knob : [Knobs -> 0..AdcMax]]
  BY StoreAssumption DEF Init
<1>3. \A X : <<>> \in Seq(X)
  OBVIOUS
<1>4. QED BY <1>1, <1>2, <1>3 DEF Init, TypeOK

\* What the loop of on_stdout does with one line.
LEMMA DispatchTypes ==
  ASSUME TypeOK, DispatchLine
  PROVE  /\ buffer' \in Seq(Pieces)
         /\ seen' \in Seq(AllEvents \cup {Junk})
         /\ store' \in Stores /\ qml' \in QmlViews /\ qt' \in QtViews
<1> DEFINE line == FirstLine(buffer)
           e == line[1].ev
<1>1. HasLine(buffer) /\ buffer \in Seq(Pieces) /\ buffer' = Rest(buffer)
  BY DEF TypeOK, DispatchLine, Pieces
<1>2. buffer' \in Seq(Pieces)
  BY <1>1, RestFacts
<1>3. store \in Stores /\ qml \in QmlViews /\ qt \in QtViews /\ seen \in Seq(AllEvents \cup {Junk}) /\ app \in Apps
  BY DEF TypeOK
<1>4. CASE Parses(line)
  <2>1. PICK x \in Events[app] \ {Junk} : line = LineOf(x)
    BY <1>4 DEF Parses
  <2>2. x \in AllEvents
    BY <1>3, <2>1, AppEvents
  <2>3. e = x
    BY <2>1 DEF LineOf
  <2>4. seen' = Append(seen, e) /\ (IF Complete(e) THEN Dispatch(e) ELSE UNCHANGED uiVars)
    BY <1>4 DEF DispatchLine
  <2> HIDE DEF e, line
  <2>5. seen' \in Seq(AllEvents \cup {Junk})
    BY <1>3, <2>2, <2>3, <2>4, AppendProperties
  <2>6. CASE Complete(e)
    <3>1. store' \in Stores
      BY <1>3, <2>2, <2>3, <2>4, <2>6, UpdateType DEF Dispatch
    <3>2. qml' \in QmlViews
      BY <1>3, <2>2, <2>3, <2>4, <2>6, QmlHearsType DEF Dispatch
    <3>3. qt' \in QtViews
      BY <1>3, <2>2, <2>3, <2>4, <2>6, <3>1, QtHearsType DEF Dispatch
    <3>4. QED BY <1>2, <2>5, <3>1, <3>2, <3>3
  <2>7. CASE ~Complete(e)
    BY <1>2, <1>3, <2>4, <2>5, <2>7 DEF uiVars
  <2>8. QED BY <2>6, <2>7
<1>5. CASE ~Parses(line)
  <2>1. seen' = Append(seen, Junk) /\ UNCHANGED uiVars
    BY <1>5 DEF DispatchLine
  <2>2. seen' \in Seq(AllEvents \cup {Junk})
    BY <1>3, <2>1, AppendProperties
  <2>3. QED BY <1>2, <1>3, <2>1, <2>2 DEF uiVars
<1>6. QED BY <1>4, <1>5

\* A sequence cut in two.
LEMMA SuffixType ==
  ASSUME NEW X, NEW s \in Seq(X), NEW n \in 1..Len(s)
  PROVE  /\ SubSeq(s, 1, n) \in Seq(X) /\ SubSeq(s, n + 1, Len(s)) \in Seq(X)
         /\ SubSeq(s, 1, n) \o SubSeq(s, n + 1, Len(s)) = s
<1>1. Len(s) \in Nat /\ n \in Nat /\ n <= Len(s) /\ 1 <= n
  BY LenProperties
<1>2. (\A i \in (n+1)..Len(s) : s[i] \in X) /\ \A i \in 1..n : s[i] \in X
  BY <1>1, ElementOfSeq
<1>3. SubSeq(s, 1, n) \in Seq(X) /\ SubSeq(s, n + 1, Len(s)) \in Seq(X)
  BY <1>1, <1>2, SubSeqProperties
<1>4. 1 \in 1..(Len(s) + 1) /\ n \in (1 - 1)..Len(s) /\ Len(s) \in n..Len(s)
  BY <1>1
<1>5. SubSeq(s, 1, n) \o SubSeq(s, n + 1, Len(s)) = SubSeq(s, 1, Len(s))
  BY <1>4, ConcatAdjacentSubSeq
<1>6. QED BY <1>3, <1>5, SubSeqFull

\* The TX lamp's decay gives a panel.
LEMMA DecayType ==
  ASSUME NEW p \in Panels
  PROVE  Decay(p) \in Panels
<1>1. p.tx \in Nat /\ (IF p.tx > 0 THEN p.tx - 1 ELSE 0) \in Nat
  BY DEF Panels
<1>2. QED BY <1>1 DEF Decay, Panels

\* Every step keeps TypeOK.
LEMMA TypeStep == TypeOK /\ [Next]_vars => TypeOK'
<1> SUFFICES ASSUME TypeOK, [Next]_vars PROVE TypeOK'
  OBVIOUS
<1> USE DEF TypeOK
<1> DEFINE ControlTypes == [held : Buttons \cup {NoButton}, on : [Buttons -> BOOLEAN], knob : [Knobs -> 0..AdcMax]]
<1>1. CASE OnStdout
  <2>1. PICK n \in 1..Len(pipe) : buffer' = buffer \o SubSeq(pipe, 1, n) /\ pipe' = SubSeq(pipe, n + 1, Len(pipe))
    BY <1>1 DEF OnStdout
  <2>2. pipe \in Seq(Pieces) /\ buffer \in Seq(Pieces)
    BY DEF Pieces
  <2>3. SubSeq(pipe, 1, n) \in Seq(Pieces) /\ pipe' \in Seq(Pieces)
    BY <2>1, <2>2, SuffixType
  <2>4. buffer' \in Seq(Pieces)
    BY <2>1, <2>2, <2>3, ConcatProperties
  <2>5. QED BY <1>1, <2>3, <2>4 DEF OnStdout, uiVars, Pieces
<1>2. CASE DispatchLine
  BY <1>2, DispatchTypes DEF DispatchLine, Pieces
<1>3. CASE OnFinished
  <2>1. qml' \in QmlViews
    BY <1>3 DEF OnFinished, QmlViews
  <2>2. buffer' \in Seq(Pieces)
    BY <1>3 DEF OnFinished
  <2>3. QED BY <1>3, <2>1, <2>2 DEF OnFinished, Pieces
<1>4. CASE EngineWrites
  <2>1. PICK e \in Events[app] : pipe' = pipe \o LineOf(e) /\ emitted' = Append(emitted, e)
    BY <1>4 DEF EngineWrites
  <2>2. e \in AllEvents
    BY <2>1, AppEvents
  <2>3. pipe' \in Seq(Pieces)
    <3>1. LineOf(e) \in Seq(Pieces) /\ pipe \in Seq(Pieces)
      BY <2>2, LineOfType DEF Pieces
    <3>2. QED BY <2>1, <3>1, ConcatProperties
  <2>4. emitted' \in Seq(Events[app])
    BY <2>1, AppendProperties
  <2>5. QED BY <1>4, <2>3, <2>4 DEF EngineWrites, uiVars, Pieces
<1>5. CASE EngineEnds
  <2>1. LineOf(Junk)[1] \in Pieces /\ pipe \in Seq(Pieces)
    BY DEF LineOf, Pieces
  <2>a. pipe' = pipe \/ pipe' = Append(pipe, LineOf(Junk)[1])
    BY <1>5 DEF EngineEnds
  <2> HIDE DEF TypeOK
  <2>2. pipe' \in Seq(Pieces)
    BY <2>1, <2>a, AppendProperties
  <2> USE DEF TypeOK
  <2>3. QED BY <1>5, <2>2 DEF EngineEnds, uiVars, Pieces
<1>6. CASE Read
  <2>1. PICK k \in qml.dirty : qml' = ReadSection(qml, store, k)
    BY <1>6 DEF Read
  <2>2. k \in Sections
    BY DEF QmlViews
  <2>3. store[k] \in [Chips -> Dict(Values("pin"), Int)] \cup [Chips -> Dict(Channels, 0..AdcMax)]
    BY <2>2 DEF Stores, Sections
  <2>4. qml' \in QmlViews
    BY <2>1, <2>2, <2>3 DEF ReadSection, QmlViews
  <2>5. QED BY <1>6, <2>4 DEF Read, ioVars
<1>7. CASE Tick
  <2>1. qml' \in QmlViews
    BY <1>7, PlotTickType DEF Tick
  <2>2. QED BY <1>7, <2>1 DEF Tick, ioVars
<1>8. CASE SetAdc
  <2>1. PICK x \in {y \in Targets : y.kind = "adc"}, v \in Inputs :
          /\ store' = UpdateAdc(store, x.chip, x.name, v)
          /\ qml' = MarkDirty(qml, "adc")
          /\ SendCommand([c |-> "adc", chip |-> x.chip, ch |-> x.name, val |-> v])
    BY <1>8 DEF SetAdc
  <2>2. x.chip \in Chips /\ x.name \in Channels /\ v \in Int
    BY ControlsAssumption
  <2>3. store' \in Stores
    <3>1. Clamp(v, AdcMax) \in 0..AdcMax /\ store.adc[x.chip] \in Dict(Channels, 0..AdcMax)
      BY <2>2, ClampType, StoreAssumption DEF Stores
    <3>2. Put(store.adc[x.chip], x.name, Clamp(v, AdcMax)) \in Dict(Channels, 0..AdcMax)
      BY <2>2, <3>1, DictPut, ZenonT(40)
    <3>3. QED BY <2>1, <2>2, <3>2, ZenonT(40) DEF UpdateAdc, Stores
  <2>4. qml' \in QmlViews
    BY <2>1 DEF MarkDirty, QmlViews, Sections
  <2>5. sent' \in Seq(Commands)
    BY <2>1, <2>2, CommandTypes, SendCommandFacts
  <2>6. QED BY <1>8, <2>3, <2>4, <2>5 DEF SetAdc, ioVars
<1>9. CASE QmlCommand
  <2>1. PICK name \in UsedSlots : \E cmds \in QmlSlots[name] : SendAll(cmds)
    BY <1>9 DEF QmlCommand
  <2>2. name \in DOMAIN QmlSlots
    BY SlotsAssumption
  <2>3. PICK cmds \in QmlSlots[name] : SendAll(cmds)
    BY <2>1
  <2>4. sent' \in Seq(Commands)
    BY <2>2, <2>3, SlotTypes, SendAllFacts
  <2>5. QED BY <1>9, <2>4 DEF QmlCommand, ioVars, uiVars
<1>10. CASE SetSpeed
  <2>1. PICK v \in Speeds : /\ qml' = [qml EXCEPT !.speed = IF v < 0 THEN 0 ELSE v]
                            /\ SendCommand(Speed(IF v < 0 THEN 0 ELSE v))
    BY <1>10 DEF SetSpeed
  <2>2. (IF v < 0 THEN 0 ELSE v) \in Nat
    BY ControlsAssumption
  <2>3. qml' \in QmlViews
    BY <2>1, <2>2 DEF QmlViews
  <2>4. sent' \in Seq(Commands)
    BY <2>1, <2>2, CommandTypes, SendCommandFacts
  <2>5. QED BY <1>10, <2>3, <2>4 DEF SetSpeed, ioVars
<1>11. CASE FlashChip
  <2>1. PICK x \in Chips : SendAll(<<To("load", x)>> \o IF qml.speed = 1 THEN <<>> ELSE <<Speed(1)>>)
    BY <1>11 DEF FlashChip
  <2>2. <<To("load", x)>> \in Seq(Commands) /\ (IF qml.speed = 1 THEN <<>> ELSE <<Speed(1)>>) \in Seq(Commands)
    <3>1. To("load", x) \in Commands /\ Speed(1) \in Commands
      BY CommandTypes
    <3>2. QED BY <3>1
  <2>3. sent' \in Seq(Commands)
    BY <2>1, <2>2, ConcatProperties, SendAllFacts
  <2>4. qml' \in QmlViews
    BY <1>11 DEF FlashChip, QmlViews
  <2>5. QED BY <1>11, <2>3, <2>4 DEF FlashChip, ioVars
<1>12. CASE Press
  <2>1. PICK b \in Buttons :
          /\ controls' = [controls EXCEPT !.held = b, !.on[b] = ~Latching(b) \/ ~controls.on[b]]
          /\ SendCommand(Din(b, ~Latching(b) \/ ~controls.on[b]))
    BY <1>12 DEF Press
  <2>2. (~Latching(b) \/ ~controls.on[b]) \in BOOLEAN
    OBVIOUS
  <2>3. controls' \in ControlTypes
    BY <2>1, <2>2
  <2>4. sent' \in Seq(Commands)
    BY <2>1, <2>2, CommandTypes, SendCommandFacts
  <2>5. QED BY <1>12, <2>3, <2>4 DEF Press, ioVars, uiVars
<1>13. CASE Release
  <2> DEFINE b == controls.held
  <2>1. /\ controls' = [controls EXCEPT !.held = NoButton, !.on[b] = Latching(b) /\ @]
        /\ IF Latching(b) THEN sent' = sent ELSE SendCommand(Din(b, FALSE))
        /\ b \in Buttons
    BY <1>13 DEF Release
  <2>2. controls' \in ControlTypes
    BY <2>1
  <2>3. sent' \in Seq(Commands)
    BY <2>1, CommandTypes, SendCommandFacts
  <2>4. QED BY <1>13, <2>2, <2>3 DEF Release, ioVars, uiVars
<1>14. CASE Turn
  <2>1. PICK k \in Knobs, v \in Inputs : SetValue(k, Clamp(v, AdcMax))
    BY <1>14 DEF Turn
  <2>2. Clamp(v, AdcMax) \in 0..AdcMax /\ Clamp(v, AdcMax) \in Int
    BY ClampType, ControlsAssumption, StoreAssumption
  <2>3. controls' \in ControlTypes
    BY <2>1, <2>2 DEF SetValue
  <2>4. sent' \in Seq(Commands)
    BY <2>1, <2>2, CommandTypes, SendCommandFacts DEF SetValue
  <2>5. QED BY <1>14, <2>3, <2>4 DEF Turn, ioVars, uiVars
<1>15. CASE TypeFilter
  <2>1. PICK ids \in Filters : qt' = OnFilterText(qt, store, ids)
    BY <1>15 DEF TypeFilter
  <2>2. Fill([qt EXCEPT !.filter = ids], <<>>, store.canLog) \in Seq(CanEvents)
    BY FillType DEF Stores
  <2>3. qt' = [[qt EXCEPT !.filter = ids] EXCEPT !.rows = Fill([qt EXCEPT !.filter = ids], <<>>, store.canLog)]
    BY <2>1 DEF OnFilterText, Refresh
  <2>4. qt' \in QtViews
    BY <2>2, <2>3 DEF QtViews
  <2>5. from' \in Int
    <3>1. CanHistory \in Seq(AllEvents \cup {Junk}) /\ store.canLog \in Seq(CanEvents)
      BY KeptInAppend DEF CanHistory, Stores
    <3>2. Len(CanHistory) \in Nat /\ Len(store.canLog) \in Nat
      BY <3>1, LenProperties
    <3>3. QED BY <1>15, <3>2 DEF TypeFilter
  <2>6. QED BY <1>15, <2>4, <2>5 DEF TypeFilter, ioVars
<1>16. CASE Clear
  <2>a. <<>> \in Seq(CanEvents)
    OBVIOUS
  <2>1. qt' \in QtViews
    BY <1>16, <2>a DEF Clear, QtViews
  <2>2. from' \in Int
    <3>1. CanHistory \in Seq(AllEvents \cup {Junk})
      BY KeptInAppend DEF CanHistory
    <3>2. QED BY <1>16, <3>1, LenProperties DEF Clear
  <2>3. QED BY <1>16, <2>1, <2>2 DEF Clear, ioVars
<1>17. CASE DecayUart
  <2>1. PICK c \in Chips : qt.panel[c].tx > 0 /\ qt' = [qt EXCEPT !.panel[c] = Decay(@)]
    BY <1>17 DEF DecayUart
  <2>2. qt.panel[c] \in Panels
    BY DEF QtViews
  <2>3. Decay(qt.panel[c]) \in Panels
    BY <2>2, DecayType
  <2>4. qt' \in QtViews
    BY <2>1, <2>3 DEF QtViews
  <2>5. QED BY <1>17, <2>4 DEF DecayUart, ioVars
<1>18. CASE ToolbarCommand
  <2>1. sent' \in Seq(Commands)
    BY <1>18, CommandTypes, SendCommandFacts DEF ToolbarCommand
  <2>2. QED BY <1>18, <2>1 DEF ToolbarCommand, ioVars, uiVars
<1>19. CASE InjectFrame
  <2>1. sent' \in Seq(Commands)
    BY <1>19, CommandTypes, SendCommandFacts DEF InjectFrame
  <2>2. QED BY <1>19, <2>1 DEF InjectFrame, ioVars, uiVars
<1>20. CASE ConsoleSend
  <2>1. sent' \in Seq(Commands)
    BY <1>20, CommandTypes, SendCommandFacts DEF ConsoleSend
  <2>2. QED BY <1>20, <2>1 DEF ConsoleSend, ioVars, uiVars
<1>21. CASE FaultCommand
  <2>1. sent' \in Seq(Commands)
    BY <1>21, CommandTypes, SendCommandFacts, ConsoleAssumption DEF FaultCommand
  <2>2. QED BY <1>21, <2>1 DEF FaultCommand, ioVars, uiVars
<1>22. CASE UNCHANGED vars
  BY <1>22 DEF vars, ioVars, uiVars
<1>23. QED BY <1>1, <1>2, <1>3, <1>4, <1>5, <1>6, <1>7, <1>8, <1>9, <1>10, <1>11, <1>12, <1>13, <1>14, <1>15,
              <1>16, <1>17, <1>18, <1>19, <1>20, <1>21, <1>22 DEF Next

\* SimProxy, SimState and the windows keep their types: what a record of the
\* Python code may hold, at every callback.
THEOREM TypeCorrect == Spec => []TypeOK
<1>1. Init => TypeOK
  BY TypeInit
<1>2. TypeOK /\ [Next]_vars => TypeOK'
  BY TypeStep
<1>3. QED BY <1>1, <1>2, PTL DEF Spec

\* ------------------------------------------------------------- NothingLost

\* IsPrefix, index by index.
LEMMA PrefixFacts ==
  ASSUME NEW X, NEW s \in Seq(X), NEW t \in Seq(X)
  PROVE  IsPrefix(s, t) <=> Len(s) <= Len(t) /\ \A i \in 1..Len(s) : s[i] = t[i]
<1> DEFINE n == Len(s)
           p == SubSeq(t, 1, n)
<1>1. n \in Nat /\ Len(t) \in Nat /\ SubSeq(s, 1, n) = s
  BY LenProperties, SubSeqFull
<1>2. ASSUME n <= Len(t) PROVE s = p <=> \A i \in 1..n : s[i] = t[i]
  <2>1. \A i \in 1..n : t[i] \in X
    BY <1>1, <1>2, ElementOfSeq
  <2>2. /\ p \in Seq(X)
        /\ Len(p) = IF 1 <= n THEN n - 1 + 1 ELSE 0
        /\ \A i \in 1..(n - 1 + 1) : p[i] = t[1 + i - 1]
    BY <1>1, <2>1, SubSeqProperties
  <2> HIDE DEF p
  <2>3. Len(p) = n /\ \A i \in 1..n : p[i] = t[i]
    BY <1>1, <2>2
  <2>4. (\A i \in 1..n : s[i] = t[i]) => s = p
    BY <2>2, <2>3, SeqEqual
  <2>5. QED BY <2>3, <2>4
<1>3. QED BY <1>1, <1>2 DEF IsPrefix

\* Odd and even pieces belong to the same line.
LEMMA EvenAndOdd ==
  ASSUME NEW m \in Nat
  PROVE  /\ (2 * m + 1) % 2 = 1 /\ (2 * m + 2) % 2 = 0
         /\ ((2 * m + 1) + 1) \div 2 = m + 1 /\ ((2 * m + 2) + 1) \div 2 = m + 1
OBVIOUS

\* The two pieces of line m+1, for any history.
LEMMA PieceOfWritten ==
  ASSUME NEW m \in Nat, NEW q
  PROVE  /\ [ev |-> q[((2 * m + 1) + 1) \div 2], end |-> ((2 * m + 1) % 2 = 0)] = [ev |-> q[m + 1], end |-> FALSE]
         /\ [ev |-> q[((2 * m + 2) + 1) \div 2], end |-> ((2 * m + 2) % 2 = 0)] = [ev |-> q[m + 1], end |-> TRUE]
<1>1. (2 * m + 1) % 2 = 1 /\ (2 * m + 2) % 2 = 0
  BY EvenAndOdd
<1>2. ((2 * m + 1) + 1) \div 2 = m + 1 /\ ((2 * m + 2) + 1) \div 2 = m + 1
  BY EvenAndOdd
<1>3. ((2 * m + 1) % 2 = 0) = FALSE /\ ((2 * m + 2) % 2 = 0) = TRUE
  BY <1>1
<1>4. QED BY <1>2, <1>3, Zenon

\* The two pieces of line m+1.
LEMMA PieceOfLine ==
  ASSUME NEW m \in Nat
  PROVE  /\ Piece(2 * m + 1) = [ev |-> emitted[m + 1], end |-> FALSE]
         /\ Piece(2 * m + 2) = [ev |-> emitted[m + 1], end |-> TRUE]
BY PieceOfWritten, Zenon DEF Piece

\* What has been delivered and the pieces on their way.
Delivered == /\ Len(seen) <= Len(emitted)
             /\ \A i \in 1..Len(seen) : seen[i] = emitted[i]
Coming(c, from1, left) == \A i \in 1..left : c[i] = Piece(from1 + i)

Left == 2 * Len(emitted) - 2 * Len(seen)

StreamInv ==
  LET coming == buffer \o pipe
  IN /\ Delivered
     /\ Coming(coming, 2 * Len(seen), Left)
     /\ \/ Len(coming) = Left
        \/ engine = "exited" /\ Len(coming) = Left + 1 /\ ~coming[Left + 1].end

\* The types of the stream and of its parts.
LEMMA StreamFacts ==
  ASSUME TypeOK
  PROVE  /\ buffer \in Seq(Pieces) /\ pipe \in Seq(Pieces)
         /\ seen \in Seq(AllEvents \cup {Junk}) /\ emitted \in Seq(AllEvents \cup {Junk})
         /\ Len(buffer) \in Nat /\ Len(pipe) \in Nat /\ Len(seen) \in Nat /\ Len(emitted) \in Nat
         /\ buffer \o pipe \in Seq(Pieces)
         /\ Len(buffer \o pipe) = Len(buffer) + Len(pipe)
         /\ \A i \in 1..(Len(buffer) + Len(pipe)) :
              (buffer \o pipe)[i] = IF i <= Len(buffer) THEN buffer[i] ELSE pipe[i - Len(buffer)]
         /\ DOMAIN buffer = 1..Len(buffer)
<1>1. buffer \in Seq(Pieces) /\ pipe \in Seq(Pieces)
  BY DEF TypeOK, Pieces
<1>2. seen \in Seq(AllEvents \cup {Junk}) /\ emitted \in Seq(AllEvents \cup {Junk})
  <2>1. Events[app] \subseteq AllEvents \cup {Junk}
    BY AppEvents DEF TypeOK
  <2>2. QED BY <2>1, SeqMonotonic DEF TypeOK
<1>3. QED BY <1>1, <1>2, LenProperties, ConcatProperties

\* The invariant is NothingLost.
LEMMA StreamIsNothingLost == TypeOK => (StreamInv <=> NothingLost)
<1> SUFFICES ASSUME TypeOK PROVE StreamInv <=> NothingLost
  OBVIOUS
<1>1. Delivered <=> IsPrefix(seen, emitted)
  BY StreamFacts, PrefixFacts DEF Delivered
<1>2. QED BY <1>1 DEF StreamInv, NothingLost, Coming, Left

\* It holds initially.
LEMMA StreamInit == Init => StreamInv
<1> SUFFICES ASSUME Init PROVE StreamInv
  OBVIOUS
<1>1. Len(seen) = 0 /\ Len(emitted) = 0 /\ buffer \o pipe = <<>> /\ Len(<<>>) = 0
  BY DEF Init
<1>2. Left = 0
  BY <1>1 DEF Left
<1>3. QED BY <1>1, <1>2 DEF StreamInv, Delivered, Coming

\* The first line of the buffer is the next event.
LEMMA FirstLineIsNext ==
  ASSUME TypeOK, StreamInv, HasLine(buffer)
  PROVE  /\ Left >= 2
         /\ FirstEnd(buffer) = 2
         /\ Len(seen) + 1 \in 1..Len(emitted)
         /\ FirstLine(buffer) = LineOf(emitted[Len(seen) + 1])
         /\ FirstLine(buffer)[1].ev = emitted[Len(seen) + 1]
<1> DEFINE m == Len(seen)
           n == FirstEnd(buffer)
           e == emitted[m + 1]
           coming == buffer \o pipe
<1>1. /\ n \in 1..Len(buffer) /\ buffer[n].end
      /\ \A j \in 1..(n-1) : ~buffer[j].end
  BY StreamFacts, FirstEndFacts
<1>2. /\ m \in Nat /\ Len(emitted) \in Nat /\ m <= Len(emitted) /\ Len(buffer) \in Nat /\ Len(pipe) \in Nat
      /\ Left \in Nat /\ Left = 2 * (Len(emitted) - m)
      /\ Len(coming) = Len(buffer) + Len(pipe)
  BY StreamFacts DEF StreamInv, Delivered, Left
<1>3. \A i \in 1..Len(buffer) : coming[i] = buffer[i]
  BY StreamFacts
<1>4. \A i \in 1..Left : coming[i] = Piece(2 * m + i)
  BY DEF StreamInv, Coming
<1>5. Len(coming) = Left \/ (Len(coming) = Left + 1 /\ ~coming[Left + 1].end)
  BY DEF StreamInv
<1> HIDE DEF n, m, coming
<1>6. n \in Nat /\ 1 <= n /\ n <= Len(coming) /\ coming[n].end
  BY <1>1, <1>2, <1>3
<1>7. n # Left + 1
  BY <1>5, <1>6, <1>2
<1>8. n <= Left
  BY <1>2, <1>5, <1>6, <1>7
<1>9. Left >= 2 /\ m + 1 \in 1..Len(emitted)
  BY <1>2, <1>6, <1>8
<1>10. Piece(2 * m + 1) = [ev |-> e, end |-> FALSE] /\ Piece(2 * m + 2) = [ev |-> e, end |-> TRUE]
  BY <1>2, PieceOfLine DEF e
<1>11. coming[1] = [ev |-> e, end |-> FALSE] /\ coming[2] = [ev |-> e, end |-> TRUE]
  <2>1. 1 \in 1..Left /\ 2 \in 1..Left
    BY <1>2, <1>9
  <2>2. QED BY <1>4, <1>10, <2>1
<1>12. n # 1
  BY <1>6, <1>11
<1>13. buffer[1] = coming[1] /\ buffer[2] = coming[2]
  <2>1. 1 \in 1..Len(buffer) /\ 2 \in 1..Len(buffer)
    BY <1>1, <1>6, <1>12, <1>2
  <2>2. QED BY <1>3, <2>1
<1>14. n = 2
  <2>1. ASSUME n > 2 PROVE FALSE
    <3>1. 2 \in 1..(n-1)
      BY <1>6, <2>1
    <3>2. QED BY <1>1, <1>11, <1>13, <3>1
  <2>2. QED BY <1>6, <1>12, <2>1
<1>15. FirstLine(buffer) \in Seq(Pieces) /\ Len(FirstLine(buffer)) = 2
       /\ FirstLine(buffer)[1] = buffer[1] /\ FirstLine(buffer)[2] = buffer[2]
  <2>1. /\ FirstLine(buffer) \in Seq(Pieces)
        /\ Len(FirstLine(buffer)) = FirstEnd(buffer)
        /\ \A i \in 1..FirstEnd(buffer) : FirstLine(buffer)[i] = buffer[i]
    BY StreamFacts, RestFacts
  <2>2. QED BY <1>14, <2>1 DEF n
<1>16. e \in AllEvents \cup {Junk}
  BY <1>9, StreamFacts, ElementOfSeq DEF m
<1>17. FirstLine(buffer) = LineOf(e)
  <2>1. LineOf(e) \in Seq(Pieces) /\ Len(LineOf(e)) = 2 /\ LineOf(e)[1] = [ev |-> e, end |-> FALSE] /\ LineOf(e)[2] = [ev |-> e, end |-> TRUE]
    BY <1>16, LineOfType
  <2>2. FirstLine(buffer)[1] = LineOf(e)[1] /\ FirstLine(buffer)[2] = LineOf(e)[2]
    BY <1>11, <1>13, <1>15, <2>1
  <2>3. \A i \in 1..2 : FirstLine(buffer)[i] = LineOf(e)[i]
    BY <2>2
  <2>4. QED BY <1>15, <2>1, <2>3, SeqEqual
<1>18. QED BY <1>9, <1>11, <1>13, <1>14, <1>15, <1>17 DEF n, m

\* What is delivered is the next event, whether it parses or not.
LEMMA DeliversNext ==
  ASSUME TypeOK, StreamInv, DispatchLine
  PROVE  /\ seen' = Append(seen, emitted[Len(seen) + 1])
         /\ emitted[Len(seen) + 1] \in AllEvents \cup {Junk}
<1> DEFINE e == emitted[Len(seen) + 1]
<1>1. HasLine(buffer)
  BY DEF DispatchLine
<1>2. FirstLine(buffer) = LineOf(e) /\ FirstLine(buffer)[1].ev = e /\ Len(seen) + 1 \in 1..Len(emitted)
  BY <1>1, FirstLineIsNext
<1>3. e \in Events[app]
  BY <1>2, ElementOfSeq DEF TypeOK
<1> HIDE DEF e
<1>0. seen' = IF Parses(FirstLine(buffer)) THEN Append(seen, FirstLine(buffer)[1].ev) ELSE Append(seen, Junk)
  BY Zenon DEF DispatchLine
<1>4. ASSUME Parses(FirstLine(buffer)) PROVE seen' = Append(seen, e)
  BY <1>0, <1>2, <1>4, Zenon
<1>5. ASSUME ~Parses(FirstLine(buffer)) PROVE seen' = Append(seen, e)
  <2>1. e = Junk
    BY <1>2, <1>3, <1>5, Zenon DEF Parses
  <2>2. QED BY <1>0, <1>5, <2>1, Zenon
<1>6. seen' = Append(seen, e)
  BY <1>4, <1>5, Zenon
<1>7. e \in AllEvents \cup {Junk}
  BY <1>3, AppEvents DEF TypeOK
<1>8. QED BY <1>6, <1>7 DEF e

\* A step that leaves the stream alone keeps it.
LEMMA StreamUnchanged ==
  ASSUME StreamInv, UNCHANGED ioVars, engine' = engine
  PROVE  StreamInv'
BY DEF StreamInv, Delivered, Coming, Left, Piece, ioVars

\* Delivering the first line keeps it.
LEMMA StreamDispatch ==
  ASSUME TypeOK, StreamInv, DispatchLine
  PROVE  StreamInv'
<1> DEFINE m == Len(seen)
           coming == buffer \o pipe
           next == Rest(buffer) \o pipe
<1>1. /\ buffer' = Rest(buffer) /\ pipe' = pipe /\ emitted' = emitted /\ engine' = engine /\ HasLine(buffer)
  BY DEF DispatchLine
<1>2. seen' = Append(seen, emitted[m + 1]) /\ emitted[m + 1] \in AllEvents \cup {Junk}
  BY DeliversNext
<1>3. Left >= 2 /\ FirstEnd(buffer) = 2 /\ m + 1 \in 1..Len(emitted)
  BY <1>1, FirstLineIsNext
<1>4. Len(seen') = m + 1 /\ (\A i \in 1..m : seen'[i] = seen[i]) /\ seen'[m + 1] = emitted[m + 1]
  BY <1>2, StreamFacts, AppendProperties
<1>5. m \in Nat /\ Len(emitted) \in Nat /\ Len(buffer) \in Nat /\ Len(pipe) \in Nat
  BY StreamFacts
<1>6. Delivered'
  <2>1. \A i \in 1..(m + 1) : seen'[i] = emitted[i]
    <3>1. \A i \in 1..m : seen[i] = emitted[i]
      BY DEF StreamInv, Delivered
    <3>2. QED BY <1>4, <1>5, <3>1
  <2>2. QED BY <1>1, <1>3, <1>4, <1>5, <2>1 DEF Delivered
<1>7. Left' = Left - 2 /\ Left \in Int
  <2>1. Left' = 2 * Len(emitted) - 2 * (m + 1)
    BY <1>1, <1>4 DEF Left
  <2>2. QED BY <1>5, <2>1 DEF Left
<1>8. /\ Rest(buffer) \in Seq(Pieces) /\ Len(Rest(buffer)) = Len(buffer) - 2
      /\ \A i \in 1..(Len(buffer) - 2) : Rest(buffer)[i] = buffer[2 + i]
      /\ Len(buffer) - 2 \in Nat
  <2>1. Len(Rest(buffer)) = Len(buffer) - FirstEnd(buffer)
        /\ Rest(buffer) \in Seq(Pieces)
        /\ \A i \in 1..Len(Rest(buffer)) : Rest(buffer)[i] = buffer[FirstEnd(buffer) + i]
    BY <1>1, StreamFacts, RestFacts
  <2>2. Len(Rest(buffer)) \in Nat
    BY <2>1, LenProperties
  <2>3. QED BY <1>3, <2>1, <2>2
<1>9. /\ Len(next) = (Len(buffer) - 2) + Len(pipe)
      /\ \A i \in 1..((Len(buffer) - 2) + Len(pipe)) :
           next[i] = IF i <= Len(buffer) - 2 THEN Rest(buffer)[i] ELSE pipe[i - (Len(buffer) - 2)]
  <2>1. pipe \in Seq(Pieces) /\ Rest(buffer) \in Seq(Pieces)
    BY <1>8, StreamFacts
  <2>2. Len(Rest(buffer)) = Len(buffer) - 2
    BY <1>8
  <2>3. /\ Len(next) = Len(Rest(buffer)) + Len(pipe)
        /\ \A i \in 1..(Len(Rest(buffer)) + Len(pipe)) :
             next[i] = IF i <= Len(Rest(buffer)) THEN Rest(buffer)[i] ELSE pipe[i - Len(Rest(buffer))]
    BY <2>1, ConcatProperties
  <2>4. QED BY <2>2, <2>3, Zenon
<1>10. Len(coming) = Len(buffer) + Len(pipe)
  BY StreamFacts
<1>11. \A i \in 1..Len(next) : next[i] = coming[i + 2]
  <2>1. ASSUME NEW i \in 1..Len(next) PROVE next[i] = coming[i + 2]
    <3>1. i + 2 \in 1..(Len(buffer) + Len(pipe)) /\ i \in 1..((Len(buffer) - 2) + Len(pipe)) /\ i \in Nat
      BY <1>5, <1>8, <1>9
    <3>2. coming[i + 2] = IF i + 2 <= Len(buffer) THEN buffer[i + 2] ELSE pipe[(i + 2) - Len(buffer)]
      BY <3>1, StreamFacts
    <3>3. next[i] = IF i <= Len(buffer) - 2 THEN Rest(buffer)[i] ELSE pipe[i - (Len(buffer) - 2)]
      BY <1>9, <3>1
    <3>4. CASE i <= Len(buffer) - 2
      <4>1. i \in 1..(Len(buffer) - 2) /\ i + 2 <= Len(buffer) /\ 2 + i = i + 2
        BY <1>5, <3>1, <3>4
      <4>2. QED BY <1>8, <3>2, <3>3, <4>1
    <3>5. CASE ~(i <= Len(buffer) - 2)
      <4>1. ~(i + 2 <= Len(buffer)) /\ (i + 2) - Len(buffer) = i - (Len(buffer) - 2)
        BY <1>5, <3>1, <3>5
      <4>2. QED BY <3>2, <3>3, <3>5, <4>1
    <3>6. QED BY <3>4, <3>5
  <2>2. QED BY <2>1
<1> HIDE DEF next, coming
<1>12. Len(coming) = Left \/ (engine = "exited" /\ Len(coming) = Left + 1 /\ ~coming[Left + 1].end)
  BY DEF StreamInv, coming
<1>13. Len(next) = Len(coming) - 2 /\ Len(coming) \in Nat
  BY <1>5, <1>9, <1>10
<1>14. \A i \in 1..(Left - 2) : next[i] = Piece(2 * (m + 1) + i)
  <2>1. ASSUME NEW i \in 1..(Left - 2) PROVE next[i] = Piece(2 * (m + 1) + i)
    <3>1. i + 2 \in 1..Left /\ i \in 1..Len(next) /\ 2 * (m + 1) + i = 2 * m + (i + 2)
      BY <1>5, <1>7, <1>12, <1>13
    <3>2. coming[i + 2] = Piece(2 * m + (i + 2))
      BY <3>1 DEF StreamInv, Coming, coming, m
    <3>3. QED BY <1>11, <3>1, <3>2
  <2>2. QED BY <2>1
<1>15. buffer' \o pipe' = next
  BY <1>1 DEF next
<1>16. Coming(buffer \o pipe, 2 * Len(seen), Left)'
  <2>1. \A i \in 1..Left' : next[i] = Piece(2 * Len(seen') + i)
    BY <1>4, <1>7, <1>14
  <2>2. \A k : Piece(k)' = Piece(k)
    BY <1>1 DEF Piece
  <2>3. QED BY <1>15, <2>1, <2>2 DEF Coming
<1>17. Len(next) = Left' \/ (engine' = "exited" /\ Len(next) = Left' + 1 /\ ~next[Left' + 1].end)
  <2>1. CASE Len(coming) = Left
    BY <1>7, <1>13, <2>1
  <2>2. CASE engine = "exited" /\ Len(coming) = Left + 1 /\ ~coming[Left + 1].end
    <3>1. Len(next) = Left - 1 /\ Left - 1 \in 1..Len(next) /\ (Left - 1) + 2 = Left + 1 /\ Left' + 1 = Left - 1
      BY <1>3, <1>7, <1>13, <2>2
    <3>2. next[Left - 1] = coming[Left + 1]
      BY <1>11, <3>1
    <3>3. QED BY <1>1, <1>7, <2>2, <3>1, <3>2
  <2>3. QED BY <1>12, <2>1, <2>2
<1>18. QED BY <1>6, <1>15, <1>16, <1>17 DEF StreamInv

\* Reading a chunk keeps it, wherever the chunk ends.
LEMMA StreamStdout ==
  ASSUME TypeOK, StreamInv, OnStdout
  PROVE  StreamInv'
<1>1. PICK n \in 1..Len(pipe) : /\ buffer' = buffer \o SubSeq(pipe, 1, n)
                                /\ pipe' = SubSeq(pipe, n + 1, Len(pipe))
  BY DEF OnStdout
<1>2. emitted' = emitted /\ seen' = seen /\ engine' = engine
  BY DEF OnStdout
<1>3. n \in Nat /\ n <= Len(pipe) /\ Len(pipe) \in Nat
  BY StreamFacts
<1>4. /\ SubSeq(pipe, 1, n) \in Seq(Pieces) /\ SubSeq(pipe, n + 1, Len(pipe)) \in Seq(Pieces)
      /\ SubSeq(pipe, 1, n) \o SubSeq(pipe, n + 1, Len(pipe)) = pipe
  BY <1>3, StreamFacts, SuffixType
<1>5. buffer' \o pipe' = buffer \o pipe
  <2>1. buffer \in Seq(Pieces)
    BY StreamFacts
  <2> DEFINE taken == SubSeq(pipe, 1, n)
             rest  == SubSeq(pipe, n + 1, Len(pipe))
  <2>2. taken \in Seq(Pieces) /\ rest \in Seq(Pieces)
    BY <1>4
  <2> HIDE DEF taken, rest
  <2>3. (buffer \o taken) \o rest = buffer \o (taken \o rest)
    BY <2>1, <2>2, ConcatAssociative, SMTT(40)
  <2> USE DEF taken, rest
  <2>4. QED BY <1>1, <1>4, <2>3, Zenon
<1>6. QED BY <1>2, <1>5 DEF StreamInv, Delivered, Coming, Left, Piece

\* A line the engine writes keeps it.
LEMMA StreamWrites ==
  ASSUME TypeOK, StreamInv, EngineWrites
  PROVE  StreamInv'
<1> DEFINE n == Len(emitted)
           coming == buffer \o pipe
<1>1. PICK e \in Events[app] : pipe' = pipe \o LineOf(e) /\ emitted' = Append(emitted, e)
  BY DEF EngineWrites
<1>2. seen' = seen /\ engine' = engine /\ engine = "running" /\ buffer' = buffer
  BY DEF EngineWrites
<1>3. e \in AllEvents \cup {Junk}
  BY AppEvents DEF TypeOK
<1>4. /\ LineOf(e) \in Seq(Pieces) /\ Len(LineOf(e)) = 2
      /\ LineOf(e)[1] = [ev |-> e, end |-> FALSE] /\ LineOf(e)[2] = [ev |-> e, end |-> TRUE]
  BY <1>3, LineOfType
<1>5. Len(emitted') = n + 1 /\ (\A i \in 1..n : emitted'[i] = emitted[i]) /\ emitted'[n + 1] = e
  BY <1>1, <1>3, StreamFacts, AppendProperties
<1>6. n \in Nat /\ Len(seen) \in Nat /\ coming \in Seq(Pieces) /\ Len(coming) \in Nat
  BY StreamFacts, LenProperties
<1>7. buffer' \o pipe' = coming \o LineOf(e)
  <2>1. buffer \in Seq(Pieces) /\ pipe \in Seq(Pieces)
    BY StreamFacts
  <2>2. (buffer \o pipe) \o LineOf(e) = buffer \o (pipe \o LineOf(e))
    BY <1>4, <2>1, ConcatAssociative
  <2>3. QED BY <1>1, <1>2, <2>2, Zenon
<1>8. Len(coming) = Left /\ Left = 2 * n - 2 * Len(seen)
  BY <1>2 DEF StreamInv, Left
<1>9. Delivered'
  BY <1>2, <1>5, <1>6 DEF StreamInv, Delivered
<1>10. Len(coming \o LineOf(e)) = Len(coming) + 2
       /\ \A i \in 1..(Len(coming) + 2) :
            (coming \o LineOf(e))[i] = IF i <= Len(coming) THEN coming[i] ELSE LineOf(e)[i - Len(coming)]
  <2> HIDE DEF coming
  <2> DEFINE line == LineOf(e)
  <2>1. line \in Seq(Pieces) /\ Len(line) = 2
    BY <1>4
  <2> HIDE DEF line
  <2>2. /\ Len(coming \o line) = Len(coming) + Len(line)
        /\ \A i \in 1..(Len(coming) + Len(line)) :
             (coming \o line)[i] = IF i <= Len(coming) THEN coming[i] ELSE line[i - Len(coming)]
    BY <1>6, <2>1, ConcatProperties
  <2>3. QED BY <2>1, <2>2, Zenon DEF line
<1>11. Left' = Left + 2
  BY <1>2, <1>5, <1>6, <1>8 DEF Left
<1>12. \A i \in 1..(Left + 2) : (coming \o LineOf(e))[i] = Piece(2 * Len(seen) + i)'
  <2>1. ASSUME NEW i \in 1..(Left + 2)
        PROVE  (coming \o LineOf(e))[i] = Piece(2 * Len(seen) + i)'
    <3>1. (coming \o LineOf(e))[i] = IF i <= Left THEN coming[i] ELSE LineOf(e)[i - Left]
      BY <1>8, <1>10
    <3>2. Piece(2 * Len(seen) + i)' = [ev |-> emitted'[((2 * Len(seen) + i) + 1) \div 2], end |-> (2 * Len(seen) + i) % 2 = 0]
      BY <1>2 DEF Piece
    <3>3. CASE i <= Left
      <4>1. i \in 1..Left
        BY <3>3, <1>6, <1>8
      <4>2. coming[i] = Piece(2 * Len(seen) + i)
        BY <4>1 DEF StreamInv, Coming
      <4>3. 2 * Len(seen) + i <= 2 * n /\ 2 * Len(seen) + i \in Nat /\ 1 <= 2 * Len(seen) + i
        BY <4>1, <1>6, <1>8
      <4> HIDE DEF n, coming
      <4>4. ((2 * Len(seen) + i) + 1) \div 2 \in 1..n
        BY <4>3, <1>6
      <4>5. emitted'[((2 * Len(seen) + i) + 1) \div 2] = emitted[((2 * Len(seen) + i) + 1) \div 2]
        BY <4>4, <1>5
      <4>6. QED BY <3>1, <3>2, <3>3, <4>2, <4>5 DEF Piece
    <3>4. CASE ~(i <= Left)
      <4>1. i = Left + 1 \/ i = Left + 2
        BY <3>4, <1>6, <1>8
      <4>2. CASE i = Left + 1
        <5>1. 2 * Len(seen) + i = 2 * n + 1 /\ i - Left = 1
          BY <4>2, <1>6, <1>8
        <5>2. [ev |-> emitted'[((2 * n + 1) + 1) \div 2], end |-> ((2 * n + 1) % 2 = 0)] = [ev |-> emitted'[n + 1], end |-> FALSE]
          BY <1>6, PieceOfWritten
        <5>3. Piece(2 * Len(seen) + i)' = [ev |-> e, end |-> FALSE]
          BY <1>5, <3>2, <5>1, <5>2, Zenon
        <5>4. QED BY <1>4, <3>1, <3>4, <5>1, <5>3
      <4>3. CASE i = Left + 2
        <5>1. 2 * Len(seen) + i = 2 * n + 2 /\ i - Left = 2
          BY <4>3, <1>6, <1>8
        <5>2. [ev |-> emitted'[((2 * n + 2) + 1) \div 2], end |-> ((2 * n + 2) % 2 = 0)] = [ev |-> emitted'[n + 1], end |-> TRUE]
          BY <1>6, PieceOfWritten
        <5>3. Piece(2 * Len(seen) + i)' = [ev |-> e, end |-> TRUE]
          BY <1>5, <3>2, <5>1, <5>2, Zenon
        <5>4. QED BY <1>4, <3>1, <3>4, <5>1, <5>3
      <4>4. QED BY <4>1, <4>2, <4>3
    <3>5. QED BY <3>3, <3>4
  <2>2. QED BY <2>1
<1>13. Coming(buffer \o pipe, 2 * Len(seen), Left)'
  BY <1>2, <1>7, <1>11, <1>12 DEF Coming
<1>14. Len(buffer' \o pipe') = Left'
  BY <1>7, <1>8, <1>10, <1>11
<1>15. QED BY <1>9, <1>13, <1>14 DEF StreamInv

\* The engine's end keeps it, with or without half a line.
LEMMA StreamEnds ==
  ASSUME TypeOK, StreamInv, EngineEnds
  PROVE  StreamInv'
<1> DEFINE coming == buffer \o pipe
           half == LineOf(Junk)[1]
<1>1. seen' = seen /\ emitted' = emitted /\ buffer' = buffer /\ engine = "running" /\ engine' = "exited"
  BY DEF EngineEnds
<1>2. Len(coming) = Left /\ Left' = Left
  BY <1>1 DEF StreamInv, Left
<1>3. Delivered'
  BY <1>1 DEF StreamInv, Delivered
<1>4. CASE pipe' = pipe
  BY <1>1, <1>2, <1>3, <1>4 DEF StreamInv, Delivered, Coming, Left, Piece
<1>5. CASE pipe' = Append(pipe, half)
  <2>1. half = [ev |-> Junk, end |-> FALSE] /\ half \in Pieces /\ ~half.end
    <3>1. Junk \in AllEvents \cup {Junk}
      OBVIOUS
    <3>2. half = [ev |-> Junk, end |-> FALSE]
      BY <3>1, LineOfType
    <3>3. QED BY <3>1, <3>2 DEF Pieces
  <2>2. coming \in Seq(Pieces) /\ buffer' \o pipe' = Append(coming, half)
    BY <1>1, <1>5, <2>1, StreamFacts, AppendIsConcat, ConcatAssociative
  <2> HIDE DEF half, coming
  <2>3. Len(Append(coming, half)) = Left + 1 /\ Append(coming, half)[Left + 1] = half
        /\ \A i \in 1..Left : Append(coming, half)[i] = coming[i]
    BY <1>2, <2>1, <2>2, AppendProperties
  <2>4. Coming(buffer \o pipe, 2 * Len(seen), Left)'
    BY <1>1, <1>2, <2>2, <2>3 DEF StreamInv, Coming, Piece, coming
  <2>5. QED BY <1>1, <1>2, <1>3, <2>1, <2>2, <2>3, <2>4 DEF StreamInv
<1>6. QED BY <1>4, <1>5 DEF EngineEnds

\* Dropping the incomplete line keeps it.
LEMMA StreamFinished ==
  ASSUME TypeOK, StreamInv, OnFinished
  PROVE  StreamInv'
<1> DEFINE coming == buffer \o pipe
<1>1. /\ seen' = seen /\ emitted' = emitted /\ buffer' = <<>> /\ pipe' = <<>> /\ pipe = <<>> /\ engine' = "over"
      /\ \A i \in DOMAIN buffer : ~buffer[i].end
  BY DEF OnFinished, Idle, HasLine
<1>2. coming = buffer
  BY <1>1, StreamFacts, ConcatEmptySeq
<1>3. Left = 2 * (Len(emitted) - Len(seen)) /\ Left \in Nat /\ Len(seen) \in Nat /\ Len(emitted) \in Nat /\ Len(seen) <= Len(emitted)
  BY StreamFacts DEF StreamInv, Delivered, Left
<1>4. Left = 0
  <2>1. ASSUME Left # 0 PROVE FALSE
    <3>1. Left >= 2
      BY <1>3, <2>1
    <3>2. 2 \in 1..Left /\ 2 \in 1..Len(buffer)
      BY <1>2, <1>3, <3>1, StreamFacts DEF StreamInv
    <3>3. buffer[2] = Piece(2 * Len(seen) + 2)
      BY <1>2, <3>2 DEF StreamInv, Coming
    <3>4. Piece(2 * Len(seen) + 2) = [ev |-> emitted[Len(seen) + 1], end |-> TRUE]
      BY <1>3, PieceOfLine
    <3>6. buffer[2].end
      BY <3>3, <3>4
    <3>5. QED BY <1>1, <3>2, <3>6, StreamFacts
  <2>2. QED BY <2>1
<1>5. Left' = 0
  BY <1>1, <1>4 DEF Left
<1>6. buffer' \o pipe' = <<>> /\ Len(<<>>) = 0
  BY <1>1, ConcatEmptySeq
<1>7. Delivered'
  BY <1>1 DEF StreamInv, Delivered
<1>8. QED BY <1>5, <1>6, <1>7 DEF StreamInv, Coming

\* Every step keeps it.
LEMMA StreamStep ==
  ASSUME TypeOK, StreamInv, [Next]_vars
  PROVE  StreamInv'
<1>1. CASE OnStdout
  BY <1>1, StreamStdout
<1>2. CASE DispatchLine
  BY <1>2, StreamDispatch
<1>3. CASE OnFinished
  BY <1>3, StreamFinished
<1>4. CASE EngineWrites
  BY <1>4, StreamWrites
<1>5. CASE EngineEnds
  BY <1>5, StreamEnds
<1>6. ASSUME Read \/ Tick \/ SetAdc \/ SetSpeed \/ FlashChip \/ QmlCommand PROVE UNCHANGED ioVars /\ engine' = engine
  BY <1>6 DEF Read, Tick, SetAdc, SetSpeed, FlashChip, QmlCommand
<1>7. ASSUME Press \/ Release \/ Turn \/ TypeFilter \/ Clear \/ DecayUart PROVE UNCHANGED ioVars /\ engine' = engine
  BY <1>7 DEF Press, Release, Turn, TypeFilter, Clear, DecayUart
<1>8. ASSUME ToolbarCommand \/ InjectFrame \/ ConsoleSend \/ FaultCommand PROVE UNCHANGED ioVars /\ engine' = engine
  BY <1>8 DEF ToolbarCommand, InjectFrame, ConsoleSend, FaultCommand
<1>9. ASSUME UNCHANGED vars PROVE UNCHANGED ioVars /\ engine' = engine
  BY <1>9 DEF vars
<1>10. QED BY <1>1, <1>2, <1>3, <1>4, <1>5, <1>6, <1>7, <1>8, <1>9, StreamUnchanged DEF Next

\* SimProxy._on_stdout delivers every line of the engine once, whole and in
\* order, however the pipe cuts the stream into chunks.
THEOREM NothingLostHolds == Spec => []NothingLost
<1>1. Init => StreamInv
  BY StreamInit
<1>2. TypeOK /\ StreamInv /\ [Next]_vars => StreamInv'
  BY StreamStep
<1>3. TypeOK /\ StreamInv => NothingLost
  BY StreamIsNothingLost
<1>4. QED BY <1>1, <1>2, <1>3, TypeCorrect, PTL DEF Spec

\* -------------------------------------------------------------- Deliveries

Arrivals == AllEvents \cup {Junk}

\* One line goes to the mutators and the slots of the window.
Delivers(e) ==
  /\ seen' = Append(seen, e)
  /\ IF Complete(e) THEN Dispatch(e) ELSE UNCHANGED uiVars
  /\ UNCHANGED <<app, engine, controls, sent, from>>

\* A line that does not parse changes nothing.
LEMMA JunkFacts ==
  /\ Junk.t = "junk" /\ Complete(Junk)
  /\ \A s : Update(s, Junk) = s
  /\ \A q : QmlHears(q, Junk) = q
  /\ \A w, s : QtHears(w, s, Junk) = w
<1>1. Junk.t = "junk"
  BY DEF Junk
<1>2. Required(Junk) = {}
  BY <1>1 DEF Required
<1>3. QED BY <1>1, <1>2 DEF Complete, Update, QmlHears, QtHears

\* A step of the loop delivers one arrival.
LEMMA DeliveryExists ==
  ASSUME TypeOK, DispatchLine
  PROVE  \E e \in Arrivals : Delivers(e)
<1> DEFINE line == FirstLine(buffer)
<1>1. UNCHANGED <<app, engine, controls, sent, from>>
  BY DEF DispatchLine
<1>2. CASE Parses(line)
  <2>1. PICK x \in Events[app] \ {Junk} : line = LineOf(x)
    BY <1>2 DEF Parses
  <2>2. x \in AllEvents
    BY <2>1, AppEvents DEF TypeOK
  <2>a. LineOf(x)[1] = [ev |-> x, end |-> FALSE]
    BY <2>2, LineOfType
  <2>3. line[1].ev = x
    BY <2>1, <2>a
  <2>4. seen' = Append(seen, line[1].ev) /\ (IF Complete(line[1].ev) THEN Dispatch(line[1].ev) ELSE UNCHANGED uiVars)
    BY <1>2 DEF DispatchLine
  <2> HIDE DEF line
  <2>5. Delivers(x)
    BY <1>1, <2>3, <2>4, Zenon DEF Delivers
  <2>6. QED BY <2>2, <2>5 DEF Arrivals
<1>3. CASE ~Parses(line)
  <2>1. seen' = Append(seen, Junk) /\ UNCHANGED uiVars
    BY <1>3 DEF DispatchLine
  <2>2. Dispatch(Junk)
    BY <2>1, JunkFacts DEF Dispatch, uiVars
  <2>3. Delivers(Junk)
    BY <1>1, <2>1, <2>2, JunkFacts DEF Delivers
  <2>4. QED BY <2>3 DEF Arrivals
<1>4. QED BY <1>2, <1>3

\* The types of what arrives.
LEMMA ArrivalFacts ==
  ASSUME NEW e \in Arrivals
  PROVE  /\ e \in CanEvents <=> e.t = "can_tx"
         /\ e.t = "can_tx" => Complete(e)
         /\ Complete(e) =>
              /\ e.t \in {"pin", "pwm", "uart", "can_state", "lcd", "chipstat"} => e.chip \in Chips
              /\ e.t = "pin" => e.pin \in Values("pin") /\ e.val \in Int
              /\ e.t = "pwm" => e.pin \in Values("pin") /\ e.duty \in Int
              /\ e.t = "uart" => Field(e, "data", <<>>) \in Seq(Characters)
<1>1. CASE e \in AllEvents
  <2>1. e \in CanEvents <=> e.t = "can_tx"
    BY <1>1, CanEventsType
  <2>2. e.t = "can_tx" => Complete(e)
    BY DEF Complete, Required
  <2>3. QED BY <1>1, <2>1, <2>2, EventFacts
<1>2. CASE e = Junk
  BY <1>2, JunkFacts DEF CanEvents
<1>3. QED BY <1>1, <1>2 DEF Arrivals

\* What a mutator changes and what it leaves.
LEMMA UpdateParts ==
  ASSUME NEW s \in Stores, NEW e \in Arrivals, Complete(e)
  PROVE  /\ Update(s, e) \in Stores
         /\ Update(s, e).pins = IF e.t = "pin" THEN [s.pins EXCEPT ![e.chip] = Put(@, e.pin, e.val)] ELSE s.pins
         /\ Update(s, e).pwm = IF e.t = "pwm" THEN [s.pwm EXCEPT ![e.chip] = Put(@, e.pin, e.duty)] ELSE s.pwm
         /\ Update(s, e).adc = s.adc
         /\ Update(s, e).canState =
              IF e.t = "can_state" THEN [s.canState EXCEPT ![e.chip] = [tec   |-> Field(e, "tec", 0),
                                                                       rec   |-> Field(e, "rec", 0),
                                                                       state |-> Field(e, "state", "active")]]
              ELSE s.canState
         /\ Update(s, e).stat =
              IF e.t = "chipstat" THEN [s.stat EXCEPT ![e.chip] = [f \in DOMAIN @ |-> Field(e, f, @[f])]] ELSE s.stat
         /\ Update(s, e).lcd =
              IF e.t = "lcd" THEN Put(s.lcd, e.chip, <<Field(e, "line0", <<>>), Field(e, "line1", <<>>)>>) ELSE s.lcd
         /\ Update(s, e).canLog = IF e.t = "can_tx" THEN Cut(Append(s.canLog, e)) ELSE s.canLog
<1>1. Update(s, e) \in Stores
  BY UpdateType, JunkFacts DEF Arrivals
<1>2. s = [pins |-> s.pins, pwm |-> s.pwm, adc |-> s.adc, canState |-> s.canState, stat |-> s.stat,
           lcd |-> s.lcd, canLog |-> s.canLog, log |-> s.log]
  BY DEF Stores
<1>3. CASE e.t = "pin"
  BY <1>1, <1>2, <1>3 DEF Update, UpdatePin
<1>4. CASE e.t = "pwm"
  BY <1>1, <1>2, <1>4 DEF Update, UpdatePwm
<1>5. CASE e.t = "can_tx"
  BY <1>1, <1>2, <1>5 DEF Update, UpdateCanTx
<1>6. CASE e.t = "can_state"
  BY <1>1, <1>2, <1>6 DEF Update, UpdateCanState
<1>7. CASE e.t = "lcd"
  BY <1>1, <1>2, <1>7 DEF Update, UpdateLcd
<1>8. CASE e.t = "log"
  BY <1>1, <1>2, <1>8 DEF Update, UpdateLog
<1>9. CASE e.t = "chipstat"
  BY <1>1, <1>2, <1>9 DEF Update, UpdateChipStat
<1>10. CASE e.t \notin {"pin", "pwm", "can_tx", "can_state", "lcd", "log", "chipstat"}
  BY <1>1, <1>2, <1>10 DEF Update
<1>11. QED BY <1>3, <1>4, <1>5, <1>6, <1>7, <1>8, <1>9, <1>10

\* A step that delivers nothing leaves the store to setAdc, which writes the
\* ADC record only.
LEMMA StoreStays ==
  ASSUME TypeOK, [Next]_vars, ~DispatchLine
  PROVE  /\ seen' = seen /\ app' = app
         /\ store' = store \/ SetAdc
         /\ \A k \in {"pins", "pwm", "canState", "stat", "lcd", "canLog"} : store'[k] = store[k]
<1>1. ASSUME OnStdout \/ OnFinished \/ EngineWrites \/ EngineEnds PROVE seen' = seen /\ store' = store /\ app' = app
  BY <1>1 DEF OnStdout, OnFinished, EngineWrites, EngineEnds, uiVars
<1>2. ASSUME Read \/ Tick \/ SetSpeed \/ FlashChip \/ QmlCommand PROVE seen' = seen /\ store' = store /\ app' = app
  BY <1>2 DEF Read, Tick, SetSpeed, FlashChip, QmlCommand, ioVars, uiVars
<1>3. ASSUME Press \/ Release \/ Turn \/ TypeFilter \/ Clear \/ DecayUart PROVE seen' = seen /\ store' = store /\ app' = app
  BY <1>3 DEF Press, Release, Turn, TypeFilter, Clear, DecayUart, ioVars, uiVars
<1>4. ASSUME ToolbarCommand \/ InjectFrame \/ ConsoleSend \/ FaultCommand PROVE seen' = seen /\ store' = store /\ app' = app
  BY <1>4 DEF ToolbarCommand, InjectFrame, ConsoleSend, FaultCommand, ioVars, uiVars
<1>5. ASSUME UNCHANGED vars PROVE seen' = seen /\ store' = store /\ app' = app
  BY <1>5 DEF vars, ioVars, uiVars
<1>6. ASSUME SetAdc PROVE seen' = seen /\ app' = app /\ \A k \in {"pins", "pwm", "canState", "stat", "lcd", "canLog"} : store'[k] = store[k]
  <2>1. PICK chip, ch, v : store' = UpdateAdc(store, chip, ch, v)
    BY <1>6 DEF SetAdc
  <2>2. store = [pins |-> store.pins, pwm |-> store.pwm, adc |-> store.adc, canState |-> store.canState,
                 stat |-> store.stat, lcd |-> store.lcd, canLog |-> store.canLog, log |-> store.log]
    BY DEF TypeOK, Stores
  <2>3. \A k \in {"pins", "pwm", "canState", "stat", "lcd", "canLog"} : store'[k] = store[k]
    BY <2>1, <2>2 DEF UpdateAdc
  <2>4. QED BY <1>6, <2>3 DEF SetAdc, ioVars
<1>7. QED BY <1>1, <1>2, <1>3, <1>4, <1>5, <1>6 DEF Next

\* StoreIsLatest, part by part, for a store and a history of arrivals.
HeardIn(q) == {i \in DOMAIN q : Complete(q[i])}
LastWord(q, i) == \A j \in HeardIn(q) : j > i => ~Overwrites(q[j], q[i])

KeysLatest(d, t, f, q) ==
  \A i \in HeardIn(q) : q[i].t = t /\ LastWord(q, i) =>
    q[i].pin \in DOMAIN d[q[i].chip] /\ d[q[i].chip][q[i].pin] = q[i][f]
KeysHeard(d, t, q) ==
  \A c \in Chips : \A p \in DOMAIN d[c] : \E i \in HeardIn(q) : q[i].t = t /\ q[i].chip = c /\ q[i].pin = p

StateOf(e) == [tec |-> Field(e, "tec", 0), rec |-> Field(e, "rec", 0), state |-> Field(e, "state", "active")]
StateLatest(d, q) ==
  \A i \in HeardIn(q) : q[i].t = "can_state" /\ LastWord(q, i) => d[q[i].chip] = StateOf(q[i])
StateHeard(d, q) ==
  \A c \in Chips : d[c] # Healthy => \E i \in HeardIn(q) : q[i].t = "can_state" /\ q[i].chip = c

LastWordOn(q, i, k) == \A j \in HeardIn(q) : j > i /\ Overwrites(q[j], q[i]) => k \notin DOMAIN q[j]
StatLatest(d, q) ==
  \A i \in HeardIn(q) : q[i].t = "chipstat" =>
    \A k \in DOMAIN NoStat \cap DOMAIN q[i] : LastWordOn(q, i, k) => d[q[i].chip][k] = q[i][k]
StatHeard(d, q) ==
  \A c \in Chips : d[c] # NoStat => \E i \in HeardIn(q) : q[i].t = "chipstat" /\ q[i].chip = c

LogIsEnd(log, q) ==
  /\ EndOf(log, KeptIn(q, CanEvents))
  /\ Len(log) <= LogMax
  /\ Len(log) >= Least(LogKeep, Len(KeptIn(q, CanEvents)))

\* The history with one arrival more.
LEMMA HeardAppend ==
  ASSUME NEW q \in Seq(Arrivals), NEW e \in Arrivals
  PROVE  /\ \A i \in HeardIn(q) : Append(q, e)[i] = q[i] /\ q[i] \in Arrivals /\ Complete(q[i])
                                  /\ i \in HeardIn(Append(q, e)) /\ i < Len(q) + 1 /\ i \in Nat
         /\ Append(q, e)[Len(q) + 1] = e
         /\ HeardIn(Append(q, e)) = HeardIn(q) \cup (IF Complete(e) THEN {Len(q) + 1} ELSE {})
         /\ Len(q) \in Nat /\ Append(q, e) \in Seq(Arrivals)
         /\ \A i \in HeardIn(q) : LastWord(Append(q, e), i) =>
              LastWord(q, i) /\ (Complete(e) => ~Overwrites(e, q[i]))
         /\ \A i \in HeardIn(q) : \A k : LastWordOn(Append(q, e), i, k) =>
              LastWordOn(q, i, k) /\ (Complete(e) /\ Overwrites(e, q[i]) => k \notin DOMAIN e)
<1> DEFINE r == Append(q, e)
<1>1. /\ r \in Seq(Arrivals) /\ Len(r) = Len(q) + 1 /\ (\A i \in 1..Len(q) : r[i] = q[i]) /\ r[Len(q) + 1] = e
      /\ Len(q) \in Nat /\ DOMAIN q = 1..Len(q) /\ DOMAIN r = 1..Len(r)
  BY AppendProperties, LenProperties
<1>2. \A i \in 1..Len(q) : q[i] \in Arrivals
  BY ElementOfSeq
<1> HIDE DEF r
<1>3. HeardIn(r) = HeardIn(q) \cup (IF Complete(e) THEN {Len(q) + 1} ELSE {})
  <2>1. 1..Len(r) = 1..Len(q) \cup {Len(q) + 1}
    BY <1>1
  <2>2. QED BY <1>1, <2>1 DEF HeardIn
<1>4. \A i \in HeardIn(q) : i \in 1..Len(q) /\ Complete(q[i]) /\ i < Len(q) + 1 /\ i \in Nat
  BY <1>1 DEF HeardIn
<1>5. \A i \in HeardIn(q) : r[i] = q[i] /\ q[i] \in Arrivals /\ i \in HeardIn(r)
  BY <1>1, <1>2, <1>3, <1>4
<1>6. ASSUME NEW i \in HeardIn(q), LastWord(r, i)
      PROVE  LastWord(q, i) /\ (Complete(e) => ~Overwrites(e, q[i]))
  <2>1. LastWord(q, i)
    BY <1>5, <1>6 DEF LastWord
  <2>2. ASSUME Complete(e) PROVE ~Overwrites(e, q[i])
    <3>1. Len(q) + 1 \in HeardIn(r) /\ Len(q) + 1 > i
      BY <1>1, <1>3, <1>4, <2>2
    <3>2. QED BY <1>1, <1>5, <1>6, <3>1 DEF LastWord
  <2>3. QED BY <2>1, <2>2
<1>7. ASSUME NEW i \in HeardIn(q), NEW k, LastWordOn(r, i, k)
      PROVE  LastWordOn(q, i, k) /\ (Complete(e) /\ Overwrites(e, q[i]) => k \notin DOMAIN e)
  <2>1. LastWordOn(q, i, k)
    BY <1>5, <1>7 DEF LastWordOn
  <2>2. ASSUME Complete(e), Overwrites(e, q[i]) PROVE k \notin DOMAIN e
    <3>1. Len(q) + 1 \in HeardIn(r) /\ Len(q) + 1 > i
      BY <1>1, <1>3, <1>4, <2>2
    <3>2. QED BY <1>1, <1>5, <1>7, <2>2, <3>1 DEF LastWordOn
  <2>3. QED BY <2>1, <2>2
<1>8. QED BY <1>1, <1>3, <1>4, <1>5, <1>6, <1>7 DEF r

\* A pin or PWM event, and the keys of the store.
LEMMA KeysAppend ==
  ASSUME NEW q \in Seq(Arrivals), NEW e \in Arrivals, NEW t \in {"pin", "pwm"}, NEW f \in {"val", "duty"},
         \A x \in Arrivals : Complete(x) /\ x.t = t => x.chip \in Chips /\ x.pin \in Values("pin") /\ x[f] \in Int,
         NEW d \in [Chips -> Dict(Values("pin"), Int)],
         NEW n, n = IF Complete(e) /\ e.t = t THEN [d EXCEPT ![e.chip] = Put(@, e.pin, e[f])] ELSE d,
         KeysLatest(d, t, f, q), KeysHeard(d, t, q)
  PROVE  KeysLatest(n, t, f, Append(q, e)) /\ KeysHeard(n, t, Append(q, e))
<1>h1. \A i \in HeardIn(q) : Append(q, e)[i] = q[i]
  BY HeardAppend
<1>h5. \A i \in HeardIn(q) : q[i] \in Arrivals
  BY HeardAppend
<1>h6. \A i \in HeardIn(q) : Complete(q[i])
  BY HeardAppend
<1>h2. Append(q, e)[Len(q) + 1] = e
  BY HeardAppend
<1>h3. HeardIn(Append(q, e)) = HeardIn(q) \cup (IF Complete(e) THEN {Len(q) + 1} ELSE {})
  BY HeardAppend
<1>h4. \A i \in HeardIn(q) : LastWord(Append(q, e), i) => LastWord(q, i) /\ (Complete(e) => ~Overwrites(e, q[i]))
  BY HeardAppend
<1> DEFINE r == Append(q, e)
           put == Put(d[e.chip], e.pin, e[f])
<1>1. /\ \A i \in HeardIn(q) : r[i] = q[i] /\ q[i] \in Arrivals /\ Complete(q[i]) /\ i \in HeardIn(r)
      /\ r[Len(q) + 1] = e
      /\ HeardIn(r) = HeardIn(q) \cup (IF Complete(e) THEN {Len(q) + 1} ELSE {})
      /\ \A i \in HeardIn(q) : LastWord(r, i) => LastWord(q, i) /\ (Complete(e) => ~Overwrites(e, q[i]))
  BY <1>h1, <1>h2, <1>h3, <1>h4, <1>h5, <1>h6
<1> HIDE DEF r
<1>2. CASE Complete(e) /\ e.t = t
  <2>1. e.chip \in Chips /\ e.pin \in Values("pin") /\ e[f] \in Int
    BY <1>2
  <2>2. d[e.chip] \in Dict(Values("pin"), Int)
    BY <2>1
  <2>3. /\ DOMAIN put = DOMAIN d[e.chip] \cup {e.pin}
        /\ \A x \in DOMAIN d[e.chip] \cup {e.pin} : put[x] = IF x = e.pin THEN e[f] ELSE d[e.chip][x]
    BY Zenon DEF Put
  <2> HIDE DEF put
  <2>4. n[e.chip] = put /\ \A c \in Chips : c # e.chip => n[c] = d[c]
    BY <1>2, <2>1 DEF put
  <2>5. KeysLatest(n, t, f, r)
    <3> SUFFICES ASSUME NEW i \in HeardIn(r), r[i].t = t, LastWord(r, i)
                 PROVE  r[i].pin \in DOMAIN n[r[i].chip] /\ n[r[i].chip][r[i].pin] = r[i][f]
      BY DEF KeysLatest
    <3>1. CASE i = Len(q) + 1
      BY <1>1, <2>3, <2>4, <3>1
    <3>2. CASE i # Len(q) + 1
      <4>1. i \in HeardIn(q) /\ r[i] = q[i]
        BY <1>1, <1>2, <3>2
      <4>2. LastWord(q, i) /\ ~Overwrites(e, q[i])
        BY <1>1, <1>2, <4>1
      <4>3. q[i].pin \in DOMAIN d[q[i].chip] /\ d[q[i].chip][q[i].pin] = q[i][f] /\ q[i].chip \in Chips
        BY <1>1, <4>1, <4>2 DEF KeysLatest
      <4>4. e.chip # q[i].chip \/ e.pin # q[i].pin
        BY <1>2, <4>1, <4>2 DEF Overwrites
      <4>5. CASE e.chip # q[i].chip
        BY <2>4, <4>1, <4>3, <4>5
      <4>6. CASE e.chip = q[i].chip /\ e.pin # q[i].pin
        BY <2>3, <2>4, <4>1, <4>3, <4>6
      <4>7. QED BY <4>4, <4>5, <4>6
    <3>3. QED BY <3>1, <3>2
  <2>6. KeysHeard(n, t, r)
    <3> SUFFICES ASSUME NEW c \in Chips, NEW p \in DOMAIN n[c]
                 PROVE  \E i \in HeardIn(r) : r[i].t = t /\ r[i].chip = c /\ r[i].pin = p
      BY DEF KeysHeard
    <3>1. CASE c = e.chip /\ p = e.pin
      <4>1. Len(q) + 1 \in HeardIn(r)
        BY <1>1, <1>2
      <4>2. QED BY <1>1, <1>2, <3>1, <4>1
    <3>2. CASE ~(c = e.chip /\ p = e.pin)
      <4>1. p \in DOMAIN d[c]
        BY <2>3, <2>4, <3>2
      <4>2. PICK i \in HeardIn(q) : q[i].t = t /\ q[i].chip = c /\ q[i].pin = p
        BY <4>1 DEF KeysHeard
      <4>3. QED BY <1>1, <4>2
    <3>3. QED BY <3>1, <3>2
  <2>7. QED BY <2>5, <2>6 DEF r
<1>3. CASE ~(Complete(e) /\ e.t = t)
  <2>1. n = d
    BY <1>3
  <2>2. KeysLatest(d, t, f, r)
    <3> SUFFICES ASSUME NEW i \in HeardIn(r), r[i].t = t, LastWord(r, i)
                 PROVE  r[i].pin \in DOMAIN d[r[i].chip] /\ d[r[i].chip][r[i].pin] = r[i][f]
      BY DEF KeysLatest
    <3>1. i \in HeardIn(q)
      BY <1>1, <1>3
    <3>2. QED BY <1>1, <3>1 DEF KeysLatest
  <2>3. KeysHeard(d, t, r)
    <3> SUFFICES ASSUME NEW c \in Chips, NEW p \in DOMAIN d[c]
                 PROVE  \E i \in HeardIn(r) : r[i].t = t /\ r[i].chip = c /\ r[i].pin = p
      BY DEF KeysHeard
    <3>1. PICK i \in HeardIn(q) : q[i].t = t /\ q[i].chip = c /\ q[i].pin = p
      BY DEF KeysHeard
    <3>2. QED BY <1>1, <3>1
  <2>4. QED BY <2>1, <2>2, <2>3 DEF r
<1>4. QED BY <1>2, <1>3

\* A can_state event, and the states of the store.
LEMMA StateAppend ==
  ASSUME NEW q \in Seq(Arrivals), NEW e \in Arrivals, NEW d \in [Chips -> CanStates],
         NEW n, n = IF Complete(e) /\ e.t = "can_state" THEN [d EXCEPT ![e.chip] = StateOf(e)] ELSE d,
         StateLatest(d, q), StateHeard(d, q)
  PROVE  StateLatest(n, Append(q, e)) /\ StateHeard(n, Append(q, e))
<1>h1. \A i \in HeardIn(q) : Append(q, e)[i] = q[i]
  BY HeardAppend
<1>h5. \A i \in HeardIn(q) : q[i] \in Arrivals
  BY HeardAppend
<1>h6. \A i \in HeardIn(q) : Complete(q[i])
  BY HeardAppend
<1>h2. Append(q, e)[Len(q) + 1] = e
  BY HeardAppend
<1>h3. HeardIn(Append(q, e)) = HeardIn(q) \cup (IF Complete(e) THEN {Len(q) + 1} ELSE {})
  BY HeardAppend
<1>h4. \A i \in HeardIn(q) : LastWord(Append(q, e), i) => LastWord(q, i) /\ (Complete(e) => ~Overwrites(e, q[i]))
  BY HeardAppend
<1> DEFINE r == Append(q, e)
<1>1. /\ \A i \in HeardIn(q) : r[i] = q[i] /\ q[i] \in Arrivals /\ Complete(q[i]) /\ i \in HeardIn(r)
      /\ r[Len(q) + 1] = e
      /\ HeardIn(r) = HeardIn(q) \cup (IF Complete(e) THEN {Len(q) + 1} ELSE {})
      /\ \A i \in HeardIn(q) : LastWord(r, i) => LastWord(q, i) /\ (Complete(e) => ~Overwrites(e, q[i]))
  BY <1>h1, <1>h2, <1>h3, <1>h4, <1>h5, <1>h6
<1> HIDE DEF r
<1>a. \A x \in Arrivals : Complete(x) /\ x.t = "can_state" => x.chip \in Chips
  BY ArrivalFacts
<1>2. Complete(e) /\ e.t = "can_state" => n[e.chip] = StateOf(e) /\ \A c \in Chips : c # e.chip => n[c] = d[c]
  BY <1>a
<1>3. ~(Complete(e) /\ e.t = "can_state") => n = d
  OBVIOUS
<1>4. StateLatest(n, r)
  <2> SUFFICES ASSUME NEW i \in HeardIn(r), r[i].t = "can_state", LastWord(r, i)
               PROVE  n[r[i].chip] = StateOf(r[i])
    BY DEF StateLatest
  <2>1. CASE i \notin HeardIn(q)
    <3>1. Complete(e) /\ r[i] = e
      BY <1>1, <2>1
    <3>2. QED BY <1>2, <3>1
  <2>2. CASE i \in HeardIn(q)
    <3>1. LastWord(q, i) /\ r[i] = q[i] /\ (Complete(e) => ~Overwrites(e, q[i])) /\ q[i].chip \in Chips
      BY <1>1, <1>a, <2>2
    <3>2. d[q[i].chip] = StateOf(q[i])
      BY <2>2, <3>1 DEF StateLatest
    <3>3. Complete(e) /\ e.t = "can_state" => e.chip # q[i].chip
      BY <3>1 DEF Overwrites
    <3>4. QED BY <1>2, <1>3, <3>1, <3>2, <3>3
  <2>3. QED BY <2>1, <2>2
<1>5. StateHeard(n, r)
  <2> SUFFICES ASSUME NEW c \in Chips, n[c] # Healthy
               PROVE  \E i \in HeardIn(r) : r[i].t = "can_state" /\ r[i].chip = c
    BY DEF StateHeard
  <2>1. CASE Complete(e) /\ e.t = "can_state" /\ e.chip = c
    <3>1. Len(q) + 1 \in HeardIn(r)
      BY <1>1, <2>1
    <3>2. QED BY <1>1, <2>1, <3>1
  <2>2. CASE ~(Complete(e) /\ e.t = "can_state" /\ e.chip = c)
    <3>1. d[c] # Healthy
      BY <1>2, <1>3, <2>2
    <3>2. PICK i \in HeardIn(q) : q[i].t = "can_state" /\ q[i].chip = c
      BY <3>1 DEF StateHeard
    <3>3. QED BY <1>1, <3>2
  <2>3. QED BY <2>1, <2>2
<1>6. QED BY <1>4, <1>5 DEF r

Stats == [hex : Values("hex") \cup {""}, free : Values("free") \cup {0}]

\* A chipstat event, and the statistics of the store.
LEMMA StatAppend ==
  ASSUME NEW q \in Seq(Arrivals), NEW e \in Arrivals, NEW d \in [Chips -> Stats],
         NEW n, n = IF Complete(e) /\ e.t = "chipstat"
                      THEN [d EXCEPT ![e.chip] = [f \in DOMAIN @ |-> Field(e, f, @[f])]] ELSE d,
         StatLatest(d, q), StatHeard(d, q)
  PROVE  StatLatest(n, Append(q, e)) /\ StatHeard(n, Append(q, e))
<1>h1. \A i \in HeardIn(q) : Append(q, e)[i] = q[i]
  BY HeardAppend
<1>h5. \A i \in HeardIn(q) : q[i] \in Arrivals
  BY HeardAppend
<1>h6. \A i \in HeardIn(q) : Complete(q[i])
  BY HeardAppend
<1>h2. Append(q, e)[Len(q) + 1] = e
  BY HeardAppend
<1>h3. HeardIn(Append(q, e)) = HeardIn(q) \cup (IF Complete(e) THEN {Len(q) + 1} ELSE {})
  BY HeardAppend
<1>h4. \A i \in HeardIn(q) : \A k : LastWordOn(Append(q, e), i, k) =>
         LastWordOn(q, i, k) /\ (Complete(e) /\ Overwrites(e, q[i]) => k \notin DOMAIN e)
  BY HeardAppend
<1> DEFINE r == Append(q, e)
<1>1. /\ \A i \in HeardIn(q) : r[i] = q[i] /\ q[i] \in Arrivals /\ Complete(q[i]) /\ i \in HeardIn(r)
      /\ r[Len(q) + 1] = e
      /\ HeardIn(r) = HeardIn(q) \cup (IF Complete(e) THEN {Len(q) + 1} ELSE {})
      /\ \A i \in HeardIn(q) : \A k : LastWordOn(r, i, k) =>
           LastWordOn(q, i, k) /\ (Complete(e) /\ Overwrites(e, q[i]) => k \notin DOMAIN e)
  BY <1>h1, <1>h2, <1>h3, <1>h4, <1>h5, <1>h6
<1> HIDE DEF r
<1>a. \A x \in Arrivals : Complete(x) /\ x.t = "chipstat" => x.chip \in Chips
  BY ArrivalFacts
<1>b. DOMAIN NoStat = {"hex", "free"} /\ \A c \in Chips : DOMAIN d[c] = {"hex", "free"}
  BY DEF NoStat, Stats
<1>2. ASSUME Complete(e), e.t = "chipstat"
      PROVE  /\ \A k \in DOMAIN NoStat : n[e.chip][k] = Field(e, k, d[e.chip][k])
             /\ \A c \in Chips : c # e.chip => n[c] = d[c]
  <2>1. n[e.chip] = [f \in DOMAIN d[e.chip] |-> Field(e, f, d[e.chip][f])] /\ e.chip \in Chips
    BY <1>2, <1>a
  <2>2. QED BY <1>2, <1>b, <2>1
<1>3. ~(Complete(e) /\ e.t = "chipstat") => n = d
  OBVIOUS
<1>4. StatLatest(n, r)
  <2> SUFFICES ASSUME NEW i \in HeardIn(r), r[i].t = "chipstat",
                      NEW k \in DOMAIN NoStat \cap DOMAIN r[i], LastWordOn(r, i, k)
               PROVE  n[r[i].chip][k] = r[i][k]
    BY DEF StatLatest
  <2>1. CASE i \notin HeardIn(q)
    <3>1. Complete(e) /\ r[i] = e
      BY <1>1, <2>1
    <3>2. QED BY <1>2, <3>1 DEF Field
  <2>2. CASE i \in HeardIn(q)
    <3>1. /\ LastWordOn(q, i, k) /\ r[i] = q[i] /\ q[i].chip \in Chips
          /\ Complete(e) /\ Overwrites(e, q[i]) => k \notin DOMAIN e
      BY <1>1, <1>a, <2>2
    <3>2. d[q[i].chip][k] = q[i][k]
      BY <2>2, <3>1 DEF StatLatest
    <3>3. CASE Complete(e) /\ e.t = "chipstat" /\ e.chip = q[i].chip
      <4>1. Overwrites(e, q[i])
        BY <3>1, <3>3 DEF Overwrites
      <4>2. Field(e, k, d[e.chip][k]) = d[e.chip][k]
        BY <3>1, <3>3, <4>1 DEF Field
      <4>3. QED BY <1>2, <3>1, <3>2, <3>3, <4>2
    <3>4. CASE ~(Complete(e) /\ e.t = "chipstat" /\ e.chip = q[i].chip)
      BY <1>2, <1>3, <3>1, <3>2, <3>4
    <3>5. QED BY <3>3, <3>4
  <2>3. QED BY <2>1, <2>2
<1>5. StatHeard(n, r)
  <2> SUFFICES ASSUME NEW c \in Chips, n[c] # NoStat
               PROVE  \E i \in HeardIn(r) : r[i].t = "chipstat" /\ r[i].chip = c
    BY DEF StatHeard
  <2>1. CASE Complete(e) /\ e.t = "chipstat" /\ e.chip = c
    <3>1. Len(q) + 1 \in HeardIn(r)
      BY <1>1, <2>1
    <3>2. QED BY <1>1, <2>1, <3>1
  <2>2. CASE ~(Complete(e) /\ e.t = "chipstat" /\ e.chip = c)
    <3>1. d[c] # NoStat
      BY <1>2, <1>3, <2>2
    <3>2. PICK i \in HeardIn(q) : q[i].t = "chipstat" /\ q[i].chip = c
      BY <3>1 DEF StatHeard
    <3>3. QED BY <1>1, <3>2
  <2>3. QED BY <2>1, <2>2
<1>6. QED BY <1>4, <1>5 DEF r

\* A CAN frame, and the log of the store.
LEMMA LogAppend ==
  ASSUME NEW q \in Seq(Arrivals), NEW e \in Arrivals, NEW log \in Seq(CanEvents),
         NEW n, n = IF e.t = "can_tx" THEN Cut(Append(log, e)) ELSE log,
         LogIsEnd(log, q)
  PROVE  LogIsEnd(n, Append(q, e))
<1>0. KeptIn(q, CanEvents) \in Seq(Arrivals)
  BY KeptInAppend
<1>a. KeptIn(Append(q, e), CanEvents) = IF e \in CanEvents THEN Append(KeptIn(q, CanEvents), e) ELSE KeptIn(q, CanEvents)
  BY KeptInAppend
<1> DEFINE kept == KeptIn(q, CanEvents)
           new  == KeptIn(Append(q, e), CanEvents)
           more == Append(log, e)
<1>1. kept \in Seq(Arrivals) /\ new = IF e \in CanEvents THEN Append(kept, e) ELSE kept
  BY <1>0, <1>a
<1>2. log \in Seq(Arrivals)
  <2>1. CanEvents \subseteq Arrivals
    BY CanEventsType DEF Arrivals
  <2>2. QED BY <2>1, SeqMonotonic
<1>3. EndOf(log, kept) /\ Len(log) <= LogMax /\ Len(log) >= Least(LogKeep, Len(kept))
  BY DEF LogIsEnd
<1>4. e \in CanEvents <=> e.t = "can_tx"
  BY ArrivalFacts
<1>5. CASE e.t = "can_tx"
  <2> HIDE DEF kept, new, more
  <2>1. new = Append(kept, e) /\ n = Cut(more)
    BY <1>1, <1>4, <1>5 DEF more
  <2>2. more \in Seq(Arrivals) /\ new \in Seq(Arrivals) /\ Len(more) = Len(log) + 1 /\ Len(new) = Len(kept) + 1
    BY <1>1, <1>2, <2>1, AppendProperties DEF more
  <2>3. EndOf(more, new)
    BY <1>1, <1>2, <1>3, <2>1, EndOfAppend DEF more
  <2>4. EndOf(n, new) /\ Len(n) = IF Len(more) > LogMax THEN LogKeep ELSE Len(more)
    BY <2>1, <2>2, <2>3, CutFacts
  <2>5. Len(log) \in Nat /\ Len(kept) \in Nat /\ LogMax \in Nat /\ LogKeep \in Nat /\ LogKeep <= LogMax
    BY <1>1, <1>2, LenProperties, StoreAssumption
  <2>6. Len(n) <= LogMax /\ Len(n) >= Least(LogKeep, Len(new))
    BY <1>3, <2>2, <2>4, <2>5 DEF Least
  <2>7. QED BY <2>4, <2>6 DEF LogIsEnd, new
<1>6. CASE e.t # "can_tx"
  BY <1>1, <1>4, <1>6 DEF LogIsEnd
<1>7. QED BY <1>5, <1>6

\* ----------------------------------------------------------- StoreIsLatest

StoreInv ==
  /\ KeysLatest(store.pins, "pin", "val", seen) /\ KeysHeard(store.pins, "pin", seen)
  /\ KeysLatest(store.pwm, "pwm", "duty", seen) /\ KeysHeard(store.pwm, "pwm", seen)
  /\ StateLatest(store.canState, seen) /\ StateHeard(store.canState, seen)
  /\ StatLatest(store.stat, seen) /\ StatHeard(store.stat, seen)
  /\ LogIsEnd(store.canLog, seen)

\* The types of the store.
LEMMA StoreTypes ==
  ASSUME TypeOK
  PROVE  /\ store \in Stores /\ seen \in Seq(Arrivals)
         /\ store.pins \in [Chips -> Dict(Values("pin"), Int)]
         /\ store.pwm \in [Chips -> Dict(Values("pin"), Int)]
         /\ store.canState \in [Chips -> CanStates]
         /\ store.stat \in [Chips -> Stats]
         /\ store.canLog \in Seq(CanEvents) /\ store.canLog \in Seq(Arrivals)
<1>1. store \in Stores /\ seen \in Seq(Arrivals)
  BY DEF TypeOK, Arrivals
<1>2. store.canLog \in Seq(CanEvents)
  BY <1>1 DEF Stores
<1>3. CanEvents \subseteq Arrivals
  BY CanEventsType DEF Arrivals
<1>4. store.canLog \in Seq(Arrivals)
  BY <1>2, <1>3, SeqMonotonic
<1>5. QED BY <1>1, <1>2, <1>4 DEF Stores, Stats

\* The invariant holds initially.
LEMMA StoreInit == Init => StoreInv
<1> SUFFICES ASSUME Init PROVE StoreInv
  OBVIOUS
<1>1. /\ seen = <<>>
      /\ store = EmptyStore
  BY DEF Init
<1>2. HeardIn(seen) = {}
  BY <1>1 DEF HeardIn
<1>3. DOMAIN NoneYet = {}
  BY DEF NoneYet
<1>4. /\ store.pins = [c \in Chips |-> NoneYet] /\ store.pwm = [c \in Chips |-> NoneYet]
      /\ store.canState = [c \in Chips |-> Healthy] /\ store.stat = [c \in Chips |-> NoStat] /\ store.canLog = <<>>
  BY <1>1 DEF EmptyStore
<1>5. LogIsEnd(<<>>, <<>>)
  <2>1. KeptIn(<<>>, CanEvents) = <<>> /\ Len(<<>>) = 0
    BY KeptInEmpty
  <2>2. LogMax \in Nat /\ LogKeep \in Nat
    BY StoreAssumption
  <2>3. QED BY <2>1, <2>2 DEF LogIsEnd, EndOf, Least
<1>6. KeysLatest(store.pins, "pin", "val", seen) /\ KeysLatest(store.pwm, "pwm", "duty", seen)
  BY <1>2 DEF KeysLatest
<1>7. KeysHeard(store.pins, "pin", seen) /\ KeysHeard(store.pwm, "pwm", seen)
  BY <1>3, <1>4 DEF KeysHeard
<1>8. StateLatest(store.canState, seen) /\ StateHeard(store.canState, seen)
  BY <1>2, <1>4 DEF StateLatest, StateHeard
<1>9. StatLatest(store.stat, seen) /\ StatHeard(store.stat, seen)
  BY <1>2, <1>4 DEF StatLatest, StatHeard
<1>10. QED BY <1>1, <1>4, <1>5, <1>6, <1>7, <1>8, <1>9 DEF StoreInv

\* Every step keeps it.
LEMMA StoreStep ==
  ASSUME TypeOK, StoreInv, [Next]_vars
  PROVE  StoreInv'
<1>1. CASE ~DispatchLine
  <2>1. seen' = seen /\ \A k \in {"pins", "pwm", "canState", "stat", "lcd", "canLog"} : store'[k] = store[k]
    BY <1>1, StoreStays
  <2>2. store'.pins = store.pins /\ store'.pwm = store.pwm /\ store'.canState = store.canState
        /\ store'.stat = store.stat /\ store'.canLog = store.canLog
    BY <2>1
  <2>3. QED BY <2>1, <2>2 DEF StoreInv, KeysLatest, KeysHeard, StateLatest, StateHeard, StatLatest, StatHeard, LogIsEnd,
                              HeardIn, LastWord, LastWordOn
<1>2. CASE DispatchLine
  <2>1. PICK e \in Arrivals : Delivers(e)
    BY <1>2, DeliveryExists
  <2>2. seen' = Append(seen, e) /\ store' = IF Complete(e) THEN Update(store, e) ELSE store
    BY <2>1 DEF Delivers, Dispatch, uiVars
  <2>3. /\ store'.pins = IF Complete(e) /\ e.t = "pin" THEN [store.pins EXCEPT ![e.chip] = Put(@, e.pin, e["val"])] ELSE store.pins
        /\ store'.pwm = IF Complete(e) /\ e.t = "pwm" THEN [store.pwm EXCEPT ![e.chip] = Put(@, e.pin, e["duty"])] ELSE store.pwm
        /\ store'.canState = IF Complete(e) /\ e.t = "can_state" THEN [store.canState EXCEPT ![e.chip] = StateOf(e)] ELSE store.canState
        /\ store'.stat = IF Complete(e) /\ e.t = "chipstat"
                           THEN [store.stat EXCEPT ![e.chip] = [f \in DOMAIN @ |-> Field(e, f, @[f])]] ELSE store.stat
        /\ store'.canLog = IF e.t = "can_tx" THEN Cut(Append(store.canLog, e)) ELSE store.canLog
    <3>1. CASE Complete(e)
      BY <2>2, <3>1, StoreTypes, UpdateParts DEF StateOf
    <3>2. CASE ~Complete(e)
      BY <2>2, <3>2, ArrivalFacts
    <3>3. QED BY <3>1, <3>2
  <2>4. KeysLatest(store'.pins, "pin", "val", seen') /\ KeysHeard(store'.pins, "pin", seen')
    <3>1. \A x \in Arrivals : Complete(x) /\ x.t = "pin" => x.chip \in Chips /\ x.pin \in Values("pin") /\ x["val"] \in Int
      BY ArrivalFacts
    <3>2. seen \in Seq(Arrivals) /\ store.pins \in [Chips -> Dict(Values("pin"), Int)]
      BY StoreTypes
    <3>3. KeysLatest(store.pins, "pin", "val", seen) /\ KeysHeard(store.pins, "pin", seen)
      BY DEF StoreInv
    <3> DEFINE d == store.pins
               n == store'.pins
    <3>4. n = IF Complete(e) /\ e.t = "pin" THEN [d EXCEPT ![e.chip] = Put(@, e.pin, e["val"])] ELSE d
      BY <2>3
    <3>5. d \in [Chips -> Dict(Values("pin"), Int)] /\ KeysLatest(d, "pin", "val", seen) /\ KeysHeard(d, "pin", seen)
      BY <3>2, <3>3
    <3>6. "pin" \in {"pin", "pwm"} /\ "val" \in {"val", "duty"}
      OBVIOUS
    <3> HIDE DEF n, d
    <3>7. KeysLatest(n, "pin", "val", Append(seen, e)) /\ KeysHeard(n, "pin", Append(seen, e))
      BY <3>1, <3>2, <3>4, <3>5, <3>6, KeysAppend
    <3>8. QED BY <2>2, <3>7 DEF n
  <2>5. KeysLatest(store'.pwm, "pwm", "duty", seen') /\ KeysHeard(store'.pwm, "pwm", seen')
    <3>1. \A x \in Arrivals : Complete(x) /\ x.t = "pwm" => x.chip \in Chips /\ x.pin \in Values("pin") /\ x["duty"] \in Int
      BY ArrivalFacts
    <3>2. seen \in Seq(Arrivals) /\ store.pwm \in [Chips -> Dict(Values("pin"), Int)]
      BY StoreTypes
    <3>3. KeysLatest(store.pwm, "pwm", "duty", seen) /\ KeysHeard(store.pwm, "pwm", seen)
      BY DEF StoreInv
    <3> DEFINE d == store.pwm
               n == store'.pwm
    <3>4. n = IF Complete(e) /\ e.t = "pwm" THEN [d EXCEPT ![e.chip] = Put(@, e.pin, e["duty"])] ELSE d
      BY <2>3
    <3>5. d \in [Chips -> Dict(Values("pin"), Int)] /\ KeysLatest(d, "pwm", "duty", seen) /\ KeysHeard(d, "pwm", seen)
      BY <3>2, <3>3
    <3>6. "pwm" \in {"pin", "pwm"} /\ "duty" \in {"val", "duty"}
      OBVIOUS
    <3> HIDE DEF n, d
    <3>7. KeysLatest(n, "pwm", "duty", Append(seen, e)) /\ KeysHeard(n, "pwm", Append(seen, e))
      BY <3>1, <3>2, <3>4, <3>5, <3>6, KeysAppend
    <3>8. QED BY <2>2, <3>7 DEF n
  <2>6. StateLatest(store'.canState, seen') /\ StateHeard(store'.canState, seen')
    <3> DEFINE d == store.canState
               n == store'.canState
    <3>1. seen \in Seq(Arrivals) /\ d \in [Chips -> CanStates] /\ StateLatest(d, seen) /\ StateHeard(d, seen)
      BY StoreTypes DEF StoreInv
    <3>2. n = IF Complete(e) /\ e.t = "can_state" THEN [d EXCEPT ![e.chip] = StateOf(e)] ELSE d
      BY <2>3
    <3> HIDE DEF n, d
    <3>3. StateLatest(n, Append(seen, e)) /\ StateHeard(n, Append(seen, e))
      BY <3>1, <3>2, StateAppend
    <3>4. QED BY <2>2, <3>3 DEF n
  <2>7. StatLatest(store'.stat, seen') /\ StatHeard(store'.stat, seen')
    <3> DEFINE d == store.stat
               n == store'.stat
    <3>1. seen \in Seq(Arrivals) /\ d \in [Chips -> Stats] /\ StatLatest(d, seen) /\ StatHeard(d, seen)
      BY StoreTypes DEF StoreInv
    <3>2. n = IF Complete(e) /\ e.t = "chipstat"
                THEN [d EXCEPT ![e.chip] = [f \in DOMAIN @ |-> Field(e, f, @[f])]] ELSE d
      BY <2>3
    <3> HIDE DEF n, d
    <3>3. StatLatest(n, Append(seen, e)) /\ StatHeard(n, Append(seen, e))
      BY <3>1, <3>2, StatAppend
    <3>4. QED BY <2>2, <3>3 DEF n
  <2>8. LogIsEnd(store'.canLog, seen')
    <3> DEFINE d == store.canLog
               n == store'.canLog
    <3>1. seen \in Seq(Arrivals) /\ d \in Seq(CanEvents) /\ LogIsEnd(d, seen)
      BY StoreTypes DEF StoreInv
    <3>2. n = IF e.t = "can_tx" THEN Cut(Append(d, e)) ELSE d
      BY <2>3
    <3> HIDE DEF n, d
    <3>3. LogIsEnd(n, Append(seen, e))
      BY <3>1, <3>2, LogAppend
    <3>4. QED BY <2>2, <3>3 DEF n
  <2>9. QED BY <2>4, <2>5, <2>6, <2>7, <2>8 DEF StoreInv
<1>3. QED BY <1>1, <1>2

\* The frames so far are a sequence.
LEMMA HistoryType ==
  ASSUME TypeOK
  PROVE  CanHistory \in Seq(Arrivals) /\ Len(CanHistory) \in Nat
<1>1. seen \in Seq(Arrivals)
  BY StoreTypes
<1>2. CanHistory \in Seq(Arrivals)
  <2>1. Junk \in Arrivals
    BY DEF Arrivals
  <2>2. KeptIn(seen, CanEvents) \in Seq(Arrivals)
    BY <1>1, <2>1, KeptInAppend
  <2>3. QED BY <2>2 DEF CanHistory
<1>3. QED BY <1>2, LenProperties

\* The invariant gives StoreIsLatest.
LEMMA StoreInvIsLatest ==
  ASSUME TypeOK, StoreInv
  PROVE  StoreIsLatest
<1>1. HeardIn(seen) = Heard
  BY DEF HeardIn, Heard
<1>2. ASSUME NEW i \in Heard
      PROVE  LET e     == seen[i]
                 later == {j \in Heard : j > i /\ Overwrites(seen[j], e)}
             IN /\ e.t = "pin" /\ later = {} =>
                     e.pin \in DOMAIN store.pins[e.chip] /\ store.pins[e.chip][e.pin] = e.val
                /\ e.t = "pwm" /\ later = {} =>
                     e.pin \in DOMAIN store.pwm[e.chip] /\ store.pwm[e.chip][e.pin] = e.duty
                /\ e.t = "can_state" /\ later = {} =>
                     store.canState[e.chip] = UpdateCanState(store, e).canState[e.chip]
                /\ e.t = "chipstat" => \A k \in DOMAIN NoStat \cap DOMAIN e :
                     (\A j \in later : k \notin DOMAIN seen[j]) => store.stat[e.chip][k] = e[k]
  <2> DEFINE e     == seen[i]
             later == {j \in Heard : j > i /\ Overwrites(seen[j], e)}
  <2>1. ASSUME later = {} PROVE LastWord(seen, i)
    BY <1>1, <2>1 DEF LastWord
  <2>2. ASSUME NEW k, \A j \in later : k \notin DOMAIN seen[j] PROVE LastWordOn(seen, i, k)
    BY <1>1, <2>2 DEF LastWordOn
  <2>3. i \in HeardIn(seen) /\ e \in Arrivals /\ Complete(e)
    <3>1. i \in DOMAIN seen /\ Complete(seen[i])
      BY DEF Heard
    <3>2. seen \in Seq(Arrivals)
      BY StoreTypes
    <3>3. QED BY <1>1, <3>1, <3>2, ElementOfSeq
  <2> HIDE DEF later
  <2>4. e.t = "pin" /\ later = {} => e.pin \in DOMAIN store.pins[e.chip] /\ store.pins[e.chip][e.pin] = e.val
    BY <2>1, <2>3 DEF StoreInv, KeysLatest
  <2>5. e.t = "pwm" /\ later = {} => e.pin \in DOMAIN store.pwm[e.chip] /\ store.pwm[e.chip][e.pin] = e.duty
    BY <2>1, <2>3 DEF StoreInv, KeysLatest
  <2>6. ASSUME e.t = "can_state", later = {}
        PROVE  store.canState[e.chip] = UpdateCanState(store, e).canState[e.chip]
    <3>1. store.canState[e.chip] = StateOf(e)
      BY <2>1, <2>3, <2>6 DEF StoreInv, StateLatest
    <3>2. UpdateCanState(store, e) = Update(store, e)
      BY <2>6 DEF Update
    <3>3. e.chip \in Chips
      BY <2>3, <2>6, ArrivalFacts
    <3>4. Update(store, e).canState = [store.canState EXCEPT ![e.chip] = StateOf(e)]
      BY <2>3, <2>6, StoreTypes, UpdateParts DEF StateOf
    <3>5. QED BY <3>1, <3>2, <3>3, <3>4, StoreTypes
  <2>7. ASSUME e.t = "chipstat", NEW k \in DOMAIN NoStat \cap DOMAIN e, \A j \in later : k \notin DOMAIN seen[j]
        PROVE  store.stat[e.chip][k] = e[k]
    BY <2>2, <2>3, <2>7 DEF StoreInv, StatLatest
  <2>8. QED BY <2>4, <2>5, <2>6, <2>7 DEF later
<1>3. ASSUME NEW c \in Chips
      PROVE  /\ \A p \in DOMAIN store.pins[c] : \E i \in Heard : seen[i].t = "pin" /\ seen[i].chip = c /\ seen[i].pin = p
             /\ \A p \in DOMAIN store.pwm[c]  : \E i \in Heard : seen[i].t = "pwm" /\ seen[i].chip = c /\ seen[i].pin = p
             /\ store.canState[c] # Healthy => \E i \in Heard : seen[i].t = "can_state" /\ seen[i].chip = c
             /\ store.stat[c] # NoStat => \E i \in Heard : seen[i].t = "chipstat" /\ seen[i].chip = c
  BY <1>1 DEF StoreInv, KeysHeard, StateHeard, StatHeard
<1>4. LogIsEnd(store.canLog, seen)
  BY DEF StoreInv
<1>5. /\ store.canLog = Newest(CanHistory, Len(store.canLog))
      /\ Len(store.canLog) <= LogMax
      /\ Len(store.canLog) >= IF Len(CanHistory) < LogKeep THEN Len(CanHistory) ELSE LogKeep
  <2>1. EndOf(store.canLog, CanHistory) /\ Len(store.canLog) <= LogMax /\ Len(store.canLog) >= Least(LogKeep, Len(CanHistory))
    BY <1>4 DEF LogIsEnd, CanHistory
  <2>2. CanHistory \in Seq(Arrivals) /\ store.canLog \in Seq(Arrivals) /\ Len(CanHistory) \in Nat /\ LogKeep \in Nat
    BY HistoryType, StoreTypes, StoreAssumption
  <2>3. store.canLog = Newest(CanHistory, Len(store.canLog))
    BY <2>1, <2>2, EndIsNewest
  <2>4. Least(LogKeep, Len(CanHistory)) = IF Len(CanHistory) < LogKeep THEN Len(CanHistory) ELSE LogKeep
    BY <2>2 DEF Least
  <2>5. QED BY <2>1, <2>3, <2>4
<1>6. QED BY <1>2, <1>3, <1>5 DEF StoreIsLatest

\* SimState holds the newest pins, duties, CAN states and chip statistics and
\* nothing else, and the end of the frame log, whatever the engine sends.
THEOREM StoreIsLatestHolds == Spec => []StoreIsLatest
<1>1. Init => StoreInv
  BY StoreInit
<1>2. TypeOK /\ StoreInv /\ [Next]_vars => StoreInv'
  BY StoreStep
<1>3. TypeOK /\ StoreInv => StoreIsLatest
  BY StoreInvIsLatest
<1>4. QED BY <1>1, <1>2, <1>3, TypeCorrect, PTL DEF Spec

\* ----------------------------------------------------------- QmlShowsStore

\* A function on 1..n is a sequence.
LEMMA FunctionIsSeq ==
  ASSUME NEW n \in Nat, NEW S, NEW f \in [1..n -> S]
  PROVE  f \in Seq(S) /\ Len(f) = n
<1>1. f \in Seq(S)
  BY SeqDef
<1>2. DOMAIN f = 1..n /\ DOMAIN f = 1..Len(f) /\ Len(f) \in Nat
  BY <1>1, LenProperties
<1>3. QED BY <1>1, <1>2

\* The two rows of the LCD.
LEMMA PairIsFunction ==
  ASSUME NEW a, NEW b
  PROVE  <<Fit(a), Fit(b)>> = [r \in 1..2 |-> Fit(<<a, b>>[r])]
<1> DEFINE p == <<Fit(a), Fit(b)>>
           f == [r \in 1..2 |-> Fit(<<a, b>>[r])]
           X == {Fit(a), Fit(b)}
<1>1. p \in Seq(X) /\ Len(p) = 2 /\ p[1] = Fit(a) /\ p[2] = Fit(b)
  OBVIOUS
<1>2. f[1] = Fit(a) /\ f[2] = Fit(b) /\ f \in [1..2 -> X]
  <2>1. f[1] = Fit(a) /\ f[2] = Fit(b)
    OBVIOUS
  <2>2. \A r \in 1..2 : f[r] \in X
    BY <2>1
  <2>3. QED BY <2>1, <2>2
<1> HIDE DEF p, f
<1>3. f \in Seq(X) /\ Len(f) = 2
  BY <1>2, FunctionIsSeq
<1>4. \A i \in 1..2 : p[i] = f[i]
  BY <1>1, <1>2
<1>5. p = f
  BY <1>1, <1>3, <1>4, SeqEqual
<1>6. QED BY <1>5 DEF p, f

Samples == [at : Nat, v : Int]
Aligned(s, n) == Len(s) = Least(n, BufLen) /\ \A i \in 1..Len(s) : s[i].at = n - Len(s) + i

\* A sample more, and the one that falls out, keep a trace aligned.
LEMMA TickAligns ==
  ASSUME NEW n \in Nat, NEW s \in Seq(Samples), Aligned(s, n), NEW v \in Int
  PROVE  Aligned(Newest(Append(s, [at |-> n + 1, v |-> v]), BufLen), n + 1)
<1> DEFINE y == [at |-> n + 1, v |-> v]
           q == Append(s, y)
           t == Newest(q, BufLen)
<1>1. y \in Samples /\ y.at = n + 1 /\ BufLen \in Nat /\ 1 <= BufLen
  BY QmlAssumption DEF Samples
<1> HIDE DEF y
<1>2. q \in Seq(Samples) /\ Len(q) = Len(s) + 1 /\ q[Len(s) + 1] = y /\ \A i \in 1..Len(s) : q[i] = s[i]
  BY <1>1, AppendProperties
<1> HIDE DEF q
<1>3. t \in Seq(Samples) /\ Len(t) = Least(Len(q), BufLen) /\ EndOf(t, q)
  BY <1>1, <1>2, NewestFacts
<1>4. Len(t) <= Len(q) /\ \A i \in 1..Len(t) : t[i] = q[Len(q) - Len(t) + i]
  BY <1>3 DEF EndOf
<1> HIDE DEF t
<1>5. Len(s) = Least(n, BufLen) /\ (\A i \in 1..Len(s) : s[i].at = n - Len(s) + i)
  BY DEF Aligned
<1>6. Len(s) \in Nat /\ Len(t) \in Nat
  BY <1>3, LenProperties
<1>7. Len(t) = Least(n + 1, BufLen)
  BY <1>1, <1>2, <1>3, <1>5, <1>6 DEF Least
<1>8. \A j \in 1..(Len(s) + 1) : q[j].at = n - Len(s) + j
  <2>1. ASSUME NEW j \in 1..(Len(s) + 1) PROVE q[j].at = n - Len(s) + j
    <3>1. CASE j = Len(s) + 1
      BY <1>1, <1>2, <1>6, <3>1
    <3>2. CASE j # Len(s) + 1
      <4>1. j \in 1..Len(s)
        BY <1>6, <3>2
      <4>2. QED BY <1>2, <1>5, <4>1
    <3>3. QED BY <3>1, <3>2
  <2>2. QED BY <2>1
<1>9. \A i \in 1..Len(t) : t[i].at = (n + 1) - Len(t) + i
  <2>1. ASSUME NEW i \in 1..Len(t) PROVE t[i].at = (n + 1) - Len(t) + i
    <3>1. Len(q) - Len(t) + i \in 1..(Len(s) + 1)
      BY <1>2, <1>4, <1>6
    <3>2. q[Len(q) - Len(t) + i].at = n - Len(s) + (Len(q) - Len(t) + i)
      BY <1>8, <3>1
    <3>3. n - Len(s) + (Len(q) - Len(t) + i) = (n + 1) - Len(t) + i
      BY <1>2, <1>6
    <3>4. QED BY <1>4, <3>2, <3>3
  <2>2. QED BY <2>1
<1>10. QED BY <1>7, <1>9 DEF Aligned, t, q, y

CachesAgree(q, s) == \A k \in Sections \ q.dirty : q.cache[k] = s[k]
LcdAgrees(q, s) == q.lcd = [c \in DOMAIN s.lcd |-> [r \in 1..2 |-> Fit(s.lcd[c][r])]]
TracesAligned(q) == \A x \in Targets : Aligned(q.trace[x], q.lastTick)

QmlInv == app = "qml" => CachesAgree(qml, store) /\ LcdAgrees(qml, store) /\ TracesAligned(qml)

\* The invariant holds initially.
LEMMA QmlInvInit == Init => QmlInv
<1> SUFFICES ASSUME Init PROVE QmlInv
  OBVIOUS
<1>1. qml = QmlInit /\ store = EmptyStore
  BY DEF Init
<1>2. CachesAgree(qml, store)
  BY <1>1 DEF CachesAgree, QmlInit
<1>3. LcdAgrees(qml, store)
  <2>1. qml.lcd = NoneYet /\ store.lcd = NoneYet /\ DOMAIN NoneYet = {}
    BY <1>1 DEF QmlInit, EmptyStore, NoneYet
  <2>2. QED BY <2>1 DEF LcdAgrees, NoneYet
<1>4. TracesAligned(qml)
  <2>1. qml.lastTick = 0 /\ \A x \in Targets : qml.trace[x] = <<>>
    BY <1>1 DEF QmlInit
  <2>2. Len(<<>>) = 0 /\ BufLen \in Nat
    BY QmlAssumption
  <2>3. QED BY <2>1, <2>2 DEF TracesAligned, Aligned, Least
<1>5. QED BY <1>2, <1>3, <1>4 DEF QmlInv

\* The fields of the bridge a step leaves alone keep their part.
LEMMA QmlParts ==
  ASSUME NEW q, NEW p, NEW s, NEW r, CachesAgree(q, s), LcdAgrees(q, s), TracesAligned(q),
         p.dirty = q.dirty, p.cache = q.cache, p.lcd = q.lcd, p.trace = q.trace, p.lastTick = q.lastTick, r = s
  PROVE  CachesAgree(p, r) /\ LcdAgrees(p, r) /\ TracesAligned(p)
BY DEF CachesAgree, LcdAgrees, TracesAligned

\* Writing a line keeps the shown rows those of the store.
LEMMA PutAgrees ==
  ASSUME NEW K, NEW V, NEW d \in Dict(K, V), NEW m, m = [c \in DOMAIN d |-> [r \in 1..2 |-> Fit(d[c][r])]],
         NEW k, NEW a, NEW b
  PROVE  Put(m, k, <<Fit(a), Fit(b)>>) = [c \in DOMAIN Put(d, k, <<a, b>>) |-> [r \in 1..2 |-> Fit(Put(d, k, <<a, b>>)[c][r])]]
<1> DEFINE v == <<Fit(a), Fit(b)>>
           w == <<a, b>>
           p == Put(d, k, w)
<1>1. v = [r \in 1..2 |-> Fit(w[r])]
  BY PairIsFunction
<1> HIDE DEF v, w
<1>2. DOMAIN p = DOMAIN d \cup {k} /\ \A x \in DOMAIN d \cup {k} : p[x] = IF x = k THEN w ELSE d[x]
  BY DEF Put
<1>3. DOMAIN m = DOMAIN d
  OBVIOUS
<1> HIDE DEF p
<1>4. Put(m, k, v) = [x \in DOMAIN d \cup {k} |-> IF x = k THEN v ELSE m[x]]
  BY <1>3 DEF Put
<1>5. \A x \in DOMAIN d \cup {k} : (IF x = k THEN v ELSE m[x]) = [r \in 1..2 |-> Fit(p[x][r])]
  <2>1. ASSUME NEW x \in DOMAIN d \cup {k} PROVE (IF x = k THEN v ELSE m[x]) = [r \in 1..2 |-> Fit(p[x][r])]
    <3>1. CASE x = k
      <4>1. p[x] = w
        BY <1>2, <3>1
      <4>2. QED BY <1>1, <3>1, <4>1
    <3>2. CASE x # k
      <4>1. p[x] = d[x] /\ x \in DOMAIN d
        BY <1>2, <3>2
      <4>2. m[x] = [r \in 1..2 |-> Fit(d[x][r])]
        BY <4>1
      <4>3. QED BY <3>2, <4>1, <4>2
    <3>3. QED BY <3>1, <3>2
  <2>2. QED BY <2>1
<1>6. [x \in DOMAIN d \cup {k} |-> IF x = k THEN v ELSE m[x]] = [x \in DOMAIN d \cup {k} |-> [r \in 1..2 |-> Fit(p[x][r])]]
  BY <1>5
<1>7. QED BY <1>2, <1>4, <1>6 DEF v, w, p

\* One event, as the bridge and the store hear it.
LEMMA QmlDelivery ==
  ASSUME TypeOK, QmlInv, app = "qml", NEW e \in Arrivals, Complete(e), Dispatch(e)
  PROVE  CachesAgree(qml', store') /\ LcdAgrees(qml', store') /\ TracesAligned(qml')
<1>1. store' = Update(store, e) /\ qml' = QmlHears(qml, e)
  BY DEF Dispatch
<1>2. CachesAgree(qml, store) /\ LcdAgrees(qml, store) /\ TracesAligned(qml)
  BY DEF QmlInv
<1>3. qml \in QmlViews /\ store \in Stores
  BY DEF TypeOK
<1>4. qml = [dirty |-> qml.dirty, cache |-> qml.cache, lcd |-> qml.lcd, running |-> qml.running,
             speed |-> qml.speed, trace |-> qml.trace, lastTick |-> qml.lastTick]
  BY <1>3 DEF QmlViews
<1>5. qml'.cache = qml.cache /\ qml'.trace = qml.trace /\ qml'.lastTick = qml.lastTick
      /\ qml'.dirty = qml.dirty \cup (IF e.t = "pin" THEN {"pins"} ELSE IF e.t = "pwm" THEN {"pwm"} ELSE {})
      /\ qml'.lcd = IF e.t = "lcd" THEN Put(qml.lcd, e.chip, <<Fit(Field(e, "line0", <<>>)), Fit(Field(e, "line1", <<>>))>>) ELSE qml.lcd
  <2>1. CASE e.t = "pin"
    BY <1>1, <1>4, <2>1 DEF QmlHears, MarkDirty
  <2>2. CASE e.t = "pwm"
    BY <1>1, <1>4, <2>2 DEF QmlHears, MarkDirty
  <2>3. CASE e.t = "lcd"
    BY <1>1, <1>4, <2>3 DEF QmlHears, OnLcdChanged
  <2>4. CASE e.t \notin {"pin", "pwm", "lcd"}
    BY <1>1, <1>4, <2>4 DEF QmlHears
  <2>5. QED BY <2>1, <2>2, <2>3, <2>4
<1>6. /\ e.t # "pin" => store'.pins = store.pins
      /\ e.t # "pwm" => store'.pwm = store.pwm
      /\ store'.adc = store.adc
      /\ store'.lcd = IF e.t = "lcd" THEN Put(store.lcd, e.chip, <<Field(e, "line0", <<>>), Field(e, "line1", <<>>)>>) ELSE store.lcd
  BY <1>1, <1>3, UpdateParts
<1>7. CachesAgree(qml', store')
  <2>1. ASSUME NEW k \in Sections \ qml'.dirty PROVE qml'.cache[k] = store'[k]
    <3>1. k \in Sections \ qml.dirty /\ (e.t = "pin" => k # "pins") /\ (e.t = "pwm" => k # "pwm")
      BY <1>5
    <3>2. qml.cache[k] = store[k]
      BY <1>2, <3>1 DEF CachesAgree
    <3>3. k = "pins" \/ k = "pwm" \/ k = "adc"
      BY <3>1 DEF Sections
    <3>4. store'[k] = store[k]
      BY <1>6, <3>1, <3>3
    <3>5. QED BY <1>5, <3>2, <3>4
  <2>2. QED BY <2>1 DEF CachesAgree
<1>8. LcdAgrees(qml', store')
  <2>1. CASE e.t = "lcd"
    <3> DEFINE a == Field(e, "line0", <<>>)
               b == Field(e, "line1", <<>>)
               d == store.lcd
               m == qml.lcd
    <3>1. d \in Dict(Chips, Lines \X Lines) /\ m = [c \in DOMAIN d |-> [r \in 1..2 |-> Fit(d[c][r])]]
      BY <1>2, <1>3 DEF Stores, LcdAgrees
    <3>2. qml'.lcd = Put(m, e.chip, <<Fit(a), Fit(b)>>) /\ store'.lcd = Put(d, e.chip, <<a, b>>)
      BY <1>5, <1>6, <2>1
    <3> HIDE DEF a, b, d, m
    <3>3. Put(m, e.chip, <<Fit(a), Fit(b)>>) = [c \in DOMAIN Put(d, e.chip, <<a, b>>) |-> [r \in 1..2 |-> Fit(Put(d, e.chip, <<a, b>>)[c][r])]]
      BY <3>1, PutAgrees
    <3>4. QED BY <3>2, <3>3 DEF LcdAgrees
  <2>2. CASE e.t # "lcd"
    BY <1>2, <1>5, <1>6, <2>2 DEF LcdAgrees
  <2>3. QED BY <2>1, <2>2
<1>9. TracesAligned(qml')
  BY <1>2, <1>5 DEF TracesAligned
<1>10. QED BY <1>7, <1>8, <1>9

\* Every step keeps the invariant.
LEMMA QmlInvStep ==
  ASSUME TypeOK, QmlInv, [Next]_vars
  PROVE  QmlInv'
<1>1. app' = app
  <2>1. CASE DispatchLine
    BY <2>1 DEF DispatchLine
  <2>2. CASE ~DispatchLine
    BY <2>2, StoreStays
  <2>3. QED BY <2>1, <2>2
<1> SUFFICES ASSUME app = "qml"
             PROVE  CachesAgree(qml', store') /\ LcdAgrees(qml', store') /\ TracesAligned(qml')
  BY <1>1 DEF QmlInv, CachesAgree, LcdAgrees, TracesAligned, Aligned
<1>2. CachesAgree(qml, store) /\ LcdAgrees(qml, store) /\ TracesAligned(qml)
  BY DEF QmlInv
<1>3. qml \in QmlViews /\ store \in Stores
  BY DEF TypeOK
<1>4. qml = [dirty |-> qml.dirty, cache |-> qml.cache, lcd |-> qml.lcd, running |-> qml.running,
             speed |-> qml.speed, trace |-> qml.trace, lastTick |-> qml.lastTick]
  BY <1>3 DEF QmlViews
<1>5. CASE DispatchLine
  <2>1. PICK e \in Arrivals : Delivers(e)
    BY <1>5, DeliveryExists
  <2>2. CASE Complete(e)
    BY <2>1, <2>2, QmlDelivery DEF Delivers
  <2>3. CASE ~Complete(e)
    BY <1>2, <2>1, <2>3, QmlParts DEF Delivers, uiVars
  <2>4. QED BY <2>2, <2>3
<1>6. CASE OnFinished
  <2>1. store' = store /\ qml' = [qml EXCEPT !.running = FALSE]
    BY <1>6 DEF OnFinished
  <2>2. QED BY <1>2, <1>4, <2>1, QmlParts
<1>7. CASE SetSpeed
  <2>1. PICK v : store' = store /\ qml' = [qml EXCEPT !.speed = v]
    BY <1>7 DEF SetSpeed
  <2>2. QED BY <1>2, <1>4, <2>1, QmlParts
<1>8. CASE FlashChip
  <2>1. store' = store /\ qml' = [qml EXCEPT !.speed = 1]
    BY <1>8 DEF FlashChip
  <2>2. QED BY <1>2, <1>4, <2>1, QmlParts
<1>9. CASE Read
  <2>1. PICK k \in qml.dirty : store' = store /\ qml' = [qml EXCEPT !.cache[k] = store[k], !.dirty = @ \ {k}]
    BY <1>9 DEF Read, ReadSection
  <2>2. /\ qml'.dirty = qml.dirty \ {k} /\ qml'.cache = [qml.cache EXCEPT ![k] = store[k]]
        /\ qml'.lcd = qml.lcd /\ qml'.trace = qml.trace /\ qml'.lastTick = qml.lastTick
    BY <1>4, <2>1
  <2>3. k \in DOMAIN qml.cache /\ DOMAIN qml.cache = Sections
    BY <1>3 DEF QmlViews
  <2>4. CachesAgree(qml', store')
    BY <1>2, <2>1, <2>2, <2>3 DEF CachesAgree
  <2>5. QED BY <1>2, <2>1, <2>2, <2>4 DEF LcdAgrees, TracesAligned
<1>10. CASE Tick
  <2>1. store' = store /\ qml' = PlotTick(qml, store, qml.lastTick + 1)
    BY <1>10 DEF Tick
  <2>2. /\ qml'.dirty = qml.dirty /\ qml'.cache = qml.cache /\ qml'.lcd = qml.lcd /\ qml'.lastTick = qml.lastTick + 1
        /\ \A x \in Targets : qml'.trace[x] = Newest(Append(qml.trace[x], [at |-> qml.lastTick + 1, v |-> Sample(store, x)]), BufLen)
    BY <1>4, <2>1 DEF PlotTick
  <2>3. qml.lastTick \in Nat /\ qml.trace \in [Targets -> Seq(Samples)]
    BY <1>3 DEF QmlViews, Samples
  <2>4. TracesAligned(qml')
    <3>1. ASSUME NEW x \in Targets PROVE Aligned(qml'.trace[x], qml'.lastTick)
      <4>1. Aligned(qml.trace[x], qml.lastTick) /\ qml.trace[x] \in Seq(Samples)
        BY <1>2, <2>3 DEF TracesAligned
      <4>2. Sample(store, x) \in Int
        BY <1>3, SampleType
      <4>3. Aligned(Newest(Append(qml.trace[x], [at |-> qml.lastTick + 1, v |-> Sample(store, x)]), BufLen), qml.lastTick + 1)
        BY <2>3, <4>1, <4>2, TickAligns
      <4>4. QED BY <2>2, <4>3
    <3>2. QED BY <3>1 DEF TracesAligned
  <2>5. QED BY <1>2, <2>1, <2>2, <2>4 DEF CachesAgree, LcdAgrees
<1>11. CASE SetAdc
  <2>1. qml' = [qml EXCEPT !.dirty = @ \cup {"adc"}] /\ \E chip, ch, v : store' = UpdateAdc(store, chip, ch, v)
    BY <1>11 DEF SetAdc, MarkDirty
  <2>2. /\ qml'.dirty = qml.dirty \cup {"adc"} /\ qml'.cache = qml.cache
        /\ qml'.lcd = qml.lcd /\ qml'.trace = qml.trace /\ qml'.lastTick = qml.lastTick
    BY <1>4, <2>1
  <2>3. store'.pins = store.pins /\ store'.pwm = store.pwm /\ store'.lcd = store.lcd
    <3>1. store = [pins |-> store.pins, pwm |-> store.pwm, adc |-> store.adc, canState |-> store.canState,
                   stat |-> store.stat, lcd |-> store.lcd, canLog |-> store.canLog, log |-> store.log]
      BY <1>3 DEF Stores
    <3>2. QED BY <2>1, <3>1 DEF UpdateAdc
  <2>4. CachesAgree(qml', store')
    <3>1. ASSUME NEW k \in Sections \ qml'.dirty PROVE qml'.cache[k] = store'[k]
      <4>1. k \in Sections \ qml.dirty /\ (k = "pins" \/ k = "pwm")
        BY <2>2 DEF Sections
      <4>2. qml.cache[k] = store[k] /\ store'[k] = store[k]
        BY <1>2, <2>3, <4>1 DEF CachesAgree
      <4>3. QED BY <2>2, <4>2
    <3>2. QED BY <3>1 DEF CachesAgree
  <2>5. QED BY <1>2, <2>2, <2>3, <2>4 DEF LcdAgrees, TracesAligned
<1>12. ASSUME OnStdout \/ EngineWrites \/ EngineEnds \/ QmlCommand PROVE qml' = qml /\ store' = store
  BY <1>12 DEF OnStdout, EngineWrites, EngineEnds, QmlCommand, uiVars
<1>13. ASSUME Press \/ Release \/ Turn \/ TypeFilter \/ Clear \/ DecayUart PROVE qml' = qml /\ store' = store
  BY <1>13 DEF Press, Release, Turn, TypeFilter, Clear, DecayUart, uiVars
<1>14. ASSUME ToolbarCommand \/ InjectFrame \/ ConsoleSend \/ FaultCommand PROVE qml' = qml /\ store' = store
  BY <1>14 DEF ToolbarCommand, InjectFrame, ConsoleSend, FaultCommand, uiVars
<1>15. ASSUME UNCHANGED vars PROVE qml' = qml /\ store' = store
  BY <1>15 DEF vars, uiVars
<1>16. ASSUME qml' = qml, store' = store PROVE CachesAgree(qml', store') /\ LcdAgrees(qml', store') /\ TracesAligned(qml')
  BY <1>2, <1>16
<1>17. QED BY <1>5, <1>6, <1>7, <1>8, <1>9, <1>10, <1>11, <1>12, <1>13, <1>14, <1>15, <1>16 DEF Next

\* With the store's invariant it gives QmlShowsStore.
LEMMA QmlInvShows ==
  ASSUME TypeOK, StoreInv, QmlInv
  PROVE  QmlShowsStore
<1> SUFFICES ASSUME app = "qml"
             PROVE  /\ \A k \in Sections \ qml.dirty : qml.cache[k] = store[k]
                    /\ qml.lcd = [c \in DOMAIN store.lcd |-> [r \in 1..2 |-> Fit(store.lcd[c][r])]]
                    /\ CanFrames(store) = Newest(CanHistory, FramesMax)
                    /\ \A x \in Targets : LET s == Series(qml, x)
                                          IN /\ Len(s) = IF qml.lastTick < BufLen THEN qml.lastTick ELSE BufLen
                                             /\ \A i \in DOMAIN s : s[i].at = i - Len(s)
  BY DEF QmlShowsStore
<1>1. CachesAgree(qml, store) /\ LcdAgrees(qml, store) /\ TracesAligned(qml)
  BY DEF QmlInv
<1>2. CanFrames(store) = Newest(CanHistory, FramesMax)
  <2>1. EndOf(store.canLog, CanHistory) /\ Len(store.canLog) >= Least(LogKeep, Len(CanHistory))
    BY DEF StoreInv, LogIsEnd, CanHistory
  <2>2. CanHistory \in Seq(Arrivals) /\ store.canLog \in Seq(Arrivals) /\ Len(CanHistory) \in Nat
    BY HistoryType, StoreTypes
  <2>3. LogKeep \in Nat /\ FramesMax \in Nat /\ FramesMax <= LogKeep
    BY StoreAssumption, QmlAssumption
  <2>4. Len(store.canLog) >= Least(Len(CanHistory), FramesMax)
    BY <2>1, <2>2, <2>3, LenProperties DEF Least
  <2>5. QED BY <2>1, <2>2, <2>3, <2>4, NewestOfEnd DEF CanFrames
<1>3. ASSUME NEW x \in Targets
      PROVE  /\ Len(Series(qml, x)) = IF qml.lastTick < BufLen THEN qml.lastTick ELSE BufLen
             /\ \A i \in DOMAIN Series(qml, x) : Series(qml, x)[i].at = i - Len(Series(qml, x))
  <2> DEFINE t == qml.trace[x]
             now == qml.lastTick
             s == Series(qml, x)
  <2>1. t \in Seq(Samples) /\ now \in Nat /\ BufLen \in Nat
    BY QmlAssumption DEF TypeOK, QmlViews, Samples
  <2>2. Len(t) = Least(now, BufLen) /\ \A i \in 1..Len(t) : t[i].at = now - Len(t) + i
    BY <1>1 DEF TracesAligned, Aligned
  <2>3. s = [i \in DOMAIN t |-> [t[i] EXCEPT !.at = @ - now]]
    BY DEF Series
  <2> HIDE DEF t, now, s
  <2>4. DOMAIN t = 1..Len(t) /\ Len(t) \in Nat /\ \A i \in 1..Len(t) : t[i] \in Samples
    BY <2>1, LenProperties, ElementOfSeq
  <2>5. \A i \in 1..Len(t) : s[i] = [t[i] EXCEPT !.at = @ - now]
    BY <2>3, <2>4
  <2>6. \A i \in 1..Len(t) : s[i].at = i - Len(t) /\ s[i] \in [at : Int, v : Int]
    <3>1. ASSUME NEW i \in 1..Len(t) PROVE s[i].at = i - Len(t) /\ s[i] \in [at : Int, v : Int]
      <4>1. t[i] \in [at : Nat, v : Int] /\ t[i].at = now - Len(t) + i
        BY <2>2, <2>4 DEF Samples
      <4>2. s[i] = [t[i] EXCEPT !.at = @ - now]
        BY <2>5
      <4>3. s[i].at = t[i].at - now
        BY <4>1, <4>2
      <4>4. s[i] \in [at : Int, v : Int]
        <5>1. t[i].at - now \in Int /\ t[i].v \in Int
          BY <4>1, <2>1
        <5>2. s[i] = [at |-> t[i].at - now, v |-> t[i].v]
          BY <4>1, <4>2
        <5>3. QED BY <5>1, <5>2
      <4>5. QED BY <2>1, <2>4, <4>1, <4>3, <4>4
    <3>2. QED BY <3>1
  <2>7. s \in [1..Len(t) -> [at : Int, v : Int]]
    BY <2>3, <2>4, <2>6
  <2>8. Len(s) = Len(t) /\ DOMAIN s = 1..Len(t)
    BY <2>4, <2>7, FunctionIsSeq
  <2>9. Len(s) = IF now < BufLen THEN now ELSE BufLen
    BY <2>1, <2>2, <2>8 DEF Least
  <2>10. \A i \in DOMAIN s : s[i].at = i - Len(s)
    BY <2>6, <2>8
  <2>11. QED BY <2>9, <2>10 DEF s, now
<1>4. QED BY <1>1, <1>2, <1>3 DEF CachesAgree, LcdAgrees

\* What QML reads between two callbacks is the store: no section is stale
\* without being marked dirty, and the traces are aligned (qml_bridge.py).
THEOREM QmlShowsStoreHolds == Spec => []QmlShowsStore
<1>1. Init => StoreInv /\ QmlInv
  BY StoreInit, QmlInvInit
<1>2. TypeOK /\ StoreInv /\ [Next]_vars => StoreInv'
  BY StoreStep
<1>3. TypeOK /\ QmlInv /\ [Next]_vars => QmlInv'
  BY QmlInvStep
<1>4. TypeOK /\ StoreInv /\ QmlInv => QmlShowsStore
  BY QmlInvShows
<1>5. QED BY <1>1, <1>2, <1>3, <1>4, TypeCorrect, PTL DEF Spec

\* ----------------------------------------------------------- RowsAreNewest

\* The window's own copy changes with events, the filter, Clear and the lamp.
LEMMA QtStays ==
  ASSUME [Next]_vars, ~DispatchLine, ~TypeFilter, ~Clear, ~DecayUart
  PROVE  qt' = qt /\ from' = from
<1>1. ASSUME OnStdout \/ OnFinished \/ EngineWrites \/ EngineEnds PROVE qt' = qt /\ from' = from
  BY <1>1 DEF OnStdout, OnFinished, EngineWrites, EngineEnds, uiVars
<1>2. ASSUME Read \/ Tick \/ SetAdc \/ SetSpeed \/ FlashChip \/ QmlCommand PROVE qt' = qt /\ from' = from
  BY <1>2 DEF Read, Tick, SetAdc, SetSpeed, FlashChip, QmlCommand, uiVars
<1>3. ASSUME Press \/ Release \/ Turn PROVE qt' = qt /\ from' = from
  BY <1>3 DEF Press, Release, Turn, uiVars
<1>4. ASSUME ToolbarCommand \/ InjectFrame \/ ConsoleSend \/ FaultCommand PROVE qt' = qt /\ from' = from
  BY <1>4 DEF ToolbarCommand, InjectFrame, ConsoleSend, FaultCommand, uiVars
<1>5. ASSUME UNCHANGED vars PROVE qt' = qt /\ from' = from
  BY <1>5 DEF vars, uiVars
<1>6. QED BY <1>1, <1>2, <1>3, <1>4, <1>5 DEF Next

\* The types of the window's copy.
LEMMA QtTypes ==
  ASSUME TypeOK
  PROVE  /\ qt \in QtViews
         /\ qt = [rows |-> qt.rows, filter |-> qt.filter, panel |-> qt.panel]
         /\ qt.panel \in [Chips -> Panels] /\ qt.rows \in Seq(CanEvents)
BY DEF TypeOK, QtViews

\* What an event does to the three parts of the window.
LEMMA QtParts ==
  ASSUME TypeOK, NEW s, NEW e
  PROVE  /\ QtHears(qt, s, e).filter = qt.filter
         /\ e.t # "can_tx" => QtHears(qt, s, e).rows = qt.rows
         /\ e.t = "can_tx" => /\ QtHears(qt, s, e).panel = qt.panel
                              /\ QtHears(qt, s, e).rows = IF Matches(qt, e) THEN AppendRow(qt.rows, e) ELSE qt.rows
<1>1. qt = [rows |-> qt.rows, filter |-> qt.filter, panel |-> qt.panel]
  BY QtTypes
<1>2. CASE e.t = "can_tx"
  BY <1>1, <1>2 DEF QtHears, OnFrame
<1>3. CASE e.t # "can_tx"
  BY <1>1, <1>3 DEF QtHears
<1>4. QED BY <1>2, <1>3

\* The history since some frame, with one frame more.
LEMMA SubSeqAppend ==
  ASSUME NEW X, NEW h \in Seq(X), NEW e \in X, NEW k \in Nat, 1 <= k, k <= Len(h) + 1
  PROVE  /\ SubSeq(h, k, Len(h)) \in Seq(X)
         /\ SubSeq(Append(h, e), k, Len(Append(h, e))) = Append(SubSeq(h, k, Len(h)), e)
<1> DEFINE q == Append(h, e)
           a == SubSeq(h, k, Len(h))
           b == SubSeq(q, k, Len(q))
           c == Append(a, e)
<1>1. EndOf(h, h)
  BY EndOfSelf
<1>2. /\ a \in Seq(X) /\ Len(a) = Len(h) - k + 1
      /\ \A i \in 1..(Len(h) - k + 1) : a[i] = h[k + i - 1]
  BY <1>1, EndOfSub
<1>3. q \in Seq(X) /\ Len(q) = Len(h) + 1 /\ q[Len(h) + 1] = e /\ \A i \in 1..Len(h) : q[i] = h[i]
  BY AppendProperties
<1>4. EndOf(q, q) /\ k <= Len(q) + 1 /\ Len(h) \in Nat
  <2> HIDE DEF q
  <2>1. EndOf(q, q)
    BY <1>3, EndOfSelf
  <2>2. Len(h) \in Nat
    BY LenProperties
  <2>3. QED BY <1>3, <2>1, <2>2
<1>5. /\ b \in Seq(X) /\ Len(b) = Len(q) - k + 1
      /\ \A i \in 1..(Len(q) - k + 1) : b[i] = q[k + i - 1]
  <2> HIDE DEF q
  <2>1. QED BY <1>3, <1>4, EndOfSub
<1> HIDE DEF q, a, b
<1>6. c \in Seq(X) /\ Len(c) = Len(a) + 1 /\ c[Len(a) + 1] = e /\ \A i \in 1..Len(a) : c[i] = a[i]
  BY <1>2, AppendProperties
<1> HIDE DEF c
<1>7. Len(b) = Len(c) /\ Len(b) = Len(h) - k + 2
  BY <1>2, <1>3, <1>4, <1>5, <1>6
<1>8. \A i \in 1..Len(b) : b[i] = c[i]
  <2>1. ASSUME NEW i \in 1..Len(b) PROVE b[i] = c[i]
    <3>1. b[i] = q[k + i - 1]
      BY <1>5
    <3>2. CASE i = Len(b)
      <4>1. k + i - 1 = Len(h) + 1 /\ i = Len(a) + 1
        BY <1>2, <1>4, <1>7, <3>2
      <4>2. QED BY <1>3, <1>6, <3>1, <4>1
    <3>3. CASE i # Len(b)
      <4>1. k + i - 1 \in 1..Len(h) /\ i \in 1..Len(a) /\ i \in 1..(Len(h) - k + 1)
        <5>1. i \in Nat /\ 1 <= i /\ i <= Len(b) /\ Len(b) = Len(h) - k + 2
          BY <1>4, <1>7
        <5>2. 1 <= i /\ i <= Len(h) - k + 1 /\ Len(a) = Len(h) - k + 1
          BY <1>2, <1>4, <3>3, <5>1
        <5>3. QED BY <1>4, <5>1, <5>2
      <4>2. QED BY <1>2, <1>3, <1>6, <3>1, <4>1
    <3>4. QED BY <3>2, <3>3
  <2>2. QED BY <2>1
<1>9. b = c
  BY <1>5, <1>6, <1>7, <1>8, SeqEqual
<1>10. QED BY <1>2, <1>9 DEF a, b, c, q

Since == SubSeq(CanHistory, from, Len(CanHistory))
Filtered(w) == {e \in CanEvents : Matches(w, e)}

RowsInv ==
  app = "widgets" =>
    /\ from \in Nat /\ 1 <= from /\ from <= Len(CanHistory) + 1
    /\ qt.rows = Newest(KeptIn(Since, Filtered(qt)), RowMax)

\* The invariant gives RowsAreNewest.
LEMMA RowsInvIsNewest == RowsInv => RowsAreNewest
BY DEF RowsInv, RowsAreNewest, Since, Filtered

\* The newest of nothing.
LEMMA NewestOfNothing ==
  ASSUME NEW n \in Nat
  PROVE  Newest(<<>>, n) = <<>>
<1>1. <<>> \in Seq({}) /\ Len(<<>>) = 0
  OBVIOUS
<1>2. Newest(<<>>, n) \in Seq({}) /\ Len(Newest(<<>>, n)) = 0
  <2>1. Newest(<<>>, n) \in Seq({}) /\ Len(Newest(<<>>, n)) = Least(Len(<<>>), n)
    BY <1>1, NewestFacts
  <2>2. QED BY <1>1, <2>1 DEF Least
<1>3. QED BY <1>2, EmptySeq

\* The table's bound is a natural.
LEMMA RowMaxType == RowMax \in Nat
BY ConsoleAssumption

\* Nothing has come since the last frame.
LEMMA EmptySince ==
  ASSUME NEW X, NEW h \in Seq(X)
  PROVE  SubSeq(h, Len(h) + 1, Len(h)) = <<>>
<1>1. Len(h) \in Nat
  BY LenProperties
<1>2. QED BY <1>1, SubSeqEmpty

\* The invariant holds initially.
LEMMA RowsInit == Init => RowsInv
<1> SUFFICES ASSUME Init PROVE RowsInv
  OBVIOUS
<1>1. seen = <<>> /\ from = 1 /\ qt.rows = <<>>
  BY DEF Init, QtInit
<1>2. CanHistory = <<>> /\ Len(<<>>) = 0
  BY <1>1, KeptInEmpty DEF CanHistory
<1>3. Since = <<>>
  <2>1. <<>> \in Seq({})
    OBVIOUS
  <2>2. SubSeq(<<>>, Len(<<>>) + 1, Len(<<>>)) = <<>>
    BY <2>1, EmptySince
  <2>3. QED BY <1>1, <1>2, <2>2 DEF Since
<1>4. Newest(KeptIn(Since, Filtered(qt)), RowMax) = <<>>
  BY <1>3, KeptInEmpty, NewestOfNothing, RowMaxType
<1>5. QED BY <1>1, <1>2, <1>4 DEF RowsInv

\* One event, a frame or not.
LEMMA RowsDelivery ==
  ASSUME TypeOK, RowsInv, app = "widgets", NEW e \in Arrivals, Delivers(e)
  PROVE  RowsInv'
<1> DEFINE h == CanHistory
           F == Filtered(qt)
<1>1. /\ from \in Nat /\ 1 <= from /\ from <= Len(h) + 1
      /\ qt.rows = Newest(KeptIn(Since, F), RowMax)
  BY DEF RowsInv
<1>2. h \in Seq(Arrivals) /\ Len(h) \in Nat
  BY HistoryType
<1>3. CanHistory' = IF e \in CanEvents THEN Append(h, e) ELSE h
  <2>1. seen' = Append(seen, e) /\ seen \in Seq(Arrivals)
    BY StoreTypes DEF Delivers
  <2>2. KeptIn(Append(seen, e), CanEvents) = IF e \in CanEvents THEN Append(KeptIn(seen, CanEvents), e) ELSE KeptIn(seen, CanEvents)
    BY <2>1, KeptInAppend
  <2>3. QED BY <2>1, <2>2 DEF CanHistory
<1>4. from' = from /\ app' = app
  BY DEF Delivers
<1>5. qt' = IF Complete(e) THEN QtHears(qt, store', e) ELSE qt
  BY DEF Delivers, Dispatch, uiVars
<1>6. qt'.filter = qt.filter /\ Filtered(qt)' = F
  <2>1. qt'.filter = qt.filter
    BY <1>5, QtParts
  <2>2. QED BY <2>1 DEF Filtered, Matches
<1>7. CASE e.t # "can_tx"
  <2>1. CanHistory' = h
    BY <1>3, <1>7, ArrivalFacts
  <2>2. qt'.rows = qt.rows
    BY <1>5, <1>7, QtParts
  <2>3. QED BY <1>1, <1>4, <1>6, <2>1, <2>2 DEF RowsInv, Since
<1>8. CASE e.t = "can_tx"
  <2>1. e \in CanEvents /\ Complete(e)
    BY <1>8, ArrivalFacts
  <2>2. CanHistory' = Append(h, e)
    BY <1>3, <2>1
  <2>3. qt'.rows = IF e \in F THEN AppendRow(qt.rows, e) ELSE qt.rows
    <3>1. e \in F <=> Matches(qt, e)
      BY <2>1 DEF Filtered
    <3>2. QED BY <1>5, <1>8, <2>1, <3>1, QtParts
  <2> DEFINE g == SubSeq(h, from, Len(h))
  <2> HIDE DEF h
  <2>4. g \in Seq(Arrivals) /\ SubSeq(Append(h, e), from, Len(Append(h, e))) = Append(g, e)
    BY <1>1, <1>2, SubSeqAppend
  <2>5. Since' = Append(g, e) /\ Since = g
    BY <1>4, <2>2, <2>4 DEF Since, h
  <2> HIDE DEF F, g
  <2>6. KeptIn(g, F) \in Seq(Arrivals)
    BY <2>4, KeptInAppend
  <2>7. KeptIn(Append(g, e), F) = IF e \in F THEN Append(KeptIn(g, F), e) ELSE KeptIn(g, F)
    BY <2>4, KeptInAppend
  <2>8. AppendRow(Newest(KeptIn(g, F), RowMax), e) = Newest(Append(KeptIn(g, F), e), RowMax)
    BY <2>6, AppendRowIsNewest
  <2>9. qt'.rows = Newest(KeptIn(Append(g, e), F), RowMax)
    BY <1>1, <2>3, <2>5, <2>7, <2>8
  <2>10. from <= Len(CanHistory') + 1
    <3>1. Len(Append(h, e)) = Len(h) + 1
      BY <1>2, AppendProperties
    <3>2. QED BY <1>1, <1>2, <2>2, <3>1
  <2>11. QED BY <1>1, <1>4, <1>6, <2>5, <2>9, <2>10 DEF RowsInv
<1>9. QED BY <1>7, <1>8

\* Another filter fills the table from the log.
LEMMA RowsFilter ==
  ASSUME TypeOK, StoreInv, TypeFilter
  PROVE  RowsInv'
<1> DEFINE h == CanHistory
           log == store.canLog
           n == Len(log)
<1>1. PICK ids \in Filters : qt' = OnFilterText(qt, store, ids)
  BY DEF TypeFilter
<1>2. from' = Len(h) - n + 1 /\ seen' = seen
  BY DEF TypeFilter, ioVars
<1>3. h \in Seq(Arrivals) /\ log \in Seq(Arrivals) /\ log \in Seq(CanEvents) /\ Len(h) \in Nat /\ n \in Nat
  BY HistoryType, StoreTypes, LenProperties
<1>4. EndOf(log, h)
  BY DEF StoreInv, LogIsEnd, CanHistory
<1>5. log = Newest(h, n) /\ n <= Len(h)
  BY <1>3, <1>4, EndIsNewest DEF EndOf
<1> DEFINE w == [qt EXCEPT !.filter = ids]
<1>6. qt' = [w EXCEPT !.rows = Fill(w, <<>>, log)]
  BY <1>1 DEF OnFilterText, Refresh
<1>7. w = [rows |-> qt.rows, filter |-> ids, panel |-> qt.panel]
  <2>1. qt = [rows |-> qt.rows, filter |-> qt.filter, panel |-> qt.panel]
    BY QtTypes
  <2>2. QED BY <2>1
<1> HIDE DEF w, h, log
<1>8. qt'.rows = Fill(w, <<>>, log) /\ qt'.filter = w.filter
  BY <1>6, <1>7
<1>9. Filtered(qt)' = {e \in CanEvents : Matches(w, e)}
  BY <1>8 DEF Filtered, Matches
<1>10. qt'.rows = Newest(KeptIn(log, {e \in CanEvents : Matches(w, e)}), RowMax)
  BY <1>3, <1>8, FillIsNewest
<1>11. CanHistory' = h
  BY <1>2 DEF CanHistory, h
<1>12. log = SubSeq(h, Len(h) - n + 1, Len(h))
  <2>1. CASE Len(h) > n
    BY <1>5, <2>1 DEF Newest
  <2>2. CASE Len(h) = n
    <3>1. Len(h) - n + 1 = 1
      BY <1>3, <2>2
    <3>2. QED BY <1>3, <1>5, <2>2, <3>1 DEF Newest
  <2>3. QED BY <1>3, <1>5, <2>1, <2>2
<1>13. Since' = log
  BY <1>2, <1>11, <1>12 DEF Since
<1>14. Len(h) - n + 1 \in Nat /\ 1 <= Len(h) - n + 1 /\ Len(h) - n + 1 <= Len(h) + 1
  BY <1>3, <1>5
<1>15. QED BY <1>2, <1>9, <1>10, <1>11, <1>13, <1>14 DEF RowsInv

\* Clear empties it.
LEMMA RowsClear ==
  ASSUME TypeOK, Clear
  PROVE  RowsInv'
<1> DEFINE h == CanHistory
<1>1. from' = Len(h) + 1 /\ seen' = seen /\ qt' = [qt EXCEPT !.rows = <<>>]
  BY DEF Clear, ioVars
<1>2. h \in Seq(Arrivals) /\ Len(h) \in Nat
  BY HistoryType
<1>3. CanHistory' = h
  BY <1>1 DEF CanHistory
<1>4. qt'.rows = <<>>
  BY <1>1, QtTypes
<1>5. Since' = <<>>
  BY <1>1, <1>2, <1>3, EmptySince DEF Since
<1>6. \A F : Newest(KeptIn(<<>>, F), RowMax) = <<>>
  BY KeptInEmpty, NewestOfNothing, RowMaxType
<1>7. Newest(KeptIn(Since', Filtered(qt)'), RowMax) = <<>>
  BY <1>5, <1>6
<1>8. Len(h) + 1 \in Nat /\ 1 <= Len(h) + 1
  BY <1>2
<1>9. QED BY <1>1, <1>3, <1>4, <1>7, <1>8 DEF RowsInv

\* Every step keeps the invariant.
LEMMA RowsStep ==
  ASSUME TypeOK, StoreInv, RowsInv, [Next]_vars
  PROVE  RowsInv'
<1>1. CASE DispatchLine
  <2>1. PICK e \in Arrivals : Delivers(e)
    BY <1>1, DeliveryExists
  <2>2. CASE app = "widgets"
    BY <2>1, <2>2, RowsDelivery
  <2>3. CASE app # "widgets"
    BY <2>1, <2>3 DEF RowsInv, Delivers
  <2>4. QED BY <2>2, <2>3
<1>2. CASE TypeFilter
  BY <1>2, RowsFilter
<1>3. CASE Clear
  BY <1>3, RowsClear
<1>4. CASE DecayUart
  <2>1. PICK c \in Chips : qt' = [qt EXCEPT !.panel[c] = Decay(@)]
    BY <1>4 DEF DecayUart
  <2>2. seen' = seen /\ from' = from /\ app' = app
    BY <1>4 DEF DecayUart, ioVars
  <2>3. qt'.rows = qt.rows /\ qt'.filter = qt.filter
    BY <2>1, QtTypes
  <2>4. CanHistory' = CanHistory /\ Filtered(qt)' = Filtered(qt)
    BY <2>2, <2>3 DEF CanHistory, Filtered, Matches
  <2>5. QED BY <2>2, <2>3, <2>4 DEF RowsInv, Since
<1>5. CASE ~DispatchLine /\ ~TypeFilter /\ ~Clear /\ ~DecayUart
  <2>1. seen' = seen /\ app' = app
    BY <1>5, StoreStays
  <2>2. qt' = qt /\ from' = from
    BY <1>5, QtStays
  <2>3. QED BY <2>1, <2>2 DEF RowsInv, Since, CanHistory, Filtered, Matches
<1>6. QED BY <1>1, <1>2, <1>3, <1>4, <1>5

\* The CAN table shows the newest matching frames although the log is cut and
\* the filter changes at any time (can_monitor.py).
THEOREM RowsAreNewestHolds == Spec => []RowsAreNewest
<1>1. Init => StoreInv /\ RowsInv
  BY StoreInit, RowsInit
<1>2. TypeOK /\ StoreInv /\ [Next]_vars => StoreInv'
  BY StoreStep
<1>3. TypeOK /\ StoreInv /\ RowsInv /\ [Next]_vars => RowsInv'
  BY RowsStep
<1>4. RowsInv => RowsAreNewest
  BY RowsInvIsNewest
<1>5. QED BY <1>1, <1>2, <1>3, <1>4, TypeCorrect, PTL DEF Spec

\* ----------------------------------------------------------- ConsoleIsTail

PanelHears(p, s, e) ==
  CASE e.t = "pin"       -> OnPinChanged(p, e)
    [] e.t = "pwm"       -> OnPwmChanged(p, e)
    [] e.t = "uart"      -> OnUartAppended(p, e)
    [] e.t = "can_state" -> OnCanStateChanged(p, s, e)
    [] OTHER             -> p

\* Only the panel of the event's chip hears it.
LEMMA PanelOf ==
  ASSUME TypeOK, NEW e \in Arrivals, Complete(e), NEW s, NEW c \in Chips
  PROVE  QtHears(qt, s, e).panel[c] =
           IF e.t \in {"pin", "pwm", "uart", "can_state"} /\ e.chip = c THEN PanelHears(qt.panel[c], s, e) ELSE qt.panel[c]
<1>1. qt = [rows |-> qt.rows, filter |-> qt.filter, panel |-> qt.panel] /\ qt.panel \in [Chips -> Panels]
  BY QtTypes
<1>2. e.t \in {"pin", "pwm", "uart", "can_state"} => e.chip \in Chips
  BY ArrivalFacts
<1>3. CASE e.t = "pin"
  BY <1>1, <1>2, <1>3 DEF QtHears, PanelHears
<1>4. CASE e.t = "pwm"
  BY <1>1, <1>2, <1>4 DEF QtHears, PanelHears
<1>5. CASE e.t = "uart"
  BY <1>1, <1>2, <1>5 DEF QtHears, PanelHears
<1>6. CASE e.t = "can_state"
  BY <1>1, <1>2, <1>6 DEF QtHears, PanelHears
<1>7. CASE e.t \notin {"pin", "pwm", "uart", "can_state"}
  BY <1>1, <1>7, QtParts DEF QtHears, OnFrame
<1>8. QED BY <1>3, <1>4, <1>5, <1>6, <1>7

\* The fields of a panel.
LEMMA PanelRecord ==
  ASSUME NEW p \in Panels
  PROVE  /\ p = [leds |-> p.leds, pins |-> p.pins, pwm |-> p.pwm, tx |-> p.tx, text |-> p.text, badge |-> p.badge]
         /\ p.leds \in [{"dout0", "dout1", "led", "buzz"} -> 0..Full]
         /\ p.pins \in Dict(Ports, BOOLEAN) /\ p.pwm \in Dict(Ports, 0..Full)
         /\ p.text \in Seq(Shown)
BY DEF Panels

\* What a pin event changes on a panel.
LEMMA PinFacts ==
  ASSUME NEW p \in Panels, NEW e
  PROVE  LET n == OnPinChanged(p, e)
         IN /\ n.pwm = p.pwm /\ n.text = p.text /\ n.badge = p.badge
            /\ n.leds = IF e.pin \in DOMAIN PinLed(e.chip)
                          THEN [p.leds EXCEPT ![PinLed(e.chip)[e.pin]] = Clamp(IF e.val # 0 THEN Full ELSE 0, Full)] ELSE p.leds
            /\ n.pins = IF e.pin \in Ports THEN Put(p.pins, e.pin, e.val # 0) ELSE p.pins
<1> DEFINE m == SetLed(p, PinLed(e.chip), e.pin, IF e.val # 0 THEN Full ELSE 0)
           n == OnPinChanged(p, e)
<1>1. m = [leds |-> m.leds, pins |-> p.pins, pwm |-> p.pwm, tx |-> p.tx, text |-> p.text, badge |-> p.badge]
  BY PanelRecord, SMTT(40) DEF SetLed
<1>2. m.leds = IF e.pin \in DOMAIN PinLed(e.chip)
                 THEN [p.leds EXCEPT ![PinLed(e.chip)[e.pin]] = Clamp(IF e.val # 0 THEN Full ELSE 0, Full)] ELSE p.leds
  BY PanelRecord, SMTT(40) DEF SetLed
<1>3. n = IF e.pin \in Ports THEN [m EXCEPT !.pins = Put(@, e.pin, e.val # 0)] ELSE m
  BY DEF OnPinChanged, NanoPin
<1> HIDE DEF m, n
<1>4. CASE e.pin \in Ports
  <2>1. n = [m EXCEPT !.pins = Put(m.pins, e.pin, e.val # 0)]
    BY <1>3, <1>4, Zenon
  <2>2. m.pins = p.pins
    BY <1>1
  <2> DEFINE d == Put(m.pins, e.pin, e.val # 0)
  <2>a. n = [m EXCEPT !.pins = d]
    BY <2>1
  <2>b. d = Put(p.pins, e.pin, e.val # 0)
    BY <2>2, Zenon
  <2> HIDE DEF d
  <2>3. n.pins = d /\ n.leds = m.leds /\ n.pwm = p.pwm /\ n.text = p.text /\ n.badge = p.badge
    BY <1>1, <2>a
  <2>4. n.pins = IF e.pin \in Ports THEN Put(p.pins, e.pin, e.val # 0) ELSE p.pins
    BY <1>4, <2>3, <2>b, Zenon
  <2>5. QED BY <1>2, <2>3, <2>4, Zenon DEF n
<1>5. CASE e.pin \notin Ports
  <2>1. n = m
    BY <1>3, <1>5, Zenon
  <2>2. n.pins = p.pins /\ n.leds = m.leds /\ n.pwm = p.pwm /\ n.text = p.text /\ n.badge = p.badge
    BY <1>1, <2>1
  <2>3. QED BY <1>2, <1>5, <2>2, Zenon DEF n
<1>6. QED BY <1>4, <1>5

\* What a PWM event changes on a panel.
LEMMA PwmFacts ==
  ASSUME NEW p \in Panels, NEW e
  PROVE  LET n == OnPwmChanged(p, e)
         IN /\ n.pins = p.pins /\ n.text = p.text /\ n.badge = p.badge
            /\ n.leds = IF e.chip \in Ecus /\ e.pin \in DOMAIN PwmLed(e.chip)
                          THEN [p.leds EXCEPT ![PwmLed(e.chip)[e.pin]] = Clamp(e.duty, Full)] ELSE p.leds
            /\ n.pwm = IF e.chip \in Ecus /\ e.pin \in Ports THEN Put(p.pwm, e.pin, Clamp(e.duty, Full)) ELSE p.pwm
<1> DEFINE m == SetLed(p, PwmLed(e.chip), e.pin, e.duty)
           n == OnPwmChanged(p, e)
           d == Put(p.pwm, e.pin, Clamp(e.duty, Full))
<1>0. p = [leds |-> p.leds, pins |-> p.pins, pwm |-> p.pwm, tx |-> p.tx, text |-> p.text, badge |-> p.badge]
  BY PanelRecord
<1>1. m = [leds |-> m.leds, pins |-> p.pins, pwm |-> p.pwm, tx |-> p.tx, text |-> p.text, badge |-> p.badge]
  <2> DEFINE L == PwmLed(e.chip)
             k == e.pin
             v == Clamp(e.duty, Full)
             M == IF k \in DOMAIN L THEN [p EXCEPT !.leds[L[k]] = v] ELSE p
  <2>1. m = M
    BY Zenon DEF SetLed
  <2> HIDE DEF L, k, v, m
  <2>2. M = [leds |-> M.leds, pins |-> p.pins, pwm |-> p.pwm, tx |-> p.tx, text |-> p.text, badge |-> p.badge]
    BY <1>0
  <2>3. QED BY <2>1, <2>2
<1>2. m.leds = IF e.pin \in DOMAIN PwmLed(e.chip) THEN [p.leds EXCEPT ![PwmLed(e.chip)[e.pin]] = Clamp(e.duty, Full)] ELSE p.leds
  BY PanelRecord, SMTT(40) DEF SetLed
<1>3. n = IF e.chip \in Ecus THEN IF e.pin \in Ports THEN [m EXCEPT !.pwm = Put(@, e.pin, Clamp(e.duty, Full))] ELSE m ELSE p
  BY DEF OnPwmChanged, NanoPwm
<1> HIDE DEF m, n
<1>a. n = IF e.chip \in Ecus THEN IF e.pin \in Ports THEN [m EXCEPT !.pwm = d] ELSE m ELSE p
  <2>1. m.pwm = p.pwm
    BY <1>1
  <2>2. QED BY <1>3, <2>1
<1> HIDE DEF d
<1>4. CASE e.chip \in Ecus /\ e.pin \in Ports
  BY <1>1, <1>2, <1>4, <1>a DEF d, n
<1>5. CASE e.chip \in Ecus /\ e.pin \notin Ports
  BY <1>1, <1>2, <1>5, <1>a DEF d, n
<1>6. CASE e.chip \notin Ecus
  BY <1>6, <1>a DEF n
<1>7. QED BY <1>4, <1>5, <1>6

\* What the other events and the lamp's timer change on a panel.
LEMMA OtherPanelFacts ==
  ASSUME NEW p \in Panels, NEW s, NEW e
  PROVE  /\ LET n == OnUartAppended(p, e)
            IN /\ n.leds = p.leds /\ n.pins = p.pins /\ n.pwm = p.pwm /\ n.badge = p.badge
               /\ n.text = ConsoleAppend(p.text, Field(e, "data", <<>>))
         /\ LET n == OnCanStateChanged(p, s, e)
            IN /\ n.leds = p.leds /\ n.pins = p.pins /\ n.pwm = p.pwm /\ n.text = p.text
               /\ n.badge = IF e.chip \in Ecus THEN s.canState[e.chip] ELSE p.badge
         /\ LET n == Decay(p)
            IN n.leds = p.leds /\ n.pins = p.pins /\ n.pwm = p.pwm /\ n.text = p.text /\ n.badge = p.badge
BY PanelRecord DEF OnUartAppended, OnCanStateChanged, Decay

\* Nothing but an event changes a panel, its TX lamp aside.
LEMMA PanelsStay ==
  ASSUME TypeOK, [Next]_vars, ~DispatchLine, NEW c \in Chips
  PROVE  LET n == qt'.panel[c]
             p == qt.panel[c]
         IN n.leds = p.leds /\ n.pins = p.pins /\ n.pwm = p.pwm /\ n.text = p.text /\ n.badge = p.badge
<1>0. qt = [rows |-> qt.rows, filter |-> qt.filter, panel |-> qt.panel] /\ qt.panel \in [Chips -> Panels]
  BY QtTypes
<1>1. CASE TypeFilter
  <2>1. PICK ids \in Filters : qt' = OnFilterText(qt, store, ids)
    BY <1>1 DEF TypeFilter
  <2>2. qt'.panel = qt.panel
    BY <1>0, <2>1 DEF OnFilterText, Refresh
  <2>3. QED BY <2>2
<1>2. CASE Clear
  <2>1. qt'.panel = qt.panel
    BY <1>0, <1>2 DEF Clear
  <2>2. QED BY <2>1
<1>3. CASE DecayUart
  <2>1. PICK x \in Chips : qt' = [qt EXCEPT !.panel[x] = Decay(@)]
    BY <1>3 DEF DecayUart
  <2>2. qt'.panel = [qt.panel EXCEPT ![x] = Decay(qt.panel[x])]
    BY <1>0, <2>1
  <2>3. CASE x = c
    <3>1. qt'.panel[c] = Decay(qt.panel[c]) /\ qt.panel[c] \in Panels
      BY <1>0, <2>2, <2>3
    <3>2. QED BY <3>1, OtherPanelFacts
  <2>4. CASE x # c
    <3>1. qt'.panel[c] = qt.panel[c]
      BY <1>0, <2>2, <2>4
    <3>2. QED BY <3>1
  <2>5. QED BY <2>3, <2>4
<1>4. CASE ~TypeFilter /\ ~Clear /\ ~DecayUart
  BY <1>4, QtStays
<1>5. QED BY <1>1, <1>2, <1>3, <1>4

\* An end of an end is an end.
LEMMA EndOfTrans ==
  ASSUME NEW X, NEW q \in Seq(X), NEW s \in Seq(X), NEW t \in Seq(X), EndOf(t, s), EndOf(s, q)
  PROVE  EndOf(t, q)
<1>1. Len(q) \in Nat /\ Len(s) \in Nat /\ Len(t) \in Nat
  BY LenProperties
<1>2. /\ Len(t) <= Len(s) /\ \A i \in 1..Len(t) : t[i] = s[Len(s) - Len(t) + i]
      /\ Len(s) <= Len(q) /\ \A i \in 1..Len(s) : s[i] = q[Len(q) - Len(s) + i]
  BY DEF EndOf
<1>3. ASSUME NEW i \in 1..Len(t) PROVE t[i] = q[Len(q) - Len(t) + i]
  <2>1. Len(s) - Len(t) + i \in 1..Len(s)
    BY <1>1, <1>2
  <2>2. Len(q) - Len(s) + (Len(s) - Len(t) + i) = Len(q) - Len(t) + i
    BY <1>1
  <2>3. QED BY <1>2, <2>1, <2>2
<1>4. QED BY <1>1, <1>2, <1>3 DEF EndOf

\* A console's text as the end of a stream, with the bounds that ConsoleIsTail
\* gives it.
TailOf(text, stream) ==
  /\ EndOf(text, stream)
  /\ CharacterCount(text) <= ConsoleMax + ConsoleSlack
  /\ BlockCount(text) <= BlockMax
  /\ BlockCount(stream) <= BlockMax =>
       Len(text) >= IF Len(stream) < ConsoleMax THEN Len(stream) ELSE ConsoleMax - 1

\* Appending to the console keeps its text the end of the stream.
LEMMA AppendIsTail ==
  ASSUME NEW text \in Seq(Shown), NEW stream \in Seq(Shown), NEW data \in Seq(Characters), TailOf(text, stream)
  PROVE  TailOf(ConsoleAppend(text, data), stream \o Strip(data))
<1> DEFINE d == Strip(data)
           t == text \o d
           v == EvictBlocks(t)
           u == Trim(v)
           q == stream \o d
           a == Len(text)
           b == Len(stream)
           n == Len(d)
<1>0. d \in Seq(Shown)
  BY StripType
<1> HIDE DEF d
<1>1. CASE d = <<>>
  <2>1. stream \o d = stream
    BY <1>1, ConcatEmptySeq
  <2>2. ConsoleAppend(text, data) = text
    BY <1>1 DEF ConsoleAppend, d
  <2>3. QED BY <2>1, <2>2 DEF d
<1>2. CASE d # <<>>
  <2>1. ConsoleAppend(text, data) = u
    BY <1>2 DEF ConsoleAppend, d
  <2>2. t \in Seq(Shown) /\ q \in Seq(Shown)
    BY <1>0, ConcatProperties
  <2>3. Len(t) = a + n /\ Len(q) = b + n /\ a \in Nat /\ b \in Nat /\ n \in Nat
    <3>1. Len(text \o d) = Len(text) + Len(d) /\ Len(stream \o d) = Len(stream) + Len(d)
      BY <1>0, ConcatProperties
    <3>2. QED BY <1>0, <3>1, LenProperties
  <2>4. EndOf(text, stream) /\ a <= b
    BY DEF TailOf, EndOf
  <2>5. EndOf(t, q)
    BY <1>0, <2>4, EndOfConcat
  <2>a. Cardinality(Ends(stream)) <= Cardinality(Ends(q)) /\ Cardinality(Ends(stream)) \in Nat /\ Cardinality(Ends(q)) \in Nat
    <3>1. Cardinality(Ends(stream)) <= Cardinality(Ends(stream \o d))
      BY <1>0, EndsOfConcat
    <3>2. QED BY <2>2, <3>1, EndsFacts
  <2> HIDE DEF t, q
  <2>6. /\ v \in Seq(Shown) /\ EndOf(v, t) /\ BlockCount(v) <= BlockMax
        /\ BlockCount(t) <= BlockMax => v = t
    BY <2>2, EvictFacts
  <2> HIDE DEF v
  <2>7. /\ u \in Seq(Shown) /\ EndOf(u, v) /\ CharacterCount(u) <= ConsoleMax + ConsoleSlack
        /\ Len(u) >= IF Len(v) < ConsoleMax THEN Len(v) ELSE ConsoleMax - 1
    BY <2>6, TrimFacts
  <2> HIDE DEF u
  <2>8. EndOf(u, q)
    <3>1. EndOf(u, t)
      BY <2>2, <2>6, <2>7, EndOfTrans
    <3>2. QED BY <2>2, <2>5, <2>7, <3>1, EndOfTrans
  <2>b. BlockMax \in Nat /\ ConsoleMax \in Nat /\ 1 <= ConsoleMax
    BY ConsoleAssumption
  <2>9. BlockCount(u) <= BlockMax
    <3>1. Cardinality(Ends(u)) <= Cardinality(Ends(v)) /\ Cardinality(Ends(u)) \in Nat /\ Cardinality(Ends(v)) \in Nat
      BY <2>6, <2>7, EndsOfEnd, EndsFacts
    <3>2. QED BY <2>6, <2>b, <3>1 DEF BlockCount
  <2>10. ASSUME BlockCount(q) <= BlockMax
         PROVE  Len(u) >= IF Len(q) < ConsoleMax THEN Len(q) ELSE ConsoleMax - 1
    <3>1. Cardinality(Ends(t)) <= Cardinality(Ends(q)) /\ Cardinality(Ends(t)) \in Nat
      BY <2>2, <2>5, EndsOfEnd, EndsFacts
    <3>2. BlockCount(t) <= BlockMax /\ BlockCount(stream) <= BlockMax
      BY <2>10, <2>a, <2>b, <3>1 DEF BlockCount
    <3>3. v = t
      BY <2>6, <3>2
    <3>4. a >= IF b < ConsoleMax THEN b ELSE ConsoleMax - 1
      BY <3>2 DEF TailOf
    <3>5. Len(u) >= IF a + n < ConsoleMax THEN a + n ELSE ConsoleMax - 1
      BY <2>3, <2>7, <3>3
    <3>6. Len(u) \in Nat
      BY <2>7, LenProperties
    <3> HIDE DEF a, b, n
    <3>7. Len(u) >= IF b + n < ConsoleMax THEN b + n ELSE ConsoleMax - 1
      BY <2>3, <2>4, <2>b, <3>4, <3>5, <3>6
    <3>8. QED BY <2>3, <3>7
  <2>11. QED BY <2>1, <2>7, <2>8, <2>9, <2>10 DEF TailOf, q, d
<1>3. QED BY <1>1, <1>2

Writings(c) == [i \in DOMAIN seen |-> Written(c, seen[i])]

\* What a chip wrote can be shown.
LEMMA WrittenType ==
  ASSUME NEW c, NEW e \in Arrivals
  PROVE  Written(c, e) \in Seq(Shown)
<1>1. CASE e.t = "uart" /\ Complete(e) /\ e.chip = c
  <2>1. Field(e, "data", <<>>) \in Seq(Characters)
    BY <1>1, ArrivalFacts
  <2>2. QED BY <1>1, <2>1, StripType DEF Written
<1>2. CASE ~(e.t = "uart" /\ Complete(e) /\ e.chip = c)
  BY <1>2 DEF Written
<1>3. QED BY <1>1, <1>2

\* And so does all of it, one sequence for each arrival.
LEMMA WritingsType ==
  ASSUME TypeOK, NEW c
  PROVE  Writings(c) \in Seq(Seq(Shown)) /\ Len(Writings(c)) = Len(seen)
<1>1. seen \in Seq(Arrivals) /\ DOMAIN seen = 1..Len(seen) /\ Len(seen) \in Nat
  BY StoreTypes, LenProperties
<1>2. \A i \in DOMAIN seen : Written(c, seen[i]) \in Seq(Shown)
  BY <1>1, ElementOfSeq, WrittenType
<1>3. Writings(c) \in [1..Len(seen) -> Seq(Shown)]
  BY <1>1, <1>2 DEF Writings
<1>4. QED BY <1>1, <1>3, FunctionIsSeq

\* The stream with one arrival more.
LEMMA StreamAppend ==
  ASSUME TypeOK, NEW c, NEW e \in Arrivals, seen' = Append(seen, e)
  PROVE  Stream(c) \in Seq(Shown) /\ Stream(c)' = Stream(c) \o Written(c, e)
<1> DEFINE w == Writings(c)
           x == Written(c, e)
<1>1. seen \in Seq(Arrivals) /\ DOMAIN seen = 1..Len(seen) /\ Len(seen) \in Nat
  BY StoreTypes, LenProperties
<1>2. /\ seen' \in Seq(Arrivals) /\ DOMAIN seen' = 1..(Len(seen) + 1) /\ seen'[Len(seen) + 1] = e
      /\ \A i \in 1..Len(seen) : seen'[i] = seen[i]
  BY <1>1, AppendProperties, LenProperties
<1>3. w \in Seq(Seq(Shown)) /\ Len(w) = Len(seen) /\ x \in Seq(Shown)
  BY WritingsType, WrittenType
<1>4. Writings(c)' = Append(w, x)
  <2> DEFINE n == Writings(c)'
  <2>1. n = [i \in DOMAIN seen' |-> Written(c, seen'[i])]
    BY DEF Writings, Written
  <2>2. \A i \in DOMAIN seen' : Written(c, seen'[i]) \in Seq(Shown)
    BY <1>2, ElementOfSeq, WrittenType
  <2>3. n \in [1..(Len(seen) + 1) -> Seq(Shown)]
    BY <1>2, <2>1, <2>2
  <2>4. n \in Seq(Seq(Shown)) /\ Len(n) = Len(seen) + 1
    <3>1. Len(seen) + 1 \in Nat
      BY <1>1
    <3> HIDE DEF n
    <3>2. QED BY <2>3, <3>1, FunctionIsSeq
  <2> HIDE DEF x
  <2>5. \A i \in 1..Len(seen) : w[i] = Written(c, seen[i])
    BY <1>1 DEF Writings
  <2> HIDE DEF n, w
  <2>6. /\ Append(w, x) \in Seq(Seq(Shown)) /\ Len(Append(w, x)) = Len(w) + 1 /\ Append(w, x)[Len(w) + 1] = x
        /\ \A i \in 1..Len(w) : Append(w, x)[i] = w[i]
    BY <1>3, AppendProperties
  <2>7. \A i \in 1..(Len(seen) + 1) : n[i] = Append(w, x)[i]
    <3>1. ASSUME NEW i \in 1..(Len(seen) + 1) PROVE n[i] = Append(w, x)[i]
      <4>1. n[i] = Written(c, seen'[i])
        BY <1>2, <2>1
      <4>2. CASE i = Len(seen) + 1
        BY <1>2, <1>3, <2>6, <4>1, <4>2 DEF x
      <4>3. CASE i # Len(seen) + 1
        <5>1. i \in 1..Len(seen)
          BY <1>1, <4>3
        <5>2. QED BY <1>2, <1>3, <2>5, <2>6, <4>1, <5>1
      <4>4. QED BY <4>2, <4>3
    <3>2. QED BY <3>1
  <2>8. n = Append(w, x)
    BY <1>3, <2>4, <2>6, <2>7, SeqEqual
  <2>9. QED BY <2>8 DEF n
<1>5. Stream(c) = FlattenSeq(w) /\ Stream(c)' = FlattenSeq(Writings(c)')
  BY DEF Stream, Writings
<1> HIDE DEF w, x
<1>6. FlattenSeq(w) \in Seq(Shown) /\ FlattenSeq(Append(w, x)) = FlattenSeq(w) \o x
  BY <1>3, FlattenAppend
<1>7. QED BY <1>4, <1>5, <1>6 DEF x

\* The stream can be shown.
LEMMA StreamType ==
  ASSUME TypeOK, NEW c
  PROVE  Stream(c) \in Seq(Shown)
<1>1. Writings(c) \in Seq(Seq(Shown)) /\ <<>> \in Seq(Shown)
  BY WritingsType
<1>2. FlattenSeq(Writings(c)) \in Seq(Shown)
  BY <1>1, FlattenAppend
<1>3. QED BY <1>2 DEF Stream, Writings

ConsoleInv == app = "widgets" => \A c \in Chips : TailOf(qt.panel[c].text, Stream(c))

\* The invariant gives ConsoleIsTail.
LEMMA ConsoleInvIsTail ==
  ASSUME TypeOK, ConsoleInv
  PROVE  ConsoleIsTail
<1> SUFFICES ASSUME app = "widgets", NEW c \in Chips
             PROVE  LET text == qt.panel[c].text
                    IN /\ text = Newest(Stream(c), Len(text))
                       /\ CharacterCount(text) <= ConsoleMax + ConsoleSlack
                       /\ BlockCount(text) <= BlockMax
                       /\ BlockCount(Stream(c)) <= BlockMax =>
                            Len(text) >= IF Len(Stream(c)) < ConsoleMax THEN Len(Stream(c)) ELSE ConsoleMax - 1
  BY DEF ConsoleIsTail
<1>1. TailOf(qt.panel[c].text, Stream(c))
  BY DEF ConsoleInv
<1>2. qt.panel[c].text \in Seq(Shown) /\ Stream(c) \in Seq(Shown)
  BY QtTypes, PanelRecord, StreamType
<1>3. qt.panel[c].text = Newest(Stream(c), Len(qt.panel[c].text))
  BY <1>1, <1>2, EndIsNewest DEF TailOf
<1>4. QED BY <1>1, <1>3 DEF TailOf

\* It holds initially.
LEMMA ConsoleInit == Init => ConsoleInv
<1> SUFFICES ASSUME Init, NEW c \in Chips PROVE TailOf(qt.panel[c].text, Stream(c))
  BY DEF ConsoleInv
<1>1. qt.panel[c].text = <<>> /\ seen = <<>>
  BY DEF Init, QtInit, PanelInit
<1>2. Stream(c) = <<>>
  <2>1. [i \in DOMAIN seen |-> Written(c, seen[i])] = <<>>
    BY <1>1
  <2>2. QED BY <2>1, FlattenEmpty DEF Stream
<1>3. <<>> \in Seq({}) /\ Len(<<>>) = 0
  OBVIOUS
<1>4. EndOf(<<>>, <<>>)
  BY <1>3, EndOfSelf
<1>5. BlockCount(<<>>) = 1
  <2>1. Ends(<<>>) = {}
    BY DEF Ends
  <2>2. Cardinality({}) = 0
    BY FS_EmptySet
  <2>3. Cardinality(Ends(<<>>)) = 0
    BY <2>1, <2>2, Zenon
  <2>4. BlockCount(<<>>) = 0 + 1
    BY <2>3, Zenon DEF BlockCount
  <2>5. QED BY <2>4
<1>6. {ConsoleMax, ConsoleSlack, BlockMax} \subseteq Nat /\ 1 <= ConsoleMax /\ 1 <= BlockMax /\ 1 <= ConsoleSlack
  BY ConsoleAssumption
<1>7. QED BY <1>1, <1>2, <1>3, <1>4, <1>5, <1>6 DEF TailOf, CharacterCount

\* Every step keeps it.
LEMMA ConsoleStep ==
  ASSUME TypeOK, ConsoleInv, [Next]_vars
  PROVE  ConsoleInv'
<1>1. CASE DispatchLine
  <2>1. PICK e \in Arrivals : Delivers(e)
    BY <1>1, DeliveryExists
  <2>a. app' = app /\ seen' = Append(seen, e)
    BY <2>1 DEF Delivers
  <2>b. (Complete(e) => Dispatch(e)) /\ (~Complete(e) => qt' = qt)
    BY <2>1 DEF Delivers, uiVars
  <2>2. app' = app /\ seen' = Append(seen, e)
        /\ (app = "widgets" => qt' = IF Complete(e) THEN QtHears(qt, store', e) ELSE qt)
    BY <2>a, <2>b DEF Dispatch
  <2> SUFFICES ASSUME app = "widgets", NEW c \in Chips
               PROVE  TailOf(qt'.panel[c].text, Stream(c)')
    BY <2>2 DEF ConsoleInv, TailOf, EndOf, CharacterCount, BlockCount, Ends
  <2> DEFINE p == qt.panel[c]
             S == Stream(c)
  <2>3. TailOf(p.text, S) /\ p \in Panels /\ p.text \in Seq(Shown)
    BY QtTypes, PanelRecord DEF ConsoleInv
  <2>4. S \in Seq(Shown) /\ Stream(c)' = S \o Written(c, e)
    BY <2>2, StreamAppend
  <2> HIDE DEF S
  <2>5. CASE e.t = "uart" /\ Complete(e) /\ e.chip = c
    <3> DEFINE data == Field(e, "data", <<>>)
    <3>1. data \in Seq(Characters)
      BY <2>5, ArrivalFacts
    <3>2. Written(c, e) = Strip(data)
      BY <2>5 DEF Written
    <3>3. qt'.panel[c] = PanelHears(p, store', e)
      BY <2>2, <2>5, PanelOf
    <3>4. PanelHears(p, store', e) = OnUartAppended(p, e)
      BY <2>5 DEF PanelHears
    <3>5. qt'.panel[c].text = ConsoleAppend(p.text, data)
      <4>1. OnUartAppended(p, e).text = ConsoleAppend(p.text, data)
        BY <2>3, OtherPanelFacts, Zenon
      <4>2. QED BY <3>3, <3>4, <4>1, Zenon
    <3> HIDE DEF data
    <3>6. TailOf(ConsoleAppend(p.text, data), S \o Strip(data))
      BY <2>3, <2>4, <3>1, AppendIsTail
    <3>7. QED BY <2>4, <3>2, <3>5, <3>6
  <2>6. CASE ~(e.t = "uart" /\ Complete(e) /\ e.chip = c)
    <3>1. Written(c, e) = <<>>
      BY <2>6 DEF Written
    <3>2. Stream(c)' = S
      BY <2>4, <3>1, ConcatEmptySeq
    <3>3. qt'.panel[c].text = p.text
      <4>1. CASE ~Complete(e)
        BY <2>2, <4>1
      <4>2. CASE Complete(e) /\ ~(e.t \in {"pin", "pwm", "uart", "can_state"} /\ e.chip = c)
        BY <2>2, <4>2, PanelOf
      <4>3. CASE Complete(e) /\ e.t = "pin" /\ e.chip = c
        <5>1. qt'.panel[c] = OnPinChanged(p, e)
          BY <2>2, <4>3, PanelOf DEF PanelHears
        <5>2. OnPinChanged(p, e).text = p.text
          BY <2>3, PinFacts, Zenon
        <5>3. QED BY <5>1, <5>2, Zenon
      <4>4. CASE Complete(e) /\ e.t = "pwm" /\ e.chip = c
        <5>1. qt'.panel[c] = OnPwmChanged(p, e)
          BY <2>2, <4>4, PanelOf DEF PanelHears
        <5>2. OnPwmChanged(p, e).text = p.text
          BY <2>3, PwmFacts, Zenon
        <5>3. QED BY <5>1, <5>2, Zenon
      <4>5. CASE Complete(e) /\ e.t = "can_state" /\ e.chip = c
        <5>1. qt'.panel[c] = OnCanStateChanged(p, store', e)
          BY <2>2, <4>5, PanelOf DEF PanelHears
        <5>2. QED BY <2>3, <5>1, OtherPanelFacts
      <4>6. QED BY <2>6, <4>1, <4>2, <4>3, <4>4, <4>5
    <3>4. QED BY <2>3, <3>2, <3>3
  <2>7. QED BY <2>5, <2>6
<1>2. CASE ~DispatchLine
  <2>1. app' = app /\ seen' = seen
    BY <1>2, StoreStays
  <2>2. \A c \in Chips : qt'.panel[c].text = qt.panel[c].text
    BY <1>2, PanelsStay
  <2>3. \A c : Stream(c)' = Stream(c)
    BY <2>1 DEF Stream, Written
  <2>4. ASSUME app' = "widgets", NEW c \in Chips PROVE TailOf(qt'.panel[c].text, Stream(c)')
    BY <2>1, <2>2, <2>3, <2>4 DEF ConsoleInv
  <2>5. QED BY <2>4 DEF ConsoleInv, TailOf, EndOf, CharacterCount, BlockCount, Ends
<1>3. QED BY <1>1, <1>2

\* A serial console shows the end of what its chip wrote and never less than
\* its two bounds allow (serial_console.py), for escape sequences that arrive in
\* one event each.
THEOREM ConsoleIsTailHolds == Spec => []ConsoleIsTail
<1>1. Init => ConsoleInv
  BY ConsoleInit
<1>2. TypeOK /\ ConsoleInv /\ [Next]_vars => ConsoleInv'
  BY ConsoleStep
<1>3. TypeOK /\ ConsoleInv => ConsoleIsTail
  BY ConsoleInvIsTail
<1>4. QED BY <1>1, <1>2, <1>3, TypeCorrect, PTL DEF Spec

\* ------------------------------------------------------------ PanelsFollow

LedNames == {"dout0", "dout1", "led", "buzz"}

\* What drives an LED.
LEMMA LightsFacts ==
  ASSUME NEW c, NEW l \in LedNames, NEW e
  PROVE  Lights(c, l, e) <=>
           /\ e.chip = c
           /\ \/ e.t = "pin" /\ e.pin \in DOMAIN PinLed(c) /\ l = PinLed(c)[e.pin]
              \/ e.t = "pwm" /\ e.pin \in DOMAIN PwmLed(c) /\ l = PwmLed(c)[e.pin]
<1>1. l # ""
  BY DEF LedNames
<1>2. CASE e.t = "pin"
  BY <1>1, <1>2 DEF Lights, Field
<1>3. CASE e.t = "pwm"
  BY <1>1, <1>3 DEF Lights, Field
<1>4. CASE e.t \notin {"pin", "pwm"}
  BY <1>4 DEF Lights
<1>5. QED BY <1>2, <1>3, <1>4

\* Only the ECU panels have LEDs for PWM.
LEMMA OnlyEcusLightPwm ==
  ASSUME NEW c, c \notin Ecus
  PROVE  DOMAIN PwmLed(c) = {}
BY DEF PwmLed, NoneYet

\* What a complete event does to the LEDs of a panel.
LEMMA LedFacts ==
  ASSUME NEW p \in Panels, NEW e \in Arrivals, Complete(e), NEW s, NEW l \in LedNames
  PROVE  e.t \in {"pin", "pwm", "uart", "can_state"} =>
           PanelHears(p, s, e).leds[l] = IF Lights(e.chip, l, e) THEN Brightness(e) ELSE p.leds[l]
<1> DEFINE c == e.chip
<1>0. Full \in Nat /\ p.leds \in [LedNames -> 0..Full]
  BY PanelRecord DEF Full, LedNames
<1>1. CASE e.t = "pin"
  <2> DEFINE b == Clamp(IF e.val # 0 THEN Full ELSE 0, Full)
             n == OnPinChanged(p, e).leds
  <2>1. PanelHears(p, s, e).leds = n
    BY <1>1, Zenon DEF PanelHears
  <2>2. n = IF e.pin \in DOMAIN PinLed(c) THEN [p.leds EXCEPT ![PinLed(c)[e.pin]] = b] ELSE p.leds
    BY PinFacts, Zenon
  <2>3. b = Brightness(e)
    BY <1>1 DEF Brightness, Clamp, Full
  <2> HIDE DEF n, b
  <2>4. e.pin \in DOMAIN PinLed(c) => PinLed(c)[e.pin] \in LedNames
    BY LedTables DEF LedNames
  <2>5. Lights(c, l, e) <=> e.pin \in DOMAIN PinLed(c) /\ l = PinLed(c)[e.pin]
    BY <1>1, LightsFacts
  <2>6. n[l] = IF Lights(c, l, e) THEN b ELSE p.leds[l]
    BY <1>0, <2>2, <2>4, <2>5
  <2>7. QED BY <2>1, <2>3, <2>6
<1>2. CASE e.t = "pwm"
  <2> DEFINE b == Clamp(e.duty, Full)
             n == OnPwmChanged(p, e).leds
  <2>1. PanelHears(p, s, e).leds = n
    BY <1>2, Zenon DEF PanelHears
  <2>2. n = IF c \in Ecus /\ e.pin \in DOMAIN PwmLed(c) THEN [p.leds EXCEPT ![PwmLed(c)[e.pin]] = b] ELSE p.leds
    BY PwmFacts, Zenon
  <2>3. b = Brightness(e)
    BY <1>2 DEF Brightness
  <2> HIDE DEF n, b
  <2>4. e.pin \in DOMAIN PwmLed(c) => PwmLed(c)[e.pin] \in LedNames /\ c \in Ecus
    BY LedTables, OnlyEcusLightPwm DEF LedNames
  <2>5. Lights(c, l, e) <=> e.pin \in DOMAIN PwmLed(c) /\ l = PwmLed(c)[e.pin]
    BY <1>2, LightsFacts
  <2>6. n[l] = IF Lights(c, l, e) THEN b ELSE p.leds[l]
    BY <1>0, <2>2, <2>4, <2>5
  <2>7. QED BY <2>1, <2>3, <2>6
<1>3. CASE e.t = "uart"
  <2>1. OnUartAppended(p, e).leds = p.leds
    BY OtherPanelFacts, Zenon
  <2>2. ~Lights(c, l, e)
    BY <1>3 DEF Lights
  <2>3. QED BY <1>3, <2>1, <2>2 DEF PanelHears
<1>4. CASE e.t = "can_state"
  <2>1. OnCanStateChanged(p, s, e).leds = p.leds
    BY PanelRecord DEF OnCanStateChanged
  <2>2. ~Lights(c, l, e)
    BY <1>4 DEF Lights
  <2>3. QED BY <1>4, <2>1, <2>2 DEF PanelHears
<1>5. QED BY <1>1, <1>2, <1>3, <1>4

Lit(q, c, l) == {i \in HeardIn(q) : Lights(c, l, q[i])}

LedsNewest(leds, c, q) ==
  \A l \in LedNames :
    /\ Lit(q, c, l) = {} => leds[l] = 0
    /\ \A i \in Lit(q, c, l) : (\A j \in Lit(q, c, l) : j <= i) => leds[l] = Brightness(q[i])

\* An arrival more keeps every LED at the newest event that drives it.
LEMMA LedsAppend ==
  ASSUME NEW q \in Seq(Arrivals), NEW e \in Arrivals, NEW c, NEW leds, NEW n,
         \A l \in LedNames : n[l] = IF Complete(e) /\ Lights(c, l, e) THEN Brightness(e) ELSE leds[l],
         LedsNewest(leds, c, q)
  PROVE  LedsNewest(n, c, Append(q, e))
<1>h1. \A i \in HeardIn(q) : Append(q, e)[i] = q[i]
  BY HeardAppend, ZenonT(40)
<1>h2. Append(q, e)[Len(q) + 1] = e
  BY HeardAppend, ZenonT(40)
<1>h3. HeardIn(Append(q, e)) = HeardIn(q) \cup (IF Complete(e) THEN {Len(q) + 1} ELSE {})
  BY HeardAppend
<1>h4. \A i \in HeardIn(q) : i < Len(q) + 1
  BY HeardAppend
<1>h5. \A i \in HeardIn(q) : i \in Nat
  BY HeardAppend
<1>h6. Len(q) \in Nat
  BY HeardAppend
<1> DEFINE r == Append(q, e)
           m == Len(q) + 1
<1>h7. r[m] = e /\ HeardIn(r) = HeardIn(q) \cup (IF Complete(e) THEN {m} ELSE {})
  BY <1>h2, <1>h3, Zenon
<1>h8. \A i \in HeardIn(q) : r[i] = q[i]
  BY <1>h1, Zenon
<1>h9. m \in Nat /\ \A i \in HeardIn(q) : i < m
  BY <1>h4, <1>h6
<1> HIDE DEF r, m
<1>1. /\ \A i \in HeardIn(q) : r[i] = q[i] /\ i < m /\ i \in Nat
      /\ r[m] = e /\ m \in Nat
      /\ HeardIn(r) = HeardIn(q) \cup (IF Complete(e) THEN {m} ELSE {})
  BY <1>h5, <1>h7, <1>h8, <1>h9
<1> SUFFICES ASSUME NEW l \in LedNames
             PROVE  /\ Lit(r, c, l) = {} => n[l] = 0
                    /\ \A i \in Lit(r, c, l) : (\A j \in Lit(r, c, l) : j <= i) => n[l] = Brightness(r[i])
  BY DEF LedsNewest, r
<1>2. CASE Complete(e) /\ Lights(c, l, e)
  <2>1. n[l] = Brightness(e)
    BY <1>2
  <2>2. m \in Lit(r, c, l)
    BY <1>1, <1>2 DEF Lit
  <2>3. ASSUME NEW i \in Lit(r, c, l), \A j \in Lit(r, c, l) : j <= i PROVE i = m
    <3>1. m <= i
      BY <2>2, <2>3
    <3>2. i \in HeardIn(q) \/ i = m
      BY <1>1 DEF Lit
    <3>3. CASE i \in HeardIn(q)
      <4>1. i < m /\ i \in Nat
        BY <1>1, <3>3
      <4>2. QED BY <1>1, <3>1, <4>1
    <3>4. QED BY <3>2, <3>3
  <2>4. QED BY <1>1, <2>1, <2>2, <2>3
<1>3. CASE ~(Complete(e) /\ Lights(c, l, e))
  <2>1. n[l] = leds[l]
    BY <1>3
  <2>2. Lit(r, c, l) = Lit(q, c, l)
    BY <1>1, <1>3 DEF Lit
  <2>3. \A i \in Lit(q, c, l) : r[i] = q[i]
    BY <1>1 DEF Lit
  <2>4. QED BY <2>1, <2>2, <2>3 DEF LedsNewest
<1>4. QED BY <1>2, <1>3

PinsFollow(p, d) == p.pins = [x \in DOMAIN d \cap Ports |-> d[x] # 0]
PwmFollows(p, d) == p.pwm = [x \in DOMAIN d \cap Ports |-> Clamp(d[x], Full)]

PanelInv(p, s, c, q) ==
  /\ PinsFollow(p, s.pins[c])
  /\ c \in Ecus => PwmFollows(p, s.pwm[c]) /\ p.badge = s.canState[c]
  /\ LedsNewest(p.leds, c, q)

PanelsInv == app = "widgets" => \A c \in Chips : PanelInv(qt.panel[c], store, c, seen)

\* A pin of the store, and of the Nano.
LEMMA PinsPut ==
  ASSUME NEW p, NEW d \in Dict(Values("pin"), Int), PinsFollow(p, d), NEW k, NEW v \in Int, NEW n,
         n.pins = IF k \in Ports THEN Put(p.pins, k, v # 0) ELSE p.pins
  PROVE  PinsFollow(n, Put(d, k, v))
<1> DEFINE G == [i \in Int |-> i # 0]
           P == Put(d, k, v)
<1>1. \A x \in DOMAIN d : d[x] \in Int
  BY DictFacts
<1>2. p.pins = [x \in DOMAIN d \cap Ports |-> G[d[x]]]
  BY <1>1 DEF PinsFollow
<1>3. G[v] = (v # 0)
  OBVIOUS
<1>0. G[v] \in BOOLEAN /\ \A i \in Int : G[i] \in BOOLEAN
  BY DEF Clamp, Full
<1>4. DOMAIN P = DOMAIN d \cup {k} /\ \A x \in DOMAIN d \cup {k} : P[x] = IF x = k THEN v ELSE d[x]
  BY DEF Put
<1>5. \A x \in DOMAIN P : P[x] \in Int
  BY <1>1, <1>4
<1>6. \A x \in DOMAIN P \cap Ports : G[P[x]] = (P[x] # 0)
  BY <1>5
<1> HIDE DEF G
<1> DEFINE m == p.pins
           N == n.pins
<1> HIDE DEF m
<1>a. m \in [DOMAIN d \cap Ports -> BOOLEAN] /\ \A x \in DOMAIN d \cap Ports : m[x] = G[d[x]]
  BY <1>0, <1>1, <1>2 DEF m
<1>b. N = IF k \in Ports THEN Put(m, k, G[v]) ELSE m
  BY <1>3 DEF m
<1> HIDE DEF N, P
<1>7. N \in [DOMAIN P \cap Ports -> BOOLEAN] /\ \A x \in DOMAIN P \cap Ports : N[x] = G[P[x]]
  <2>1. CASE k \in Ports
    <3>1. N = [x \in DOMAIN m \cup {k} |-> IF x = k THEN G[v] ELSE m[x]]
      BY <1>b, <2>1 DEF Put
    <3>2. DOMAIN P \cap Ports = DOMAIN m \cup {k}
      BY <1>4, <1>a, <2>1
    <3>3. QED BY <1>0, <1>4, <1>a, <3>1, <3>2
  <2>2. CASE k \notin Ports
    <3>1. N = m /\ DOMAIN P \cap Ports = DOMAIN d \cap Ports
      BY <1>4, <1>b, <2>2
    <3>2. QED BY <1>4, <1>a, <2>2, <3>1
  <2>3. QED BY <2>1, <2>2
<1>8. N = [x \in DOMAIN P \cap Ports |-> P[x] # 0]
  BY <1>6, <1>7
<1>9. n.pins = [x \in DOMAIN P \cap Ports |-> P[x] # 0]
  BY <1>8 DEF N
<1>10. QED BY <1>9 DEF PinsFollow, P

\* A duty of the store, and of the Nano.
LEMMA PwmPut ==
  ASSUME NEW p, NEW d \in Dict(Values("pin"), Int), PwmFollows(p, d), NEW k, NEW v \in Int, NEW n,
         n.pwm = IF k \in Ports THEN Put(p.pwm, k, Clamp(v, Full)) ELSE p.pwm
  PROVE  PwmFollows(n, Put(d, k, v))
<1> DEFINE G == [i \in Int |-> Clamp(i, Full)]
           P == Put(d, k, v)
<1>1. \A x \in DOMAIN d : d[x] \in Int
  BY DictFacts
<1>2. p.pwm = [x \in DOMAIN d \cap Ports |-> G[d[x]]]
  BY <1>1 DEF PwmFollows
<1>3. G[v] = Clamp(v, Full)
  OBVIOUS
<1>0. G[v] \in 0..Full /\ \A i \in Int : G[i] \in 0..Full
  BY DEF Clamp, Full
<1>4. DOMAIN P = DOMAIN d \cup {k} /\ \A x \in DOMAIN d \cup {k} : P[x] = IF x = k THEN v ELSE d[x]
  BY DEF Put
<1>5. \A x \in DOMAIN P : P[x] \in Int
  BY <1>1, <1>4
<1>6. \A x \in DOMAIN P \cap Ports : G[P[x]] = Clamp(P[x], Full)
  BY <1>5
<1> HIDE DEF G
<1> DEFINE m == p.pwm
           N == n.pwm
<1> HIDE DEF m
<1>a. m \in [DOMAIN d \cap Ports -> 0..Full] /\ \A x \in DOMAIN d \cap Ports : m[x] = G[d[x]]
  BY <1>0, <1>1, <1>2 DEF m
<1>b. N = IF k \in Ports THEN Put(m, k, G[v]) ELSE m
  BY <1>3 DEF m
<1> HIDE DEF N, P
<1>7. N \in [DOMAIN P \cap Ports -> 0..Full] /\ \A x \in DOMAIN P \cap Ports : N[x] = G[P[x]]
  <2>1. CASE k \in Ports
    <3>1. N = [x \in DOMAIN m \cup {k} |-> IF x = k THEN G[v] ELSE m[x]]
      BY <1>b, <2>1 DEF Put
    <3>2. DOMAIN P \cap Ports = DOMAIN m \cup {k}
      BY <1>4, <1>a, <2>1
    <3>3. QED BY <1>0, <1>4, <1>a, <3>1, <3>2
  <2>2. CASE k \notin Ports
    <3>1. N = m /\ DOMAIN P \cap Ports = DOMAIN d \cap Ports
      BY <1>4, <1>b, <2>2
    <3>2. QED BY <1>4, <1>a, <2>2, <3>1
  <2>3. QED BY <2>1, <2>2
<1>8. N = [x \in DOMAIN P \cap Ports |-> Clamp(P[x], Full)]
  BY <1>6, <1>7
<1>9. n.pwm = [x \in DOMAIN P \cap Ports |-> Clamp(P[x], Full)]
  BY <1>8 DEF N
<1>10. QED BY <1>9 DEF PwmFollows, P

\* One panel and one complete event.
LEMMA PanelDelivery ==
  ASSUME NEW p \in Panels, NEW s \in Stores, NEW q \in Seq(Arrivals), NEW c \in Chips, PanelInv(p, s, c, q),
         NEW e \in Arrivals, Complete(e), NEW n,
         n = IF e.t \in {"pin", "pwm", "uart", "can_state"} /\ e.chip = c THEN PanelHears(p, Update(s, e), e) ELSE p
  PROVE  PanelInv(n, Update(s, e), c, Append(q, e))
<1> DEFINE r == Update(s, e)
<1>1. /\ PinsFollow(p, s.pins[c]) /\ LedsNewest(p.leds, c, q)
      /\ c \in Ecus => PwmFollows(p, s.pwm[c]) /\ p.badge = s.canState[c]
  BY DEF PanelInv
<1>a. r.pins = IF e.t = "pin" THEN [s.pins EXCEPT ![e.chip] = Put(@, e.pin, e.val)] ELSE s.pins
  BY UpdateParts
<1>b. r.pwm = IF e.t = "pwm" THEN [s.pwm EXCEPT ![e.chip] = Put(@, e.pin, e.duty)] ELSE s.pwm
  BY UpdateParts
<1>c. r.canState = IF e.t = "can_state" THEN [s.canState EXCEPT ![e.chip] = StateOf(e)] ELSE s.canState
  BY UpdateParts DEF StateOf
<1>d. s.canState \in [Chips -> CanStates]
  BY DEF Stores
<1> HIDE DEF r
<1>2. /\ r.pins = IF e.t = "pin" THEN [s.pins EXCEPT ![e.chip] = Put(@, e.pin, e.val)] ELSE s.pins
      /\ r.pwm = IF e.t = "pwm" THEN [s.pwm EXCEPT ![e.chip] = Put(@, e.pin, e.duty)] ELSE s.pwm
      /\ e.t # "can_state" => r.canState = s.canState
      /\ \A x \in Chips : x # e.chip => r.canState[x] = s.canState[x]
  BY <1>a, <1>b, <1>c, <1>d
<1>3. s.pins \in [Chips -> Dict(Values("pin"), Int)] /\ s.pwm \in [Chips -> Dict(Values("pin"), Int)]
  BY DEF Stores
<1>4. /\ e.t \in {"pin", "pwm", "uart", "can_state"} => e.chip \in Chips
      /\ e.t = "pin" => e.val \in Int
      /\ e.t = "pwm" => e.duty \in Int
  BY ArrivalFacts
<1>5. LedsNewest(n.leds, c, Append(q, e))
  <2>1. \A l \in LedNames : n.leds[l] = IF Complete(e) /\ Lights(c, l, e) THEN Brightness(e) ELSE p.leds[l]
    <3>1. CASE e.t \in {"pin", "pwm", "uart", "can_state"} /\ e.chip = c
      BY <3>1, LedFacts
    <3>2. CASE ~(e.t \in {"pin", "pwm", "uart", "can_state"} /\ e.chip = c)
      <4>1. n = p
        BY <3>2
      <4>2. \A l : ~Lights(c, l, e)
        BY <3>2 DEF Lights
      <4>3. QED BY <4>1, <4>2
    <3>3. QED BY <3>1, <3>2
  <2> DEFINE leds == n.leds
             old == p.leds
  <2>2. (\A l \in LedNames : leds[l] = IF Complete(e) /\ Lights(c, l, e) THEN Brightness(e) ELSE old[l]) /\ LedsNewest(old, c, q)
    BY <1>1, <2>1
  <2> HIDE DEF leds, old
  <2>3. LedsNewest(leds, c, Append(q, e))
    BY <2>2, LedsAppend
  <2>4. QED BY <2>3 DEF leds
<1>6. CASE e.t = "pin" /\ e.chip = c
  <2>1. n = OnPinChanged(p, e)
    BY <1>6 DEF PanelHears
  <2>2. n.pwm = p.pwm /\ n.badge = p.badge
    <3>1. OnPinChanged(p, e).pwm = p.pwm /\ OnPinChanged(p, e).badge = p.badge
      BY PinFacts, Zenon
    <3>2. QED BY <2>1, <3>1, Zenon
  <2>3. n.pins = IF e.pin \in Ports THEN Put(p.pins, e.pin, e.val # 0) ELSE p.pins
    <3>1. OnPinChanged(p, e).pins = IF e.pin \in Ports THEN Put(p.pins, e.pin, e.val # 0) ELSE p.pins
      BY PinFacts
    <3>2. QED BY <2>1, <3>1
  <2>4. r.pins[c] = Put(s.pins[c], e.pin, e.val) /\ r.pwm = s.pwm /\ r.canState = s.canState
    BY <1>2, <1>3, <1>6
  <2> DEFINE d == s.pins[c]
             k == e.pin
             v == e.val
  <2>5. d \in Dict(Values("pin"), Int) /\ v \in Int /\ PinsFollow(p, d) /\ n.pins = IF k \in Ports THEN Put(p.pins, k, v # 0) ELSE p.pins
    BY <1>1, <1>3, <1>4, <1>6, <2>3
  <2> HIDE DEF d, k, v
  <2>6. PinsFollow(n, Put(d, k, v))
    BY <2>5, PinsPut
  <2>7. QED BY <1>1, <1>5, <2>2, <2>4, <2>6 DEF PanelInv, PwmFollows, d, k, v, r
<1>7. CASE e.t = "pwm" /\ e.chip = c
  <2>1. n = OnPwmChanged(p, e)
    BY <1>7 DEF PanelHears
  <2>2. n.pins = p.pins /\ n.badge = p.badge
    <3>1. OnPwmChanged(p, e).pins = p.pins /\ OnPwmChanged(p, e).badge = p.badge
      BY PwmFacts, Zenon
    <3>2. QED BY <2>1, <3>1, Zenon
  <2>3. n.pwm = IF e.chip \in Ecus /\ e.pin \in Ports THEN Put(p.pwm, e.pin, Clamp(e.duty, Full)) ELSE p.pwm
    <3>1. OnPwmChanged(p, e).pwm = IF e.chip \in Ecus /\ e.pin \in Ports THEN Put(p.pwm, e.pin, Clamp(e.duty, Full)) ELSE p.pwm
      BY PwmFacts
    <3>2. QED BY <2>1, <3>1
  <2>4. r.pwm[c] = Put(s.pwm[c], e.pin, e.duty) /\ r.pins = s.pins /\ r.canState = s.canState
    BY <1>2, <1>3, <1>7
  <2>5. ASSUME c \in Ecus PROVE PwmFollows(n, r.pwm[c]) /\ n.badge = r.canState[c]
    <3> DEFINE d == s.pwm[c]
               k == e.pin
               v == e.duty
    <3>1. d \in Dict(Values("pin"), Int) /\ v \in Int /\ PwmFollows(p, d) /\ n.pwm = IF k \in Ports THEN Put(p.pwm, k, Clamp(v, Full)) ELSE p.pwm
      BY <1>1, <1>3, <1>4, <1>7, <2>3, <2>5
    <3> HIDE DEF d, k, v
    <3>2. PwmFollows(n, Put(d, k, v))
      BY <3>1, PwmPut
    <3>3. QED BY <1>1, <2>2, <2>4, <2>5, <3>2 DEF d, k, v
  <2>6. QED BY <1>1, <1>5, <2>2, <2>4, <2>5 DEF PanelInv, PinsFollow, r
<1>8. CASE e.t = "uart" /\ e.chip = c
  <2>1. n = OnUartAppended(p, e)
    BY <1>8 DEF PanelHears
  <2>2. n.pins = p.pins /\ n.pwm = p.pwm /\ n.badge = p.badge
    <3>1. OnUartAppended(p, e).pins = p.pins /\ OnUartAppended(p, e).pwm = p.pwm /\ OnUartAppended(p, e).badge = p.badge
      BY OtherPanelFacts, Zenon
    <3>2. QED BY <2>1, <3>1, Zenon
  <2>3. r.pins = s.pins /\ r.pwm = s.pwm /\ r.canState = s.canState
    BY <1>2, <1>8
  <2>4. QED BY <1>1, <1>5, <2>2, <2>3 DEF PanelInv, PinsFollow, PwmFollows, r
<1>9. CASE e.t = "can_state" /\ e.chip = c
  <2>1. n = OnCanStateChanged(p, r, e)
    BY <1>9 DEF PanelHears, r
  <2>2. n.pins = p.pins /\ n.pwm = p.pwm /\ n.badge = IF c \in Ecus THEN r.canState[c] ELSE p.badge
    <3>1. OnCanStateChanged(p, r, e).pins = p.pins /\ OnCanStateChanged(p, r, e).pwm = p.pwm
          /\ OnCanStateChanged(p, r, e).badge = IF e.chip \in Ecus THEN r.canState[e.chip] ELSE p.badge
      BY PanelRecord DEF OnCanStateChanged
    <3>2. QED BY <1>9, <2>1, <3>1
  <2>3. r.pins = s.pins /\ r.pwm = s.pwm
    BY <1>2, <1>9
  <2>4. QED BY <1>1, <1>5, <2>2, <2>3 DEF PanelInv, PinsFollow, PwmFollows, r
<1>10. CASE ~(e.t \in {"pin", "pwm", "uart", "can_state"} /\ e.chip = c)
  <2>1. n = p
    BY <1>10
  <2>2. r.pins[c] = s.pins[c] /\ r.pwm[c] = s.pwm[c] /\ r.canState[c] = s.canState[c]
    BY <1>2, <1>3, <1>4, <1>10
  <2>3. QED BY <1>1, <1>5, <2>1, <2>2 DEF PanelInv, r
<1>11. QED BY <1>6, <1>7, <1>8, <1>9, <1>10

\* The invariant gives PanelsFollow.
LEMMA PanelsInvFollow ==
  ASSUME TypeOK, PanelsInv
  PROVE  PanelsFollow
<1> SUFFICES ASSUME app = "widgets", NEW c \in Chips
             PROVE  LET p == qt.panel[c]
                    IN /\ p.pins = [x \in DOMAIN store.pins[c] \cap Ports |-> store.pins[c][x] # 0]
                       /\ c \in Ecus => /\ p.pwm = [x \in DOMAIN store.pwm[c] \cap Ports |-> Clamp(store.pwm[c][x], Full)]
                                        /\ p.badge = store.canState[c]
                       /\ \A l \in DOMAIN p.leds :
                            LET lit == {i \in Heard : Lights(c, l, seen[i])}
                            IN /\ lit = {} => p.leds[l] = 0
                               /\ \A i \in lit : (\A j \in lit : j <= i) => p.leds[l] = Brightness(seen[i])
  BY DEF PanelsFollow
<1> DEFINE p == qt.panel[c]
<1>1. PinsFollow(p, store.pins[c]) /\ LedsNewest(p.leds, c, seen)
      /\ (c \in Ecus => PwmFollows(p, store.pwm[c]) /\ p.badge = store.canState[c])
  BY DEF PanelsInv, PanelInv
<1>2. p.leds \in [LedNames -> 0..Full]
  BY QtTypes, PanelRecord DEF LedNames
<1>3. HeardIn(seen) = Heard
  BY DEF HeardIn, Heard
<1>4. \A l \in DOMAIN p.leds : Lit(seen, c, l) = {i \in Heard : Lights(c, l, seen[i])}
  BY <1>3 DEF Lit
<1>5. \A l \in DOMAIN p.leds :
        LET lit == {i \in Heard : Lights(c, l, seen[i])}
        IN /\ lit = {} => p.leds[l] = 0
           /\ \A i \in lit : (\A j \in lit : j <= i) => p.leds[l] = Brightness(seen[i])
  <2>1. ASSUME NEW l \in DOMAIN p.leds
        PROVE  /\ Lit(seen, c, l) = {} => p.leds[l] = 0
               /\ \A i \in Lit(seen, c, l) : (\A j \in Lit(seen, c, l) : j <= i) => p.leds[l] = Brightness(seen[i])
    BY <1>1, <1>2 DEF LedsNewest
  <2>2. QED BY <1>4, <2>1, Zenon
<1>6. QED BY <1>1, <1>5 DEF PinsFollow, PwmFollows

\* It holds initially.
LEMMA PanelsInit == Init => PanelsInv
<1> SUFFICES ASSUME Init, NEW c \in Chips PROVE PanelInv(qt.panel[c], store, c, seen)
  BY DEF PanelsInv
<1>1. qt.panel[c] = PanelInit /\ store = EmptyStore /\ seen = <<>>
  BY DEF Init, QtInit
<1>2. store.pins[c] = NoneYet /\ store.pwm[c] = NoneYet /\ store.canState[c] = Healthy
  BY <1>1 DEF EmptyStore
<1>3. DOMAIN NoneYet = {}
  BY DEF NoneYet
<1>4. PinsFollow(PanelInit, NoneYet) /\ PwmFollows(PanelInit, NoneYet) /\ PanelInit.badge = Healthy
  BY DEF PanelInit, PinsFollow, PwmFollows, NoneYet
<1>5. LedsNewest(PanelInit.leds, c, <<>>)
  <2>1. \A l \in LedNames : PanelInit.leds[l] = 0
    BY DEF PanelInit, LedNames
  <2>2. HeardIn(<<>>) = {}
    BY DEF HeardIn
  <2>3. \A l : Lit(<<>>, c, l) = {}
    BY <2>2 DEF Lit
  <2>4. QED BY <2>1, <2>3 DEF LedsNewest
<1>6. QED BY <1>1, <1>2, <1>4, <1>5 DEF PanelInv

\* Every step keeps it.
LEMMA PanelsStep ==
  ASSUME TypeOK, PanelsInv, [Next]_vars
  PROVE  PanelsInv'
<1>1. CASE DispatchLine
  <2>1. PICK e \in Arrivals : Delivers(e)
    BY <1>1, DeliveryExists
  <2>2. app' = app /\ seen' = Append(seen, e)
    BY <2>1 DEF Delivers
  <2>3. (Complete(e) => Dispatch(e)) /\ (~Complete(e) => qt' = qt /\ store' = store)
    BY <2>1 DEF Delivers, uiVars
  <2>a. PanelsInv' <=> (app' = "widgets" => \A c \in Chips : PanelInv(qt'.panel[c], store', c, seen'))
    BY DEF PanelsInv, PanelInv, PinsFollow, PwmFollows, LedsNewest, Lit, HeardIn
  <2> SUFFICES ASSUME app = "widgets", NEW c \in Chips
               PROVE  PanelInv(qt'.panel[c], store', c, Append(seen, e))
    BY <2>2, <2>a
  <2> DEFINE p == qt.panel[c]
  <2>4. PanelInv(p, store, c, seen) /\ p \in Panels /\ store \in Stores /\ seen \in Seq(Arrivals)
    BY QtTypes, StoreTypes DEF PanelsInv
  <2>5. CASE Complete(e)
    <3> DEFINE n == qt'.panel[c]
    <3>1. store' = Update(store, e) /\ qt' = QtHears(qt, store', e)
      BY <2>3, <2>5 DEF Dispatch
    <3>2. QtHears(qt, store', e).panel[c] = IF e.t \in {"pin", "pwm", "uart", "can_state"} /\ e.chip = c THEN PanelHears(p, store', e) ELSE p
      BY <2>5, PanelOf
    <3>3. n = IF e.t \in {"pin", "pwm", "uart", "can_state"} /\ e.chip = c THEN PanelHears(p, Update(store, e), e) ELSE p
      BY <3>1, <3>2
    <3> HIDE DEF p, n
    <3>4. PanelInv(n, Update(store, e), c, Append(seen, e))
      BY <2>4, <2>5, <3>3, PanelDelivery
    <3>5. QED BY <3>1, <3>4 DEF n
  <2>6. CASE ~Complete(e)
    <3>1. qt' = qt /\ store' = store
      BY <2>3, <2>6
    <3>2. LedsNewest(p.leds, c, seen)
      BY <2>4 DEF PanelInv
    <3> DEFINE leds == p.leds
    <3> HIDE DEF leds
    <3>3. \A l \in LedNames : leds[l] = IF Complete(e) /\ Lights(c, l, e) THEN Brightness(e) ELSE leds[l]
      BY <2>6
    <3>4. LedsNewest(leds, c, Append(seen, e))
      BY <2>4, <3>2, <3>3, LedsAppend DEF leds
    <3>5. QED BY <2>4, <3>1, <3>4 DEF PanelInv, leds
  <2>7. QED BY <2>5, <2>6
<1>2. CASE ~DispatchLine
  <2>1. app' = app /\ seen' = seen /\ \A k \in {"pins", "pwm", "canState", "stat", "lcd", "canLog"} : store'[k] = store[k]
    BY <1>2, StoreStays
  <2>2. store'.pins = store.pins /\ store'.pwm = store.pwm /\ store'.canState = store.canState
    BY <2>1
  <2>3. ASSUME app = "widgets", NEW c \in Chips PROVE PanelInv(qt'.panel[c], store', c, seen)
    <3> DEFINE n == qt'.panel[c]
               p == qt.panel[c]
    <3>1. n.leds = p.leds /\ n.pins = p.pins /\ n.pwm = p.pwm /\ n.badge = p.badge
      BY <1>2, PanelsStay, Zenon
    <3>2. PanelInv(p, store, c, seen)
      BY <2>3 DEF PanelsInv
    <3> HIDE DEF n, p
    <3>3. PanelInv(n, store', c, seen)
      BY <2>2, <3>1, <3>2 DEF PanelInv, PinsFollow, PwmFollows
    <3>4. QED BY <3>3 DEF n
  <2>4. QED BY <2>1, <2>3 DEF PanelsInv, PanelInv, PinsFollow, PwmFollows, LedsNewest, Lit, HeardIn
<1>3. QED BY <1>1, <1>2

\* The panels' own copies agree with the store, and an LED shows the newest of
\* the pin and PWM events that share it (ecu_panel.py, mcu_panel.py), as the
\* panels' tables route them.
THEOREM PanelsFollowHolds == Spec => []PanelsFollow
<1>1. Init => PanelsInv
  BY PanelsInit
<1>2. TypeOK /\ PanelsInv /\ [Next]_vars => PanelsInv'
  BY PanelsStep
<1>3. TypeOK /\ PanelsInv => PanelsFollow
  BY PanelsInvFollow
<1>4. QED BY <1>1, <1>2, <1>3, TypeCorrect, PTL DEF Spec

\* -------------------------------------------------------- ControlsAreHeard

\* A set of indices has a last one.
LEMMA LastExists ==
  ASSUME NEW n \in Nat, NEW S \in SUBSET (1..n), S # {}
  PROVE  \E i \in S : \A j \in S : j <= i
<1> DEFINE U == {k \in Nat : \A j \in S : j <= k}
<1>1. n \in U
  OBVIOUS
<1>3. PICK k \in U : \A m \in U : k <= m
  <2>1. U \subseteq Nat /\ U # {}
    BY <1>1
  <2> HIDE DEF U
  <2>2. QED BY <2>1, LeastNat
<1>4. k \in S
  <2>1. SUFFICES ASSUME k \notin S PROVE FALSE
    OBVIOUS
  <2>2. \A j \in S : j <= k - 1
    BY <2>1
  <2>3. PICK j \in S : TRUE
    OBVIOUS
  <2>4. k - 1 \in U
    BY <2>2, <2>3
  <2>5. QED BY <1>3, <2>4
<1>5. QED BY <1>4

\* Commands outside Q change nothing of the last one in Q.
LEMMA LastOfNone ==
  ASSUME NEW X, NEW s \in Seq(X), NEW t \in Seq(X), NEW Q, NEW f, NEW d, \A i \in DOMAIN t : t[i] \notin Q
  PROVE  LastSent(s \o t, Q, f, d) = LastSent(s, Q, f, d)
<1> DEFINE r == s \o t
           S == {i \in DOMAIN s : s[i] \in Q}
<1>1. /\ DOMAIN s = 1..Len(s) /\ DOMAIN t = 1..Len(t) /\ DOMAIN r = 1..(Len(s) + Len(t))
      /\ Len(s) \in Nat /\ Len(t) \in Nat
      /\ \A i \in 1..(Len(s) + Len(t)) : r[i] = IF i <= Len(s) THEN s[i] ELSE t[i - Len(s)]
  OBVIOUS
<1> HIDE DEF r
<1>2. {i \in DOMAIN r : r[i] \in Q} = S
  <2>1. ASSUME NEW i \in DOMAIN r, r[i] \in Q PROVE i \in S
    <3>1. CASE i <= Len(s)
      BY <1>1, <2>1, <3>1
    <3>2. CASE ~(i <= Len(s))
      <4>1. i - Len(s) \in DOMAIN t /\ r[i] = t[i - Len(s)]
        BY <1>1, <2>1, <3>2
      <4>2. QED BY <2>1, <4>1
    <3>3. QED BY <3>1, <3>2
  <2>2. ASSUME NEW i \in S PROVE i \in DOMAIN r /\ r[i] \in Q
    BY <1>1
  <2>3. QED BY <2>1, <2>2
<1>3. CASE S = {}
  BY <1>2, <1>3 DEF LastSent, r
<1>4. CASE S # {}
  <2> DEFINE m == CHOOSE i \in S : \A j \in S : j <= i
  <2>1. \E i \in S : \A j \in S : j <= i
    BY <1>1, <1>4, LastExists
  <2>2. m \in S
    BY <2>1
  <2>3. r[m] = s[m]
    BY <1>1, <2>2
  <2>4. LastSent(s, Q, f, d) = s[m][f]
    BY <1>4 DEF LastSent
  <2>5. LastSent(r, Q, f, d) = r[m][f]
    BY <1>2, <1>4 DEF LastSent
  <2>6. QED BY <2>3, <2>4, <2>5 DEF r
<1>5. QED BY <1>3, <1>4

\* A command in Q is the last one in Q.
LEMMA LastOfLast ==
  ASSUME NEW X, NEW s \in Seq(X), NEW t \in Seq(X), NEW Q, NEW d, Len(t) > 0, t[Len(t)] \in Q
  PROVE  /\ LastSent(s \o t, Q, "val", d) = t[Len(t)].val
         /\ LastSent(s \o t, Q, "speed", d) = t[Len(t)].speed
<1> DEFINE r == s \o t
           n == Len(s) + Len(t)
           S == {i \in DOMAIN r : r[i] \in Q}
<1>1. /\ DOMAIN r = 1..n /\ n \in Nat /\ n > 0 /\ r[n] = t[Len(t)]
  OBVIOUS
<1> HIDE DEF r, n
<1>2. n \in S /\ \A j \in S : j <= n
  BY <1>1
<1>3. \A i \in S : (\A j \in S : j <= i) => i = n
  BY <1>1, <1>2
<1> DEFINE m == CHOOSE i \in S : \A j \in S : j <= i
<1>4. m \in S /\ \A j \in S : j <= m
  BY <1>2
<1>5. m = n
  BY <1>3, <1>4
<1>6. LastSent(r, Q, "val", d) = r[m].val /\ LastSent(r, Q, "speed", d) = r[m].speed
  BY <1>2 DEF LastSent
<1>7. QED BY <1>1, <1>5, <1>6 DEF r

Mute(t, kinds) == \A i \in DOMAIN t : t[i].c \notin kinds

ButtonsTold(on, cmds) ==
  \A b \in Buttons : (IF on[b] THEN 1 ELSE 0) = LastSent(cmds, DinOf(b), "val", 0)

KnobsTold(knob, cmds) ==
  \A k \in Knobs : knob[k] = LastSent(cmds, AdcOf(k.chip, k.ch), "val", 0)

ChannelsTold(adc, cmds) ==
  \A x \in {y \in Targets : y.kind = "adc"} :
    Field(adc[x.chip], x.name, 0) = Clamp(LastSent(cmds, AdcOf(x.chip, x.name), "val", 0), AdcMax)

AnySpeed == [c : {"speed"}, speed : Int]

SpeedTold(speed, cmds) == speed = LastSent(cmds, AnySpeed, "speed", 1)

\* ControlsAreHeard, part by part.
LEMMA HeardParts ==
  ControlsAreHeard <=>
    (engine = "running" =>
       /\ app = "widgets" => ButtonsTold(controls.on, sent) /\ KnobsTold(controls.knob, sent)
       /\ app = "qml" => ChannelsTold(store.adc, sent)
       /\ SpeedTold(qml.speed, sent))
<1>1. \A x \in {y \in Targets : y.kind = "adc"} : Sample(store, x) = Field(store.adc[x.chip], x.name, 0)
  BY DEF Sample
<1>2. QED BY <1>1 DEF ControlsAreHeard, ButtonsTold, KnobsTold, ChannelsTold, SpeedTold, AnySpeed

\* Which commands are about which control.
LEMMA CommandSets ==
  /\ \A b, x : x \in DinOf(b) => x.c = "din"
  /\ \A a, b, x : x \in AdcOf(a, b) => x.c = "adc"
  /\ \A x : x \in AnySpeed => x.c = "speed"
  /\ \A a \in Buttons, b \in Buttons, on \in BOOLEAN : Din(a, on) \in DinOf(b) <=> a = b
  /\ \A v \in Int : \A chip, ch, a, b :
       [c |-> "adc", chip |-> chip, ch |-> ch, val |-> v] \in AdcOf(a, b) <=> chip = a /\ ch = b
  /\ \A v \in Int : Speed(v) \in AnySpeed
<1>1. \A b, x : x \in DinOf(b) => x.c = "din"
  BY DEF DinOf
<1>2. \A a, b, x : x \in AdcOf(a, b) => x.c = "adc"
  BY DEF AdcOf
<1>3. \A x : x \in AnySpeed => x.c = "speed"
  BY DEF AnySpeed
<1>4. \A a \in Buttons, b \in Buttons, on \in BOOLEAN : Din(a, on) \in DinOf(b) <=> a = b
  BY ControlsAssumption DEF Din, DinOf
<1>5. \A v \in Int : \A chip, ch, a, b :
       [c |-> "adc", chip |-> chip, ch |-> ch, val |-> v] \in AdcOf(a, b) <=> chip = a /\ ch = b
  BY DEF AdcOf
<1>6. \A v \in Int : Speed(v) \in AnySpeed
  BY DEF Speed, AnySpeed
<1>7. QED BY <1>1, <1>2, <1>3, <1>4, <1>5, <1>6

\* Commands of other kinds change nothing of what was told.
LEMMA MuteTells ==
  ASSUME NEW s \in Seq(Commands), NEW t \in Seq(Commands)
  PROVE  /\ \A on : Mute(t, {"din"}) /\ ButtonsTold(on, s) => ButtonsTold(on, s \o t)
         /\ \A knob : Mute(t, {"adc"}) /\ KnobsTold(knob, s) => KnobsTold(knob, s \o t)
         /\ \A adc : Mute(t, {"adc"}) /\ ChannelsTold(adc, s) => ChannelsTold(adc, s \o t)
         /\ \A speed : Mute(t, {"speed"}) /\ SpeedTold(speed, s) => SpeedTold(speed, s \o t)
<1>1. \A on : Mute(t, {"din"}) /\ ButtonsTold(on, s) => ButtonsTold(on, s \o t)
  <2> SUFFICES ASSUME NEW on, Mute(t, {"din"}), ButtonsTold(on, s), NEW b \in Buttons
               PROVE  (IF on[b] THEN 1 ELSE 0) = LastSent(s \o t, DinOf(b), "val", 0)
    BY DEF ButtonsTold
  <2> DEFINE Q == DinOf(b)
  <2>1. \A i \in DOMAIN t : t[i] \notin Q
    BY CommandSets DEF Mute
  <2> HIDE DEF Q
  <2>2. LastSent(s \o t, Q, "val", 0) = LastSent(s, Q, "val", 0)
    BY <2>1, LastOfNone
  <2>3. QED BY <2>2 DEF ButtonsTold, Q
<1>2. Mute(t, {"adc"}) => \A a, b : LastSent(s \o t, AdcOf(a, b), "val", 0) = LastSent(s, AdcOf(a, b), "val", 0)
  <2> SUFFICES ASSUME Mute(t, {"adc"}), NEW a, NEW b
               PROVE  LastSent(s \o t, AdcOf(a, b), "val", 0) = LastSent(s, AdcOf(a, b), "val", 0)
    OBVIOUS
  <2> DEFINE Q == AdcOf(a, b)
  <2>1. \A i \in DOMAIN t : t[i] \notin Q
    BY CommandSets DEF Mute
  <2> HIDE DEF Q
  <2>2. LastSent(s \o t, Q, "val", 0) = LastSent(s, Q, "val", 0)
    BY <2>1, LastOfNone
  <2>3. QED BY <2>2 DEF Q
<1>3. \A knob : Mute(t, {"adc"}) /\ KnobsTold(knob, s) => KnobsTold(knob, s \o t)
  BY <1>2, Zenon DEF KnobsTold
<1>4. \A adc : Mute(t, {"adc"}) /\ ChannelsTold(adc, s) => ChannelsTold(adc, s \o t)
  BY <1>2, Zenon DEF ChannelsTold
<1>5. \A speed : Mute(t, {"speed"}) /\ SpeedTold(speed, s) => SpeedTold(speed, s \o t)
  <2> SUFFICES ASSUME NEW speed, Mute(t, {"speed"}), SpeedTold(speed, s)
               PROVE  SpeedTold(speed, s \o t)
    OBVIOUS
  <2>1. \A i \in DOMAIN t : t[i] \notin AnySpeed
    BY CommandSets DEF Mute
  <2>2. LastSent(s \o t, AnySpeed, "speed", 1) = LastSent(s, AnySpeed, "speed", 1)
    BY <2>1, LastOfNone
  <2>3. QED BY <2>2 DEF SpeedTold
<1>6. QED BY <1>1, <1>3, <1>4, <1>5

\* A button's own command tells its new state, and no other button's.
LEMMA ButtonTells ==
  ASSUME NEW s \in Seq(Commands), NEW old, NEW on, ButtonsTold(old, s),
         NEW a \in Buttons, NEW v \in BOOLEAN, on[a] = v, \A b \in Buttons : b # a => on[b] = old[b]
  PROVE  ButtonsTold(on, s \o <<Din(a, v)>>)
<1> SUFFICES ASSUME NEW b \in Buttons
             PROVE  (IF on[b] THEN 1 ELSE 0) = LastSent(s \o <<Din(a, v)>>, DinOf(b), "val", 0)
  BY DEF ButtonsTold
<1> DEFINE Q == DinOf(b)
           d == Din(a, v)
           t == <<d>>
<1>1. t \in Seq(Commands) /\ Len(t) = 1 /\ t[1] = d /\ DOMAIN t = {1}
  BY CommandTypes
<1>2. d \in Q <=> a = b
  BY CommandSets
<1>3. d.val = IF v THEN 1 ELSE 0
  BY DEF Din
<1>4. LastSent(s, Q, "val", 0) = IF old[b] THEN 1 ELSE 0
  BY DEF ButtonsTold
<1> HIDE DEF t, d, Q
<1>5. CASE a = b
  <2>1. t[Len(t)] \in Q /\ Len(t) > 0
    BY <1>1, <1>2, <1>5
  <2>a. t \in Seq(Commands)
    BY <1>1
  <2>2. LastSent(s \o t, Q, "val", 0) = t[Len(t)].val
    BY <2>a, <2>1, LastOfLast
  <2>3. t[Len(t)].val = IF on[b] THEN 1 ELSE 0
    BY <1>1, <1>3, <1>5
  <2>4. QED BY <2>2, <2>3, Zenon DEF t, d, Q
<1>6. CASE a # b
  <2>1. \A i \in DOMAIN t : t[i] \notin Q
    BY <1>1, <1>2, <1>6
  <2>2. LastSent(s \o t, Q, "val", 0) = LastSent(s, Q, "val", 0)
    BY <1>1, <2>1, LastOfNone
  <2>3. on[b] = old[b]
    BY <1>6
  <2>4. QED BY <1>4, <2>2, <2>3 DEF t, d, Q
<1>7. QED BY <1>5, <1>6

\* What an adc command leaves as the last word on a channel.
LEMMA AdcTells ==
  ASSUME NEW s \in Seq(Commands), NEW chip \in Chips, NEW ch \in Channels, NEW v \in Int, NEW a, NEW b
  PROVE  LastSent(s \o <<[c |-> "adc", chip |-> chip, ch |-> ch, val |-> v]>>, AdcOf(a, b), "val", 0) =
           IF chip = a /\ ch = b THEN v ELSE LastSent(s, AdcOf(a, b), "val", 0)
<1> DEFINE Q == AdcOf(a, b)
           d == [c |-> "adc", chip |-> chip, ch |-> ch, val |-> v]
           t == <<d>>
<1>1. d \in Commands
  BY CommandTypes
<1>2. t \in Seq(Commands) /\ Len(t) = 1 /\ t[1] = d /\ DOMAIN t = {1}
  BY <1>1
<1>3. d \in Q <=> chip = a /\ ch = b
  BY CommandSets
<1>4. d["val"] = v
  OBVIOUS
<1> HIDE DEF t, d, Q
<1>5. CASE chip = a /\ ch = b
  <2>1. t[Len(t)] \in Q /\ Len(t) > 0
    BY <1>2, <1>3, <1>5
  <2>2. LastSent(s \o t, Q, "val", 0) = t[Len(t)]["val"]
    BY <1>2, <2>1, LastOfLast, ZenonT(40)
  <2>3. QED BY <1>2, <1>4, <1>5, <2>2 DEF t, d, Q
<1>6. CASE ~(chip = a /\ ch = b)
  <2>1. \A i \in DOMAIN t : t[i] \notin Q
    BY <1>2, <1>3, <1>6
  <2>2. LastSent(s \o t, Q, "val", 0) = LastSent(s, Q, "val", 0)
    BY <1>2, <2>1, LastOfNone
  <2>3. QED BY <1>6, <2>2 DEF t, d, Q
<1>7. QED BY <1>5, <1>6

HeardInv ==
  engine = "running" =>
    /\ app = "widgets" => ButtonsTold(controls.on, sent) /\ KnobsTold(controls.knob, sent)
    /\ app = "qml" => ChannelsTold(store.adc, sent)
    /\ SpeedTold(qml.speed, sent)

\* The types of the controls and of their copies.
LEMMA HeardTypes ==
  ASSUME TypeOK
  PROVE  /\ sent \in Seq(Commands)
         /\ controls = [held |-> controls.held, on |-> controls.on, knob |-> controls.knob]
         /\ controls.held \in Buttons \cup {NoButton}
         /\ controls.on \in [Buttons -> BOOLEAN] /\ controls.knob \in [Knobs -> 0..AdcMax]
         /\ store.adc \in [Chips -> Dict(Channels, 0..AdcMax)]
         /\ qml = [dirty |-> qml.dirty, cache |-> qml.cache, lcd |-> qml.lcd, running |-> qml.running,
                   speed |-> qml.speed, trace |-> qml.trace, lastTick |-> qml.lastTick]
         /\ qml.speed \in Nat
<1>1. /\ sent \in Seq(Commands) /\ store \in Stores /\ qml \in QmlViews
      /\ controls \in [held : Buttons \cup {NoButton}, on : [Buttons -> BOOLEAN], knob : [Knobs -> 0..AdcMax]]
  BY DEF TypeOK
<1>2. store.adc \in [Chips -> Dict(Channels, 0..AdcMax)]
  BY <1>1 DEF Stores
<1>3. qml = [dirty |-> qml.dirty, cache |-> qml.cache, lcd |-> qml.lcd, running |-> qml.running,
             speed |-> qml.speed, trace |-> qml.trace, lastTick |-> qml.lastTick] /\ qml.speed \in Nat
  BY <1>1 DEF QmlViews
<1>4. QED BY <1>1, <1>2, <1>3

\* The engine that runs has run all along, and the window is the same.
LEMMA StillRunning ==
  ASSUME [Next]_vars, engine' = "running"
  PROVE  engine = "running" /\ app' = app
<1>1. CASE UNCHANGED vars
  BY <1>1 DEF vars
<1>2. CASE OnStdout \/ DispatchLine \/ OnFinished \/ EngineWrites \/ EngineEnds
  BY <1>2 DEF OnStdout, DispatchLine, OnFinished, EngineWrites, EngineEnds
<1>3. CASE Read \/ Tick \/ SetAdc \/ SetSpeed \/ FlashChip \/ QmlCommand
  BY <1>3 DEF Read, Tick, SetAdc, SetSpeed, FlashChip, QmlCommand
<1>4. CASE Press \/ Release \/ Turn \/ TypeFilter \/ Clear \/ DecayUart
  BY <1>4 DEF Press, Release, Turn, TypeFilter, Clear, DecayUart
<1>5. CASE ToolbarCommand \/ InjectFrame \/ ConsoleSend \/ FaultCommand
  BY <1>5 DEF ToolbarCommand, InjectFrame, ConsoleSend, FaultCommand
<1>6. QED BY <1>1, <1>2, <1>3, <1>4, <1>5 DEF Next

\* No event changes the speed QML shows.
LEMMA HearsKeepsSpeed ==
  ASSUME TypeOK, NEW e
  PROVE  QmlHears(qml, e).speed = qml.speed
BY HeardTypes DEF QmlHears, MarkDirty, OnLcdChanged

\* Steps that neither send a command nor move a control.
LEMMA HeardStays ==
  ASSUME TypeOK, HeardInv, engine = "running", app' = app, sent' = sent, controls' = controls,
         store'.adc = store.adc, qml'.speed = qml.speed
  PROVE  HeardInv'
<1>1. /\ app' = "widgets" => ButtonsTold(controls'.on, sent') /\ KnobsTold(controls'.knob, sent')
      /\ app' = "qml" => ChannelsTold(store'.adc, sent')
      /\ SpeedTold(qml'.speed, sent')
  BY DEF HeardInv
<1>2. QED BY <1>1 DEF HeardInv

\* Steps that send commands without a word on buttons, channels and speed,
\* or, in the QML window, without one on channels and speed.
LEMMA HeardMute ==
  ASSUME TypeOK, HeardInv, engine = "running", app' = app, controls' = controls, store' = store, qml' = qml,
         NEW t \in Seq(Commands), SendAll(t), Mute(t, {"adc", "speed"}), app = "widgets" => Mute(t, {"din"})
  PROVE  HeardInv'
<1>1. sent' = sent \o t /\ sent \in Seq(Commands)
  BY HeardTypes DEF SendAll
<1>2. Mute(t, {"adc"}) /\ Mute(t, {"speed"})
  BY DEF Mute
<1>3. app = "widgets" => ButtonsTold(controls.on, sent')
  BY <1>1, MuteTells DEF HeardInv
<1>4. app = "widgets" => KnobsTold(controls.knob, sent')
  BY <1>1, <1>2, MuteTells DEF HeardInv
<1>5. app = "qml" => ChannelsTold(store.adc, sent')
  BY <1>1, <1>2, MuteTells DEF HeardInv
<1>6. SpeedTold(qml.speed, sent')
  BY <1>1, <1>2, MuteTells DEF HeardInv
<1>7. /\ app' = "widgets" => ButtonsTold(controls'.on, sent') /\ KnobsTold(controls'.knob, sent')
      /\ app' = "qml" => ChannelsTold(store'.adc, sent')
      /\ SpeedTold(qml'.speed, sent')
  BY <1>3, <1>4, <1>5, <1>6
<1>8. QED BY <1>7 DEF HeardInv

\* A single command.
LEMMA OneMute ==
  ASSUME NEW d \in Commands
  PROVE  /\ <<d>> \in Seq(Commands)
         /\ \A kinds : d.c \notin kinds => Mute(<<d>>, kinds)
BY DEF Mute

\* setAdc writes the store and tells the engine.
LEMMA HeardSetAdc ==
  ASSUME TypeOK, HeardInv, engine = "running", app' = app, SetAdc
  PROVE  HeardInv'
<1>0. app = "qml" /\ controls' = controls
  BY DEF SetAdc, InWindow
<1>1. PICK x \in {y \in Targets : y.kind = "adc"}, v \in Inputs :
        /\ store' = UpdateAdc(store, x.chip, x.name, v)
        /\ qml' = MarkDirty(qml, "adc")
        /\ SendCommand([c |-> "adc", chip |-> x.chip, ch |-> x.name, val |-> v])
  BY DEF SetAdc
<1>2. x.chip \in Chips /\ x.name \in Channels /\ v \in Int
  BY ControlsAssumption
<1> DEFINE d == [c |-> "adc", chip |-> x.chip, ch |-> x.name, val |-> v]
<1>3. d \in Commands /\ d.c = "adc"
  BY <1>2, CommandTypes
<1>4. sent' = sent \o <<d>> /\ sent \in Seq(Commands)
  BY <1>1, HeardTypes DEF SendCommand, SendAll
<1>5. store'.adc = [store.adc EXCEPT ![x.chip] = Put(@, x.name, Clamp(v, AdcMax))]
  <2>1. store' = [store EXCEPT !.adc[x.chip] = Put(@, x.name, Clamp(v, AdcMax))]
    BY <1>1, <1>2 DEF UpdateAdc
  <2>2. store \in Stores
    BY DEF TypeOK
  <2>3. QED BY <2>1, <2>2 DEF Stores
<1>6. ASSUME NEW y \in {y \in Targets : y.kind = "adc"}
      PROVE  Field(store'.adc[y.chip], y.name, 0) = Clamp(LastSent(sent', AdcOf(y.chip, y.name), "val", 0), AdcMax)
  <2>1. LastSent(sent', AdcOf(y.chip, y.name), "val", 0) =
          IF x.chip = y.chip /\ x.name = y.name THEN v ELSE LastSent(sent, AdcOf(y.chip, y.name), "val", 0)
    BY <1>2, <1>4, AdcTells
  <2>2. Field(store.adc[y.chip], y.name, 0) = Clamp(LastSent(sent, AdcOf(y.chip, y.name), "val", 0), AdcMax)
    BY <1>0 DEF HeardInv, ChannelsTold
  <2>3. y.chip \in Chips /\ y.name \in Channels
    BY ControlsAssumption
  <2>4. Field(store'.adc[y.chip], y.name, 0) =
          IF x.chip = y.chip /\ x.name = y.name THEN Clamp(v, AdcMax) ELSE Field(store.adc[y.chip], y.name, 0)
    BY <1>2, <1>5, <2>3, HeardTypes DEF Field, Put
  <2>5. QED BY <2>1, <2>2, <2>4
<1>7. ChannelsTold(store'.adc, sent')
  BY <1>6 DEF ChannelsTold
<1>8. SpeedTold(qml.speed, sent')
  <2>1. Mute(<<d>>, {"speed"}) /\ <<d>> \in Seq(Commands)
    BY <1>3, OneMute
  <2>2. SpeedTold(qml.speed, sent)
    BY DEF HeardInv
  <2> HIDE DEF d
  <2>3. QED BY <1>4, <2>1, <2>2, MuteTells
<1>9. qml'.speed = qml.speed
  BY <1>1, HeardTypes DEF MarkDirty
<1>10. /\ app' = "widgets" => ButtonsTold(controls'.on, sent') /\ KnobsTold(controls'.knob, sent')
       /\ app' = "qml" => ChannelsTold(store'.adc, sent')
       /\ SpeedTold(qml'.speed, sent')
  BY <1>0, <1>7, <1>8, <1>9
<1>11. QED BY <1>10 DEF HeardInv

\* A speed command at the end is what was told.
LEMMA SpeedTells ==
  ASSUME NEW s \in Seq(Commands), NEW t \in Seq(Commands), NEW v \in Nat, Len(t) > 0, t[Len(t)] = Speed(v)
  PROVE  SpeedTold(v, s \o t)
<1>1. t[Len(t)] \in AnySpeed
  BY CommandSets
<1>2. LastSent(s \o t, AnySpeed, "speed", 1) = t[Len(t)].speed
  BY <1>1, LastOfLast
<1>3. t[Len(t)].speed = v
  BY DEF Speed
<1>4. QED BY <1>2, <1>3 DEF SpeedTold

\* setSpeed clamps, shows and tells.
LEMMA HeardSetSpeed ==
  ASSUME TypeOK, HeardInv, engine = "running", app' = app, SetSpeed
  PROVE  HeardInv'
<1>0. app = "qml" /\ controls' = controls /\ store' = store
  BY DEF SetSpeed, InWindow
<1>1. PICK v \in Speeds : LET factor == IF v < 0 THEN 0 ELSE v
                          IN /\ qml' = [qml EXCEPT !.speed = factor]
                             /\ SendCommand(Speed(factor))
  BY DEF SetSpeed
<1> DEFINE factor == IF v < 0 THEN 0 ELSE v
           t == <<Speed(factor)>>
<1>2. factor \in Nat
  BY ControlsAssumption
<1> HIDE DEF factor
<1>3. Speed(factor) \in Commands /\ Speed(factor).c = "speed"
  BY <1>2, CommandTypes DEF Speed
<1>4. sent' = sent \o t /\ sent \in Seq(Commands)
  BY <1>1, HeardTypes DEF SendCommand, SendAll, factor
<1>5. t \in Seq(Commands) /\ Len(t) = 1 /\ t[1] = Speed(factor) /\ Mute(t, {"adc"})
  BY <1>3, OneMute
<1>6. qml'.speed = factor
  BY <1>1, HeardTypes DEF factor
<1> HIDE DEF t
<1>7. SpeedTold(qml'.speed, sent')
  <2>1. t[Len(t)] = Speed(factor) /\ Len(t) > 0
    BY <1>5
  <2>2. QED BY <1>2, <1>4, <1>5, <1>6, <2>1, SpeedTells
<1>8. ChannelsTold(store.adc, sent')
  BY <1>0, <1>4, <1>5, MuteTells DEF HeardInv
<1>9. /\ app' = "widgets" => ButtonsTold(controls'.on, sent') /\ KnobsTold(controls'.knob, sent')
      /\ app' = "qml" => ChannelsTold(store'.adc, sent')
      /\ SpeedTold(qml'.speed, sent')
  BY <1>0, <1>7, <1>8
<1>10. QED BY <1>9 DEF HeardInv

\* Two commands in a row.
LEMMA TwoInARow ==
  ASSUME NEW X, NEW u \in Seq(X), NEW w \in Seq(X), Len(u) = 1, Len(w) = 1
  PROVE  (u \o w)[1] = u[1] /\ (u \o w)[2] = w[1]
OBVIOUS

\* Flashing forces real time, and tells it unless it is set.
LEMMA HeardFlashChip ==
  ASSUME TypeOK, HeardInv, engine = "running", app' = app, FlashChip
  PROVE  HeardInv'
<1>0. app = "qml" /\ controls' = controls /\ store' = store /\ qml' = [qml EXCEPT !.speed = 1]
  BY DEF FlashChip, InWindow
<1>1. PICK x \in Chips : SendAll(<<To("load", x)>> \o IF qml.speed = 1 THEN <<>> ELSE <<Speed(1)>>)
  BY DEF FlashChip
<1> DEFINE a == To("load", x)
           b == Speed(1)
           t == <<a>> \o IF qml.speed = 1 THEN <<>> ELSE <<b>>
<1>2. a \in Commands /\ b \in Commands /\ a.c = "load" /\ b.c = "speed"
  BY CommandTypes DEF To, Speed
<1>3. sent' = sent \o t /\ sent \in Seq(Commands)
  BY <1>1, HeardTypes DEF SendAll
<1>4. qml'.speed = 1
  BY <1>0, HeardTypes
<1> HIDE DEF a, b
<1>5. CASE qml.speed = 1
  <2>1. t = <<a>> /\ t \in Seq(Commands)
    BY <1>2, <1>5
  <2>2. Mute(t, {"adc"}) /\ Mute(t, {"speed"})
    <3>1. Mute(<<a>>, {"adc"}) /\ Mute(<<a>>, {"speed"})
      BY <1>2, OneMute
    <3>2. QED BY <2>1, <3>1, Zenon
  <2> HIDE DEF t
  <2>3. ChannelsTold(store.adc, sent') /\ SpeedTold(qml.speed, sent')
    BY <1>0, <1>3, <2>1, <2>2, MuteTells DEF HeardInv
  <2>4. /\ app' = "widgets" => ButtonsTold(controls'.on, sent') /\ KnobsTold(controls'.knob, sent')
        /\ app' = "qml" => ChannelsTold(store'.adc, sent')
        /\ SpeedTold(qml'.speed, sent')
    BY <1>0, <1>4, <1>5, <2>3
  <2>5. QED BY <2>4 DEF HeardInv
<1>6. CASE qml.speed # 1
  <2>1. t \in Seq(Commands) /\ Len(t) = 2 /\ t[1] = a /\ t[2] = b /\ DOMAIN t = 1..2
    <3>1. t = <<a>> \o <<b>>
      BY <1>6
    <3>2. /\ <<a>> \in Seq(Commands) /\ Len(<<a>>) = 1 /\ <<a>>[1] = a
          /\ <<b>> \in Seq(Commands) /\ Len(<<b>>) = 1 /\ <<b>>[1] = b
      BY <1>2
    <3> DEFINE u == <<a>>
               w == <<b>>
    <3> HIDE DEF u, w, t
    <3>3. /\ t = u \o w /\ u \in Seq(Commands) /\ Len(u) = 1 /\ u[1] = a
          /\ w \in Seq(Commands) /\ Len(w) = 1 /\ w[1] = b
      BY <3>1, <3>2 DEF u, w
    <3>4. t \in Seq(Commands) /\ Len(t) = 2
      BY <3>3, ConcatProperties
    <3>a. (u \o w)[1] = u[1] /\ (u \o w)[2] = w[1]
      BY <3>3, TwoInARow
    <3>5. t[1] = a /\ t[2] = b
      BY <3>3, <3>a
    <3>6. QED BY <3>4, <3>5
  <2> HIDE DEF t
  <2>2. Mute(t, {"adc"})
    BY <1>2, <2>1 DEF Mute
  <2>3. t[Len(t)] = Speed(1) /\ Len(t) > 0
    BY <2>1 DEF b
  <2>4. ChannelsTold(store.adc, sent')
    BY <1>0, <1>3, <2>1, <2>2, MuteTells DEF HeardInv
  <2>5. SpeedTold(1, sent')
    BY <1>3, <2>1, <2>3, SpeedTells
  <2>6. /\ app' = "widgets" => ButtonsTold(controls'.on, sent') /\ KnobsTold(controls'.knob, sent')
        /\ app' = "qml" => ChannelsTold(store'.adc, sent')
        /\ SpeedTold(qml'.speed, sent')
    BY <1>0, <1>4, <2>4, <2>5
  <2>7. QED BY <2>6 DEF HeardInv
<1>7. QED BY <1>5, <1>6

\* A button that changes to v and says so.
LEMMA HeardButton ==
  ASSUME TypeOK, HeardInv, engine = "running", app' = app, app = "widgets", store' = store, qml' = qml,
         NEW b \in Buttons, NEW v \in BOOLEAN, SendCommand(Din(b, v)), controls'.knob = controls.knob,
         controls'.on[b] = v, \A x \in Buttons : x # b => controls'.on[x] = controls.on[x]
  PROVE  HeardInv'
<1> DEFINE d == Din(b, v)
           t == <<d>>
<1>1. d \in Commands /\ d.c = "din"
  BY CommandTypes DEF Din
<1>2. sent' = sent \o t /\ sent \in Seq(Commands)
  BY HeardTypes DEF SendCommand, SendAll
<1>3. ButtonsTold(controls'.on, sent')
  <2> DEFINE on == controls'.on
             old == controls.on
  <2>1. on[b] = v /\ (\A x \in Buttons : x # b => on[x] = old[x]) /\ ButtonsTold(old, sent)
    BY DEF HeardInv
  <2> HIDE DEF on, old
  <2>2. ButtonsTold(on, sent \o <<Din(b, v)>>)
    BY <1>2, <2>1, ButtonTells
  <2>3. QED BY <1>2, <2>2 DEF on
<1> HIDE DEF d
<1>4. t \in Seq(Commands) /\ Mute(t, {"adc"}) /\ Mute(t, {"speed"})
  BY <1>1, OneMute
<1> HIDE DEF t
<1>5. KnobsTold(controls.knob, sent') /\ SpeedTold(qml.speed, sent')
  BY <1>2, <1>4, MuteTells DEF HeardInv
<1>6. /\ app' = "widgets" => ButtonsTold(controls'.on, sent') /\ KnobsTold(controls'.knob, sent')
      /\ app' = "qml" => ChannelsTold(store'.adc, sent')
      /\ SpeedTold(qml'.speed, sent')
  BY <1>3, <1>5
<1>7. QED BY <1>6 DEF HeardInv

\* A press, which toggles a latching button.
LEMMA HeardPress ==
  ASSUME TypeOK, HeardInv, engine = "running", app' = app, Press
  PROVE  HeardInv'
<1>1. app = "widgets" /\ store' = store /\ qml' = qml
  BY DEF Press, InWindow, uiVars
<1>2. PICK b \in Buttons :
        LET on == ~Latching(b) \/ ~controls.on[b]
        IN /\ controls' = [controls EXCEPT !.held = b, !.on[b] = on]
           /\ SendCommand(Din(b, on))
  BY DEF Press
<1> DEFINE on == ~Latching(b) \/ ~controls.on[b]
<1>3. on \in BOOLEAN
  OBVIOUS
<1>4. SendCommand(Din(b, on)) /\ controls' = [controls EXCEPT !.held = b, !.on[b] = on]
  BY <1>2
<1> HIDE DEF on
<1>5. controls'.knob = controls.knob /\ controls'.on = [controls.on EXCEPT ![b] = on]
  BY <1>4, HeardTypes
<1>6. controls'.on[b] = on /\ \A x \in Buttons : x # b => controls'.on[x] = controls.on[x]
  BY <1>5, HeardTypes
<1>7. QED BY <1>1, <1>3, <1>4, <1>5, <1>6, HeardButton

\* A release, which a latching button ignores.
LEMMA HeardRelease ==
  ASSUME TypeOK, HeardInv, engine = "running", app' = app, Release
  PROVE  HeardInv'
<1>1. app = "widgets" /\ store' = store /\ qml' = qml /\ controls.held # NoButton
  BY DEF Release, InWindow, uiVars
<1> DEFINE b == controls.held
           on == Latching(b) /\ controls.on[b]
<1>2. b \in Buttons
  BY <1>1, HeardTypes
<1>3. /\ controls' = [controls EXCEPT !.held = NoButton, !.on[b] = on]
      /\ IF Latching(b) THEN sent' = sent ELSE SendCommand(Din(b, FALSE))
  BY HeardTypes DEF Release
<1>4. controls'.knob = controls.knob /\ controls'.on = [controls.on EXCEPT ![b] = on]
  BY <1>3, HeardTypes
<1>5. controls'.on[b] = on /\ \A x \in Buttons : x # b => controls'.on[x] = controls.on[x]
  BY <1>2, <1>4, HeardTypes
<1>6. CASE Latching(b)
  <2>1. controls'.on = controls.on
    <3>1. on = controls.on[b]
      BY <1>2, <1>6, HeardTypes
    <3> HIDE DEF on, b
    <3>2. QED BY <1>4, <3>1, HeardTypes
  <2>2. sent' = sent
    BY <1>3, <1>6
  <2>3. /\ app' = "widgets" => ButtonsTold(controls'.on, sent') /\ KnobsTold(controls'.knob, sent')
        /\ app' = "qml" => ChannelsTold(store'.adc, sent')
        /\ SpeedTold(qml'.speed, sent')
    BY <1>1, <1>4, <2>1, <2>2 DEF HeardInv
  <2>4. QED BY <2>3 DEF HeardInv
<1>7. CASE ~Latching(b)
  <2>1. on = FALSE /\ SendCommand(Din(b, FALSE))
    BY <1>3, <1>7
  <2>2. controls'.on[b] = FALSE
    BY <1>5, <2>1
  <2> HIDE DEF b, on
  <2>3. QED BY <1>1, <1>2, <1>4, <1>5, <2>1, <2>2, HeardButton
<1>8. QED BY <1>6, <1>7

\* A knob.
LEMMA HeardTurn ==
  ASSUME TypeOK, HeardInv, engine = "running", app' = app, Turn
  PROVE  HeardInv'
<1>1. app = "widgets" /\ store' = store /\ qml' = qml
  BY DEF Turn, InWindow, uiVars
<1>2. PICK k \in Knobs, i \in Inputs : SetValue(k, Clamp(i, AdcMax))
  BY DEF Turn
<1> DEFINE v == Clamp(i, AdcMax)
           d == [c |-> "adc", chip |-> k.chip, ch |-> k.ch, val |-> v]
           t == <<d>>
<1>3. k.chip \in Chips /\ k.ch \in Channels /\ v \in Int
  BY ControlsAssumption, StoreAssumption DEF Clamp
<1>4. controls' = [controls EXCEPT !.knob[k] = v] /\ SendCommand(d)
  BY <1>2 DEF SetValue, Adc
<1>5. d \in Commands /\ d.c = "adc"
  BY <1>3, CommandTypes
<1> HIDE DEF v
<1>6. controls'.on = controls.on /\ controls'.knob = [controls.knob EXCEPT ![k] = v]
  BY <1>4, HeardTypes
<1>7. sent' = sent \o t /\ sent \in Seq(Commands)
  BY <1>4, HeardTypes DEF SendCommand, SendAll
<1>8. KnobsTold(controls'.knob, sent')
  <2> SUFFICES ASSUME NEW y \in Knobs
               PROVE  controls'.knob[y] = LastSent(sent', AdcOf(y.chip, y.ch), "val", 0)
    BY DEF KnobsTold
  <2>1. LastSent(sent', AdcOf(y.chip, y.ch), "val", 0) =
          IF k.chip = y.chip /\ k.ch = y.ch THEN v ELSE LastSent(sent, AdcOf(y.chip, y.ch), "val", 0)
    BY <1>3, <1>7, AdcTells
  <2>2. controls.knob[y] = LastSent(sent, AdcOf(y.chip, y.ch), "val", 0)
    BY <1>1 DEF HeardInv, KnobsTold
  <2>3. k.chip = y.chip /\ k.ch = y.ch <=> k = y
    BY ControlsAssumption
  <2>4. controls'.knob[y] = IF k = y THEN v ELSE controls.knob[y]
    BY <1>6, HeardTypes
  <2>5. QED BY <2>1, <2>2, <2>3, <2>4
<1> HIDE DEF d
<1>9. t \in Seq(Commands) /\ Mute(t, {"din"}) /\ Mute(t, {"speed"})
  BY <1>5, OneMute
<1> HIDE DEF t
<1>10. ButtonsTold(controls.on, sent') /\ SpeedTold(qml.speed, sent')
  BY <1>1, <1>7, <1>9, MuteTells DEF HeardInv
<1>11. /\ app' = "widgets" => ButtonsTold(controls'.on, sent') /\ KnobsTold(controls'.knob, sent')
       /\ app' = "qml" => ChannelsTold(store'.adc, sent')
       /\ SpeedTold(qml'.speed, sent')
  BY <1>1, <1>6, <1>8, <1>10
<1>12. QED BY <1>11 DEF HeardInv

\* The invariant holds initially.
LEMMA HeardInit == Init => HeardInv
<1> SUFFICES ASSUME Init PROVE HeardInv
  OBVIOUS
<1>1. /\ sent = <<>> /\ store = EmptyStore /\ qml = QmlInit
      /\ controls = [held |-> NoButton, on |-> [b \in Buttons |-> FALSE], knob |-> [k \in Knobs |-> 0]]
  BY DEF Init
<1>2. \A Q, f, d : LastSent(<<>>, Q, f, d) = d
  BY DEF LastSent
<1>3. ButtonsTold(controls.on, sent) /\ KnobsTold(controls.knob, sent)
  <2>1. ButtonsTold([b \in Buttons |-> FALSE], <<>>)
    BY <1>2 DEF ButtonsTold
  <2>2. KnobsTold([k \in Knobs |-> 0], <<>>)
    BY <1>2 DEF KnobsTold
  <2>3. QED BY <1>1, <2>1, <2>2
<1>4. ChannelsTold(store.adc, sent)
  <2>1. \A x \in {y \in Targets : y.kind = "adc"} : Field(EmptyStore.adc[x.chip], x.name, 0) = 0
    <3>1. DOMAIN NoneYet = {}
      BY DEF NoneYet
    <3>2. QED BY <3>1, ControlsAssumption DEF EmptyStore, Field
  <2>2. Clamp(0, AdcMax) = 0
    BY StoreAssumption DEF Clamp
  <2>3. QED BY <1>1, <1>2, <2>1, <2>2 DEF ChannelsTold
<1>5. SpeedTold(qml.speed, sent)
  BY <1>1, <1>2 DEF SpeedTold, QmlInit
<1>6. QED BY <1>3, <1>4, <1>5 DEF HeardInv

\* Commands about no control.
LEMMA QuietFacts ==
  /\ \A c \in {"load", "unload", "force_busoff", "can_recover"}, x \in Chips : Mute(<<To(c, x)>>, {"din", "adc", "speed"})
  /\ \A id \in InjectIds : Mute(<<Inject(id)>>, {"din", "adc", "speed"})
  /\ \A c \in {"pause", "resume"} : Mute(<<[c |-> c]>>, {"din", "adc", "speed"})
  /\ \A x \in Chips, t \in Typed : Mute(<<[c |-> "uart", chip |-> x, data |-> Append(t, Newline)]>>, {"din", "adc", "speed"})
  /\ \A t : Mute(t, {"din", "adc", "speed"}) => Mute(t, {"din"}) /\ Mute(t, {"adc", "speed"})
<1>1. \A c \in {"load", "unload", "force_busoff", "can_recover"}, x \in Chips : Mute(<<To(c, x)>>, {"din", "adc", "speed"})
  BY DEF Mute, To
<1>2. \A id \in InjectIds : Mute(<<Inject(id)>>, {"din", "adc", "speed"})
  BY DEF Mute, Inject
<1>3. \A c \in {"pause", "resume"} : Mute(<<[c |-> c]>>, {"din", "adc", "speed"})
  BY DEF Mute
<1>4. \A x \in Chips, t \in Typed : Mute(<<[c |-> "uart", chip |-> x, data |-> Append(t, Newline)]>>, {"din", "adc", "speed"})
  BY DEF Mute
<1>5. \A t : Mute(t, {"din", "adc", "speed"}) => Mute(t, {"din"}) /\ Mute(t, {"adc", "speed"})
  BY DEF Mute
<1>6. QED BY <1>1, <1>2, <1>3, <1>4, <1>5

\* A slot that sends one of them.
LEMMA HeardQuiet ==
  ASSUME TypeOK, HeardInv, engine = "running", app' = app, controls' = controls, store' = store, qml' = qml,
         NEW d \in Commands, SendCommand(d), Mute(<<d>>, {"din", "adc", "speed"})
  PROVE  HeardInv'
<1> DEFINE t == <<d>>
<1>1. t \in Seq(Commands) /\ SendAll(t)
  BY DEF SendCommand
<1>2. Mute(t, {"din"}) /\ Mute(t, {"adc", "speed"})
  BY QuietFacts
<1> HIDE DEF t
<1>3. QED BY <1>1, <1>2, HeardMute

\* Every step keeps the invariant.
LEMMA HeardStep ==
  ASSUME TypeOK, HeardInv, [Next]_vars
  PROVE  HeardInv'
<1>0. CASE engine' # "running"
  BY <1>0 DEF HeardInv
<1> SUFFICES ASSUME engine' = "running" PROVE HeardInv'
  BY <1>0
<1>1. engine = "running" /\ app' = app
  BY StillRunning
<1>2. CASE UNCHANGED vars
  BY <1>1, <1>2, HeardStays DEF vars, uiVars
<1>3. CASE OnStdout \/ EngineWrites \/ EngineEnds
  BY <1>1, <1>3, HeardStays DEF OnStdout, EngineWrites, EngineEnds, uiVars
<1>4. CASE OnFinished
  BY <1>4 DEF OnFinished
<1>5. CASE DispatchLine
  <2>1. PICK e \in Arrivals : Delivers(e)
    BY <1>5, DeliveryExists
  <2>2. (Complete(e) => Dispatch(e)) /\ (~Complete(e) => qml' = qml /\ store' = store)
    BY <2>1 DEF Delivers, uiVars
  <2>3. store'.adc = store.adc
    <3>1. store \in Stores
      BY DEF TypeOK
    <3>2. Complete(e) => Update(store, e).adc = store.adc
      BY <3>1, UpdateParts
    <3>3. QED BY <2>2, <3>2 DEF Dispatch
  <2>4. qml'.speed = qml.speed
    BY <2>2, HearsKeepsSpeed DEF Dispatch
  <2>5. sent' = sent /\ controls' = controls
    BY <1>5 DEF DispatchLine
  <2>6. QED BY <1>1, <2>3, <2>4, <2>5, HeardStays
<1>6. CASE Read
  <2>1. PICK k \in qml.dirty : qml' = ReadSection(qml, store, k)
    BY <1>6 DEF Read
  <2>2. qml'.speed = qml.speed
    BY <2>1, HeardTypes DEF ReadSection
  <2>3. QED BY <1>1, <1>6, <2>2, HeardStays DEF Read
<1>7. CASE Tick
  <2>1. qml'.speed = qml.speed
    BY <1>7, HeardTypes DEF Tick, PlotTick
  <2>2. QED BY <1>1, <1>7, <2>1, HeardStays DEF Tick
<1>8. CASE SetAdc
  BY <1>1, <1>8, HeardSetAdc
<1>9. CASE SetSpeed
  BY <1>1, <1>9, HeardSetSpeed
<1>10. CASE FlashChip
  BY <1>1, <1>10, HeardFlashChip
<1>11. CASE QmlCommand
  <2>1. PICK name \in UsedSlots : \E cmds \in QmlSlots[name] : SendAll(cmds)
    BY <1>11 DEF QmlCommand
  <2>2. name \in DOMAIN QmlSlots
    BY SlotsAssumption
  <2>3. PICK cmds \in QmlSlots[name] : SendAll(cmds)
    BY <2>1
  <2>4. cmds \in Seq(Commands) /\ Mute(cmds, {"adc", "speed"})
    BY <2>2, SlotTypes DEF Mute
  <2>5. app = "qml" /\ controls' = controls /\ store' = store /\ qml' = qml
    BY <1>11 DEF QmlCommand, InWindow, uiVars
  <2>6. QED BY <1>1, <2>3, <2>4, <2>5, HeardMute
<1>12. CASE Press
  BY <1>1, <1>12, HeardPress
<1>13. CASE Release
  BY <1>1, <1>13, HeardRelease
<1>14. CASE Turn
  BY <1>1, <1>14, HeardTurn
<1>15. CASE TypeFilter \/ Clear \/ DecayUart
  BY <1>1, <1>15, HeardStays DEF TypeFilter, Clear, DecayUart
<1>16. CASE ToolbarCommand
  <2>1. PICK d \in {To("load", x) : x \in Chips} \cup {[c |-> c] : c \in {"pause", "resume"}} : SendCommand(d)
    BY <1>16 DEF ToolbarCommand
  <2>2. d \in Commands /\ Mute(<<d>>, {"din", "adc", "speed"})
    BY CommandTypes, QuietFacts
  <2>3. QED BY <1>1, <1>16, <2>1, <2>2, HeardQuiet DEF ToolbarCommand, uiVars
<1>17. CASE InjectFrame
  <2>1. PICK id \in InjectIds \ {BadId} : SendCommand(Inject(id))
    BY <1>17 DEF InjectFrame
  <2>2. Inject(id) \in Commands /\ Mute(<<Inject(id)>>, {"din", "adc", "speed"})
    BY CommandTypes, QuietFacts
  <2>3. QED BY <1>1, <1>17, <2>1, <2>2, HeardQuiet DEF InjectFrame, uiVars
<1>18. CASE ConsoleSend
  <2>1. PICK x \in Chips, text \in Typed \ {<<>>} : SendCommand([c |-> "uart", chip |-> x, data |-> Append(text, Newline)])
    BY <1>18 DEF ConsoleSend
  <2> DEFINE d == [c |-> "uart", chip |-> x, data |-> Append(text, Newline)]
  <2>2. d \in Commands /\ Mute(<<d>>, {"din", "adc", "speed"}) /\ SendCommand(d)
    BY <2>1, CommandTypes, QuietFacts
  <2> HIDE DEF d
  <2>3. QED BY <1>1, <1>18, <2>2, HeardQuiet DEF ConsoleSend, uiVars
<1>19. CASE FaultCommand
  <2>1. PICK c \in {"force_busoff", "can_recover"}, x \in Ecus : SendCommand(To(c, x))
    BY <1>19 DEF FaultCommand
  <2>2. To(c, x) \in Commands /\ Mute(<<To(c, x)>>, {"din", "adc", "speed"})
    BY CommandTypes, QuietFacts, ConsoleAssumption
  <2>3. QED BY <1>1, <1>19, <2>1, <2>2, HeardQuiet DEF FaultCommand, uiVars
<1>20. QED
  BY <1>2, <1>3, <1>4, <1>5, <1>6, <1>7, <1>8, <1>9, <1>10, <1>11, <1>12, <1>13, <1>14, <1>15, <1>16, <1>17, <1>18, <1>19 DEF Next

\* While the engine runs, what the window's controls show is what the engine
\* was told last: no slot shows a value it does not send, or sends one it does
\* not show (sim_proxy.py, qml_bridge.py, ecu_panel.py).
THEOREM ControlsAreHeardHolds == Spec => []ControlsAreHeard
<1>1. Init => HeardInv
  BY HeardInit
<1>2. TypeOK /\ HeardInv /\ [Next]_vars => HeardInv'
  BY HeardStep
<1>3. HeardInv => ControlsAreHeard
  BY HeardParts DEF HeardInv
<1>4. QED BY <1>1, <1>2, <1>3, TypeCorrect, PTL DEF Spec
=============================================================================
