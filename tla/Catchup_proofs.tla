---------------------------- MODULE Catchup_proofs ----------------------------
(***************************************************************************)
(* Proofs about the pure part of la-scheduler, for every schedule, every    *)
(* gap, both caps, every throttle and every backoff: what a walk over a     *)
(* schedule returns, what the replay throttle keeps, what a catch-up pass   *)
(* emits and reports, and which instant an entry is armed for.              *)
(*                                                                          *)
(* A fact about the value of a recursive function is shown as the functions *)
(* are defined: the equation has a solution on every initial segment, so    *)
(* the CHOOSE behind the definition satisfies it, and induction over the    *)
(* segment (as membership in a set of naturals) gives the rest.             *)
(***************************************************************************)
EXTENDS CatchupPasses, SequenceTheorems, FiniteSetTheorems, FunctionTheorems, NaturalsInduction,
        WellFoundedInduction, TLAPS

-----------------------------------------------------------------------------
(* Recursive definitions, by the least element of a set of numbers *)

\* A set of numbers that is not empty has a least member.
LEMMA LeastNat ==
  ASSUME NEW T \in SUBSET Nat, T # {}
  PROVE  \E m \in T : \A n \in T : m <= n
<1>1. PICK R : R = OpToRel(<, Nat)
  OBVIOUS
<1>2. IsWellFoundedOn(R, Nat)
  BY <1>1, NatLessThanWellFounded
<1>3. PICK m \in T : \A y \in T : <<y, m>> \notin R
  BY <1>2, WFMin
<1>4. \A x, y \in Nat : y < x => <<y, x>> \in R
  BY <1>1 DEF OpToRel
<1>5. \A n \in T : m \in Nat /\ n \in Nat /\ ~(n < m)
  BY <1>3, <1>4
<1> QED
  BY <1>5

\* Induction: what holds of 0 and of every successor holds of every number.
LEMMA SetInduction ==
  ASSUME NEW T, 0 \in T, \A n \in Nat : n \in T => n + 1 \in T
  PROVE  \A n \in Nat : n \in T
<1> SUFFICES ASSUME Nat \ T # {} PROVE FALSE
  OBVIOUS
<1>1. PICK m \in Nat \ T : \A n \in Nat \ T : m <= n
  BY LeastNat
<1>2. m # 0 /\ m - 1 \in Nat
  BY <1>1
<1>3. m - 1 \in T
  <2>1. ~(m <= m - 1)
    BY <1>1
  <2> QED
    BY <1>1, <1>2, <2>1
<1>4. (m - 1) + 1 \in T
  BY <1>2, <1>3
<1>5. (m - 1) + 1 = m
  BY <1>1
<1> QED
  BY <1>1, <1>4, <1>5

\* The equation of the walk over a schedule S from a to e.
IsWalk(f, S, a, e) ==
  f = [t \in 0..e |-> IF t <= a THEN <<>> ELSE IF t \in S THEN Append(f[t - 1], t) ELSE f[t - 1]]

\* The walk over a schedule is defined: a function as its equation says exists.
LEMMA WalkExists ==
  ASSUME NEW S, NEW a \in Nat
  PROVE  \A n \in Nat : \E f : IsWalk(f, S, a, n)
<1> DEFINE W(f, n) == IsWalk(f, S, a, n)
           T == {n \in Nat : \E f : W(f, n)}
<1>1. 0 \in T
  <2>1. PICK f : f = [t \in 0..0 |-> <<>>]
    OBVIOUS
  <2>2. W(f, 0)
    BY <2>1 DEF IsWalk
  <2> QED
    BY <2>2
<1>2. ASSUME NEW n \in Nat, n \in T PROVE n + 1 \in T
  <2>1. PICK f : W(f, n)
    BY <1>2
  <2>2. PICK v : v = IF n + 1 <= a THEN <<>> ELSE IF n + 1 \in S THEN Append(f[n], n + 1) ELSE f[n]
    OBVIOUS
  <2>3. PICK g : g = [t \in 0..(n + 1) |-> IF t = n + 1 THEN v ELSE f[t]]
    OBVIOUS
  <2>4. \A t \in 0..n : g[t] = f[t]
    BY <2>3
  <2>5. \A t \in 0..n : f[t] = IF t <= a THEN <<>> ELSE IF t \in S THEN Append(f[t - 1], t) ELSE f[t - 1]
    BY <2>1 DEF IsWalk
  <2>6. \A t \in 0..n : ~(t <= a) => t - 1 \in 0..n
    OBVIOUS
  <2>7. \A t \in 0..n : g[t] = IF t <= a THEN <<>> ELSE IF t \in S THEN Append(g[t - 1], t) ELSE g[t - 1]
    BY <2>4, <2>5, <2>6
  <2>8. g[n + 1] = IF n + 1 <= a THEN <<>> ELSE IF n + 1 \in S THEN Append(g[(n + 1) - 1], n + 1) ELSE g[(n + 1) - 1]
    BY <2>2, <2>3, <2>4
  <2>9. \A t \in 0..(n + 1) : t \in 0..n \/ t = n + 1
    OBVIOUS
  <2>10. \A t \in 0..(n + 1) : g[t] = IF t <= a THEN <<>> ELSE IF t \in S THEN Append(g[t - 1], t) ELSE g[t - 1]
    BY <2>7, <2>8, <2>9
  <2>11. W(g, n + 1)
    BY <2>3, <2>10 DEF IsWalk
  <2> QED
    BY <2>11
<1> HIDE DEF T
<1>3. \A n \in Nat : n \in T
  BY <1>1, <1>2, SetInduction
<1> QED
  BY <1>3 DEF T

\* So the walk is one.
LEMMA WalkIs ==
  ASSUME NEW S, NEW a \in Nat, NEW e \in Nat
  PROVE  \E f : IsWalk(f, S, a, e) /\ MissedFires(S, a, e) = f[e]
<1>1. PICK f : f = CHOOSE g : IsWalk(g, S, a, e)
  OBVIOUS
<1>2. \E g : IsWalk(g, S, a, e)
  BY WalkExists
<1>3. IsWalk(f, S, a, e)
  BY <1>1, <1>2, Zenon
<1>4. MissedFires(S, a, e) = f[e]
  BY <1>1 DEF MissedFires, IsWalk
<1> QED
  BY <1>3, <1>4

\* m lists the instants of S after a and not after e, in order.
Lists(m, S, a, e) ==
  /\ m \in Seq(Nat)
  /\ \A i \in 1..Len(m) : m[i] \in S /\ a < m[i] /\ m[i] <= e
  /\ \A i, j \in 1..Len(m) : i < j => m[i] < m[j]
  /\ \A t \in Nat : t \in S /\ a < t /\ t <= e => \E i \in 1..Len(m) : m[i] = t

\* The walk goes one instant further.
LEMMA WalkFurther ==
  ASSUME NEW S, NEW a \in Nat, NEW t \in Nat, NEW m, Lists(m, S, a, t), NEW n,
         n = IF t + 1 <= a THEN <<>> ELSE IF t + 1 \in S THEN Append(m, t + 1) ELSE m
  PROVE  Lists(n, S, a, t + 1)
<1>0. m \in Seq(Nat) /\ Len(m) \in Nat /\ \A i \in 1..Len(m) : m[i] \in Nat
  BY LenProperties, ElementOfSeq DEF Lists
<1>1. CASE t + 1 <= a
  <2>1. n \in Seq(Nat) /\ Len(n) = 0
    BY <1>1, EmptySeq
  <2>2. \A i : i \notin 1..Len(n)
    BY <2>1
  <2>3. \A u \in Nat : ~(a < u /\ u <= t + 1)
    BY <1>1
  <2> QED
    BY <2>1, <2>2, <2>3 DEF Lists
<1>2. CASE ~(t + 1 <= a) /\ t + 1 \in S
  <2>1. PICK u \in Nat : u = t + 1
    OBVIOUS
  <2>2. n = Append(m, u)
    BY <1>2, <2>1
  <2>3. /\ n \in Seq(Nat) /\ Len(n) = Len(m) + 1 /\ n[Len(m) + 1] = u
        /\ \A i \in 1..Len(m) : n[i] = m[i]
    BY <1>0, <2>2, AppendProperties
  <2>4. \A i \in 1..Len(n) : i = Len(m) + 1 \/ i \in 1..Len(m)
    BY <1>0, <2>3
  <2>5. \A i \in 1..Len(n) : n[i] \in S /\ a < n[i] /\ n[i] <= t + 1
    <3> SUFFICES ASSUME NEW i \in 1..Len(n) PROVE n[i] \in S /\ a < n[i] /\ n[i] <= t + 1
      OBVIOUS
    <3>1. CASE i = Len(m) + 1
      BY <1>2, <2>1, <2>3, <3>1
    <3>2. CASE i \in 1..Len(m)
      <4>1. m[i] \in Nat /\ m[i] <= t /\ a < m[i] /\ m[i] \in S /\ n[i] = m[i]
        BY <1>0, <2>3, <3>2 DEF Lists
      <4> QED
        BY <4>1
    <3> QED
      BY <2>4, <3>1, <3>2
  <2>6. \A i, j \in 1..Len(n) : i < j => n[i] < n[j]
    <3> SUFFICES ASSUME NEW i \in 1..Len(n), NEW j \in 1..Len(n), i < j PROVE n[i] < n[j]
      OBVIOUS
    <3>1. i \in 1..Len(m) /\ n[i] = m[i] /\ m[i] <= t /\ m[i] \in Nat
      BY <1>0, <2>3, <2>4 DEF Lists
    <3>2. CASE j = Len(m) + 1
      BY <2>1, <2>3, <3>1, <3>2
    <3>3. CASE j \in 1..Len(m)
      BY <2>3, <3>1, <3>3 DEF Lists
    <3> QED
      BY <2>4, <3>2, <3>3
  <2>7. ASSUME NEW v \in Nat, v \in S, a < v, v <= t + 1 PROVE \E i \in 1..Len(n) : n[i] = v
    <3>1. CASE v = t + 1
      <4>1. Len(m) + 1 \in 1..Len(n)
        BY <1>0, <2>3
      <4> QED
        BY <2>1, <2>3, <3>1, <4>1
    <3>2. CASE v # t + 1
      <4>1. v <= t
        BY <2>7, <3>2
      <4>2. PICK i \in 1..Len(m) : m[i] = v
        BY <2>7, <4>1 DEF Lists
      <4>3. i \in 1..Len(n) /\ n[i] = v
        BY <1>0, <2>3, <4>2
      <4> QED
        BY <4>3
    <3> QED
      BY <3>1, <3>2
  <2> QED
    BY <2>3, <2>5, <2>6, <2>7 DEF Lists
<1>3. CASE ~(t + 1 <= a) /\ ~(t + 1 \in S)
  <2>1. n = m
    BY <1>3
  <2>2. \A i \in 1..Len(m) : m[i] \in S /\ a < m[i] /\ m[i] <= t + 1
    <3>1. \A i \in 1..Len(m) : m[i] \in Nat /\ m[i] <= t
      BY <1>0 DEF Lists
    <3>2. \A x \in Nat : x <= t => x <= t + 1
      OBVIOUS
    <3> QED
      BY <3>1, <3>2 DEF Lists
  <2>3. \A v \in Nat : v \in S /\ v <= t + 1 => v <= t
    BY <1>3
  <2> QED
    BY <2>1, <2>2, <2>3 DEF Lists
<1> QED
  BY <1>1, <1>2, <1>3

\* count_missed walks over the instants of the gap, each once and in order.
LEMMA MissedAre ==
  ASSUME NEW S, NEW a \in Nat, NEW e \in Nat
  PROVE  Lists(MissedFires(S, a, e), S, a, e)
<1>1. PICK f : IsWalk(f, S, a, e) /\ MissedFires(S, a, e) = f[e]
  BY WalkIs
<1>2. \A t \in 0..e : f[t] = IF t <= a THEN <<>> ELSE IF t \in S THEN Append(f[t - 1], t) ELSE f[t - 1]
  BY <1>1 DEF IsWalk
<1> DEFINE T == {t \in Nat : t <= e => Lists(f[t], S, a, t)}
<1>3. 0 \in T
  <2>1. f[0] = <<>>
    BY <1>2
  <2>2. f[0] \in Seq(Nat) /\ Len(f[0]) = 0
    BY <2>1, EmptySeq
  <2>3. \A i : i \notin 1..Len(f[0])
    BY <2>2
  <2>4. \A u \in Nat : ~(a < u /\ u <= 0)
    OBVIOUS
  <2>5. Lists(f[0], S, a, 0)
    BY <2>2, <2>3, <2>4 DEF Lists
  <2> QED
    BY <2>5
<1>4. ASSUME NEW t \in Nat, t \in T PROVE t + 1 \in T
  <2> SUFFICES ASSUME t + 1 <= e PROVE Lists(f[t + 1], S, a, t + 1)
    OBVIOUS
  <2>1. t \in 0..e /\ t + 1 \in 0..e /\ (t + 1) - 1 = t /\ t <= e
    OBVIOUS
  <2>2. Lists(f[t], S, a, t)
    BY <1>4, <2>1
  <2>3. f[t + 1] = IF t + 1 <= a THEN <<>> ELSE IF t + 1 \in S THEN Append(f[t], t + 1) ELSE f[t]
    BY <1>2, <2>1
  <2> QED
    BY <2>2, <2>3, WalkFurther
<1> HIDE DEF T
<1>5. \A t \in Nat : t \in T
  BY <1>3, <1>4, SetInduction
<1>6. e \in T
  BY <1>5
<1>7. Lists(f[e], S, a, e)
  BY <1>6 DEF T
<1> QED
  BY <1>1, <1>7

\* The first n members of m.
First(m, n) == {m[i] : i \in 1..n}

\* A list is as long as its set is large.
LEMMA ListCounts ==
  ASSUME NEW S, NEW a \in Nat, NEW e \in Nat, NEW m, Lists(m, S, a, e), NEW r \in 0..Len(m)
  PROVE  IsFiniteSet(First(m, r)) /\ Cardinality(First(m, r)) = r
<1>0. m \in Seq(Nat) /\ Len(m) \in Nat /\ r \in Nat /\ \A i \in 1..Len(m) : m[i] \in Nat
  BY LenProperties, ElementOfSeq DEF Lists
<1>1. PICK D : D = First(m, r)
  OBVIOUS
<1>2. PICK g : g = [i \in 1..r |-> m[i]]
  OBVIOUS
<1>3. g \in [1..r -> D]
  BY <1>1, <1>2 DEF First
<1>4. \A i, j \in 1..r : g[i] = g[j] => i = j
  <2> SUFFICES ASSUME NEW i \in 1..r, NEW j \in 1..r, g[i] = g[j] PROVE i = j
    OBVIOUS
  <2>1. m[i] = m[j] /\ i \in 1..Len(m) /\ j \in 1..Len(m) /\ m[i] \in Nat
    BY <1>0, <1>2
  <2>2. ~(i < j) /\ ~(j < i)
    BY <2>1 DEF Lists
  <2> QED
    BY <2>2
<1>5. \A d \in D : \E i \in 1..r : g[i] = d
  BY <1>1, <1>2 DEF First
<1>6. g \in Bijection(1..r, D)
  BY <1>3, <1>4, <1>5, Fun_IsBij
<1>7. IsFiniteSet(D) /\ Cardinality(D) = r
  BY <1>0, <1>6, FS_CountingElements, FS_NatBijection, FS_Bijection DEF ExistsBijection
<1> QED
  BY <1>1, <1>7

-----------------------------------------------------------------------------
(* The throttle *)

\* The numbers of s go up.
Rising(s) == s \in Seq(Nat) /\ \A i, j \in 1..Len(s) : i < j => s[i] < s[j]

\* The equation of the throttle's walk.
IsThrottle(f, m, k) ==
  f = [i \in 0..Len(m) |->
        IF i = 0 THEN <<>>
        ELSE IF f[i - 1] = <<>> \/ m[i] - Last(f[i - 1]) >= k
             THEN Append(f[i - 1], m[i]) ELSE f[i - 1]]

\* One step of the throttle.
ThrottleStep(f, m, k, i) ==
  f[i] = IF i = 0 THEN <<>>
         ELSE IF f[i - 1] = <<>> \/ m[i] - Last(f[i - 1]) >= k
              THEN Append(f[i - 1], m[i]) ELSE f[i - 1]

\* The walk of the throttle up to n.
ThrottleUpTo(f, m, k, n) == f = [i \in 0..n |-> f[i]] /\ \A i \in 0..n : ThrottleStep(f, m, k, i)

\* The throttle is defined: a function as its equation says exists.
LEMMA ThrottleExists ==
  ASSUME NEW m, NEW k
  PROVE  \A n \in Nat : \E f : ThrottleUpTo(f, m, k, n)
<1> DEFINE W(f, n) == ThrottleUpTo(f, m, k, n)
           T == {n \in Nat : \E f : W(f, n)}
<1>1. 0 \in T
  <2>1. PICK f : f = [t \in 0..0 |-> <<>>]
    OBVIOUS
  <2>2. W(f, 0)
    BY <2>1 DEF ThrottleUpTo, ThrottleStep
  <2> QED
    BY <2>2
<1>2. ASSUME NEW n \in Nat, n \in T PROVE n + 1 \in T
  <2>1. PICK f : W(f, n)
    BY <1>2
  <2>2. PICK v : v = IF f[n] = <<>> \/ m[n + 1] - Last(f[n]) >= k THEN Append(f[n], m[n + 1]) ELSE f[n]
    OBVIOUS
  <2>3. PICK g : g = [i \in 0..(n + 1) |-> IF i = n + 1 THEN v ELSE f[i]]
    OBVIOUS
  <2>4. \A i \in 0..n : g[i] = f[i]
    BY <2>3
  <2>5. ASSUME NEW i \in 0..n PROVE ThrottleStep(g, m, k, i)
    <3>1. ThrottleStep(f, m, k, i) /\ g[i] = f[i]
      BY <2>1, <2>4 DEF ThrottleUpTo
    <3>2. CASE i = 0
      BY <3>1, <3>2 DEF ThrottleStep
    <3>3. CASE i # 0
      <4>1. g[i - 1] = f[i - 1]
        BY <2>4, <3>3
      <4> QED
        BY <3>1, <3>3, <4>1 DEF ThrottleStep
    <3> QED
      BY <3>2, <3>3
  <2>6. g[n + 1] = v /\ g[(n + 1) - 1] = f[n]
    BY <2>3, <2>4
  <2>7. ThrottleStep(g, m, k, n + 1)
    BY <2>2, <2>6 DEF ThrottleStep
  <2>8. \A i \in 0..(n + 1) : i \in 0..n \/ i = n + 1
    OBVIOUS
  <2>9. \A i \in 0..(n + 1) : ThrottleStep(g, m, k, i)
    BY <2>5, <2>7, <2>8
  <2>10. g = [i \in 0..(n + 1) |-> g[i]]
    BY <2>3
  <2> QED
    BY <2>9, <2>10 DEF ThrottleUpTo
<1> HIDE DEF T
<1>3. \A n \in Nat : n \in T
  BY <1>1, <1>2, SetInduction
<1> QED
  BY <1>3 DEF T

\* So the throttle is one.
LEMMA ThrottleIs ==
  ASSUME NEW m, Len(m) \in Nat, NEW k
  PROVE  \E f : /\ \A i \in 0..Len(m) : ThrottleStep(f, m, k, i)
                /\ Throttled(m, k) = f[Len(m)]
<1>1. PICK f : f = CHOOSE g : IsThrottle(g, m, k)
  OBVIOUS
<1>2. PICK g : ThrottleUpTo(g, m, k, Len(m))
  BY ThrottleExists
<1>3. g = [i \in 0..Len(m) |-> g[i]] /\ \A i \in 0..Len(m) : ThrottleStep(g, m, k, i)
  BY <1>2 DEF ThrottleUpTo
<1>4. IsThrottle(g, m, k)
  BY <1>3 DEF IsThrottle, ThrottleStep
<1>5. IsThrottle(f, m, k)
  BY <1>1, <1>4, Zenon
<1>6. \A i \in 0..Len(m) : ThrottleStep(f, m, k, i)
  BY <1>5 DEF IsThrottle, ThrottleStep
<1>7. Throttled(m, k) = f[Len(m)]
  BY <1>1 DEF Throttled, IsThrottle
<1> QED
  BY <1>6, <1>7

\* s is what the throttle keeps of the first n members of m.
Keeps(s, m, k, n) ==
  /\ s \in Seq(Nat)
  /\ \A x \in 1..Len(s) : \E j \in 1..n : s[x] = m[j]
  /\ n > 0 => Len(s) > 0 /\ s[1] = m[1]
  /\ \A x \in 1..(Len(s) - 1) : s[x] < s[x + 1] /\ s[x + 1] - s[x] >= k
  /\ \A j \in 1..n : \/ \E x \in 1..Len(s) : s[x] = m[j]
                     \/ \E x \in 1..Len(s) : s[x] < m[j] /\ m[j] - s[x] < k

\* The throttle goes one member further.
LEMMA KeepsFurther ==
  ASSUME NEW m, Rising(m), NEW k \in Nat, NEW n \in Nat, n + 1 <= Len(m),
         NEW s, Keeps(s, m, k, n), NEW r,
         r = IF s = <<>> \/ m[n + 1] - Last(s) >= k THEN Append(s, m[n + 1]) ELSE s
  PROVE  Keeps(r, m, k, n + 1)
<1>0. /\ Len(m) \in Nat /\ \A i \in 1..Len(m) : m[i] \in Nat
      /\ s \in Seq(Nat) /\ Len(s) \in Nat /\ \A i \in 1..Len(s) : s[i] \in Nat
      /\ n + 1 \in 1..Len(m)
  BY LenProperties, ElementOfSeq DEF Rising, Keeps
<1>1. PICK u \in Nat : u = m[n + 1]
  BY <1>0
<1>2. \A j \in 1..n : j \in 1..Len(m) /\ m[j] < u
  BY <1>0, <1>1 DEF Rising
<1>3. \A x \in 1..Len(s) : s[x] < u
  BY <1>2 DEF Keeps
<1>4. \A j \in 1..(n + 1) : j \in 1..n \/ j = n + 1
  OBVIOUS
<1>5. CASE s = <<>> \/ u - Last(s) >= k
  <2>1. r = Append(s, u)
    BY <1>1, <1>5
  <2>2. /\ r \in Seq(Nat) /\ Len(r) = Len(s) + 1 /\ r[Len(s) + 1] = u
        /\ \A i \in 1..Len(s) : r[i] = s[i]
    BY <1>0, <2>1, AppendProperties
  <2>3. \A x \in 1..Len(r) : x \in 1..Len(s) \/ x = Len(s) + 1
    BY <1>0, <2>2
  <2>4. \A x \in 1..Len(r) : \E j \in 1..(n + 1) : r[x] = m[j]
    <3> SUFFICES ASSUME NEW x \in 1..Len(r) PROVE \E j \in 1..(n + 1) : r[x] = m[j]
      OBVIOUS
    <3>1. CASE x \in 1..Len(s)
      <4>1. PICK j \in 1..n : s[x] = m[j]
        BY <3>1 DEF Keeps
      <4>2. j \in 1..(n + 1) /\ r[x] = m[j]
        BY <2>2, <3>1, <4>1
      <4> QED
        BY <4>2
    <3>2. CASE x = Len(s) + 1
      <4>1. n + 1 \in 1..(n + 1) /\ r[x] = m[n + 1]
        BY <1>1, <2>2, <3>2
      <4> QED
        BY <4>1
    <3> QED
      BY <2>3, <3>1, <3>2
  <2>5. Len(r) > 0 /\ r[1] = m[1]
    <3>1. CASE n = 0
      <4>1. Len(s) = 0
        <5>1. \A x \in 1..Len(s) : \E j \in 1..0 : s[x] = m[j]
          BY <3>1 DEF Keeps
        <5>2. \A x : x \notin 1..Len(s)
          BY <5>1
        <5>3. 1 \notin 1..Len(s)
          BY <5>2
        <5> QED
          BY <1>0, <5>3
      <4> QED
        BY <1>1, <2>2, <3>1, <4>1
    <3>2. CASE n # 0
      <4>1. Len(s) > 0 /\ s[1] = m[1]
        BY <3>2 DEF Keeps
      <4> QED
        BY <1>0, <2>2, <4>1
    <3> QED
      BY <3>1, <3>2
  <2>6. ASSUME NEW x \in 1..(Len(r) - 1) PROVE r[x] < r[x + 1] /\ r[x + 1] - r[x] >= k
    <3>1. x \in 1..Len(s) /\ r[x] = s[x] /\ s[x] \in Nat
      BY <1>0, <2>2
    <3>2. CASE x = Len(s)
      <4>1. s # <<>> /\ Last(s) = s[Len(s)]
        BY <3>1, <3>2, <1>0 DEF Last
      <4>2. r[x + 1] = u /\ s[x] < u /\ u - s[x] >= k
        BY <1>3, <1>5, <2>2, <3>1, <3>2, <4>1
      <4> QED
        BY <3>1, <4>2
    <3>3. CASE x # Len(s)
      <4>1. x \in 1..(Len(s) - 1) /\ x + 1 \in 1..Len(s)
        BY <1>0, <3>1, <3>3
      <4>2. r[x + 1] = s[x + 1] /\ s[x] < s[x + 1] /\ s[x + 1] - s[x] >= k
        BY <2>2, <4>1 DEF Keeps
      <4> QED
        BY <3>1, <4>2
    <3> QED
      BY <3>2, <3>3
  <2>7. ASSUME NEW j \in 1..(n + 1)
        PROVE \/ \E x \in 1..Len(r) : r[x] = m[j]
              \/ \E x \in 1..Len(r) : r[x] < m[j] /\ m[j] - r[x] < k
    <3>0. \A x \in 1..Len(s) : x \in 1..Len(r) /\ r[x] = s[x]
      BY <1>0, <2>2
    <3>1. CASE j \in 1..n
      <4>1. \/ \E x \in 1..Len(s) : s[x] = m[j]
            \/ \E x \in 1..Len(s) : s[x] < m[j] /\ m[j] - s[x] < k
        BY <3>1 DEF Keeps
      <4> QED
        BY <3>0, <4>1
    <3>2. CASE j = n + 1
      <4>1. Len(s) + 1 \in 1..Len(r) /\ r[Len(s) + 1] = m[j]
        BY <1>0, <1>1, <2>2, <3>2
      <4> QED
        BY <4>1
    <3> QED
      BY <1>4, <3>1, <3>2
  <2> QED
    BY <2>2, <2>4, <2>5, <2>6, <2>7 DEF Keeps
<1>6. CASE ~(s = <<>> \/ u - Last(s) >= k)
  <2>1. r = s
    BY <1>1, <1>6
  <2>2. Len(s) # 0
    BY <1>0, <1>6, EmptySeq
  <2>3. Len(s) \in 1..Len(s) /\ Last(s) = s[Len(s)]
    BY <1>0, <2>2 DEF Last
  <2>4. s[Len(s)] \in Nat /\ s[Len(s)] < u /\ u - s[Len(s)] < k
    BY <1>0, <1>3, <1>6, <2>3
  <2>5. n > 0
    <3>1. PICK j \in 1..n : s[Len(s)] = m[j]
      BY <2>3 DEF Keeps
    <3> QED
      BY <3>1
  <2>6. ASSUME NEW x \in 1..Len(s) PROVE \E j \in 1..(n + 1) : s[x] = m[j]
    <3>1. PICK j \in 1..n : s[x] = m[j]
      BY <2>6 DEF Keeps
    <3>2. j \in 1..(n + 1)
      BY <3>1
    <3> QED
      BY <3>1, <3>2
  <2>7. ASSUME NEW j \in 1..(n + 1)
        PROVE \/ \E x \in 1..Len(s) : s[x] = m[j]
              \/ \E x \in 1..Len(s) : s[x] < m[j] /\ m[j] - s[x] < k
    <3>1. CASE j \in 1..n
      BY <3>1 DEF Keeps
    <3>2. CASE j = n + 1
      BY <1>1, <2>3, <2>4, <3>2
    <3> QED
      BY <1>4, <3>1, <3>2
  <2> QED
    BY <1>0, <2>1, <2>5, <2>6, <2>7 DEF Keeps
<1> QED
  BY <1>5, <1>6

\* The replay throttle keeps the first fire, keeps its distance, and leaves out
\* only fires that are too close to one it kept.
LEMMA ThrottledKeeps ==
  ASSUME NEW m, Rising(m), NEW k \in Nat
  PROVE  Keeps(Throttled(m, k), m, k, Len(m))
<1>0. Len(m) \in Nat
  BY LenProperties DEF Rising
<1>1. PICK f : (\A i \in 0..Len(m) : ThrottleStep(f, m, k, i)) /\ Throttled(m, k) = f[Len(m)]
  BY <1>0, ThrottleIs
<1> DEFINE T == {i \in Nat : i <= Len(m) => Keeps(f[i], m, k, i)}
<1>2. 0 \in T
  <2>1. ThrottleStep(f, m, k, 0)
    BY <1>0, <1>1
  <2>2. f[0] = <<>>
    BY <2>1 DEF ThrottleStep
  <2>3. f[0] \in Seq(Nat) /\ Len(f[0]) = 0
    BY <2>2, EmptySeq
  <2>4. \A i : i \notin 1..Len(f[0]) /\ i \notin 1..(Len(f[0]) - 1) /\ i \notin 1..0
    BY <2>3
  <2>5. Keeps(f[0], m, k, 0)
    BY <2>3, <2>4 DEF Keeps
  <2> QED
    BY <2>5
<1>3. ASSUME NEW i \in Nat, i \in T PROVE i + 1 \in T
  <2> SUFFICES ASSUME i + 1 <= Len(m) PROVE Keeps(f[i + 1], m, k, i + 1)
    OBVIOUS
  <2>1. i + 1 \in 0..Len(m) /\ (i + 1) - 1 = i /\ i + 1 # 0 /\ i <= Len(m)
    BY <1>0
  <2>2. Keeps(f[i], m, k, i)
    BY <1>3, <2>1
  <2>3. ThrottleStep(f, m, k, i + 1)
    BY <1>1, <2>1
  <2>4. f[i + 1] = IF f[i] = <<>> \/ m[i + 1] - Last(f[i]) >= k THEN Append(f[i], m[i + 1]) ELSE f[i]
    BY <2>1, <2>3 DEF ThrottleStep
  <2> QED
    BY <2>2, <2>4, KeepsFurther
<1> HIDE DEF T
<1>4. \A i \in Nat : i \in T
  BY <1>2, <1>3, SetInduction
<1>5. Len(m) \in T
  BY <1>0, <1>4
<1>6. Keeps(f[Len(m)], m, k, Len(m))
  BY <1>0, <1>5 DEF T
<1> QED
  BY <1>1, <1>6

-----------------------------------------------------------------------------
(* One catch-up pass *)

\* What a pass of mode and throttle k makes of the effective backlog E, of a gap
\* of n ticks.
OutcomeOf(o, E, n, mode_, k) ==
  /\ n = 0 \/ mode_ = "skip" => o.fires = <<>>
  /\ n # 0 /\ mode_ = "coalesce" =>
       o.fires = << [at |-> Last(E), count |-> Len(E), ticks |-> ToSet(E)] >>
  /\ n # 0 /\ mode_ = "replay" =>
       o.fires = [i \in 1..Len(Throttled(E, k)) |->
                    [at |-> Throttled(E, k)[i], count |-> 1, ticks |-> {Throttled(E, k)[i]}]]
  /\ o.truncated =
       IF n >= MAX_CATCHUP
       THEN [missed |-> IF n >= COUNT_CAP THEN COUNT_CAP ELSE n, executed |-> MAX_CATCHUP,
             dropped |-> (IF n >= COUNT_CAP THEN COUNT_CAP ELSE n) - MAX_CATCHUP,
             saturated |-> n >= COUNT_CAP]
       ELSE None

\* E is the beginning of m that fits under the cap.
Capped(E, m) ==
  /\ E \in Seq(Nat)
  /\ Len(E) = IF Len(m) >= MAX_CATCHUP THEN MAX_CATCHUP ELSE Len(m)
  /\ \A i \in 1..Len(E) : E[i] = m[i]

\* The beginning of a sequence.
LEMMA Beginning ==
  ASSUME NEW m \in Seq(Nat), NEW n \in 0..Len(m)
  PROVE  /\ SubSeq(m, 1, n) \in Seq(Nat) /\ Len(SubSeq(m, 1, n)) = n
         /\ \A i \in 1..n : SubSeq(m, 1, n)[i] = m[i]
<1>1. Len(m) \in Nat /\ \A i \in 1..Len(m) : m[i] \in Nat
  BY LenProperties, ElementOfSeq
<1>2. n \in Nat /\ \A i \in 1..n : m[i] \in Nat
  BY <1>1
<1>3. SubSeq(m, 1, n) = [i \in 1..n |-> m[i]]
  BY <1>1, <1>2
<1>4. [i \in 1..n |-> m[i]] \in Seq(Nat) /\ Len([i \in 1..n |-> m[i]]) = n
  BY <1>1, <1>2
<1> QED
  BY <1>3, <1>4

\* process_missed_fires resolves the beginning of the gap that fits under the
\* cap, and reports the rest.
LEMMA OutcomeIs ==
  ASSUME NEW S \in SUBSET Nat, NEW a \in Nat, NEW e \in Nat, NEW mode_ \in CatchupMode, NEW k \in Nat
  PROVE  \E m, E : /\ Lists(m, S, a, e) /\ Capped(E, m)
                   /\ OutcomeOf(MissedOutcome(S, a, e, mode_, k), E, Len(m), mode_, k)
<1>1. PICK m : m = MissedFires(S, a, e)
  OBVIOUS
<1>2. Lists(m, S, a, e)
  BY <1>1, MissedAre
<1>3. m \in Seq(Nat) /\ Len(m) \in Nat
  BY <1>2, LenProperties DEF Lists
<1>4. PICK n \in Nat : n = Len(m)
  BY <1>3
<1>5. PICK total \in Nat : total = IF n >= COUNT_CAP THEN COUNT_CAP ELSE n
  BY CatchupAssumption
<1>6. PICK r \in Nat : r = IF n >= MAX_CATCHUP THEN MAX_CATCHUP ELSE n
  BY CatchupAssumption
<1>7. /\ (IF total < MAX_CATCHUP THEN total ELSE MAX_CATCHUP) = r
      /\ (total >= MAX_CATCHUP) <=> (n >= MAX_CATCHUP)
      /\ (total = 0) <=> (n = 0)
      /\ r \in 0..n /\ r <= MAX_CATCHUP
      /\ n >= MAX_CATCHUP => r = MAX_CATCHUP
  BY <1>5, <1>6, CatchupAssumption
<1>8. PICK E : E = SubSeq(m, 1, r)
  OBVIOUS
<1>9. E \in Seq(Nat) /\ Len(E) = r /\ \A i \in 1..r : E[i] = m[i]
  BY <1>3, <1>4, <1>7, <1>8, Beginning
<1>10. Capped(E, m)
  BY <1>4, <1>6, <1>9 DEF Capped
<1>11. PICK counted : counted = CountMissed(S, a, e, MAX_CATCHUP, COUNT_CAP)
  OBVIOUS
<1>12. counted.earliest = E /\ counted.total = total /\ counted.saturated = (n >= COUNT_CAP)
  BY <1>1, <1>4, <1>5, <1>7, <1>8, <1>11 DEF CountMissed
<1>13. (IF Len(E) > MAX_CATCHUP THEN MAX_CATCHUP ELSE Len(E)) = r
  BY <1>7, <1>9, CatchupAssumption
<1>14. SubSeq(E, 1, r) = E
  <2>1. r \in 0..Len(E)
    BY <1>9
  <2>2. PICK F : F = SubSeq(E, 1, r)
    OBVIOUS
  <2>3. F \in Seq(Nat) /\ Len(F) = Len(E) /\ \A i \in 1..Len(E) : F[i] = E[i]
    BY <1>9, <2>1, <2>2, Beginning
  <2> QED
    BY <1>9, <2>2, <2>3, SeqEqual
<1>15. PICK sat : sat = (n >= COUNT_CAP)
  OBVIOUS
<1>16. PICK o : o = ApplyCatchup(E, total, sat, mode_, k)
  OBVIOUS
<1>17. MissedOutcome(S, a, e, mode_, k) = o
  BY <1>11, <1>12, <1>15, <1>16 DEF MissedOutcome
<1>18. o.truncated = IF total >= MAX_CATCHUP
                     THEN [missed |-> total, executed |-> r, dropped |-> total - r, saturated |-> sat]
                     ELSE None
  BY <1>13, <1>16 DEF ApplyCatchup
<1>19. o.fires =
        CASE total = 0 \/ mode_ = "skip" -> <<>>
          [] total # 0 /\ mode_ = "coalesce" ->
               << [at |-> Last(E), count |-> Len(E), ticks |-> ToSet(E)] >>
          [] total # 0 /\ mode_ = "replay" ->
               [i \in 1..Len(Throttled(E, k)) |->
                  [at |-> Throttled(E, k)[i], count |-> 1, ticks |-> {Throttled(E, k)[i]}]]
  BY <1>13, <1>14, <1>16 DEF ApplyCatchup
<1>20. n = 0 \/ mode_ = "skip" => o.fires = <<>>
  BY <1>7, <1>19
<1>21. n # 0 /\ mode_ = "coalesce" =>
         o.fires = << [at |-> Last(E), count |-> Len(E), ticks |-> ToSet(E)] >>
  BY <1>7, <1>19
<1>22. n # 0 /\ mode_ = "replay" =>
         o.fires = [i \in 1..Len(Throttled(E, k)) |->
                      [at |-> Throttled(E, k)[i], count |-> 1, ticks |-> {Throttled(E, k)[i]}]]
  BY <1>7, <1>19
<1>23. OutcomeOf(o, E, n, mode_, k)
  BY <1>5, <1>7, <1>15, <1>18, <1>20, <1>21, <1>22 DEF OutcomeOf
<1> QED
  BY <1>2, <1>4, <1>10, <1>17, <1>23

\* The ticks of a gap are the members of the list.
LEMMA GapIs ==
  ASSUME NEW S \in SUBSET Nat, NEW a \in Nat, NEW e \in Nat, NEW m, Lists(m, S, a, e)
  PROVE  {t \in S : a < t /\ t <= e} = First(m, Len(m))
<1>1. ASSUME NEW t \in S, a < t, t <= e PROVE \E i \in 1..Len(m) : t = m[i]
  BY <1>1 DEF Lists
<1>2. ASSUME NEW i \in 1..Len(m) PROVE m[i] \in S /\ a < m[i] /\ m[i] <= e
  BY <1>2 DEF Lists
<1> QED
  BY <1>1, <1>2 DEF First

\* A list goes up, and so does its beginning.
LEMMA CappedRises ==
  ASSUME NEW S, NEW a \in Nat, NEW e \in Nat, NEW m, Lists(m, S, a, e), NEW E, Capped(E, m)
  PROVE  Rising(E) /\ Len(E) \in 0..Len(m) /\ Len(m) \in Nat /\ Len(E) \in Nat
<1>1. Len(m) \in Nat
  BY LenProperties DEF Lists
<1>2. Len(E) \in 0..Len(m)
  BY <1>1, CatchupAssumption DEF Capped
<1>3. \A i \in 1..Len(E) : i \in 1..Len(m)
  BY <1>1, <1>2
<1> QED
  BY <1>1, <1>2, <1>3 DEF Rising, Capped, Lists

\* The members of a sequence.
LEMMA ToSetIs ==
  ASSUME NEW s, s \in Seq(Nat)
  PROVE  ToSet(s) = First(s, Len(s))
<1>1. DOMAIN s = 1..Len(s)
  BY LenProperties
<1> QED
  BY <1>1 DEF ToSet, First

\* The ticks that the fires of o stand for.
TicksOf(o) == UNION {f.ticks : f \in ToSet(o.fires)}

\* What the pass of a coalescing cron, or of one that replays every fire, emits.
LEMMA EmittedIs ==
  ASSUME NEW S \in SUBSET Nat, NEW a \in Nat, NEW e \in Nat, NEW m, Lists(m, S, a, e),
         NEW E, Capped(E, m), NEW o, NEW md, NEW k \in Nat, OutcomeOf(o, E, Len(m), md, k),
         md = "coalesce" \/ (md = "replay" /\ k = 0)
  PROVE  TicksOf(o) = First(m, Len(E))
<1>0. /\ E \in Seq(Nat) /\ Rising(E) /\ Len(E) \in Nat /\ Len(m) \in Nat /\ Len(E) \in 0..Len(m)
      /\ (Len(m) = 0 => Len(E) = 0) /\ \A i \in 1..Len(E) : E[i] = m[i]
  BY CappedRises, CatchupAssumption DEF Capped
<1>1. ToSet(E) = First(m, Len(E))
  <2>1. ToSet(E) = First(E, Len(E))
    BY <1>0, ToSetIs
  <2>2. First(E, Len(E)) = First(m, Len(E))
    BY <1>0 DEF First
  <2> QED
    BY <2>1, <2>2
<1>2. CASE Len(m) = 0
  <2>1. o.fires = <<>>
    BY <1>2 DEF OutcomeOf
  <2>2. ToSet(o.fires) = {}
    BY <2>1 DEF ToSet
  <2>3. \A i : i \notin 1..Len(E)
    BY <1>0, <1>2
  <2> QED
    BY <2>2, <2>3 DEF First, TicksOf
<1>3. CASE Len(m) # 0 /\ md = "coalesce"
  <2>1. PICK g : g = [at |-> Last(E), count |-> Len(E), ticks |-> ToSet(E)]
    OBVIOUS
  <2>2. o.fires = << g >> /\ g.ticks = ToSet(E)
    BY <1>3, <2>1 DEF OutcomeOf
  <2>3. ToSet(o.fires) = {g}
    BY <2>2 DEF ToSet
  <2> QED
    BY <1>1, <2>2, <2>3 DEF TicksOf
<1>4. CASE Len(m) # 0 /\ md = "replay" /\ k = 0
  <2>1. PICK s : s = Throttled(E, k)
    OBVIOUS
  <2>2. Keeps(s, E, k, Len(E))
    BY <1>0, <2>1, ThrottledKeeps
  <2>3. Len(s) \in Nat /\ \A i \in 1..Len(s) : s[i] \in Nat
    BY <2>2, LenProperties, ElementOfSeq DEF Keeps
  <2>4. o.fires = [i \in 1..Len(s) |-> [at |-> s[i], count |-> 1, ticks |-> {s[i]}]]
    BY <1>4, <2>1 DEF OutcomeOf
  <2>5. ToSet(o.fires) = {[at |-> s[i], count |-> 1, ticks |-> {s[i]}] : i \in 1..Len(s)}
    BY <2>4 DEF ToSet
  <2>6. ASSUME NEW v PROVE v \in UNION {f.ticks : f \in ToSet(o.fires)} <=> \E i \in 1..Len(s) : v = s[i]
    <3>1. v \in UNION {f.ticks : f \in ToSet(o.fires)} <=> \E f \in ToSet(o.fires) : v \in f.ticks
      OBVIOUS
    <3>2. (\E f \in ToSet(o.fires) : v \in f.ticks) <=>
            \E i \in 1..Len(s) : v \in [at |-> s[i], count |-> 1, ticks |-> {s[i]}].ticks
      BY <2>5, Zenon
    <3> QED
      BY <3>1, <3>2
  <2>7. \A x \in 1..Len(s) : \E j \in 1..Len(E) : s[x] = E[j]
    BY <2>2 DEF Keeps
  <2>8. ASSUME NEW j \in 1..Len(E) PROVE \E x \in 1..Len(s) : s[x] = E[j]
    <3>1. E[j] \in Nat
      BY <1>0, ElementOfSeq
    <3>2. \A x \in 1..Len(s) : ~(s[x] < E[j] /\ E[j] - s[x] < k)
      BY <1>4, <2>3, <3>1
    <3> QED
      BY <2>2, <3>2 DEF Keeps
  <2>9. ASSUME NEW v PROVE v \in First(m, Len(E)) <=> \E i \in 1..Len(s) : v = s[i]
    BY <1>0, <2>7, <2>8 DEF First
  <2> QED
    BY <2>6, <2>9 DEF TicksOf
<1> QED
  BY <1>2, <1>3, <1>4

\* A pass that has run took the gap between its two watermarks.
PassInv ==
  /\ spec \in SUBSET Nat /\ mode \in CatchupMode /\ throttle \in Nat
  /\ watermark \in Nat /\ window \in Nat
  /\ outcome = None \/ outcome = MissedOutcome(spec, window, watermark, mode, throttle)

\* The report of a pass adds up.
LEMMA PassIsHonest == PassInv => TruncationIsHonest
<1> SUFFICES ASSUME PassInv, outcome # None
             PROVE IF outcome.truncated = None
                   THEN /\ Cardinality(Gap) < MAX_CATCHUP
                        /\ mode = "coalesce" \/ (mode = "replay" /\ throttle = 0) => Emitted = Gap
                   ELSE /\ outcome.truncated.executed + outcome.truncated.dropped = outcome.truncated.missed
                        /\ outcome.truncated.executed = MAX_CATCHUP
                        /\ IF outcome.truncated.saturated
                           THEN outcome.truncated.missed <= Cardinality(Gap)
                           ELSE outcome.truncated.missed = Cardinality(Gap)
                        /\ mode = "coalesce" \/ (mode = "replay" /\ throttle = 0) =>
                             /\ Cardinality(Emitted) = MAX_CATCHUP
                             /\ \A t \in Emitted, u \in Gap \ Emitted : t < u
  BY DEF TruncationIsHonest
<1>1. /\ spec \in SUBSET Nat /\ mode \in CatchupMode /\ throttle \in Nat
      /\ watermark \in Nat /\ window \in Nat
      /\ outcome = MissedOutcome(spec, window, watermark, mode, throttle)
  BY DEF PassInv
<1>2. PICK m, E : /\ Lists(m, spec, window, watermark) /\ Capped(E, m)
                  /\ OutcomeOf(outcome, E, Len(m), mode, throttle)
  BY <1>1, OutcomeIs
<1>3. PICK n \in Nat : n = Len(m)
  BY <1>1, <1>2, CappedRises
<1>4. PICK r \in 0..n : r = Len(E)
  BY <1>1, <1>2, <1>3, CappedRises
<1>5. r = IF n >= MAX_CATCHUP THEN MAX_CATCHUP ELSE n
  BY <1>2, <1>3, <1>4 DEF Capped
<1>6. Gap = First(m, n)
  BY <1>1, <1>2, <1>3, GapIs DEF Gap
<1>7. Cardinality(Gap) = n
  <2>1. n \in 0..Len(m)
    BY <1>3
  <2>2. Cardinality(First(m, n)) = n
    BY <1>1, <1>2, <2>1, ListCounts
  <2> QED
    BY <1>6, <2>2
<1>8. ASSUME mode = "coalesce" \/ (mode = "replay" /\ throttle = 0)
      PROVE Emitted = First(m, r)
  <2>1. TicksOf(outcome) = First(m, Len(E))
    BY <1>1, <1>2, <1>8, EmittedIs
  <2> QED
    BY <1>4, <2>1 DEF TicksOf, Emitted, Fires
<1>9. CASE n < MAX_CATCHUP
  <2>1. r = n
    BY <1>5, <1>9, CatchupAssumption
  <2>2. outcome.truncated = None
    BY <1>2, <1>3, <1>9, CatchupAssumption DEF OutcomeOf
  <2> QED
    BY <1>6, <1>7, <1>8, <1>9, <2>1, <2>2
<1>10. CASE ~(n < MAX_CATCHUP)
  <2>0. n >= MAX_CATCHUP /\ r = MAX_CATCHUP
    BY <1>5, <1>10, CatchupAssumption
  <2>1. PICK total \in Nat : total = IF n >= COUNT_CAP THEN COUNT_CAP ELSE n
    BY CatchupAssumption
  <2>2. outcome.truncated = [missed |-> total, executed |-> MAX_CATCHUP,
                             dropped |-> total - MAX_CATCHUP, saturated |-> n >= COUNT_CAP]
    BY <1>2, <1>3, <2>0, <2>1 DEF OutcomeOf
  <2>3. total - MAX_CATCHUP \in Nat
    BY <2>0, <2>1, CatchupAssumption
  <2>4. outcome.truncated \in Truncation
    BY <2>2, <2>3, CatchupAssumption DEF Truncation
  <2>5. outcome.truncated # None
    BY <2>4, CatchupAssumption
  <2>6. /\ outcome.truncated.missed = total /\ outcome.truncated.executed = MAX_CATCHUP
        /\ outcome.truncated.dropped = total - MAX_CATCHUP
        /\ outcome.truncated.saturated = (n >= COUNT_CAP)
    BY <2>2
  <2>7. outcome.truncated.executed + outcome.truncated.dropped = outcome.truncated.missed
    BY <2>1, <2>6, CatchupAssumption
  <2>8. IF outcome.truncated.saturated
        THEN outcome.truncated.missed <= Cardinality(Gap)
        ELSE outcome.truncated.missed = Cardinality(Gap)
    BY <1>7, <2>1, <2>6, CatchupAssumption
  <2>9. ASSUME mode = "coalesce" \/ (mode = "replay" /\ throttle = 0)
        PROVE  /\ Cardinality(Emitted) = MAX_CATCHUP
               /\ \A t \in Emitted, u \in Gap \ Emitted : t < u
    <3>0. Emitted = First(m, r)
      BY <1>8, <2>9
    <3>1. Cardinality(Emitted) = r
      <4>1. r \in 0..Len(m)
        BY <1>3
      <4>2. Cardinality(First(m, r)) = r
        BY <1>1, <1>2, <4>1, ListCounts
      <4> QED
        BY <3>0, <4>2
    <3>2. ASSUME NEW t \in Emitted, NEW u \in Gap \ Emitted PROVE t < u
      <4>1. PICK i \in 1..r : t = m[i]
        BY <3>0 DEF First
      <4>2. PICK j \in 1..n : u = m[j]
        BY <1>6 DEF First
      <4>3. j \notin 1..r
        BY <3>0, <4>2 DEF First
      <4>4. i < j /\ i \in 1..Len(m) /\ j \in 1..Len(m)
        BY <1>3, <4>1, <4>2, <4>3
      <4> QED
        BY <1>2, <4>1, <4>2, <4>4 DEF Lists
    <3> QED
      BY <2>0, <3>1, <3>2
  <2> QED
    BY <2>0, <2>5, <2>6, <2>7, <2>8, <2>9
<1> QED
  BY <1>9, <1>10

\* Replay emits a throttled beginning of the gap.
LEMMA PassIsThrottled == PassInv => ReplayIsThrottledPrefix
<1> SUFFICES ASSUME PassInv, outcome # None, mode = "replay",
                    NEW at, at = [i \in 1..Len(outcome.fires) |-> outcome.fires[i].at]
             PROVE  /\ \A i \in 1..Len(at) - 1 : at[i] < at[i + 1] /\ at[i + 1] - at[i] >= throttle
                    /\ ToSet(at) \subseteq Gap
                    /\ Gap # {} => at # <<>> /\ \A t \in Gap : at[1] <= t
                    /\ \A t \in Gap \ ToSet(at) :
                         \/ \E k \in ToSet(at) : k < t /\ t - k < throttle
                         \/ Cardinality({u \in Gap : u <= t}) > MAX_CATCHUP
  BY DEF ReplayIsThrottledPrefix
<1>1. /\ spec \in SUBSET Nat /\ mode \in CatchupMode /\ throttle \in Nat
      /\ watermark \in Nat /\ window \in Nat
      /\ outcome = MissedOutcome(spec, window, watermark, mode, throttle)
  BY DEF PassInv
<1>2. PICK m, E : /\ Lists(m, spec, window, watermark) /\ Capped(E, m)
                  /\ OutcomeOf(outcome, E, Len(m), mode, throttle)
  BY <1>1, OutcomeIs
<1>3. PICK n \in Nat : n = Len(m)
  BY <1>1, <1>2, CappedRises
<1>4. PICK r \in 0..n : r = Len(E)
  BY <1>1, <1>2, <1>3, CappedRises
<1>5. r = IF n >= MAX_CATCHUP THEN MAX_CATCHUP ELSE n
  BY <1>2, <1>3, <1>4 DEF Capped
<1>6. Gap = First(m, n)
  BY <1>1, <1>2, <1>3, GapIs DEF Gap
<1>7. \A i \in 1..n : m[i] \in Nat
  BY <1>2, <1>3, ElementOfSeq DEF Lists
<1>8. CASE n = 0
  <2>1. outcome.fires = <<>>
    BY <1>2, <1>3, <1>8 DEF OutcomeOf
  <2>2. at = <<>>
    BY <2>1
  <2>3. Len(at) = 0 /\ ToSet(at) = {}
    <3>1. at \in Seq(Nat) /\ Len(at) = 0
      BY <2>2, EmptySeq
    <3>2. ToSet(at) = First(at, Len(at))
      BY <3>1, ToSetIs
    <3> QED
      BY <3>1, <3>2 DEF First
  <2>4. Gap = {}
    BY <1>6, <1>8 DEF First
  <2>5. \A i : i \notin 1..Len(at) - 1
    BY <2>3
  <2> QED
    BY <2>3, <2>4, <2>5
<1>9. CASE n # 0
  <2>1. PICK s : s = Throttled(E, throttle)
    OBVIOUS
  <2>2. Keeps(s, E, throttle, r)
    <3>1. Rising(E)
      BY <1>1, <1>2, CappedRises
    <3> QED
      BY <1>1, <1>4, <2>1, <3>1, ThrottledKeeps
  <2>3. s \in Seq(Nat) /\ Len(s) \in Nat /\ DOMAIN s = 1..Len(s) /\ \A i \in 1..Len(s) : s[i] \in Nat
    BY <2>2, LenProperties, ElementOfSeq DEF Keeps
  <2>4. outcome.fires = [i \in 1..Len(s) |-> [at |-> s[i], count |-> 1, ticks |-> {s[i]}]]
    BY <1>2, <1>3, <1>9, <2>1 DEF OutcomeOf
  <2>5. Len(outcome.fires) = Len(s) /\ \A i \in 1..Len(s) : outcome.fires[i].at = s[i]
    BY <2>3, <2>4
  <2>6. at = s
    <3>1. at = [i \in 1..Len(s) |-> s[i]]
      BY <2>5
    <3>2. s = [i \in DOMAIN s |-> s[i]]
      BY <2>3
    <3> QED
      BY <2>3, <3>1, <3>2
  <2>7. ToSet(at) = {s[i] : i \in 1..Len(s)}
    BY <2>3, <2>6, ToSetIs DEF First
  <2>8. \A i \in 1..Len(at) - 1 : at[i] < at[i + 1] /\ at[i + 1] - at[i] >= throttle
    BY <2>2, <2>6 DEF Keeps
  <2>9. \A j \in 1..r : j \in 1..n /\ E[j] = m[j]
    BY <1>2, <1>4 DEF Capped
  <2>10. ToSet(at) \subseteq Gap
    BY <1>6, <2>2, <2>7, <2>9 DEF Keeps, First
  <2>11. r > 0 /\ r \in Nat
    BY <1>4, <1>5, <1>9, CatchupAssumption
  <2>12. Len(s) > 0 /\ s[1] = m[1]
    <3>1. 1 \in 1..r
      BY <2>11
    <3> QED
      BY <2>2, <2>9, <2>11, <3>1 DEF Keeps
  <2>13. at # <<>>
    BY <2>6, <2>12
  <2>14. ASSUME NEW t \in Gap PROVE at[1] <= t
    <3>1. PICK j \in 1..n : t = m[j]
      BY <1>6 DEF First
    <3>2. 1 \in 1..n /\ (j = 1 \/ 1 < j) /\ m[1] \in Nat /\ m[j] \in Nat
      BY <1>7, <1>9
    <3>3. j = 1 \/ m[1] < m[j]
      BY <1>2, <1>3, <3>2 DEF Lists
    <3> QED
      BY <2>6, <2>12, <3>1, <3>2, <3>3
  <2>15. ASSUME NEW t \in Gap \ ToSet(at)
         PROVE  \/ \E k \in ToSet(at) : k < t /\ t - k < throttle
                \/ Cardinality({u \in Gap : u <= t}) > MAX_CATCHUP
    <3>1. PICK j \in 1..n : t = m[j]
      BY <1>6 DEF First
    <3>2. CASE j \in 1..r
      <4>1. \/ \E x \in 1..Len(s) : s[x] = E[j]
            \/ \E x \in 1..Len(s) : s[x] < E[j] /\ E[j] - s[x] < throttle
        BY <2>2, <3>2 DEF Keeps
      <4>2. E[j] = t
        BY <2>9, <3>1, <3>2
      <4> QED
        BY <2>7, <4>1, <4>2
    <3>3. CASE j \notin 1..r
      <4>1. r = MAX_CATCHUP /\ j > r /\ j \in Nat
        BY <1>5, <3>1, <3>3, CatchupAssumption
      <4>2. {u \in Gap : u <= t} = First(m, j)
        <5>1. ASSUME NEW i \in 1..n PROVE (m[i] <= t) <=> i \in 1..j
          <6>1. m[i] \in Nat /\ m[j] \in Nat /\ i \in 1..Len(m) /\ j \in 1..Len(m)
            BY <1>3, <1>7
          <6>2. (i < j => m[i] < m[j]) /\ (j < i => m[j] < m[i])
            BY <1>2, <6>1 DEF Lists
          <6>3. i < j \/ i = j \/ j < i
            OBVIOUS
          <6> QED
            BY <3>1, <6>1, <6>2, <6>3
        <5>2. \A i \in 1..j : i \in 1..n
          OBVIOUS
        <5> QED
          BY <1>6, <5>1, <5>2 DEF First
      <4>3. j \in 0..Len(m)
        BY <1>3
      <4>4. Cardinality(First(m, j)) = j
        BY <1>1, <1>2, <4>3, ListCounts
      <4> QED
        BY <4>1, <4>2, <4>4
    <3> QED
      BY <3>2, <3>3
  <2> QED
    BY <2>8, <2>10, <2>13, <2>14, <2>15
<1> QED
  BY <1>8, <1>9

\* Every catch-up pass, of a restart, a skew tick or a late wake-up, emits and
\* reports what its policy promises: for every schedule, every gap, every cap
\* and every minimum distance (catchup.rs).
THEOREM CatchupStaysExact == PassSpec => []CatchupIsExact
<1>1. PassInit => PassInv
  BY PassesAssumption DEF PassInit, PassInv
<1>2. PassInv /\ [PassNext]_passVars => PassInv'
  <2> SUFFICES ASSUME PassInv, [PassNext]_passVars PROVE PassInv'
    OBVIOUS
  <2>1. ASSUME NEW end \in 1..Horizon, Pass(end) PROVE PassInv'
    BY <2>1 DEF Pass, PassInv
  <2>2. CASE UNCHANGED passVars
    BY <2>2 DEF PassInv, passVars
  <2> QED
    BY <2>1, <2>2 DEF PassNext
<1>3. PassInv => CatchupIsExact
  BY PassIsHonest, PassIsThrottled DEF CatchupIsExact
<1> QED
  BY <1>1, <1>2, <1>3, PTL DEF PassSpec

-----------------------------------------------------------------------------
(* The next fire *)

\* next_after finds the first instant after t, or there is none.
LEMMA NextAfterIs ==
  ASSUME NEW S \in SUBSET Nat, NEW t \in Nat
  PROVE  \/ NextAfter(S, t) = None /\ \A x \in S : x <= t
         \/ /\ NextAfter(S, t) \in S /\ NextAfter(S, t) \in Nat /\ NextAfter(S, t) > t
            /\ \A y \in S : y > t => NextAfter(S, t) <= y
<1>1. CASE ~ \E x \in S : x > t
  BY <1>1 DEF NextAfter
<1>2. CASE \E x \in S : x > t
  <2>1. PICK T : T = {x \in S : x > t}
    OBVIOUS
  <2>2. PICK m \in T : \A n \in T : m <= n
    BY <1>2, <2>1, LeastNat
  <2>3. m \in S /\ m > t /\ \A y \in S : y > t => m <= y
    BY <2>1, <2>2
  <2>4. PICK n : n = CHOOSE x \in S : x > t /\ \A y \in S : y > t => x <= y
    OBVIOUS
  <2>5. n \in S /\ n > t /\ \A y \in S : y > t => n <= y
    BY <2>3, <2>4, Zenon
  <2>6. NextAfter(S, t) = n
    BY <1>2, <2>4 DEF NextAfter
  <2> QED
    BY <2>5, <2>6
<1> QED
  BY <1>1, <1>2

\* The equation of the multiplication loop.
IsPower(f, b, n) == f = [k \in 0..n |-> IF k = 0 THEN 1 ELSE b * f[k - 1]]

\* The loop up to n.
PowerUpTo(f, b, n) ==
  /\ f = [k \in 0..n |-> f[k]]
  /\ \A k \in 0..n : f[k] \in Nat /\ f[k] = IF k = 0 THEN 1 ELSE b * f[k - 1]

\* Powers of numbers are numbers.
LEMMA PowerIsNat ==
  ASSUME NEW b \in Nat, NEW n \in Nat
  PROVE  Power(b, n) \in Nat
<1> DEFINE W(f, m) == PowerUpTo(f, b, m)
           T == {m \in Nat : \E f : W(f, m)}
<1>1. 0 \in T
  <2>1. PICK f : f = [k \in 0..0 |-> 1]
    OBVIOUS
  <2>2. W(f, 0)
    BY <2>1 DEF PowerUpTo
  <2> QED
    BY <2>2
<1>2. ASSUME NEW m \in Nat, m \in T PROVE m + 1 \in T
  <2>1. PICK f : W(f, m)
    BY <1>2
  <2>2. f[m] \in Nat
    <3>1. m \in 0..m
      OBVIOUS
    <3> QED
      BY <2>1, <3>1, Zenon DEF PowerUpTo
  <2>3. PICK v \in Nat : v = b * f[m]
    BY <2>2
  <2>4. PICK g : g = [k \in 0..(m + 1) |-> IF k = m + 1 THEN v ELSE f[k]]
    OBVIOUS
  <2>5. \A k \in 0..m : g[k] = f[k]
    BY <2>4
  <2>6. ASSUME NEW k \in 0..m PROVE g[k] \in Nat /\ g[k] = IF k = 0 THEN 1 ELSE b * g[k - 1]
    <3>1. f[k] \in Nat /\ f[k] = IF k = 0 THEN 1 ELSE b * f[k - 1]
      BY <2>1 DEF PowerUpTo
    <3>2. g[k] = f[k] /\ (k # 0 => g[k - 1] = f[k - 1])
      BY <2>5
    <3> QED
      BY <3>1, <3>2
  <2>7. g[m + 1] \in Nat /\ g[m + 1] = b * g[(m + 1) - 1]
    BY <2>3, <2>4, <2>5
  <2>8. \A k \in 0..(m + 1) : k \in 0..m \/ k = m + 1
    OBVIOUS
  <2>9. \A k \in 0..(m + 1) : g[k] \in Nat /\ g[k] = IF k = 0 THEN 1 ELSE b * g[k - 1]
    BY <2>6, <2>7, <2>8
  <2>10. g = [k \in 0..(m + 1) |-> g[k]]
    BY <2>4
  <2>11. W(g, m + 1)
    BY <2>9, <2>10 DEF PowerUpTo
  <2> QED
    BY <2>11
<1> HIDE DEF T
<1>3. \A m \in Nat : m \in T
  BY <1>1, <1>2, SetInduction
<1>4. PICK g : PowerUpTo(g, b, n)
  BY <1>3 DEF T
<1>5. IsPower(g, b, n)
  BY <1>4 DEF IsPower, PowerUpTo
<1>6. PICK f : f = CHOOSE h : IsPower(h, b, n)
  OBVIOUS
<1>7. IsPower(f, b, n)
  BY <1>5, <1>6, Zenon
<1>8. Power(b, n) = f[n]
  BY <1>6 DEF Power, IsPower
<1>9. \A k \in 0..n : f[k] = IF k = 0 THEN 1 ELSE b * f[k - 1]
  BY <1>7 DEF IsPower
<1> DEFINE U == {k \in Nat : k <= n => f[k] \in Nat}
<1>10. 0 \in U
  <2>1. f[0] = 1
    BY <1>9
  <2> QED
    BY <2>1
<1>11. ASSUME NEW k \in Nat, k \in U PROVE k + 1 \in U
  <2> SUFFICES ASSUME k + 1 <= n PROVE f[k + 1] \in Nat
    OBVIOUS
  <2>1. f[k] \in Nat
    BY <1>11
  <2>2. k + 1 \in 0..n /\ (k + 1) - 1 = k /\ k + 1 # 0
    OBVIOUS
  <2>3. f[k + 1] = b * f[k]
    BY <1>9, <2>2
  <2> QED
    BY <2>1, <2>3
<1> HIDE DEF U
<1>12. \A k \in Nat : k \in U
  BY <1>10, <1>11, SetInduction
<1>13. f[n] \in Nat
  BY <1>12 DEF U
<1> QED
  BY <1>8, <1>13

\* delay_for yields a number of instants.
LEMMA DelayIsNat ==
  ASSUME NEW p \in [base : Nat, factor : Nat, cap : Nat], NEW n \in Nat
  PROVE  DelayFor(p, n) \in Nat
<1>1. CASE n = 0
  BY <1>1 DEF DelayFor
<1>2. CASE n # 0
  <2>1. PICK factor \in Nat : factor = IF p.factor = 0 THEN 1 ELSE p.factor
    OBVIOUS
  <2>2. n - 1 \in Nat
    BY <1>2
  <2>3. PICK w \in Nat : w = Power(factor, n - 1)
    BY <2>2, PowerIsNat
  <2>4. p.base \in Nat /\ p.cap \in Nat
    OBVIOUS
  <2>5. p.base * w \in Nat
    BY <2>4
  <2>6. DelayFor(p, n) = IF w > MUL_MAX \/ p.base * w > p.cap THEN p.cap ELSE p.base * w
    BY <1>2, <2>1, <2>3 DEF DelayFor
  <2> QED
    BY <2>4, <2>5, <2>6
<1> QED
  BY <1>1, <1>2

\* retry_after yields an instant or nothing.
LEMMA RetryIs ==
  ASSUME NEW b \in BackoffState
  PROVE  RetryAfter(b) \in Nat \cup {None}
<1>1. CASE b.backoff = None \/ b.lastFailure = None
  BY <1>1 DEF RetryAfter
<1>2. CASE ~(b.backoff = None \/ b.lastFailure = None)
  <2>1. /\ b.backoff \in [base : Nat, factor : Nat, cap : Nat] /\ b.lastFailure \in Nat
        /\ b.failures \in Nat
    BY <1>2 DEF BackoffState
  <2>2. PICK d \in Nat : d = DelayFor(b.backoff, b.failures)
    BY <2>1, DelayIsNat
  <2> QED
    BY <1>2, <2>1, <2>2 DEF RetryAfter
<1> QED
  BY <1>1, <1>2

\* Without a failure on record there is no retry instant.
LEMMA NoRetry == RetryAfter(NoBackoff) = None /\ NoBackoff \in BackoffState
  BY DEF RetryAfter, NoBackoff, BackoffState

\* next_eligible_fire yields an instant after now, not before the retry instant,
\* and without one the next instant of the schedule.
LEMMA EligibleIs ==
  ASSUME NEW S \in SUBSET Nat, NEW now \in Nat, NEW b \in BackoffState, NEW next,
         next = NextEligibleFire(S, now, b)
  PROVE  /\ next \in Nat \cup {None}
         /\ next # None => next > now
         /\ next # None /\ RetryAfter(b) # None => next >= RetryAfter(b)
         /\ RetryAfter(b) = None => next = NextAfter(S, now)
<1>1. PICK retry \in Nat \cup {None} : retry = RetryAfter(b)
  BY RetryIs
<1>2. PICK natural : natural = NextAfter(S, now)
  OBVIOUS
<1>3. natural = None \/ (natural \in Nat /\ natural > now)
  BY <1>2, NextAfterIs
<1>4. next = IF natural # None /\ retry # None
             THEN IF retry > natural THEN retry ELSE natural ELSE natural
  BY <1>1, <1>2 DEF NextEligibleFire
<1> QED
  BY <1>1, <1>2, <1>3, <1>4
=============================================================================
