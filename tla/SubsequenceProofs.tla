-------------------------- MODULE SubsequenceProofs --------------------------
(***************************************************************************)
(* Facts about data that several components' proofs need: induction over   *)
(* the first numbers, and what a recursive function on them computes.      *)
(***************************************************************************)
EXTENDS Subsequence, SequenceTheorems, WellFoundedInduction, TLAPS

(* A set of numbers has a least one. *)
LEMMA LeastNat ==
  ASSUME NEW T \in SUBSET Nat, T # {}
  PROVE  \E x \in T : \A y \in T : x <= y
<1> DEFINE R == OpToRel(<, Nat)
<1>1. IsWellFoundedOn(R, Nat)
  BY NatLessThanWellFounded
<1>2. \A x \in Nat : \A y \in Nat : y < x => <<y, x>> \in R
  BY DEF OpToRel
<1>3. \E x \in T : \A y \in T : ~ (<<y, x>> \in R)
  <2> HIDE DEF R
  <2> QED BY <1>1, WFMin, Zenon
<1> HIDE DEF R
<1>4. PICK x \in T : \A y \in T : ~ (<<y, x>> \in R)
  BY <1>3
<1>5. ASSUME NEW y \in T PROVE x <= y
  <2>1. x \in Nat /\ y \in Nat
    OBVIOUS
  <2>2. ~(y < x)
    BY <1>2, <1>4, <2>1, Zenon
  <2> QED BY <2>1, <2>2
<1> QED BY <1>5

(* Induction: a set with 0 that has with a number the next one, up to n. *)
LEMMA UpTo ==
  ASSUME NEW n \in Nat, NEW S, 0 \in S, \A i \in 0..n : i \in S /\ i < n => i + 1 \in S
  PROVE  \A i \in 0..n : i \in S
<1> DEFINE T == {i \in 0..n : i \notin S}
<1>1. SUFFICES ASSUME T # {} PROVE FALSE
  BY DEF T
<1>2. T \in SUBSET Nat
  OBVIOUS
<1>3. PICK x \in T : \A y \in T : x <= y
  <2> HIDE DEF T
  <2> QED BY <1>1, <1>2, LeastNat
<1>4. x \in 1..n /\ x \notin S
  BY <1>3
<1>5. x - 1 \in 0..n /\ x - 1 < n /\ x - 1 + 1 = x /\ ~(x <= x - 1)
  BY <1>4
<1>6. x - 1 \notin T
  <2> HIDE DEF T
  <2> QED BY <1>3, <1>5
<1> QED BY <1>4, <1>5, <1>6

(* f computes, up to n and from base on, what the steps G say. *)
Unfolds(f, n, T, base, G) ==
  f \in [0..n -> T] /\ f[0] = base /\ \A i \in 1..n : f[i] = G[<<f[i - 1], i>>]

StepsOn(G, n, T) == G \in [T \X (1..n) -> T]

(* A recursive function on the first numbers exists, whatever its steps. *)
LEMMA Recursion ==
  ASSUME NEW n \in Nat, NEW T, NEW base \in T, NEW G, StepsOn(G, n, T)
  PROVE  \E f : Unfolds(f, n, T, base, G)
<1> DEFINE Good(f, m) == f \in [0..m -> T] /\ f[0] = base /\ \A i \in 1..m : f[i] = G[<<f[i - 1], i>>]
           S == {m \in 0..n : \E f \in [0..m -> T] : Good(f, m)}
<1> USE DEF StepsOn
<1>1. 0 \in S
  <2>1. [i \in 0..0 |-> base] \in [0..0 -> T]
    OBVIOUS
  <2>2. Good([i \in 0..0 |-> base], 0)
    BY <2>1
  <2> HIDE DEF Good
  <2> QED BY <2>1, <2>2
<1>2. ASSUME NEW m \in 0..n, m \in S, m < n PROVE m + 1 \in S
  <2>1. PICK f \in [0..m -> T] : Good(f, m)
    BY <1>2
  <2> DEFINE v == G[<<f[m], m + 1>>]
             g == [i \in 0..(m + 1) |-> IF i = m + 1 THEN v ELSE f[i]]
  <2>2. v \in T
    <3>1. f[m] \in T /\ m + 1 \in 1..n
      BY <1>2
    <3>2. <<f[m], m + 1>> \in T \X (1..n)
      BY <3>1
    <3> QED BY <3>2
  <2> HIDE DEF v
  <2>3. g \in [0..(m + 1) -> T]
    BY <2>2
  <2>4. g[m + 1] = v /\ \A i \in 0..m : g[i] = f[i]
    OBVIOUS
  <2>5. Good(g, m + 1)
    <3> HIDE DEF g
    <3>1. \A i \in 1..m : g[i] = G[<<g[i - 1], i>>]
      <4>1. \A i \in 1..m : f[i] = G[<<f[i - 1], i>>] /\ g[i] = f[i] /\ g[i - 1] = f[i - 1]
        BY <2>1, <2>4
      <4> QED BY <4>1
    <3>2. g[m + 1] = G[<<g[m], m + 1>>] /\ m + 1 - 1 = m
      BY <2>4 DEF v
    <3>3. g[0] = base
      BY <2>1, <2>4
    <3>4. \A i \in 1..(m + 1) : i \in 1..m \/ i = m + 1
      OBVIOUS
    <3>5. \A i \in 1..(m + 1) : g[i] = G[<<g[i - 1], i>>]
      <4> SUFFICES ASSUME NEW i \in 1..(m + 1) PROVE g[i] = G[<<g[i - 1], i>>]
        OBVIOUS
      <4>1. CASE i \in 1..m
        BY <3>1, <4>1
      <4>2. CASE i = m + 1
        BY <3>2, <4>2
      <4> QED BY <3>4, <4>1, <4>2
    <3> QED BY <2>3, <3>3, <3>5
  <2>6. m + 1 \in 0..n
    BY <1>2
  <2> HIDE DEF Good, g
  <2> QED BY <2>3, <2>5, <2>6
<1> HIDE DEF S
<1>3. n \in S
  BY <1>1, <1>2, UpTo
<1> USE DEF S
<1>4. PICK f \in [0..n -> T] : Good(f, n)
  <2> HIDE DEF Good
  <2> QED BY <1>3
<1> QED BY <1>4 DEF Unfolds

(* The numbers of a sequence and one more have a greatest. *)
LEMMA GreatestOf ==
  ASSUME NEW s \in Seq(Nat), NEW d \in Nat
  PROVE  \E x \in {s[j] : j \in DOMAIN s} \cup {d} : \A y \in {s[j] : j \in DOMAIN s} \cup {d} : x >= y
<1> DEFINE n == Len(s)
           U(i) == {s[j] : j \in 1..i} \cup {d}
           S == {i \in 0..n : \E x \in U(i) : \A y \in U(i) : x >= y}
<1>1. n \in Nat /\ DOMAIN s = 1..n /\ \A j \in 1..n : s[j] \in Nat
  OBVIOUS
<1> HIDE DEF n
<1>2. 0 \in S
  BY <1>1
<1>3. ASSUME NEW i \in 0..n, i \in S, i < n PROVE i + 1 \in S
  <2>1. PICK x \in U(i) : \A y \in U(i) : x >= y
    BY <1>3
  <2>2. i + 1 \in 1..n /\ i + 1 \in 0..n /\ s[i + 1] \in Nat
    BY <1>1, <1>3
  <2>3. x \in Nat
    BY <1>1
  <2>4. U(i + 1) = U(i) \cup {s[i + 1]}
    <3>1. 1..(i + 1) = 1..i \cup {i + 1}
      OBVIOUS
    <3> QED BY <3>1
  <2> HIDE DEF U
  <2>5. CASE x >= s[i + 1]
    BY <2>1, <2>2, <2>4, <2>5
  <2>6. CASE s[i + 1] > x
    <3>1. \A y \in U(i) : y \in Nat
      BY <1>1 DEF U
    <3>2. \A y \in U(i + 1) : s[i + 1] >= y
      BY <2>1, <2>2, <2>3, <2>4, <2>6, <3>1
    <3> QED BY <2>2, <2>4, <3>2
  <2> QED BY <2>2, <2>3, <2>5, <2>6
<1>4. n \in S
  <2>1. \A i \in 0..n : i \in S /\ i < n => i + 1 \in S
    BY <1>3
  <2>2. n \in 0..n
    BY <1>1
  <2> HIDE DEF S
  <2>3. \A i \in 0..n : i \in S
    BY <1>1, <1>2, <2>1, UpTo, Zenon
  <2> QED BY <2>2, <2>3
<1> QED BY <1>1, <1>4

----------------------------------------------------------------------------
(* What Keep has kept of the first i elements. *)
Kept0(f, s, S) ==
  /\ f[0] = <<>>
  /\ \A i \in 1..Len(s) : f[i] = IF s[i] \in S THEN Append(f[i - 1], s[i]) ELSE f[i - 1]

LEMMA KeepUnfolds ==
  ASSUME NEW T, NEW s \in Seq(T), NEW S
  PROVE  \E f \in [0..Len(s) -> Seq(T)] : Kept0(f, s, S) /\ Keep(s, S) = f[Len(s)]
<1> DEFINE n == Len(s)
           Q == Seq(T)
           Step(t, i) == IF s[i] \in S THEN Append(t, s[i]) ELSE t
           G == [p \in Q \X (1..n) |-> Step(p[1], p[2])]
           F(f) == [i \in 0..n |-> IF i = 0 THEN <<>> ELSE Step(f[i - 1], i)]
           kept == CHOOSE f : f = F(f)
<1>1. n \in Nat /\ (\A i \in 1..n : s[i] \in T) /\ <<>> \in Q
  OBVIOUS
<1>2. StepsOn(G, n, Q)
  <2>1. \A t \in Q, i \in 1..n : Step(t, i) \in Q
    BY <1>1
  <2> HIDE DEF Q, n, Step
  <2> QED BY <2>1 DEF StepsOn
<1>3. PICK f : Unfolds(f, n, Q, <<>>, G)
  <2> HIDE DEF G, n, Q
  <2>1. \E f : Unfolds(f, n, Q, <<>>, G)
    BY <1>1, <1>2, Recursion, Zenon
  <2> QED BY <2>1
<1>4. f \in [0..n -> Q] /\ f[0] = <<>> /\ \A i \in 1..n : f[i] = Step(f[i - 1], i)
  <2>1. f \in [0..n -> Q] /\ f[0] = <<>> /\ \A i \in 1..n : f[i] = G[<<f[i - 1], i>>]
    <3> HIDE DEF G, n, Q
    <3> QED BY <1>3 DEF Unfolds
  <2> HIDE DEF n, Q, Step
  <2>2. \A i \in 1..n : i - 1 \in 0..n
    BY <1>1
  <2>3. \A i \in 1..n : f[i - 1] \in Q
    BY <2>1, <2>2
  <2>4. \A i \in 1..n : <<f[i - 1], i>> \in Q \X (1..n)
    BY <2>3
  <2> QED BY <2>1, <2>4
<1> HIDE DEF n, Q, Step
<1>5. f = F(f)
  <2>1. \A i \in 0..n : f[i] = F(f)[i]
    BY <1>1, <1>4
  <2>2. F(f) = [i \in 0..n |-> F(f)[i]] /\ f = [i \in 0..n |-> f[i]]
    BY <1>4
  <2> QED BY <2>1, <2>2
<1>6. kept = F(kept)
  <2> HIDE DEF F
  <2> QED BY <1>5
<1>7. Keep(s, S) = kept[n]
  BY DEF Keep, n, Step
<1> HIDE DEF kept
<1>8. kept[0] = <<>> /\ \A i \in 1..n : kept[i] = Step(kept[i - 1], i)
  BY <1>1, <1>6
<1> DEFINE R == {i \in 0..n : kept[i] \in Q}
<1>9. \A i \in 0..n : i \in R
  <2>1. 0 \in R
    BY <1>1, <1>8
  <2>2. ASSUME NEW i \in 0..n, i \in R, i < n PROVE i + 1 \in R
    <3>1. i + 1 \in 1..n /\ i + 1 - 1 = i /\ i + 1 \in 0..n
      BY <1>1, <2>2
    <3>2. kept[i + 1] = Step(kept[i], i + 1)
      BY <1>8, <3>1
    <3>3. s[i + 1] \in T /\ kept[i] \in Seq(T)
      BY <1>1, <2>2, <3>1 DEF Q
    <3>4. kept[i + 1] \in Q
      BY <3>2, <3>3 DEF Q, Step
    <3> QED BY <3>1, <3>4
  <2>3. \A i \in 0..n : i \in R /\ i < n => i + 1 \in R
    BY <2>2
  <2> HIDE DEF R
  <2> QED BY <1>1, <2>1, <2>3, UpTo, Zenon
<1>10. kept \in [0..n -> Q]
  <2>1. kept = [i \in 0..n |-> kept[i]]
    <3>1. F(kept) = [i \in 0..n |-> F(kept)[i]]
      OBVIOUS
    <3> HIDE DEF F
    <3> QED BY <1>6, <3>1
  <2>2. \A i \in 0..n : kept[i] \in Q
    BY <1>9
  <2> QED BY <2>1, <2>2
<1>11. Kept0(kept, s, S)
  BY <1>8 DEF Kept0, n, Step
<1> QED BY <1>7, <1>10, <1>11 DEF n, Q

(* What is kept has the elements of the sequence that are in the set, and no others. *)
LEMMA KeepElements ==
  ASSUME NEW T, NEW s \in Seq(T), NEW S
  PROVE  /\ Keep(s, S) \in Seq(T) /\ Len(Keep(s, S)) <= Len(s)
         /\ \A k \in 1..Len(Keep(s, S)) : Keep(s, S)[k] \in S /\ \E j \in 1..Len(s) : s[j] = Keep(s, S)[k]
         /\ \A j \in 1..Len(s) : s[j] \in S => \E k \in 1..Len(Keep(s, S)) : Keep(s, S)[k] = s[j]
<1> DEFINE n == Len(s)
           Good(t, i) == /\ Len(t) <= i
                         /\ \A k \in 1..Len(t) : t[k] \in S /\ \E j \in 1..i : s[j] = t[k]
                         /\ \A j \in 1..i : s[j] \in S => \E k \in 1..Len(t) : t[k] = s[j]
<1>1. PICK f \in [0..n -> Seq(T)] : Kept0(f, s, S) /\ Keep(s, S) = f[n]
  BY KeepUnfolds
<1>2. n \in Nat /\ (\A i \in 1..n : s[i] \in T)
  OBVIOUS
<1> DEFINE R == {i \in 0..n : Good(f[i], i)}
<1>3. 0 \in R
  <2>1. f[0] = <<>>
    BY <1>1 DEF Kept0
  <2> QED BY <1>2, <2>1
<1>4. ASSUME NEW i \in 0..n, i \in R, i < n PROVE i + 1 \in R
  <2>1. i + 1 \in 1..n /\ i + 1 - 1 = i /\ i + 1 \in 0..n /\ s[i + 1] \in T
    BY <1>2, <1>4
  <2>2. f[i + 1] = IF s[i + 1] \in S THEN Append(f[i], s[i + 1]) ELSE f[i]
    BY <1>1, <2>1 DEF Kept0
  <2> DEFINE t == f[i]
             x == s[i + 1]
  <2>3. t \in Seq(T) /\ Good(t, i) /\ x \in T
    BY <1>4, <2>1
  <2>4. \A j \in 1..(i + 1) : j \in 1..i \/ j = i + 1
    OBVIOUS
  <2>5. 1..i \subseteq 1..(i + 1) /\ i + 1 \in 1..(i + 1)
    OBVIOUS
  <2>6. CASE x \in S
    <3> DEFINE u == Append(t, x)
    <3>1. f[i + 1] = u
      BY <2>2, <2>6
    <3> HIDE DEF t, x
    <3>2. Len(u) = Len(t) + 1 /\ (\A k \in 1..Len(t) : u[k] = t[k]) /\ u[Len(t) + 1] = x /\ Len(t) \in Nat
      BY <2>3
    <3> HIDE DEF u
    <3>3. \A k \in 1..Len(u) : k \in 1..Len(t) \/ k = Len(t) + 1
      BY <3>2
    <3>4. 1..Len(t) \subseteq 1..Len(u) /\ Len(t) + 1 \in 1..Len(u)
      BY <3>2
    <3>5. Len(u) <= i + 1
      BY <2>3, <3>2
    <3>6. ASSUME NEW k \in 1..Len(u) PROVE u[k] \in S /\ \E j \in 1..(i + 1) : s[j] = u[k]
      <4>1. CASE k \in 1..Len(t)
        BY <2>3, <2>5, <3>2, <4>1
      <4>2. CASE k = Len(t) + 1
        BY <2>5, <2>6, <3>2, <4>2 DEF x
      <4> QED BY <3>3, <4>1, <4>2
    <3>7. ASSUME NEW j \in 1..(i + 1), s[j] \in S PROVE \E k \in 1..Len(u) : u[k] = s[j]
      <4>1. CASE j \in 1..i
        <5>1. PICK k \in 1..Len(t) : t[k] = s[j]
          BY <2>3, <3>7, <4>1
        <5> QED BY <3>2, <3>4, <5>1
      <4>2. CASE j = i + 1
        BY <3>2, <3>4, <4>2 DEF x
      <4> QED BY <2>4, <4>1, <4>2
    <3>8. Good(u, i + 1)
      BY <3>5, <3>6, <3>7
    <3> HIDE DEF Good
    <3> QED BY <2>1, <3>1, <3>8
  <2>7. CASE x \notin S
    <3>1. f[i + 1] = t
      BY <2>2, <2>7
    <3>2. Good(t, i + 1)
      <4> HIDE DEF t
      <4>1. Len(t) <= i + 1
        BY <2>3
      <4>2. \A k \in 1..Len(t) : t[k] \in S /\ \E j \in 1..(i + 1) : s[j] = t[k]
        BY <2>3, <2>5
      <4>3. \A j \in 1..(i + 1) : s[j] \in S => \E k \in 1..Len(t) : t[k] = s[j]
        BY <2>3, <2>4, <2>7
      <4> QED BY <4>1, <4>2, <4>3
    <3> HIDE DEF Good
    <3> QED BY <2>1, <3>1, <3>2
  <2> QED BY <2>6, <2>7
<1>5. n \in R
  <2>1. \A i \in 0..n : i \in R /\ i < n => i + 1 \in R
    BY <1>4
  <2>2. n \in 0..n
    BY <1>2
  <2> HIDE DEF R, n
  <2>3. \A i \in 0..n : i \in R
    BY <1>2, <1>3, <2>1, UpTo, Zenon
  <2> QED BY <2>2, <2>3
<1>6. Good(Keep(s, S), n) /\ Keep(s, S) \in Seq(T)
  BY <1>1, <1>2, <1>5
<1> QED BY <1>6

(* And they keep their order. *)
LEMMA KeepOrder ==
  ASSUME NEW T, NEW s \in Seq(T), NEW S
  PROVE  \E g \in [1..Len(Keep(s, S)) -> 1..Len(s)] :
           /\ \A k \in 1..Len(Keep(s, S)) : Keep(s, S)[k] = s[g[k]] /\ s[g[k]] \in S
           /\ \A j, k \in 1..Len(Keep(s, S)) : j < k => g[j] < g[k]
           /\ \A j \in 1..Len(s) : s[j] \in S => \E k \in 1..Len(Keep(s, S)) : g[k] = j
<1> DEFINE n == Len(s)
           Good(g, t, i) ==
             /\ g \in [1..Len(t) -> 1..i]
             /\ \A k \in 1..Len(t) : t[k] = s[g[k]] /\ s[g[k]] \in S
             /\ \A j, k \in 1..Len(t) : j < k => g[j] < g[k]
             /\ \A j \in 1..i : s[j] \in S => \E k \in 1..Len(t) : g[k] = j
<1>1. PICK f \in [0..n -> Seq(T)] : Kept0(f, s, S) /\ Keep(s, S) = f[n]
  BY KeepUnfolds
<1>2. n \in Nat /\ (\A i \in 1..n : s[i] \in T)
  OBVIOUS
<1> DEFINE R == {i \in 0..n : \E g : Good(g, f[i], i)}
<1>3. 0 \in R
  <2>1. f[0] = <<>>
    BY <1>1 DEF Kept0
  <2>2. Good([k \in 1..0 |-> 0], f[0], 0)
    BY <2>1
  <2> HIDE DEF Good
  <2> QED BY <1>2, <2>2
<1>4. ASSUME NEW i \in 0..n, i \in R, i < n PROVE i + 1 \in R
  <2>1. i + 1 \in 1..n /\ i + 1 - 1 = i /\ i + 1 \in 0..n /\ s[i + 1] \in T
    BY <1>2, <1>4
  <2> DEFINE t == f[i]
             x == s[i + 1]
             m == Len(t)
  <2>2. f[i + 1] = IF x \in S THEN Append(t, x) ELSE t
    BY <1>1, <2>1 DEF Kept0
  <2>3. PICK g : Good(g, t, i)
    <3> HIDE DEF Good
    <3> QED BY <1>4
  <2>4. t \in Seq(T) /\ m \in Nat /\ x \in T
    BY <2>1
  <2>5. \A j \in 1..(i + 1) : j \in 1..i \/ j = i + 1
    OBVIOUS
  <2>6. 1..i \subseteq 1..(i + 1) /\ i + 1 \in 1..(i + 1)
    OBVIOUS
  <2>7. CASE x \in S
    <3> DEFINE u == Append(t, x)
               h == [k \in 1..(m + 1) |-> IF k = m + 1 THEN i + 1 ELSE g[k]]
    <3>1. f[i + 1] = u
      BY <2>2, <2>7
    <3>2. Len(u) = m + 1 /\ (\A k \in 1..m : u[k] = t[k]) /\ u[m + 1] = x
      BY <2>4
    <3>3. \A k \in 1..m : g[k] \in 1..i /\ t[k] = s[g[k]] /\ s[g[k]] \in S
      BY <2>3
    <3>4. \A k \in 1..(m + 1) : k \in 1..m \/ k = m + 1
      BY <2>4
    <3>5. h[m + 1] = i + 1 /\ \A k \in 1..m : h[k] = g[k]
      BY <2>4
    <3>6. m + 1 \in 1..(m + 1) /\ 1..m \subseteq 1..(m + 1)
      BY <2>4
    <3>7. \A k \in 1..(m + 1) : h[k] \in 1..(i + 1)
      BY <2>6, <3>3
    <3>8. h \in [1..(m + 1) -> 1..(i + 1)]
      BY <3>7
    <3> HIDE DEF h, u
    <3>9. ASSUME NEW k \in 1..(m + 1) PROVE u[k] = s[h[k]] /\ s[h[k]] \in S
      <4>1. CASE k \in 1..m
        BY <3>2, <3>3, <3>5, <4>1
      <4>2. CASE k = m + 1
        BY <2>7, <3>2, <3>5, <4>2
      <4> QED BY <3>4, <4>1, <4>2
    <3>10. ASSUME NEW j \in 1..(m + 1), NEW k \in 1..(m + 1), j < k PROVE h[j] < h[k]
      <4>1. j \in 1..m
        BY <2>4, <3>10
      <4>2. CASE k \in 1..m
        BY <2>3, <3>5, <3>10, <4>1, <4>2
      <4>3. CASE k = m + 1
        <5>1. g[j] \in 1..i
          BY <3>3, <4>1
        <5>2. g[j] < i + 1
          BY <5>1
        <5> QED BY <3>5, <4>1, <4>3, <5>2
      <4> QED BY <3>4, <4>2, <4>3
    <3>11. ASSUME NEW j \in 1..(i + 1), s[j] \in S PROVE \E k \in 1..(m + 1) : h[k] = j
      <4>1. CASE j \in 1..i
        <5>1. PICK k \in 1..m : g[k] = j
          BY <2>3, <3>11, <4>1
        <5> QED BY <3>5, <3>6, <5>1
      <4>2. CASE j = i + 1
        BY <3>5, <3>6, <4>2
      <4> QED BY <2>5, <4>1, <4>2
    <3>12. Good(h, u, i + 1)
      BY <3>2, <3>8, <3>9, <3>10, <3>11
    <3> HIDE DEF Good
    <3> QED BY <2>1, <3>1, <3>12
  <2>8. CASE x \notin S
    <3>1. f[i + 1] = t
      BY <2>2, <2>8
    <3>2. Good(g, t, i + 1)
      <4> HIDE DEF t
      <4>1. \A j \in 1..(i + 1) : s[j] \in S => \E k \in 1..m : g[k] = j
        BY <2>3, <2>5, <2>8
      <4>2. g \in [1..m -> 1..(i + 1)]
        BY <2>3, <2>6
      <4> QED BY <2>3, <4>1, <4>2
    <3> HIDE DEF Good
    <3> QED BY <2>1, <3>1, <3>2
  <2> QED BY <2>7, <2>8
<1>5. n \in R
  <2>1. \A i \in 0..n : i \in R /\ i < n => i + 1 \in R
    BY <1>4
  <2>2. n \in 0..n
    BY <1>2
  <2> HIDE DEF R, n
  <2>3. \A i \in 0..n : i \in R
    BY <1>2, <1>3, <2>1, UpTo, Zenon
  <2> QED BY <2>2, <2>3
<1>6. PICK g : Good(g, Keep(s, S), n)
  <2> HIDE DEF Good
  <2> QED BY <1>1, <1>5
<1> QED BY <1>6

(* What is kept of two sequences, one after the other. *)
LEMMA AppendConcat ==
  ASSUME NEW T, NEW s \in Seq(T), NEW t \in Seq(T), NEW x \in T
  PROVE  s \o Append(t, x) = Append(s \o t, x)
<1>1. <<x>> \in Seq(T) /\ s \o t \in Seq(T)
  OBVIOUS
<1>2. Append(t, x) = t \o <<x>> /\ Append(s \o t, x) = (s \o t) \o <<x>>
  BY <1>1, AppendIsConcat
<1>3. (s \o t) \o <<x>> = s \o (t \o <<x>>)
  BY <1>1, ConcatAssociative
<1> QED BY <1>2, <1>3

LEMMA KeepConcat ==
  ASSUME NEW T, NEW s \in Seq(T), NEW t \in Seq(T), NEW S
  PROVE  Keep(s \o t, S) = Keep(s, S) \o Keep(t, S)
<1> DEFINE m == Len(s)
           n == Len(t)
           u == s \o t
<1>1. /\ m \in Nat /\ n \in Nat /\ u \in Seq(T) /\ Len(u) = m + n
      /\ \A i \in 1..m : u[i] = s[i] /\ s[i] \in T
      /\ \A i \in 1..n : u[m + i] = t[i] /\ t[i] \in T
  OBVIOUS
<1>2. PICK f \in [0..m -> Seq(T)] : Kept0(f, s, S) /\ Keep(s, S) = f[m]
  BY KeepUnfolds
<1>3. PICK g \in [0..n -> Seq(T)] : Kept0(g, t, S) /\ Keep(t, S) = g[n]
  BY KeepUnfolds
<1>4. PICK h \in [0..Len(u) -> Seq(T)] : Kept0(h, u, S) /\ Keep(u, S) = h[Len(u)]
  <2>1. u \in Seq(T)
    BY <1>1
  <2> HIDE DEF u
  <2> QED BY <2>1, KeepUnfolds, Zenon
<1>5. /\ f[0] = <<>> /\ g[0] = <<>> /\ h[0] = <<>>
      /\ \A i \in 1..m : f[i] = IF s[i] \in S THEN Append(f[i - 1], s[i]) ELSE f[i - 1]
      /\ \A i \in 1..n : g[i] = IF t[i] \in S THEN Append(g[i - 1], t[i]) ELSE g[i - 1]
      /\ \A i \in 1..(m + n) : h[i] = IF u[i] \in S THEN Append(h[i - 1], u[i]) ELSE h[i - 1]
  <2> HIDE DEF u
  <2> QED BY <1>1, <1>2, <1>3, <1>4 DEF Kept0
<1> HIDE DEF m, n, u
<1> DEFINE A == {i \in 0..m : h[i] = f[i]}
           B == {i \in 0..n : h[m + i] = f[m] \o g[i]}
<1>6. \A i \in 0..m : i \in A
  <2>1. 0 \in A
    BY <1>1, <1>5
  <2>2. ASSUME NEW i \in 0..m, i \in A, i < m PROVE i + 1 \in A
    <3>1. i + 1 \in 1..m /\ i + 1 - 1 = i /\ i + 1 \in 0..m /\ i + 1 \in 1..(m + n)
      BY <1>1, <2>2
    <3>2. u[i + 1] = s[i + 1] /\ h[i] = f[i]
      BY <1>1, <2>2, <3>1
    <3>3. h[i + 1] = f[i + 1]
      BY <1>5, <3>1, <3>2
    <3> QED BY <3>1, <3>3
  <2>3. \A i \in 0..m : i \in A /\ i < m => i + 1 \in A
    BY <2>2
  <2> HIDE DEF A
  <2> QED BY <1>1, <2>1, <2>3, UpTo, Zenon
<1>7. \A i \in 0..n : i \in B
  <2>0. m \in 0..m /\ f[m] \in Seq(T)
    <3>1. m \in 0..m
      BY <1>1
    <3> QED BY <1>2, <3>1
  <2>1. 0 \in B
    <3>1. h[m] = f[m]
      BY <1>6, <2>0
    <3>2. m + 0 = m /\ 0 \in 0..n /\ f[m] \o <<>> = f[m]
      BY <1>1, <2>0
    <3> QED BY <1>5, <3>1, <3>2
  <2>2. ASSUME NEW i \in 0..n, i \in B, i < n PROVE i + 1 \in B
    <3>1. /\ i + 1 \in 1..n /\ i + 1 - 1 = i /\ i + 1 \in 0..n
          /\ m + (i + 1) \in 1..(m + n) /\ m + (i + 1) - 1 = m + i
      BY <1>1, <2>2
    <3>2. u[m + (i + 1)] = t[i + 1] /\ t[i + 1] \in T /\ h[m + i] = f[m] \o g[i]
      BY <1>1, <2>2, <3>1
    <3>3. g[i] \in Seq(T)
      BY <1>3, <2>2 DEF n
    <3>4. f[m] \o Append(g[i], t[i + 1]) = Append(f[m] \o g[i], t[i + 1])
      BY <2>0, <3>2, <3>3, AppendConcat
    <3>5. h[m + (i + 1)] = f[m] \o g[i + 1]
      <4>1. h[m + (i + 1)] = IF u[m + (i + 1)] \in S THEN Append(h[m + i], u[m + (i + 1)]) ELSE h[m + i]
        <5>1. \A k \in 1..(m + n) : h[k] = IF u[k] \in S THEN Append(h[k - 1], u[k]) ELSE h[k - 1]
          BY <1>5
        <5>2. PICK k \in 1..(m + n) : k = m + (i + 1) /\ k - 1 = m + i
          BY <1>1, <2>2, <3>1
        <5>3. h[k] = IF u[k] \in S THEN Append(h[k - 1], u[k]) ELSE h[k - 1]
          BY <5>1
        <5> QED BY <5>2, <5>3, Zenon
      <4>2. g[i + 1] = IF t[i + 1] \in S THEN Append(g[i], t[i + 1]) ELSE g[i]
        BY <1>5, <3>1
      <4> QED BY <3>2, <3>4, <4>1, <4>2
    <3> QED BY <3>1, <3>5
  <2>3. \A i \in 0..n : i \in B /\ i < n => i + 1 \in B
    BY <2>2
  <2>4. n \in Nat
    BY <1>1
  <2> HIDE DEF B
  <2> QED BY <2>1, <2>3, <2>4, UpTo, Zenon
<1>8. h[m + n] = f[m] \o g[n]
  <2>1. n \in 0..n
    BY <1>1
  <2> QED BY <1>7, <2>1
<1> QED BY <1>1, <1>2, <1>3, <1>4, <1>8 DEF m, n, u

(* Nothing is left out of a sequence that is in the set. *)
LEMMA KeepAll ==
  ASSUME NEW T, NEW s \in Seq(T), NEW S, \A i \in 1..Len(s) : s[i] \in S
  PROVE  Keep(s, S) = s
<1> DEFINE n == Len(s)
<1>1. n \in Nat /\ \A i \in 1..n : s[i] \in T
  OBVIOUS
<1>2. PICK f \in [0..n -> Seq(T)] : Kept0(f, s, S) /\ Keep(s, S) = f[n]
  BY KeepUnfolds
<1>3. f[0] = <<>> /\ \A i \in 1..n : f[i] = Append(f[i - 1], s[i])
  BY <1>2 DEF Kept0
<1> HIDE DEF n
<1> DEFINE A == {i \in 0..n : Len(f[i]) = i /\ \A j \in 1..i : f[i][j] = s[j]}
<1>4. \A i \in 0..n : i \in A
  <2>1. 0 \in A
    BY <1>1, <1>3
  <2>2. ASSUME NEW i \in 0..n, i \in A, i < n PROVE i + 1 \in A
    <3>1. i + 1 \in 1..n /\ i + 1 - 1 = i /\ i + 1 \in 0..n
      BY <1>1, <2>2
    <3>2. f[i] \in Seq(T) /\ s[i + 1] \in T /\ Len(f[i]) = i /\ \A j \in 1..i : f[i][j] = s[j]
      BY <1>1, <1>2, <2>2, <3>1
    <3>3. f[i + 1] = Append(f[i], s[i + 1])
      BY <1>3, <3>1
    <3>4. Len(f[i + 1]) = i + 1 /\ \A j \in 1..(i + 1) : f[i + 1][j] = s[j]
      BY <3>1, <3>2, <3>3
    <3> QED BY <3>1, <3>4
  <2>3. \A i \in 0..n : i \in A /\ i < n => i + 1 \in A
    BY <2>2
  <2> HIDE DEF A
  <2> QED BY <1>1, <2>1, <2>3, UpTo, Zenon
<1>5. f[n] \in Seq(T) /\ Len(f[n]) = n /\ \A j \in 1..n : f[n][j] = s[j]
  BY <1>1, <1>2, <1>4
<1> QED BY <1>2, <1>5 DEF n

(* What is kept of nothing, and of one element. *)
LEMMA KeepOne ==
  ASSUME NEW T, NEW x \in T, NEW S
  PROVE  /\ Keep(<<>>, S) = <<>>
         /\ x \in S => Keep(<<x>>, S) = <<x>>
         /\ x \notin S => Keep(<<x>>, S) = <<>>
<1> DEFINE e == <<>>
           o == <<x>>
<1>1. e \in Seq(T) /\ Len(e) = 0 /\ o \in Seq(T) /\ Len(o) = 1 /\ o[1] = x
  OBVIOUS
<1> HIDE DEF e, o
<1>2. Keep(e, S) = e
  <2>1. \A i \in 1..Len(e) : e[i] \in S
    BY <1>1
  <2> QED BY <1>1, <2>1, KeepAll, Zenon
<1>3. x \in S => Keep(o, S) = o
  BY <1>1, KeepAll
<1>4. ASSUME x \notin S PROVE Keep(o, S) = <<>>
  <2>1. PICK f \in [0..Len(o) -> Seq(T)] : Kept0(f, o, S) /\ Keep(o, S) = f[Len(o)]
    BY <1>1, KeepUnfolds
  <2>2. f[1] = f[1 - 1] /\ f[0] = <<>>
    BY <1>1, <1>4, <2>1 DEF Kept0
  <2>3. 1 - 1 = 0
    OBVIOUS
  <2> QED BY <1>1, <2>1, <2>2, <2>3
<1> QED BY <1>2, <1>3, <1>4 DEF e, o

(* A sequence is its two parts, wherever it is cut. *)
LEMMA CutInTwo ==
  ASSUME NEW T, NEW s \in Seq(T), NEW n \in 0..Len(s)
  PROVE  /\ SubSeq(s, 1, n) \in Seq(T) /\ SubSeq(s, n + 1, Len(s)) \in Seq(T)
         /\ SubSeq(s, 1, n) \o SubSeq(s, n + 1, Len(s)) = s
         /\ Len(SubSeq(s, 1, n)) = n /\ Len(SubSeq(s, n + 1, Len(s))) = Len(s) - n
         /\ \A i \in 1..n : SubSeq(s, 1, n)[i] = s[i]
         /\ \A i \in 1..(Len(s) - n) : SubSeq(s, n + 1, Len(s))[i] = s[n + i]
<1>1. /\ SubSeq(s, 1, n) \in Seq(T) /\ SubSeq(s, n + 1, Len(s)) \in Seq(T)
      /\ Len(SubSeq(s, 1, n)) = n /\ Len(SubSeq(s, n + 1, Len(s))) = Len(s) - n
      /\ \A i \in 1..n : SubSeq(s, 1, n)[i] = s[i]
      /\ \A i \in 1..(Len(s) - n) : SubSeq(s, n + 1, Len(s))[i] = s[n + i]
  OBVIOUS
<1>2. SubSeq(s, 1, n) \o SubSeq(s, n + 1, Len(s)) = SubSeq(s, 1, Len(s))
  <2>1. 1 \in 1..(Len(s) + 1) /\ n \in (1 - 1)..Len(s) /\ Len(s) \in n..Len(s)
    OBVIOUS
  <2> QED BY <2>1, ConcatAdjacentSubSeq
<1>3. SubSeq(s, 1, Len(s)) = s
  BY SubSeqFull
<1> QED BY <1>1, <1>2, <1>3

(* What is kept of a sequence that is cut in two. *)
LEMMA KeepCut ==
  ASSUME NEW T, NEW s \in Seq(T), NEW S, NEW n \in 0..Len(s)
  PROVE  Keep(s, S) = Keep(SubSeq(s, 1, n), S) \o Keep(SubSeq(s, n + 1, Len(s)), S)
<1> DEFINE a == SubSeq(s, 1, n)
           b == SubSeq(s, n + 1, Len(s))
<1>1. a \in Seq(T) /\ b \in Seq(T) /\ a \o b = s
  BY CutInTwo
<1> HIDE DEF a, b
<1>2. \A p, q \in Seq(T) : Keep(p \o q, S) = Keep(p, S) \o Keep(q, S)
  BY KeepConcat
<1>3. Keep(a \o b, S) = Keep(a, S) \o Keep(b, S)
  BY <1>1, <1>2
<1> QED BY <1>1, <1>3 DEF a, b
=============================================================================
